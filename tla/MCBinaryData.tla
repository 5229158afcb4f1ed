---------------------------- MODULE MCBinaryData ----------------------------
(* Three bytes, asked for two at a time by two callers.                    *)
EXTENDS BinaryData

MCContent == <<1, 2, 3>>
=============================================================================
