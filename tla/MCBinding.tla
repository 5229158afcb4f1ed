------------------------------ MODULE MCBinding ------------------------------
(* An instance of Binding for TLC.                                          *)
EXTENDS Binding
=============================================================================
