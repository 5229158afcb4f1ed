----------------------------- MODULE BinaryData -----------------------------
(***************************************************************************)
(* BinaryData over its container: the buffer of BinaryData, the Stream-    *)
(* Reader below it that pauses and resumes a Node stream, and a file that  *)
(* is initialized and destroyed around a map.  Every action is the code    *)
(* between two awaits of one call, or an event of the stream.              *)
(*                                                                         *)
(* Data abstraction: a byte is a member of Content, which names it by its  *)
(* place; names, MIME types and sizes of files are left out.  A stream     *)
(* that fails is left out: nobody listens to its error event, which ends   *)
(* the process.                                                            *)
(***************************************************************************)
EXTENDS Integers, SequencesExt

CONSTANTS Content,    \* the bytes of the file or stream
          Callers,    \* who calls the methods of one BinaryData
          NoCaller,
          Sizes,      \* sizes that are asked for
          MaxData     \* bytes of one data event

ASSUME BinaryAssumption ==
  /\ Content \in Seq(Nat) /\ IsInjective(Content)
  /\ NoCaller \notin Callers
  /\ Sizes \subseteq Nat \ {0}
  /\ MaxData \in Nat

VARIABLES file,        \* the container is a FileContainer
          opened,      \* its handle is defined
          stream,      \* the Node stream
          reader,      \* the StreamReader, if there is one
          buffer,      \* BinaryData.buffer
          reads,       \* the calls in progress
          out,         \* history: what was read since the container opened
          piped,       \* history: what the stream of toStream() yields
          dropped,     \* history: bytes were dropped, see Initialize, Destroy
          overlapped   \* history: two calls were in progress at once

binaryVars == <<file, opened, stream, reader, buffer, reads, out, piped, dropped, overlapped>>
history == <<piped, dropped, overlapped>>

NewStream(rest) == [rest |-> rest, flowing |-> TRUE, ended |-> FALSE]
NewReader == [present |-> TRUE, buffer |-> <<>>, ended |-> FALSE,
              pending |-> NoCaller, ejected |-> FALSE]
NoCall    == [op |-> "none", at |-> "idle", step |-> 0, size |-> 0, wanted |-> 0,
              chunk |-> <<>>]

Bytes  == {s \in Seq(Range(Content)) : IsInjective(s)}
Stream == [rest : Bytes, flowing : BOOLEAN, ended : BOOLEAN]
Reader == [present : BOOLEAN, buffer : Bytes, ended : BOOLEAN,
           pending : Callers \cup {NoCaller}, ejected : BOOLEAN]
CallOf == [op : {"none", "peek", "read", "chunk", "all"},
           at : {"idle", "waiting", "resumed", "append", "filled"},
           step : Nat, size : Nat, wanted : Nat, chunk : Bytes]

BinaryTypeOK ==
  /\ file \in BOOLEAN /\ opened \in BOOLEAN
  /\ dropped \in BOOLEAN /\ overlapped \in BOOLEAN
  /\ stream \in Stream /\ reader \in Reader
  /\ reads \in [Callers -> CallOf]
  /\ {buffer, out, piped} \subseteq Bytes

BinaryInit ==
  /\ file \in BOOLEAN
  /\ opened = FALSE
  /\ stream = NewStream(Content)
  /\ reader = [NewReader EXCEPT !.present = ~file]
  /\ buffer = <<>>
  /\ reads = [c \in Callers |-> NoCall]
  /\ out = <<>> /\ piped = <<>>
  /\ dropped = FALSE /\ overlapped = FALSE

Prefix(s, n)  == SubSeq(s, 1, n)             \* subarray(0, n)
Without(s, n) == SubSeq(s, n + 1, Len(s))    \* subarray(n)

Busy == {c \in Callers : reads[c].at # "idle"}

-----------------------------------------------------------------------------
(* StreamReader                                                            *)

(* notifyData: the waiting call, if it still waits, goes on.               *)
Notified(calls) ==
  [c \in Callers |-> IF c = reader.pending /\ calls[c].at = "waiting"
                     THEN [calls[c] EXCEPT !.at = "resumed"] ELSE calls[c]]

OnData(n) ==
  /\ reader.present /\ ~reader.ejected
  /\ stream.flowing /\ n <= Len(stream.rest)
  /\ stream' = [stream EXCEPT !.rest = Without(@, n), !.flowing = FALSE]
  /\ reader' = [reader EXCEPT !.buffer = @ \o Prefix(stream.rest, n),
                              !.pending = NoCaller]
  /\ reads' = Notified(reads)
  /\ UNCHANGED <<file, opened, buffer, out, history>>

(* Mutated form: the end of the stream wakes nobody.                       *)
OnEndSilent ==
  /\ reader.present /\ ~reader.ejected
  /\ stream.rest = <<>> /\ ~stream.ended
  /\ stream' = [stream EXCEPT !.flowing = FALSE, !.ended = TRUE]
  /\ reader' = [reader EXCEPT !.ended = TRUE]
  /\ UNCHANGED <<file, opened, buffer, reads, out, history>>

(* Node may emit the end of a stream that the last data event paused.      *)
OnEnd ==
  /\ reader.present /\ ~reader.ejected
  /\ stream.rest = <<>> /\ ~stream.ended
  /\ stream' = [stream EXCEPT !.flowing = FALSE, !.ended = TRUE]
  /\ reader' = [reader EXCEPT !.ended = TRUE, !.pending = NoCaller]
  /\ reads' = Notified(reads)
  /\ UNCHANGED <<file, opened, buffer, out, history>>

(* Mutated form: what is there is enough (an `if` for the `while`).        *)
EnoughIfAny(wanted) == reader.buffer # <<>> \/ reader.ended

Enough(wanted) == Len(reader.buffer) >= wanted \/ reader.ended

Remaining(wanted) == Without(reader.buffer, wanted)

(* read(wanted) of the container, up to its next await: a chunk, a throw   *)
(* (not initialized, ejected), or waitForData, which rejects when another  *)
(* call waits, yet puts its own resolve in the place of the other's.       *)
ReadContainer(c, started) ==
  LET wanted == started.wanted
      to(place) == reads' = [reads EXCEPT ![c] = [started EXCEPT !.at = place]]
      failed    == reads' = [reads EXCEPT ![c] = NoCall]
  IN CASE ~reader.present ->
            failed /\ UNCHANGED <<stream, reader>>
       [] reader.present /\ Enough(wanted) ->
            /\ reads' = [reads EXCEPT ![c] = [started EXCEPT
                          !.at = "append",
                          !.chunk = Prefix(reader.buffer,
                                           IF wanted < Len(reader.buffer) THEN wanted
                                           ELSE Len(reader.buffer))]]
            /\ reader' = [reader EXCEPT !.buffer = Remaining(wanted)]
            /\ UNCHANGED stream
       [] reader.present /\ ~Enough(wanted) /\ reader.ejected ->
            failed /\ UNCHANGED <<stream, reader>>
       [] OTHER ->
            /\ stream' = [stream EXCEPT !.flowing = TRUE]
            /\ reader' = [reader EXCEPT !.pending = c]
            /\ IF reader.pending = NoCaller THEN to("waiting") ELSE failed

(* `await this.waitForData()` is over: the loop of read goes round.        *)
Resume(c) ==
  /\ reads[c].at = "resumed"
  /\ ReadContainer(c, reads[c])
  /\ UNCHANGED <<file, opened, buffer, out, history>>

-----------------------------------------------------------------------------
(* BinaryData                                                              *)

(* fillBuffer(size), up to its first await.                                *)
FillBuffer(c, started) ==
  IF Len(buffer) < started.size
  THEN ReadContainer(c, [started EXCEPT !.wanted = started.size - Len(buffer)])
  ELSE /\ reads' = [reads EXCEPT ![c] = [started EXCEPT !.at = "filled"]]
       /\ UNCHANGED <<stream, reader>>

(* peek(n), read(n), next() of chunkBy(n) and getAllData(n)                *)
Start(c, op, n) ==
  /\ reads[c].at = "idle"
  /\ FillBuffer(c, [op |-> op, at |-> "idle", step |-> n, wanted |-> 0, chunk |-> <<>>,
                    size |-> IF op = "all" THEN Len(buffer) + n ELSE n])
  /\ overlapped' = (overlapped \/ Busy # {})
  /\ UNCHANGED <<file, opened, buffer, out, piped, dropped>>

Append_(c) ==
  /\ reads[c].at = "append"
  /\ buffer' = buffer \o reads[c].chunk
  /\ reads' = [reads EXCEPT ![c].at = "filled", ![c].chunk = <<>>]
  /\ UNCHANGED <<file, opened, stream, reader, out, history>>

(* The loop of getAllData goes on as long as its last read was filled.     *)
ReadOn(c) ==
  /\ reads[c].at = "filled" /\ reads[c].op = "all"
  /\ Len(buffer) >= reads[c].size
  /\ FillBuffer(c, [reads[c] EXCEPT !.size = @ + reads[c].step])
  /\ UNCHANGED <<file, opened, buffer, out, history>>

(* consumeBuffer: how much a call takes from the buffer.  A read takes all *)
(* of it, whatever was asked for, a peek nothing.                          *)
Consumed(op, n) ==
  CASE op = "peek"  -> 0
    [] op = "chunk" -> n
    [] OTHER        -> Len(buffer)

(* What a call that ends now returns, and consumes unless it is a peek.    *)
Return(c) ==
  LET n == Consumed(reads[c].op, reads[c].step)
  IN /\ reads[c].at = "filled"
     /\ reads[c].op = "all" => Len(buffer) < reads[c].size
     /\ out' = out \o Prefix(buffer, IF n < Len(buffer) THEN n ELSE Len(buffer))
     /\ buffer' = Without(buffer, n)
     /\ reads' = [reads EXCEPT ![c] = NoCall]
     /\ UNCHANGED <<file, opened, stream, reader, history>>

(* Mutated form: the bytes the reader holds are not handed over.           *)
ToStreamDropsReader ==
  /\ reader.present /\ ~reader.ejected
  /\ piped' = buffer \o stream.rest
  /\ buffer' = <<>>
  /\ reader' = [reader EXCEPT !.buffer = <<>>, !.ejected = TRUE]
  /\ stream' = [stream EXCEPT !.rest = <<>>]
  /\ overlapped' = (overlapped \/ Busy # {})
  /\ UNCHANGED <<file, opened, reads, out, dropped>>

(* toStream: the reader unhooks, what it holds goes ahead of the stream,   *)
(* and the buffer of BinaryData ahead of that.  A second one throws.       *)
ToStream ==
  /\ reader.present /\ ~reader.ejected
  /\ piped' = buffer \o reader.buffer \o stream.rest
  /\ buffer' = <<>>
  /\ reader' = [reader EXCEPT !.buffer = <<>>, !.ejected = TRUE]
  /\ stream' = [stream EXCEPT !.rest = <<>>]
  /\ overlapped' = (overlapped \/ Busy # {})
  /\ UNCHANGED <<file, opened, reads, out, dropped>>

-----------------------------------------------------------------------------
(* What the interpreter does to every file in its input: initialize before *)
(* the map, destroy after a map that succeeded.                            *)

(* A handle that is still open reads on where the last stream left it,     *)
(* which may have read ahead.                                              *)
Initialize ==
  /\ file /\ Busy = {}
  /\ \/ /\ ~opened
        /\ stream' = NewStream(Content)
        /\ out' = <<>> /\ piped' = <<>> /\ dropped' = FALSE
     \/ /\ opened
        /\ \E n \in 0..Len(stream.rest) : stream' = NewStream(Without(stream.rest, n))
        /\ dropped' = TRUE
        /\ UNCHANGED <<out, piped>>
  /\ opened' = TRUE
  /\ reader' = NewReader
  /\ UNCHANGED <<file, buffer, reads, overlapped>>

(* A handle that does not close stays, only the buffer is emptied; so it   *)
(* is with a container that is no file.                                    *)
Destroy ==
  /\ Busy = {}
  /\ buffer' = <<>>
  /\ \/ /\ file /\ opened
        /\ opened' = FALSE
        /\ reader' = [NewReader EXCEPT !.present = FALSE]
        /\ UNCHANGED dropped
     \/ /\ buffer # <<>>
        /\ dropped' = TRUE
        /\ UNCHANGED <<opened, reader>>
  /\ UNCHANGED <<file, stream, reads, out, piped, overlapped>>

Events == OnEnd \/ \E n \in 1..MaxData : OnData(n)

Continue(c) == Resume(c) \/ Append_(c) \/ ReadOn(c) \/ Return(c)

BinaryNext ==
  \/ Events
  \/ \E c \in Callers :
       \/ \E op \in {"peek", "read", "chunk", "all"}, n \in Sizes : Start(c, op, n)
       \/ Continue(c)
  \/ ToStream
  \/ Initialize
  \/ Destroy

(* A stream that flows delivers or ends; promises go on.                   *)
BinarySpec ==
  /\ BinaryInit /\ [][BinaryNext]_binaryVars
  /\ WF_binaryVars(stream.flowing /\ Events)
  /\ \A c \in Callers : WF_binaryVars(Continue(c))

-----------------------------------------------------------------------------
InFlight(c) == reads[c].chunk
Sequential  == ~dropped /\ ~overlapped
Readable    == reader.present

(* Called one at a time, the methods of BinaryData hand out the content in *)
(* order and whole: what was read, the stream of toStream(), the buffer,   *)
(* a chunk on its way, the reader and the stream make up the content.      *)
InOrder ==
  Sequential /\ Readable =>
    \A c \in Callers :
      Busy \subseteq {c} =>
        out \o (piped \o (buffer \o (InFlight(c) \o (reader.buffer \o stream.rest))))
          = Content

(* Who holds bytes: what was handed out, the buffers on the way, and the   *)
(* chunk each call is about to append.                                     *)
Holders ==
  ({"out", "piped", "buffer", "reader", "stream"} \X {NoCaller}) \cup ({"call"} \X Callers)

Held(h) ==
  CASE h[1] = "out"    -> out
    [] h[1] = "piped"  -> piped
    [] h[1] = "buffer" -> buffer
    [] h[1] = "reader" -> reader.buffer
    [] h[1] = "stream" -> stream.rest
    [] h[1] = "call"   -> InFlight(h[2])

(* However calls overlap and even if they fail, no byte is handed out      *)
(* twice and none is lost.                                                 *)
NoByteTwice ==
  \A g, h \in Holders : g # h => Range(Held(g)) \cap Range(Held(h)) = {}

NoByteLost ==
  ~dropped /\ Readable =>
    \A b \in Range(Content) : \E h \in Holders : b \in Range(Held(h))

(* What makes these inductive.  A file is readable while it is open, and   *)
(* nobody reads one that is not.                                           *)
Attached ==
  /\ opened => file
  /\ Readable <=> (file => opened)
  /\ ~Readable => Busy = {} /\ buffer = <<>> /\ reader.buffer = <<>>
  /\ reader.ended => stream.rest = <<>>

(* Only a call that is about to append holds a chunk, one call at a time   *)
(* is one, and the one the reader is to wake waits.                        *)
OneChunk ==
  /\ \A c \in Callers : reads[c].at # "append" => InFlight(c) = <<>>
  /\ ~overlapped => \A c, d \in Busy : c = d
  /\ ~overlapped /\ reader.pending # NoCaller => reads[reader.pending].at = "waiting"

(* What toStream() takes is all there is.                                  *)
EjectsAll ==
  /\ ~dropped /\ Readable /\ piped # <<>> => reader.ejected
  /\ Sequential /\ Readable /\ reader.ejected =>
       /\ buffer = <<>> /\ reader.buffer = <<>> /\ stream.rest = <<>>
       /\ \A c \in Callers : InFlight(c) = <<>>

(* A call waits for what the buffer lacks, and gets less only at the end.  *)
ShortAtEnd ==
  \A c \in Callers :
    /\ reads[c].op = "chunk" => reads[c].size = reads[c].step
    /\ Sequential =>
         /\ reads[c].at \in {"waiting", "resumed", "append"} =>
              reads[c].wanted + Len(buffer) = reads[c].size
         /\ \/ reads[c].at = "append" /\ Len(InFlight(c)) < reads[c].wanted
            \/ reads[c].at = "filled" /\ Len(buffer) < reads[c].size
            => reader.ended /\ reader.buffer = <<>>

BinaryInv ==
  /\ BinaryTypeOK /\ InOrder /\ NoByteTwice /\ NoByteLost
  /\ Attached /\ OneChunk /\ EjectsAll /\ ShortAtEnd

(* "Specifies how many bytes should be in one chunk, except last which can *)
(* be smaller": a shorter chunk is the last.                               *)
ChunksFull ==
  [][\A c \in Callers :
       reads[c].op = "chunk" /\ reads[c].at = "filled" /\ reads'[c].at = "idle"
         /\ Sequential /\ Len(out') - Len(out) # reads[c].step =>
           Len(out') - Len(out) < reads[c].step /\ (~reader.ejected => out' = Content)]_binaryVars

(* "Reads data from Stream until the stream is closed"                     *)
AllIsRest ==
  [][\A c \in Callers :
       reads[c].op = "all" /\ reads[c].at = "filled" /\ reads'[c].at = "idle"
         /\ Sequential /\ ~reader.ejected => out' = Content]_binaryVars

(* What chunkBy and getAllData promise.                                    *)
ReadsWhole == ChunksFull /\ AllIsRest

(* Every call settles, with data, the end or an error, unless it overlaps  *)
(* another one ("this function is never called twice without awaiting its  *)
(* promise in between").                                                   *)
CallSettles ==
  \A c \in Callers : reads[c].at # "idle" ~> reads[c].at = "idle" \/ overlapped
=============================================================================
