--------------------------- MODULE TransferProofs ---------------------------
(***************************************************************************)
(* Proofs about what a client transfers.  BinaryData: the bytes of files   *)
(* and streams, for any content, callers, sizes and data events.           *)
(* HttpClient: requests and the digest handler, for any requests, targets, *)
(* nonces and plans.                                                       *)
(***************************************************************************)
EXTENDS BinaryData, HttpClient, SequenceTheorems, TLAPS

(***************************************************************************)
(* BinaryData: bytes.                                                      *)
(***************************************************************************)

LEMMA NoBytes ==
  /\ <<>> \in Bytes /\ Range(<<>>) = {} /\ Len(<<>>) = 0
  /\ \A s \in Bytes : s \o <<>> = s /\ <<>> \o s = s
<1>1. <<>> \in Seq(Range(Content)) /\ Len(<<>>) = 0 /\ DOMAIN <<>> = {}
  BY EmptySeq
<1>2. <<>> \in Bytes /\ Range(<<>>) = {}
  BY <1>1 DEF Bytes, IsInjective, Range
<1>3. \A s \in Bytes : s \o <<>> = s /\ <<>> \o s = s
  BY ConcatEmptySeq DEF Bytes
<1>4. QED
  BY <1>1, <1>2, <1>3

LEMMA BytesType ==
  ASSUME NEW s \in Bytes
  PROVE  /\ s \in Seq(Range(Content)) /\ Len(s) \in Nat /\ DOMAIN s = 1..Len(s)
         /\ Range(s) \subseteq Range(Content)
         /\ \A i, j \in 1..Len(s) : s[i] = s[j] => i = j
         /\ s # <<>> => Len(s) > 0
<1>1. s \in Seq(Range(Content))
  BY DEF Bytes
<1>2. Len(s) \in Nat /\ DOMAIN s = 1..Len(s)
  BY <1>1, LenProperties
<1>3. Range(s) \subseteq Range(Content)
  BY <1>1, RangeOfSeq
<1>4. s # <<>> => Len(s) > 0
  BY <1>1, EmptySeq
<1>5. \A i, j \in 1..Len(s) : s[i] = s[j] => i = j
  BY <1>2 DEF Bytes, IsInjective
<1>6. QED
  BY <1>1, <1>2, <1>3, <1>4, <1>5

LEMMA ContentBytes == Content \in Bytes
<1>1. Content \in Seq(Nat)
  BY BinaryAssumption
<1>2. Content \in Seq(Range(Content))
  BY <1>1, SeqOfRange
<1>3. QED
  BY <1>2, BinaryAssumption DEF Bytes

(* Bytes behind others, if none are in both.                               *)
LEMMA JoinedBytes ==
  ASSUME NEW s \in Bytes, NEW t \in Bytes, Range(s) \cap Range(t) = {}
  PROVE  /\ s \o t \in Bytes
         /\ Range(s \o t) = Range(s) \cup Range(t)
         /\ Len(s \o t) = Len(s) + Len(t)
<1> DEFINE u == s \o t
           m == Len(s)
           n == Len(t)
<1>1. /\ m \in Nat /\ n \in Nat
      /\ s \in Seq(Range(Content)) /\ t \in Seq(Range(Content))
      /\ DOMAIN s = 1..m /\ DOMAIN t = 1..n
      /\ \A i, j \in 1..m : s[i] = s[j] => i = j
      /\ \A i, j \in 1..n : t[i] = t[j] => i = j
  BY BytesType
<1>2. /\ u \in Seq(Range(Content)) /\ Len(u) = m + n
      /\ \A i \in 1..(m + n) : u[i] = IF i <= m THEN s[i] ELSE t[i - m]
  BY <1>1, ConcatProperties
<1>3. Range(u) = Range(s) \cup Range(t)
  BY <1>1, RangeConcatenation
<1>4. \A i \in 1..m, j \in 1..n : s[i] # t[j]
  <2>1. \A i \in DOMAIN s : s[i] \in Range(s)
    BY Zenon DEF Range
  <2>2. \A j \in DOMAIN t : t[j] \in Range(t)
    BY Zenon DEF Range
  <2>3. QED
    BY <1>1, <2>1, <2>2
<1> HIDE DEF u, m, n
<1>5. ASSUME NEW i \in 1..(m + n), NEW j \in 1..(m + n), u[i] = u[j]
      PROVE  i = j
  <2>1. CASE i <= m /\ j <= m
    <3>1. i \in 1..m /\ j \in 1..m
      BY <1>1, <2>1
    <3>2. s[i] = s[j]
      BY <1>2, <1>5, <2>1
    <3>3. QED
      BY <1>1, <3>1, <3>2
  <2>2. CASE i <= m /\ ~(j <= m)
    <3>1. i \in 1..m /\ j - m \in 1..n
      BY <1>1, <2>2
    <3>2. s[i] = t[j - m]
      BY <1>2, <1>5, <2>2
    <3>3. QED
      BY <1>4, <3>1, <3>2
  <2>3. CASE ~(i <= m) /\ j <= m
    <3>1. j \in 1..m /\ i - m \in 1..n
      BY <1>1, <2>3
    <3>2. s[j] = t[i - m]
      BY <1>2, <1>5, <2>3
    <3>3. QED
      BY <1>4, <3>1, <3>2
  <2>4. CASE ~(i <= m) /\ ~(j <= m)
    <3>1. i - m \in 1..n /\ j - m \in 1..n
      BY <1>1, <2>4
    <3>2. t[i - m] = t[j - m]
      BY <1>2, <1>5, <2>4
    <3>3. i - m = j - m
      BY <1>1, <3>1, <3>2
    <3>4. QED
      BY <1>1, <3>3
  <2>5. QED
    BY <2>1, <2>2, <2>3, <2>4
<1>6. DOMAIN u = 1..(m + n)
  BY <1>2, LenProperties
<1>7. u \in Bytes
  BY <1>2, <1>5, <1>6, Zenon DEF Bytes, IsInjective
<1>8. QED
  BY <1>2, <1>3, <1>7 DEF u, m, n

LEMMA JoinedInTurn ==
  \A s, t, u \in Bytes : (s \o t) \o u = s \o (t \o u)
<1>1. SUFFICES ASSUME NEW s \in Bytes, NEW t \in Bytes, NEW u \in Bytes
               PROVE  (s \o t) \o u = s \o (t \o u)
  OBVIOUS
<1>2. s \in Seq(Range(Content)) /\ t \in Seq(Range(Content)) /\ u \in Seq(Range(Content))
  BY BytesType
<1>3. QED
  BY <1>2, ConcatAssociative

LEMMA NoRoom ==
  \A a, b \in Nat : b <= a /\ ~(b + 1 <= a) => a - b = 0
  OBVIOUS

(* subarray(0, n) and subarray(n) take bytes apart; subarray does not mind *)
(* an end beyond the bytes.                                                *)
LEMMA PartedBytes ==
  ASSUME NEW s \in Bytes, NEW n \in Nat
  PROVE  LET m == IF n < Len(s) THEN n ELSE Len(s)
         IN /\ Prefix(s, m) \in Bytes /\ Without(s, n) \in Bytes
            /\ Prefix(s, m) \o Without(s, n) = s
            /\ Range(s) = Range(Prefix(s, m)) \cup Range(Without(s, n))
            /\ Range(Prefix(s, m)) \cap Range(Without(s, n)) = {}
            /\ Len(Prefix(s, m)) = m
            /\ Len(s) <= n => Without(s, n) = <<>> /\ Prefix(s, m) = s
<1> DEFINE m     == IF n < Len(s) THEN n ELSE Len(s)
           first == SubSeq(s, 1, m)
           last  == SubSeq(s, m + 1, Len(s))
<1>1. /\ s \in Seq(Range(Content)) /\ Len(s) \in Nat /\ DOMAIN s = 1..Len(s)
      /\ \A i, j \in 1..Len(s) : s[i] = s[j] => i = j
  BY BytesType
<1>2. m \in Nat /\ m <= Len(s)
  BY <1>1
<1>a. ~(n < Len(s)) => m = Len(s)
  BY Zenon
<1>b. ~(n < Len(s)) => Len(s) < m + 1
  BY <1>1
<1>3. Without(s, n) = last
  <2>1. CASE n < Len(s)
    BY <2>1 DEF Without
  <2>2. CASE ~(n < Len(s))
    <3>1. m = Len(s)
      BY <2>2
    <3>2. SubSeq(s, n + 1, Len(s)) = <<>>
      BY <1>1, <2>2, SubSeqEmpty
    <3>3. last = <<>>
      <4>1. Len(s) < m + 1 /\ m + 1 \in Int /\ Len(s) \in Int
        BY <1>1, <1>2, <1>b, <2>2
      <4>2. QED
        BY <4>1, SubSeqEmpty
    <3>4. QED
      BY <3>2, <3>3 DEF Without
  <2>3. QED
    BY <2>1, <2>2
<1>4. Prefix(s, m) = first
  BY DEF Prefix
<1> HIDE DEF m
<1>5. /\ first \in Seq(Range(Content)) /\ Len(first) = m
      /\ \A i \in 1..m : first[i] = s[i]
  <2>1. \A i \in 1..m : s[i] \in Range(Content)
    BY <1>1, <1>2, ElementOfSeq
  <2>2. /\ SubSeq(s, 1, m) \in Seq(Range(Content))
        /\ Len(SubSeq(s, 1, m)) = IF 1 <= m THEN m - 1 + 1 ELSE 0
        /\ \A i \in 1..m - 1 + 1 : SubSeq(s, 1, m)[i] = s[1 + i - 1]
    BY <1>2, <2>1, SubSeqProperties
  <2>3. m - 1 + 1 = m /\ \A i \in 1..m : 1 + i - 1 = i
    BY <1>2
  <2>4. \A i \in 1..m : first[i] = s[i]
    BY <2>2, <2>3
  <2>5. QED
    BY <1>2, <2>2, <2>3, <2>4
<1>6. /\ last \in Seq(Range(Content)) /\ Len(last) = Len(s) - m
      /\ \A i \in 1..(Len(s) - m) : last[i] = s[m + i]
  <2>1. \A i \in m + 1..Len(s) : s[i] \in Range(Content)
    BY <1>1, <1>2, ElementOfSeq
  <2>2. /\ last \in Seq(Range(Content))
        /\ Len(last) = IF m + 1 <= Len(s) THEN Len(s) - (m + 1) + 1 ELSE 0
        /\ \A i \in 1..Len(s) - (m + 1) + 1 : last[i] = s[m + 1 + i - 1]
    BY <1>1, <1>2, <2>1, SubSeqProperties
  <2>3. /\ Len(s) - (m + 1) + 1 = Len(s) - m
        /\ \A i \in 1..(Len(s) - m) : m + 1 + i - 1 = m + i
    BY <1>1, <1>2
  <2>4. Len(last) = Len(s) - m
    <3>1. ~(m + 1 <= Len(s)) => Len(s) - m = 0
      BY <1>1, <1>2, NoRoom
    <3>2. QED
      BY <2>2, <2>3, <3>1, Zenon
  <2>5. QED
    BY <2>2, <2>3, <2>4
<1>7. DOMAIN first = 1..m /\ DOMAIN last = 1..(Len(s) - m)
  BY <1>5, <1>6, LenProperties
<1>8. first \in Bytes
  <2>1. \A i, j \in 1..m : first[i] = first[j] => i = j
    BY <1>1, <1>2, <1>5
  <2>2. QED
    BY <1>5, <1>7, <2>1, Zenon DEF Bytes, IsInjective
<1>9. last \in Bytes
  <2>1. ASSUME NEW i \in 1..(Len(s) - m), NEW j \in 1..(Len(s) - m), last[i] = last[j]
        PROVE  i = j
    <3>1. m + i \in 1..Len(s) /\ m + j \in 1..Len(s) /\ i \in Int /\ j \in Int
      BY <1>1, <1>2
    <3>2. s[m + i] = s[m + j]
      BY <1>6, <2>1
    <3>3. m + i = m + j
      BY <1>1, <3>1, <3>2, Zenon
    <3>4. QED
      BY <1>2, <3>1, <3>3
  <2>2. QED
    BY <1>6, <1>7, <2>1, Zenon DEF Bytes, IsInjective
<1>10. first \o last = s
  <2>1. 1 \in 1..Len(s) + 1 /\ m \in 1 - 1..Len(s) /\ Len(s) \in m..Len(s)
    BY <1>1, <1>2
  <2>2. SubSeq(s, 1, m) \o SubSeq(s, m + 1, Len(s)) = SubSeq(s, 1, Len(s))
    BY <1>1, <2>1, ConcatAdjacentSubSeq
  <2>3. SubSeq(s, 1, Len(s)) = s
    BY <1>1, SubSeqFull
  <2>4. QED
    BY <2>2, <2>3
<1>11. Range(s) = Range(first) \cup Range(last)
  <2>1. Range(first \o last) = Range(first) \cup Range(last)
    BY <1>5, <1>6, RangeConcatenation, Zenon
  <2>2. QED
    BY <1>10, <2>1, Zenon
<1>12. Range(first) \cap Range(last) = {}
  <2>1. ASSUME NEW i \in 1..m, NEW j \in 1..(Len(s) - m)
        PROVE  first[i] # last[j]
    <3>1. i \in 1..Len(s) /\ m + j \in 1..Len(s) /\ i # m + j
      BY <1>1, <1>2
    <3>2. s[i] # s[m + j]
      BY <1>1, <3>1
    <3>3. QED
      BY <1>5, <1>6, <3>2
  <2>2. QED
    BY <1>7, <2>1 DEF Range
<1>13. Len(s) <= n => last = <<>> /\ first = s
  <2> SUFFICES ASSUME Len(s) <= n PROVE last = <<>> /\ first = s
    OBVIOUS
  <2>0. ~(n < Len(s))
    BY <1>1
  <2>1. m = Len(s)
    BY <1>a, <2>0, Zenon
  <2>2. last = <<>>
    <3>1. Len(s) < m + 1 /\ m + 1 \in Int /\ Len(s) \in Int
      BY <1>1, <1>2, <1>b, <2>0
    <3>2. QED
      BY <3>1, SubSeqEmpty
  <2>3. first = s
    BY <1>1, <2>1, SubSeqFull
  <2>4. QED
    BY <2>2, <2>3
<1> HIDE DEF first, last
<1>14. /\ Prefix(s, m) \in Bytes /\ Without(s, n) \in Bytes
       /\ Prefix(s, m) \o Without(s, n) = s
       /\ Range(s) = Range(Prefix(s, m)) \cup Range(Without(s, n))
       /\ Range(Prefix(s, m)) \cap Range(Without(s, n)) = {}
       /\ Len(Prefix(s, m)) = m
       /\ Len(s) <= n => Without(s, n) = <<>> /\ Prefix(s, m) = s
  BY <1>3, <1>4, <1>5, <1>8, <1>9, <1>10, <1>11, <1>12, <1>13, Zenon
<1>15. QED
  BY <1>14, Zenon DEF m

(***************************************************************************)
(* BinaryData: who holds which bytes.                                      *)
(***************************************************************************)

Holding == [h \in Holders |-> Range(Held(h))]

Apart(held) == \A g, h \in Holders : g # h => held[g] \cap held[h] = {}

Whole(held) == \A b \in Range(Content) : \E h \in Holders : b \in held[h]

Holder(place) == <<place, NoCaller>>
Caller(c)     == <<"call", c>>

LEMMA HoldersAre ==
  /\ \A place \in {"out", "piped", "buffer", "reader", "stream"} : Holder(place) \in Holders
  /\ \A c \in Callers : Caller(c) \in Holders
  /\ \A place \in {"out", "piped", "buffer", "reader", "stream"}, c \in Callers :
       Holder(place) # Caller(c)
  /\ \A p, q : Holder(p) = Holder(q) => p = q
  /\ \A c, d : Caller(c) = Caller(d) => c = d
  /\ \A h \in Holders :
       \/ \E place \in {"out", "piped", "buffer", "reader", "stream"} : h = Holder(place)
       \/ \E c \in Callers : h = Caller(c)
  BY DEF Holder, Caller, Holders

LEMMA HoldingIs ==
  /\ Holding[Holder("out")] = Range(out)
  /\ Holding[Holder("piped")] = Range(piped)
  /\ Holding[Holder("buffer")] = Range(buffer)
  /\ Holding[Holder("reader")] = Range(reader.buffer)
  /\ Holding[Holder("stream")] = Range(stream.rest)
  /\ \A c \in Callers : Holding[Caller(c)] = Range(InFlight(c))
<1>1. /\ Held(Holder("out")) = out /\ Held(Holder("piped")) = piped
      /\ Held(Holder("buffer")) = buffer /\ Held(Holder("reader")) = reader.buffer
      /\ Held(Holder("stream")) = stream.rest
      /\ \A c \in Callers : Held(Caller(c)) = InFlight(c)
  BY DEF Held, Holder, Caller
<1>2. QED
  BY <1>1, HoldersAre, Zenon DEF Holding

LEMMA HoldingOfInvariant ==
  /\ NoByteTwice <=> Apart(Holding)
  /\ NoByteLost <=> (~dropped /\ Readable => Whole(Holding))
  BY DEF NoByteTwice, NoByteLost, Apart, Whole, Holding

(* The same after a step. *)
LEMMA HoldingThen ==
  /\ Holding'[Holder("out")] = Range(out') /\ Holding'[Holder("piped")] = Range(piped')
  /\ Holding'[Holder("buffer")] = Range(buffer')
  /\ Holding'[Holder("reader")] = Range(reader'.buffer)
  /\ Holding'[Holder("stream")] = Range(stream'.rest)
  /\ \A c \in Callers : Holding'[Caller(c)] = Range(InFlight(c)')
<1>1. /\ Held(Holder("out"))' = out' /\ Held(Holder("piped"))' = piped'
      /\ Held(Holder("buffer"))' = buffer' /\ Held(Holder("reader"))' = reader'.buffer
      /\ Held(Holder("stream"))' = stream'.rest
      /\ \A c \in Callers : Held(Caller(c))' = InFlight(c)'
  BY DEF Held, Holder, Caller
<1>2. QED
  BY <1>1, HoldersAre, Zenon DEF Holding

LEMMA InvariantThen ==
  /\ NoByteTwice' <=> Apart(Holding')
  /\ NoByteLost' <=> (~dropped' /\ Readable' => Whole(Holding'))
  BY DEF NoByteTwice, NoByteLost, Apart, Whole, Holding

(* Bytes that go from one holder to another stay whole and apart.          *)
Moved(held, then, from, to, moved) ==
  /\ from \in Holders /\ to \in Holders /\ from # to
  /\ \A h \in Holders : h # from /\ h # to => then[h] = held[h]
  /\ then[from] \cap moved = {} /\ held[from] = then[from] \cup moved
  /\ then[to] = held[to] \cup moved

LEMMA MovedBytes ==
  ASSUME NEW held, NEW then, NEW from, NEW to, NEW moved,
         Moved(held, then, from, to, moved), Apart(held)
  PROVE  /\ Apart(then)
         /\ Whole(held) => Whole(then)
<1>1. Apart(then)
  <2> SUFFICES ASSUME NEW g \in Holders, NEW h \in Holders, g # h
               PROVE  then[g] \cap then[h] = {}
    BY DEF Apart
  <2>1. held[g] \cap held[h] = {} /\ held[from] \cap held[to] = {}
        /\ (held[g] \cap held[from] = {} \/ g = from)
        /\ (held[h] \cap held[from] = {} \/ h = from)
    BY DEF Apart, Moved
  <2>2. QED
    BY <2>1 DEF Apart, Moved
<1>2. ASSUME Whole(held) PROVE Whole(then)
  BY <1>2 DEF Whole, Moved
<1>3. QED
  BY <1>1, <1>2

(* Bytes that nobody holds any more leave the others apart.                *)
LEMMA FewerBytes ==
  ASSUME NEW held, NEW then, \A h \in Holders : then[h] \subseteq held[h], Apart(held)
  PROVE  Apart(then)
  BY DEF Apart

(***************************************************************************)
(* BinaryData: steps.                                                      *)
(***************************************************************************)

LEMMA TypesAre ==
  ASSUME BinaryTypeOK
  PROVE  /\ {out, piped, buffer, reader.buffer, stream.rest} \subseteq Bytes
         /\ stream.flowing \in BOOLEAN /\ stream.ended \in BOOLEAN
         /\ reader.present \in BOOLEAN /\ reader.ended \in BOOLEAN
         /\ reader.ejected \in BOOLEAN /\ reader.pending \in Callers \cup {NoCaller}
         /\ \A c \in Callers :
              /\ reads[c] \in CallOf /\ InFlight(c) \in Bytes
              /\ reads[c].size \in Nat /\ reads[c].wanted \in Nat /\ reads[c].step \in Nat
  BY DEF BinaryTypeOK, Stream, Reader, CallOf, InFlight

LEMMA IdleHoldsNone ==
  ASSUME OneChunk, NEW c \in Callers, c \notin Busy
  PROVE  InFlight(c) = <<>>
  BY DEF OneChunk, Busy

(* Nobody waits while one call goes on alone.                              *)
LEMMA NobodyToWake ==
  ASSUME BinaryTypeOK, OneChunk, NEW c \in Callers, reads[c].at # "waiting",
         Busy \subseteq {c}, ~overlapped
  PROVE  reader.pending = NoCaller
<1>1. reader.pending \in Callers \cup {NoCaller}
  BY TypesAre
<1>2. QED
  BY <1>1 DEF OneChunk, Busy

(* Steps of a call c that move no byte: it starts, waits, goes on or ends. *)
LEMMA StillCall ==
  ASSUME BinaryInv, NEW c \in Callers, NEW d \in CallOf,
         InFlight(c) = <<>>, reads[c].at # "waiting",
         d.chunk = <<>>, reads' = [reads EXCEPT ![c] = d],
         stream' \in Stream, stream'.rest = stream.rest,
         reader' \in Reader, reader'.buffer = reader.buffer,
         reader'.present = reader.present, reader'.ended = reader.ended,
         reader'.ejected = reader.ejected,
         \/ reader'.pending = reader.pending
         \/ reader'.pending = c /\ (d.at = "waiting" \/ reader.pending # NoCaller),
         UNCHANGED <<file, opened, buffer, out, piped, dropped>>,
         overlapped' \in BOOLEAN, overlapped => overlapped',
         ~overlapped' => Busy \subseteq {c},
         d.at # "idle" => Readable, d.at # "append",
         d.op = "chunk" => d.size = d.step,
         Sequential' =>
           /\ d.at \in {"waiting", "resumed"} => d.wanted + Len(buffer) = d.size
           /\ d.at = "filled" /\ Len(buffer) < d.size => reader.ended /\ reader.buffer = <<>>
  PROVE  BinaryInv'
<1>1. /\ BinaryTypeOK /\ InOrder /\ NoByteTwice /\ NoByteLost
      /\ Attached /\ OneChunk /\ EjectsAll /\ ShortAtEnd
  BY DEF BinaryInv
<1>2. BinaryTypeOK'
  BY <1>1 DEF BinaryTypeOK
<1>3. /\ \A e \in Callers : reads'[e] = IF e = c THEN d ELSE reads[e]
      /\ \A e \in Callers : InFlight(e)' = InFlight(e)
      /\ \A e \in Callers : e # c => (e \in Busy' <=> e \in Busy)
      /\ Busy' \subseteq Callers /\ Busy \subseteq Callers
      /\ Sequential' => Sequential
      /\ Readable' = Readable
  BY <1>1 DEF BinaryTypeOK, InFlight, Busy, Sequential, Readable
<1>4. InOrder'
  <2> SUFFICES ASSUME Sequential', Readable', NEW e \in Callers, Busy' \subseteq {e}
               PROVE  (out \o (piped \o (buffer \o (InFlight(e) \o (reader.buffer \o stream.rest))))
                         = Content)'
    BY DEF InOrder
  <2>1. Busy \subseteq {c}
    BY DEF Sequential
  <2>2. out \o (piped \o (buffer \o (InFlight(c) \o (reader.buffer \o stream.rest)))) = Content
    BY <1>1, <1>3, <2>1 DEF InOrder
  <2>3. InFlight(e)' = InFlight(c)
    <3>1. CASE e = c
      BY <1>3, <3>1
    <3>2. CASE e # c
      BY <1>1, <1>3, <2>1, <3>2, IdleHoldsNone
    <3>3. QED
      BY <3>1, <3>2
  <2>4. QED
    BY <2>2, <2>3
<1>5. NoByteTwice' /\ NoByteLost'
  <2>1. \A h \in Holders : Holding'[h] = Holding[h]
    <3>1. \A h \in Holders : Held(h)' = Held(h)
      BY <1>3 DEF Held, Holders
    <3>2. QED
      BY <3>1 DEF Holding
  <2>2. Apart(Holding') /\ (Whole(Holding) => Whole(Holding'))
    BY <1>1, <2>1, HoldingOfInvariant DEF Apart, Whole
  <2>3. /\ NoByteTwice' <=> Apart(Holding')
        /\ NoByteLost' <=> (~dropped' /\ Readable' => Whole(Holding'))
    BY InvariantThen
  <2>4. QED
    BY <1>1, <1>3, <2>2, <2>3, HoldingOfInvariant
<1>6. Attached'
  <2>1. ~Readable => Busy' = {}
    BY <1>1, <1>3 DEF Attached, Busy
  <2>2. QED
    BY <1>1, <1>3, <2>1 DEF Attached
<1>7. OneChunk'
  <2>1. \A e \in Callers : reads'[e].at # "append" => InFlight(e)' = <<>>
    BY <1>1, <1>3 DEF OneChunk
  <2>2. ~overlapped' => Busy' \subseteq {c}
    BY <1>3
  <2>3. ~overlapped' => reader.pending = NoCaller
    BY <1>1, NobodyToWake
  <2>4. ~overlapped' /\ reader'.pending # NoCaller => reads'[reader'.pending].at = "waiting"
    BY <1>3, <2>3
  <2>5. QED
    BY <2>1, <2>2, <2>4 DEF OneChunk
<1>8. EjectsAll'
  BY <1>1, <1>3 DEF EjectsAll
<1>9. ShortAtEnd'
  <2> SUFFICES ASSUME NEW e \in Callers
               PROVE  /\ reads'[e].op = "chunk" => reads'[e].size = reads'[e].step
                      /\ Sequential' =>
                           /\ reads'[e].at \in {"waiting", "resumed", "append"} =>
                                reads'[e].wanted + Len(buffer) = reads'[e].size
                           /\ \/ reads'[e].at = "append" /\ Len(InFlight(e)) < reads'[e].wanted
                              \/ reads'[e].at = "filled" /\ Len(buffer) < reads'[e].size
                              => reader.ended /\ reader.buffer = <<>>
    BY <1>3, Zenon DEF ShortAtEnd
  <2>1. CASE e = c
    BY <1>3, <2>1
  <2>2. CASE e # c
    BY <1>1, <1>3, <2>2 DEF ShortAtEnd
  <2>3. QED
    BY <2>1, <2>2
<1>10. QED
  BY <1>2, <1>4, <1>5, <1>6, <1>7, <1>8, <1>9 DEF BinaryInv

(* A call c that takes its chunk from the reader: what it wants, or less   *)
(* at the end.                                                             *)
LEMMA TakesChunk ==
  ASSUME BinaryInv, NEW c \in Callers, NEW d \in CallOf, Readable, Enough(d.wanted),
         InFlight(c) = <<>>, reads[c].at # "waiting",
         reads' = [reads EXCEPT ![c] = d], d.at = "append",
         d.chunk = Prefix(reader.buffer, IF d.wanted < Len(reader.buffer) THEN d.wanted
                                         ELSE Len(reader.buffer)),
         reader' = [reader EXCEPT !.buffer = Remaining(d.wanted)],
         UNCHANGED <<file, opened, stream, buffer, out, piped, dropped>>,
         overlapped' \in BOOLEAN, overlapped => overlapped',
         ~overlapped' => Busy \subseteq {c},
         d.op = "chunk" => d.size = d.step,
         Sequential' => d.wanted + Len(buffer) = d.size
  PROVE  BinaryInv'
<1> DEFINE taken == d.chunk
           kept  == Remaining(d.wanted)
<1>1. /\ BinaryTypeOK /\ InOrder /\ NoByteTwice /\ NoByteLost
      /\ Attached /\ OneChunk /\ EjectsAll /\ ShortAtEnd
  BY DEF BinaryInv
<1>2. /\ taken \in Bytes /\ kept \in Bytes /\ taken \o kept = reader.buffer
      /\ Range(reader.buffer) = Range(taken) \cup Range(kept)
      /\ Range(taken) \cap Range(kept) = {}
      /\ Len(reader.buffer) <= d.wanted => kept = <<>>
      /\ Len(taken) = IF d.wanted < Len(reader.buffer) THEN d.wanted ELSE Len(reader.buffer)
  <2>1. reader.buffer \in Bytes /\ d.wanted \in Nat
    BY <1>1, TypesAre DEF CallOf
  <2> DEFINE m == IF d.wanted < Len(reader.buffer) THEN d.wanted ELSE Len(reader.buffer)
             first == Prefix(reader.buffer, m)
             last  == Without(reader.buffer, d.wanted)
  <2>2. /\ first \in Bytes /\ last \in Bytes /\ first \o last = reader.buffer
        /\ Range(reader.buffer) = Range(first) \cup Range(last)
        /\ Range(first) \cap Range(last) = {}
        /\ Len(first) = m
        /\ Len(reader.buffer) <= d.wanted => last = <<>>
    BY <2>1, PartedBytes, Zenon
  <2>3. taken = first /\ kept = last
    BY DEF Remaining
  <2> HIDE DEF first, last, taken, kept
  <2>4. QED
    BY <2>2, <2>3
<1>3. Len(taken) < d.wanted => reader.ended /\ kept = <<>>
  <2>1. Len(reader.buffer) \in Nat /\ d.wanted \in Nat
    BY <1>1, TypesAre, BytesType DEF CallOf
  <2>2. QED
    BY <1>2, <2>1 DEF Enough
<1>a. d.chunk = taken
  OBVIOUS
<1> HIDE DEF kept, taken
<1>4. /\ reader'.buffer = kept /\ reader'.present = reader.present
      /\ reader'.ended = reader.ended /\ reader'.ejected = reader.ejected
      /\ reader'.pending = reader.pending /\ reader' \in Reader
  BY <1>1, <1>2 DEF BinaryTypeOK, Reader, kept
<1>5. BinaryTypeOK'
  BY <1>1, <1>4 DEF BinaryTypeOK
<1>6. /\ \A e \in Callers : reads'[e] = IF e = c THEN d ELSE reads[e]
      /\ InFlight(c)' = taken
      /\ \A e \in Callers : e # c => InFlight(e)' = InFlight(e)
      /\ \A e \in Callers : e # c => (e \in Busy' <=> e \in Busy)
      /\ c \in Busy'
      /\ Busy' \subseteq Callers /\ Busy \subseteq Callers
      /\ Sequential' => Sequential
      /\ Readable'
  BY <1>1, <1>4, <1>a DEF BinaryTypeOK, InFlight, Busy, Sequential, Readable
<1>7. InOrder'
  <2> SUFFICES ASSUME Sequential', NEW e \in Callers, Busy' \subseteq {e}
               PROVE  (out \o (piped \o (buffer \o (InFlight(e) \o (reader.buffer \o stream.rest))))
                         = Content)'
    BY DEF InOrder
  <2>1. Busy \subseteq {c} /\ e = c
    BY <1>6 DEF Sequential
  <2>2. out \o (piped \o (buffer \o (InFlight(c) \o (reader.buffer \o stream.rest)))) = Content
    BY <1>1, <1>6, <2>1 DEF InOrder
  <2>3. InFlight(c) \o (reader.buffer \o stream.rest) = taken \o (kept \o stream.rest)
    <3>0. taken \in Bytes /\ kept \in Bytes /\ stream.rest \in Bytes
      BY <1>1, <1>2, TypesAre
    <3>1. /\ taken \in Seq(Range(Content)) /\ kept \in Seq(Range(Content))
          /\ stream.rest \in Seq(Range(Content))
      BY <3>0 DEF Bytes
    <3>2. (taken \o kept) \o stream.rest = taken \o (kept \o stream.rest)
      BY <3>0, JoinedInTurn, Zenon
    <3>3. reader.buffer \o stream.rest \in Seq(Range(Content))
      BY <1>2, <3>1, ConcatProperties
    <3>4. <<>> \o (reader.buffer \o stream.rest) = reader.buffer \o stream.rest
      BY <3>3, ConcatEmptySeq
    <3>5. QED
      BY <1>2, <3>2, <3>4
  <2>4. QED
    BY <1>4, <1>6, <2>1, <2>2, <2>3
<1>8. NoByteTwice' /\ NoByteLost'
  <2>1. /\ Holder("reader") \in Holders /\ Caller(c) \in Holders /\ Holder("reader") # Caller(c)
    BY HoldersAre
  <2>2. \A h \in Holders : h # Holder("reader") /\ h # Caller(c) => Holding'[h] = Holding[h]
    <3>1. \A h \in Holders : h # Holder("reader") /\ h # Caller(c) => Held(h)' = Held(h)
      BY <1>6 DEF Held, Holders, Holder, Caller
    <3>2. QED
      BY <3>1 DEF Holding
  <2>3. /\ Holding[Holder("reader")] = Range(reader.buffer) /\ Holding[Caller(c)] = {}
    BY HoldingIs, NoBytes
  <2>4. /\ Holding'[Holder("reader")] = Range(kept) /\ Holding'[Caller(c)] = Range(taken)
    <3>1. Holding'[Holder("reader")] = Range(reader'.buffer)
          /\ Holding'[Caller(c)] = Range(InFlight(c)')
      BY HoldingThen
    <3>2. QED
      BY <1>4, <1>6, <3>1
  <2>5. Apart(Holding') /\ (Whole(Holding) => Whole(Holding'))
    <3>1. Apart(Holding)
      BY <1>1, HoldingOfInvariant
    <3>2. Moved(Holding, Holding', Holder("reader"), Caller(c), Range(taken))
      BY <1>2, <2>1, <2>2, <2>3, <2>4 DEF Moved
    <3>3. QED
      BY <3>1, <3>2, MovedBytes
  <2>6. /\ NoByteTwice' <=> Apart(Holding')
        /\ NoByteLost' <=> (~dropped' /\ Readable' => Whole(Holding'))
    BY InvariantThen
  <2>7. QED
    BY <1>1, <1>6, <2>5, <2>6, HoldingOfInvariant
<1>9. Attached'
  BY <1>1, <1>4, <1>6 DEF Attached, Readable
<1>10. OneChunk'
  <2>1. \A e \in Callers : reads'[e].at # "append" => InFlight(e)' = <<>>
    BY <1>1, <1>6 DEF OneChunk
  <2>2. ~overlapped' => Busy' \subseteq {c}
    BY <1>6
  <2>3. ~overlapped' => reader.pending = NoCaller
    BY <1>1, NobodyToWake
  <2>4. QED
    BY <1>4, <2>1, <2>2, <2>3 DEF OneChunk
<1>11. EjectsAll'
  <2> SUFFICES ASSUME Sequential, reader.ejected
               PROVE  kept = <<>> /\ taken = <<>>
    BY <1>1, <1>4, <1>6 DEF EjectsAll
  <2>1. reader.buffer = <<>>
    BY <1>1, <1>6 DEF EjectsAll
  <2>2. QED
    BY <1>2, <2>1, ConcatEqualIffEmpty DEF Bytes
<1>12. ShortAtEnd'
  <2> SUFFICES ASSUME NEW e \in Callers
               PROVE  /\ reads'[e].op = "chunk" => reads'[e].size = reads'[e].step
                      /\ Sequential' =>
                           /\ reads'[e].at \in {"waiting", "resumed", "append"} =>
                                reads'[e].wanted + Len(buffer) = reads'[e].size
                           /\ \/ reads'[e].at = "append" /\ Len(InFlight(e)') < reads'[e].wanted
                              \/ reads'[e].at = "filled" /\ Len(buffer) < reads'[e].size
                              => reader.ended /\ kept = <<>>
    BY <1>4, Zenon DEF ShortAtEnd
  <2>1. CASE e = c
    BY <1>3, <1>6, <1>a, <2>1
  <2>2. CASE e # c
    <3>1. Sequential' => reads[e].at = "idle"
      BY <1>6, <2>2 DEF Sequential, Busy
    <3>2. QED
      BY <1>1, <1>6, <2>2, <3>1 DEF ShortAtEnd
  <2>3. QED
    BY <2>1, <2>2
<1>13. QED
  BY <1>5, <1>7, <1>8, <1>9, <1>10, <1>11, <1>12 DEF BinaryInv
(* What a call c asks for, once it is known how much the buffer lacks.     *)
LEMMA ReadContainerGood ==
  ASSUME BinaryInv, NEW c \in Callers, NEW started \in CallOf,
         InFlight(c) = <<>>, reads[c].at # "waiting", started.chunk = <<>>,
         ReadContainer(c, started),
         UNCHANGED <<file, opened, buffer, out, piped, dropped>>,
         overlapped' \in BOOLEAN, overlapped => overlapped',
         ~overlapped' => Busy \subseteq {c},
         started.op = "chunk" => started.size = started.step,
         Sequential' => started.wanted + Len(buffer) = started.size
  PROVE  BinaryInv'
<1> DEFINE to(place) == [started EXCEPT !.at = place]
<1>1. /\ BinaryTypeOK /\ OneChunk /\ stream \in Stream /\ reader \in Reader
      /\ reader.present \in BOOLEAN
  BY DEF BinaryInv, BinaryTypeOK, Reader
<1>2. ASSUME NEW place \in {"waiting", "append", "filled"}
      PROVE  /\ to(place) \in CallOf /\ to(place).at = place
             /\ to(place).op = started.op /\ to(place).size = started.size
             /\ to(place).step = started.step /\ to(place).wanted = started.wanted
             /\ to(place).chunk = <<>>
  BY DEF CallOf
<1>3. /\ NoCall \in CallOf /\ NoCall.op = "none" /\ NoCall.at = "idle" /\ NoCall.chunk = <<>>
  BY NoBytes DEF NoCall, CallOf
<1>4. ASSUME reads' = [reads EXCEPT ![c] = NoCall], UNCHANGED <<stream, reader>>
      PROVE  BinaryInv'
  BY <1>1, <1>3, <1>4, StillCall
<1>5. CASE ~reader.present
  BY <1>4, <1>5 DEF ReadContainer
<1>6. CASE reader.present /\ Enough(started.wanted)
  <2> DEFINE taken == Prefix(reader.buffer,
                             IF started.wanted < Len(reader.buffer) THEN started.wanted
                             ELSE Len(reader.buffer))
             d     == [started EXCEPT !.at = "append", !.chunk = taken]
  <2>1. reads' = [reads EXCEPT ![c] = d] /\ reader' = [reader EXCEPT !.buffer = Remaining(started.wanted)]
        /\ stream' = stream
    BY <1>6 DEF ReadContainer
  <2>2. taken \in Bytes
    <3>1. reader.buffer \in Bytes /\ started.wanted \in Nat
      BY <1>1, TypesAre DEF CallOf
    <3>2. QED
      BY <3>1, PartedBytes, Zenon
  <2>3. d.chunk = taken
    BY DEF CallOf
  <2> HIDE DEF taken
  <2>4. /\ d \in CallOf /\ d.at = "append" /\ d.wanted = started.wanted
        /\ d.op = started.op /\ d.size = started.size /\ d.step = started.step
    BY <2>2 DEF CallOf
  <2> HIDE DEF d
  <2>5. d.chunk = Prefix(reader.buffer, IF d.wanted < Len(reader.buffer) THEN d.wanted
                                        ELSE Len(reader.buffer))
    BY <2>3, <2>4 DEF taken
  <2>6. Readable /\ Enough(d.wanted) /\ reader' = [reader EXCEPT !.buffer = Remaining(d.wanted)]
    BY <1>6, <2>1, <2>4 DEF Readable
  <2>7. QED
    BY <2>1, <2>4, <2>5, <2>6, TakesChunk
<1>7. CASE reader.present /\ ~Enough(started.wanted) /\ reader.ejected
  BY <1>4, <1>7 DEF ReadContainer
<1>8. CASE reader.present /\ ~Enough(started.wanted) /\ ~reader.ejected
  <2>1. /\ stream' = [stream EXCEPT !.flowing = TRUE]
        /\ reader' = [reader EXCEPT !.pending = c]
        /\ reads' = [reads EXCEPT ![c] = IF reader.pending = NoCaller THEN to("waiting") ELSE NoCall]
    BY <1>8 DEF ReadContainer
  <2>2. /\ stream' \in Stream /\ stream'.rest = stream.rest
        /\ reader' \in Reader /\ reader'.buffer = reader.buffer
        /\ reader'.present = reader.present /\ reader'.ended = reader.ended
        /\ reader'.ejected = reader.ejected /\ reader'.pending = c
    BY <1>1, <2>1 DEF Stream, Reader
  <2>3. CASE reader.pending = NoCaller
    <3>1. reads' = [reads EXCEPT ![c] = to("waiting")]
      BY <2>1, <2>3
    <3>2. Readable
      BY <1>8 DEF Readable
    <3>3. /\ to("waiting") \in CallOf /\ to("waiting").at = "waiting"
          /\ to("waiting").op = started.op /\ to("waiting").size = started.size
          /\ to("waiting").step = started.step /\ to("waiting").wanted = started.wanted
          /\ to("waiting").chunk = <<>>
      BY <1>2
    <3> HIDE DEF to
    <3>4. QED
      BY <1>1, <2>2, <3>1, <3>2, <3>3, StillCall
  <2>4. CASE reader.pending # NoCaller
    BY <1>1, <1>3, <2>1, <2>2, <2>4, StillCall
  <2>5. QED
    BY <2>3, <2>4
<1>9. QED
  BY <1>1, <1>5, <1>6, <1>7, <1>8

LEMMA FillBufferGood ==
  ASSUME BinaryInv, NEW c \in Callers, NEW started \in CallOf,
         InFlight(c) = <<>>, reads[c].at # "waiting", started.chunk = <<>>,
         FillBuffer(c, started), Readable \/ started.size > 0,
         UNCHANGED <<file, opened, buffer, out, piped, dropped>>,
         overlapped' \in BOOLEAN, overlapped => overlapped',
         ~overlapped' => Busy \subseteq {c},
         started.op = "chunk" => started.size = started.step
  PROVE  BinaryInv'
<1>1. /\ BinaryTypeOK /\ stream \in Stream /\ reader \in Reader /\ Attached
      /\ Len(buffer) \in Nat /\ started.size \in Nat
  BY TypesAre, BytesType DEF BinaryInv, BinaryTypeOK, CallOf
<1>2. CASE Len(buffer) < started.size
  <2> DEFINE d == [started EXCEPT !.wanted = started.size - Len(buffer)]
  <2>1. ReadContainer(c, d)
    BY <1>2 DEF FillBuffer
  <2>2. /\ d \in CallOf /\ d.op = started.op /\ d.size = started.size /\ d.step = started.step
        /\ d.chunk = <<>> /\ d.wanted = started.size - Len(buffer)
    BY <1>1, <1>2 DEF CallOf
  <2> HIDE DEF d
  <2>3. d.wanted + Len(buffer) = d.size
    BY <1>1, <2>2
  <2>4. QED
    BY <2>1, <2>2, <2>3, ReadContainerGood
<1>3. CASE ~(Len(buffer) < started.size)
  <2> DEFINE d == [started EXCEPT !.at = "filled"]
  <2>1. reads' = [reads EXCEPT ![c] = d] /\ stream' = stream /\ reader' = reader
    BY <1>3 DEF FillBuffer
  <2>2. /\ d \in CallOf /\ d.op = started.op /\ d.size = started.size /\ d.step = started.step
        /\ d.chunk = <<>> /\ d.at = "filled"
    BY DEF CallOf
  <2> HIDE DEF d
  <2>3. Readable
    <3>1. CASE ~Readable
      <4>1. started.size > 0 /\ buffer = <<>>
        BY <1>1, <3>1 DEF Attached
      <4>2. Len(buffer) = 0
        BY <4>1, NoBytes
      <4>3. QED
        BY <1>1, <1>3, <4>1, <4>2
    <3>2. QED
      BY <3>1
  <2>4. QED
    BY <1>1, <1>3, <2>1, <2>2, <2>3, StillCall
<1>4. QED
  BY <1>2, <1>3

LEMMA StartGood ==
  ASSUME BinaryInv, NEW c \in Callers, NEW op \in {"peek", "read", "chunk", "all"},
         NEW n \in Sizes, Start(c, op, n)
  PROVE  BinaryInv'
<1> DEFINE d == [op |-> op, at |-> "idle", step |-> n, wanted |-> 0, chunk |-> <<>>,
                 size |-> IF op = "all" THEN Len(buffer) + n ELSE n]
<1>1. /\ BinaryTypeOK /\ OneChunk /\ overlapped \in BOOLEAN /\ Len(buffer) \in Nat
      /\ n \in Nat /\ n > 0
  BY BinaryAssumption, TypesAre, BytesType DEF BinaryInv, BinaryTypeOK
<1>2. /\ d \in CallOf /\ d.chunk = <<>> /\ d.op = op /\ d.step = n /\ d.size > 0
      /\ d.op = "chunk" => d.size = d.step
  BY <1>1, NoBytes DEF CallOf
<1>3. FillBuffer(c, d) /\ reads[c].at = "idle" /\ overlapped' = (overlapped \/ Busy # {})
      /\ UNCHANGED <<file, opened, buffer, out, piped, dropped>>
  BY DEF Start
<1> HIDE DEF d
<1>4. InFlight(c) = <<>> /\ overlapped' \in BOOLEAN
  BY <1>1, <1>3 DEF OneChunk
<1>5. QED
  BY <1>2, <1>3, <1>4, FillBufferGood

LEMMA ResumeGood ==
  ASSUME BinaryInv, NEW c \in Callers, Resume(c)
  PROVE  BinaryInv'
<1>1. /\ BinaryTypeOK /\ OneChunk /\ ShortAtEnd /\ overlapped \in BOOLEAN
      /\ reads[c] \in CallOf
  BY TypesAre DEF BinaryInv, BinaryTypeOK
<1>2. /\ reads[c].at = "resumed" /\ ReadContainer(c, reads[c])
      /\ UNCHANGED <<file, opened, buffer, out, piped, dropped, overlapped>>
  BY DEF Resume, history
<1>3. /\ InFlight(c) = <<>> /\ reads[c].chunk = <<>>
      /\ ~overlapped => Busy \subseteq {c}
  BY <1>1, <1>2 DEF OneChunk, InFlight, Busy
<1>4. /\ reads[c].op = "chunk" => reads[c].size = reads[c].step
      /\ Sequential' => reads[c].wanted + Len(buffer) = reads[c].size
  BY <1>1, <1>2 DEF ShortAtEnd, Sequential
<1>5. QED
  BY <1>1, <1>2, <1>3, <1>4, ReadContainerGood

LEMMA ReadOnGood ==
  ASSUME BinaryInv, NEW c \in Callers, ReadOn(c)
  PROVE  BinaryInv'
<1> DEFINE d == [reads[c] EXCEPT !.size = @ + reads[c].step]
<1>1. /\ BinaryTypeOK /\ OneChunk /\ Attached /\ overlapped \in BOOLEAN
      /\ reads[c] \in CallOf /\ reads[c].size \in Nat /\ reads[c].step \in Nat
  BY TypesAre DEF BinaryInv, BinaryTypeOK
<1>2. /\ reads[c].at = "filled" /\ reads[c].op = "all" /\ FillBuffer(c, d)
      /\ UNCHANGED <<file, opened, buffer, out, piped, dropped, overlapped>>
  BY DEF ReadOn, history
<1>3. /\ InFlight(c) = <<>> /\ reads[c].chunk = <<>> /\ Readable
      /\ ~overlapped => Busy \subseteq {c}
  BY <1>1, <1>2 DEF OneChunk, InFlight, Busy, Attached
<1>4. d \in CallOf /\ d.op = "all" /\ d.chunk = <<>>
  BY <1>1, <1>2, <1>3 DEF CallOf
<1> HIDE DEF d
<1>5. QED
  BY <1>1, <1>2, <1>3, <1>4, FillBufferGood
(***************************************************************************)
(* BinaryData: bytes in turn.                                              *)
(***************************************************************************)

Run == Seq(Range(Content))

Regroups(s, t, u) == (s \o t) \o u = s \o (t \o u)

LEMMA RunsRegroup == \A s, t, u \in Run : Regroups(s, t, u)
<1>1. SUFFICES ASSUME NEW s \in Run, NEW t \in Run, NEW u \in Run
               PROVE  (s \o t) \o u = s \o (t \o u)
  BY DEF Regroups
<1>2. QED
  BY ConcatAssociative DEF Run

LEMMA RunsJoin ==
  /\ <<>> \in Run
  /\ \A s \in Bytes : s \in Run
  /\ \A s \in Run : s \o <<>> = s /\ <<>> \o s = s
  /\ \A s, t \in Run : s \o t \in Run
  /\ \A s, t, u \in Run : (s \o t) \o u = s \o (t \o u)
<1>1. <<>> \in Run /\ \A s \in Bytes : s \in Run
  BY EmptySeq DEF Run, Bytes
<1>2. \A s \in Run : s \o <<>> = s /\ <<>> \o s = s
  BY ConcatEmptySeq DEF Run
<1>3. \A s, t \in Run : s \o t \in Run
  BY ConcatProperties DEF Run
<1>4. ASSUME NEW s \in Run, NEW t \in Run, NEW u \in Run
      PROVE  (s \o t) \o u = s \o (t \o u)
  BY ConcatAssociative DEF Run
<1>5. QED
  BY <1>1, <1>2, <1>3, <1>4

(* A chunk that joins the buffer.                                          *)
ChunkJoins(o, p, b, k, r) ==
  o \o (p \o ((b \o k) \o (<<>> \o r))) = o \o (p \o (b \o (k \o r)))

LEMMA ChunkInTurn == \A o, p, b, k, r \in Run : ChunkJoins(o, p, b, k, r)
<1> SUFFICES ASSUME NEW o \in Run, NEW p \in Run, NEW b \in Run, NEW k \in Run, NEW r \in Run
             PROVE  o \o (p \o ((b \o k) \o (<<>> \o r))) = o \o (p \o (b \o (k \o r)))
  BY DEF ChunkJoins
<1>1. <<>> \o r = r /\ (b \o k) \o r = b \o (k \o r)
  BY RunsJoin, Zenon
<1>2. QED
  BY <1>1, Zenon

(* The first part of the buffer joins what was read.                       *)
ReadJoins(o, t, k, r) == (o \o t) \o (<<>> \o (k \o r)) = o \o (<<>> \o ((t \o k) \o r))

LEMMA ReadInTurn == \A o, t, k, r \in Run : ReadJoins(o, t, k, r)
<1> SUFFICES ASSUME NEW o \in Run, NEW t \in Run, NEW k \in Run, NEW r \in Run
             PROVE  (o \o t) \o (<<>> \o (k \o r)) = o \o (<<>> \o ((t \o k) \o r))
  BY DEF ReadJoins
<1>1. k \o r \in Run /\ (t \o k) \o r \in Run /\ t \o k \in Run
  BY RunsJoin
<1>2. <<>> \o (k \o r) = k \o r /\ <<>> \o ((t \o k) \o r) = (t \o k) \o r
  BY <1>1, RunsJoin
<1>3. (o \o t) \o (k \o r) = o \o (t \o (k \o r))
  <2>1. Regroups(o, t, k \o r)
    BY <1>1, RunsRegroup
  <2>2. QED
    BY <2>1 DEF Regroups
<1>4. (t \o k) \o r = t \o (k \o r)
  BY RunsJoin, Zenon
<1>5. QED
  BY <1>2, <1>3, <1>4, Zenon

(* The reader's bytes grow by the first of the stream.                     *)
LEMMA DataInTurn ==
  ASSUME NEW r \in Run, NEW t \in Run, NEW k \in Run
  PROVE  (r \o t) \o k = r \o (t \o k)
  BY RunsJoin

(* All that is left goes into one stream.                                  *)
LEMMA StreamInTurn ==
  ASSUME NEW b \in Run, NEW r \in Run, NEW s \in Run
  PROVE  ((b \o r) \o s) \o (<<>> \o (<<>> \o (<<>> \o <<>>)))
           = <<>> \o (b \o (<<>> \o (r \o s)))
<1>1. b \o r \in Run /\ (b \o r) \o s \in Run /\ r \o s \in Run /\ b \o (r \o s) \in Run
      /\ <<>> \in Run
  BY RunsJoin
<1>2. <<>> \o <<>> = <<>> /\ <<>> \o (r \o s) = r \o s
      /\ <<>> \o (b \o (r \o s)) = b \o (r \o s)
  BY <1>1, RunsJoin
<1>3. ((b \o r) \o s) \o <<>> = (b \o r) \o s /\ (b \o r) \o s = b \o (r \o s)
  <2>1. Regroups(b, r, s)
    BY <1>1, RunsRegroup
  <2>2. QED
    BY <1>1, <2>1, RunsJoin DEF Regroups
<1>4. QED
  BY <1>2, <1>3, Zenon

LEMMA FreshBytes ==
  /\ \A s \in Run : <<>> \o (<<>> \o (<<>> \o (<<>> \o (<<>> \o s)))) = s
  BY RunsJoin

(***************************************************************************)
(* BinaryData: steps of the buffer.                                        *)
(***************************************************************************)

LEMMA AppendGood ==
  ASSUME BinaryInv, NEW c \in Callers, Append_(c)
  PROVE  BinaryInv'
<1> DEFINE d     == [reads[c] EXCEPT !.at = "filled", !.chunk = <<>>]
           chunk == InFlight(c)
<1>1. /\ BinaryTypeOK /\ InOrder /\ NoByteTwice /\ NoByteLost
      /\ Attached /\ OneChunk /\ EjectsAll /\ ShortAtEnd
  BY DEF BinaryInv
<1>2. /\ reads[c].at = "append" /\ buffer' = buffer \o chunk
      /\ reads' = [reads EXCEPT ![c] = d]
      /\ UNCHANGED <<file, opened, stream, reader, out, piped, dropped, overlapped>>
  BY <1>1 DEF Append_, history, InFlight, BinaryTypeOK
<1>3. /\ reads[c] \in CallOf /\ chunk \in Bytes /\ buffer \in Bytes
      /\ reads[c].size \in Nat /\ reads[c].wanted \in Nat
  BY <1>1, TypesAre
<1>4. /\ d \in CallOf /\ d.chunk = <<>> /\ d.at = "filled"
      /\ d.op = reads[c].op /\ d.size = reads[c].size /\ d.step = reads[c].step
      /\ d.wanted = reads[c].wanted
  BY <1>3, NoBytes DEF CallOf
<1> HIDE DEF d, chunk
<1>5. /\ \A e \in Callers : reads'[e] = IF e = c THEN d ELSE reads[e]
      /\ InFlight(c)' = <<>> /\ chunk = InFlight(c)
      /\ \A e \in Callers : e # c => InFlight(e)' = InFlight(e)
      /\ Busy' = Busy /\ c \in Busy
      /\ Sequential' = Sequential /\ Readable' = Readable /\ Readable
      /\ ~overlapped => Busy \subseteq {c}
  <2>1. \A e \in Callers : reads'[e] = IF e = c THEN d ELSE reads[e]
    BY <1>1, <1>2 DEF BinaryTypeOK
  <2>2. InFlight(c)' = <<>> /\ \A e \in Callers : e # c => InFlight(e)' = InFlight(e)
    BY <1>4, <2>1 DEF InFlight
  <2>3. Busy' = Busy /\ c \in Busy
    BY <1>2, <1>4, <2>1 DEF Busy
  <2>4. Readable /\ (~overlapped => Busy \subseteq {c})
    BY <1>1, <2>3 DEF Attached, OneChunk
  <2>5. Sequential' = Sequential /\ Readable' = Readable
    BY <1>2 DEF Sequential, Readable
  <2>6. QED
    BY <2>1, <2>2, <2>3, <2>4, <2>5 DEF chunk
<1>6. /\ buffer' \in Bytes /\ Range(buffer') = Range(buffer) \cup Range(chunk)
      /\ Len(buffer') = Len(buffer) + Len(chunk) /\ Range(buffer) \cap Range(chunk) = {}
  <2>1. Range(buffer) \cap Range(chunk) = {}
    <3>1. Apart(Holding) /\ Holder("buffer") # Caller(c)
          /\ Holder("buffer") \in Holders /\ Caller(c) \in Holders
      BY <1>1, HoldingOfInvariant, HoldersAre
    <3>2. Holding[Holder("buffer")] \cap Holding[Caller(c)] = {}
      BY <3>1 DEF Apart
    <3>3. QED
      BY <1>5, <3>2, HoldingIs
  <2>2. QED
    BY <1>2, <1>3, <2>1, JoinedBytes
<1>7. BinaryTypeOK'
  BY <1>1, <1>2, <1>4, <1>6 DEF BinaryTypeOK
<1>8. InOrder'
  <2> SUFFICES ASSUME Sequential, NEW e \in Callers, Busy' \subseteq {e}
               PROVE  (out \o (piped \o (buffer \o (InFlight(e) \o (reader.buffer \o stream.rest))))
                         = Content)'
    BY <1>5 DEF InOrder
  <2>1. e = c /\ Busy \subseteq {c}
    BY <1>5
  <2>2. out \o (piped \o (buffer \o (chunk \o (reader.buffer \o stream.rest)))) = Content
    BY <1>1, <1>5, <2>1 DEF InOrder
  <2>3. out \in Run /\ piped \in Run /\ buffer \in Run /\ chunk \in Run
        /\ reader.buffer \o stream.rest \in Run
    BY <1>1, <1>3, TypesAre, RunsJoin
  <2>3a. out \o (piped \o ((buffer \o chunk) \o (<<>> \o (reader.buffer \o stream.rest))))
           = out \o (piped \o (buffer \o (chunk \o (reader.buffer \o stream.rest))))
    <3>1. ChunkJoins(out, piped, buffer, chunk, reader.buffer \o stream.rest)
      BY <2>3, ChunkInTurn
    <3>2. QED
      BY <3>1 DEF ChunkJoins
  <2>4. out \o (piped \o ((buffer \o chunk) \o (<<>> \o (reader.buffer \o stream.rest)))) = Content
    BY <2>2, <2>3a, Zenon
  <2>5. QED
    BY <1>2, <1>5, <2>1, <2>4, Zenon
<1>9. NoByteTwice' /\ NoByteLost'
  <2>1. \A h \in Holders : h # Caller(c) /\ h # Holder("buffer") => Holding'[h] = Holding[h]
    <3>1. \A h \in Holders : h # Caller(c) /\ h # Holder("buffer") => Held(h)' = Held(h)
      BY <1>2, <1>5 DEF Held, Holders, Holder, Caller
    <3>2. QED
      BY <3>1 DEF Holding
  <2>2. /\ Holding[Caller(c)] = Range(chunk) /\ Holding[Holder("buffer")] = Range(buffer)
    BY <1>5, HoldingIs
  <2>3. /\ Holding'[Caller(c)] = {} /\ Holding'[Holder("buffer")] = Range(buffer')
    <3>1. Holding'[Holder("buffer")] = Range(buffer')
          /\ Holding'[Caller(c)] = Range(InFlight(c)')
      BY HoldingThen
    <3>2. QED
      BY <1>5, <3>1, NoBytes
  <2>4. Moved(Holding, Holding', Caller(c), Holder("buffer"), Range(chunk))
    BY <1>6, <2>1, <2>2, <2>3, HoldersAre DEF Moved
  <2>5. Apart(Holding') /\ (Whole(Holding) => Whole(Holding'))
    BY <1>1, <2>4, HoldingOfInvariant, MovedBytes
  <2>6. /\ NoByteTwice' <=> Apart(Holding')
        /\ NoByteLost' <=> (~dropped' /\ Readable' => Whole(Holding'))
    BY InvariantThen
  <2>7. QED
    BY <1>1, <1>2, <1>5, <2>5, <2>6, HoldingOfInvariant
<1>10. Attached'
  BY <1>1, <1>2, <1>5 DEF Attached, Readable
<1>11. OneChunk'
  <2>1. \A e \in Callers : reads'[e].at # "append" => InFlight(e)' = <<>>
    BY <1>1, <1>5 DEF OneChunk
  <2>2. ~overlapped => reader.pending = NoCaller
    BY <1>1, <1>2, <1>5, NobodyToWake
  <2>3. QED
    BY <1>1, <1>2, <1>5, <2>1, <2>2 DEF OneChunk
<1>12. EjectsAll'
  <2>1. Sequential /\ reader.ejected => buffer' = <<>>
    BY <1>1, <1>2, <1>5, NoBytes DEF EjectsAll
  <2>2. QED
    BY <1>1, <1>2, <1>5, <2>1 DEF EjectsAll
<1>13. ShortAtEnd'
  <2> SUFFICES ASSUME NEW e \in Callers
               PROVE  /\ reads'[e].op = "chunk" => reads'[e].size = reads'[e].step
                      /\ Sequential =>
                           /\ reads'[e].at \in {"waiting", "resumed", "append"} =>
                                reads'[e].wanted + Len(buffer') = reads'[e].size
                           /\ \/ reads'[e].at = "append" /\ Len(InFlight(e)') < reads'[e].wanted
                              \/ reads'[e].at = "filled" /\ Len(buffer') < reads'[e].size
                              => reader.ended /\ reader.buffer = <<>>
    BY <1>2, <1>5, Zenon DEF ShortAtEnd
  <2>1. CASE e = c
    <3>1. Len(buffer) \in Nat /\ Len(chunk) \in Nat
      BY <1>3, BytesType
    <3>2. Sequential => reads[c].wanted + Len(buffer) = reads[c].size
      BY <1>1, <1>2 DEF ShortAtEnd
    <3>3. Sequential /\ Len(chunk) < reads[c].wanted => reader.ended /\ reader.buffer = <<>>
      BY <1>1, <1>2, <1>5 DEF ShortAtEnd
    <3>4. Sequential /\ Len(buffer') < reads[c].size => Len(chunk) < reads[c].wanted
      BY <1>3, <1>6, <3>1, <3>2
    <3>5. reads[c].op = "chunk" => reads[c].size = reads[c].step
      BY <1>1 DEF ShortAtEnd
    <3>6. QED
      BY <1>4, <1>5, <2>1, <3>3, <3>4, <3>5
  <2>2. CASE e # c
    <3>1. Sequential => reads[e].at = "idle"
      BY <1>5, <2>2 DEF Sequential, Busy
    <3>2. QED
      BY <1>1, <1>5, <2>2, <3>1 DEF ShortAtEnd
  <2>3. QED
    BY <2>1, <2>2
<1>14. QED
  BY <1>7, <1>8, <1>9, <1>10, <1>11, <1>12, <1>13 DEF BinaryInv
(* A step that moves the bytes one holder has to another, or some of them. *)
LEMMA BytesKept ==
  ASSUME NoByteTwice, NoByteLost, NEW from, NEW to, NEW moved,
         Moved(Holding, Holding', from, to, moved),
         ~dropped' /\ Readable' => ~dropped /\ Readable
  PROVE  NoByteTwice' /\ NoByteLost'
<1>1. Apart(Holding') /\ (Whole(Holding) => Whole(Holding'))
  BY HoldingOfInvariant, MovedBytes
<1>2. /\ NoByteTwice' <=> Apart(Holding')
      /\ NoByteLost' <=> (~dropped' /\ Readable' => Whole(Holding'))
  BY InvariantThen
<1>3. QED
  BY <1>1, <1>2, HoldingOfInvariant

(* Bytes only come together when they were apart.                          *)
LEMMA ApartPlaces ==
  ASSUME NoByteTwice
  PROVE  /\ \A c \in Callers : Range(buffer) \cap Range(InFlight(c)) = {}
         /\ Range(out) \cap Range(buffer) = {}
         /\ Range(reader.buffer) \cap Range(stream.rest) = {}
         /\ Range(buffer) \cap Range(reader.buffer) = {}
         /\ Range(buffer) \cap Range(stream.rest) = {}
<1>1. \A g, h \in Holders : g # h => Holding[g] \cap Holding[h] = {}
  BY HoldingOfInvariant DEF Apart
<1>2. QED
  BY <1>1, HoldingIs, HoldersAre

LEMMA ReturnGood ==
  ASSUME BinaryInv, NEW c \in Callers, Return(c)
  PROVE  BinaryInv'
<1> DEFINE n     == Consumed(reads[c].op, reads[c].step)
           taken == Prefix(buffer, IF n < Len(buffer) THEN n ELSE Len(buffer))
           kept  == Without(buffer, n)
<1>1. /\ BinaryTypeOK /\ InOrder /\ NoByteTwice /\ NoByteLost
      /\ Attached /\ OneChunk /\ EjectsAll /\ ShortAtEnd
  BY DEF BinaryInv
<1>2. /\ reads[c].at = "filled" /\ out' = out \o taken /\ buffer' = kept
      /\ reads' = [reads EXCEPT ![c] = NoCall]
      /\ UNCHANGED <<file, opened, stream, reader, piped, dropped, overlapped>>
  BY DEF Return, history
<1>3. n \in Nat /\ buffer \in Bytes /\ out \in Bytes
  BY <1>1, TypesAre, BytesType DEF Consumed
<1> HIDE DEF n
<1>4. /\ taken \in Bytes /\ kept \in Bytes /\ taken \o kept = buffer
      /\ Range(buffer) = Range(taken) \cup Range(kept)
      /\ Range(taken) \cap Range(kept) = {}
  BY <1>3, PartedBytes, Zenon
<1> HIDE DEF taken, kept
<1>5. /\ \A e \in Callers : reads'[e] = IF e = c THEN NoCall ELSE reads[e]
      /\ NoCall \in CallOf /\ NoCall.op = "none" /\ NoCall.at = "idle" /\ NoCall.chunk = <<>>
      /\ \A e \in Callers : InFlight(e)' = InFlight(e)
      /\ InFlight(c) = <<>> /\ c \in Busy /\ Busy' \subseteq Busy
      /\ Sequential' = Sequential /\ Readable' = Readable /\ Readable
      /\ ~overlapped => Busy \subseteq {c}
  <2>1. \A e \in Callers : reads'[e] = IF e = c THEN NoCall ELSE reads[e]
    BY <1>1, <1>2 DEF BinaryTypeOK
  <2>2. NoCall \in CallOf /\ NoCall.op = "none" /\ NoCall.at = "idle" /\ NoCall.chunk = <<>>
    BY NoBytes DEF NoCall, CallOf
  <2>3. InFlight(c) = <<>> /\ \A e \in Callers : InFlight(e)' = InFlight(e)
    BY <1>1, <1>2, <2>1, <2>2 DEF InFlight, OneChunk
  <2>4. c \in Busy /\ Busy' \subseteq Busy
    BY <1>2, <2>1, <2>2 DEF Busy
  <2>5. Readable /\ (~overlapped => Busy \subseteq {c})
    BY <1>1, <2>4 DEF Attached, OneChunk
  <2>6. QED
    BY <1>2, <2>1, <2>2, <2>3, <2>4, <2>5 DEF Sequential, Readable
<1>6. out' \in Bytes /\ Range(out') = Range(out) \cup Range(taken)
  BY <1>1, <1>2, <1>3, <1>4, ApartPlaces, JoinedBytes
<1>7. BinaryTypeOK'
  BY <1>1, <1>2, <1>4, <1>5, <1>6 DEF BinaryTypeOK
<1>8. Sequential /\ reader.ejected => buffer = <<>> /\ kept = <<>> /\ taken = <<>>
  <2>1. Sequential /\ reader.ejected => buffer = <<>>
    BY <1>1, <1>5 DEF EjectsAll
  <2>2. taken \in Run /\ kept \in Run
    BY <1>4, RunsJoin
  <2>3. taken \o kept = <<>> => taken = <<>> /\ kept = <<>>
    BY <2>2, ConcatSimplifications DEF Run
  <2>4. QED
    BY <1>4, <2>1, <2>3, Zenon
<1>9. InOrder'
  <2> SUFFICES ASSUME Sequential, NEW e \in Callers, Busy' \subseteq {e}
               PROVE  (out \o (piped \o (buffer \o (InFlight(e) \o (reader.buffer \o stream.rest))))
                         = Content)'
    BY <1>5 DEF InOrder
  <2>1. Busy \subseteq {c} /\ InFlight(e)' = <<>>
    <3>1. Busy \subseteq {c}
      BY <1>5 DEF Sequential
    <3>2. InFlight(e) = <<>>
      BY <1>1, <1>5, <3>1, IdleHoldsNone
    <3>3. QED
      BY <1>5, <3>1, <3>2
  <2>2. out \o (piped \o (buffer \o (<<>> \o (reader.buffer \o stream.rest)))) = Content
    BY <1>1, <1>5, <2>1 DEF InOrder
  <2> DEFINE rest == <<>> \o (reader.buffer \o stream.rest)
  <2>3. /\ out \in Run /\ taken \in Run /\ kept \in Run /\ piped \in Run /\ rest \in Run
    BY <1>1, <1>3, <1>4, TypesAre, RunsJoin
  <2>4. out \o (piped \o (buffer \o rest)) = Content
    BY <2>2
  <2> HIDE DEF rest
  <2>5. out' \o (piped \o (kept \o rest)) = Content
    <3>1. CASE piped = <<>>
      <4>1. (out \o taken) \o (<<>> \o (kept \o rest)) = out \o (<<>> \o ((taken \o kept) \o rest))
        <5>1. ReadJoins(out, taken, kept, rest)
          BY <2>3, ReadInTurn
        <5>2. QED
          BY <5>1 DEF ReadJoins
      <4>2. QED
        BY <1>2, <1>4, <2>4, <3>1, <4>1, Zenon
    <3>2. CASE piped # <<>>
      <4>1. reader.ejected
        BY <1>1, <1>5, <3>2 DEF EjectsAll, Sequential
      <4>2. taken = <<>> /\ kept = buffer
        BY <1>8, <4>1
      <4>3. out' = out
        BY <1>2, <2>3, <4>2, RunsJoin
      <4>4. QED
        BY <2>4, <4>2, <4>3, Zenon
    <3>3. QED
      BY <3>1, <3>2
  <2>6. QED
    BY <1>2, <2>1, <2>5, Zenon DEF rest
<1>10. NoByteTwice' /\ NoByteLost'
  <2>1. \A h \in Holders : h # Holder("buffer") /\ h # Holder("out") => Holding'[h] = Holding[h]
    <3>1. \A h \in Holders : h # Holder("buffer") /\ h # Holder("out") => Held(h)' = Held(h)
      BY <1>2, <1>5 DEF Held, Holders, Holder, Caller
    <3>2. QED
      BY <3>1 DEF Holding
  <2>2. /\ Holding[Holder("out")] = Range(out) /\ Holding[Holder("buffer")] = Range(buffer)
        /\ Holding'[Holder("out")] = Range(out') /\ Holding'[Holder("buffer")] = Range(kept)
    BY <1>2, HoldingIs, HoldingThen
  <2>3. Moved(Holding, Holding', Holder("buffer"), Holder("out"), Range(taken))
    BY <1>4, <1>6, <2>1, <2>2, HoldersAre DEF Moved
  <2>4. QED
    BY <1>1, <1>2, <1>5, <2>3, BytesKept
<1>11. Attached'
  BY <1>1, <1>2, <1>5 DEF Attached, Readable
<1>12. OneChunk'
  <2>1. \A e \in Callers : reads'[e].at # "append" => InFlight(e)' = <<>>
    BY <1>1, <1>5 DEF OneChunk
  <2>2. ~overlapped => reader.pending = NoCaller
    BY <1>1, <1>2, <1>5, NobodyToWake
  <2>3. QED
    BY <1>1, <1>2, <1>5, <2>1, <2>2 DEF OneChunk
<1>13. EjectsAll'
  BY <1>1, <1>2, <1>5, <1>8 DEF EjectsAll
<1>14. ShortAtEnd'
  <2>1. \A e \in Callers : Sequential => reads'[e].at = "idle"
    BY <1>5 DEF Sequential, Busy
  <2>2. \A e \in Callers : reads'[e].op = "chunk" => reads'[e].size = reads'[e].step
    BY <1>1, <1>5 DEF ShortAtEnd
  <2>3. QED
    BY <1>5, <2>1, <2>2 DEF ShortAtEnd
<1>15. QED
  BY <1>7, <1>9, <1>10, <1>11, <1>12, <1>13, <1>14 DEF BinaryInv

(***************************************************************************)
(* BinaryData: events of the stream.                                       *)
(***************************************************************************)

LEMMA NotifiedIs ==
  ASSUME BinaryTypeOK, reads' = Notified(reads)
  PROVE  /\ reads' \in [Callers -> CallOf]
         /\ \A c \in Callers :
              /\ reads'[c].op = reads[c].op /\ reads'[c].step = reads[c].step
              /\ reads'[c].size = reads[c].size /\ reads'[c].wanted = reads[c].wanted
              /\ InFlight(c)' = InFlight(c)
              /\ \/ reads'[c].at = reads[c].at
                 \/ reads[c].at = "waiting" /\ reads'[c].at = "resumed"
         /\ Busy' = Busy
<1>1. \A c \in Callers : \/ reads'[c] = reads[c]
                         \/ reads[c].at = "waiting" /\ reads'[c] = [reads[c] EXCEPT !.at = "resumed"]
  BY DEF Notified
<1>2. \A c \in Callers : reads[c] \in CallOf
  BY TypesAre
<1>3. \A c \in Callers :
        /\ reads'[c] \in CallOf
        /\ reads'[c].op = reads[c].op /\ reads'[c].step = reads[c].step
        /\ reads'[c].size = reads[c].size /\ reads'[c].wanted = reads[c].wanted
        /\ reads'[c].chunk = reads[c].chunk
        /\ \/ reads'[c].at = reads[c].at
           \/ reads[c].at = "waiting" /\ reads'[c].at = "resumed"
  <2> SUFFICES ASSUME NEW c \in Callers
               PROVE  /\ reads'[c] \in CallOf
                      /\ reads'[c].op = reads[c].op /\ reads'[c].step = reads[c].step
                      /\ reads'[c].size = reads[c].size /\ reads'[c].wanted = reads[c].wanted
                      /\ reads'[c].chunk = reads[c].chunk
                      /\ \/ reads'[c].at = reads[c].at
                         \/ reads[c].at = "waiting" /\ reads'[c].at = "resumed"
    OBVIOUS
  <2>1. CASE reads'[c] = reads[c]
    BY <1>2, <2>1
  <2>2. CASE reads[c].at = "waiting" /\ reads'[c] = [reads[c] EXCEPT !.at = "resumed"]
    BY <1>2, <2>2 DEF CallOf
  <2>3. QED
    BY <1>1, <2>1, <2>2
<1>4. reads' \in [Callers -> CallOf]
  BY <1>3 DEF Notified
<1>5. Busy' = Busy
  BY <1>3 DEF Busy
<1>6. QED
  BY <1>3, <1>4, <1>5 DEF InFlight
LEMMA OnDataGood ==
  ASSUME BinaryInv, NEW n \in 1..MaxData, OnData(n)
  PROVE  BinaryInv'
<1> DEFINE first == Prefix(stream.rest, n)
           kept  == Without(stream.rest, n)
<1>1. /\ BinaryTypeOK /\ InOrder /\ NoByteTwice /\ NoByteLost
      /\ Attached /\ OneChunk /\ EjectsAll /\ ShortAtEnd
      /\ stream \in Stream /\ reader \in Reader
  BY DEF BinaryInv, BinaryTypeOK
<1>2. /\ reader.present /\ ~reader.ejected /\ n <= Len(stream.rest)
      /\ stream' = [stream EXCEPT !.rest = kept, !.flowing = FALSE]
      /\ reader' = [reader EXCEPT !.buffer = @ \o first, !.pending = NoCaller]
      /\ reads' = Notified(reads)
      /\ UNCHANGED <<file, opened, buffer, out, piped, dropped, overlapped>>
  BY DEF OnData, history
<1>3. /\ n \in Nat /\ n > 0 /\ stream.rest \in Bytes /\ reader.buffer \in Bytes
      /\ Len(stream.rest) \in Nat
  BY <1>1, BinaryAssumption, TypesAre, BytesType
<1>4. /\ first \in Bytes /\ kept \in Bytes /\ first \o kept = stream.rest
      /\ Range(stream.rest) = Range(first) \cup Range(kept)
      /\ Range(first) \cap Range(kept) = {}
  <2> DEFINE m == IF n < Len(stream.rest) THEN n ELSE Len(stream.rest)
  <2>1. m = n
    BY <1>2, <1>3
  <2>2. /\ Prefix(stream.rest, m) \in Bytes /\ kept \in Bytes
        /\ Prefix(stream.rest, m) \o kept = stream.rest
        /\ Range(stream.rest) = Range(Prefix(stream.rest, m)) \cup Range(kept)
        /\ Range(Prefix(stream.rest, m)) \cap Range(kept) = {}
    BY <1>3, PartedBytes, Zenon
  <2> HIDE DEF m
  <2>3. QED
    BY <2>1, <2>2, Zenon
<1>a. stream.rest # <<>>
  <2>1. Len(stream.rest) # 0
    BY <1>2, <1>3
  <2>2. QED
    BY <2>1, NoBytes
<1> HIDE DEF first, kept
<1>5. /\ stream'.rest = kept /\ reader'.buffer = reader.buffer \o first
      /\ reader'.present = reader.present /\ reader'.ended = reader.ended
      /\ reader'.ejected = reader.ejected /\ reader'.pending = NoCaller
  BY <1>1, <1>2 DEF Stream, Reader
<1>6. /\ reader'.buffer \in Bytes
      /\ Range(reader'.buffer) = Range(reader.buffer) \cup Range(first)
  <2>1. Range(reader.buffer) \cap Range(first) = {}
    BY <1>1, <1>4, ApartPlaces
  <2>2. QED
    BY <1>3, <1>4, <1>5, <2>1, JoinedBytes
<1>7. /\ reads' \in [Callers -> CallOf]
      /\ \A c \in Callers :
           /\ reads'[c].op = reads[c].op /\ reads'[c].step = reads[c].step
           /\ reads'[c].size = reads[c].size /\ reads'[c].wanted = reads[c].wanted
           /\ InFlight(c)' = InFlight(c)
           /\ \/ reads'[c].at = reads[c].at
              \/ reads[c].at = "waiting" /\ reads'[c].at = "resumed"
      /\ Busy' = Busy
  BY <1>1, <1>2, NotifiedIs
<1>8. Sequential' = Sequential /\ Readable /\ Readable' = Readable
  BY <1>2, <1>5 DEF Sequential, Readable
<1>9. BinaryTypeOK'
  <2>1. stream' \in Stream
    BY <1>1, <1>2, <1>4 DEF Stream
  <2>2. reader' \in Reader
    BY <1>1, <1>2, <1>5, <1>6 DEF Reader
  <2>3. QED
    BY <1>1, <1>2, <1>7, <2>1, <2>2 DEF BinaryTypeOK
<1>10. InOrder'
  <2> SUFFICES ASSUME Sequential, NEW c \in Callers, Busy' \subseteq {c}
               PROVE  (out \o (piped \o (buffer \o (InFlight(c) \o (reader.buffer \o stream.rest))))
                         = Content)'
    BY <1>8 DEF InOrder
  <2>1. out \o (piped \o (buffer \o (InFlight(c) \o (reader.buffer \o stream.rest)))) = Content
    BY <1>1, <1>7, <1>8 DEF InOrder
  <2>2. reader.buffer \in Run /\ first \in Run /\ kept \in Run
    BY <1>3, <1>4, RunsJoin
  <2>3. (reader.buffer \o first) \o kept = reader.buffer \o (first \o kept)
    BY <2>2, RunsJoin, Zenon
  <2>4. reader'.buffer \o stream'.rest = reader.buffer \o stream.rest
    BY <1>4, <1>5, <2>3, Zenon
  <2>5. InFlight(c)' = InFlight(c)
    BY <1>7
  <2>6. QED
    BY <1>2, <2>1, <2>4, <2>5
<1>11. NoByteTwice' /\ NoByteLost'
  <2>1. \A h \in Holders : h # Holder("stream") /\ h # Holder("reader") => Holding'[h] = Holding[h]
    <3>1. \A h \in Holders : h # Holder("stream") /\ h # Holder("reader") => Held(h)' = Held(h)
      BY <1>2, <1>7 DEF Held, Holders, Holder, Caller
    <3>2. QED
      BY <3>1 DEF Holding
  <2>2. /\ Holding[Holder("stream")] = Range(stream.rest)
        /\ Holding[Holder("reader")] = Range(reader.buffer)
        /\ Holding'[Holder("stream")] = Range(kept)
        /\ Holding'[Holder("reader")] = Range(reader.buffer) \cup Range(first)
    BY <1>5, <1>6, HoldingIs, HoldingThen
  <2>3. Moved(Holding, Holding', Holder("stream"), Holder("reader"), Range(first))
    BY <1>4, <2>1, <2>2, HoldersAre DEF Moved
  <2>4. QED
    BY <1>1, <1>2, <1>8, <2>3, BytesKept
<1>12. Attached'
  <2>1. ~reader.ended
    BY <1>1, <1>a DEF Attached
  <2>2. QED
    BY <1>1, <1>2, <1>5, <1>8, <2>1 DEF Attached
<1>13. OneChunk'
  BY <1>1, <1>2, <1>5, <1>7 DEF OneChunk
<1>14. EjectsAll'
  BY <1>1, <1>2, <1>5, <1>8 DEF EjectsAll
<1>15. ShortAtEnd'
  <2>1. ASSUME NEW c \in Callers
        PROVE  /\ reads'[c].op = "chunk" => reads'[c].size = reads'[c].step
               /\ Sequential =>
                    /\ reads'[c].at \in {"waiting", "resumed", "append"} =>
                         reads'[c].wanted + Len(buffer) = reads'[c].size
                    /\ ~(\/ reads'[c].at = "append" /\ Len(InFlight(c)') < reads'[c].wanted
                         \/ reads'[c].at = "filled" /\ Len(buffer) < reads'[c].size)
    <3>1. ~reader.ended
      BY <1>1, <1>a DEF Attached
    <3>2. QED
      BY <1>1, <1>7, <3>1 DEF ShortAtEnd
  <2>2. QED
    BY <1>2, <1>8, <2>1 DEF ShortAtEnd
<1>16. QED
  BY <1>9, <1>10, <1>11, <1>12, <1>13, <1>14, <1>15 DEF BinaryInv

(* No byte changes hands.                                                  *)
LEMMA BytesStill ==
  ASSUME NoByteTwice, NoByteLost,
         UNCHANGED <<buffer, out, piped, dropped>>,
         reader'.buffer = reader.buffer, stream'.rest = stream.rest,
         reader'.present = reader.present,
         \A c \in Callers : InFlight(c)' = InFlight(c)
  PROVE  NoByteTwice' /\ NoByteLost'
<1>1. \A h \in Holders : Held(h)' = Held(h)
  BY DEF Held, Holders
<1>2. QED
  BY <1>1 DEF NoByteTwice, NoByteLost, Readable

LEMMA OnEndGood ==
  ASSUME BinaryInv, OnEnd
  PROVE  BinaryInv'
<1>1. /\ BinaryTypeOK /\ InOrder /\ NoByteTwice /\ NoByteLost
      /\ Attached /\ OneChunk /\ EjectsAll /\ ShortAtEnd
      /\ stream \in Stream /\ reader \in Reader
  BY DEF BinaryInv, BinaryTypeOK
<1>2. /\ reader.present /\ ~reader.ejected /\ stream.rest = <<>>
      /\ stream' = [stream EXCEPT !.flowing = FALSE, !.ended = TRUE]
      /\ reader' = [reader EXCEPT !.ended = TRUE, !.pending = NoCaller]
      /\ reads' = Notified(reads)
      /\ UNCHANGED <<file, opened, buffer, out, piped, dropped, overlapped>>
  BY DEF OnEnd, history
<1>3. /\ stream' \in Stream /\ stream'.rest = stream.rest
      /\ reader' \in Reader /\ reader'.buffer = reader.buffer
      /\ reader'.present = reader.present /\ reader'.ended
      /\ reader'.ejected = reader.ejected /\ reader'.pending = NoCaller
  BY <1>1, <1>2 DEF Stream, Reader
<1>4. /\ reads' \in [Callers -> CallOf]
      /\ \A c \in Callers :
           /\ reads'[c].op = reads[c].op /\ reads'[c].step = reads[c].step
           /\ reads'[c].size = reads[c].size /\ reads'[c].wanted = reads[c].wanted
           /\ InFlight(c)' = InFlight(c)
           /\ \/ reads'[c].at = reads[c].at
              \/ reads[c].at = "waiting" /\ reads'[c].at = "resumed"
      /\ Busy' = Busy
  BY <1>1, <1>2, NotifiedIs
<1>5. Sequential' = Sequential /\ Readable /\ Readable' = Readable
  BY <1>2, <1>3 DEF Sequential, Readable
<1>6. BinaryTypeOK'
  BY <1>1, <1>2, <1>3, <1>4 DEF BinaryTypeOK
<1>7. InOrder'
  <2> SUFFICES ASSUME Sequential, NEW c \in Callers, Busy' \subseteq {c}
               PROVE  (out \o (piped \o (buffer \o (InFlight(c) \o (reader.buffer \o stream.rest))))
                         = Content)'
    BY <1>5 DEF InOrder
  <2>1. out \o (piped \o (buffer \o (InFlight(c) \o (reader.buffer \o stream.rest)))) = Content
    BY <1>1, <1>4, <1>5 DEF InOrder
  <2>2. InFlight(c)' = InFlight(c)
    BY <1>4
  <2>3. QED
    BY <1>2, <1>3, <2>1, <2>2
<1>8. NoByteTwice' /\ NoByteLost'
  BY <1>1, <1>2, <1>3, <1>4, BytesStill
<1>9. Attached'
  BY <1>1, <1>2, <1>3, <1>5 DEF Attached
<1>10. OneChunk'
  BY <1>1, <1>2, <1>3, <1>4 DEF OneChunk
<1>11. EjectsAll'
  BY <1>1, <1>2, <1>3, <1>5 DEF EjectsAll
<1>12. ShortAtEnd'
  BY <1>1, <1>2, <1>3, <1>4, <1>5 DEF ShortAtEnd
<1>13. QED
  BY <1>6, <1>7, <1>8, <1>9, <1>10, <1>11, <1>12 DEF BinaryInv
(***************************************************************************)
(* BinaryData: steps of the container.                                     *)
(***************************************************************************)

Pools(held, then, to, from) ==
  /\ to \in Holders /\ from \subseteq Holders /\ to \notin from
  /\ \A h \in Holders : h # to /\ h \notin from => then[h] = held[h]
  /\ \A h \in from : then[h] = {}
  /\ then[to] = UNION {held[h] : h \in from}

(* All that some hold goes to one that is given anew.                      *)
LEMMA PooledBytes ==
  ASSUME NEW held, NEW then, NEW to, NEW from, Pools(held, then, to, from), Apart(held)
  PROVE  /\ Apart(then)
         /\ held[to] = {} /\ Whole(held) => Whole(then)
<1>1. Apart(then)
  <2> SUFFICES ASSUME NEW g \in Holders, NEW h \in Holders, g # h,
                      NEW b, b \in then[g], b \in then[h]
               PROVE  FALSE
    BY DEF Apart
  <2>1. ASSUME NEW i \in Holders, b \in then[i]
        PROVE  \/ i = to /\ \E k \in from : b \in held[k]
               \/ i # to /\ i \notin from /\ b \in held[i]
    BY <2>1 DEF Pools
  <2>2. QED
    BY <2>1 DEF Apart, Pools
<1>2. ASSUME held[to] = {}, Whole(held)
      PROVE  Whole(then)
  <2> SUFFICES ASSUME NEW b \in Range(Content)
               PROVE  \E h \in Holders : b \in then[h]
    BY DEF Whole
  <2>1. PICK h \in Holders : b \in held[h]
    BY <1>2 DEF Whole
  <2>2. CASE h \in from
    BY <2>1, <2>2 DEF Pools
  <2>3. CASE h \notin from
    BY <1>2, <2>1, <2>3 DEF Pools
  <2>4. QED
    BY <2>2, <2>3
<1>3. QED
  BY <1>1, <1>2

LEMMA ToStreamGood ==
  ASSUME BinaryInv, ToStream
  PROVE  BinaryInv'
<1> DEFINE front == buffer \o reader.buffer
           all   == front \o stream.rest
<1>1. /\ BinaryTypeOK /\ InOrder /\ NoByteTwice /\ NoByteLost
      /\ Attached /\ OneChunk /\ EjectsAll /\ ShortAtEnd
      /\ stream \in Stream /\ reader \in Reader /\ overlapped \in BOOLEAN
      /\ reads \in [Callers -> CallOf]
  BY DEF BinaryInv, BinaryTypeOK
<1>2. /\ reader.present /\ ~reader.ejected
      /\ piped' = all /\ buffer' = <<>>
      /\ reader' = [reader EXCEPT !.buffer = <<>>, !.ejected = TRUE]
      /\ stream' = [stream EXCEPT !.rest = <<>>]
      /\ overlapped' = (overlapped \/ Busy # {})
      /\ UNCHANGED <<file, opened, reads, out, dropped>>
  BY DEF ToStream
<1>3. buffer \in Bytes /\ reader.buffer \in Bytes /\ stream.rest \in Bytes /\ out \in Bytes
  BY <1>1, TypesAre
<1>4. /\ all \in Bytes
      /\ Range(all) = (Range(buffer) \cup Range(reader.buffer)) \cup Range(stream.rest)
  <2>1. front \in Bytes /\ Range(front) = Range(buffer) \cup Range(reader.buffer)
    BY <1>1, <1>3, ApartPlaces, JoinedBytes
  <2> HIDE DEF front
  <2>2. Range(front) \cap Range(stream.rest) = {}
    BY <1>1, <2>1, ApartPlaces
  <2>3. QED
    BY <1>3, <2>1, <2>2, JoinedBytes
<1>5. all = (buffer \o reader.buffer) \o stream.rest
  OBVIOUS
<1> HIDE DEF front, all
<1>6. /\ stream' \in Stream /\ stream'.rest = <<>>
      /\ reader' \in Reader /\ reader'.buffer = <<>> /\ reader'.ejected
      /\ reader'.present = reader.present /\ reader'.ended = reader.ended
      /\ reader'.pending = reader.pending
  BY <1>1, <1>2, NoBytes DEF Stream, Reader
<1>7. /\ \A c \in Callers : InFlight(c)' = InFlight(c)
      /\ Busy' = Busy /\ (~overlapped' => ~overlapped /\ Busy = {})
      /\ Readable /\ Readable'
      /\ Sequential' => Sequential /\ Busy = {}
      /\ ~dropped => piped = <<>>
  BY <1>1, <1>2, <1>6 DEF InFlight, Busy, Readable, Sequential, EjectsAll
<1>8. BinaryTypeOK'
  BY <1>1, <1>2, <1>4, <1>6, NoBytes DEF BinaryTypeOK
<1>9. InOrder'
  <2> SUFFICES ASSUME Sequential', NEW c \in Callers
               PROVE  (out \o (piped \o (buffer \o (InFlight(c) \o (reader.buffer \o stream.rest))))
                         = Content)'
    BY DEF InOrder
  <2>1. Busy = {} /\ piped = <<>>
    BY <1>7 DEF Sequential
  <2>2. InFlight(c) = <<>>
    BY <1>1, <2>1, IdleHoldsNone
  <2>3. out \o (piped \o (buffer \o (InFlight(c) \o (reader.buffer \o stream.rest)))) = Content
    BY <1>1, <1>7, <2>1 DEF InOrder
  <2>4. buffer \in Run /\ reader.buffer \in Run /\ stream.rest \in Run
    BY <1>3, RunsJoin
  <2>5. all \o (<<>> \o (<<>> \o (<<>> \o <<>>)))
          = <<>> \o (buffer \o (<<>> \o (reader.buffer \o stream.rest)))
    BY <1>5, <2>4, StreamInTurn, Zenon
  <2>6. out \o (all \o (<<>> \o (<<>> \o (<<>> \o <<>>)))) = Content
    BY <2>1, <2>2, <2>3, <2>5, Zenon
  <2>7. InFlight(c)' = <<>>
    BY <1>7, <2>2
  <2>8. QED
    BY <1>2, <1>6, <2>6, <2>7, Zenon
<1>10. NoByteTwice' /\ NoByteLost'
  <2> DEFINE from == {Holder("buffer"), Holder("reader"), Holder("stream")}
  <2>1. \A h \in Holders : h # Holder("piped") /\ h \notin from => Holding'[h] = Holding[h]
    <3>1. \A h \in Holders : h # Holder("piped") /\ h \notin from => Held(h)' = Held(h)
      BY <1>2, <1>7 DEF Held, Holders, Holder
    <3>2. QED
      BY <3>1 DEF Holding
  <2>2. /\ Holding[Holder("buffer")] = Range(buffer)
        /\ Holding[Holder("reader")] = Range(reader.buffer)
        /\ Holding[Holder("stream")] = Range(stream.rest)
        /\ Holding[Holder("piped")] = Range(piped)
        /\ Holding'[Holder("piped")] = Range(all)
        /\ Holding'[Holder("buffer")] = {}
        /\ Holding'[Holder("reader")] = {}
        /\ Holding'[Holder("stream")] = {}
    BY <1>2, <1>6, HoldingIs, HoldingThen, NoBytes
  <2>3. Pools(Holding, Holding', Holder("piped"), from)
    <3>1. UNION {Holding[h] : h \in from}
            = (Range(buffer) \cup Range(reader.buffer)) \cup Range(stream.rest)
      BY <2>2
    <3>2. Holder("piped") \in Holders /\ from \subseteq Holders /\ Holder("piped") \notin from
      BY HoldersAre
    <3>3. QED
      BY <1>4, <2>1, <2>2, <3>1, <3>2 DEF Pools
  <2>4. Apart(Holding') /\ (Holding[Holder("piped")] = {} /\ Whole(Holding) => Whole(Holding'))
    BY <1>1, <2>3, PooledBytes, HoldingOfInvariant
  <2>5. ~dropped => Holding[Holder("piped")] = {}
    BY <1>7, <2>2, NoBytes
  <2>6. /\ NoByteTwice' <=> Apart(Holding')
        /\ NoByteLost' <=> (~dropped' /\ Readable' => Whole(Holding'))
    BY InvariantThen
  <2>7. QED
    BY <1>1, <1>2, <1>7, <2>4, <2>5, <2>6, HoldingOfInvariant
<1>11. Attached'
  BY <1>1, <1>2, <1>6, <1>7 DEF Attached
<1>12. OneChunk'
  BY <1>1, <1>2, <1>6, <1>7 DEF OneChunk
<1>13. EjectsAll'
  BY <1>1, <1>2, <1>6, <1>7, IdleHoldsNone DEF EjectsAll
<1>14. ShortAtEnd'
  <2>1. Sequential' => \A c \in Callers : reads'[c].at = "idle"
    BY <1>2, <1>7 DEF Busy
  <2>2. QED
    BY <1>1, <1>2, <2>1 DEF ShortAtEnd
<1>15. QED
  BY <1>8, <1>9, <1>10, <1>11, <1>12, <1>13, <1>14 DEF BinaryInv

(* No call is in progress when a file is initialized or destroyed.         *)
LEMMA BetweenCalls ==
  ASSUME BinaryInv, Busy = {}, reads' = reads
  PROVE  /\ \A c \in Callers : InFlight(c) = <<>> /\ InFlight(c)' = <<>>
         /\ \A c \in Callers : reads'[c].at = "idle"
         /\ Busy' = {}
         /\ \A c \in Callers : reads'[c].op = "chunk" => reads'[c].size = reads'[c].step
         /\ ~overlapped => reader.pending = NoCaller
<1>1. /\ BinaryTypeOK /\ OneChunk /\ ShortAtEnd
  BY DEF BinaryInv
<1>2. \A c \in Callers : reads[c].at = "idle"
  BY DEF Busy
<1>3. reader.pending \in Callers \cup {NoCaller}
  BY <1>1, TypesAre
<1>4. ~overlapped => reader.pending = NoCaller
  BY <1>1, <1>2, <1>3 DEF OneChunk
<1>5. QED
  BY <1>1, <1>2, <1>4 DEF OneChunk, ShortAtEnd, InFlight, Busy

LEMMA InitializeGood ==
  ASSUME BinaryInv, Initialize
  PROVE  BinaryInv'
<1>1. /\ BinaryTypeOK /\ NoByteTwice /\ Attached /\ OneChunk /\ EjectsAll
      /\ stream \in Stream /\ reader \in Reader /\ file \in BOOLEAN
      /\ reads \in [Callers -> CallOf] /\ overlapped \in BOOLEAN
      /\ buffer \in Bytes /\ out \in Bytes /\ piped \in Bytes
  BY TypesAre DEF BinaryInv, BinaryTypeOK
<1>2. /\ file /\ Busy = {} /\ opened' /\ opened' \in BOOLEAN /\ reader' = NewReader
      /\ UNCHANGED <<file, buffer, reads, overlapped>>
  BY DEF Initialize
<1>3. /\ reader' \in Reader /\ reader'.buffer = <<>> /\ reader'.present /\ ~reader'.ended
      /\ ~reader'.ejected /\ reader'.pending = NoCaller
  BY <1>2, NoBytes DEF NewReader, Reader
<1>4. /\ \A c \in Callers : InFlight(c) = <<>> /\ InFlight(c)' = <<>>
      /\ \A c \in Callers : reads'[c].at = "idle"
      /\ Busy' = {}
      /\ \A c \in Callers : reads'[c].op = "chunk" => reads'[c].size = reads'[c].step
  BY <1>2, BetweenCalls
<1>5. ASSUME NEW rest \in Bytes
      PROVE  NewStream(rest) \in Stream /\ NewStream(rest).rest = rest
  BY DEF NewStream, Stream
<1>6. Attached' /\ OneChunk' /\ ShortAtEnd'
  <2>1. Attached'
    BY <1>2, <1>3 DEF Attached, Readable
  <2>2. OneChunk'
    BY <1>3, <1>4 DEF OneChunk
  <2>3. ShortAtEnd'
    BY <1>4 DEF ShortAtEnd
  <2>4. QED
    BY <2>1, <2>2, <2>3
<1>7. EjectsAll' <=> (~dropped' => piped' = <<>>)
  BY <1>3 DEF EjectsAll, Readable
<1>8. CASE /\ ~opened /\ stream' = NewStream(Content)
           /\ out' = <<>> /\ piped' = <<>> /\ dropped' = FALSE
  <2>1. stream' \in Stream /\ stream'.rest = Content
    BY <1>5, <1>8, ContentBytes
  <2>2. buffer = <<>>
    BY <1>1, <1>2, <1>8 DEF Attached
  <2>3. BinaryTypeOK'
    BY <1>1, <1>2, <1>3, <1>8, <2>1, NoBytes DEF BinaryTypeOK
  <2>4. InOrder'
    <3>1. Content \in Run
      BY ContentBytes, RunsJoin
    <3>2. <<>> \o (<<>> \o (<<>> \o (<<>> \o (<<>> \o Content)))) = Content
      BY <3>1, FreshBytes
    <3>3. ASSUME NEW c \in Callers
          PROVE  out' \o (piped' \o (buffer' \o (InFlight(c)' \o (reader'.buffer \o stream'.rest))))
                   = Content
      <4>1. InFlight(c)' = <<>> /\ buffer' = <<>>
        BY <1>2, <1>4, <2>2
      <4>2. QED
        BY <1>3, <1>8, <2>1, <3>2, <4>1, Zenon
    <3>4. QED
      BY <3>3 DEF InOrder
  <2>5. \A h \in Holders : h # Holder("stream") => Holding'[h] = {}
    <3>1. /\ Holding'[Holder("out")] = {} /\ Holding'[Holder("piped")] = {}
          /\ Holding'[Holder("buffer")] = {} /\ Holding'[Holder("reader")] = {}
          /\ \A c \in Callers : Holding'[Caller(c)] = {}
      BY <1>2, <1>3, <1>4, <1>8, <2>2, HoldingThen, NoBytes
    <3>2. QED
      BY <3>1, HoldersAre
  <2>6. Holder("stream") \in Holders /\ Holding'[Holder("stream")] = Range(Content)
    BY <2>1, HoldingThen, HoldersAre
  <2>7. NoByteTwice' /\ NoByteLost'
    <3>1. Apart(Holding') /\ Whole(Holding')
      BY <2>5, <2>6 DEF Apart, Whole
    <3>2. /\ NoByteTwice' <=> Apart(Holding')
          /\ NoByteLost' <=> (~dropped' /\ Readable' => Whole(Holding'))
      BY InvariantThen
    <3>3. QED
      BY <3>1, <3>2
  <2>8. QED
    BY <1>6, <1>7, <1>8, <2>3, <2>4, <2>7 DEF BinaryInv
<1>9. CASE /\ \E n \in 0..Len(stream.rest) : stream' = NewStream(Without(stream.rest, n))
           /\ dropped' = TRUE /\ UNCHANGED <<out, piped>>
  <2>1. PICK n \in 0..Len(stream.rest) : stream' = NewStream(Without(stream.rest, n))
    BY <1>9
  <2>2. stream.rest \in Bytes /\ n \in Nat
    BY <1>1, TypesAre, BytesType
  <2>3. /\ Without(stream.rest, n) \in Bytes
        /\ Range(Without(stream.rest, n)) \subseteq Range(stream.rest)
    <3> DEFINE first == Prefix(stream.rest, IF n < Len(stream.rest) THEN n ELSE Len(stream.rest))
               kept  == Without(stream.rest, n)
    <3>1. kept \in Bytes /\ Range(stream.rest) = Range(first) \cup Range(kept)
      BY <2>2, PartedBytes, Zenon
    <3> HIDE DEF first, kept
    <3>2. kept \in Bytes /\ Range(kept) \subseteq Range(stream.rest)
      BY <3>1
    <3>3. QED
      BY <3>2 DEF kept
  <2>4. stream' \in Stream /\ Range(stream'.rest) \subseteq Range(stream.rest)
    BY <1>5, <2>1, <2>3
  <2>5. BinaryTypeOK'
    BY <1>1, <1>2, <1>3, <1>9, <2>4, NoBytes DEF BinaryTypeOK
  <2>6. NoByteTwice'
    <3>1. \A h \in Holders : Holding'[h] \subseteq Holding[h]
      <4>1. /\ Holding'[Holder("out")] = Holding[Holder("out")]
            /\ Holding'[Holder("piped")] = Holding[Holder("piped")]
            /\ Holding'[Holder("buffer")] = Holding[Holder("buffer")]
            /\ Holding'[Holder("reader")] = {}
            /\ Holding'[Holder("stream")] \subseteq Holding[Holder("stream")]
            /\ \A c \in Callers : Holding'[Caller(c)] = {}
        BY <1>2, <1>3, <1>4, <1>9, <2>4, HoldingIs, HoldingThen, NoBytes
      <4>2. QED
        BY <4>1, HoldersAre
    <3>2. Apart(Holding')
      BY <1>1, <3>1, FewerBytes, HoldingOfInvariant
    <3>3. NoByteTwice' <=> Apart(Holding')
      BY InvariantThen
    <3>4. QED
      BY <3>2, <3>3
  <2>7. InOrder' /\ NoByteLost'
    BY <1>9 DEF InOrder, NoByteLost, Sequential
  <2>8. QED
    BY <1>6, <1>7, <1>9, <2>5, <2>6, <2>7 DEF BinaryInv
<1>10. QED
  BY <1>8, <1>9 DEF Initialize

LEMMA DestroyGood ==
  ASSUME BinaryInv, Destroy
  PROVE  BinaryInv'
<1>1. /\ BinaryTypeOK /\ NoByteTwice /\ Attached /\ OneChunk
      /\ stream \in Stream /\ reader \in Reader /\ file \in BOOLEAN
      /\ reads \in [Callers -> CallOf] /\ overlapped \in BOOLEAN
      /\ buffer \in Bytes /\ out \in Bytes /\ piped \in Bytes
  BY TypesAre DEF BinaryInv, BinaryTypeOK
<1>2. /\ Busy = {} /\ buffer' = <<>>
      /\ UNCHANGED <<file, stream, reads, out, piped, overlapped>>
  BY DEF Destroy
<1>3. /\ \A c \in Callers : InFlight(c) = <<>> /\ InFlight(c)' = <<>>
      /\ \A c \in Callers : reads'[c].at = "idle"
      /\ Busy' = {}
      /\ \A c \in Callers : reads'[c].op = "chunk" => reads'[c].size = reads'[c].step
      /\ ~overlapped => reader.pending = NoCaller
  BY <1>2, BetweenCalls
<1>4. /\ reader' \in Reader /\ dropped' \in BOOLEAN /\ opened' \in BOOLEAN
      /\ reader'.buffer = <<>> \/ reader'.buffer = reader.buffer
      /\ ~overlapped => reader'.pending = NoCaller
      /\ Attached'
      /\ dropped' \/ ~Readable'
  <2>1. CASE /\ file /\ opened /\ opened' = FALSE
             /\ reader' = [NewReader EXCEPT !.present = FALSE] /\ dropped' = dropped
    <3>1. /\ reader' \in Reader /\ reader'.buffer = <<>> /\ reader'.present = FALSE
          /\ reader'.ended = FALSE /\ reader'.pending = NoCaller
      BY <2>1, NoBytes DEF NewReader, Reader
    <3>2. Attached'
      BY <1>2, <1>3, <2>1, <3>1 DEF Attached, Readable
    <3>3. QED
      BY <1>1, <2>1, <3>1, <3>2 DEF BinaryTypeOK, Readable
  <2>2. CASE buffer # <<>> /\ dropped' = TRUE /\ opened' = opened /\ reader' = reader
    <3>1. Attached'
      BY <1>1, <1>2, <1>3, <2>2 DEF Attached, Readable
    <3>2. QED
      BY <1>1, <1>3, <2>2, <3>1 DEF BinaryTypeOK
  <2>3. QED
    BY <2>1, <2>2 DEF Destroy
<1>5. BinaryTypeOK'
  BY <1>1, <1>2, <1>4, NoBytes DEF BinaryTypeOK
<1>6. NoByteTwice'
  <2>1. \A h \in Holders : Holding'[h] \subseteq Holding[h]
    <3>1. /\ Holding'[Holder("out")] = Holding[Holder("out")]
          /\ Holding'[Holder("piped")] = Holding[Holder("piped")]
          /\ Holding'[Holder("stream")] = Holding[Holder("stream")]
          /\ Holding'[Holder("buffer")] = {}
          /\ Holding'[Holder("reader")] \subseteq Holding[Holder("reader")]
          /\ \A c \in Callers : Holding'[Caller(c)] = {}
      BY <1>2, <1>3, <1>4, HoldingIs, HoldingThen, NoBytes
    <3>2. QED
      BY <3>1, HoldersAre
  <2>2. Apart(Holding')
    BY <1>1, <2>1, FewerBytes, HoldingOfInvariant
  <2>3. NoByteTwice' <=> Apart(Holding')
    BY InvariantThen
  <2>4. QED
    BY <2>2, <2>3
<1>7. InOrder' /\ NoByteLost' /\ EjectsAll'
  BY <1>4 DEF InOrder, NoByteLost, EjectsAll, Sequential
<1>8. OneChunk' /\ ShortAtEnd'
  BY <1>2, <1>3, <1>4 DEF OneChunk, ShortAtEnd
<1>9. QED
  BY <1>4, <1>5, <1>6, <1>7, <1>8 DEF BinaryInv
(* However calls, events of the stream, toStream and the life of a file    *)
(* interleave, no byte is in two places or lost, and calls one at a time   *)
(* hand the content out in order.                                          *)
THEOREM BytesAccounted == BinarySpec => []BinaryInv
<1>1. BinaryInit => BinaryInv
  <2> SUFFICES ASSUME BinaryInit PROVE BinaryInv
    OBVIOUS
  <2>1. /\ file \in BOOLEAN /\ opened = FALSE /\ buffer = <<>> /\ out = <<>> /\ piped = <<>>
        /\ dropped = FALSE /\ overlapped = FALSE
        /\ stream \in Stream /\ stream.rest = Content
        /\ reader \in Reader /\ reader.present = ~file /\ reader.buffer = <<>>
        /\ ~reader.ended /\ ~reader.ejected /\ reader.pending = NoCaller
    BY ContentBytes, NoBytes DEF BinaryInit, NewStream, Stream, NewReader, Reader
  <2>2. /\ reads \in [Callers -> CallOf]
        /\ \A c \in Callers : reads[c].op = "none" /\ reads[c].at = "idle" /\ InFlight(c) = <<>>
    BY NoBytes DEF BinaryInit, NoCall, CallOf, InFlight
  <2>3. Busy = {}
    BY <2>2 DEF Busy
  <2>4. BinaryTypeOK
    BY <2>1, <2>2, NoBytes DEF BinaryTypeOK
  <2>5. InOrder
    <3>1. Content \in Run
      BY ContentBytes, RunsJoin
    <3>2. <<>> \o (<<>> \o (<<>> \o (<<>> \o (<<>> \o Content)))) = Content
      BY <3>1, FreshBytes
    <3>3. QED
      BY <2>1, <2>2, <3>2, Zenon DEF InOrder
  <2>6. Apart(Holding) /\ Whole(Holding)
    <3>1. /\ Holding[Holder("out")] = {} /\ Holding[Holder("piped")] = {}
          /\ Holding[Holder("buffer")] = {} /\ Holding[Holder("reader")] = {}
          /\ Holding[Holder("stream")] = Range(Content)
          /\ \A c \in Callers : Holding[Caller(c)] = {}
      BY <2>1, <2>2, HoldingIs, NoBytes
    <3>2. \A h \in Holders : h # Holder("stream") => Holding[h] = {}
      BY <3>1, HoldersAre
    <3>3. Holder("stream") \in Holders
      BY HoldersAre
    <3>4. QED
      BY <3>1, <3>2, <3>3 DEF Apart, Whole
  <2>7. NoByteTwice /\ NoByteLost
    BY <2>6, HoldingOfInvariant
  <2>8. Attached /\ OneChunk /\ EjectsAll /\ ShortAtEnd
    BY <2>1, <2>2, <2>3 DEF Attached, OneChunk, EjectsAll, ShortAtEnd, Readable
  <2>9. QED
    BY <2>4, <2>5, <2>7, <2>8 DEF BinaryInv
<1>2. BinaryInv /\ [BinaryNext]_binaryVars => BinaryInv'
  <2> SUFFICES ASSUME BinaryInv, [BinaryNext]_binaryVars PROVE BinaryInv'
    OBVIOUS
  <2>1. CASE OnEnd
    BY <2>1, OnEndGood
  <2>2. CASE \E n \in 1..MaxData : OnData(n)
    BY <2>2, OnDataGood
  <2>3. CASE \E c \in Callers, op \in {"peek", "read", "chunk", "all"}, n \in Sizes :
               Start(c, op, n)
    BY <2>3, StartGood
  <2>4. CASE \E c \in Callers : Continue(c)
    BY <2>4, ResumeGood, AppendGood, ReadOnGood, ReturnGood DEF Continue
  <2>5. CASE ToStream
    BY <2>5, ToStreamGood
  <2>6. CASE Initialize
    BY <2>6, InitializeGood
  <2>7. CASE Destroy
    BY <2>7, DestroyGood
  <2>8. CASE UNCHANGED binaryVars
    <3>1. \A h \in Holders : Held(h)' = Held(h)
      BY <2>8 DEF binaryVars, Held, InFlight
    <3>2. \A c \in Callers : InFlight(c)' = InFlight(c)
      BY <2>8 DEF binaryVars, InFlight
    <3>3. /\ BinaryTypeOK' /\ Attached' /\ OneChunk' /\ EjectsAll' /\ ShortAtEnd'
      BY <2>8 DEF binaryVars, BinaryInv, BinaryTypeOK, Attached, OneChunk, EjectsAll, ShortAtEnd,
                  Readable, Sequential, Busy, InFlight
    <3>4. InOrder'
      BY <2>8 DEF binaryVars, BinaryInv, InOrder, Readable, Sequential, Busy, InFlight
    <3>5. NoByteTwice' /\ NoByteLost'
      BY <2>8, <3>1 DEF binaryVars, BinaryInv, NoByteTwice, NoByteLost, Readable
    <3>6. QED
      BY <3>3, <3>4, <3>5 DEF BinaryInv
  <2>9. QED
    BY <2>1, <2>2, <2>3, <2>4, <2>5, <2>6, <2>7, <2>8 DEF BinaryNext, Events
<1>3. QED
  BY <1>1, <1>2, PTL DEF BinarySpec

(* How a call that had what it asked for ends.                             *)
LEMMA EndsByReturn ==
  ASSUME BinaryInv, BinaryNext, NEW c \in Callers,
         reads[c].at = "filled", reads'[c].at = "idle",
         reads[c].op = "all" => Sequential /\ ~reader.ejected
  PROVE  Return(c)
<1>1. /\ BinaryTypeOK /\ OneChunk /\ Attached /\ reads \in [Callers -> CallOf] /\ reads[c] \in CallOf
      /\ reader.present \in BOOLEAN
  BY TypesAre DEF BinaryInv, BinaryTypeOK
<1>2. c \in Busy /\ Readable
  BY <1>1 DEF Busy, Attached
<1>3. ~Events
  <2>1. ASSUME reads' = Notified(reads) PROVE FALSE
    BY <1>1, <2>1, NotifiedIs
  <2>2. QED
    BY <2>1 DEF Events, OnData, OnEnd
<1>4. ~ToStream /\ ~Initialize /\ ~Destroy
  BY <1>2 DEF ToStream, Initialize, Destroy
<1>5. ASSUME NEW d \in Callers, d # c, NEW state, reads' = [reads EXCEPT ![d] = state]
      PROVE  FALSE
  BY <1>1, <1>5
<1>6. ASSUME NEW d \in Callers, NEW started, FillBuffer(d, started)
      PROVE  \E state : reads' = [reads EXCEPT ![d] = state]
  BY <1>6 DEF FillBuffer, ReadContainer
<1>7. ASSUME NEW d \in Callers, NEW started, ReadContainer(d, started)
      PROVE  \E state : reads' = [reads EXCEPT ![d] = state]
  BY <1>7 DEF ReadContainer
<1>8. ASSUME NEW d \in Callers, NEW op \in {"peek", "read", "chunk", "all"}, NEW n \in Sizes,
             Start(d, op, n)
      PROVE  FALSE
  <2>1. d # c
    BY <1>8 DEF Start
  <2>2. PICK state : reads' = [reads EXCEPT ![d] = state]
    BY <1>6, <1>8 DEF Start
  <2>3. QED
    BY <1>5, <2>1, <2>2
<1>9. ASSUME NEW d \in Callers, d # c, Continue(d)
      PROVE  FALSE
  <2>1. CASE Resume(d)
    BY <1>5, <1>7, <1>9, <2>1 DEF Resume
  <2>2. CASE Append_(d)
    <3>1. \A e \in Callers : e # d => reads'[e] = reads[e]
      BY <1>1, <2>2 DEF Append_
    <3>2. QED
      BY <1>9, <3>1
  <2>3. CASE ReadOn(d)
    BY <1>5, <1>6, <1>9, <2>3 DEF ReadOn
  <2>4. CASE Return(d)
    BY <1>5, <1>9, <2>4 DEF Return
  <2>5. QED
    BY <1>9, <2>1, <2>2, <2>3, <2>4 DEF Continue
<1>10. ~Resume(c) /\ ~Append_(c)
  BY DEF Resume, Append_
<1>11. ASSUME ReadOn(c)
       PROVE  FALSE
  <2> DEFINE d == [reads[c] EXCEPT !.size = @ + reads[c].step]
             e == [d EXCEPT !.wanted = d.size - Len(buffer)]
  <2>1. reads[c].op = "all" /\ FillBuffer(c, d) /\ Sequential /\ ~reader.ejected
    BY <1>11 DEF ReadOn
  <2>2. reader.pending = NoCaller
    <3>1. Busy \subseteq {c} /\ ~overlapped
      BY <1>1, <1>2, <2>1 DEF OneChunk, Sequential
    <3>2. QED
      BY <1>1, <3>1, NobodyToWake
  <2>3. DOMAIN d = DOMAIN reads[c] /\ DOMAIN e = DOMAIN reads[c] /\ "at" \in DOMAIN reads[c]
    BY <1>1 DEF CallOf
  <2> HIDE DEF d, e
  <2>4. \A place : /\ [d EXCEPT !.at = place].at = place /\ [e EXCEPT !.at = place].at = place
                   /\ \A chunk : [e EXCEPT !.at = place, !.chunk = chunk].at = place
    BY <2>3
  <2>5. CASE ~(Len(buffer) < d.size)
    <3>1. reads' = [reads EXCEPT ![c] = [d EXCEPT !.at = "filled"]]
      BY <2>1, <2>5 DEF FillBuffer
    <3>2. QED
      BY <1>1, <2>4, <3>1
  <2>6. CASE Len(buffer) < d.size
    <3>1. ReadContainer(c, e)
      BY <2>1, <2>6 DEF FillBuffer, e
    <3>2. CASE Enough(e.wanted)
      <4>1. PICK chunk : reads' = [reads EXCEPT ![c] = [e EXCEPT !.at = "append", !.chunk = chunk]]
        BY <1>2, <3>1, <3>2 DEF ReadContainer, Readable
      <4>2. reads'[c].at = "append"
        BY <1>1, <2>4, <4>1
      <4>3. QED
        BY <4>2
    <3>3. CASE ~Enough(e.wanted)
      <4>1. reads' = [reads EXCEPT ![c] = [e EXCEPT !.at = "waiting"]]
        BY <1>2, <2>1, <2>2, <3>1, <3>3 DEF ReadContainer, Readable
      <4>2. QED
        BY <1>1, <2>4, <4>1
    <3>4. QED
      BY <3>2, <3>3
  <2>7. QED
    BY <2>5, <2>6
<1>12. QED
  BY <1>3, <1>4, <1>8, <1>9, <1>10, <1>11 DEF BinaryNext, Continue

(* A call that gets less than it asked for gets all that was left.         *)
LEMMA ShortReturn ==
  ASSUME BinaryInv, NEW c \in Callers, Return(c), Sequential, ~reader.ejected,
         Len(buffer) < reads[c].size,
         Len(buffer) <= Consumed(reads[c].op, reads[c].step),
         Consumed(reads[c].op, reads[c].step) \in Nat
  PROVE  out' = Content
<1> DEFINE n     == Consumed(reads[c].op, reads[c].step)
           taken == Prefix(buffer, IF n < Len(buffer) THEN n ELSE Len(buffer))
<1>1. /\ BinaryTypeOK /\ InOrder /\ Attached /\ OneChunk /\ EjectsAll /\ ShortAtEnd
  BY DEF BinaryInv
<1>2. reads[c].at = "filled" /\ out' = out \o taken
  BY DEF Return
<1>3. taken = buffer
  BY <1>1, TypesAre, PartedBytes, Zenon
<1> HIDE DEF taken, n
<1>4. c \in Busy /\ Readable /\ Busy \subseteq {c} /\ InFlight(c) = <<>>
  BY <1>1, <1>2 DEF Busy, Attached, OneChunk, Sequential
<1>5. reader.buffer = <<>> /\ stream.rest = <<>> /\ piped = <<>>
  BY <1>1, <1>2, <1>4 DEF ShortAtEnd, Attached, EjectsAll, Sequential
<1>6. out \o (piped \o (buffer \o (InFlight(c) \o (reader.buffer \o stream.rest)))) = Content
  BY <1>1, <1>4 DEF InOrder
<1>7. buffer \in Run
  BY <1>1, TypesAre, RunsJoin
<1>8. <<>> \o (buffer \o (<<>> \o (<<>> \o <<>>))) = buffer
  BY <1>7, RunsJoin
<1>9. QED
  BY <1>2, <1>3, <1>4, <1>5, <1>6, <1>8, Zenon

(* A chunk that is shorter than asked for is the last, and getAllData      *)
(* reads to the end, whatever the bytes, the sizes and the data events.    *)
THEOREM WholeIsRead == BinarySpec => ReadsWhole
<1>1. ASSUME BinaryInv, BinaryNext, NEW c \in Callers,
             reads[c].op = "chunk", reads[c].at = "filled", reads'[c].at = "idle",
             Sequential, Len(out') - Len(out) # reads[c].step
      PROVE  Len(out') - Len(out) < reads[c].step /\ (~reader.ejected => out' = Content)
  <2> DEFINE n     == reads[c].step
             taken == Prefix(buffer, IF n < Len(buffer) THEN n ELSE Len(buffer))
  <2>1. Return(c) /\ BinaryTypeOK /\ NoByteTwice /\ ShortAtEnd
    BY <1>1, EndsByReturn DEF BinaryInv
  <2>2. Consumed(reads[c].op, reads[c].step) = n
    BY <1>1 DEF Consumed
  <2>3. out' = out \o taken
    BY <2>1, <2>2 DEF Return
  <2>4. n \in Nat /\ buffer \in Bytes /\ out \in Bytes /\ Len(buffer) \in Nat /\ reads[c].size = n
    BY <1>1, <2>1, TypesAre, BytesType DEF ShortAtEnd
  <2>5. /\ taken \in Bytes /\ Range(taken) \subseteq Range(buffer)
        /\ Len(taken) = IF n < Len(buffer) THEN n ELSE Len(buffer)
    <3> DEFINE kept == Without(buffer, n)
    <3>1. /\ taken \in Bytes /\ Range(buffer) = Range(taken) \cup Range(kept)
          /\ Len(taken) = IF n < Len(buffer) THEN n ELSE Len(buffer)
      BY <2>4, PartedBytes, Zenon
    <3> HIDE DEF taken, kept
    <3>2. QED
      BY <3>1
  <2> HIDE DEF taken
  <2>6. Len(out') = Len(out) + Len(taken) /\ Len(out) \in Nat
    <3>1. Range(out) \cap Range(taken) = {}
      BY <2>1, <2>5, ApartPlaces
    <3>2. QED
      BY <2>3, <2>4, <2>5, <3>1, JoinedBytes, BytesType
  <2>7. Len(taken) # n
    BY <1>1, <2>4, <2>5, <2>6
  <2>8. Len(buffer) < n /\ Len(taken) < n
    BY <2>4, <2>5, <2>7
  <2>9. ~reader.ejected => out' = Content
    BY <1>1, <2>1, <2>2, <2>4, <2>8, ShortReturn
  <2>10. Len(taken) \in Nat
    BY <2>5, BytesType
  <2>11. QED
    BY <2>4, <2>6, <2>8, <2>9, <2>10
<1>2. ASSUME BinaryInv, BinaryNext, NEW c \in Callers,
             reads[c].op = "all", reads[c].at = "filled", reads'[c].at = "idle",
             Sequential, ~reader.ejected
      PROVE  out' = Content
  <2>1. Return(c) /\ BinaryTypeOK
    BY <1>2, EndsByReturn DEF BinaryInv
  <2>2. Consumed(reads[c].op, reads[c].step) = Len(buffer) /\ Len(buffer) < reads[c].size
    BY <1>2, <2>1 DEF Consumed, Return
  <2>3. Len(buffer) \in Nat
    BY <2>1, TypesAre, BytesType
  <2>4. QED
    BY <1>2, <2>1, <2>2, <2>3, ShortReturn
<1>3. BinaryInv /\ [BinaryNext]_binaryVars =>
        [\A c \in Callers :
           reads[c].op = "chunk" /\ reads[c].at = "filled" /\ reads'[c].at = "idle"
             /\ Sequential /\ Len(out') - Len(out) # reads[c].step =>
               Len(out') - Len(out) < reads[c].step /\ (~reader.ejected => out' = Content)]_binaryVars
  BY <1>1
<1>4. BinaryInv /\ [BinaryNext]_binaryVars =>
        [\A c \in Callers :
           reads[c].op = "all" /\ reads[c].at = "filled" /\ reads'[c].at = "idle"
             /\ Sequential /\ ~reader.ejected => out' = Content]_binaryVars
  BY <1>2
<1>5. QED
  BY <1>3, <1>4, BytesAccounted, PTL DEF BinarySpec, ReadsWhole, ChunksFull, AllIsRest

(***************************************************************************)
(* HttpClient.                                                             *)
(***************************************************************************)


(* What the invariant says of one call, of all of them, and of the rest.   *)
Fit(c) ==
  /\ c \in Call /\ \A h \in c.header : c.header = {h}
  /\ (c.digest /\ c.pc \in {"request", "retry"}) <=> c.header # {}
  /\ c.pc = "retry" => ~c.streamed /\ \A h \in c.header : h.target = c.target
  /\ ~c.served
  /\ c.digest => c.pc # "idle"

AllFit(calls) ==
  calls \in [Requests -> Call] /\ \A r \in Requests : Fit(calls[r])

Around ==
  /\ server \in [valid : SUBSET Nonces, once : BOOLEAN, strict : BOOLEAN,
                 settled : BOOLEAN]
  /\ \A h \in cache : h \in Header /\ cache = {h}
  /\ ended \in Ended

(* The nonce of a retry that is not lost is good.                          *)
Accepted(c) ==
  c.pc = "retry" /\ ~c.lost => \A h \in c.header : h.nonce \in server.valid

LEMMA InvariantByCall ==
  IInv <=> AllFit(call) /\ Around /\ \A r \in Requests : Accepted(call[r])
BY DEF IInv, TypeOK, HeadersFit, ServedOnce, RetryAccepted, AllFit, Fit, Around, Accepted

LEMMA RestFits == Fit(AtRest)
<1>1. (CHOOSE t \in Targets : TRUE) \in Targets
  BY TargetsAssumption
<1>2. AtRest \in Call
  BY <1>1 DEF AtRest, Call
<1> QED BY <1>2 DEF Fit, AtRest

(* A call that ends leaves the others as they are, and whatever the server *)
(* did with its request goes with it.                                      *)
LEMMA FinishFits ==
  ASSUME NEW r \in Requests, NEW calls, AllFit(calls), NEW others,
         others = calls \/ others = AndServed(r, calls),
         NEW result, NEW answer, Finish(r, others, result, answer)
  PROVE  AllFit(call')
<1>1. call' = [calls EXCEPT ![r] = AtRest]
  BY DEF Finish, AndServed, AllFit
<1> QED BY <1>1, RestFits DEF AllFit, Fit

LEMMA FinishEnds ==
  ASSUME NEW r, NEW others, NEW result \in {"ok", "denied", "other", "error"},
         NEW answer, answer.odd \in BOOLEAN, Finish(r, others, result, answer)
  PROVE  ended' \in Ended
BY DEF Finish, Ended

(* A request sent again carries the header built for its own target.       *)
LEMMA ResendFits ==
  ASSUME NEW r \in Requests, AllFit(call), call[r].digest,
         NEW pc \in {"request", "retry"}, NEW answer, answer.challenge \in Nonces,
         answer.odd \in BOOLEAN, Resend(r, call, pc, Built(call[r], answer), answer)
  PROVE  AllFit(call') /\ ended' \in Ended
<1>1. CASE call[r].streamed
  <2>1. Finish(r, call, "error", answer)
    BY <1>1 DEF Resend
  <2>2. AllFit(call')
    BY <2>1, FinishFits
  <2>3. ended' \in Ended
    BY <2>1, FinishEnds
  <2> QED BY <2>2, <2>3
<1>2. CASE ~call[r].streamed
  <2> DEFINE h == [nonce |-> answer.challenge, target |-> call[r].target]
             c == [call[r] EXCEPT !.pc = pc, !.header = {h}]
  <2>1. call' = [call EXCEPT ![r] = c] /\ ended' = Nothing
    BY <1>2 DEF Resend, Built, AllFit
  <2>2. call[r] \in Call /\ Fit(call[r])
    BY DEF AllFit
  <2>3. h \in Header
    BY <2>2 DEF Call, Header
  <2>4. c \in Call
    BY <2>2, <2>3 DEF Call
  <2>5. /\ c.pc = pc /\ c.header = {h} /\ c.digest = call[r].digest
        /\ c.target = call[r].target /\ c.streamed = call[r].streamed
        /\ c.served = call[r].served
    BY <2>2 DEF Call
  <2> HIDE DEF c
  <2>6. Fit(c)
    <3>1. \A g \in c.header : c.header = {g} /\ g.target = c.target
      BY <2>5
    <3> QED BY <1>2, <2>2, <2>4, <2>5, <3>1 DEF Fit
  <2>7. AllFit(call')
    BY <2>1, <2>4, <2>6 DEF AllFit
  <2> QED BY <2>1, <2>7 DEF Nothing, Ended
<1> QED BY <1>1, <1>2

(* The server always has a nonce that nobody holds.                        *)
LEMMA FreshIsFree ==
  ASSUME IInv
  PROVE  Fresh \in Nonces /\ Fresh \notin InUse
<1> DEFINE some    == CHOOSE n \in Nonces : TRUE
           OneNonce(s) == IF s = {} THEN some ELSE (CHOOSE h \in s : TRUE).nonce
           held    == [r \in Requests |-> OneNonce(call[r].header)]
<1>0. some \in Nonces
  BY NoncesAssumption
<1>1. ASSUME NEW s, s \subseteq Header, \A h \in s : s = {h}
      PROVE  OneNonce(s) \in Nonces /\ \A h \in s : h.nonce = OneNonce(s)
  BY <1>0, <1>1 DEF Header
<1>2. \A r \in Requests : /\ OneNonce(call[r].header) \in Nonces
                          /\ \A h \in call[r].header : h.nonce = OneNonce(call[r].header)
  BY <1>1, InvariantByCall DEF AllFit, Fit, Call
<1>3. OneNonce(cache) \in Nonces /\ \A h \in cache : h.nonce = OneNonce(cache)
  BY <1>1, InvariantByCall DEF Around
<1> HIDE DEF OneNonce
<1>4. held \in [Requests -> Nonces]
  BY <1>2
<1>5. PICK free \in Nonces \ {OneNonce(cache)} : \A r \in Requests : held[r] # free
  BY <1>3, <1>4, NoncesAssumption
<1>6. free \notin InUse
  BY <1>2, <1>3, <1>5 DEF InUse
<1> QED BY <1>5, <1>6 DEF Fresh

(* Nonces expire: only whether a retry can still get through changes.      *)
LEMMA VoidedFits ==
  ASSUME AllFit(call), NEW void
  PROVE  AllFit(AllVoided(void))
<1> SUFFICES ASSUME NEW r \in Requests
             PROVE  AllVoided(void)[r] \in Call /\ Fit(AllVoided(void)[r])
  BY DEF AllFit, AllVoided
<1> DEFINE late == call[r].lost \/ (call[r].pc = "retry"
                                    /\ \E h \in call[r].header : h.nonce \in void)
           c    == [call[r] EXCEPT !.lost = late]
<1>1. call[r] \in Call /\ Fit(call[r])
  BY DEF AllFit
<1>2. AllVoided(void)[r] = c
  BY DEF AllVoided, Voided, AllFit
<1>3. late \in BOOLEAN
  OBVIOUS
<1> HIDE DEF late
<1>4. c \in Call
  BY <1>1, <1>3 DEF Call
<1>5. /\ c.pc = call[r].pc /\ c.header = call[r].header /\ c.digest = call[r].digest
      /\ c.target = call[r].target /\ c.streamed = call[r].streamed
      /\ c.served = call[r].served
  BY <1>1 DEF Call
<1> HIDE DEF c
<1>6. Fit(c)
  BY <1>1, <1>4, <1>5 DEF Fit
<1> QED BY <1>2, <1>4, <1>6

-----------------------------------------------------------------------------
(* An answer that is no refusal with a challenge ends the request.         *)
LEMMA ReadEnds ==
  ASSUME IInv, NEW r \in Requests, NEW calls, AllFit(calls), NEW others,
         others = calls \/ others = AndServed(r, calls),
         NEW status \in {"ok", "denied", "other"}, NEW challenge, challenge \notin Nonces,
         NEW odd \in BOOLEAN, Read(r, others, Says(status, challenge, odd))
  PROVE  AllFit(call') /\ ended' \in Ended /\ cache' \in {cache, {}}
<1> DEFINE answer == Says(status, challenge, odd)
<1>1. /\ ~Challenged(answer) /\ answer.odd \in BOOLEAN
      /\ answer.status \in {"ok", "denied", "other"}
  BY DEF Challenged, Says
<1>2. Read(r, others, answer)
  OBVIOUS
<1> HIDE DEF answer
<1>3. /\ \/ Finish(r, others, "error", answer)
         \/ Finish(r, others, answer.status, answer)
      /\ cache' \in {cache, {}}
  BY <1>1, <1>2 DEF Read, ReadChallenge, ReadAnswer
<1>4. ASSUME NEW result \in {"ok", "denied", "other", "error"},
             Finish(r, others, result, answer)
      PROVE  AllFit(call') /\ ended' \in Ended
  <2>1. AllFit(call')
    BY <1>4, FinishFits
  <2>2. ended' \in Ended
    BY <1>1, <1>4, FinishEnds
  <2> QED BY <2>1, <2>2
<1> QED BY <1>1, <1>3, <1>4

LEMMA ServeKeeps ==
  ASSUME IInv, NEW r \in Requests, Serve(r)
  PROVE  AllFit(call') /\ Around'
<1> DEFINE spent == IF server.once THEN {h.nonce : h \in call[r].header} ELSE {}
<1>1. /\ server' = [server EXCEPT !.valid = (@ \cap InUse) \ spent]
      /\ Read(r, AndServed(r, AllVoided(spent)), Says("ok", "absent", FALSE))
  BY DEF Serve
<1> HIDE DEF spent
<1>2. AllFit(AllVoided(spent))
  BY VoidedFits, InvariantByCall
<1>3. AllFit(call') /\ ended' \in Ended /\ cache' \in {cache, {}}
  BY <1>1, <1>2, ReadEnds, NoncesAssumption
<1>4. server' \in [valid : SUBSET Nonces, once : BOOLEAN, strict : BOOLEAN,
                   settled : BOOLEAN]
  BY <1>1, InvariantByCall DEF Around
<1> QED BY <1>3, <1>4, InvariantByCall DEF Around

LEMMA DenyKeeps ==
  ASSUME IInv, NEW r \in Requests, call[r].digest, Deny(r)
  PROVE  AllFit(call') /\ Around'
<1> DEFINE answer == Says("denied", Fresh, FALSE)
<1>1. /\ server' = [server EXCEPT !.valid = (@ \cap InUse) \cup {Fresh}]
      /\ Read(r, call, answer)
  BY DEF Deny
<1>2. /\ Challenged(answer) /\ answer.challenge \in Nonces
      /\ answer.odd \in BOOLEAN /\ answer.status = "denied"
  BY FreshIsFree DEF Challenged, Says
<1>3. server' \in [valid : SUBSET Nonces, once : BOOLEAN, strict : BOOLEAN,
                   settled : BOOLEAN]
  BY <1>1, FreshIsFree, InvariantByCall DEF Around
<1> HIDE DEF answer
<1>4. AllFit(call) /\ call[r] \in Call
  BY InvariantByCall DEF AllFit
<1>5. \A h \in Built(call[r], answer) : h \in Header /\ Built(call[r], answer) = {h}
  BY <1>2, <1>4 DEF Built, Header, Call
<1>6. \/ /\ cache' = Built(call[r], answer)
         /\ \E pc \in {"request", "retry"} :
              Resend(r, call, pc, Built(call[r], answer), answer)
      \/ cache' = cache /\ Finish(r, call, "denied", answer)
  BY <1>1, <1>2 DEF Read, ReadChallenge, ReadAnswer, Renewed
<1>7. ASSUME NEW pc \in {"request", "retry"},
             Resend(r, call, pc, Built(call[r], answer), answer)
      PROVE  AllFit(call') /\ ended' \in Ended
  BY <1>2, <1>4, <1>7, ResendFits
<1>8. ASSUME Finish(r, call, "denied", answer)
      PROVE  AllFit(call') /\ ended' \in Ended
  <2>1. AllFit(call')
    BY <1>4, <1>8, FinishFits
  <2>2. ended' \in Ended
    BY <1>2, <1>8, FinishEnds
  <2> QED BY <2>1, <2>2
<1> QED BY <1>3, <1>5, <1>6, <1>7, <1>8, InvariantByCall DEF Around

LEMMA ExchangeKeeps ==
  ASSUME IInv, NEW r \in Requests, Exchange(r)
  PROVE  AllFit(call') /\ Around'
<1>0. AllFit(call) /\ Around
  BY InvariantByCall
<1>1. CASE call[r].digest /\ Serve(r)
  BY <1>1, ServeKeeps
<1>2. CASE call[r].digest /\ Deny(r)
  BY <1>2, DenyKeeps
<1>3. ASSUME NEW others \in {call, AndServed(r, call)},
             NEW status \in {"ok", "denied", "other"},
             NEW challenge \in {"absent", "garbled"}, NEW odd \in BOOLEAN,
             Read(r, others, Says(status, challenge, odd)), UNCHANGED server
      PROVE  AllFit(call') /\ Around'
  <2>1. AllFit(call') /\ ended' \in Ended /\ cache' \in {cache, {}}
    BY <1>0, <1>3, ReadEnds, NoncesAssumption
  <2> QED BY <1>0, <1>3, <2>1 DEF Around
<1>4. CASE ServeOddly(r)
  BY <1>3, <1>4 DEF ServeOddly
<1>5. CASE DenyOddly(r)
  BY <1>3, <1>5 DEF DenyOddly
<1>6. CASE Judge(r)
  BY <1>3, <1>6 DEF Judge
<1> QED BY <1>1, <1>2, <1>4, <1>5, <1>6 DEF Exchange

LEMMA RequestKeeps ==
  ASSUME IInv, NEW r \in Requests, NEW plan \in Plans, NEW target \in Targets,
         Request(r, plan, target)
  PROVE  AllFit(call') /\ Around'
<1>0. AllFit(call) /\ Around
  BY InvariantByCall
<1>1. UNCHANGED <<server, cache>> /\ ended' \in Ended
  BY DEF Request, Nothing, Ended
<1> DEFINE c == Sent(plan, target)
<1>2. call' = [call EXCEPT ![r] = c]
  BY DEF Request
<1>3. c \in Call
  BY <1>0, TargetsAssumption DEF Sent, AtRest, Call, Around, Streamed, Header
<1>4. Fit(c)
  BY <1>0, <1>3 DEF Sent, AtRest, Fit, Around
<1> HIDE DEF c
<1>5. AllFit(call')
  BY <1>0, <1>2, <1>3, <1>4 DEF AllFit
<1> QED BY <1>0, <1>1, <1>5 DEF Around

LEMMA ElseKeeps ==
  ASSUME IInv, \/ \E r \in Requests : Lose(r) \/ \E plan \in Plans : Refuse(r, plan)
               \/ \E n \in Nonces : Expire(n)
               \/ Settle
  PROVE  AllFit(call') /\ Around'
<1>0. AllFit(call) /\ Around
  BY InvariantByCall
<1>1. ASSUME NEW r \in Requests, Lose(r) PROVE AllFit(call') /\ Around'
  <2> DEFINE answer == Says("other", "absent", TRUE)
  <2>1. answer.odd \in BOOLEAN
    BY DEF Says
  <2>2. Finish(r, call, "error", answer) /\ UNCHANGED <<server, cache>>
    BY <1>1 DEF Lose
  <2> HIDE DEF answer
  <2>3. AllFit(call')
    BY <1>0, <2>2, FinishFits
  <2>4. ended' \in Ended
    BY <2>1, <2>2, FinishEnds
  <2> QED BY <1>0, <2>2, <2>3, <2>4 DEF Around
<1>2. ASSUME NEW n \in Nonces, Expire(n) PROVE AllFit(call') /\ Around'
  <2>1. AllFit(call')
    BY <1>0, <1>2, VoidedFits DEF Expire
  <2>2. server' \in [valid : SUBSET Nonces, once : BOOLEAN, strict : BOOLEAN,
                     settled : BOOLEAN]
    BY <1>0, <1>2 DEF Expire, Around
  <2> QED BY <1>0, <1>2, <2>1, <2>2 DEF Expire, Around, Nothing, Ended
<1>3. CASE Settle
  <2>1. server' \in [valid : SUBSET Nonces, once : BOOLEAN, strict : BOOLEAN,
                     settled : BOOLEAN]
    BY <1>0, <1>3 DEF Settle, Around
  <2> QED BY <1>0, <1>3, <2>1 DEF Settle, Around, Nothing, Ended
<1>4. ASSUME NEW r \in Requests, NEW plan \in Plans, Refuse(r, plan)
      PROVE  AllFit(call') /\ Around'
  BY <1>0, <1>4 DEF Refuse, AllFit, Around, Ended
<1> QED BY <1>1, <1>2, <1>3, <1>4

-----------------------------------------------------------------------------
(* The other calls, while r sends or ends: as they were.                   *)
Others(r, calls) == \A q \in Requests \ {r} : call'[q] = calls[q]

LEMMA FinishLeaves ==
  ASSUME NEW r \in Requests, NEW calls, calls \in [Requests -> Call], NEW others,
         others = calls \/ others = AndServed(r, calls),
         NEW result, NEW answer, Finish(r, others, result, answer)
  PROVE  /\ Others(r, calls) /\ call'[r] = AtRest
         /\ ended'.result = result /\ ended'.odd = answer.odd
<1>1. call' = [calls EXCEPT ![r] = AtRest]
  BY DEF Finish, AndServed
<1>2. ended' = [result |-> result, odd |-> answer.odd]
  BY DEF Finish
<1> QED BY <1>1, <1>2 DEF Others

(* An answer without a usable challenge ends the request with its status,  *)
(* unless a challenge was all that was wanted.                             *)
LEMMA ReadFinishes ==
  ASSUME NEW r \in Requests, NEW calls, calls \in [Requests -> Call], NEW others,
         others = calls \/ others = AndServed(r, calls),
         NEW status, NEW challenge, challenge \notin Nonces,
         NEW odd, Read(r, others, Says(status, challenge, odd))
  PROVE  /\ Others(r, calls) /\ call'[r] = AtRest /\ ended'.odd = odd
         /\ status = "ok" /\ call[r].pc # "challenge" => ended'.result = status
<1> DEFINE answer == Says(status, challenge, odd)
<1>1. ~Challenged(answer) /\ answer.odd = odd /\ answer.status = status
  BY DEF Challenged, Says
<1>2. Read(r, others, answer)
  OBVIOUS
<1> HIDE DEF answer
<1>3. \E result : /\ Finish(r, others, result, answer)
                  /\ status = "ok" /\ call[r].pc # "challenge" => result = status
  <2>1. CASE call[r].pc = "challenge"
    BY <1>1, <1>2, <2>1 DEF Read, ReadChallenge
  <2>2. CASE call[r].pc # "challenge" /\ ~Handled(call[r], answer)
    BY <1>1, <1>2, <2>2 DEF Read, ReadAnswer
  <2>3. CASE call[r].pc # "challenge" /\ Handled(call[r], answer)
    BY <1>1, <1>2, <2>3 DEF Read, ReadAnswer, Handled
  <2> QED BY <2>1, <2>2, <2>3
<1> QED BY <1>1, <1>3, FinishLeaves

(* A refusal with a challenge is answered, once: the request is sent again *)
(* with the new nonce, or ends because its body is gone.                   *)
LEMMA DenyAnswers ==
  ASSUME IInv, NEW r \in Requests, call[r].digest, Deny(r)
  PROVE  /\ Others(r, call)
         /\ \/ /\ call'[r] = AtRest
               /\ call[r].pc = "retry" \/ (call[r].streamed /\ ended'.result = "error")
            \/ /\ call'[r].pc # "idle"
               /\ \A h \in call'[r].header : h.nonce = Fresh
<1> DEFINE answer == Says("denied", Fresh, FALSE)
<1>1. Read(r, call, answer)
  BY DEF Deny
<1>2. /\ Challenged(answer) /\ answer.challenge = Fresh
      /\ answer.odd = FALSE /\ answer.status = "denied"
  BY FreshIsFree DEF Challenged, Says
<1> HIDE DEF answer
<1>3. call \in [Requests -> Call] /\ call[r] \in Call /\ Fit(call[r])
  BY InvariantByCall DEF AllFit
<1>4. \/ \E pc \in {"request", "retry"} :
           Resend(r, call, pc, Built(call[r], answer), answer)
      \/ /\ Finish(r, call, "denied", answer)
         /\ call[r].pc \notin {"challenge", "request"}
  BY <1>1, <1>2 DEF Read, ReadChallenge, ReadAnswer, Renewed, Handled
<1>5. call[r].pc \in {"challenge", "request", "retry"}
  BY <1>3 DEF Fit, Call
<1>6. ASSUME NEW pc \in {"request", "retry"},
             Resend(r, call, pc, Built(call[r], answer), answer)
      PROVE  /\ Others(r, call)
             /\ \/ /\ call'[r] = AtRest /\ ended'.odd = FALSE
                   /\ call[r].streamed /\ ended'.result = "error"
                \/ /\ call'[r].pc # "idle"
                   /\ \A h \in call'[r].header : h.nonce = Fresh
  <2>1. CASE call[r].streamed
    <3>1. Finish(r, call, "error", answer)
      BY <1>6, <2>1 DEF Resend
    <3> QED BY <1>2, <1>3, <2>1, <3>1, FinishLeaves
  <2>2. CASE ~call[r].streamed
    <3> DEFINE c == [call[r] EXCEPT !.pc = pc, !.header = Built(call[r], answer)]
    <3>1. call' = [call EXCEPT ![r] = c]
      BY <1>3, <1>6, <2>2 DEF Resend
    <3>2. c.pc = pc /\ c.header = Built(call[r], answer)
      BY <1>3 DEF Call
    <3> HIDE DEF c
    <3>3. call'[r] = c /\ Others(r, call)
      BY <1>3, <3>1 DEF Others
    <3> QED BY <1>2, <3>2, <3>3 DEF Built
  <2> QED BY <2>1, <2>2
<1>7. ASSUME Finish(r, call, "denied", answer)
      PROVE  Others(r, call) /\ call'[r] = AtRest /\ ended'.odd = FALSE
  BY <1>2, <1>3, <1>7, FinishLeaves
<1> QED BY <1>4, <1>5, <1>6, <1>7

(* The server forgets no nonce that is under way without saying so.        *)
LEMMA RetriesKept ==
  ASSUME IInv, [Next]_vars
  PROVE  \A r \in Requests : Accepted(call[r])'
<1>0. /\ call \in [Requests -> Call] /\ \A r \in Requests : Accepted(call[r])
      /\ server \in [valid : SUBSET Nonces, once : BOOLEAN, strict : BOOLEAN,
                     settled : BOOLEAN]
  BY InvariantByCall DEF AllFit, Around
<1> SUFFICES ASSUME NEW q \in Requests PROVE Accepted(call[q])'
  OBVIOUS
<1>1. AtRest.pc = "idle"
  BY DEF AtRest
<1>2. \A h \in call[q].header : h.nonce \in InUse
  BY DEF InUse
<1>3. ASSUME NEW r \in Requests, NEW others \in {call, AndServed(r, call)},
             NEW status, NEW challenge \in {"absent", "garbled"}, NEW odd,
             Read(r, others, Says(status, challenge, odd)), UNCHANGED server
      PROVE  Accepted(call[q])'
  <2>1. Others(r, call) /\ call'[r] = AtRest
    BY <1>0, <1>3, ReadFinishes, NoncesAssumption
  <2> QED BY <1>0, <1>1, <1>3, <2>1 DEF Others, Accepted
<1>4. ASSUME NEW void, call' = AllVoided(void) \/ (\E r \in Requests \ {q} : Others(r, AllVoided(void))),
             \A n \in InUse : n \in server.valid /\ n \notin void => n \in server'.valid
      PROVE  Accepted(call[q])'
  <2> DEFINE late == call[q].lost \/ (call[q].pc = "retry"
                                      /\ \E h \in call[q].header : h.nonce \in void)
  <2>1. call'[q] = [call[q] EXCEPT !.lost = late]
    BY <1>4 DEF Others, AllVoided, Voided
  <2> HIDE DEF late
  <2>2. /\ call'[q].pc = call[q].pc /\ call'[q].header = call[q].header
        /\ call'[q].lost = late
    BY <1>0, <2>1 DEF Call
  <2> QED BY <1>0, <1>2, <1>4, <2>2 DEF Accepted, late
<1>5. ASSUME NEW r \in Requests, Serve(r) PROVE Accepted(call[q])'
  <2> DEFINE spent == IF server.once THEN {h.nonce : h \in call[r].header} ELSE {}
  <2>1. /\ server' = [server EXCEPT !.valid = (@ \cap InUse) \ spent]
        /\ Read(r, AndServed(r, AllVoided(spent)), Says("ok", "absent", FALSE))
    BY <1>5 DEF Serve
  <2> HIDE DEF spent
  <2>2. AllVoided(spent) \in [Requests -> Call]
    BY VoidedFits, InvariantByCall DEF AllFit
  <2>3. Others(r, AllVoided(spent)) /\ call'[r] = AtRest
    BY <2>1, <2>2, ReadFinishes, NoncesAssumption
  <2>4. server'.valid = (server.valid \cap InUse) \ spent
    BY <1>0, <2>1
  <2>5. CASE q = r
    BY <1>1, <2>3, <2>5 DEF Accepted
  <2>6. CASE q # r
    BY <1>4, <2>3, <2>4, <2>6
  <2> QED BY <2>5, <2>6
<1>6. ASSUME NEW r \in Requests, call[r].digest, Deny(r) PROVE Accepted(call[q])'
  <2>1. server'.valid = (server.valid \cap InUse) \cup {Fresh}
    BY <1>0, <1>6 DEF Deny
  <2>2. Others(r, call) /\ (call'[r] = AtRest \/ \A h \in call'[r].header : h.nonce = Fresh)
    BY <1>6, DenyAnswers
  <2> QED BY <1>0, <1>1, <1>2, <2>1, <2>2 DEF Others, Accepted
<1>7. ASSUME NEW r \in Requests, Exchange(r) PROVE Accepted(call[q])'
  <2>1. CASE ServeOddly(r)
    BY <1>3, <2>1 DEF ServeOddly
  <2>2. CASE DenyOddly(r)
    BY <1>3, <2>2 DEF DenyOddly
  <2>3. CASE Judge(r)
    BY <1>3, <2>3 DEF Judge
  <2> QED BY <1>5, <1>6, <1>7, <2>1, <2>2, <2>3 DEF Exchange
<1>8. ASSUME NEW r \in Requests, Lose(r) PROVE Accepted(call[q])'
  <2>1. Others(r, call) /\ call'[r] = AtRest
    BY <1>0, <1>8, FinishLeaves DEF Lose
  <2>2. UNCHANGED server
    BY <1>8 DEF Lose
  <2> QED BY <1>0, <1>1, <2>1, <2>2 DEF Others, Accepted
<1>9. ASSUME NEW n \in Nonces, Expire(n) PROVE Accepted(call[q])'
  <2>1. call' = AllVoided({n}) /\ server'.valid = server.valid \ {n}
    BY <1>0, <1>9 DEF Expire
  <2> QED BY <1>4, <2>1
<1>10. ASSUME NEW r \in Requests, NEW plan \in Plans, NEW target \in Targets,
              Request(r, plan, target)
       PROVE  Accepted(call[q])'
  <2>1. UNCHANGED server /\ call' = [call EXCEPT ![r] = Sent(plan, target)]
    BY <1>10 DEF Request
  <2>2. Sent(plan, target).pc # "retry"
    BY DEF Sent, AtRest
  <2> QED BY <1>0, <2>1, <2>2 DEF Accepted
<1>11. CASE Settle \/ UNCHANGED vars \/ \E r \in Requests, plan \in Plans : Refuse(r, plan)
  <2>1. UNCHANGED call /\ server'.valid = server.valid
    BY <1>0, <1>11 DEF Settle, vars, Refuse
  <2> QED BY <1>0, <2>1 DEF Accepted
<1> QED BY <1>7, <1>8, <1>9, <1>10, <1>11 DEF Next

-----------------------------------------------------------------------------
(* However requests race, nonces expire and the server answers: a request  *)
(* that the server has acted on goes no further (so it is acted on once),  *)
(* a retry carries a header built for its own target, and a digest request *)
(* leaves with a header.                                                   *)
THEOREM HttpInductive == Spec => []IInv
<1>1. Init => IInv
  <2> SUFFICES ASSUME Init PROVE IInv
    OBVIOUS
  <2>1. AllFit(call)
    BY RestFits DEF Init, AllFit, Fit
  <2>2. Around
    BY DEF Init, Around, Nothing, Ended
  <2>3. \A r \in Requests : Accepted(call[r])
    BY DEF Init, Accepted, AtRest
  <2> QED BY <2>1, <2>2, <2>3, InvariantByCall
<1>2. IInv /\ [Next]_vars => IInv'
  <2> SUFFICES ASSUME IInv, [Next]_vars PROVE IInv'
    OBVIOUS
  <2>1. AllFit(call') /\ Around'
    <3>1. ASSUME NEW r \in Requests, NEW plan \in Plans, NEW target \in Targets,
                 Request(r, plan, target)
          PROVE  AllFit(call') /\ Around'
      BY <3>1, RequestKeeps
    <3>2. ASSUME NEW r \in Requests, Exchange(r) PROVE AllFit(call') /\ Around'
      BY <3>2, ExchangeKeeps
    <3>3. CASE \/ \E r \in Requests : Lose(r) \/ \E plan \in Plans : Refuse(r, plan)
               \/ \E n \in Nonces : Expire(n)
               \/ Settle
      BY <3>3, ElseKeeps
    <3>4. CASE UNCHANGED vars
      BY <3>4, InvariantByCall DEF vars, AllFit, Around
    <3> QED BY <3>1, <3>2, <3>3, <3>4 DEF Next
  <2>2. \A r \in Requests : Accepted(call[r])'
    BY RetriesKept
  <2>3. IInv' <=> AllFit(call') /\ Around' /\ \A r \in Requests : Accepted(call[r])'
    BY DEF IInv, TypeOK, HeadersFit, ServedOnce, RetryAccepted, AllFit, Fit, Around, Accepted
  <2> QED BY <2>1, <2>2, <2>3
<1> QED BY <1>1, <1>2, PTL DEF Spec

(* A digest request gets through, whatever headers are stale or were built *)
(* for another request: the first refusal is answered with a new header,   *)
(* and its nonce is accepted unless it is taken from the retry.            *)
THEOREM DigestGetsThrough == Spec => GetsThrough
<1> DEFINE Ends(r) == call[r].digest /\ ~call[r].lost /\ call'[r].pc = "idle" /\ ~ended'.odd
           Good(r) == ended'.result = "ok" \/ (call[r].streamed /\ ended'.result = "error")
           A == \A r \in Requests : Ends(r) => Good(r)
<1>1. ASSUME IInv, [Next]_vars, NEW r \in Requests, Ends(r)
      PROVE  Good(r)
  <2>1. /\ call \in [Requests -> Call] /\ Fit(call[r]) /\ Accepted(call[r])
        /\ AllFit(call)
    BY <1>1, InvariantByCall DEF AllFit
  <2>2. call[r].pc \in {"challenge", "request", "retry"}
    BY <1>1, <2>1 DEF Fit, Call
  <2>3. ASSUME NEW void PROVE AllVoided(void)[r].pc = call[r].pc
                              /\ AllVoided(void) \in [Requests -> Call]
    <3>1. AllVoided(void) \in [Requests -> Call]
      BY <2>1, VoidedFits DEF AllFit
    <3>2. AllVoided(void)[r].pc = call[r].pc
      BY <2>1 DEF AllVoided, Voided, Call
    <3> QED BY <3>1, <3>2
  <2>4. CASE Serve(r)
    <3> DEFINE spent == IF server.once THEN {h.nonce : h \in call[r].header} ELSE {}
    <3>1. /\ Read(r, AndServed(r, AllVoided(spent)), Says("ok", "absent", FALSE))
          /\ call[r].header # {}
      BY <2>4 DEF Serve, Accepts
    <3> HIDE DEF spent
    <3>2. call[r].pc # "challenge"
      BY <2>1, <3>1 DEF Fit
    <3>3. AllVoided(spent) \in [Requests -> Call]
      BY <2>3
    <3>4. "absent" \notin Nonces
      BY NoncesAssumption
    <3>5. "ok" = "ok" /\ call[r].pc # "challenge" => ended'.result = "ok"
      BY <3>1, <3>3, <3>4, ReadFinishes
    <3> QED BY <3>2, <3>5
  <2>5. CASE Deny(r)
    <3>1. call'[r] = AtRest /\ (call[r].pc = "retry" \/ Good(r))
      BY <1>1, <2>5, DenyAnswers
    <3>2. CASE call[r].pc = "retry"
      <4>1. PICK h \in call[r].header : TRUE
        BY <1>1, <2>1, <3>2 DEF Fit
      <4>2. h.nonce \in server.valid /\ h.target = call[r].target
        BY <1>1, <2>1, <3>2 DEF Fit, Accepted
      <4> QED BY <2>5, <4>2 DEF Deny, Accepts
    <3> QED BY <3>1, <3>2
  <2>6. ASSUME NEW others \in {call, AndServed(r, call)},
               NEW status, NEW challenge \in {"absent", "garbled"},
               Read(r, others, Says(status, challenge, TRUE))
        PROVE  FALSE
    <3>1. challenge \notin Nonces
      BY NoncesAssumption
    <3>2. others = call \/ others = AndServed(r, call)
      OBVIOUS
    <3>3. ended'.odd = TRUE
      BY <2>1, <2>6, <3>1, <3>2, ReadFinishes
    <3> QED BY <1>1, <3>3
  <2>7. ~ServeOddly(r) /\ ~DenyOddly(r)
    BY <2>6 DEF ServeOddly, DenyOddly
  <2>8. ~Lose(r)
    <3>1. ASSUME Lose(r) PROVE FALSE
      <4>1. Finish(r, call, "error", Says("other", "absent", TRUE))
        BY <3>1 DEF Lose
      <4> QED BY <1>1, <2>1, <4>1, FinishLeaves DEF Says
    <3> QED BY <3>1
  <2>9. ASSUME NEW q \in Requests \ {r}, Exchange(q) PROVE FALSE
    <3>1. ASSUME NEW others \in {call, AndServed(q, call)},
                 NEW status, NEW challenge \in {"absent", "garbled"}, NEW odd,
                 Read(q, others, Says(status, challenge, odd))
          PROVE  FALSE
      <4>1. Others(q, call)
        BY <2>1, <3>1, ReadFinishes, NoncesAssumption
      <4> QED BY <1>1, <2>2, <4>1 DEF Others
    <3>2. CASE Serve(q)
      <4> DEFINE spent == IF server.once THEN {h.nonce : h \in call[q].header} ELSE {}
      <4>1. Read(q, AndServed(q, AllVoided(spent)), Says("ok", "absent", FALSE))
        BY <3>2 DEF Serve
      <4> HIDE DEF spent
      <4>2. Others(q, AllVoided(spent))
        BY <2>3, <4>1, ReadFinishes, NoncesAssumption
      <4> QED BY <1>1, <2>2, <2>3, <4>2 DEF Others
    <3>3. CASE call[q].digest /\ Deny(q)
      <4>1. Others(q, call)
        BY <1>1, <3>3, DenyAnswers
      <4> QED BY <1>1, <2>2, <4>1 DEF Others
    <3>4. CASE ServeOddly(q)
      BY <3>1, <3>4 DEF ServeOddly
    <3>5. CASE DenyOddly(q)
      BY <3>1, <3>5 DEF DenyOddly
    <3>6. CASE Judge(q)
      BY <3>1, <3>6 DEF Judge
    <3> QED BY <2>9, <3>2, <3>3, <3>4, <3>5, <3>6 DEF Exchange
  <2>10. ASSUME NEW q \in Requests \ {r}, Lose(q) PROVE FALSE
    <3>1. Others(q, call)
      BY <2>1, <2>10, FinishLeaves DEF Lose
    <3> QED BY <1>1, <2>2, <3>1 DEF Others
  <2>11. ASSUME NEW n, Expire(n) PROVE FALSE
    BY <1>1, <2>2, <2>3, <2>11 DEF Expire
  <2>12. ASSUME NEW q \in Requests, NEW plan \in Plans, NEW target \in Targets,
                Request(q, plan, target)
         PROVE  FALSE
    BY <1>1, <2>1, <2>2, <2>12 DEF Request
  <2>13. ASSUME UNCHANGED call PROVE FALSE
    BY <1>1, <2>2, <2>13
  <2>14. CASE Exchange(r)
    BY <1>1, <2>4, <2>5, <2>7, <2>14 DEF Exchange
  <2> QED BY <1>1, <2>8, <2>9, <2>10, <2>11, <2>12, <2>13, <2>14
            DEF Next, Settle, Refuse, vars
<1>2. IInv /\ [Next]_vars => [A]_vars
  BY <1>1
<1> QED BY <1>2, HttpInductive, PTL DEF Spec, GetsThrough
=============================================================================
