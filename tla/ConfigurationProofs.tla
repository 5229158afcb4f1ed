------------------------ MODULE ConfigurationProofs ------------------------
(***************************************************************************)
(* Proofs about the configuration a client reads.  SuperJson: the document *)
(* under any sequence of edits, for any names and payloads.  Binding: the  *)
(* bound provider of one cache key, for any performs, rebinds and bounds.  *)
(***************************************************************************)
EXTENDS SuperJson, Binding, SequenceTheorems, WellFoundedInduction, TLAPS

(***************************************************************************)
(* SuperJson.                                                              *)
(***************************************************************************)

-----------------------------------------------------------------------------
(* Loops: a forEach over n keys is a function of the rounds.               *)

(* Every set of numbers that is not empty has a least one.                 *)
LEMMA Least ==
  ASSUME NEW T, T \subseteq Nat, T # {}
  PROVE  \E x \in T : \A y \in T : x <= y
<1>1. PICK x \in T : \A y \in T : ~(<<y, x>> \in OpToRel(<, Nat))
  BY NatLessThanWellFounded, WFMin, Zenon
<1>2. ASSUME NEW y \in T PROVE x <= y
  <2>1. x \in Nat /\ y \in Nat
    OBVIOUS
  <2>2. ~(y < x)
    BY <1>1, <2>1 DEF OpToRel
  <2>3. QED
    BY <2>1, <2>2
<1>3. QED
  BY <1>2, Zenon

(* What holds at first and is kept by each round holds after every round.  *)
LEMMA Rounds ==
  ASSUME NEW n \in Nat, NEW T,
         0 \in T, \A i \in 1..n : i - 1 \in T => i \in T
  PROVE  \A i \in 0..n : i \in T
<1> SUFFICES ASSUME {i \in 0..n : i \notin T} # {} PROVE FALSE
  OBVIOUS
<1>1. PICK x \in {i \in 0..n : i \notin T} : \A y \in {i \in 0..n : i \notin T} : x <= y
  BY Least, {i \in 0..n : i \notin T} \subseteq Nat
<1>2. x \in 1..n /\ x - 1 \in 0..n
  BY <1>1
<1>3. x - 1 \in T
  BY <1>1, <1>2
<1> QED BY <1>1, <1>2, <1>3

LoopOf(n, S, start, step, f) ==
  f \in [0..n -> S] /\ f[0] = start /\ \A i \in 1..n : f[i] = step[<<i, f[i - 1]>>]

(* The function of the rounds of a loop exists, and does what it says.     *)
LEMMA LoopExists ==
  ASSUME NEW n \in Nat, NEW S, NEW start \in S, NEW step \in [(1..n) \X S -> S]
  PROVE  \E f : LoopOf(n, S, start, step, f)
<1> DEFINE Good(k) == \E f \in [0..k -> S] :
                        f[0] = start /\ \A i \in 1..k : f[i] = step[<<i, f[i - 1]>>]
           T == {k \in 0..n : Good(k)}
<1>1. 0 \in T
  <2> DEFINE f == [i \in 0..0 |-> start]
  <2>1. f \in [0..0 -> S] /\ f[0] = start
    OBVIOUS
  <2>2. \A i \in 1..0 : f[i] = step[<<i, f[i - 1]>>]
    OBVIOUS
  <2> HIDE DEF f
  <2>3. Good(0)
    BY <2>1, <2>2
  <2>4. QED
    BY <2>3
<1>2. ASSUME NEW k \in 1..n, k - 1 \in T
      PROVE  k \in T
  <2>1. PICK f \in [0..(k - 1) -> S] :
          f[0] = start /\ \A i \in 1..(k - 1) : f[i] = step[<<i, f[i - 1]>>]
    BY <1>2
  <2> DEFINE g == [i \in 0..k |-> IF i = k THEN step[<<k, f[k - 1]>>] ELSE f[i]]
  <2>2. step[<<k, f[k - 1]>>] \in S
    BY <2>1
  <2>3. g \in [0..k -> S] /\ g[0] = start
    BY <2>1, <2>2
  <2>4. ASSUME NEW i \in 1..k
        PROVE  g[i] = step[<<i, g[i - 1]>>]
    <3>1. g[i - 1] = f[i - 1]
      BY <2>4
    <3>2. CASE i = k
      <4>1. g[k] = step[<<k, f[k - 1]>>]
        OBVIOUS
      <4> HIDE DEF g
      <4>2. QED
        BY <3>1, <3>2, <4>1
    <3>3. CASE i \in 1..(k - 1)
      BY <2>1, <3>1, <3>3
    <3>4. QED
      BY <2>4, <3>2, <3>3
  <2> HIDE DEF g
  <2>5. Good(k)
    BY <2>3, <2>4
  <2> QED BY <2>5
<1> HIDE DEF T
<1>3. n \in T
  BY <1>1, <1>2, Rounds
<1> QED BY <1>3 DEF T, LoopOf

-----------------------------------------------------------------------------
(* Ordered maps.                                                           *)

(* What is known of an ordered map, and when something is one.             *)
LEMMA OrderedIs ==
  ASSUME NEW K, NEW V, NEW m \in Ordered(K, V)
  PROVE  /\ m = [keys |-> m.keys, at |-> m.at]
         /\ m.keys \in Seq(K) /\ m.at \in [K -> V \cup {None}]
         /\ Len(m.keys) \in Nat /\ DOMAIN m.keys = 1..Len(m.keys)
         /\ \A i \in 1..Len(m.keys) : m.keys[i] \in K /\ m.at[m.keys[i]] \in V \cup {None}
         /\ IsInjective(m.keys)
         /\ \A k \in K : m.at[k] # None <=> \E i \in 1..Len(m.keys) : m.keys[i] = k
<1>1. /\ m \in [keys : Seq(K), at : [K -> V \cup {None}]]
      /\ IsInjective(m.keys) /\ ToSet(m.keys) = {k \in K : m.at[k] # None}
  BY DEF Ordered
<1>2. Len(m.keys) \in Nat /\ DOMAIN m.keys = 1..Len(m.keys)
      /\ \A i \in 1..Len(m.keys) : m.keys[i] \in K
  BY <1>1
<1>3. \A k \in K : m.at[k] # None <=> \E i \in 1..Len(m.keys) : m.keys[i] = k
  BY <1>1, <1>2 DEF ToSet
<1>4. QED
  BY <1>1, <1>2, <1>3

LEMMA OrderedIf ==
  ASSUME NEW K, NEW V, NEW keys \in Seq(K), NEW at \in [K -> V \cup {None}],
         IsInjective(keys),
         \A k \in K : at[k] # None <=> \E i \in 1..Len(keys) : keys[i] = k
  PROVE  [keys |-> keys, at |-> at] \in Ordered(K, V)
<1> DEFINE m == [keys |-> keys, at |-> at]
<1>1. m \in [keys : Seq(K), at : [K -> V \cup {None}]] /\ m.keys = keys /\ m.at = at
  OBVIOUS
<1>2. DOMAIN keys = 1..Len(keys) /\ \A i \in DOMAIN keys : keys[i] \in K
  OBVIOUS
<1>3. ToSet(keys) = {k \in K : at[k] # None}
  BY <1>2 DEF ToSet
<1> HIDE DEF m
<1>4. m \in Ordered(K, V)
  BY <1>1, <1>3 DEF Ordered
<1>5. QED
  BY <1>4 DEF m

LEMMA EmptyIsOrdered ==
  ASSUME NEW K, NEW V
  PROVE  EmptyMap(K) \in Ordered(K, V) /\ EmptyMap(K).keys = <<>>
         /\ \A k \in K : EmptyMap(K).at[k] = None
<1>1. <<>> \in Seq(K) /\ Empty(K) \in [K -> V \cup {None}] /\ IsInjective(<<>>)
      /\ \A k \in K : Empty(K)[k] = None
  BY EmptySeq DEF Empty, IsInjective
<1>2. [keys |-> <<>>, at |-> Empty(K)] \in Ordered(K, V)
  <2>1. \A k \in K : Empty(K)[k] # None <=> \E i \in 1..Len(<<>>) : <<>>[i] = k
    BY <1>1
  <2>2. QED
    BY <1>1, <2>1, OrderedIf
<1>3. QED
  BY <1>1, <1>2 DEF EmptyMap

(* An assignment keeps the keys in their order, and adds a new one behind  *)
(* them.                                                                   *)
Puts(K, V, m, k, v, n) ==
  /\ n \in Ordered(K, V)
  /\ n.at = [m.at EXCEPT ![k] = v]
  /\ n.keys = IF m.at[k] # None THEN m.keys ELSE Append(m.keys, k)

(* Assignment keeps the order, and a new key comes last.                   *)
LEMMA PutIsOrdered ==
  ASSUME NEW K, NEW V, NEW m \in Ordered(K, V), None \notin Ordered(K, V),
         NEW k \in K, NEW v \in V, None \notin V
  PROVE  Puts(K, V, m, k, v, Put(m, k, v))
<1> DEFINE keys == IF m.at[k] # None THEN m.keys ELSE Append(m.keys, k)
           at   == [m.at EXCEPT ![k] = v]
<1>1. Put(m, k, v) = [keys |-> keys, at |-> at]
  BY DEF Put, Has
<1>2. at \in [K -> V \cup {None}] /\ at[k] = v /\ \A l \in K \ {k} : at[l] = m.at[l]
  BY OrderedIs
<1>3. CASE m.at[k] # None
  <2>1. keys = m.keys
    BY <1>3
  <2> HIDE DEF keys, at
  <2>2. [keys |-> keys, at |-> at] \in Ordered(K, V)
    BY <1>2, <1>3, <2>1, OrderedIs, OrderedIf
  <2>3. QED
    BY <1>1, <2>2 DEF keys, at, Puts
<1>4. CASE m.at[k] = None
  <2>1. keys = Append(m.keys, k)
    BY <1>4
  <2> HIDE DEF keys, at
  <2>2. /\ keys \in Seq(K) /\ Len(keys) = Len(m.keys) + 1 /\ keys[Len(keys)] = k
        /\ \A i \in 1..Len(m.keys) : keys[i] = m.keys[i]
        /\ DOMAIN keys = 1..Len(keys)
    BY <2>1, OrderedIs, AppendProperties
  <2>3. \A i \in 1..Len(m.keys) : m.keys[i] # k
    BY <1>4, OrderedIs
  <2>4. IsInjective(keys)
    BY <2>2, <2>3, OrderedIs DEF IsInjective
  <2>5. \A l \in K : at[l] # None <=> \E i \in 1..Len(keys) : keys[i] = l
    BY <1>2, <2>2, OrderedIs
  <2>6. [keys |-> keys, at |-> at] \in Ordered(K, V)
    BY <1>2, <2>2, <2>4, <2>5, OrderedIf
  <2>7. QED
    BY <1>1, <2>6 DEF keys, at, Puts
<1>5. QED
  BY <1>3, <1>4

(* The end of a sequence, of which RemoveFirst is made.                    *)
LEMMA RestOf ==
  ASSUME NEW K, NEW s \in Seq(K), NEW m \in 1..(Len(s) + 1)
  PROVE  /\ SubSeq(s, m, Len(s)) \in Seq(K)
         /\ Len(SubSeq(s, m, Len(s))) = Len(s) - m + 1
         /\ \A i \in 1..(Len(s) - m + 1) : SubSeq(s, m, Len(s))[i] = s[m + i - 1]
<1>1. Len(s) \in Int /\ m \in Int /\ \A i \in m..Len(s) : s[i] \in K
  OBVIOUS
<1> DEFINE n == Len(s)
<1> HIDE DEF n
<1>2. n \in Int /\ n = Len(s) /\ \A i \in m..n : s[i] \in K
  BY <1>1 DEF n
<1>3. /\ SubSeq(s, m, n) \in Seq(K)
      /\ Len(SubSeq(s, m, n)) = IF m <= n THEN n - m + 1 ELSE 0
      /\ \A i \in 1..(n - m + 1) : SubSeq(s, m, n)[i] = s[m + i - 1]
  BY <1>1, <1>2, SubSeqProperties
<1>4. QED
  BY <1>1, <1>2, <1>3

(* The first of a sequence that is x is taken out.                         *)
Without(K, s, x, r) ==
  /\ r \in Seq(K)
  /\ IsInjective(s) =>
       /\ IsInjective(r)
       /\ \A y : (\E i \in 1..Len(r) : r[i] = y) <=> y # x /\ \E i \in 1..Len(s) : s[i] = y

(* What is left of a sequence that has each element once, or not at all.   *)
LEMMA RemovedIs ==
  ASSUME NEW K, NEW s \in Seq(K), NEW x
  PROVE  Without(K, s, x, RemoveFirst(s, x))
<1>1. Len(s) \in Nat /\ DOMAIN s = 1..Len(s) /\ \A i \in 1..Len(s) : s[i] \in K
  OBVIOUS
<1>2. CASE ~\E i \in 1..Len(s) : s[i] = x
  <2>1. RemoveFirst(s, x) = s
    BY <1>2 DEF RemoveFirst
  <2>2. QED
    BY <1>2, <2>1 DEF Without
<1>3. CASE \E i \in 1..Len(s) : s[i] = x
  <2> DEFINE I == {i \in 1..Len(s) : s[i] = x}
             p == Min(I)
             r == RemoveFirst(s, x)
  <2>1. p \in 1..Len(s) /\ s[p] = x
    <3>1. I # {} /\ I \subseteq Nat
      BY <1>1, <1>3
    <3> HIDE DEF I
    <3>2. \E i \in I : \A j \in I : i <= j
      BY <3>1, Least
    <3>3. p \in I
      BY <3>2 DEF Min
    <3>4. QED
      BY <3>3 DEF I
  <2>2. r = RemoveAt(s, p)
    BY <1>3 DEF RemoveFirst, SelectInSeq
  <2> HIDE DEF p, r
  <2>3. r = SubSeq(s, 1, p - 1) \o SubSeq(s, p + 1, Len(s))
    BY <2>2 DEF RemoveAt
  <2> DEFINE first == SubSeq(s, 1, p - 1)
             last  == SubSeq(s, p + 1, Len(s))
  <2>4. /\ first \in Seq(K) /\ Len(first) = p - 1
        /\ \A i \in 1..(p - 1) : first[i] = s[i]
    BY <1>1, <2>1, SubSeqProperties
  <2>5. /\ last \in Seq(K) /\ Len(last) = Len(s) - p
        /\ \A i \in 1..(Len(s) - p) : last[i] = s[p + i]
    <3> DEFINE m == p + 1
    <3>1. m \in 1..(Len(s) + 1)
      BY <1>1, <2>1
    <3>2. last = SubSeq(s, m, Len(s))
      OBVIOUS
    <3> HIDE DEF m, last
    <3>3. /\ last \in Seq(K)
          /\ Len(last) = Len(s) - m + 1
          /\ \A i \in 1..(Len(s) - m + 1) : last[i] = s[m + i - 1]
      BY <3>1, <3>2, RestOf
    <3>4. m = p + 1 /\ Len(s) - m + 1 = Len(s) - p
      BY <1>1, <2>1 DEF m
    <3>5. ASSUME NEW i \in 1..(Len(s) - p)
          PROVE  last[i] = s[p + i]
      <4>1. m + i - 1 = p + i
        BY <1>1, <2>1, <3>4
      <4>2. last[i] = s[m + i - 1]
        BY <3>3, <3>4
      <4>3. QED
        BY <4>1, <4>2
    <3>6. QED
      BY <3>3, <3>4, <3>5
  <2> HIDE DEF first, last
  <2>6. /\ r \in Seq(K) /\ Len(r) = Len(s) - 1
        /\ \A i \in 1..(Len(s) - 1) : r[i] = IF i < p THEN s[i] ELSE s[i + 1]
    <3>1. r = first \o last
      BY <2>3 DEF first, last
    <3>2. /\ r \in Seq(K) /\ Len(r) = Len(first) + Len(last)
          /\ \A i \in 1..(Len(first) + Len(last)) :
               r[i] = IF i <= Len(first) THEN first[i] ELSE last[i - Len(first)]
      BY <2>4, <2>5, <3>1, ConcatProperties
    <3>3. ASSUME NEW i \in 1..(Len(s) - 1)
          PROVE  r[i] = IF i < p THEN s[i] ELSE s[i + 1]
      <4>0. /\ i \in 1..(Len(first) + Len(last)) /\ Len(first) = p - 1
            /\ r[i] = IF i <= Len(first) THEN first[i] ELSE last[i - Len(first)]
        <5>1. Len(first) + Len(last) = Len(s) - 1
          BY <1>1, <2>1, <2>4, <2>5
        <5>2. QED
          BY <2>4, <3>2, <5>1
      <4>1. CASE i < p
        <5>1. i <= Len(first) /\ i \in 1..(p - 1)
          BY <1>1, <2>1, <4>0, <4>1
        <5>2. QED
          BY <2>4, <4>0, <4>1, <5>1
      <4>2. CASE ~(i < p)
        <5>1. i - (p - 1) \in 1..(Len(s) - p) /\ ~(i <= p - 1)
          BY <1>1, <2>1, <4>2
        <5>2. r[i] = last[i - (p - 1)]
          BY <4>0, <5>1
        <5>3. QED
          BY <1>1, <2>1, <2>5, <4>2, <5>1, <5>2
      <4>3. QED
        BY <4>1, <4>2
    <3>4. QED
      BY <1>1, <2>1, <2>4, <2>5, <3>2, <3>3
  <2>7. ASSUME IsInjective(s)
        PROVE  /\ IsInjective(r)
               /\ \A y : (\E i \in 1..Len(r) : r[i] = y)
                           <=> y # x /\ \E i \in 1..Len(s) : s[i] = y
    <3>1. \A i, j \in 1..Len(s) : s[i] = s[j] => i = j
      BY <1>1, <2>7 DEF IsInjective
    <3>2. DOMAIN r = 1..Len(r)
      BY <2>6
    <3>3. ASSUME NEW i \in 1..Len(r), NEW j \in 1..Len(r), r[i] = r[j]
          PROVE  i = j
      BY <1>1, <2>1, <2>6, <3>1, <3>3
    <3>4. ASSUME NEW i \in 1..Len(r)
          PROVE  r[i] # x /\ \E j \in 1..Len(s) : s[j] = r[i]
      BY <1>1, <2>1, <2>6, <3>1
    <3>5. ASSUME NEW j \in 1..Len(s), s[j] # x
          PROVE  \E i \in 1..Len(r) : r[i] = s[j]
      <4>1. CASE j < p
        BY <1>1, <2>1, <2>6, <4>1
      <4>2. CASE p < j
        <5>1. j - 1 \in 1..Len(r) /\ r[j - 1] = s[j]
          BY <1>1, <2>1, <2>6, <4>2
        <5>2. QED
          BY <5>1
      <4>3. QED
        BY <1>1, <2>1, <3>5, <4>1, <4>2
    <3>6. QED
      BY <3>2, <3>3, <3>4, <3>5 DEF IsInjective
  <2>8. QED
    BY <2>6, <2>7 DEF r, Without
<1>4. QED
  BY <1>2, <1>3

Deletes(K, V, m, k, n) ==
  \/ n = None /\ \A l \in K : m.at[l] # None => l = k
  \/ n \in Ordered(K, V) /\ n.at = [m.at EXCEPT ![k] = None]

(* `delete' takes one key, and the map with its last one.                  *)
LEMMA DeleteIsOrdered ==
  ASSUME NEW K, NEW V, None \notin V, NEW m \in Ordered(K, V),
         NEW k \in K, m.at[k] # None
  PROVE  Deletes(K, V, m, k, Delete(m, k))
<1>1. CASE m.keys = <<k>>
  <2>1. Len(m.keys) = 1 /\ m.keys[1] = k
    BY <1>1
  <2>2. \A l \in K : m.at[l] # None => l = k
    BY <2>1, OrderedIs
  <2>3. QED
    BY <1>1, <2>2 DEF Delete, Deletes
<1>2. CASE m.keys # <<k>>
  <2> DEFINE keys == RemoveFirst(m.keys, k)
             at   == [m.at EXCEPT ![k] = None]
  <2>1. Delete(m, k) = [keys |-> keys, at |-> at]
    BY <1>2 DEF Delete
  <2>2. at \in [K -> V \cup {None}] /\ at[k] = None /\ \A l \in K \ {k} : at[l] = m.at[l]
    BY OrderedIs
  <2>3. m.keys \in Seq(K) /\ IsInjective(m.keys)
    BY OrderedIs
  <2>4. keys \in Seq(K) /\ IsInjective(keys)
        /\ \A y : (\E i \in 1..Len(keys) : keys[i] = y)
                    <=> y # k /\ \E i \in 1..Len(m.keys) : m.keys[i] = y
    <3>1. Without(K, m.keys, k, keys)
      BY <2>3, RemovedIs
    <3> HIDE DEF keys
    <3>2. QED
      BY <2>3, <3>1 DEF Without
  <2> HIDE DEF keys, at
  <2>5. ASSUME NEW l \in K
        PROVE  at[l] # None <=> \E i \in 1..Len(keys) : keys[i] = l
    <3>1. m.at[l] # None <=> \E i \in 1..Len(m.keys) : m.keys[i] = l
      BY OrderedIs
    <3>2. at[l] # None <=> l # k /\ m.at[l] # None
      BY <2>2
    <3>3. QED
      BY <2>4, <3>1, <3>2, Zenon
  <2>6. [keys |-> keys, at |-> at] \in Ordered(K, V)
    BY <2>2, <2>4, <2>5, OrderedIf
  <2>7. QED
    BY <2>1, <2>6 DEF keys, at, Deletes
<1>3. QED
  BY <1>1, <1>2

-----------------------------------------------------------------------------
(* Prefixes, by their elements.                                            *)

Starts(s, t) == Len(s) <= Len(t) /\ \A i \in 1..Len(s) : s[i] = t[i]

(* Starts is IsPrefix, spelled out; it goes on through appends and puts.   *)
LEMMA StartsIsPrefix ==
  ASSUME NEW K, NEW s \in Seq(K), NEW t \in Seq(K), Starts(s, t)
  PROVE  IsPrefix(s, t)
<1> DEFINE n == Len(s)
<1>1. n \in Nat /\ n <= Len(t) /\ (\A i \in 1..n : s[i] \in K /\ t[i] \in K /\ s[i] = t[i])
  BY DEF Starts
<1> HIDE DEF n
<1>2. /\ SubSeq(s, 1, n) \in Seq(K) /\ Len(SubSeq(s, 1, n)) = n
      /\ \A i \in 1..n : SubSeq(s, 1, n)[i] = s[i]
  BY <1>1, SubSeqProperties
<1>3. /\ SubSeq(t, 1, n) \in Seq(K) /\ Len(SubSeq(t, 1, n)) = n
      /\ \A i \in 1..n : SubSeq(t, 1, n)[i] = t[i]
  BY <1>1, SubSeqProperties
<1>4. SubSeq(s, 1, n) = SubSeq(t, 1, n)
  BY <1>1, <1>2, <1>3, SeqEqual
<1>5. QED
  BY <1>1, <1>4 DEF n, IsPrefix

LEMMA StartsSame ==
  ASSUME NEW K, NEW s \in Seq(K)
  PROVE  Starts(s, s)
BY DEF Starts

LEMMA StartsAppend ==
  ASSUME NEW K, NEW s \in Seq(K), NEW t \in Seq(K), Starts(s, t), NEW x \in K
  PROVE  Starts(s, Append(t, x)) /\ Append(t, x) \in Seq(K)
BY AppendProperties DEF Starts

LEMMA StartsThen ==
  ASSUME NEW K, NEW s \in Seq(K), NEW t \in Seq(K), NEW u \in Seq(K),
         Starts(s, t), Starts(t, u)
  PROVE  Starts(s, u)
BY DEF Starts

LEMMA StartsEmpty ==
  ASSUME NEW K, NEW s \in Seq(K)
  PROVE  Starts(<<>>, s)
BY DEF Starts

LEMMA PutStarts ==
  ASSUME NEW K, NEW V, NEW m \in Ordered(K, V), None \notin Ordered(K, V),
         NEW k \in K, NEW v \in V, None \notin V
  PROVE  Starts(m.keys, Put(m, k, v).keys)
<1>1. m.keys \in Seq(K)
  BY OrderedIs
<1>2. Put(m, k, v).keys = m.keys \/ Put(m, k, v).keys = Append(m.keys, k)
  <2>1. Puts(K, V, m, k, v, Put(m, k, v))
    BY PutIsOrdered
  <2>2. QED
    BY <2>1 DEF Puts
<1>3. QED
  BY <1>1, <1>2, StartsSame, StartsAppend

-----------------------------------------------------------------------------
(* What each assignment of a copy keeps, the copy keeps.                   *)
LEMMA PutAllIn ==
  ASSUME NEW m, NEW n, Len(n.keys) \in Nat,
         NEW T, m \in T,
         \A i \in 1..Len(n.keys), x \in T : Put(x, n.keys[i], n.at[n.keys[i]]) \in T
  PROVE  PutAll(m, n) \in T
<1> DEFINE L == Len(n.keys)
           Rule(f) == f = [i \in 0..L |-> IF i = 0 THEN m
                                          ELSE Put(f[i - 1], n.keys[i], n.at[n.keys[i]])]
           put == CHOOSE f : Rule(f)
<1>1. PutAll(m, n) = put[L]
  BY Zenon DEF PutAll
<1>0. L \in Nat /\ L = Len(n.keys)
  OBVIOUS
<1> HIDE DEF L
<1>2. \E f : Rule(f)
  <2> DEFINE step == [q \in (1..L) \X T |-> Put(q[2], n.keys[q[1]], n.at[n.keys[q[1]]])]
  <2>1. step \in [(1..L) \X T -> T]
    BY <1>0
  <2>2. \A i \in 1..L, x \in T : step[<<i, x>>] = Put(x, n.keys[i], n.at[n.keys[i]])
    OBVIOUS
  <2> HIDE DEF step
  <2>0. PICK f : LoopOf(L, T, m, step, f)
    BY <1>0, <2>1, LoopExists
  <2>3. f \in [0..L -> T] /\ f[0] = m /\ \A i \in 1..L : f[i] = step[<<i, f[i - 1]>>]
    BY <2>0, Zenon DEF LoopOf
  <2>4. \A i \in 1..L : f[i] = Put(f[i - 1], n.keys[i], n.at[n.keys[i]])
    <3>1. ASSUME NEW i \in 1..L PROVE f[i - 1] \in T
      <4>1. i - 1 \in 0..L
        BY <1>0
      <4>2. QED
        BY <2>3, <4>1
    <3>2. QED
      BY <2>2, <2>3, <3>1
  <2>5. Rule(f)
    BY <1>0, <2>3, <2>4
  <2>6. QED
    BY <2>5, Zenon
<1>3. Rule(put)
  BY <1>2, Zenon
<1>8. put[0] = m /\ \A i \in 1..L : put[i] = Put(put[i - 1], n.keys[i], n.at[n.keys[i]])
  <2> HIDE DEF put
  <2>1. put = [i \in 0..L |-> IF i = 0 THEN m
                              ELSE Put(put[i - 1], n.keys[i], n.at[n.keys[i]])]
    BY <1>3, Zenon
  <2>2. put[0] = m
    BY <1>0, <2>1
  <2>3. ASSUME NEW i \in 1..L
        PROVE  put[i] = Put(put[i - 1], n.keys[i], n.at[n.keys[i]])
    <3>1. i \in 0..L /\ i # 0
      BY <1>0
    <3>2. put[i] = IF i = 0 THEN m ELSE Put(put[i - 1], n.keys[i], n.at[n.keys[i]])
      BY <2>1, <3>1, Zenon
    <3>3. QED
      BY <3>1, <3>2
  <2>4. QED
    BY <2>2, <2>3
<1> HIDE DEF put
<1> DEFINE Kept == {i \in 0..L : put[i] \in T}
<1>4. 0 \in Kept
  BY <1>0, <1>8
<1>5. ASSUME NEW i \in 1..L, i - 1 \in Kept
      PROVE  i \in Kept
  <2>1. put[i] = Put(put[i - 1], n.keys[i], n.at[n.keys[i]]) /\ put[i - 1] \in T
    BY <1>8, <1>5
  <2>2. n.keys[i] = n.keys[i] /\ i \in 1..Len(n.keys) /\ i \in 0..L
    BY <1>0
  <2>3. QED
    BY <2>1, <2>2
<1> HIDE DEF Kept
<1>6. L \in Kept
  <2>1. \A i \in 0..L : i \in Kept
    BY <1>0, <1>4, <1>5, Rounds
  <2>2. QED
    BY <1>0, <2>1
<1>7. QED
  BY <1>1, <1>6 DEF Kept

(* Putting one map into another keeps its order (mergeSecurity).           *)
LEMMA PutAllIsOrdered ==
  ASSUME NEW K, NEW V, NEW m \in Ordered(K, V), NEW n \in Ordered(K, V),
         None \notin Ordered(K, V), None \notin V
  PROVE  PutAll(m, n) \in Ordered(K, V) /\ Starts(m.keys, PutAll(m, n).keys)
<1> DEFINE T == {x \in Ordered(K, V) : Starts(m.keys, x.keys)}
<1>1. m \in T
  BY OrderedIs, StartsSame
<1>2. ASSUME NEW i \in 1..Len(n.keys), NEW x \in T
      PROVE  Put(x, n.keys[i], n.at[n.keys[i]]) \in T
  <2>1. n.keys[i] \in K /\ n.at[n.keys[i]] \in V
    BY OrderedIs
  <2>2. PICK k \in K, v \in V : k = n.keys[i] /\ v = n.at[n.keys[i]]
    BY <2>1
  <2>3. Put(x, k, v) \in Ordered(K, V) /\ Starts(x.keys, Put(x, k, v).keys)
    BY PutIsOrdered, PutStarts DEF Puts
  <2>4. m.keys \in Seq(K) /\ x.keys \in Seq(K) /\ Put(x, k, v).keys \in Seq(K)
    BY <2>3, OrderedIs
  <2>5. Starts(m.keys, Put(x, k, v).keys)
    BY <2>3, <2>4, StartsThen
  <2>6. QED
    BY <2>2, <2>3, <2>5
<1>3. Len(n.keys) \in Nat
  BY OrderedIs
<1> HIDE DEF T
<1>4. PutAll(m, n) \in T
  BY <1>1, <1>2, <1>3, PutAllIn
<1>5. QED
  BY <1>4 DEF T

-----------------------------------------------------------------------------
(* The forms of an entry.                                                  *)

(* A string or a record: which of the two tells what an entry is.          *)
LEMMA SettingsForm ==
  ASSUME NEW e \in Settings
  PROVE  /\ e # None
         /\ IsShort(e) <=> e \in [short : Files]
         /\ ~IsShort(e) <=> e \in FullSettings
<1>1. e # None
  BY NoneAssumption
<1>2. CASE e \in [short : Files]
  <2>1. DOMAIN e = {"short"}
    BY <1>2
  <2>2. e \notin FullSettings
    BY <2>1 DEF FullSettings
  <2>3. QED
    BY <1>1, <1>2, <2>1, <2>2 DEF IsShort
<1>3. CASE e \in FullSettings
  <2>1. "file" \in DOMAIN e
    BY <1>3 DEF FullSettings
  <2>2. DOMAIN e # {"short"}
    BY <2>1
  <2>3. QED
    BY <1>1, <1>3, <2>2 DEF IsShort
<1>4. QED
  BY <1>1, <1>2, <1>3 DEF Settings

LEMMA FullSettingsIs ==
  ASSUME NEW e \in FullSettings
  PROVE  /\ e = [file |-> e.file, variant |-> e.variant, revision |-> e.revision,
                 defaults |-> e.defaults]
         /\ e.file \in Files \cup Uris \cup {None}
         /\ e.variant \in Names \cup {None} /\ e.revision \in Names \cup {None}
         /\ e.defaults \in Defaults \cup {None}
         /\ e.file = None \/ (e.variant = None /\ e.revision = None)
BY DEF FullSettings

LEMMA FullSettingsIf ==
  ASSUME NEW f \in Files \cup Uris \cup {None}, NEW v \in Names \cup {None},
         NEW r \in Names \cup {None}, NEW d \in Defaults \cup {None},
         f = None \/ (v = None /\ r = None)
  PROVE  [file |-> f, variant |-> v, revision |-> r, defaults |-> d] \in FullSettings
BY DEF FullSettings

LEMMA ProfileForm ==
  ASSUME NEW e \in Profile
  PROVE  /\ e # None
         /\ IsShort(e) <=> e \in [short : ProfileVersions \cup Files]
         /\ ~IsShort(e) <=> e \in FullProfile
<1>1. e # None
  BY NoneAssumption
<1>2. CASE e \in [short : ProfileVersions \cup Files]
  <2>1. DOMAIN e = {"short"}
    BY <1>2
  <2>2. e \notin FullProfile
    BY <2>1 DEF FullProfile
  <2>3. QED
    BY <1>1, <1>2, <2>1, <2>2 DEF IsShort
<1>3. CASE e \in FullProfile
  <2>1. "source" \in DOMAIN e
    BY <1>3 DEF FullProfile
  <2>2. DOMAIN e # {"short"}
    BY <2>1
  <2>3. QED
    BY <1>1, <1>3, <2>2 DEF IsShort
<1>4. QED
  BY <1>1, <1>2, <1>3 DEF Profile

LEMMA FullProfileIs ==
  ASSUME NEW e \in FullProfile
  PROVE  /\ e = [source |-> e.source, priority |-> e.priority, defaults |-> e.defaults,
                 providers |-> e.providers]
         /\ e.source \in ProfileVersions \cup Files \cup Uris
         /\ e.priority \in Seq(Providers) \cup {None}
         /\ e.defaults \in Defaults \cup {None}
         /\ e.providers \in Ordered(Providers, Settings) \cup {None}
BY DEF FullProfile

LEMMA FullProfileIf ==
  ASSUME NEW s \in ProfileVersions \cup Files \cup Uris, NEW o \in Seq(Providers) \cup {None},
         NEW d \in Defaults \cup {None}, NEW m \in Ordered(Providers, Settings) \cup {None}
  PROVE  [source |-> s, priority |-> o, defaults |-> d, providers |-> m] \in FullProfile
BY DEF FullProfile

LEMMA ProviderForm ==
  ASSUME NEW e \in Provider
  PROVE  /\ e # None
         /\ IsShort(e) <=> e \in [short : Files]
         /\ ~IsShort(e) <=> e \in FullProvider
<1>1. e # None
  BY NoneAssumption
<1>2. CASE e \in [short : Files]
  <2>1. DOMAIN e = {"short"}
    BY <1>2
  <2>2. e \notin FullProvider
    BY <2>1 DEF FullProvider
  <2>3. QED
    BY <1>1, <1>2, <2>1, <2>2 DEF IsShort
<1>3. CASE e \in FullProvider
  <2>1. "file" \in DOMAIN e
    BY <1>3 DEF FullProvider
  <2>2. DOMAIN e # {"short"}
    BY <2>1
  <2>3. QED
    BY <1>1, <1>3, <2>2 DEF IsShort
<1>4. QED
  BY <1>1, <1>2, <1>3 DEF Provider

LEMMA FullProviderIs ==
  ASSUME NEW e \in FullProvider
  PROVE  /\ e = [file |-> e.file, security |-> e.security, parameters |-> e.parameters]
         /\ e.file \in Files \cup Uris \cup {None}
         /\ e.security \in Ordered(Names, Values) \cup {None}
         /\ e.parameters \in Fields \cup {None}
BY DEF FullProvider

LEMMA FullProviderIf ==
  ASSUME NEW f \in Files \cup Uris \cup {None}, NEW m \in Ordered(Names, Values) \cup {None},
         NEW q \in Fields \cup {None}
  PROVE  [file |-> f, security |-> m, parameters |-> q] \in FullProvider
BY DEF FullProvider

(* A shorthand is a full entry of nothing but its file.                    *)
LEMMA ShortIs ==
  ASSUME NEW S, NEW e \in [short : S]
  PROVE  e = Short(e.short) /\ e.short \in S
BY DEF Short

LEMMA ShortIf ==
  ASSUME NEW S, NEW s \in S
  PROVE  Short(s) \in [short : S]
BY DEF Short

LEMMA EmptyForms ==
  /\ EmptySettings \in FullSettings /\ EmptyProvider \in FullProvider
  /\ EmptySettings = [file |-> None, variant |-> None, revision |-> None, defaults |-> None]
  /\ \A f \in Files : Uri(f) \in Uris
  /\ NoDefaults \in Defaults /\ \A u \in Usecases : NoDefaults[u] = None
  /\ NoProviders \in Ordered(Providers, Settings) /\ NoProviders.keys = <<>>
  /\ \A s \in Providers : NoProviders.at[s] = None
  /\ \A source \in ProfileVersions \cup Files \cup Uris : EmptyProfile(source) \in FullProfile
<1>1. EmptySettings \in FullSettings
  BY DEF EmptySettings, FullSettings
<1>2. EmptyProvider \in FullProvider
  BY DEF EmptyProvider, FullProvider
<1>3. \A source \in ProfileVersions \cup Files \cup Uris : EmptyProfile(source) \in FullProfile
  BY DEF EmptyProfile, FullProfile
<1>4. NoDefaults \in Defaults /\ \A u \in Usecases : NoDefaults[u] = None
  BY DEF NoDefaults, Empty, Defaults
<1>5. /\ NoProviders \in Ordered(Providers, Settings) /\ NoProviders.keys = <<>>
      /\ \A s \in Providers : NoProviders.at[s] = None
  BY EmptyIsOrdered DEF NoProviders
<1>6. \A f \in Files : Uri(f) \in Uris
  BY DEF Uris
<1>7. QED
  BY <1>1, <1>2, <1>3, <1>4, <1>5, <1>6 DEF EmptySettings

-----------------------------------------------------------------------------
(* Defaults.                                                               *)

(* Defaults, and what is laid over them.                                   *)
LEMMA DefaultsIs ==
  ASSUME NEW d \in Defaults
  PROVE  /\ d # None /\ d = [u \in Usecases |-> d[u]]
         /\ \A u \in Usecases : d[u] \in Fields \cup {None}
         /\ \A u \in Usecases : Inputs(d, u) \in Fields
         /\ \A u \in Usecases : d[u] = None => \A x \in Names : Inputs(d, u)[x] = None
         /\ \A u \in Usecases : d[u] # None => Inputs(d, u) = d[u]
<1>1. d # None
  BY NoneAssumption
<1>2. Empty(Names) \in Fields /\ \A x \in Names : Empty(Names)[x] = None
  BY DEF Empty, Fields
<1>3. d \in [Usecases -> Fields \cup {None}]
  BY DEF Defaults
<1>4. QED
  BY <1>1, <1>2, <1>3 DEF Inputs

LEMMA OverIs ==
  ASSUME NEW r \in Fields, NEW l \in Fields
  PROVE  /\ Over(r, l) \in Fields /\ Over(r, l) # None
         /\ \A x \in Names : Over(r, l)[x] = IF r[x] # None THEN r[x] ELSE l[x]
<1>1. l \in [Names -> Values \cup {None}] /\ r \in [Names -> Values \cup {None}]
  BY DEF Fields
<1>2. Over(r, l) = [x \in Names |-> IF r[x] # None THEN r[x] ELSE l[x]]
  BY <1>1 DEF Over
<1>3. Over(r, l) \in [Names -> Values \cup {None}]
  BY <1>1, <1>2
<1>4. QED
  BY <1>2, <1>3, NoneAssumption DEF Fields

(* Reading the same values from behind once more changes nothing.          *)
LEMMA OverOver ==
  ASSUME NEW r \in Fields, NEW l \in Fields
  PROVE  Over(Over(r, l), l) = Over(r, l) /\ Over(r, r) = r
<1>1. /\ Over(r, l) \in Fields
      /\ \A x \in Names : Over(r, l)[x] = IF r[x] # None THEN r[x] ELSE l[x]
  BY OverIs
<1>2. /\ Over(Over(r, l), l) \in Fields
      /\ \A x \in Names : Over(Over(r, l), l)[x]
                            = IF Over(r, l)[x] # None THEN Over(r, l)[x] ELSE l[x]
  BY <1>1, OverIs
<1>3. \A x \in Names : Over(Over(r, l), l)[x] = Over(r, l)[x]
  BY <1>1, <1>2
<1>4. Over(r, r) \in Fields /\ \A x \in Names : Over(r, r)[x] = r[x]
  BY OverIs
<1>5. QED
  BY <1>1, <1>2, <1>3, <1>4 DEF Fields

(* mergeVariables gives defaults, and sets each input one of them sets.    *)
LEMMA MergeVariablesIs ==
  ASSUME NEW l \in Defaults, NEW r \in Defaults
  PROVE  /\ MergeVariables(l, r) \in Defaults
         /\ \A u \in Usecases :
              MergeVariables(l, r)[u] = IF l[u] = None /\ r[u] = None THEN None
                                        ELSE Over(Inputs(r, u), Inputs(l, u))
<1>1. \A u \in Usecases : Over(Inputs(r, u), Inputs(l, u)) \in Fields
  BY DefaultsIs, OverIs
<1>2. QED
  BY <1>1 DEF MergeVariables, Defaults

-----------------------------------------------------------------------------
(* Every edit of a profile leaves a profile of the schema's form.          *)

LEMMA MergeProfileDefaultsIs ==
  ASSUME NEW entry \in Profile \cup {None}, NEW payload \in Defaults
  PROVE  MergeProfileDefaults(entry, payload) \in FullProfile
<1> DEFINE target == IF entry = None THEN Short(DefaultVersion) ELSE entry
<1>1. target \in Profile
  BY SuperJsonAssumption, ShortIf DEF Profile
<1>2. MergeProfileDefaults(entry, payload) =
        IF IsShort(target)
        THEN [EmptyProfile(IF target.short \in ProfileVersions THEN target.short ELSE Uri(target.short))
                EXCEPT !.defaults = payload]
        ELSE [target EXCEPT !.defaults = IF @ = None THEN payload ELSE MergeVariables(@, payload)]
  BY DEF MergeProfileDefaults
<1> HIDE DEF target
<1>3. CASE IsShort(target)
  <2>1. target.short \in ProfileVersions \cup Files
    BY <1>1, <1>3, ProfileForm, ShortIs
  <2>2. PICK source \in ProfileVersions \cup Files \cup Uris :
          source = IF target.short \in ProfileVersions THEN target.short ELSE Uri(target.short)
    BY <2>1, EmptyForms
  <2>3. [EmptyProfile(source) EXCEPT !.defaults = payload] \in FullProfile
    BY EmptyForms DEF FullProfile
  <2>4. QED
    BY <1>2, <1>3, <2>2, <2>3
<1>4. CASE ~IsShort(target)
  <2>1. target \in FullProfile
    BY <1>1, <1>4, ProfileForm
  <2>2. PICK d \in Defaults :
          d = IF target.defaults = None THEN payload ELSE MergeVariables(target.defaults, payload)
    BY <2>1, FullProfileIs, MergeVariablesIs
  <2>3. [target EXCEPT !.defaults = d] \in FullProfile
    BY <2>1 DEF FullProfile
  <2>4. QED
    BY <1>2, <1>4, <2>2, <2>3
<1>5. QED
  BY <1>3, <1>4

(* A shorthand in full.                                                    *)
LEMMA ShorthandIs ==
  ASSUME NEW e \in [short : ProfileVersions \cup Files], NEW order \in Seq(Providers)
  PROVE  /\ NormalizeShorthand(e, order) \in FullProfile
         /\ NormalizeShorthand(e, order) =
              [source |-> e.short, priority |-> order, defaults |-> NoDefaults,
               providers |-> NoProviders]
<1>1. e.short \in ProfileVersions \cup Files \cup Uris
  BY ShortIs
<1>2. QED
  BY <1>1, EmptyForms, FullProfileIf DEF NormalizeShorthand

(* The profile before its providers are edited.                            *)
Ensured(entry, ensured) ==
  /\ ensured \in FullProfile /\ ensured.providers \in Ordered(Providers, Settings)
  /\ ExplicitOrder(ensured) = ExplicitOrder(entry)
  /\ \/ /\ entry = None \/ IsShort(entry) \/ entry.providers = None
        /\ ensured.providers = NoProviders
     \/ entry \in FullProfile /\ ensured = entry

LEMMA ProfileEnsured ==
  ASSUME NEW entry \in Profile \cup {None}
  PROVE  Ensured(entry, EnsureProfileWithProviders(entry))
<1> DEFINE ensured == EnsureProfileWithProviders(entry)
<1>1. CASE entry = None
  <2>1. ensured = [source |-> DefaultVersion, priority |-> None, defaults |-> None,
                   providers |-> NoProviders]
    BY <1>1 DEF EnsureProfileWithProviders, EmptyProfile
  <2> HIDE DEF ensured
  <2>2. ensured \in FullProfile
    BY <2>1, SuperJsonAssumption, EmptyForms, FullProfileIf
  <2>3. ExplicitOrder(ensured) = <<>> /\ ExplicitOrder(entry) = <<>>
    BY <1>1, <2>1 DEF ExplicitOrder
  <2>4. QED
    BY <1>1, <2>1, <2>2, <2>3, EmptyForms DEF Ensured, ensured
<1>2. CASE entry # None /\ IsShort(entry)
  <2>1. entry \in [short : ProfileVersions \cup Files]
    BY <1>2, ProfileForm
  <2>2. ensured = NormalizeShorthand(entry, <<>>)
    BY <1>2 DEF EnsureProfileWithProviders
  <2>3. ensured \in FullProfile
        /\ ensured = [source |-> entry.short, priority |-> <<>>, defaults |-> NoDefaults,
                      providers |-> NoProviders]
    BY <2>1, <2>2, ShorthandIs, EmptySeq
  <2> HIDE DEF ensured
  <2>4. ExplicitOrder(ensured) = <<>> /\ ExplicitOrder(entry) = <<>>
    BY <1>2, <2>3 DEF ExplicitOrder
  <2>5. QED
    BY <1>2, <2>3, <2>4, EmptyForms DEF Ensured, ensured
<1>3. CASE entry # None /\ ~IsShort(entry)
  <2>1. entry \in FullProfile
    BY <1>3, ProfileForm
  <2>2. ensured = [entry EXCEPT !.providers = OrEmpty(entry.providers)]
    BY <1>3 DEF EnsureProfileWithProviders
  <2>3. CASE entry.providers = None
    <3>1. ensured = [source |-> entry.source, priority |-> entry.priority,
                     defaults |-> entry.defaults, providers |-> NoProviders]
      BY <2>1, <2>2, <2>3, FullProfileIs DEF OrEmpty
    <3> HIDE DEF ensured
    <3>2. ensured \in FullProfile
      BY <2>1, <3>1, EmptyForms, FullProfileIs, FullProfileIf
    <3>3. ~IsShort(ensured) /\ ensured # None
      BY <3>2, ProfileForm DEF Profile
    <3>4. ExplicitOrder(ensured) = ExplicitOrder(entry)
      BY <1>3, <3>1, <3>3 DEF ExplicitOrder
    <3>5. QED
      BY <2>3, <3>1, <3>2, <3>4, EmptyForms DEF Ensured, ensured
  <2>4. CASE entry.providers # None
    <3>1. ensured = entry
      BY <2>1, <2>2, <2>4, FullProfileIs DEF OrEmpty
    <3>2. QED
      BY <2>1, <2>4, <3>1, FullProfileIs DEF Ensured
  <2>5. QED
    BY <2>3, <2>4
<1>4. QED
  BY <1>1, <1>2, <1>3

(* Settings merged with settings of the form of the schema have it too.    *)
LEMMA MergeSettingsIs ==
  ASSUME NEW old \in Settings, NEW payload \in FullSettings
  PROVE  MergeSettings(old, payload) \in FullSettings \cup {None}
<1> DEFINE defaults ==
             IF payload.defaults = None \/ IsShort(old) \/ old.defaults = None
             THEN payload.defaults
             ELSE MergeVariables(old.defaults, payload.defaults)
           Older(field) == IF IsShort(old) \/ old.file # None THEN None ELSE old[field]
           Newer(field) == IF payload[field] = None THEN Older(field) ELSE payload[field]
           result == MergeSettings(old, payload)
<1>1. result =
        IF payload.file # None THEN [payload EXCEPT !.defaults = defaults]
        ELSE IF payload.variant # None \/ payload.revision # None
             THEN [file |-> None, variant |-> Newer("variant"), revision |-> Newer("revision"),
                   defaults |-> defaults]
        ELSE IF defaults = None THEN None
        ELSE IF IsShort(old)
             THEN [EmptySettings EXCEPT !.file = Uri(old.short), !.defaults = defaults]
        ELSE [old EXCEPT !.defaults = defaults]
  BY DEF MergeSettings
<1>2. (IsShort(old) => old.short \in Files) /\ (~IsShort(old) => old \in FullSettings)
  BY SettingsForm, ShortIs
<1>3. defaults \in Defaults \cup {None}
  BY <1>2, FullSettingsIs, MergeVariablesIs
<1>4. Newer("variant") \in Names \cup {None} /\ Newer("revision") \in Names \cup {None}
  BY <1>2, FullSettingsIs
<1> HIDE DEF result, defaults, Newer
<1>5. CASE payload.file # None
  <2>1. [payload EXCEPT !.defaults = defaults] \in FullSettings
    BY <1>3 DEF FullSettings
  <2>2. QED
    BY <1>1, <1>5, <2>1 DEF result
<1>6. CASE payload.file = None /\ (payload.variant # None \/ payload.revision # None)
  <2>1. [file |-> None, variant |-> Newer("variant"), revision |-> Newer("revision"),
         defaults |-> defaults] \in FullSettings
    BY <1>3, <1>4, FullSettingsIf
  <2>2. QED
    BY <1>1, <1>6, <2>1 DEF result
<1>7. CASE payload.file = None /\ ~(payload.variant # None \/ payload.revision # None)
  <2>1. CASE defaults = None
    BY <1>1, <1>7, <2>1 DEF result
  <2>2. CASE defaults # None /\ IsShort(old)
    <3>1. [EmptySettings EXCEPT !.file = Uri(old.short), !.defaults = defaults] \in FullSettings
      BY <1>2, <1>3, <2>2, EmptyForms DEF FullSettings
    <3>2. QED
      BY <1>1, <1>7, <2>2, <3>1 DEF result
  <2>3. CASE defaults # None /\ ~IsShort(old)
    <3>1. [old EXCEPT !.defaults = defaults] \in FullSettings
      BY <1>2, <1>3, <2>3 DEF FullSettings
    <3>2. QED
      BY <1>1, <1>7, <2>3, <3>1 DEF result
  <2>4. QED
    BY <2>1, <2>2, <2>3
<1>8. QED
  BY <1>5, <1>6, <1>7

LEMMA MergeProviderEntryIs ==
  ASSUME NEW old \in Settings \cup {None}, NEW payload \in Settings
  PROVE  /\ MergeProviderEntry(old, payload) \in Settings \cup {None}
         /\ old = None => MergeProviderEntry(old, payload) # None
<1>1. CASE old = None
  BY <1>1, SettingsForm DEF MergeProviderEntry
<1>2. CASE old # None /\ ~IsShort(payload)
  <2>1. payload \in FullSettings /\ old \in Settings
    BY <1>2, SettingsForm
  <2>2. MergeSettings(old, payload) \in FullSettings \cup {None}
    BY <2>1, MergeSettingsIs
  <2>3. QED
    BY <1>2, <2>2 DEF MergeProviderEntry, Settings
<1>3. CASE old # None /\ IsShort(payload)
  <2>1. CASE IsShort(old) \/ IsEmptyRecord(old.defaults)
    BY <1>3, <2>1 DEF MergeProviderEntry
  <2>2. CASE ~(IsShort(old) \/ IsEmptyRecord(old.defaults))
    <3>1. old \in FullSettings /\ payload \in [short : Files]
      BY <1>3, <2>2, SettingsForm
    <3>2. old.defaults \in Defaults \cup {None} /\ payload.short \in Files
      BY <3>1, FullSettingsIs, ShortIs
    <3>3. [EmptySettings EXCEPT !.file = payload.short, !.defaults = old.defaults] \in FullSettings
      BY <3>2, EmptyForms DEF FullSettings
    <3>4. QED
      BY <1>3, <2>2, <3>3 DEF MergeProviderEntry, Settings
  <2>3. QED
    BY <2>1, <2>2
<1>4. QED
  BY <1>1, <1>2, <1>3

(* An addition to an order of priority is at its end, and of a name that   *)
(* it does not have.                                                       *)
Added(o, s, r) ==
  /\ r \in Seq(Providers)
  /\ Starts(o, r)
  /\ IsInjective(o) => IsInjective(r)
  /\ \A i \in 1..Len(r) : r[i] = s \/ \E j \in 1..Len(o) : o[j] = r[i]

(* resolvePriorityAddition appends a new name, and only that.              *)
LEMMA PriorityAdded ==
  ASSUME NEW existing \in Seq(Providers) \cup {None}, NEW s \in Providers,
         NEW o \in Seq(Providers), o = IF existing = None THEN <<>> ELSE existing
  PROVE  Added(o, s, ResolvePriorityAddition(existing, s))
<1> DEFINE r == ResolvePriorityAddition(existing, s)
<1>1. CASE o = <<>>
  <2>1. r = <<s>>
    BY <1>1 DEF ResolvePriorityAddition
  <2>2. r \in Seq(Providers) /\ Len(r) = 1 /\ r[1] = s /\ DOMAIN r = 1..1
    BY <2>1
  <2>3. IsInjective(r)
    BY <2>2 DEF IsInjective
  <2> HIDE DEF r
  <2>4. QED
    BY <1>1, <2>2, <2>3 DEF r, Added, Starts
<1>2. CASE o # <<>> /\ Contains(o, s)
  <2>1. r = o
    BY <1>2 DEF ResolvePriorityAddition
  <2>2. QED
    BY <2>1, StartsSame DEF Added
<1>3. CASE o # <<>> /\ ~Contains(o, s)
  <2>1. r = Append(o, s)
    BY <1>3 DEF ResolvePriorityAddition
  <2>2. /\ r \in Seq(Providers) /\ Len(r) = Len(o) + 1
        /\ Len(o) \in Nat /\ r[Len(o) + 1] = s
        /\ \A i \in 1..Len(o) : r[i] = o[i]
    BY <2>1, AppendProperties
  <2>3. Starts(o, r)
    BY <2>2 DEF Starts
  <2>4. \A i \in 1..Len(o) : o[i] # s
    BY <1>3 DEF Contains
  <2> HIDE DEF r
  <2>5. ASSUME IsInjective(o)
        PROVE  IsInjective(r)
    <3>1. DOMAIN r = 1..Len(r) /\ DOMAIN o = 1..Len(o)
      BY <2>2, LenProperties
    <3>2. QED
      BY <2>2, <2>4, <2>5, <3>1 DEF IsInjective
  <2>6. QED
    BY <2>2, <2>3, <2>5 DEF Added, r
<1>4. QED
  BY <1>1, <1>2, <1>3

(* An order that is not stated names nobody.                               *)
LEMMA ExplicitIs ==
  /\ \A e \in Profile \cup {None} : ExplicitOrder(e) \in Seq(Providers)
  /\ \A e \in FullProfile : ExplicitOrder(e) = IF e.priority = None THEN <<>> ELSE e.priority
<1>1. \A e \in FullProfile : ExplicitOrder(e) = IF e.priority = None THEN <<>> ELSE e.priority
  BY ProfileForm DEF ExplicitOrder, Profile
<1>2. \A e \in FullProfile : ExplicitOrder(e) \in Seq(Providers)
  BY <1>1, FullProfileIs, EmptySeq
<1>3. \A e \in Profile \cup {None} : e \notin FullProfile => ExplicitOrder(e) = <<>>
  BY ProfileForm DEF ExplicitOrder
<1>4. QED
  BY <1>1, <1>2, <1>3, EmptySeq

Configures(e, t) == e # None /\ ~IsShort(e) /\ Has(e.providers, t)

(* The order names each provider once, and none that the profile does not  *)
(* configure, but maybe s.                                                 *)
OrderedBut(e, s) ==
  LET o == ExplicitOrder(e)
  IN IsInjective(o) /\ \A i \in 1..Len(o) : o[i] = s \/ Configures(e, o[i])

LEMMA HasIs ==
  ASSUME NEW K, NEW V, None \notin Ordered(K, V), NEW m \in Ordered(K, V)
  PROVE  /\ m # None /\ \A k : Has(m, k) <=> m.at[k] # None
         /\ ~\E k : Has(None, k)
         /\ \A k : Get(m, k) = m.at[k] /\ Get(None, k) = None
         /\ Keys(m) = m.keys /\ Keys(None) = <<>>
BY DEF Has, Get, Keys

(* WellOrdered in terms of the stated order and of who is configured.      *)
LEMMA WellOrderedIs ==
  ASSUME NEW e \in Profile \cup {None}
  PROVE  WellOrdered(e) <=> /\ IsInjective(ExplicitOrder(e))
                            /\ \A i \in 1..Len(ExplicitOrder(e)) : Configures(e, ExplicitOrder(e)[i])
<1> DEFINE o == ExplicitOrder(e)
<1>0. IsInjective(<<>>) /\ 1..Len(<<>>) = {}
  BY DEF IsInjective
<1>1. CASE e = None \/ IsShort(e) \/ e.priority = None
  <2>1. o = <<>>
    BY <1>1 DEF ExplicitOrder
  <2>2. WellOrdered(e)
    BY <1>1 DEF WellOrdered
  <2>3. QED
    BY <1>0, <2>1, <2>2
<1>2. CASE e # None /\ ~IsShort(e) /\ e.priority # None
  <2>1. e \in FullProfile /\ o = e.priority /\ o \in Seq(Providers)
    BY <1>2, ProfileForm, ExplicitIs DEF ExplicitOrder
  <2>2. WellOrdered(e) <=> IsInjective(o) /\ ToSet(o) \subseteq ToSet(Keys(e.providers))
    BY <1>2, <2>1 DEF WellOrdered
  <2> HIDE DEF o
  <2>3. ToSet(o) = {o[i] : i \in 1..Len(o)} /\ \A i \in 1..Len(o) : o[i] \in Providers
    BY <2>1 DEF ToSet
  <2>4. \A t \in Providers : t \in ToSet(Keys(e.providers)) <=> Configures(e, t)
    <3>1. CASE e.providers = None
      BY <3>1 DEF Keys, ToSet, Configures, Has
    <3>2. CASE e.providers # None
      <4>1. e.providers \in Ordered(Providers, Settings)
        BY <2>1, <3>2, FullProfileIs
      <4>2. ToSet(Keys(e.providers)) = {t \in Providers : e.providers.at[t] # None}
        BY <3>2, <4>1 DEF Keys, Ordered
      <4>3. QED
        BY <1>2, <3>2, <4>2 DEF Configures, Has
    <3>3. QED
      BY <3>1, <3>2
  <2>5. ToSet(o) \subseteq ToSet(Keys(e.providers)) <=> \A i \in 1..Len(o) : Configures(e, o[i])
    BY <2>3, <2>4
  <2>6. QED
    BY <2>2, <2>5 DEF o
<1>3. QED
  BY <1>1, <1>2

LEMMA WellOrderedBut ==
  ASSUME NEW e \in Profile \cup {None}, WellOrdered(e), NEW s
  PROVE  OrderedBut(e, s)
BY WellOrderedIs DEF OrderedBut

(* To ensure a profile changes neither its order nor its providers.        *)
LEMMA EnsuredOrderedBut ==
  ASSUME NEW e \in Profile \cup {None}, NEW ensured, Ensured(e, ensured), NEW s, OrderedBut(e, s)
  PROVE  OrderedBut(ensured, s)
<1>1. CASE ensured = e
  BY <1>1
<1>2. CASE e = None \/ IsShort(e) \/ e.providers = None
  <2>1. \A t : ~Configures(e, t)
    BY <1>2 DEF Configures, Has
  <2>2. QED
    BY <2>1 DEF OrderedBut, Ensured
<1>3. QED
  BY <1>1, <1>2 DEF Ensured

LEMMA ProfileReplaced ==
  ASSUME NEW e \in FullProfile, NEW o, NEW m
  PROVE  /\ [e EXCEPT !.providers = m] =
              [source |-> e.source, priority |-> e.priority, defaults |-> e.defaults,
               providers |-> m]
         /\ [e EXCEPT !.priority = o] =
              [source |-> e.source, priority |-> o, defaults |-> e.defaults,
               providers |-> e.providers]
         /\ [e EXCEPT !.providers = m, !.priority = o] =
              [source |-> e.source, priority |-> o, defaults |-> e.defaults,
               providers |-> m]
<1>1. e \in [source : ProfileVersions \cup Files \cup Uris, priority : Seq(Providers) \cup {None},
             defaults : Defaults \cup {None}, providers : Ordered(Providers, Settings) \cup {None}]
  BY DEF FullProfile
<1>2. [e EXCEPT !.providers = m] =
        [source |-> e.source, priority |-> e.priority, defaults |-> e.defaults, providers |-> m]
  BY <1>1
<1>3. [e EXCEPT !.priority = o] =
        [source |-> e.source, priority |-> o, defaults |-> e.defaults, providers |-> e.providers]
  BY <1>1
<1>4. [e EXCEPT !.providers = m, !.priority = o] =
        [source |-> e.source, priority |-> o, defaults |-> e.defaults, providers |-> m]
  <2> DEFINE f == [source |-> e.source, priority |-> e.priority, defaults |-> e.defaults,
                   providers |-> m]
  <2>1. [f EXCEPT !.priority = o] =
          [source |-> e.source, priority |-> o, defaults |-> e.defaults, providers |-> m]
    OBVIOUS
  <2>2. [e EXCEPT !.providers = m, !.priority = o] = [[e EXCEPT !.providers = m] EXCEPT !.priority = o]
    BY <1>1
  <2>3. QED
    BY <1>2, <2>1, <2>2
<1>5. QED
  BY <1>2, <1>3, <1>4

(* A provider is merged into the profile: what the new profile is, and     *)
(* what it keeps of the old one.                                           *)
ProviderMerged(entry, ensured, s, result) ==
  /\ result.changed \in BOOLEAN
  /\ result.value \in FullProfile /\ result.value.providers \in Ordered(Providers, Settings)
  /\ result.value.defaults = ensured.defaults /\ result.value.source = ensured.source
  /\ Starts(ExplicitOrder(entry), ExplicitOrder(result.value))
  /\ Starts(ensured.providers.keys, result.value.providers.keys)
  /\ ~result.changed => result.value = entry
  /\ ~Configures(entry, s) => result.changed
  /\ OrderedBut(entry, s) /\ result.changed => WellOrdered(result.value)

(* mergeProfileProvider.                                                   *)
LEMMA ProviderIsMerged ==
  ASSUME NEW entry \in Profile \cup {None}, NEW s \in Providers, NEW payload \in Settings
  PROVE  ProviderMerged(entry, EnsureProfileWithProviders(entry), s,
                        MergeProfileProvider(entry, s, payload))
<1> DEFINE ensured == EnsureProfileWithProviders(entry)
           old     == Get(ensured.providers, s)
           merged  == MergeProviderEntry(old, payload)
           result  == MergeProfileProvider(entry, s, payload)
<1>1. result = IF merged = None THEN Result(ensured, FALSE)
               ELSE Result([ensured EXCEPT
                              !.providers = Put(@, s, merged),
                              !.priority = ResolvePriorityAddition(@, s)], TRUE)
  BY Zenon DEF MergeProfileProvider
<1>2. Ensured(entry, ensured)
  BY ProfileEnsured
<1>3. old = ensured.providers.at[s] /\ old \in Settings \cup {None}
  <2> HIDE DEF ensured
  <2>1. ensured.providers \in Ordered(Providers, Settings)
    BY <1>2 DEF Ensured
  <2>2. QED
    BY <2>1, OrderedIs, HasIs, NoneAssumption
<1> HIDE DEF ensured, old
<1>4. merged \in Settings \cup {None} /\ (old = None => merged # None)
  BY <1>3, MergeProviderEntryIs
<1>5. old # None => ensured = entry /\ Configures(entry, s)
  <2>1. old # None => ensured.providers # NoProviders
    BY <1>3, EmptyForms
  <2>2. old # None => entry \in FullProfile /\ ensured = entry
    BY <1>2, <2>1 DEF Ensured
  <2>3. old # None => entry # None /\ ~IsShort(entry) /\ Has(entry.providers, s)
    BY <1>2, <1>3, <2>2, ProfileForm, NoneAssumption DEF Ensured, Has, Profile
  <2>4. QED
    BY <2>2, <2>3 DEF Configures
<1>6. ~Configures(entry, s) => old = None
  BY <1>5
<1> HIDE DEF merged, result
<1>7. CASE merged = None
  <2>1. old # None /\ ensured = entry /\ Configures(entry, s)
    BY <1>4, <1>5, <1>7
  <2>2. result.value = ensured /\ result.changed = FALSE
    BY <1>1, <1>7 DEF Result
  <2>3. /\ ensured \in FullProfile /\ ensured.providers \in Ordered(Providers, Settings)
        /\ ExplicitOrder(ensured) \in Seq(Providers) /\ ensured.providers.keys \in Seq(Providers)
    BY <1>2, ExplicitIs, OrderedIs DEF Ensured, Profile
  <2>4. Starts(ExplicitOrder(ensured), ExplicitOrder(ensured))
        /\ Starts(ensured.providers.keys, ensured.providers.keys)
    BY <2>3, StartsSame
  <2>5. QED
    BY <2>1, <2>2, <2>3, <2>4 DEF ProviderMerged, result, ensured
<1>8. CASE merged # None
  <2> DEFINE o == ExplicitOrder(ensured)
             r == ResolvePriorityAddition(ensured.priority, s)
             m == Put(ensured.providers, s, merged)
             value == [source |-> ensured.source, priority |-> r, defaults |-> ensured.defaults,
                       providers |-> m]
  <2>1. ensured \in FullProfile /\ ensured.providers \in Ordered(Providers, Settings)
        /\ ExplicitOrder(entry) = o /\ o \in Seq(Providers)
        /\ o = IF ensured.priority = None THEN <<>> ELSE ensured.priority
    BY <1>2, ExplicitIs DEF Ensured, Profile
  <2>2. Added(o, s, r)
    <3>1. ensured.priority \in Seq(Providers) \cup {None}
      BY <2>1, FullProfileIs
    <3> HIDE DEF o
    <3>2. QED
      BY <2>1, <3>1, PriorityAdded
  <2>3. Puts(Providers, Settings, ensured.providers, s, merged, m)
        /\ Starts(ensured.providers.keys, m.keys)
    BY <1>4, <1>8, <2>1, NoneAssumption, PutIsOrdered, PutStarts
  <2>4. result = Result(value, TRUE)
    <3>1. ensured = [source |-> ensured.source, priority |-> ensured.priority,
                     defaults |-> ensured.defaults, providers |-> ensured.providers]
      BY <2>1, FullProfileIs
    <3>2. result = Result([ensured EXCEPT !.providers = m, !.priority = r], TRUE)
      BY <1>1, <1>8
    <3> HIDE DEF m, r
    <3>3. [ensured EXCEPT !.providers = m, !.priority = r] = value
      BY <2>1, ProfileReplaced
    <3>4. QED
      BY <3>2, <3>3
  <2>5. /\ result.value = value /\ result.changed = TRUE
        /\ value.source = ensured.source /\ value.priority = r
        /\ value.defaults = ensured.defaults /\ value.providers = m
    BY <2>4 DEF Result
  <2>6. value \in FullProfile
    BY <2>1, <2>2, <2>3, FullProfileIs, FullProfileIf DEF Added, Puts
  <2> HIDE DEF o, r, m, value
  <2>7. r # None /\ ExplicitOrder(value) = r
    <3>1. r \in Seq(Providers)
      BY <2>2 DEF Added
    <3>2. QED
      BY <2>5, <2>6, <3>1, ExplicitIs, NoneAssumption
  <2>8. ASSUME OrderedBut(entry, s)
        PROVE  WellOrdered(value)
    <3>1. OrderedBut(ensured, s)
      BY <1>2, <2>8, EnsuredOrderedBut
    <3>2. IsInjective(o) /\ \A i \in 1..Len(o) : o[i] = s \/ Configures(ensured, o[i])
      BY <3>1 DEF OrderedBut, o
    <3>3. IsInjective(r)
      BY <2>2, <3>2 DEF Added
    <3>4. ASSUME NEW t \in Providers, t = s \/ Configures(ensured, t)
          PROVE  Configures(value, t)
      <4>1. m.at = [ensured.providers.at EXCEPT ![s] = merged] /\ m \in Ordered(Providers, Settings)
        BY <2>3 DEF Puts
      <4>2. t = s \/ ensured.providers.at[t] # None
        BY <2>1, <3>4, HasIs, NoneAssumption DEF Configures
      <4>3. m.at[t] # None
        BY <1>8, <2>1, <4>1, <4>2, OrderedIs
      <4>4. QED
        BY <2>5, <2>6, <4>1, <4>3, HasIs, ProfileForm, NoneAssumption DEF Configures, Profile
    <3>5. ASSUME NEW i \in 1..Len(r)
          PROVE  Configures(value, r[i])
      <4>1. r[i] \in Providers /\ (r[i] = s \/ \E j \in 1..Len(o) : o[j] = r[i])
        BY <2>2 DEF Added
      <4>2. r[i] = s \/ Configures(ensured, r[i])
        BY <3>2, <4>1
      <4>3. QED
        BY <3>4, <4>1, <4>2
    <3>6. QED
      BY <2>6, <2>7, <3>3, <3>5, WellOrderedIs DEF Profile
  <2>9. m \in Ordered(Providers, Settings) /\ Starts(o, r)
    BY <2>2, <2>3 DEF Added, Puts
  <2>10. QED
    BY <2>1, <2>3, <2>5, <2>6, <2>7, <2>8, <2>9 DEF ProviderMerged, result, ensured
<1>9. QED
  BY <1>7, <1>8

LEMMA EnsuredSame ==
  ASSUME NEW e \in FullProfile, e.providers \in Ordered(Providers, Settings)
  PROVE  EnsureProfileWithProviders(e) = e
<1>1. e \in Profile /\ ~IsShort(e) /\ e # None /\ e.providers # None
  BY ProfileForm, NoneAssumption DEF Profile
<1>2. Ensured(e, EnsureProfileWithProviders(e))
  BY <1>1, ProfileEnsured
<1>3. QED
  BY <1>1, <1>2 DEF Ensured

(* A map that starts as another has what that one has.                     *)
LEMMA StartsHas ==
  ASSUME NEW K, NEW V, NEW m \in Ordered(K, V), NEW n \in Ordered(K, V), Starts(m.keys, n.keys),
         NEW k \in K, m.at[k] # None
  PROVE  n.at[k] # None
<1>1. PICK i \in 1..Len(m.keys) : m.keys[i] = k
  BY OrderedIs
<1>2. i \in 1..Len(n.keys) /\ n.keys[i] = k
  BY <1>1, OrderedIs DEF Starts
<1>3. QED
  BY <1>2, OrderedIs

(* What each merge of a provider keeps, the merge of the providers keeps.  *)
LEMMA MergeProvidersIn ==
  ASSUME NEW entry, NEW payload, Len(Keys(payload.providers)) \in Nat, NEW T, entry \in T,
         \A i \in 1..Len(Keys(payload.providers)), x \in T :
           MergeProfileProvider(x, Keys(payload.providers)[i],
                                payload.providers.at[Keys(payload.providers)[i]]).value \in T
  PROVE  MergeProviders(entry, payload) \in T
<1> DEFINE keys == Keys(payload.providers)
           L == Len(keys)
           Merge(x, i) == MergeProfileProvider(x, keys[i], payload.providers.at[keys[i]]).value
           Rule(f) == f = [i \in 0..L |-> IF i = 0 THEN entry ELSE Merge(f[i - 1], i)]
           merging == CHOOSE f : Rule(f)
<1>1. MergeProviders(entry, payload) = merging[L]
  BY Zenon DEF MergeProviders
<1>0. L \in Nat /\ \A i \in 1..L, x \in T : Merge(x, i) \in T
  OBVIOUS
<1> HIDE DEF L, Merge
<1>2. \E f : Rule(f)
  <2> DEFINE step == [q \in (1..L) \X T |-> Merge(q[2], q[1])]
  <2>1. step \in [(1..L) \X T -> T]
    BY <1>0
  <2>2. \A i \in 1..L, x \in T : step[<<i, x>>] = Merge(x, i)
    OBVIOUS
  <2> HIDE DEF step
  <2>3. PICK f : LoopOf(L, T, entry, step, f)
    BY <1>0, <2>1, LoopExists
  <2>4. f \in [0..L -> T] /\ f[0] = entry /\ \A i \in 1..L : f[i] = step[<<i, f[i - 1]>>]
    BY <2>3, Zenon DEF LoopOf
  <2>5. ASSUME NEW i \in 1..L
        PROVE  f[i] = Merge(f[i - 1], i)
    <3>1. i - 1 \in 0..L
      BY <1>0
    <3>2. f[i - 1] \in T
      BY <2>4, <3>1
    <3>3. QED
      BY <2>2, <2>4, <3>2
  <2>6. Rule(f)
    BY <1>0, <2>4, <2>5
  <2>7. QED
    BY <2>6, Zenon
<1>3. Rule(merging)
  BY <1>2, Zenon
<1>4. merging[0] = entry /\ \A i \in 1..L : merging[i] = Merge(merging[i - 1], i)
  <2> HIDE DEF merging
  <2>1. merging = [i \in 0..L |-> IF i = 0 THEN entry ELSE Merge(merging[i - 1], i)]
    BY <1>3, Zenon
  <2>2. merging[0] = entry
    BY <1>0, <2>1
  <2>3. ASSUME NEW i \in 1..L
        PROVE  merging[i] = Merge(merging[i - 1], i)
    <3>1. i \in 0..L /\ i # 0
      BY <1>0
    <3>2. merging[i] = IF i = 0 THEN entry ELSE Merge(merging[i - 1], i)
      BY <2>1, <3>1, Zenon
    <3>3. QED
      BY <3>1, <3>2
  <2>4. QED
    BY <2>2, <2>3
<1> HIDE DEF merging
<1> DEFINE Kept == {i \in 0..L : merging[i] \in T}
<1>5. 0 \in Kept
  BY <1>0, <1>4
<1>6. ASSUME NEW i \in 1..L, i - 1 \in Kept
      PROVE  i \in Kept
  <2>1. merging[i] = Merge(merging[i - 1], i) /\ merging[i - 1] \in T /\ i \in 0..L
    BY <1>0, <1>4, <1>6
  <2>2. QED
    BY <1>0, <2>1
<1> HIDE DEF Kept
<1>7. \A i \in 0..L : i \in Kept
  BY <1>0, <1>5, <1>6, Rounds
<1>8. L \in Kept
  BY <1>0, <1>7
<1>9. QED
  BY <1>1, <1>8 DEF Kept

(* The loop of mergeProfile over the payload's providers.                  *)
LEMMA ProvidersMerged ==
  ASSUME NEW entry \in FullProfile, entry.providers \in Ordered(Providers, Settings),
         NEW payload \in FullProfile
  PROVE  LET merged == MergeProviders(entry, payload)
         IN /\ merged.providers \in Ordered(Providers, Settings)
            /\ Starts(entry.providers.keys, merged.providers.keys)
<1> DEFINE T == {x \in FullProfile : /\ x.providers \in Ordered(Providers, Settings)
                                     /\ Starts(entry.providers.keys, x.providers.keys)}
           keys == Keys(payload.providers)
<1>1. entry \in T
  BY OrderedIs, StartsSame
<1>2. Len(keys) \in Nat
      /\ \A i \in 1..Len(keys) : keys[i] \in Providers /\ payload.providers.at[keys[i]] \in Settings
  <2>1. CASE payload.providers = None
    BY <2>1, EmptySeq DEF Keys
  <2>2. CASE payload.providers # None
    <3>1. payload.providers \in Ordered(Providers, Settings) /\ keys = payload.providers.keys
      BY <2>2, FullProfileIs DEF Keys
    <3> HIDE DEF keys
    <3>2. QED
      BY <3>1, OrderedIs
  <2>3. QED
    BY <2>1, <2>2
<1>3. ASSUME NEW i \in 1..Len(keys), NEW x \in T
      PROVE  MergeProfileProvider(x, keys[i], payload.providers.at[keys[i]]).value \in T
  <2>1. PICK s \in Providers, p \in Settings : s = keys[i] /\ p = payload.providers.at[keys[i]]
    BY <1>2
  <2> DEFINE result == MergeProfileProvider(x, s, p)
  <2>2. ProviderMerged(x, x, s, result)
    BY EnsuredSame, ProviderIsMerged DEF Profile
  <2> HIDE DEF result
  <2>3. /\ result.value \in FullProfile /\ result.value.providers \in Ordered(Providers, Settings)
        /\ Starts(x.providers.keys, result.value.providers.keys)
    BY <2>2 DEF ProviderMerged
  <2>4. Starts(entry.providers.keys, result.value.providers.keys)
    <3>1. /\ entry.providers.keys \in Seq(Providers) /\ x.providers.keys \in Seq(Providers)
          /\ result.value.providers.keys \in Seq(Providers)
      BY <2>3, OrderedIs
    <3>2. QED
      BY <2>3, <3>1, StartsThen
  <2>5. result.value \in T
    BY <2>3, <2>4
  <2>6. QED
    BY <2>1, <2>5 DEF result
<1> HIDE DEF T
<1>4. MergeProviders(entry, payload) \in T
  BY <1>1, <1>2, <1>3, MergeProvidersIn
<1>5. QED
  BY <1>4 DEF T

NoneForgotten(e, merged) ==
  e # None /\ ~IsShort(e) /\ ~IsShort(merged) =>
    /\ Starts(Keys(e.providers), Keys(merged.providers))
    /\ AllSetIn(NormalizeUsecaseDefaults(e.defaults), NormalizeUsecaseDefaults(merged.defaults))

LEMMA AllSetInSame ==
  ASSUME NEW d \in Defaults \cup {None}
  PROVE  AllSetIn(NormalizeUsecaseDefaults(d), NormalizeUsecaseDefaults(d))
BY DEF AllSetIn, FieldsIn

LEMMA AllSetInMerged ==
  ASSUME NEW l \in Defaults, NEW r \in Defaults
  PROVE  AllSetIn(NormalizeUsecaseDefaults(l), NormalizeUsecaseDefaults(MergeVariables(l, r)))
<1> DEFINE m == MergeVariables(l, r)
<1>1. /\ m \in Defaults
      /\ \A u \in Usecases : m[u] = IF l[u] = None /\ r[u] = None THEN None
                                    ELSE Over(Inputs(r, u), Inputs(l, u))
  BY MergeVariablesIs
<1> HIDE DEF m
<1>2. ASSUME NEW u \in Usecases, NEW x \in Names, l[u] # None, l[u][x] # None
      PROVE  m[u] # None /\ m[u][x] # None
  <2>1. Inputs(l, u) \in Fields /\ Inputs(r, u) \in Fields /\ Inputs(l, u) = l[u]
    BY <1>2, DefaultsIs
  <2>2. m[u] = Over(Inputs(r, u), Inputs(l, u))
    BY <1>1, <1>2
  <2>3. QED
    BY <1>2, <2>1, <2>2, OverIs
<1>3. NormalizeUsecaseDefaults(l) = l /\ NormalizeUsecaseDefaults(m) = m
  BY <1>1, DefaultsIs DEF NormalizeUsecaseDefaults
<1>4. QED
  BY <1>2, <1>3 DEF AllSetIn, FieldsIn, m

LEMMA KeysStartSame ==
  ASSUME NEW K, NEW V, NEW m \in Ordered(K, V) \cup {None}
  PROVE  Starts(Keys(m), Keys(m)) /\ Keys(m) \in Seq(K)
BY OrderedIs, StartsSame, EmptySeq DEF Keys, Starts

ProfileMerged(entry, payload, merged) ==
  /\ merged \in Profile
  /\ NoneForgotten(entry, merged)
  /\ WellOrdered(entry) /\ WellOrdered(payload) => WellOrdered(merged)

(* mergeProfile.                                                           *)
LEMMA ProfileIsMerged ==
  ASSUME NEW entry \in Profile \cup {None}, NEW payload \in Profile
  PROVE  ProfileMerged(entry, payload, MergeProfile(entry, payload))
<1> DEFINE merged == MergeProfile(entry, payload)
<1>0. payload # None /\ (~IsShort(payload) => payload \in FullProfile)
      /\ (IsShort(payload) => payload.short \in ProfileVersions \cup Files)
  BY ProfileForm, ShortIs
<1>1. CASE entry = None
  BY <1>1 DEF MergeProfile, ProfileMerged, NoneForgotten
<1>2. CASE entry # None /\ IsShort(payload)
  <2>1. CASE IsShort(entry) \/ (IsEmptyRecord(entry.defaults) /\ Keys(entry.providers) = <<>>)
    BY <1>2, <2>1 DEF MergeProfile, ProfileMerged, NoneForgotten
  <2>2. CASE ~(IsShort(entry) \/ (IsEmptyRecord(entry.defaults) /\ Keys(entry.providers) = <<>>))
    <3>1. entry \in FullProfile
      BY <1>2, <2>2, ProfileForm
    <3>2. merged = [entry EXCEPT !.source = payload.short, !.priority = None]
      BY <1>2, <2>2 DEF MergeProfile
    <3>3. merged = [source |-> payload.short, priority |-> None, defaults |-> entry.defaults,
                    providers |-> entry.providers]
      BY <3>1, <3>2 DEF FullProfile
    <3> HIDE DEF merged
    <3>4. merged \in FullProfile
      BY <1>0, <1>2, <3>1, <3>3, FullProfileIs, FullProfileIf
    <3>5. NoneForgotten(entry, merged)
      BY <3>1, <3>3, FullProfileIs, KeysStartSame, AllSetInSame DEF NoneForgotten
    <3>6. WellOrdered(merged)
      BY <3>3 DEF WellOrdered
    <3>7. QED
      BY <3>4, <3>5, <3>6 DEF ProfileMerged, Profile, merged
  <2>3. QED
    BY <2>1, <2>2
<1>3. CASE entry # None /\ ~IsShort(payload) /\ IsShort(entry)
  <2>1. merged = [payload EXCEPT !.priority = None]
    BY <1>3 DEF MergeProfile
  <2>2. merged \in FullProfile /\ merged.priority = None
    BY <1>0, <1>3, <2>1 DEF FullProfile
  <2>3. NoneForgotten(entry, merged)
    BY <1>3 DEF NoneForgotten
  <2>4. QED
    BY <2>2, <2>3 DEF ProfileMerged, WellOrdered, Profile
<1>4. CASE entry # None /\ ~IsShort(payload) /\ ~IsShort(entry)
  <2> DEFINE d == IF entry.defaults = None \/ payload.defaults = None THEN entry.defaults
                  ELSE MergeVariables(entry.defaults, payload.defaults)
             m == IF entry.providers = None THEN None
                  ELSE MergeProviders(entry, payload).providers
  <2>1. entry \in FullProfile /\ payload \in FullProfile
    BY <1>0, <1>4, ProfileForm
  <2>2. merged = [source |-> payload.source, priority |-> entry.priority, defaults |-> d,
                  providers |-> m]
    BY <1>4 DEF MergeProfile
  <2>3. /\ m \in Ordered(Providers, Settings) \cup {None}
        /\ Starts(Keys(entry.providers), Keys(m))
        /\ \A t \in Providers : Has(entry.providers, t) => Has(m, t)
    <3>1. CASE entry.providers = None
      BY <3>1, KeysStartSame DEF Has
    <3>2. CASE entry.providers # None
      <4>1. entry.providers \in Ordered(Providers, Settings)
        BY <2>1, <3>2, FullProfileIs
      <4>2. m \in Ordered(Providers, Settings) /\ Starts(entry.providers.keys, m.keys)
        BY <2>1, <3>2, <4>1, ProvidersMerged
      <4> HIDE DEF m
      <4>3. \A t \in Providers : Has(entry.providers, t) => Has(m, t)
        BY <4>1, <4>2, StartsHas, NoneAssumption DEF Has
      <4>4. QED
        BY <3>2, <4>1, <4>2, <4>3, NoneAssumption DEF Keys
    <3>3. QED
      BY <3>1, <3>2
  <2>4. d \in Defaults \cup {None}
        /\ AllSetIn(NormalizeUsecaseDefaults(entry.defaults), NormalizeUsecaseDefaults(d))
    <3>0. entry.defaults \in Defaults \cup {None} /\ payload.defaults \in Defaults \cup {None}
      BY <2>1, FullProfileIs
    <3>1. CASE entry.defaults = None \/ payload.defaults = None
      BY <3>0, <3>1, AllSetInSame
    <3>2. CASE ~(entry.defaults = None \/ payload.defaults = None)
      BY <3>0, <3>2, AllSetInMerged, MergeVariablesIs
    <3>3. QED
      BY <3>1, <3>2
  <2> HIDE DEF d, m, merged
  <2>5. merged \in FullProfile
    BY <2>1, <2>2, <2>3, <2>4, FullProfileIs, FullProfileIf
  <2>6. NoneForgotten(entry, merged)
    BY <2>2, <2>3, <2>4 DEF NoneForgotten
  <2>7. ASSUME WellOrdered(entry)
        PROVE  WellOrdered(merged)
    <3>1. ExplicitOrder(merged) = ExplicitOrder(entry)
      BY <2>1, <2>2, <2>5, ExplicitIs
    <3>2. ExplicitOrder(entry) \in Seq(Providers)
      BY <2>1, ExplicitIs DEF Profile
    <3>3. \A t \in Providers : Configures(entry, t) => Configures(merged, t)
      BY <2>2, <2>3, <2>5, ProfileForm DEF Configures, Profile
    <3>4. QED
      BY <2>1, <2>5, <2>7, <3>1, <3>2, <3>3, WellOrderedIs DEF Profile
  <2>8. QED
    BY <2>5, <2>6, <2>7 DEF ProfileMerged, Profile, merged
<1>5. QED
  BY <1>1, <1>2, <1>3, <1>4

(* The profile without the provider: the order is kept, for the provider   *)
(* to be set again, or loses the name.                                     *)
ProviderDeleted(entry, s, overwritten, ensured) ==
  /\ ensured \in FullProfile
  /\ \A t \in Providers : Configures(ensured, t) <=> t # s /\ Configures(entry, t)
  /\ overwritten => ExplicitOrder(ensured) = ExplicitOrder(entry)
  /\ WellOrdered(entry) /\ overwritten => OrderedBut(ensured, s)
  /\ WellOrdered(entry) /\ ~overwritten => WellOrdered(ensured)

(* The deletion in setProfileProvider.                                     *)
LEMMA ProviderIsDeleted ==
  ASSUME NEW entry \in FullProfile, NEW s \in Providers, Has(entry.providers, s),
         NEW overwritten \in BOOLEAN
  PROVE  ProviderDeleted(entry, s, overwritten, DeleteProfileProvider(entry, s, overwritten))
<1> DEFINE d == Delete(entry.providers, s)
           o == ExplicitOrder(entry)
           r == RemoveFirst(entry.priority, s)
           p == IF overwritten \/ entry.priority = None THEN entry.priority
                ELSE IF r = <<>> THEN None ELSE r
           ensured == DeleteProfileProvider(entry, s, overwritten)
<1>1. entry.providers \in Ordered(Providers, Settings) /\ entry.providers.at[s] # None
      /\ entry.providers # None
  BY FullProfileIs DEF Has
<1>2. Deletes(Providers, Settings, entry.providers, s, d)
  BY <1>1, DeleteIsOrdered, NoneAssumption
<1>3. ensured = [source |-> entry.source, priority |-> p, defaults |-> entry.defaults,
                 providers |-> d]
  <2>1. ensured = [entry EXCEPT !.providers = d, !.priority = p]
    BY DEF DeleteProfileProvider
  <2> HIDE DEF d, p
  <2>2. QED
    BY <2>1, ProfileReplaced
<1>4. d \in Ordered(Providers, Settings) \cup {None}
  BY <1>2 DEF Deletes
<1>5. o \in Seq(Providers) /\ o = IF entry.priority = None THEN <<>> ELSE entry.priority
  BY ExplicitIs DEF Profile
<1>6. entry.priority # None => Without(Providers, o, s, r)
  <2>1. CASE entry.priority = None
    BY <2>1
  <2>2. CASE entry.priority # None
    <3>1. o = entry.priority
      BY <1>5, <2>2
    <3> HIDE DEF o
    <3>2. QED
      BY <1>5, <3>1, RemovedIs
  <2>3. QED
    BY <2>1, <2>2
<1> HIDE DEF o, r
<1>7. p \in Seq(Providers) \cup {None}
  BY <1>6, FullProfileIs DEF Without
<1> HIDE DEF ensured, d, p
<1>8. ensured \in FullProfile /\ ensured.priority = p /\ ensured.providers = d
  BY <1>3, <1>4, <1>7, FullProfileIs, FullProfileIf
<1>9. ensured \in Profile /\ ensured # None /\ ~IsShort(ensured)
      /\ entry \in Profile /\ entry # None /\ ~IsShort(entry)
  BY <1>8, ProfileForm DEF Profile
<1>10. \A t \in Providers : Configures(ensured, t) <=> t # s /\ Configures(entry, t)
  <2>1. \A t \in Providers : Configures(entry, t) <=> entry.providers.at[t] # None
    BY <1>1, <1>9 DEF Configures, Has
  <2>2. CASE d = None
    <3>1. \A t \in Providers : entry.providers.at[t] # None => t = s
      BY <1>2, <2>2, NoneAssumption DEF Deletes
    <3>2. \A t : ~Configures(ensured, t)
      BY <1>8, <2>2 DEF Configures, Has
    <3>3. QED
      BY <2>1, <3>1, <3>2
  <2>3. CASE d # None
    <3>1. d.at = [entry.providers.at EXCEPT ![s] = None]
      BY <1>2, <2>3 DEF Deletes
    <3>2. entry.providers.at \in [Providers -> Settings \cup {None}]
      BY <1>1, OrderedIs
    <3>3. \A t \in Providers : d.at[t] # None <=> t # s /\ entry.providers.at[t] # None
      BY <3>1, <3>2
    <3>4. \A t \in Providers : Configures(ensured, t) <=> d.at[t] # None
      BY <1>8, <1>9, <2>3 DEF Configures, Has
    <3>5. QED
      BY <2>1, <3>3, <3>4
  <2>4. QED
    BY <2>2, <2>3
<1>11. overwritten => ExplicitOrder(ensured) = o
  BY <1>5, <1>8, ExplicitIs DEF p
<1>12. ASSUME WellOrdered(entry), overwritten
       PROVE  OrderedBut(ensured, s)
  <2>1. IsInjective(o) /\ \A i \in 1..Len(o) : Configures(entry, o[i])
    BY <1>9, <1>12, WellOrderedIs DEF o
  <2>2. \A i \in 1..Len(o) : o[i] \in Providers
    BY <1>5
  <2>3. \A i \in 1..Len(o) : o[i] = s \/ Configures(ensured, o[i])
    BY <1>10, <2>1, <2>2
  <2>4. QED
    BY <1>11, <1>12, <2>1, <2>3 DEF OrderedBut
<1>13. ASSUME WellOrdered(entry), ~overwritten
       PROVE  WellOrdered(ensured)
  <2>1. IsInjective(o) /\ \A i \in 1..Len(o) : Configures(entry, o[i])
    BY <1>9, <1>13, WellOrderedIs DEF o
  <2>2. CASE p = None
    BY <1>8, <2>2 DEF WellOrdered
  <2>3. CASE p # None
    <3>1. p = r /\ entry.priority # None
      BY <1>13, <2>3 DEF p
    <3>2. Without(Providers, o, s, r)
      BY <1>6, <3>1
    <3>3. r \in Seq(Providers) /\ IsInjective(r)
          /\ \A i \in 1..Len(r) : r[i] # s /\ \E j \in 1..Len(o) : o[j] = r[i]
      BY <2>1, <3>2 DEF Without
    <3>4. \A i \in 1..Len(r) : r[i] \in Providers /\ r[i] # s /\ Configures(entry, r[i])
      BY <2>1, <3>3
    <3>5. \A i \in 1..Len(r) : Configures(ensured, r[i])
      BY <1>10, <3>4
    <3>6. ExplicitOrder(ensured) = r
      BY <1>8, <2>3, <3>1, ExplicitIs
    <3>7. QED
      BY <1>9, <3>3, <3>5, <3>6, WellOrderedIs
  <2>4. QED
    BY <2>2, <2>3
<1>14. QED
  BY <1>8, <1>10, <1>11, <1>12, <1>13 DEF ProviderDeleted, ensured, o

ProviderSet(entry, payload, result) ==
  /\ result.changed \in BOOLEAN
  /\ result.value \in Profile \cup {None}
  /\ payload # None => Starts(ExplicitOrder(entry), ExplicitOrder(result.value))
  /\ ~result.changed => result.value = entry
  /\ WellOrdered(entry) => WellOrdered(result.value)

(* setProfileProvider: deleted, then merged or not.                        *)
LEMMA ProviderIsSet ==
  ASSUME NEW entry \in Profile \cup {None}, NEW s \in Providers, NEW payload \in Settings \cup {None}
  PROVE  ProviderSet(entry, payload, SetProfileProvider(entry, s, payload))
<1> DEFINE present == entry # None /\ ~IsShort(entry) /\ Has(entry.providers, s)
           overwritten == payload # None
           ensured == IF present THEN DeleteProfileProvider(entry, s, overwritten) ELSE entry
           merged  == MergeProfileProvider(ensured, s, payload)
           result  == SetProfileProvider(entry, s, payload)
<1>1. result = IF payload = None THEN Result(ensured, present)
               ELSE Result(merged.value, present \/ merged.changed)
  BY DEF SetProfileProvider
<1>2. present <=> Configures(entry, s)
  BY DEF Configures
<1>3. present => ProviderDeleted(entry, s, overwritten, ensured)
  <2>1. CASE present
    <3>1. entry \in FullProfile /\ Has(entry.providers, s) /\ overwritten \in BOOLEAN
      BY <2>1, ProfileForm
    <3>2. ProviderDeleted(entry, s, overwritten, DeleteProfileProvider(entry, s, overwritten))
      BY <3>1, ProviderIsDeleted, Zenon
    <3>3. QED
      BY <2>1, <3>2
  <2>2. QED
    BY <2>1
<1>4. ~present => ensured = entry
  OBVIOUS
<1>5. present \in BOOLEAN /\ overwritten \in BOOLEAN
  OBVIOUS
<1> HIDE DEF ensured, present, overwritten
<1>6. ensured \in Profile \cup {None}
  BY <1>3, <1>4 DEF ProviderDeleted, Profile
<1>7. CASE payload = None
  <2>1. result.value = ensured /\ result.changed = present
    BY <1>1, <1>7 DEF Result
  <2>2. ~overwritten
    BY <1>7 DEF overwritten
  <2> HIDE DEF result
  <2>3. QED
    BY <1>3, <1>4, <1>5, <1>6, <1>7, <2>1, <2>2 DEF ProviderSet, ProviderDeleted, result
<1>8. CASE payload # None
  <2>1. result.value = merged.value /\ result.changed = (present \/ merged.changed) /\ overwritten
    BY <1>1, <1>8 DEF Result, overwritten
  <2>2. ProviderMerged(ensured, EnsureProfileWithProviders(ensured), s, merged)
    BY <1>6, <1>8, ProviderIsMerged
  <2> HIDE DEF merged, result
  <2>3. merged.changed = TRUE
    <3>1. ~Configures(ensured, s)
      BY <1>2, <1>3, <1>4 DEF ProviderDeleted
    <3>2. QED
      BY <2>2, <3>1 DEF ProviderMerged
  <2>4. ExplicitOrder(ensured) = ExplicitOrder(entry)
    BY <1>3, <1>4, <2>1 DEF ProviderDeleted
  <2>5. WellOrdered(entry) => OrderedBut(ensured, s)
    BY <1>3, <1>4, <2>1, WellOrderedBut DEF ProviderDeleted
  <2>6. WellOrdered(entry) => WellOrdered(merged.value)
    BY <2>2, <2>3, <2>5 DEF ProviderMerged
  <2>7. merged.value \in Profile /\ Starts(ExplicitOrder(ensured), ExplicitOrder(merged.value))
    BY <2>2 DEF ProviderMerged, Profile
  <2>8. result.changed = TRUE
    BY <2>1, <2>3
  <2>9. QED
    BY <2>1, <2>4, <2>6, <2>7, <2>8 DEF ProviderSet, result
<1>9. QED
  BY <1>7, <1>8

(* The map of a provider is swapped: its defaults stay.                    *)
DefaultsOf(e) ==
  IF e = None \/ IsShort(e) THEN NoDefaults
  ELSE IF e.defaults = None THEN NoDefaults ELSE e.defaults

SettingsSwapped(old, result) ==
  /\ result.value \in Settings /\ result.changed \in BOOLEAN
  /\ DefaultsOf(result.value) = DefaultsOf(old)
  /\ ~result.changed => old # None

LEMMA NoDefaultsIf ==
  ASSUME NEW d \in Defaults \cup {None}, IsEmptyRecord(d), d # None
  PROVE  d = NoDefaults
BY DEF IsEmptyRecord, Defaults, NoDefaults, Empty

LEMMA DefaultsOfIs ==
  /\ DefaultsOf(None) = NoDefaults
  /\ \A e \in [short : Files] : DefaultsOf(e) = NoDefaults
  /\ \A e \in FullSettings :
       DefaultsOf(e) = IF e.defaults = None THEN NoDefaults ELSE e.defaults
BY SettingsForm DEF DefaultsOf, Settings

(* A provider swapped to a file, or to a remote map, keeps its defaults.   *)
LEMMA SwappedToLocal ==
  ASSUME NEW old \in Settings \cup {None}, NEW file \in Files
  PROVE  SettingsSwapped(old, SwapToLocal(old, file))
<1> DEFINE result == SwapToLocal(old, file)
<1>0. Short(file) \in [short : Files] /\ Short(file) \in Settings
  BY ShortIf DEF Settings
<1>1. CASE IsShort(old)
  <2>1. result.value = Short(file) /\ result.changed = (file = old.short)
    BY <1>1 DEF SwapToLocal, Result
  <2> HIDE DEF result
  <2>2. old # None /\ old \in [short : Files]
    BY <1>1, SettingsForm DEF IsShort
  <2>3. QED
    BY <1>0, <2>1, <2>2, DefaultsOfIs DEF SettingsSwapped, result
<1>2. CASE old = None
  <2>1. result.value = Short(file) /\ result.changed = TRUE
    BY <1>2 DEF SwapToLocal, Result, IsShort
  <2> HIDE DEF result
  <2>2. QED
    BY <1>0, <1>2, <2>1, DefaultsOfIs DEF SettingsSwapped, result
<1>3. CASE ~IsShort(old) /\ old # None
  <2> DEFINE value == IF IsEmptyRecord(old.defaults) THEN Short(file)
                      ELSE [EmptySettings EXCEPT !.file = file, !.defaults = old.defaults]
  <2>1. result.value = value /\ result.changed = (old.file # file)
    BY <1>3 DEF SwapToLocal, Result
  <2>2. old \in FullSettings /\ old.defaults \in Defaults \cup {None}
    BY <1>3, SettingsForm, FullSettingsIs
  <2>3. value \in Settings /\ DefaultsOf(value) = DefaultsOf(old)
    <3>1. CASE IsEmptyRecord(old.defaults)
      <4>1. value = Short(file)
        BY <3>1
      <4>2. DefaultsOf(old) = NoDefaults
        BY <2>2, <3>1, NoDefaultsIf, DefaultsOfIs
      <4>3. QED
        BY <1>0, <4>1, <4>2, DefaultsOfIs
    <3>2. CASE ~IsEmptyRecord(old.defaults)
      <4>1. value = [file |-> file, variant |-> None, revision |-> None, defaults |-> old.defaults]
        BY <3>2 DEF EmptySettings
      <4> HIDE DEF value
      <4>2. value \in FullSettings
        BY <2>2, <4>1, FullSettingsIf
      <4>3. QED
        BY <2>2, <4>1, <4>2, DefaultsOfIs DEF Settings
    <3>3. QED
      BY <3>1, <3>2
  <2> HIDE DEF result, value
  <2>4. QED
    BY <1>3, <2>1, <2>3 DEF SettingsSwapped, result
<1>4. QED
  BY <1>1, <1>2, <1>3

LEMMA SwappedToRemote ==
  ASSUME NEW old \in Settings \cup {None}, NEW map \in Maps
  PROVE  SettingsSwapped(old, SwapToRemote(old, map))
<1> DEFINE settings == IF old = None \/ IsShort(old) THEN EmptySettings ELSE old
           isRemote == old # None /\ ~IsShort(old) /\ old.file = None
           result   == SwapToRemote(old, map)
           value    == [file |-> None, variant |-> map.variant, revision |-> map.revision,
                        defaults |-> settings.defaults]
<1>1. /\ result.value = value
      /\ result.changed = (isRemote => <<old.variant, old.revision>> # <<map.variant, map.revision>>)
  BY DEF SwapToRemote, Result
<1>2. settings \in FullSettings
  BY SettingsForm, EmptyForms
<1>3. map.variant \in Names \cup {None} /\ map.revision \in Names \cup {None}
  BY SuperJsonAssumption
<1>4. DefaultsOf(settings) = DefaultsOf(old)
  BY SettingsForm, EmptyForms, DefaultsOfIs
<1>5. ~result.changed => old # None
  BY <1>1
<1>6. result.changed \in BOOLEAN
  BY <1>1
<1> HIDE DEF settings
<1>7. value \in FullSettings
  BY <1>2, <1>3, FullSettingsIs, FullSettingsIf
<1>8. DefaultsOf(value) = DefaultsOf(settings)
  BY <1>2, <1>7, DefaultsOfIs
<1> HIDE DEF result, value
<1>9. QED
  BY <1>1, <1>4, <1>5, <1>6, <1>7, <1>8 DEF SettingsSwapped, Settings, result

VariantSwapped(entry, result) ==
  /\ result.changed \in BOOLEAN
  /\ result.value \in FullProfile
  /\ ExplicitOrder(result.value) = ExplicitOrder(entry)
  /\ \A t \in Providers : OwnDefaults(result.value, t) = OwnDefaults(entry, t)
  /\ ~result.changed => result.value = entry
  /\ WellOrdered(entry) => WellOrdered(result.value)

LEMMA OwnDefaultsIs ==
  /\ \A e, t : e = None \/ IsShort(e) => OwnDefaults(e, t) = NoDefaults
  /\ \A e \in FullProfile, t \in Providers :
       OwnDefaults(e, t) = IF e.providers = None THEN NoDefaults ELSE DefaultsOf(e.providers.at[t])
<1>1. \A e, t : e = None \/ IsShort(e) => OwnDefaults(e, t) = NoDefaults
  BY DEF OwnDefaults
<1>2. ASSUME NEW e \in FullProfile, NEW t \in Providers
      PROVE  OwnDefaults(e, t)
               = IF e.providers = None THEN NoDefaults ELSE DefaultsOf(e.providers.at[t])
  <2>1. e # None /\ ~IsShort(e)
    BY ProfileForm DEF Profile
  <2>2. QED
    BY <2>1 DEF OwnDefaults, DefaultsOf, Get
<1>3. QED
  BY <1>1, <1>2

(* swapProfileProviderVariant.                                             *)
LEMMA VariantIsSwapped ==
  ASSUME NEW entry \in Profile \cup {None}, NEW s \in Providers, NEW variant \in Files \cup Maps
  PROVE  VariantSwapped(entry, SwapProfileProviderVariant(entry, s, variant))
<1> DEFINE ensured == EnsureProfileWithProviders(entry)
           old     == Get(ensured.providers, s)
           swapped == IF variant \in Files THEN SwapToLocal(old, variant)
                      ELSE SwapToRemote(old, variant)
           result  == SwapProfileProviderVariant(entry, s, variant)
<1>1. result = IF swapped.changed
               THEN Result([ensured EXCEPT !.providers = Put(@, s, swapped.value)], TRUE)
               ELSE Result(ensured, FALSE)
  BY DEF SwapProfileProviderVariant
<1>2. Ensured(entry, ensured)
  BY ProfileEnsured
<1> HIDE DEF ensured
<1>3. ensured \in FullProfile /\ ensured.providers \in Ordered(Providers, Settings)
      /\ ensured.providers # None
  BY <1>2, NoneAssumption DEF Ensured
<1>4. old = ensured.providers.at[s] /\ old \in Settings \cup {None}
  BY <1>3, OrderedIs DEF Get
<1> HIDE DEF old
<1>5. SettingsSwapped(old, swapped)
  BY <1>4, SwappedToLocal, SwappedToRemote
<1> HIDE DEF swapped, result
<1>6. \A t \in Providers : OwnDefaults(ensured, t) = OwnDefaults(entry, t)
  <2>1. CASE ensured = entry
    BY <2>1
  <2>2. CASE /\ entry = None \/ IsShort(entry) \/ entry.providers = None
             /\ ensured.providers = NoProviders
    <3>1. \A t \in Providers : OwnDefaults(ensured, t) = NoDefaults
      BY <1>3, <2>2, OwnDefaultsIs, EmptyForms, DefaultsOfIs
    <3>2. \A t \in Providers : OwnDefaults(entry, t) = NoDefaults
      BY <2>2, OwnDefaultsIs, ProfileForm
    <3>3. QED
      BY <3>1, <3>2
  <2>3. QED
    BY <1>2, <2>1, <2>2 DEF Ensured
<1>7. WellOrdered(entry) => WellOrdered(ensured)
  <2>1. ensured \in Profile
    BY <1>3 DEF Profile
  <2>2. CASE ensured = entry
    BY <2>2
  <2>3. CASE entry = None \/ IsShort(entry) \/ entry.providers = None
    <3>1. \A t : ~Configures(entry, t)
      BY <2>3 DEF Configures, Has
    <3>2. WellOrdered(entry) => 1..Len(ExplicitOrder(entry)) = {} /\ IsInjective(ExplicitOrder(entry))
      BY <3>1, WellOrderedIs
    <3>3. ExplicitOrder(ensured) = ExplicitOrder(entry)
      BY <1>2 DEF Ensured
    <3>4. QED
      BY <2>1, <3>2, <3>3, WellOrderedIs
  <2>4. QED
    BY <1>2, <2>2, <2>3 DEF Ensured
<1>8. CASE ~swapped.changed
  <2>1. result.value = ensured /\ result.changed = FALSE
    BY <1>1, <1>8 DEF Result
  <2>2. old # None
    BY <1>5, <1>8 DEF SettingsSwapped
  <2>3. ensured.providers # NoProviders
    BY <1>4, <2>2, EmptyForms
  <2>4. ensured = entry
    BY <1>2, <2>3 DEF Ensured
  <2>5. QED
    BY <1>3, <2>1, <2>4 DEF VariantSwapped, result
<1>9. CASE swapped.changed
  <2> DEFINE m == Put(ensured.providers, s, swapped.value)
             value == [ensured EXCEPT !.providers = m]
  <2>1. result.value = value /\ result.changed = TRUE
    BY <1>1, <1>9 DEF Result
  <2>2. Puts(Providers, Settings, ensured.providers, s, swapped.value, m)
    BY <1>3, <1>5, PutIsOrdered, NoneAssumption DEF SettingsSwapped
  <2> HIDE DEF m
  <2>3. value = [source |-> ensured.source, priority |-> ensured.priority,
                 defaults |-> ensured.defaults, providers |-> m]
    BY <1>3, ProfileReplaced
  <2> HIDE DEF value, result
  <2>4. m \in Ordered(Providers, Settings) /\ m.at = [ensured.providers.at EXCEPT ![s] = swapped.value]
        /\ m # None /\ ensured.providers.at \in [Providers -> Settings \cup {None}]
    BY <1>3, <2>2, OrderedIs, NoneAssumption DEF Puts
  <2>5. value \in FullProfile /\ value \in Profile
    BY <1>3, <2>3, <2>4, FullProfileIs, FullProfileIf DEF Profile
  <2>6. ExplicitOrder(value) = ExplicitOrder(ensured)
    BY <1>3, <2>3, <2>5, ExplicitIs
  <2>7. ASSUME NEW t \in Providers
        PROVE  OwnDefaults(value, t) = OwnDefaults(ensured, t)
    <3>1. OwnDefaults(value, t) = DefaultsOf(m.at[t])
          /\ OwnDefaults(ensured, t) = DefaultsOf(ensured.providers.at[t])
      BY <1>3, <2>3, <2>4, <2>5, OwnDefaultsIs
    <3>2. CASE t = s
      <4>1. m.at[t] = swapped.value
        BY <2>4, <3>2
      <4>2. QED
        BY <1>4, <1>5, <3>1, <3>2, <4>1 DEF SettingsSwapped
    <3>3. CASE t # s
      <4>1. m.at[t] = ensured.providers.at[t]
        BY <2>4, <3>3
      <4>2. QED
        BY <3>1, <4>1
    <3>4. QED
      BY <3>2, <3>3
  <2>8. WellOrdered(ensured) => WellOrdered(value)
    <3>1. swapped.value # None
      BY <1>5, NoneAssumption DEF SettingsSwapped
    <3>2. \A t \in Providers : ensured.providers.at[t] # None => m.at[t] # None
      BY <2>4, <3>1
    <3>3. \A t \in Providers : Configures(ensured, t) => Configures(value, t)
      BY <1>3, <2>3, <2>4, <2>5, <3>2, ProfileForm DEF Configures, Has
    <3>4. ExplicitOrder(ensured) \in Seq(Providers) /\ ensured \in Profile
      BY <1>3, ExplicitIs DEF Profile
    <3>5. QED
      BY <2>5, <2>6, <3>3, <3>4, WellOrderedIs
  <2>9. ExplicitOrder(ensured) = ExplicitOrder(entry)
    BY <1>2 DEF Ensured
  <2>10. QED
    BY <1>6, <1>7, <2>1, <2>5, <2>6, <2>7, <2>8, <2>9 DEF VariantSwapped, result
<1>10. QED
  BY <1>5, <1>8, <1>9 DEF SettingsSwapped

-----------------------------------------------------------------------------
(* The edits of the document's providers, and of an order.                 *)

ProviderEntryMerged(entry, payload, merged) ==
  /\ merged \in Provider
  /\ entry # None /\ ~IsShort(entry) /\ ~IsShort(payload) =>
       /\ Starts(Keys(entry.security), Keys(merged.security))
       /\ FieldsIn(entry.parameters, merged.parameters)

(* mergeProvider.                                                          *)
LEMMA ProviderEntryIsMerged ==
  ASSUME NEW entry \in Provider \cup {None}, NEW payload \in Provider
  PROVE  ProviderEntryMerged(entry, payload, MergeProvider(entry, payload))
<1> DEFINE target == IF entry = None THEN EmptyProvider ELSE entry
           available == \/ IsShort(target)
                        \/ Keys(target.security) = <<>>
                        \/ IsEmptyRecord(target.parameters)
           Either(l, r, both) == IF l = None THEN r ELSE IF r = None THEN l ELSE both
           file == IF payload.file = None THEN target.file ELSE payload.file
           security == Either(target.security, payload.security,
                              PutAll(target.security, payload.security))
           parameters == Either(target.parameters, payload.parameters,
                                Over(payload.parameters, target.parameters))
           merged == MergeProvider(entry, payload)
<1>1. merged =
        IF IsShort(payload)
        THEN IF available THEN payload ELSE [target EXCEPT !.file = payload.short]
        ELSE IF IsShort(target)
        THEN [payload EXCEPT !.file = IF @ = None THEN Uri(target.short) ELSE @]
        ELSE [file |-> file, security |-> security, parameters |-> parameters]
  BY DEF MergeProvider, MergeSecurity
<1>2. target \in Provider /\ (IsShort(entry) \/ entry = None => ~(entry # None /\ ~IsShort(entry)))
      /\ (entry # None => target = entry)
  BY EmptyForms DEF Provider
<1> HIDE DEF merged, target, available
<1>3. CASE IsShort(payload)
  <2>1. payload.short \in Files
    BY <1>3, ProviderForm, ShortIs
  <2>2. CASE available
    BY <1>1, <1>3, <2>2 DEF ProviderEntryMerged, merged
  <2>3. CASE ~available
    <3>1. target \in FullProvider
      BY <1>2, <2>3, ProviderForm DEF available
    <3>2. [target EXCEPT !.file = payload.short] \in FullProvider
      BY <2>1, <3>1 DEF FullProvider
    <3>3. QED
      BY <1>1, <1>3, <2>3, <3>2 DEF ProviderEntryMerged, Provider, merged
  <2>4. QED
    BY <2>2, <2>3
<1>4. CASE ~IsShort(payload) /\ IsShort(target)
  <2>1. payload \in FullProvider /\ target.short \in Files
    BY <1>2, <1>4, ProviderForm, ShortIs
  <2>2. PICK f \in Files \cup Uris \cup {None} :
          f = IF payload.file = None THEN Uri(target.short) ELSE payload.file
    BY <2>1, EmptyForms, FullProviderIs
  <2>3. [payload EXCEPT !.file = f] \in FullProvider
    BY <2>1, <2>2 DEF FullProvider
  <2>4. merged = [payload EXCEPT !.file = f]
    BY <1>1, <1>4, <2>2
  <2>5. entry = None \/ IsShort(entry)
    BY <1>2, <1>4
  <2>6. QED
    BY <2>3, <2>4, <2>5 DEF ProviderEntryMerged, Provider, merged
<1>5. CASE ~IsShort(payload) /\ ~IsShort(target)
  <2>1. payload \in FullProvider /\ target \in FullProvider
    BY <1>2, <1>5, ProviderForm
  <2>2. merged = [file |-> file, security |-> security, parameters |-> parameters]
    BY <1>1, <1>5
  <2>3. file \in Files \cup Uris \cup {None}
    BY <2>1, FullProviderIs
  <2>4. security \in Ordered(Names, Values) \cup {None}
        /\ Starts(Keys(target.security), Keys(security))
    <3>0. target.security \in Ordered(Names, Values) \cup {None}
          /\ payload.security \in Ordered(Names, Values) \cup {None}
      BY <2>1, FullProviderIs
    <3>1. CASE target.security = None
      <4>1. security = payload.security
        BY <3>1
      <4>2. Keys(security) \in Seq(Names)
        BY <3>0, <4>1, KeysStartSame
      <4>3. Keys(target.security) = <<>>
        BY <3>1 DEF Keys
      <4>4. QED
        BY <3>0, <4>1, <4>2, <4>3, StartsEmpty
    <3>2. CASE target.security # None /\ payload.security = None
      <4>1. security = target.security
        BY <3>2
      <4>2. QED
        BY <3>0, <4>1, KeysStartSame
    <3>3. CASE target.security # None /\ payload.security # None
      <4>1. security = PutAll(target.security, payload.security)
        BY <3>3
      <4>2. security \in Ordered(Names, Values) /\ Starts(target.security.keys, security.keys)
        BY <3>0, <3>3, <4>1, PutAllIsOrdered, NoneAssumption
      <4> HIDE DEF security
      <4>3. QED
        BY <3>3, <4>2, NoneAssumption DEF Keys
    <3>4. QED
      BY <3>1, <3>2, <3>3
  <2>5. parameters \in Fields \cup {None} /\ FieldsIn(target.parameters, parameters)
    <3>0. target.parameters \in Fields \cup {None} /\ payload.parameters \in Fields \cup {None}
      BY <2>1, FullProviderIs
    <3>1. CASE target.parameters = None \/ payload.parameters = None
      BY <3>0, <3>1 DEF FieldsIn
    <3>2. CASE target.parameters # None /\ payload.parameters # None
      <4>1. parameters = Over(payload.parameters, target.parameters)
        BY <3>2
      <4> HIDE DEF parameters
      <4>2. parameters \in Fields /\ parameters # None
            /\ \A x \in Names : parameters[x] = IF payload.parameters[x] # None
                                                THEN payload.parameters[x]
                                                ELSE target.parameters[x]
        BY <3>0, <3>2, <4>1, OverIs
      <4>3. QED
        BY <4>2 DEF FieldsIn
    <3>3. QED
      BY <3>1, <3>2
  <2> HIDE DEF file, security, parameters
  <2>6. merged \in FullProvider
    BY <2>2, <2>3, <2>4, <2>5, FullProviderIf
  <2>7. merged.security = security /\ merged.parameters = parameters
    BY <2>2
  <2>8. QED
    BY <1>2, <2>4, <2>5, <2>6, <2>7 DEF ProviderEntryMerged, Provider, merged
<1>6. QED
  BY <1>3, <1>4, <1>5

ProviderVariantSwapped(entry, result) ==
  /\ result.value \in Provider /\ result.changed \in BOOLEAN
  /\ ~result.changed => entry # None /\ result.value = entry

(* swapProviderVariant.                                                    *)
LEMMA ProviderVariantIsSwapped ==
  ASSUME NEW entry \in Provider \cup {None}, NEW variant \in Files \cup {None}
  PROVE  ProviderVariantSwapped(entry, SwapProviderVariant(entry, variant))
<1> DEFINE result == SwapProviderVariant(entry, variant)
<1>1. CASE variant = None /\ (entry = None \/ IsShort(entry))
  <2>1. result.value = EmptyProvider /\ result.changed = TRUE
    BY <1>1 DEF SwapProviderVariant, Result
  <2> HIDE DEF result
  <2>2. QED
    BY <2>1, EmptyForms DEF ProviderVariantSwapped, Provider, result
<1>2. CASE variant = None /\ ~(entry = None \/ IsShort(entry))
  <2>1. result.value = [entry EXCEPT !.file = None] /\ result.changed = (entry.file # None)
    BY <1>2 DEF SwapProviderVariant, Result
  <2>2. entry \in FullProvider
    BY <1>2, ProviderForm
  <2>3. [entry EXCEPT !.file = None] \in FullProvider
        /\ (entry.file = None => [entry EXCEPT !.file = None] = entry)
    BY <2>2 DEF FullProvider
  <2> HIDE DEF result
  <2>4. QED
    BY <1>2, <2>1, <2>3 DEF ProviderVariantSwapped, Provider, result
<1>3. CASE variant # None /\ IsShort(entry)
  <2>1. result.value = Short(variant) /\ result.changed = (variant # entry.short)
    BY <1>3 DEF SwapProviderVariant, Result
  <2>2. entry # None /\ entry = Short(entry.short)
    BY <1>3, ProviderForm, ShortIs DEF IsShort
  <2>3. Short(variant) \in Provider
    BY <1>3, ShortIf DEF Provider
  <2> HIDE DEF result
  <2>4. QED
    BY <2>1, <2>2, <2>3 DEF ProviderVariantSwapped, result
<1>4. CASE variant # None /\ ~IsShort(entry) /\ (entry = None \/ Keys(entry.security) = <<>>)
  <2>1. result.value = Short(variant) /\ result.changed = TRUE
    BY <1>4 DEF SwapProviderVariant, Result
  <2>2. Short(variant) \in Provider
    BY <1>4, ShortIf DEF Provider
  <2> HIDE DEF result
  <2>3. QED
    BY <2>1, <2>2 DEF ProviderVariantSwapped, result
<1>5. CASE variant # None /\ ~IsShort(entry) /\ ~(entry = None \/ Keys(entry.security) = <<>>)
  <2>1. result.value = [entry EXCEPT !.file = variant] /\ result.changed = (variant # entry.file)
    BY <1>5 DEF SwapProviderVariant, Result
  <2>2. entry \in FullProvider /\ variant \in Files
    BY <1>5, ProviderForm
  <2>3. [entry EXCEPT !.file = variant] \in FullProvider
        /\ (entry.file = variant => [entry EXCEPT !.file = variant] = entry)
    BY <2>2 DEF FullProvider
  <2> HIDE DEF result
  <2>4. QED
    BY <1>5, <2>1, <2>3 DEF ProviderVariantSwapped, Provider, result
<1>6. QED
  BY <1>1, <1>2, <1>3, <1>4, <1>5

PrioritySet(entry, order, providers, result) ==
  /\ result.value \in Profile \cup {None}
  /\ result.answer \in {"changed", "same", "refused"}
  /\ result.answer # "changed" =>
       \/ result.value = entry
       \/ /\ entry \in [short : ProfileVersions \cup Files]
          /\ result.value = NormalizeShorthand(entry, Keys(providers))
  /\ /\ result.answer # "refused" /\ WellOrdered(entry)
     /\ order # None => IsInjective(order)
     => WellOrdered(result.value)

(* setPriority.                                                            *)
LEMMA PriorityIsSet ==
  ASSUME NEW entry \in Profile \cup {None}, NEW order \in Seq(Providers) \cup {None},
         NEW providers \in Ordered(Providers, Provider) \cup {None}
  PROVE  PrioritySet(entry, order, providers, SetPriority(entry, order, providers))
<1> DEFINE ensured == IF IsShort(entry) THEN NormalizeShorthand(entry, Keys(providers)) ELSE entry
           AllIn(m) == \A i \in DOMAIN order : Has(m, order[i])
           result == SetPriority(entry, order, providers)
<1>1. result = IF entry = None THEN Answer(None, "refused")
     ELSE IF ensured.providers = None THEN Answer(ensured, "refused")
     ELSE IF order = None THEN Answer([ensured EXCEPT !.priority = None], "changed")
     ELSE IF ~AllIn(ensured.providers) \/ providers = None THEN Answer(ensured, "refused")
     ELSE IF ~AllIn(providers) THEN Answer(ensured, "refused")
     ELSE IF order = (IF ensured.priority = None THEN <<>> ELSE ensured.priority)
     THEN Answer(ensured, "same")
     ELSE Answer([ensured EXCEPT !.priority = order], "changed")
  BY DEF SetPriority
<1>2. CASE entry = None
  <2>1. result.value = None /\ result.answer = "refused"
    BY <1>1, <1>2 DEF Answer
  <2> HIDE DEF result
  <2>2. QED
    BY <1>2, <2>1 DEF PrioritySet, result
<1>3. CASE entry # None
  <2>1. Keys(providers) \in Seq(Providers)
    BY KeysStartSame
  <2>2. ensured \in FullProfile
        /\ (\/ ensured = entry
            \/ /\ entry \in [short : ProfileVersions \cup Files]
               /\ ensured = NormalizeShorthand(entry, Keys(providers))
               /\ ensured.providers = NoProviders)
    <3>1. CASE IsShort(entry)
      <4>1. entry \in [short : ProfileVersions \cup Files]
        BY <1>3, <3>1, ProfileForm
      <4>2. QED
        BY <2>1, <3>1, <4>1, ShorthandIs
    <3>2. CASE ~IsShort(entry)
      BY <1>3, <3>2, ProfileForm
    <3>3. QED
      BY <3>1, <3>2
  <2> HIDE DEF ensured
  <2>3. CASE ensured.providers = None
    <3>1. result.value = ensured /\ result.answer = "refused"
      BY <1>1, <1>3, <2>3 DEF Answer
    <3> HIDE DEF result
    <3>2. QED
      BY <2>2, <3>1 DEF PrioritySet, Profile, result
  <2>4. CASE ensured.providers # None /\ order = None
    <3>1. result.value = [ensured EXCEPT !.priority = None] /\ result.answer = "changed"
      BY <1>1, <1>3, <2>4 DEF Answer
    <3>2. [ensured EXCEPT !.priority = None] \in FullProfile
          /\ [ensured EXCEPT !.priority = None].priority = None
      BY <2>2 DEF FullProfile
    <3> HIDE DEF result
    <3>3. QED
      BY <3>1, <3>2 DEF PrioritySet, Profile, WellOrdered, result
  <2>5. CASE /\ ensured.providers # None /\ order # None
             /\ ~AllIn(ensured.providers) \/ providers = None \/ ~AllIn(providers)
    <3>1. result.value = ensured /\ result.answer = "refused"
      BY <1>1, <1>3, <2>5 DEF Answer
    <3> HIDE DEF result
    <3>2. QED
      BY <2>2, <3>1 DEF PrioritySet, Profile, result
  <2>6. CASE /\ ensured.providers # None /\ order # None
             /\ AllIn(ensured.providers) /\ providers # None /\ AllIn(providers)
    <3> DEFINE explicit == IF ensured.priority = None THEN <<>> ELSE ensured.priority
    <3>0. order \in Seq(Providers) /\ DOMAIN order = 1..Len(order)
      BY <2>6
    <3>1. ASSUME NEW value \in FullProfile, value.providers = ensured.providers,
                 ExplicitOrder(value) = order, IsInjective(order)
          PROVE  WellOrdered(value)
      <4>1. \A i \in 1..Len(order) : Configures(value, order[i])
        BY <2>6, <3>0, <3>1, ProfileForm DEF Configures, Profile
      <4>2. QED
        BY <3>1, <4>1, WellOrderedIs DEF Profile
    <3>2. CASE order = explicit
      <4>1. result.value = ensured /\ result.answer = "same"
        BY <1>1, <1>3, <2>6, <3>2 DEF Answer
      <4>2. ExplicitOrder(ensured) = order
        BY <2>2, <3>2, ExplicitIs
      <4>3. IsInjective(order) => WellOrdered(ensured)
        BY <2>2, <3>1, <4>2
      <4> HIDE DEF result
      <4>4. QED
        BY <2>2, <2>6, <4>1, <4>3 DEF PrioritySet, Profile, result
    <3>3. CASE order # explicit
      <4> DEFINE value == [ensured EXCEPT !.priority = order]
      <4>1. result.value = value /\ result.answer = "changed"
        BY <1>1, <1>3, <2>6, <3>3 DEF Answer
      <4>2. value \in FullProfile /\ value.providers = ensured.providers /\ value.priority = order
        BY <2>2, <3>0 DEF FullProfile
      <4> HIDE DEF result, value
      <4>3. ExplicitOrder(value) = order
        BY <2>6, <4>2, ExplicitIs
      <4>4. IsInjective(order) => WellOrdered(value)
        BY <3>1, <4>2, <4>3
      <4>5. QED
        BY <2>6, <4>1, <4>2, <4>4 DEF PrioritySet, Profile, result
    <3>4. QED
      BY <3>2, <3>3
  <2>7. QED
    BY <2>3, <2>4, <2>5, <2>6
<1>4. QED
  BY <1>2, <1>3

-----------------------------------------------------------------------------
(* A call edits one profile or the providers.                              *)

(* mergeProfileDefaults leaves the order alone.                            *)
LEMMA DefaultsKeepOrder ==
  ASSUME NEW entry \in Profile \cup {None}, NEW payload \in Defaults, WellOrdered(entry)
  PROVE  WellOrdered(MergeProfileDefaults(entry, payload))
<1> DEFINE value == MergeProfileDefaults(entry, payload)
<1>1. value \in FullProfile
  BY MergeProfileDefaultsIs
<1>2. CASE entry = None \/ IsShort(entry)
  <2> DEFINE target == IF entry = None THEN Short(DefaultVersion) ELSE entry
             source == IF target.short \in ProfileVersions THEN target.short ELSE Uri(target.short)
  <2>0. IsShort(target)
    <3>1. Short(DefaultVersion) \in Profile
      BY SuperJsonAssumption, ShortIf DEF Profile
    <3>2. IsShort(Short(DefaultVersion))
      BY <3>1, SuperJsonAssumption, ShortIf, ProfileForm
    <3>3. QED
      BY <1>2, <3>2
  <2> HIDE DEF target
  <2>1. value.priority = None
    <3>1. value = [EmptyProfile(source) EXCEPT !.defaults = payload]
      BY <2>0 DEF MergeProfileDefaults, target
    <3>2. QED
      BY <3>1 DEF EmptyProfile
  <2>2. QED
    BY <2>1 DEF WellOrdered
<1>3. CASE ~(entry = None \/ IsShort(entry))
  <2>1. entry \in FullProfile
    BY <1>3, ProfileForm
  <2>2. value = [entry EXCEPT !.defaults = IF @ = None THEN payload ELSE MergeVariables(@, payload)]
    BY <1>3 DEF MergeProfileDefaults
  <2>3. value.priority = entry.priority /\ value.providers = entry.providers
    BY <2>1, <2>2 DEF FullProfile
  <2>4. QED
    BY <1>3, <2>3 DEF WellOrdered
<1>4. QED
  BY <1>2, <1>3

LEMMA PutSame ==
  ASSUME NEW K, NEW V, NEW m \in Ordered(K, V), None \notin Ordered(K, V), NEW k \in K,
         m.at[k] # None
  PROVE  Put(m, k, m.at[k]) = m
<1>1. m = [keys |-> m.keys, at |-> m.at] /\ m.at \in [K -> V \cup {None}]
  BY OrderedIs
<1>2. [m.at EXCEPT ![k] = m.at[k]] = m.at
  BY <1>1
<1>3. QED
  BY <1>1, <1>2 DEF Put, Has

PayloadsOrdered ==
  /\ \A e \in ProfilePayloads : WellOrdered(e)
  /\ \A order \in Orders : IsInjective(order)

ProfileEdited(p, v) ==
  /\ v \in Profile \cup {None}
  /\ doc' = [doc EXCEPT !.profiles[p] = v]
  /\ answer' # "changed" =>
       \/ v = doc.profiles[p]
       \/ /\ doc.profiles[p] \in [short : ProfileVersions \cup Files]
          /\ v = NormalizeShorthand(doc.profiles[p], Keys(doc.providers))
  /\ answer' # "refused" /\ WellOrdered(doc.profiles[p]) /\ PayloadsOrdered => WellOrdered(v)

ProvidersEdited(m) ==
  /\ m \in Ordered(Providers, Provider) \cup {None}
  /\ doc' = [doc EXCEPT !.providers = m]
  /\ answer' # "changed" => m = doc.providers

LEMMA DocumentIs ==
  ASSUME doc \in Document
  PROVE  /\ doc = [profiles |-> doc.profiles, providers |-> doc.providers]
         /\ doc.profiles \in [Profiles -> Profile \cup {None}]
         /\ \A p \in Profiles : doc.profiles[p] \in Profile \cup {None}
         /\ doc.providers \in Ordered(Providers, Provider) \cup {None}
         /\ \A s \in Providers : Get(doc.providers, s) \in Provider \cup {None}
<1>1. /\ doc = [profiles |-> doc.profiles, providers |-> doc.providers]
      /\ doc.profiles \in [Profiles -> Profile \cup {None}]
      /\ doc.providers \in Ordered(Providers, Provider) \cup {None}
  BY DEF Document
<1>2. \A s \in Providers : Get(doc.providers, s) \in Provider \cup {None}
  BY <1>1, OrderedIs DEF Get
<1>3. QED
  BY <1>1, <1>2

LEMMA ProfileIsEdited ==
  ASSUME doc \in Document, NEW p \in Profiles, NEW result, EditProfile(p, result),
         result.value \in Profile \cup {None}, result.changed \in BOOLEAN,
         ~result.changed => result.value = doc.profiles[p],
         WellOrdered(doc.profiles[p]) /\ PayloadsOrdered => WellOrdered(result.value)
  PROVE  ProfileEdited(p, result.value) /\ answer' \in {"changed", "same", "refused"}
BY DEF EditProfile, ProfileEdited

LEMMA ProvidersAreEdited ==
  ASSUME doc \in Document, NEW s \in Providers, NEW result, EditProvider(s, result),
         result.value \in Provider, result.changed \in BOOLEAN,
         ~result.changed => Get(doc.providers, s) # None /\ result.value = Get(doc.providers, s)
  PROVE  (\E m : ProvidersEdited(m)) /\ answer' \in {"changed", "same", "refused"}
<1> DEFINE providers == OrEmpty(doc.providers)
           m == Put(providers, s, result.value)
<1>1. providers \in Ordered(Providers, Provider)
  BY DocumentIs, EmptyIsOrdered DEF OrEmpty, NoProviders
<1> HIDE DEF providers
<1>2. m \in Ordered(Providers, Provider)
  BY <1>1, PutIsOrdered, NoneAssumption DEF Puts
<1>3. doc' = [doc EXCEPT !.providers = m]
  BY DEF EditProvider, providers
<1>4. ASSUME ~result.changed
      PROVE  m = doc.providers
  <2>1. doc.providers # None /\ doc.providers.at[s] # None /\ result.value = doc.providers.at[s]
    BY <1>4 DEF Get
  <2>2. providers = doc.providers
    BY <2>1 DEF providers, OrEmpty
  <2>3. QED
    BY <1>1, <2>1, <2>2, PutSame, NoneAssumption
<1>5. answer' = IF result.changed THEN "changed" ELSE "same"
  BY DEF EditProvider
<1> HIDE DEF m
<1>6. ProvidersEdited(m)
  BY <1>2, <1>3, <1>4, <1>5 DEF ProvidersEdited
<1>7. QED
  BY <1>5, <1>6

Edited ==
  /\ answer' \in {"changed", "same", "refused"}
  /\ \/ \E p \in Profiles : \E v : ProfileEdited(p, v)
     \/ \E m : ProvidersEdited(m)

(* The calls on a profile, on a provider of a profile, and on a provider.  *)
LEMMA ProfileStepEdits ==
  ASSUME doc \in Document, NEW p \in Profiles,
         mergeProfileDefaults(p) \/ mergeProfile(p) \/ setProfile(p) \/ setPriority(p)
  PROVE  Edited
<1> DEFINE e == doc.profiles[p]
<1>0. e \in Profile \cup {None} /\ doc.providers \in Ordered(Providers, Provider) \cup {None}
  BY DocumentIs
<1>1. CASE mergeProfileDefaults(p)
  <2>1. PICK payload \in DefaultsPayloads : EditProfile(p, Result(MergeProfileDefaults(e, payload), TRUE))
    BY <1>1 DEF mergeProfileDefaults
  <2> DEFINE result == Result(MergeProfileDefaults(e, payload), TRUE)
  <2>2. result.value = MergeProfileDefaults(e, payload) /\ result.changed = TRUE
    BY DEF Result
  <2> HIDE DEF result
  <2>0. payload \in Defaults
    BY SuperJsonAssumption
  <2>3. result.value \in Profile
    BY <1>0, <2>0, <2>2, MergeProfileDefaultsIs DEF Profile
  <2>4. WellOrdered(e) => WellOrdered(result.value)
    BY <1>0, <2>0, <2>2, DefaultsKeepOrder
  <2>5. ProfileEdited(p, result.value) /\ answer' \in {"changed", "same", "refused"}
    BY <2>1, <2>2, <2>3, <2>4, ProfileIsEdited DEF result
  <2>6. QED
    BY <2>5 DEF Edited
<1>2. CASE mergeProfile(p)
  <2>1. PICK payload \in ProfilePayloads : EditProfile(p, Result(MergeProfile(e, payload), TRUE))
    BY <1>2 DEF mergeProfile
  <2> DEFINE result == Result(MergeProfile(e, payload), TRUE)
  <2>2. result.value = MergeProfile(e, payload) /\ result.changed = TRUE
    BY DEF Result
  <2>3. ProfileMerged(e, payload, result.value)
    BY <1>0, <2>2, ProfileIsMerged, SuperJsonAssumption
  <2> HIDE DEF result
  <2>4. result.value \in Profile
        /\ (WellOrdered(e) /\ PayloadsOrdered => WellOrdered(result.value))
    BY <2>3 DEF ProfileMerged, PayloadsOrdered
  <2>5. ProfileEdited(p, result.value) /\ answer' \in {"changed", "same", "refused"}
    BY <2>1, <2>2, <2>4, ProfileIsEdited DEF result
  <2>6. QED
    BY <2>5 DEF Edited
<1>3. CASE setProfile(p)
  <2>1. PICK payload \in ProfilePayloads \cup {None} : EditProfile(p, SetProfile(e, payload))
    BY <1>3 DEF setProfile
  <2> DEFINE result == SetProfile(e, payload)
  <2>2. CASE payload = None
    <3>1. result.value = None /\ result.changed = (e # None)
      BY <2>2 DEF SetProfile, Result
    <3>2. WellOrdered(None)
      BY DEF WellOrdered
    <3> HIDE DEF result
    <3>3. ProfileEdited(p, result.value) /\ answer' \in {"changed", "same", "refused"}
      BY <2>1, <3>1, <3>2, ProfileIsEdited DEF result
    <3>4. QED
      BY <3>3 DEF Edited
  <2>3. CASE payload # None
    <3>1. result.value = payload /\ result.changed = TRUE
      BY <2>3 DEF SetProfile, MergeProfile, Result
    <3>2. payload \in Profile /\ (PayloadsOrdered => WellOrdered(payload))
      BY <2>3, SuperJsonAssumption DEF PayloadsOrdered
    <3> HIDE DEF result
    <3>3. ProfileEdited(p, result.value) /\ answer' \in {"changed", "same", "refused"}
      BY <2>1, <3>1, <3>2, ProfileIsEdited DEF result
    <3>4. QED
      BY <3>3 DEF Edited
  <2>4. QED
    BY <2>2, <2>3
<1>4. CASE setPriority(p)
  <2>1. PICK order \in Orders \cup {None} :
          LET result == SetPriority(e, order, doc.providers)
          IN /\ Calls
             /\ doc' = [doc EXCEPT !.profiles[p] = result.value]
             /\ answer' = result.answer
    BY <1>4 DEF setPriority
  <2> DEFINE result == SetPriority(e, order, doc.providers)
  <2>2. doc' = [doc EXCEPT !.profiles[p] = result.value] /\ answer' = result.answer
    BY <2>1
  <2>3. PrioritySet(e, order, doc.providers, result)
    BY <1>0, PriorityIsSet, SuperJsonAssumption
  <2>4. PayloadsOrdered => (order # None => IsInjective(order))
    BY DEF PayloadsOrdered
  <2> HIDE DEF result
  <2>5. ProfileEdited(p, result.value)
    BY <2>2, <2>3, <2>4 DEF ProfileEdited, PrioritySet
  <2>6. QED
    BY <2>2, <2>3, <2>5 DEF Edited, PrioritySet
<1>5. QED
  BY <1>1, <1>2, <1>3, <1>4

LEMMA ProfileProviderStepEdits ==
  ASSUME doc \in Document, NEW p \in Profiles, NEW s \in Providers,
         mergeProfileProvider(p, s) \/ setProfileProvider(p, s) \/ swapProfileProviderVariant(p, s)
  PROVE  Edited
<1> DEFINE e == doc.profiles[p]
<1>0. e \in Profile \cup {None}
  BY DocumentIs
<1>1. CASE mergeProfileProvider(p, s)
  <2>1. PICK payload \in SettingsPayloads : EditProfile(p, MergeProfileProvider(e, s, payload))
    BY <1>1 DEF mergeProfileProvider
  <2> DEFINE result == MergeProfileProvider(e, s, payload)
  <2>2. ProviderMerged(e, EnsureProfileWithProviders(e), s, result)
    BY <1>0, ProviderIsMerged, SuperJsonAssumption
  <2> HIDE DEF result
  <2>3. result.value \in Profile /\ result.changed \in BOOLEAN /\ (~result.changed => result.value = e)
    BY <2>2 DEF ProviderMerged, Profile
  <2>4. WellOrdered(e) => WellOrdered(result.value)
    BY <1>0, <2>2, <2>3, WellOrderedBut DEF ProviderMerged
  <2>5. ProfileEdited(p, result.value) /\ answer' \in {"changed", "same", "refused"}
    BY <2>1, <2>3, <2>4, ProfileIsEdited DEF result
  <2>6. QED
    BY <2>5 DEF Edited
<1>2. CASE setProfileProvider(p, s)
  <2>1. PICK payload \in SettingsPayloads \cup {None} : EditProfile(p, SetProfileProvider(e, s, payload))
    BY <1>2 DEF setProfileProvider
  <2> DEFINE result == SetProfileProvider(e, s, payload)
  <2>2. ProviderSet(e, payload, result)
    BY <1>0, ProviderIsSet, SuperJsonAssumption
  <2> HIDE DEF result
  <2>3. ProfileEdited(p, result.value) /\ answer' \in {"changed", "same", "refused"}
    BY <2>1, <2>2, ProfileIsEdited DEF result, ProviderSet
  <2>4. QED
    BY <2>3 DEF Edited
<1>3. CASE swapProfileProviderVariant(p, s)
  <2>1. PICK variant \in Files \cup Maps : EditProfile(p, SwapProfileProviderVariant(e, s, variant))
    BY <1>3 DEF swapProfileProviderVariant
  <2> DEFINE result == SwapProfileProviderVariant(e, s, variant)
  <2>2. VariantSwapped(e, result)
    BY <1>0, VariantIsSwapped
  <2> HIDE DEF result
  <2>3. ProfileEdited(p, result.value) /\ answer' \in {"changed", "same", "refused"}
    BY <2>1, <2>2, ProfileIsEdited DEF result, VariantSwapped, Profile
  <2>4. QED
    BY <2>3 DEF Edited
<1>4. QED
  BY <1>1, <1>2, <1>3

LEMMA ProviderStepEdits ==
  ASSUME doc \in Document, NEW s \in Providers,
         mergeProvider(s) \/ setProvider(s) \/ swapProviderVariant(s)
  PROVE  Edited
<1> DEFINE e == Get(doc.providers, s)
<1>0. e \in Provider \cup {None} /\ doc.providers \in Ordered(Providers, Provider) \cup {None}
  BY DocumentIs
<1>1. CASE mergeProvider(s)
  <2>1. PICK payload \in ProviderPayloads : EditProvider(s, Result(MergeProvider(e, payload), TRUE))
    BY <1>1 DEF mergeProvider
  <2> DEFINE result == Result(MergeProvider(e, payload), TRUE)
  <2>2. result.value = MergeProvider(e, payload) /\ result.changed = TRUE
    BY DEF Result
  <2>3. result.value \in Provider
    BY <1>0, <2>2, ProviderEntryIsMerged, SuperJsonAssumption DEF ProviderEntryMerged
  <2> HIDE DEF result
  <2>4. (\E m : ProvidersEdited(m)) /\ answer' \in {"changed", "same", "refused"}
    BY <2>1, <2>2, <2>3, ProvidersAreEdited DEF result
  <2>5. QED
    BY <2>4 DEF Edited
<1>2. CASE swapProviderVariant(s)
  <2>1. PICK variant \in Files \cup {None} : EditProvider(s, SwapProviderVariant(e, variant))
    BY <1>2 DEF swapProviderVariant
  <2> DEFINE result == SwapProviderVariant(e, variant)
  <2>2. ProviderVariantSwapped(e, result)
    BY <1>0, ProviderVariantIsSwapped
  <2> HIDE DEF result
  <2>3. (\E m : ProvidersEdited(m)) /\ answer' \in {"changed", "same", "refused"}
    BY <2>1, <2>2, ProvidersAreEdited DEF result, ProviderVariantSwapped
  <2>4. QED
    BY <2>3 DEF Edited
<1>3. CASE setProvider(s)
  <2> DEFINE deleted == IF Has(doc.providers, s) THEN Delete(doc.providers, s) ELSE doc.providers
  <2>1. deleted \in Ordered(Providers, Provider) \cup {None}
    <3>1. CASE Has(doc.providers, s)
      <4>1. doc.providers \in Ordered(Providers, Provider) /\ doc.providers.at[s] # None
        BY <1>0, <3>1 DEF Has
      <4>2. Deletes(Providers, Provider, doc.providers, s, Delete(doc.providers, s))
        BY <4>1, DeleteIsOrdered, NoneAssumption
      <4>3. QED
        BY <3>1, <4>2 DEF Deletes
    <3>2. CASE ~Has(doc.providers, s)
      BY <1>0, <3>2
    <3>3. QED
      BY <3>1, <3>2
  <2>2. \/ /\ doc' = [doc EXCEPT !.providers = deleted]
           /\ answer' = IF Has(doc.providers, s) THEN "changed" ELSE "same"
        \/ \E payload \in ProviderPayloads :
             /\ doc' = [doc EXCEPT !.providers =
                          Put(OrEmpty(deleted), s, MergeProvider(None, payload))]
             /\ answer' = "changed"
    BY <1>3 DEF setProvider
  <2>3. ~Has(doc.providers, s) => deleted = doc.providers
    OBVIOUS
  <2> HIDE DEF deleted
  <2>4. CASE /\ doc' = [doc EXCEPT !.providers = deleted]
             /\ answer' = IF Has(doc.providers, s) THEN "changed" ELSE "same"
    <3>1. ProvidersEdited(deleted)
      BY <2>1, <2>3, <2>4 DEF ProvidersEdited
    <3>2. QED
      BY <2>4, <3>1 DEF Edited
  <2>5. CASE \E payload \in ProviderPayloads :
               /\ doc' = [doc EXCEPT !.providers =
                            Put(OrEmpty(deleted), s, MergeProvider(None, payload))]
               /\ answer' = "changed"
    <3>1. PICK payload \in ProviderPayloads :
               /\ doc' = [doc EXCEPT !.providers =
                            Put(OrEmpty(deleted), s, MergeProvider(None, payload))]
               /\ answer' = "changed"
      BY <2>5
    <3> DEFINE v == MergeProvider(None, payload)
               providers == OrEmpty(deleted)
               m == Put(providers, s, v)
    <3>2. v \in Provider
      BY ProviderEntryIsMerged, SuperJsonAssumption DEF ProviderEntryMerged
    <3>3. providers \in Ordered(Providers, Provider)
      BY <2>1, EmptyIsOrdered DEF OrEmpty, NoProviders
    <3> HIDE DEF v, providers
    <3>4. m \in Ordered(Providers, Provider)
      BY <3>2, <3>3, PutIsOrdered, NoneAssumption DEF Puts
    <3>5. doc' = [doc EXCEPT !.providers = m] /\ answer' = "changed"
      BY <3>1 DEF v, providers
    <3> HIDE DEF m
    <3>6. ProvidersEdited(m)
      BY <3>4, <3>5 DEF ProvidersEdited
    <3>7. QED
      BY <3>5, <3>6 DEF Edited
  <2>6. QED
    BY <2>2, <2>4, <2>5
<1>4. QED
  BY <1>1, <1>2, <1>3

LEMMA StepEdits ==
  ASSUME doc \in Document, SuperJsonNext
  PROVE  Edited
BY ProfileStepEdits, ProfileProviderStepEdits, ProviderStepEdits DEF SuperJsonNext

-----------------------------------------------------------------------------
(* What is normalized is normal.                                           *)

(* Settings that are normalized stay as they are.                          *)
LEMMA SettingsStable ==
  ASSUME NEW e \in Settings, NEW base \in Defaults
  PROVE  LET n == NormalizeProfileProviderSettings(e, base)
         IN n \in FullSettings /\ NormalizeProfileProviderSettings(n, base) = n
<1> DEFINE n == NormalizeProfileProviderSettings(e, base)
           d == [u \in Usecases |-> IF e.defaults[u] = None THEN None
                                    ELSE Over(e.defaults[u], Inputs(base, u))]
           again == [u \in Usecases |-> IF n.defaults[u] = None THEN None
                                        ELSE Over(n.defaults[u], Inputs(base, u))]
<1>1. ASSUME n \in FullSettings, n.defaults \in Defaults, again = n.defaults
      PROVE  n \in FullSettings /\ NormalizeProfileProviderSettings(n, base) = n
  <2>1. ~IsShort(n)
    BY <1>1, SettingsForm DEF Settings
  <2>2. n.defaults # None
    BY <1>1, NoneAssumption
  <2>3. NormalizeProfileProviderSettings(n, base) =
          [file     |-> n.file,
           variant  |-> IF n.file = None THEN n.variant ELSE None,
           revision |-> IF n.file = None THEN n.revision ELSE None,
           defaults |-> again]
    BY <2>1, <2>2 DEF NormalizeProfileProviderSettings
  <2> HIDE DEF n, again
  <2>4. QED
    BY <1>1, <2>3, FullSettingsIs
<1>2. CASE IsShort(e)
  <2>1. n = [file |-> e.short, variant |-> None, revision |-> None, defaults |-> NoDefaults]
    BY <1>2 DEF NormalizeProfileProviderSettings, EmptySettings
  <2>2. e.short \in Files
    BY <1>2, SettingsForm, ShortIs
  <2> HIDE DEF n
  <2>3. n \in FullSettings /\ n.defaults = NoDefaults
    BY <2>1, <2>2, EmptyForms, FullSettingsIf
  <2>4. again = NoDefaults
    BY <2>3, EmptyForms DEF NoDefaults, Empty
  <2>5. QED
    BY <1>1, <2>3, <2>4, EmptyForms DEF n
<1>3. CASE ~IsShort(e)
  <2> DEFINE v == IF e.file = None THEN e.variant ELSE None
             r == IF e.file = None THEN e.revision ELSE None
             nd == IF e.defaults = None THEN base ELSE d
  <2>0. e \in FullSettings
    BY <1>3, SettingsForm
  <2>1. n = [file |-> e.file, variant |-> v, revision |-> r, defaults |-> nd]
    BY <1>3 DEF NormalizeProfileProviderSettings
  <2>2. /\ e.file \in Files \cup Uris \cup {None} /\ v \in Names \cup {None}
        /\ r \in Names \cup {None} /\ (e.file = None \/ (v = None /\ r = None))
        /\ e.defaults \in Defaults \cup {None}
    BY <2>0, FullSettingsIs
  <2>3. nd \in Defaults
        /\ \A u \in Usecases : nd[u] # None => Over(nd[u], Inputs(base, u)) = nd[u]
    <3>1. CASE e.defaults = None
      <4>1. nd = base
        BY <3>1
      <4>2. \A u \in Usecases : base[u] # None => base[u] \in Fields /\ Inputs(base, u) = base[u]
        BY DefaultsIs
      <4>3. QED
        BY <4>1, <4>2, OverOver
    <3>2. CASE e.defaults # None
      <4>1. nd = d /\ e.defaults \in Defaults
        BY <2>2, <3>2
      <4>2. \A u \in Usecases : e.defaults[u] \in Fields \cup {None} /\ Inputs(base, u) \in Fields
        BY <4>1, DefaultsIs
      <4>3. \A u \in Usecases : d[u] = IF e.defaults[u] = None THEN None
                                       ELSE Over(e.defaults[u], Inputs(base, u))
        OBVIOUS
      <4>4. \A u \in Usecases : d[u] \in Fields \cup {None}
        BY <4>2, <4>3, OverIs
      <4>5. d \in Defaults
        BY <4>4 DEF Defaults
      <4>6. ASSUME NEW u \in Usecases, d[u] # None
            PROVE  Over(d[u], Inputs(base, u)) = d[u]
        <5>1. e.defaults[u] \in Fields /\ d[u] = Over(e.defaults[u], Inputs(base, u))
          BY <4>2, <4>3, <4>6
        <5>2. QED
          BY <4>2, <5>1, OverOver
      <4> HIDE DEF d
      <4>7. QED
        BY <4>1, <4>5, <4>6
    <3>3. QED
      BY <3>1, <3>2
  <2> HIDE DEF n, nd, v, r
  <2>4. n \in FullSettings /\ n.defaults = nd
    BY <2>1, <2>2, <2>3, FullSettingsIf
  <2>5. again = nd
    <3>1. \A u \in Usecases : again[u] = nd[u]
      BY <2>3, <2>4
    <3>2. nd = [u \in Usecases |-> nd[u]]
      BY <2>3, DefaultsIs
    <3>3. QED
      BY <3>1, <3>2
  <2>6. QED
    BY <1>1, <2>3, <2>4, <2>5 DEF n
<1>4. QED
  BY <1>2, <1>3

NormalProfile(n, order) == n \in FullProfile /\ NormalizeProfileSettings(n, order) = n

LEMMA NormalIf ==
  ASSUME NEW n \in FullProfile, NEW order \in Seq(Providers),
         n.defaults \in Defaults, n.providers \in Ordered(Providers, Settings),
         n.priority \in Seq(Providers),
         n.priority = <<>> => n.providers.keys = <<>> /\ order = <<>>,
         \A s \in Providers : n.providers.at[s] # None =>
           NormalizeProfileProviderSettings(n.providers.at[s], n.defaults) = n.providers.at[s]
  PROVE  NormalProfile(n, order)
<1> DEFINE at == [s \in Providers |-> IF n.providers.at[s] = None THEN None
                    ELSE NormalizeProfileProviderSettings(n.providers.at[s], n.defaults)]
<1>1. ~IsShort(n)
  BY ProfileForm DEF Profile
<1>2. n.defaults # None /\ n.providers # None /\ n.priority # None
  BY NoneAssumption
<1>3. NormalizePriority(n, order) = n.priority
  BY <1>2 DEF NormalizePriority, Keys
<1>4. NormalizeProfileSettings(n, order) =
        [source |-> n.source, priority |-> NormalizePriority(n, order), defaults |-> n.defaults,
         providers |-> [n.providers EXCEPT !.at = at]]
  BY <1>1, <1>2 DEF NormalizeProfileSettings, NormalizeUsecaseDefaults, OrEmpty
<1>5. at = n.providers.at
  <2>1. n.providers.at \in [Providers -> Settings \cup {None}]
    BY OrderedIs
  <2>2. QED
    BY <2>1
<1> HIDE DEF at
<1>6. [n.providers EXCEPT !.at = at] = n.providers
  BY <1>5, OrderedIs
<1>7. QED
  BY <1>3, <1>4, <1>6, FullProfileIs DEF NormalProfile

(* So does a profile, and what it hands to its providers.                  *)
LEMMA ProfileStable ==
  ASSUME NEW e \in Profile, NEW order \in Seq(Providers)
  PROVE  NormalProfile(NormalizeProfileSettings(e, order), order)
<1> DEFINE n == NormalizeProfileSettings(e, order)
<1>1. CASE IsShort(e)
  <2>1. e \in [short : ProfileVersions \cup Files]
    BY <1>1, ProfileForm
  <2>2. n = NormalizeShorthand(e, order)
    BY <1>1 DEF NormalizeProfileSettings
  <2>3. n \in FullProfile
        /\ n = [source |-> e.short, priority |-> order, defaults |-> NoDefaults,
                providers |-> NoProviders]
    BY <2>1, <2>2, ShorthandIs
  <2> HIDE DEF n
  <2>4. NormalProfile(n, order)
    BY <2>3, EmptyForms, NormalIf
  <2>5. QED
    BY <2>4 DEF n
<1>2. CASE ~IsShort(e)
  <2> DEFINE d == NormalizeUsecaseDefaults(e.defaults)
             m == OrEmpty(e.providers)
             at == [s \in Providers |-> IF m.at[s] = None THEN None
                      ELSE NormalizeProfileProviderSettings(m.at[s], d)]
             p == NormalizePriority(e, order)
  <2>0. e \in FullProfile
    BY <1>2, ProfileForm
  <2>1. n = [source |-> e.source, priority |-> p, defaults |-> d,
             providers |-> [m EXCEPT !.at = at]]
    BY <1>2 DEF NormalizeProfileSettings
  <2>2. d \in Defaults
    BY <2>0, FullProfileIs, EmptyForms DEF NormalizeUsecaseDefaults
  <2>3. m \in Ordered(Providers, Settings)
    BY <2>0, FullProfileIs, EmptyForms DEF OrEmpty
  <2>4. Keys(e.providers) = m.keys
    BY <2>0, FullProfileIs, EmptyForms, NoneAssumption DEF Keys, OrEmpty
  <2>5. /\ p \in Seq(Providers)
        /\ p = <<>> => m.keys = <<>> /\ order = <<>>
    <3>1. e.priority \in Seq(Providers) \cup {None} /\ m.keys \in Seq(Providers)
      BY <2>0, <2>3, FullProfileIs, OrderedIs
    <3> HIDE DEF m
    <3>2. QED
      BY <2>4, <3>1 DEF NormalizePriority
  <2> HIDE DEF d, m, p, n
  <2>6. \A s \in Providers : at[s] = IF m.at[s] = None THEN None
                                      ELSE NormalizeProfileProviderSettings(m.at[s], d)
    OBVIOUS
  <2>7. ASSUME NEW s \in Providers, m.at[s] # None
        PROVE  at[s] \in Settings /\ NormalizeProfileProviderSettings(at[s], d) = at[s]
    <3>1. m.at[s] \in Settings
      BY <2>3, <2>7, OrderedIs
    <3>2. at[s] = NormalizeProfileProviderSettings(m.at[s], d)
      BY <2>6, <2>7
    <3> HIDE DEF at
    <3>3. QED
      BY <2>2, <3>1, <3>2, SettingsStable DEF Settings
  <2>8. at \in [Providers -> Settings \cup {None}]
    <3>1. \A s \in Providers : at[s] \in Settings \cup {None}
      BY <2>6, <2>7
    <3>2. QED
      BY <3>1
  <2>9. \A s \in Providers : at[s] # None <=> m.at[s] # None
    BY <2>6, <2>7, NoneAssumption
  <2> HIDE DEF at
  <2>10. [m EXCEPT !.at = at] = [keys |-> m.keys, at |-> at]
    BY <2>3, OrderedIs
  <2>11. [keys |-> m.keys, at |-> at] \in Ordered(Providers, Settings)
    BY <2>3, <2>8, <2>9, OrderedIs, OrderedIf
  <2>12. n \in FullProfile
         /\ n = [source |-> e.source, priority |-> p, defaults |-> d,
                 providers |-> [keys |-> m.keys, at |-> at]]
    BY <2>0, <2>1, <2>2, <2>5, <2>10, <2>11, FullProfileIs, FullProfileIf
  <2>13. n.priority = p /\ n.defaults = d /\ n.providers \in Ordered(Providers, Settings)
         /\ n.providers.keys = m.keys /\ n.providers.at = at
    BY <2>11, <2>12
  <2>14. NormalProfile(n, order)
    BY <2>2, <2>5, <2>7, <2>9, <2>12, <2>13, NormalIf
  <2>15. QED
    BY <2>14 DEF n
<1>3. QED
  BY <1>1, <1>2

(* So does a provider.                                                     *)
LEMMA ProviderStable ==
  ASSUME NEW e \in Provider
  PROVE  LET n == NormalizeProviderSettings(e)
         IN n \in Provider /\ n # None /\ NormalizeProviderSettings(n) = n
<1> DEFINE n == NormalizeProviderSettings(e)
<1>0. /\ EmptyMap(Names) \in Ordered(Names, Values) /\ Empty(Names) \in Fields
      /\ EmptyMap(Names) # None /\ Empty(Names) # None
  BY EmptyIsOrdered, NoneAssumption DEF Empty, Fields
<1>1. \E f \in Files \cup Uris \cup {None}, s \in Ordered(Names, Values), q \in Fields :
        n = [file |-> f, security |-> s, parameters |-> q]
  <2>1. CASE IsShort(e)
    <3>1. n = [file |-> e.short, security |-> EmptyMap(Names), parameters |-> Empty(Names)]
      BY <2>1 DEF NormalizeProviderSettings
    <3>2. e.short \in Files
      BY <2>1, ProviderForm, ShortIs
    <3>3. QED
      BY <1>0, <3>1, <3>2
  <2>2. CASE ~IsShort(e)
    <3> DEFINE s == IF e.security = None THEN EmptyMap(Names) ELSE e.security
               q == IF e.parameters = None THEN Empty(Names) ELSE e.parameters
    <3>1. n = [file |-> e.file, security |-> s, parameters |-> q]
      BY <2>2 DEF NormalizeProviderSettings
    <3>2. e.file \in Files \cup Uris \cup {None} /\ s \in Ordered(Names, Values) /\ q \in Fields
      BY <1>0, <2>2, ProviderForm, FullProviderIs
    <3>3. QED
      BY <3>1, <3>2
  <2>3. QED
    BY <2>1, <2>2
<1> HIDE DEF n
<1>2. PICK f \in Files \cup Uris \cup {None}, s \in Ordered(Names, Values), q \in Fields :
        n = [file |-> f, security |-> s, parameters |-> q]
  BY <1>1
<1>3. n \in Provider /\ ~IsShort(n) /\ n # None
  <2>1. n \in FullProvider
    BY <1>2, FullProviderIf
  <2>2. QED
    BY <2>1, ProviderForm DEF Provider
<1>4. n.security # None /\ n.parameters # None
  BY <1>2, NoneAssumption
<1>5. NormalizeProviderSettings(n) = [file |-> n.file, security |-> n.security,
                                       parameters |-> n.parameters]
  BY <1>3, <1>4 DEF NormalizeProviderSettings
<1>6. QED
  BY <1>2, <1>3, <1>5 DEF n

(* What a client reads of a document: of the providers, and of each profile*)
(* given the order of the providers.                                       *)
NormalProviders(m) ==
  [m EXCEPT !.at = [s \in Providers |-> IF @[s] = None THEN None ELSE NormalizeProviderSettings(@[s])]]

(* What a client reads, part by part.                                      *)
LEMMA ReadIs ==
  ASSUME NEW d \in Document
  PROVE  LET m == OrEmpty(d.providers)
             n == NormalizeSuperJsonDocument(d)
         IN /\ m \in Ordered(Providers, Provider) /\ m.keys = Keys(d.providers)
            /\ m.keys \in Seq(Providers)
            /\ n = [profiles |-> [p \in Profiles |->
                      IF d.profiles[p] = None THEN None
                      ELSE NormalizeProfileSettings(d.profiles[p], m.keys)],
                    providers |-> NormalProviders(m)]
            /\ NormalProviders(m).keys = m.keys
            /\ NormalProviders(m) = [keys |-> m.keys, at |-> [s \in Providers |->
                 IF m.at[s] = None THEN None ELSE NormalizeProviderSettings(m.at[s])]]
<1> DEFINE m == OrEmpty(d.providers)
           n == NormalizeSuperJsonDocument(d)
<1>1. d.providers \in Ordered(Providers, Provider) \cup {None}
  BY DEF Document
<1>2. m \in Ordered(Providers, Provider) /\ m.keys = Keys(d.providers) /\ m.keys \in Seq(Providers)
  <2>1. CASE d.providers = None
    BY <2>1, EmptyIsOrdered, EmptySeq DEF OrEmpty, NoProviders, Keys
  <2>2. CASE d.providers # None
    BY <1>1, <2>2, OrderedIs DEF OrEmpty, Keys
  <2>3. QED
    BY <2>1, <2>2
<1>3. n = [profiles |-> [p \in Profiles |->
             IF d.profiles[p] = None THEN None
             ELSE NormalizeProfileSettings(d.profiles[p], m.keys)],
           providers |-> NormalProviders(m)]
  BY DEF NormalizeSuperJsonDocument, NormalProviders
<1> HIDE DEF m, n
<1>4. NormalProviders(m) = [keys |-> m.keys, at |-> [s \in Providers |->
         IF m.at[s] = None THEN None ELSE NormalizeProviderSettings(m.at[s])]]
  BY <1>2, OrderedIs DEF NormalProviders
<1>5. QED
  BY <1>2, <1>3, <1>4 DEF m, n

(* So does the document.                                                   *)
LEMMA DocumentStable ==
  ASSUME NEW d \in Document
  PROVE  LET n == NormalizeSuperJsonDocument(d) IN NormalizeSuperJsonDocument(n) = n
<1> DEFINE m == OrEmpty(d.providers)
           n == NormalizeSuperJsonDocument(d)
           at == [s \in Providers |-> IF m.at[s] = None THEN None
                                      ELSE NormalizeProviderSettings(m.at[s])]
           profiles == [p \in Profiles |-> IF d.profiles[p] = None THEN None
                          ELSE NormalizeProfileSettings(d.profiles[p], m.keys)]
           providers == [keys |-> m.keys, at |-> at]
<1>1. /\ m \in Ordered(Providers, Provider) /\ m.keys \in Seq(Providers)
      /\ n = [profiles |-> profiles, providers |-> providers]
  <2> HIDE DEF m, n
  <2>1. QED
    BY ReadIs DEF m, n
<1>2. n.profiles = profiles /\ n.providers = providers
  BY <1>1
<1>3. \A s \in Providers : at[s] = IF m.at[s] = None THEN None
                                    ELSE NormalizeProviderSettings(m.at[s])
  OBVIOUS
<1>4. \A s \in Providers : m.at[s] \in Provider \cup {None}
  BY <1>1, OrderedIs
<1>5. \A p \in Profiles : d.profiles[p] \in Profile \cup {None}
  BY DEF Document
<1>6. \A p \in Profiles : profiles[p] = IF d.profiles[p] = None THEN None
                                         ELSE NormalizeProfileSettings(d.profiles[p], m.keys)
  OBVIOUS
<1> HIDE DEF m, n
<1>7. [s \in Providers |-> IF at[s] = None THEN None ELSE NormalizeProviderSettings(at[s])] = at
  <2>1. ASSUME NEW s \in Providers
        PROVE  (IF at[s] = None THEN None ELSE NormalizeProviderSettings(at[s])) = at[s]
    BY <1>3, <1>4, ProviderStable
  <2>2. QED
    BY <2>1
<1>8. [p \in Profiles |-> IF profiles[p] = None THEN None
         ELSE NormalizeProfileSettings(profiles[p], m.keys)] = profiles
  <2>1. ASSUME NEW p \in Profiles
        PROVE  (IF profiles[p] = None THEN None
                ELSE NormalizeProfileSettings(profiles[p], m.keys)) = profiles[p]
    <3>1. CASE d.profiles[p] = None
      BY <1>6, <3>1
    <3>2. CASE d.profiles[p] # None
      <4>1. profiles[p] = NormalizeProfileSettings(d.profiles[p], m.keys)
        BY <1>6, <3>2
      <4>2. NormalProfile(profiles[p], m.keys)
        BY <1>1, <1>5, <3>2, <4>1, ProfileStable
      <4>3. QED
        BY <4>2 DEF NormalProfile
    <3>3. QED
      BY <3>1, <3>2
  <2>2. QED
    BY <2>1
<1> HIDE DEF at, profiles
<1>9. providers # None /\ OrEmpty(providers) = providers /\ providers.keys = m.keys
      /\ providers.at = at
  <2>1. at \in [Providers -> Provider \cup {None}]
        /\ \A s \in Providers : at[s] # None <=> m.at[s] # None
    <3>1. \A s \in Providers : at[s] \in Provider \cup {None}
      <4>1. ASSUME NEW s \in Providers, m.at[s] # None
            PROVE  at[s] \in Provider
        BY <1>3, <1>4, <4>1, ProviderStable
      <4>2. QED
        BY <1>3, <4>1
    <3>2. \A s \in Providers : at[s] # None <=> m.at[s] # None
      BY <1>3, <1>4, ProviderStable
    <3>3. QED
      BY <3>1, <3>2 DEF at
  <2>2. providers \in Ordered(Providers, Provider)
    BY <1>1, <2>1, OrderedIs, OrderedIf
  <2>3. QED
    BY <2>2, NoneAssumption DEF OrEmpty
<1>10. NormalizeSuperJsonDocument(n) = [profiles |-> profiles, providers |-> providers]
  <2>1. NormalizeSuperJsonDocument(n) =
          [profiles |-> [p \in Profiles |->
             IF n.profiles[p] = None THEN None
             ELSE NormalizeProfileSettings(n.profiles[p], OrEmpty(n.providers).keys)],
           providers |-> NormalProviders(OrEmpty(n.providers))]
    BY DEF NormalizeSuperJsonDocument, NormalProviders
  <2>2. NormalProviders(providers) =
          [keys |-> m.keys, at |-> [s \in Providers |-> IF at[s] = None THEN None
                                      ELSE NormalizeProviderSettings(at[s])]]
    BY <1>9 DEF NormalProviders
  <2>3. NormalProviders(providers) = providers
    BY <1>7, <2>2
  <2> HIDE DEF providers
  <2>4. QED
    BY <1>2, <1>8, <1>9, <2>1, <2>3
<1>11. QED
  BY <1>1, <1>10 DEF n, profiles, at

-----------------------------------------------------------------------------
(* The document has the form of the schema, whatever calls edit it.        *)

LEMMA StepCounts ==
  ASSUME SuperJsonNext
  PROVE  calls < MaxCalls /\ calls' = calls + 1
BY DEF SuperJsonNext, mergeProfileDefaults, mergeProfile, setProfile, setPriority,
       mergeProfileProvider, setProfileProvider, swapProfileProviderVariant,
       mergeProvider, setProvider, swapProviderVariant, EditProfile, EditProvider, Calls

LEMMA EditedIsDocument ==
  ASSUME doc \in Document, Edited
  PROVE  doc' \in Document
<1>1. CASE \E p \in Profiles : \E v : ProfileEdited(p, v)
  BY <1>1 DEF ProfileEdited, Document
<1>2. CASE \E m : ProvidersEdited(m)
  BY <1>2 DEF ProvidersEdited, Document
<1>3. QED
  BY <1>1, <1>2 DEF Edited

(* Each call leaves the form as it is.                                     *)
LEMMA SuperJsonTypesStay ==
  ASSUME SuperJsonTypeOK, [SuperJsonNext]_superJsonVars
  PROVE  SuperJsonTypeOK'
<1>1. CASE SuperJsonNext
  <2>1. Edited /\ doc' \in Document
    BY <1>1, StepEdits, EditedIsDocument DEF SuperJsonTypeOK
  <2>2. calls' \in 0..MaxCalls
    BY <1>1, StepCounts, SuperJsonAssumption DEF SuperJsonTypeOK
  <2>3. QED
    BY <2>1, <2>2 DEF SuperJsonTypeOK, Edited
<1>2. CASE UNCHANGED superJsonVars
  BY <1>2 DEF SuperJsonTypeOK, superJsonVars
<1>3. QED
  BY <1>1, <1>2

LEMMA SuperJsonTypesStart == SuperJsonInit => SuperJsonTypeOK
BY SuperJsonAssumption DEF SuperJsonInit, SuperJsonTypeOK

LEMMA SuperJsonTypesHold == SuperJsonSpec => []SuperJsonTypeOK
BY SuperJsonTypesStart, SuperJsonTypesStay, PTL DEF SuperJsonSpec

(* The parts of the invariant that follow from the form.                   *)
LEMMA OrderKept ==
  ASSUME SuperJsonTypeOK
  PROVE  EditKeepsOrder
<1> SUFFICES ASSUME NEW p \in Profiles, NEW s \in Providers
             PROVE  LET e == doc.profiles[p]
                        Keeps(result) == IsPrefix(ExplicitOrder(e), ExplicitOrder(result.value))
                    IN /\ \A payload \in SettingsPayloads :
                            /\ Keeps(SetProfileProvider(e, s, payload))
                            /\ Keeps(MergeProfileProvider(e, s, payload))
                       /\ \A v \in Files \cup Maps : Keeps(SwapProfileProviderVariant(e, s, v))
  BY DEF EditKeepsOrder
<1> DEFINE e == doc.profiles[p]
<1>1. e \in Profile \cup {None}
  BY DocumentIs DEF SuperJsonTypeOK
<1> HIDE DEF e
<1>2. ASSUME NEW v \in Profile \cup {None}, Starts(ExplicitOrder(e), ExplicitOrder(v))
      PROVE  IsPrefix(ExplicitOrder(e), ExplicitOrder(v))
  <2>1. ExplicitOrder(e) \in Seq(Providers) /\ ExplicitOrder(v) \in Seq(Providers)
    BY <1>1, ExplicitIs
  <2>2. QED
    BY <1>2, <2>1, StartsIsPrefix
<1>3. ASSUME NEW payload \in SettingsPayloads
      PROVE  /\ IsPrefix(ExplicitOrder(e), ExplicitOrder(SetProfileProvider(e, s, payload).value))
             /\ IsPrefix(ExplicitOrder(e), ExplicitOrder(MergeProfileProvider(e, s, payload).value))
  <2>1. payload \in Settings /\ payload # None
    BY SuperJsonAssumption, NoneAssumption
  <2>2. ProviderSet(e, payload, SetProfileProvider(e, s, payload))
    BY <1>1, <2>1, ProviderIsSet
  <2>3. ProviderMerged(e, EnsureProfileWithProviders(e), s, MergeProfileProvider(e, s, payload))
    BY <1>1, <2>1, ProviderIsMerged
  <2>4. QED
    BY <1>2, <2>1, <2>2, <2>3 DEF ProviderSet, ProviderMerged, Profile
<1>4. ASSUME NEW v \in Files \cup Maps
      PROVE  IsPrefix(ExplicitOrder(e), ExplicitOrder(SwapProfileProviderVariant(e, s, v).value))
  <2>1. VariantSwapped(e, SwapProfileProviderVariant(e, s, v))
    BY <1>1, VariantIsSwapped
  <2>2. Starts(ExplicitOrder(e), ExplicitOrder(e))
    BY <1>1, ExplicitIs, StartsSame
  <2>3. QED
    BY <1>2, <2>1, <2>2 DEF VariantSwapped, Profile
<1>5. QED
  BY <1>3, <1>4 DEF e

LEMMA DefaultsKept ==
  ASSUME SuperJsonTypeOK
  PROVE  SwapKeepsDefaults
<1> SUFFICES ASSUME NEW p \in Profiles, NEW s \in Providers, NEW v \in Files \cup Maps,
                    NEW w \in Files \cup Maps, NEW t \in Providers
             PROVE  LET e == doc.profiles[p]
                        once == SwapProfileProviderVariant(e, s, v).value
                    IN OwnDefaults(SwapProfileProviderVariant(once, s, w).value, t) = OwnDefaults(e, t)
  BY DEF SwapKeepsDefaults
<1> DEFINE e == doc.profiles[p]
           once == SwapProfileProviderVariant(e, s, v).value
<1>1. e \in Profile \cup {None}
  BY DocumentIs DEF SuperJsonTypeOK
<1>2. VariantSwapped(e, SwapProfileProviderVariant(e, s, v))
  BY <1>1, VariantIsSwapped
<1>3. once \in Profile /\ OwnDefaults(once, t) = OwnDefaults(e, t)
  BY <1>2 DEF VariantSwapped, Profile
<1> HIDE DEF once, e
<1>4. VariantSwapped(once, SwapProfileProviderVariant(once, s, w))
  BY <1>3, VariantIsSwapped
<1>5. QED
  BY <1>3, <1>4 DEF VariantSwapped, once, e

LEMMA NothingForgotten ==
  ASSUME SuperJsonTypeOK
  PROVE  MergeForgetsNothing
<1>1. ASSUME NEW p \in Profiles, NEW payload \in ProfilePayloads
      PROVE  LET e == doc.profiles[p]
                 merged == MergeProfile(e, payload)
             IN e # None /\ ~IsShort(e) /\ ~IsShort(merged) =>
                  /\ IsPrefix(Keys(e.providers), Keys(merged.providers))
                  /\ AllSetIn(NormalizeUsecaseDefaults(e.defaults),
                              NormalizeUsecaseDefaults(merged.defaults))
  <2> DEFINE e == doc.profiles[p]
             merged == MergeProfile(e, payload)
  <2>1. e \in Profile \cup {None} /\ payload \in Profile
    BY DocumentIs, SuperJsonAssumption DEF SuperJsonTypeOK
  <2>2. ProfileMerged(e, payload, merged)
    BY <2>1, ProfileIsMerged
  <2> HIDE DEF e, merged
  <2>3. ASSUME e # None, ~IsShort(e), ~IsShort(merged)
        PROVE  /\ IsPrefix(Keys(e.providers), Keys(merged.providers))
               /\ AllSetIn(NormalizeUsecaseDefaults(e.defaults),
                           NormalizeUsecaseDefaults(merged.defaults))
    <3>1. Starts(Keys(e.providers), Keys(merged.providers))
          /\ AllSetIn(NormalizeUsecaseDefaults(e.defaults),
                      NormalizeUsecaseDefaults(merged.defaults))
      BY <2>2, <2>3 DEF ProfileMerged, NoneForgotten
    <3>2. e \in FullProfile /\ merged \in FullProfile
      BY <2>1, <2>2, <2>3, ProfileForm DEF ProfileMerged
    <3>3. Keys(e.providers) \in Seq(Providers) /\ Keys(merged.providers) \in Seq(Providers)
      BY <3>2, FullProfileIs, KeysStartSame
    <3>4. QED
      BY <3>1, <3>3, StartsIsPrefix
  <2>4. QED
    BY <2>3 DEF e, merged
<1>2. ASSUME NEW s \in Providers, NEW payload \in ProviderPayloads
      PROVE  LET e == Get(doc.providers, s)
                 merged == MergeProvider(e, payload)
             IN e # None /\ ~IsShort(e) /\ ~IsShort(payload) =>
                  /\ IsPrefix(Keys(e.security), Keys(merged.security))
                  /\ FieldsIn(e.parameters, merged.parameters)
  <2> DEFINE e == Get(doc.providers, s)
             merged == MergeProvider(e, payload)
  <2>1. e \in Provider \cup {None} /\ payload \in Provider
    BY DocumentIs, SuperJsonAssumption DEF SuperJsonTypeOK
  <2>2. ProviderEntryMerged(e, payload, merged)
    BY <2>1, ProviderEntryIsMerged
  <2>3. ~IsShort(payload) /\ e # None /\ ~IsShort(e) => ~IsShort(merged)
    <3>1. CASE ~IsShort(payload) /\ e # None /\ ~IsShort(e)
      <4>1. \E f, m, q : merged = [file |-> f, security |-> m, parameters |-> q]
        BY <3>1 DEF MergeProvider
      <4>2. DOMAIN merged # {"short"}
        <5>1. PICK f, m, q : merged = [file |-> f, security |-> m, parameters |-> q]
          BY <4>1
        <5>2. "file" \in DOMAIN merged
          BY <5>1
        <5>3. QED
          BY <5>2
      <4>3. QED
        BY <4>2 DEF IsShort
    <3>2. QED
      BY <3>1
  <2> HIDE DEF e, merged
  <2>4. ASSUME e # None, ~IsShort(e), ~IsShort(payload)
        PROVE  /\ IsPrefix(Keys(e.security), Keys(merged.security))
               /\ FieldsIn(e.parameters, merged.parameters)
    <3>1. Starts(Keys(e.security), Keys(merged.security)) /\ FieldsIn(e.parameters, merged.parameters)
      BY <2>2, <2>4 DEF ProviderEntryMerged
    <3>2. e \in FullProvider /\ merged \in FullProvider
      BY <2>1, <2>2, <2>3, <2>4, ProviderForm DEF ProviderEntryMerged
    <3>3. Keys(e.security) \in Seq(Names) /\ Keys(merged.security) \in Seq(Names)
      BY <3>2, FullProviderIs, KeysStartSame
    <3>4. QED
      BY <3>1, <3>3, StartsIsPrefix
  <2>5. QED
    BY <2>4 DEF e, merged
<1>3. QED
  BY <1>1, <1>2 DEF MergeForgetsNothing

(* The form of the document, and what normalizing, setting, swapping and   *)
(* merging keep of it, for any document, payloads, files and names, after  *)
(* any calls.                                                              *)
THEOREM SuperJsonInvHolds == SuperJsonSpec => []SuperJsonInv
<1>1. ASSUME SuperJsonTypeOK
      PROVE  SuperJsonInv
  <2>1. NormalizeStable
    BY <1>1, DocumentStable DEF SuperJsonTypeOK, NormalizeStable
  <2>2. QED
    BY <1>1, <2>1, OrderKept, DefaultsKept, NothingForgotten DEF SuperJsonInv
<1>2. QED
  BY <1>1, SuperJsonTypesHold, PTL

(* A shorthand written in full reads as before.                            *)
LEMMA SameRead ==
  ASSUME NEW d \in Document, NEW p \in Profiles, NEW v,
         d.profiles[p] \in [short : ProfileVersions \cup Files],
         v = NormalizeShorthand(d.profiles[p], Keys(d.providers)),
         NEW n \in Document, n = [d EXCEPT !.profiles[p] = v]
  PROVE  NormalizeSuperJsonDocument(n) = NormalizeSuperJsonDocument(d)
<1> DEFINE keys == Keys(d.providers)
           Read(profiles) == [q \in Profiles |-> IF profiles[q] = None THEN None
                                ELSE NormalizeProfileSettings(profiles[q], keys)]
           m == OrEmpty(d.providers)
<1>1. keys \in Seq(Providers) /\ m.keys = keys
      /\ NormalizeSuperJsonDocument(d) =
           [profiles |-> Read(d.profiles), providers |-> NormalProviders(m)]
  BY ReadIs
<1>2. n.providers = d.providers /\ n.profiles = [d.profiles EXCEPT ![p] = v]
      /\ d.profiles \in [Profiles -> Profile \cup {None}]
  BY DEF Document
<1>3. NormalizeSuperJsonDocument(n) =
        [profiles |-> Read(n.profiles), providers |-> NormalProviders(m)]
  <2>1. NormalizeSuperJsonDocument(n) =
          [profiles |-> [q \in Profiles |-> IF n.profiles[q] = None THEN None
                           ELSE NormalizeProfileSettings(n.profiles[q], OrEmpty(n.providers).keys)],
           providers |-> NormalProviders(OrEmpty(n.providers))]
    BY DEF NormalizeSuperJsonDocument, NormalProviders
  <2>2. OrEmpty(n.providers) = m
    BY <1>2
  <2> HIDE DEF m, keys
  <2>3. QED
    BY <1>1, <2>1, <2>2
<1> HIDE DEF keys, m
<1>4. Read(n.profiles) = Read(d.profiles)
  <2>1. ASSUME NEW q \in Profiles
        PROVE  Read(n.profiles)[q] = Read(d.profiles)[q]
    <3>1. CASE q # p
      BY <1>2, <3>1
    <3>2. CASE q = p
      <4>1. d.profiles[p] # None /\ IsShort(d.profiles[p]) /\ d.profiles[p] \in Profile
        BY ProfileForm DEF Profile
      <4>2. v = NormalizeProfileSettings(d.profiles[p], keys)
        BY <4>1 DEF NormalizeProfileSettings, keys
      <4>3. NormalProfile(v, keys)
        BY <1>1, <4>1, <4>2, ProfileStable
      <4>4. v # None /\ NormalizeProfileSettings(v, keys) = v
        BY <4>3, ProfileForm DEF NormalProfile, Profile
      <4>5. n.profiles[p] = v
        BY <1>2
      <4>6. QED
        BY <3>2, <4>1, <4>2, <4>4, <4>5
    <3>3. QED
      BY <3>1, <3>2
  <2>2. QED
    BY <2>1
<1>5. QED
  BY <1>1, <1>3, <1>4

(* A call that answers `false', or refuses, has not changed what a client  *)
(* reads, for any document and any calls before.                           *)
THEOREM AnswersTellChange == SuperJsonSpec => AnswerTellsChange
<1>1. ASSUME SuperJsonTypeOK, [SuperJsonNext]_superJsonVars
      PROVE  [answer' # "changed" =>
                NormalizeSuperJsonDocument(doc') = NormalizeSuperJsonDocument(doc)]_superJsonVars
  <2>1. CASE UNCHANGED superJsonVars
    BY <2>1
  <2>2. CASE SuperJsonNext
    <3>1. doc \in Document /\ Edited
      BY <1>1, <2>2, StepEdits DEF SuperJsonTypeOK
    <3>2. doc' \in Document
      BY <3>1, EditedIsDocument
    <3>3. SUFFICES ASSUME answer' # "changed"
                   PROVE  NormalizeSuperJsonDocument(doc') = NormalizeSuperJsonDocument(doc)
      OBVIOUS
    <3>4. CASE doc' = doc
      BY <3>4
    <3>5. ASSUME NEW p \in Profiles, NEW v, ProfileEdited(p, v)
          PROVE  NormalizeSuperJsonDocument(doc') = NormalizeSuperJsonDocument(doc)
      <4>1. CASE v = doc.profiles[p]
        <5>1. doc' = [doc EXCEPT !.profiles[p] = doc.profiles[p]]
          BY <3>5, <4>1 DEF ProfileEdited
        <5>2. doc' = doc
          BY <3>1, <5>1 DEF Document
        <5>3. QED
          BY <5>2
      <4>2. CASE /\ doc.profiles[p] \in [short : ProfileVersions \cup Files]
                 /\ v = NormalizeShorthand(doc.profiles[p], Keys(doc.providers))
        <5>1. doc' = [doc EXCEPT !.profiles[p] = v]
          BY <3>5 DEF ProfileEdited
        <5>2. QED
          BY <3>1, <3>2, <4>2, <5>1, SameRead
      <4>3. QED
        BY <3>3, <3>5, <4>1, <4>2 DEF ProfileEdited
    <3>6. ASSUME NEW m, ProvidersEdited(m)
          PROVE  doc' = doc
      BY <3>1, <3>3, <3>6 DEF ProvidersEdited, Document
    <3>7. QED
      BY <3>1, <3>5, <3>6 DEF Edited
  <2>3. QED
    BY <1>1, <2>1, <2>2
<1>2. QED
  BY <1>1, SuperJsonTypesHold, PTL DEF SuperJsonSpec, AnswerTellsChange

(* No call that is not refused breaks an order that names each provider    *)
(* once and only providers of the profile, whatever it adds, overwrites or *)
(* deletes: given that a profile that is set or merged brings such an      *)
(* order, and setPriority no name twice.                                   *)
THEOREM OrdersNameConfigured ==
  ASSUME PayloadsOrdered
  PROVE  SuperJsonSpec => OrderNamesConfigured
<1>1. ASSUME SuperJsonTypeOK, [SuperJsonNext]_superJsonVars
      PROVE  [answer' # "refused" =>
                \A p \in Profiles : WellOrdered(doc.profiles[p]) => WellOrdered(doc'.profiles[p])
             ]_superJsonVars
  <2>1. CASE UNCHANGED superJsonVars
    BY <2>1
  <2>2. CASE SuperJsonNext
    <3>1. doc \in Document /\ Edited
      BY <1>1, <2>2, StepEdits DEF SuperJsonTypeOK
    <3>2. SUFFICES ASSUME answer' # "refused", NEW p \in Profiles, WellOrdered(doc.profiles[p])
                   PROVE  WellOrdered(doc'.profiles[p])
      OBVIOUS
    <3>3. ASSUME NEW q \in Profiles, NEW v, ProfileEdited(q, v)
          PROVE  WellOrdered(doc'.profiles[p])
      <4>1. CASE q = p
        <5>1. doc'.profiles[p] = v
          BY <3>1, <3>3, <4>1 DEF ProfileEdited, Document
        <5>2. WellOrdered(v)
          BY <3>2, <3>3, <4>1 DEF ProfileEdited
        <5>3. QED
          BY <5>1, <5>2
      <4>2. CASE q # p
        <5>1. doc'.profiles[p] = doc.profiles[p]
          BY <3>1, <3>3, <4>2 DEF ProfileEdited, Document
        <5>2. QED
          BY <3>2, <5>1
      <4>3. QED
        BY <4>1, <4>2
    <3>4. ASSUME NEW m, ProvidersEdited(m)
          PROVE  WellOrdered(doc'.profiles[p])
      <4>1. doc'.profiles = doc.profiles
        BY <3>1, <3>4 DEF ProvidersEdited, Document
      <4>2. QED
        BY <3>2, <4>1
    <3>5. QED
      BY <3>1, <3>3, <3>4 DEF Edited
  <2>3. QED
    BY <1>1, <2>1, <2>2
<1>2. QED
  BY <1>1, SuperJsonTypesHold, PTL DEF SuperJsonSpec, OrderNamesConfigured

(***************************************************************************)
(* Binding.                                                                *)
(***************************************************************************)

USE DEF Versions

(* A task that goes on, or ends, is of the types.                          *)
LEMMA AtTyped ==
  ASSUME NEW version \in Versions,
         NEW pc \in {"idle", "resolving", "binding", "asking", "saving", "unfit",
                     "reading", "checking"}
  PROVE  At(pc, version) \in TaskState
<1>1. 0 \in Left
  BY TimeoutAssumption DEF Left
<1> QED BY <1>1 DEF At, TaskState

LEMMA RestTyped == AtRest \in TaskState
<1>1. 0 \in Versions
  BY BoundsAssumption
<1> QED BY <1>1, AtTyped DEF AtRest

LEMMA CheckingTyped ==
  ASSUME NEW left \in Left
  PROVE  /\ Checking(left) \in TaskState
         /\ Checking(left) = [pc |-> "checking", version |-> 0, left |-> left,
                              overtaken |-> FALSE]
<1>1. 0 \in Versions
  BY BoundsAssumption
<1>2. Checking(left) = [pc |-> "checking", version |-> 0, left |-> left,
                        overtaken |-> FALSE]
  BY DEF Checking
<1> QED BY <1>1, <1>2 DEF TaskState

(* A bind that ends well leaves a binding of the types, got as a binding   *)
(* may be got; whoever holds another one is overtaken.                     *)
LEMMA BoundKeeps ==
  ASSUME IInv, NEW t \in Tasks, NEW version \in Versions, Bound(t, version),
         version = 0 => setup.map = "local",
         setup.map = "remote" => setup.info = "remote",
         UNCHANGED <<setup, registry>>,
         files' \in [profile : {"absent", "partial", "whole"},
                     info : SUBSET {"name", "name.json"}]
  PROVE  IInv'
<1>0. /\ task \in [Tasks -> TaskState]
      /\ Timeout \in Left
  BY TimeoutAssumption DEF IInv, TypeOK, Left
<1>1. /\ cache' = {[version |-> version, left |-> Timeout]}
      /\ task' \in [Tasks -> TaskState]
      /\ task'[t] = Checking(Timeout)
      /\ \A u \in Tasks \ {t} :
           /\ task'[u].pc = task[u].pc /\ task'[u].version = task[u].version
           /\ task'[u].overtaken = (task[u].pc = "checking")
      /\ UNCHANGED <<profile, crashes>>
  <2>1. \A u \in Tasks : /\ task[u] \in TaskState
                         /\ [task[u] EXCEPT !.overtaken = task[u].pc = "checking"] =
                              [pc |-> task[u].pc, version |-> task[u].version,
                               left |-> task[u].left,
                               overtaken |-> (task[u].pc = "checking")]
    BY <1>0 DEF TaskState
  <2>2. \A u \in Tasks :
          [pc |-> task[u].pc, version |-> task[u].version, left |-> task[u].left,
           overtaken |-> (task[u].pc = "checking")] \in TaskState
    BY <2>1 DEF TaskState
  <2>3. Checking(Timeout) \in TaskState
    BY <1>0, CheckingTyped
  <2>4. /\ cache' = {[version |-> version, left |-> Timeout]}
        /\ task' = [u \in Tasks |->
                     IF u = t THEN Checking(Timeout)
                     ELSE [task[u] EXCEPT !.overtaken = task[u].pc = "checking"]]
        /\ UNCHANGED <<profile, crashes>>
    BY DEF Bound
  <2>5. task' = [u \in Tasks |->
                  IF u = t THEN Checking(Timeout)
                  ELSE [pc |-> task[u].pc, version |-> task[u].version,
                        left |-> task[u].left,
                        overtaken |-> (task[u].pc = "checking")]]
    BY <2>1, <2>4
  <2>6. task' \in [Tasks -> TaskState] /\ task'[t] = Checking(Timeout)
    BY <2>2, <2>3, <2>5
  <2>7. \A u \in Tasks \ {t} :
           /\ task'[u].pc = task[u].pc /\ task'[u].version = task[u].version
           /\ task'[u].overtaken = (task[u].pc = "checking")
    BY <2>5
  <2> QED BY <2>4, <2>6, <2>7
<1>2. TypeOK'
  <2>1. [version |-> version, left |-> Timeout] \in Binding
    BY <1>0 DEF Binding
  <2> QED BY <1>1, <2>1 DEF IInv, TypeOK
<1>3. ProfileWhole' /\ CachedWasBound'
  BY <1>1 DEF IInv, ProfileWhole, CachedWasBound
<1>4. task'[t].pc = "checking" /\ task'[t].left = Timeout
  BY <1>0, <1>1, CheckingTyped
<1>5. TasksFit'
  BY <1>1, <1>4 DEF IInv, TasksFit
<1>6. HeldIsCached'
  <2>1. \A c \in cache' : c.left = Timeout
    BY <1>1
  <2>2. \A u \in Tasks \ {t} : task'[u].pc = "checking" => task'[u].overtaken
    BY <1>1
  <2> QED BY <1>4, <2>1, <2>2 DEF HeldIsCached, Held
<1> QED BY <1>2, <1>3, <1>5, <1>6 DEF IInv

(* The end of the process leaves nothing but the files.                    *)
LEMMA RestartKeeps ==
  ASSUME IInv, Restarted, UNCHANGED <<setup, registry>>,
         files' \in [profile : {"absent", "partial", "whole"},
                     info : SUBSET {"name", "name.json"}]
  PROVE  IInv'
<1>1. TypeOK'
  <2>1. task' \in [Tasks -> TaskState]
    BY RestTyped DEF Restarted
  <2>2. crashes' \in 0..MaxCrashes
    BY BoundsAssumption DEF IInv, TypeOK, Restarted
  <2> QED BY <2>1, <2>2 DEF IInv, TypeOK, Restarted, NoProfile
<1> QED BY <1>1 DEF IInv, Restarted, NoProfile, ProfileWhole, CachedWasBound,
                    TasksFit, HeldIsCached, AtRest, At

(* A task goes on to a place where it holds nothing; the cache is as it    *)
(* was, or empty.                                                          *)
LEMMA MovesKeeps ==
  ASSUME IInv, NEW u \in Tasks, NEW version \in Versions,
         NEW pc \in {"idle", "resolving", "binding", "asking", "saving", "unfit",
                     "reading"},
         task' = [task EXCEPT ![u] = At(pc, version)], cache' \in {cache, {}},
         UNCHANGED <<setup, registry, profile, crashes>>,
         files' \in [profile : {"absent", "partial", "whole"},
                     info : SUBSET {"name", "name.json"}],
         pc \in {"asking", "reading"} => setup.map = "local",
         pc \in {"binding", "asking", "unfit"} => setup.info = "remote",
         pc = "saving" => /\ version # 0
                          /\ setup.map = "remote" => setup.info = "remote"
  PROVE  IInv'
<1>1. task \in [Tasks -> TaskState] /\ At(pc, version) \in TaskState
  BY AtTyped DEF IInv, TypeOK
<1>2. /\ task' \in [Tasks -> TaskState]
      /\ task'[u] = At(pc, version)
      /\ \A w \in Tasks \ {u} : task'[w] = task[w]
  BY <1>1
<1>3. task'[u].pc = pc /\ task'[u].version = version
  BY <1>2 DEF At
<1>4. TypeOK'
  BY <1>2 DEF IInv, TypeOK
<1>5. ProfileWhole' /\ CachedWasBound'
  BY DEF IInv, ProfileWhole, CachedWasBound
<1>6. TasksFit'
  BY <1>2, <1>3 DEF IInv, TasksFit
<1>7. HeldIsCached'
  BY <1>2, <1>3 DEF IInv, HeldIsCached, Held
<1> QED BY <1>4, <1>5, <1>6, <1>7 DEF IInv

(* A bind that fails.                                                      *)
LEMMA FailedKeeps ==
  ASSUME IInv, NEW t \in Tasks, Failed(t), UNCHANGED <<setup, registry>>,
         files' \in [profile : {"absent", "partial", "whole"},
                     info : SUBSET {"name", "name.json"}]
  PROVE  IInv'
<1>1. CASE t \in Rebinds /\ Restarted
  BY <1>1, RestartKeeps
<1>2. CASE task' = [task EXCEPT ![t] = AtRest] /\ UNCHANGED <<profile, cache, crashes>>
  <2>1. 0 \in Versions
    BY BoundsAssumption
  <2> QED BY <1>2, <2>1, MovesKeeps DEF AtRest
<1> QED BY <1>1, <1>2 DEF Failed

(* A task that goes on to its next await.                                  *)
LEMMA GoesOnKeeps ==
  ASSUME IInv, NEW t \in Tasks, NEW version \in Versions,
         NEW pc \in {"binding", "asking", "saving", "unfit", "reading"},
         GoesOn(t, pc, version), UNCHANGED <<setup, registry, files>>,
         pc \in {"asking", "reading"} => setup.map = "local",
         pc \in {"binding", "asking", "unfit"} => setup.info = "remote",
         pc = "saving" => /\ version # 0
                          /\ setup.map = "remote" => setup.info = "remote"
  PROVE  IInv'
<1>1. task' = [task EXCEPT ![t] = At(pc, version)] /\ UNCHANGED <<profile, cache, crashes>>
  BY DEF GoesOn
<1>2. files' \in [profile : {"absent", "partial", "whole"},
                  info : SUBSET {"name", "name.json"}]
  BY DEF IInv, TypeOK
<1> QED BY <1>1, <1>2, MovesKeeps

(* The check of the expiry: the task ends, or drops what is cached and has *)
(* it bound anew.                                                          *)
LEMMA CheckKeeps ==
  ASSUME IInv, NEW t \in Tasks, Check(t)
  PROVE  IInv'
<1>1. /\ UNCHANGED <<setup, registry, files, profile, crashes>> /\ 0 \in Versions
      /\ files' \in [profile : {"absent", "partial", "whole"},
                      info : SUBSET {"name", "name.json"}]
  BY BoundsAssumption DEF Check, IInv, TypeOK
<1>2. CASE task' = [task EXCEPT ![t] = AtRest] /\ UNCHANGED cache
  BY <1>1, <1>2, MovesKeeps DEF AtRest
<1>3. ASSUME NEW r \in Rebinds, cache' = {},
             task' = [task EXCEPT ![t] = AtRest, ![r] = At("resolving", 0)]
      PROVE  IInv'
  <2>1. /\ r \in Tasks /\ task \in [Tasks -> TaskState]
        /\ At("resolving", 0) \in TaskState
    BY <1>1, AtTyped DEF Tasks, IInv, TypeOK
  <2>2. /\ task' \in [Tasks -> TaskState]
        /\ task'[r] = At("resolving", 0)
        /\ \A w \in Tasks \ {r} : task'[w] = task[w] \/ task'[w] = AtRest
    BY <1>3, <2>1, RestTyped
  <2>3. TypeOK'
    BY <1>1, <1>3, <2>2 DEF IInv, TypeOK
  <2>4. TasksFit'
    BY <1>1, <2>2 DEF IInv, TasksFit, AtRest, At
  <2> QED BY <1>1, <1>3, <2>3, <2>4 DEF IInv, ProfileWhole, CachedWasBound, HeldIsCached
<1> QED BY <1>2, <1>3 DEF Check

-----------------------------------------------------------------------------
(* The steps of a bind, one after the other.                               *)
LEMMA StepKeeps ==
  ASSUME IInv, NEW t \in Tasks, Step(t)
  PROVE  IInv'
<1> DEFINE FilesOK == files' \in [profile : {"absent", "partial", "whole"},
                                  info : SUBSET {"name", "name.json"}]
<1>0. /\ registry.version \in Versions /\ registry.version # 0
      /\ task[t].version \in Versions /\ 0 \in Versions
      /\ setup.map \in {"local", "remote"} /\ setup.info \in {"local", "remote"}
  BY BoundsAssumption DEF IInv, TypeOK, Registry, TaskState, Setup
<1>1. CASE Resolve(t)
  <2>1. UNCHANGED <<setup, registry, files>> /\ FilesOK
    BY <1>1 DEF Resolve, IInv, TypeOK
  <2>2. CASE setup.map = "local" /\ setup.info = "local" /\ Bound(t, 0)
    BY <1>0, <2>1, <2>2, BoundKeeps
  <2>3. CASE setup.map = "local" /\ setup.info = "remote" /\ GoesOn(t, "asking", 0)
    BY <1>0, <2>1, <2>3, GoesOnKeeps
  <2>4. CASE setup.map = "remote" /\ setup.info = "remote" /\ GoesOn(t, "binding", 0)
    BY <1>0, <2>1, <2>4, GoesOnKeeps
  <2>5. CASE Failed(t)
    BY <2>1, <2>5, FailedKeeps
  <2> QED BY <1>1, <2>2, <2>3, <2>4, <2>5 DEF Resolve
<1>2. CASE BindAnswer(t)
  <2>1. /\ UNCHANGED <<setup, registry, files>> /\ FilesOK
        /\ setup.info = "remote"
    BY <1>2 DEF BindAnswer, IInv, TypeOK, TasksFit
  <2>2. CASE GoesOn(t, "saving", registry.version)
    BY <1>0, <2>1, <2>2, GoesOnKeeps
  <2>3. CASE GoesOn(t, "unfit", 0)
    BY <1>0, <2>1, <2>3, GoesOnKeeps
  <2>4. CASE Failed(t)
    BY <2>1, <2>4, FailedKeeps
  <2> QED BY <1>2, <2>2, <2>3, <2>4 DEF BindAnswer
<1>3. CASE InfoAnswer(t)
  <2>1. /\ UNCHANGED <<setup, registry, files>> /\ FilesOK
        /\ setup.map = "local" /\ setup.info = "remote"
    BY <1>3 DEF InfoAnswer, IInv, TypeOK, TasksFit
  <2>2. CASE GoesOn(t, "saving", registry.version)
    BY <1>0, <2>1, <2>2, GoesOnKeeps
  <2>3. CASE GoesOn(t, "reading", 0)
    BY <1>0, <2>1, <2>3, GoesOnKeeps
  <2>4. CASE GoesOn(t, "unfit", 0)
    BY <1>0, <2>1, <2>4, GoesOnKeeps
  <2> QED BY <1>3, <2>2, <2>3, <2>4 DEF InfoAnswer
<1>4. CASE Save(t)
  <2>1. UNCHANGED <<setup, registry>> /\ FilesOK
    BY <1>4 DEF Save, IInv, TypeOK, WrittenAs
  <2>2. CASE task[t].pc = "saving" /\ Bound(t, task[t].version)
    <3>1. /\ task[t].version # 0
          /\ setup.map = "remote" => setup.info = "remote"
      BY <2>2 DEF IInv, TasksFit
    <3> QED BY <1>0, <2>1, <2>2, <3>1, BoundKeeps
  <2>3. CASE Failed(t)
    BY <2>1, <2>3, FailedKeeps
  <2> QED BY <1>4, <2>2, <2>3 DEF Save
<1>5. CASE ReadCopy(t)
  <2>1. /\ UNCHANGED <<setup, registry, files>> /\ FilesOK
        /\ setup.map = "local"
    BY <1>5 DEF ReadCopy, IInv, TypeOK, TasksFit
  <2>2. CASE Bound(t, 0)
    BY <1>0, <2>1, <2>2, BoundKeeps
  <2>3. CASE Failed(t)
    BY <2>1, <2>3, FailedKeeps
  <2> QED BY <1>5, <2>2, <2>3 DEF ReadCopy
<1> QED BY <1>1, <1>2, <1>3, <1>4, <1>5, CheckKeeps DEF Step

(* The profile: what is read from a file or got from the registry is whole *)
(* when it is used.                                                        *)
LEMMA ProfileKeeps ==
  ASSUME IInv, GetProfile \/ ProfileAnswer \/ ProfileSaved \/ OtherProcess
  PROVE  IInv'
<1>1. UNCHANGED <<setup, registry, cache, task, crashes>>
  BY DEF GetProfile, ProfileAnswer, ProfileSaved, OtherProcess
<1>2. /\ profile' \in [pc : {"none", "fetching", "saving", "ready"},
                       ast : {"none", "partial", "whole"}]
      /\ ProfileWhole'
  <2>1. CASE GetProfile
    BY <2>1 DEF GetProfile, Load, Usable, IInv, TypeOK, ProfileWhole
  <2>2. CASE ProfileAnswer
    BY <2>2 DEF ProfileAnswer, NoProfile, IInv, TypeOK, ProfileWhole
  <2>3. CASE ProfileSaved
    BY <2>3 DEF ProfileSaved, IInv, TypeOK, ProfileWhole
  <2>4. CASE OtherProcess
    BY <2>4 DEF OtherProcess, IInv, TypeOK, ProfileWhole
  <2> QED BY <2>1, <2>2, <2>3, <2>4
<1>3. files' \in [profile : {"absent", "partial", "whole"},
                  info : SUBSET {"name", "name.json"}]
  <2>1. CASE GetProfile
    BY <2>1 DEF GetProfile, IInv, TypeOK
  <2>2. CASE ProfileAnswer
    BY <2>2 DEF ProfileAnswer, IInv, TypeOK
  <2>3. CASE ProfileSaved
    BY <2>3 DEF ProfileSaved, IInv, TypeOK
  <2>4. CASE OtherProcess
    BY <2>4 DEF OtherProcess, IInv, TypeOK
  <2> QED BY <2>1, <2>2, <2>3, <2>4
<1> QED BY <1>1, <1>2, <1>3 DEF IInv, TypeOK, CachedWasBound, TasksFit,
                                HeldIsCached, Held

(* A perform binds, or gets what is cached.                                *)
LEMMA PerformKeeps ==
  ASSUME IInv, NEW t \in Performs, Perform(t)
  PROVE  IInv'
<1>1. /\ UNCHANGED <<setup, registry, files, profile, cache, crashes>>
      /\ t \in Tasks /\ 0 \in Versions /\ task \in [Tasks -> TaskState]
      /\ files' \in [profile : {"absent", "partial", "whole"},
                      info : SUBSET {"name", "name.json"}]
  BY BoundsAssumption DEF Perform, Tasks, IInv, TypeOK
<1>2. CASE task' = [task EXCEPT ![t] = At("resolving", 0)]
  BY <1>1, <1>2, MovesKeeps
<1>3. ASSUME NEW b \in cache, task' = [task EXCEPT ![t] = Checking(b.left)]
      PROVE  IInv'
  <2>1. b \in Binding /\ cache = {b} /\ b.left \in Left
    BY <1>3 DEF IInv, TypeOK, Binding
  <2>2. /\ task' \in [Tasks -> TaskState]
        /\ task'[t] = Checking(b.left)
        /\ task'[t].pc = "checking" /\ task'[t].left = b.left
        /\ \A w \in Tasks \ {t} : task'[w] = task[w]
    BY <1>1, <1>3, <2>1, CheckingTyped
  <2>3. TypeOK'
    BY <1>1, <2>2 DEF IInv, TypeOK
  <2>4. TasksFit'
    BY <1>1, <2>2 DEF IInv, TasksFit
  <2>5. HeldIsCached'
    BY <1>1, <2>1, <2>2 DEF IInv, HeldIsCached, Held
  <2> QED BY <1>1, <2>3, <2>4, <2>5 DEF IInv, ProfileWhole, CachedWasBound
<1> QED BY <1>2, <1>3 DEF Perform

(* Time passes alike for what is cached and for what a task has got.       *)
LEMMA TickKeeps ==
  ASSUME IInv, Tick
  PROVE  IInv'
<1>1. /\ UNCHANGED <<setup, registry, files, profile, crashes>>
      /\ task \in [Tasks -> TaskState]
      /\ \A b \in cache : b \in Binding /\ cache = {b}
  BY DEF Tick, IInv, TypeOK
<1>2. \A left \in Left : Later(left) \in Left
  BY TimeoutAssumption DEF Later, Left
<1>3. \A b \in cache : /\ [b EXCEPT !.left = Later(@)] =
                            [version |-> b.version, left |-> Later(b.left)]
                       /\ [b EXCEPT !.left = Later(@)] \in Binding
                       /\ cache' = {[b EXCEPT !.left = Later(@)]}
  <2> SUFFICES ASSUME NEW b \in cache
               PROVE  /\ [b EXCEPT !.left = Later(@)] =
                            [version |-> b.version, left |-> Later(b.left)]
                      /\ [b EXCEPT !.left = Later(@)] \in Binding
                      /\ cache' = {[b EXCEPT !.left = Later(@)]}
    OBVIOUS
  <2>1. b.version \in Versions /\ b.left \in Left /\ Later(b.left) \in Left
    BY <1>1, <1>2 DEF Binding
  <2>2. [b EXCEPT !.left = Later(@)] = [version |-> b.version, left |-> Later(b.left)]
    BY <1>1 DEF Binding
  <2>3. [b EXCEPT !.left = Later(@)] \in Binding
    BY <2>1, <2>2 DEF Binding
  <2>4. cache' = {[b EXCEPT !.left = Later(@)]}
    BY <1>1 DEF Tick
  <2> QED BY <2>2, <2>3, <2>4
<1>4. cache = {} => cache' = {}
  BY DEF Tick
<1>5. \A t \in Tasks : /\ task'[t] = IF t \in Held
                                     THEN [task[t] EXCEPT !.left = Later(@)] ELSE task[t]
                       /\ task'[t] \in TaskState
                       /\ task'[t].pc = task[t].pc /\ task'[t].version = task[t].version
                       /\ task'[t].overtaken = task[t].overtaken
                       /\ t \in Held => task'[t].left = Later(task[t].left)
  <2> SUFFICES ASSUME NEW t \in Tasks
               PROVE  /\ task'[t] = IF t \in Held
                                     THEN [task[t] EXCEPT !.left = Later(@)] ELSE task[t]
                      /\ task'[t] \in TaskState
                      /\ task'[t].pc = task[t].pc /\ task'[t].version = task[t].version
                      /\ task'[t].overtaken = task[t].overtaken
                      /\ t \in Held => task'[t].left = Later(task[t].left)
    OBVIOUS
  <2>1. task'[t] = IF t \in Held THEN [task[t] EXCEPT !.left = Later(@)] ELSE task[t]
    BY DEF Tick
  <2>2. /\ task[t] \in TaskState
        /\ [task[t] EXCEPT !.left = Later(@)] =
             [pc |-> task[t].pc, version |-> task[t].version,
              left |-> Later(task[t].left), overtaken |-> task[t].overtaken]
    BY <1>1 DEF TaskState
  <2>3. [task[t] EXCEPT !.left = Later(@)] \in TaskState
    BY <1>2, <2>2 DEF TaskState
  <2>4. CASE t \in Held
    BY <2>1, <2>2, <2>3, <2>4
  <2>5. CASE t \notin Held
    BY <2>1, <2>2, <2>5
  <2> QED BY <2>4, <2>5, <2>1
<1>6. TypeOK'
  <2>1. task' \in [Tasks -> TaskState]
    <3>1. task' = [t \in Tasks |-> task'[t]]
      BY DEF Tick
    <3> QED BY <1>5, <3>1
  <2>2. \A c \in cache' : c \in Binding /\ cache' = {c}
    BY <1>3, <1>4
  <2> QED BY <1>1, <2>1, <2>2 DEF IInv, TypeOK
<1>7. ProfileWhole' /\ TasksFit'
  BY <1>1, <1>5 DEF IInv, ProfileWhole, TasksFit
<1>8. CachedWasBound'
  <2>1. \A c \in cache' : \E b \in cache : c.version = b.version
    BY <1>3, <1>4
  <2> QED BY <1>1, <2>1 DEF IInv, CachedWasBound
<1>9. HeldIsCached'
  <2> SUFFICES ASSUME NEW t \in Held', NEW c \in cache', ~task'[t].overtaken
               PROVE  c.left = task'[t].left
    BY DEF HeldIsCached
  <2>1. t \in Held /\ ~task[t].overtaken /\ task'[t].left = Later(task[t].left)
    BY <1>5 DEF Held
  <2>2. PICK b \in cache : c = [version |-> b.version, left |-> Later(b.left)]
    BY <1>3, <1>4
  <2>3. b.left = task[t].left
    BY <2>1, <2>2 DEF IInv, HeldIsCached
  <2> QED BY <2>1, <2>2, <2>3
<1> QED BY <1>6, <1>7, <1>8, <1>9 DEF IInv

(* The registry publishes, fails or comes back.                            *)
LEMMA RegistryKeeps ==
  ASSUME IInv, Publish \/ Outage
  PROVE  IInv'
<1>1. UNCHANGED <<setup, files, profile, cache, task, crashes>>
  BY DEF Publish, Outage
<1>2. registry' \in Registry
  BY BoundsAssumption DEF Publish, Outage, IInv, TypeOK, Registry
<1> QED BY <1>1, <1>2 DEF IInv, TypeOK, ProfileWhole, CachedWasBound, TasksFit,
                          HeldIsCached, Held

-----------------------------------------------------------------------------
(* However performs, background rebinds, other processes, the registry and *)
(* the end of the process interleave: a profile in use is whole, what is   *)
(* cached came out of a bind that succeeded, and a task that nobody has    *)
(* overtaken checks the expiry of what is cached.                          *)
THEOREM BindingInductive == Spec => []IInv
<1>1. Init => IInv
  <2> SUFFICES ASSUME Init PROVE IInv
    OBVIOUS
  <2>1. registry \in Registry /\ crashes \in 0..MaxCrashes
    BY BoundsAssumption DEF Init, Registry
  <2>2. task \in [Tasks -> TaskState]
    BY RestTyped DEF Init
  <2>3. TypeOK
    BY <2>1, <2>2 DEF Init, TypeOK, NoProfile
  <2> QED BY <2>3 DEF Init, IInv, ProfileWhole, CachedWasBound, TasksFit, HeldIsCached,
                      NoProfile, AtRest, At
<1>2. IInv /\ [Next]_vars => IInv'
  <2> SUFFICES ASSUME IInv, [Next]_vars PROVE IInv'
    OBVIOUS
  <2>1. CASE GetProfile \/ ProfileAnswer \/ ProfileSaved \/ OtherProcess
    BY <2>1, ProfileKeeps
  <2>2. CASE \E t \in Performs : Perform(t)
    BY <2>2, PerformKeeps
  <2>3. CASE \E t \in Tasks : Step(t)
    BY <2>3, StepKeeps
  <2>4. CASE Tick
    BY <2>4, TickKeeps
  <2>5. CASE Publish \/ Outage
    BY <2>5, RegistryKeeps
  <2>6. CASE Crash
    <3>1. /\ Restarted /\ UNCHANGED <<setup, registry>>
          /\ files' \in [profile : {"absent", "partial", "whole"},
                         info : SUBSET {"name", "name.json"}]
      BY <2>6 DEF Crash, IInv, TypeOK
    <3> QED BY <3>1, RestartKeeps
  <2>7. CASE UNCHANGED vars
    BY <2>7 DEF vars, IInv, TypeOK, ProfileWhole, CachedWasBound, TasksFit, HeldIsCached,
                Held
  <2> QED BY <2>1, <2>2, <2>3, <2>4, <2>5, <2>6, <2>7 DEF Next
<1> QED BY <1>1, <1>2, PTL DEF Spec

(* A binding that has not expired is lost to the end of the process, or to *)
(* a task that checks, too late, one it had got before and that has        *)
(* expired; failing and late binds and other performs never lose it.       *)
THEOREM FreshLostOnlyLate == Spec => FreshLostOnlyToLateCheck
<1>1. IInv /\ [Next]_vars =>
        (\A b \in cache :
           b.left >= 0 /\ cache' = {} /\ crashes' = crashes =>
             /\ \E t \in Held : task[t].overtaken /\ task'[t].pc # "checking"
             /\ \E r \in Rebinds : task'[r].pc = "resolving" /\ task[r].pc # "resolving")
          \/ UNCHANGED vars
  <2> SUFFICES ASSUME IInv, Next, NEW b \in cache,
                      b.left >= 0, cache' = {}, crashes' = crashes
               PROVE  /\ \E t \in Held : task[t].overtaken /\ task'[t].pc # "checking"
                      /\ \E r \in Rebinds : /\ task'[r].pc = "resolving"
                                            /\ task[r].pc # "resolving"
    OBVIOUS
  <2>0. /\ cache = {b} /\ b \in Binding /\ b.left \in Int
        /\ task \in [Tasks -> TaskState] /\ crashes \in 0..MaxCrashes
    BY TimeoutAssumption DEF IInv, TypeOK, Binding, Left
  <2>1. ~Restarted
    BY <2>0, BoundsAssumption DEF Restarted
  <2>2. \A t \in Tasks : /\ \A v \in Versions : ~Bound(t, v)
                         /\ ~Failed(t)
                         /\ \A pc, v : ~GoesOn(t, pc, v)
    BY <2>0, <2>1 DEF Bound, Failed, GoesOn
  <2>3. CASE \E t \in Tasks : Step(t)
    <3>1. PICK t \in Tasks : Step(t)
      BY <2>3
    <3>2. task[t].version \in Versions /\ 0 \in Versions
      BY <2>0, BoundsAssumption DEF TaskState
    <3>3. Check(t)
      BY <2>2, <3>1, <3>2 DEF Step, Resolve, BindAnswer, InfoAnswer, Save, ReadCopy
    <3>4. t \in Held /\ Expired(task[t])
      BY <2>0, <3>3 DEF Check, Held
    <3>5. PICK r \in Rebinds :
            /\ r = t \/ task[r].pc = "idle"
            /\ task' = [task EXCEPT ![t] = AtRest, ![r] = At("resolving", 0)]
      BY <2>0, <3>3 DEF Check
    <3>6. task[t].overtaken
      BY <2>0, <3>4 DEF IInv, HeldIsCached, Expired
    <3>7. /\ r \in Tasks /\ task'[r].pc = "resolving"
          /\ task'[t].pc \in {"idle", "resolving"}
      BY <2>0, <3>5 DEF Tasks, AtRest, At
    <3>8. task[r].pc # "resolving"
      BY <3>4, <3>5 DEF Held
    <3> QED BY <3>4, <3>6, <3>7, <3>8
  <2>4. ~\E t \in Performs : Perform(t)
    BY <2>0 DEF Perform
  <2>5. ~Tick
    BY <2>0 DEF Tick
  <2>6. ~(GetProfile \/ ProfileAnswer \/ ProfileSaved \/ OtherProcess \/ Publish \/ Outage)
    BY <2>0 DEF GetProfile, ProfileAnswer, ProfileSaved, OtherProcess, Publish, Outage
  <2> QED BY <2>1, <2>3, <2>4, <2>5, <2>6 DEF Next, Crash
<1> QED BY <1>1, BindingInductive, PTL DEF Spec, FreshLostOnlyToLateCheck
=============================================================================
