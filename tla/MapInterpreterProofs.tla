------------------------- MODULE MapInterpreterProofs -------------------------
(***************************************************************************)
(* Proofs about MapInterpreter, for every map of the grammar, any values,  *)
(* answers and files: the invariant of the stack, and with it that what    *)
(* the outcome statements of a map or an operation stated is what comes    *)
(* out of it, and where the flow ends.                                     *)
(***************************************************************************)
EXTENDS MapInterpreter, SequenceTheorems, TLAPS

-----------------------------------------------------------------------------
(* Outcomes that are held.                                                 *)

LEMMA NoOutcomeFields ==
  NoOutcome.stamp = 0 /\ ~NoOutcome.error /\ ~NoOutcome.fromHttp
BY DEF NoOutcome

(* Only the outcomes there are count, and only the calls below them.       *)
LEMMA HeldSame ==
  ASSUME NEW A, NEW B, NEW calls, NEW below, NEW told, NEW says,
         says.error = told.error, says.data = told.data,
         \A d \in DOMAIN A \cap DOMAIN B : B[d] = A[d],
         \A d \in DOMAIN A \ DOMAIN B : A[d] = NoOutcome,
         \A d \in DOMAIN B \ DOMAIN A : B[d] = NoOutcome,
         \A d \in DOMAIN A : (\E e \in calls : e < d) <=> (\E e \in below : e < d),
         Held(A, calls, told)
  PROVE  Held(B, below, says)
<1>1. Counted(says) = Counted(told) /\ (Fails(says) <=> Fails(told))
  BY DEF Counted, Fails
<1>2. \A d \in DOMAIN B : d \in DOMAIN A \/ B[d] = NoOutcome
  OBVIOUS
<1>3. Counted(told).stamp = 0 => \A d \in DOMAIN B : B[d] = NoOutcome
  BY <1>2 DEF Held
<1>4. ~Fails(told) => \A d \in DOMAIN B : ~B[d].error
  BY <1>2, NoOutcomeFields DEF Held
<1>5. ASSUME NEW d \in DOMAIN A, Counts(A, calls, told, d), Counted(told).stamp # 0
      PROVE  d \in DOMAIN B /\ Counts(B, below, says, d)
  <2>1. A[d].stamp # 0
    BY <1>5 DEF Counts
  <2>2. d \in DOMAIN B /\ B[d] = A[d]
    BY <2>1, NoOutcomeFields
  <2>3. \A e \in DOMAIN B : e > d => IF A[d].error THEN ~B[e].error ELSE B[e] = NoOutcome
    BY <1>2, <1>5, NoOutcomeFields DEF Counts
  <2>4. QED
    BY <1>1, <1>5, <2>2, <2>3 DEF Counts
<1>6. Counted(told).stamp # 0 => \E d \in DOMAIN B : Counts(B, below, says, d)
  BY <1>5 DEF Held
<1>7. QED
  BY <1>1, <1>3, <1>4, <1>6 DEF Held

(* What processChildResult makes of two outcomes.                          *)
Merged(current, other) == IF other = NoOutcome THEN current ELSE MergeOutcome(current, other)

(* The result of a child, merged into the outcome of its parent.           *)
LEMMA HeldMerged ==
  ASSUME NEW A, NEW B, NEW calls, NEW told, NEW k \in Nat,
         k \in DOMAIN A, k + 1 \in DOMAIN A, DOMAIN A \subseteq 1 .. k + 1,
         DOMAIN B = DOMAIN A \ {k + 1}, calls \subseteq 1 .. k,
         \A d \in DOMAIN B : d # k => B[d] = A[d],
         NEW m, m = Merged(A[k], A[k + 1]), B[k].stamp = m.stamp, B[k].error = m.error,
         m.error => B[k].statusCode = m.statusCode, ~m.error => B[k] = m,
         m.error => (B[k].fromHttp <=> m.fromHttp \/ k \in calls),
         k \in calls /\ A[k].error => A[k].fromHttp,
         Held(A, calls, told)
  PROVE  Held(B, calls, told)
<1>0. /\ k \in DOMAIN B
      /\ \A d \in DOMAIN B : d < k \/ d = k
      /\ \A d \in DOMAIN A : d \in DOMAIN B \/ d = k + 1
      /\ \A d \in DOMAIN A : d \in Nat
  OBVIOUS
<1>1. m = A[k] \/ (m = A[k + 1] /\ A[k + 1] # NoOutcome)
  BY DEF Merged, MergeOutcome
<1>2. Counted(told).stamp = 0 => \A d \in DOMAIN B : B[d] = NoOutcome
  BY <1>0, <1>1, NoOutcomeFields DEF Held
<1>3. ~Fails(told) => \A d \in DOMAIN B : ~B[d].error
  BY <1>0, <1>1 DEF Held
<1>4. ASSUME NEW d \in DOMAIN A, Counts(A, calls, told, d), Counted(told).stamp # 0
      PROVE  \E e \in DOMAIN B : Counts(B, calls, told, e)
  <2>1. CASE d < k
    <3>1. A[d].error => ~m.error
      BY <1>1, <1>4, <2>1, <1>0 DEF Counts
    <3>2. ~A[d].error => m = NoOutcome
      BY <1>1, <1>4, <2>1, <1>0 DEF Counts
    <3>3. IF A[d].error THEN ~B[k].error ELSE B[k] = NoOutcome
      BY <3>1, <3>2, NoOutcomeFields
    <3>4. d \in DOMAIN B /\ B[d] = A[d]
      BY <2>1, <1>0
    <3>5. \A e \in DOMAIN B : e > d => IF A[d].error THEN ~B[e].error ELSE B[e] = NoOutcome
      BY <1>0, <1>4, <3>3 DEF Counts
    <3>6. Counts(B, calls, told, d)
      BY <1>4, <3>4, <3>5 DEF Counts
    <3>7. QED
      BY <3>4, <3>6
  <2>2. CASE d = k
    <3>1. m = A[k]
      BY <1>0, <1>4, <2>2 DEF Counts, Merged, MergeOutcome
    <3>2. Counts(B, calls, told, k)
      BY <1>0, <1>4, <2>2, <3>1 DEF Counts
    <3>3. QED
      BY <1>0, <3>2
  <2>3. CASE d = k + 1
    <3>1. A[k + 1].stamp # 0 /\ A[k + 1] # NoOutcome
      BY <1>4, <2>3, NoOutcomeFields DEF Counts
    <3>2. ~A[k + 1].error => ~A[k].error
      BY <1>4, <2>3 DEF Counts, Held
    <3>3. m = A[k + 1]
      BY <3>1, <3>2 DEF Merged, MergeOutcome
    <3>4. A[k + 1].error => (B[k].fromHttp \/ (\E e \in calls : e < k)
                             <=> A[k + 1].fromHttp \/ (\E e \in calls : e < k + 1))
      BY <3>3
    <3>5. Counts(B, calls, told, k)
      BY <1>0, <1>4, <2>3, <3>3, <3>4 DEF Counts
    <3>6. QED
      BY <1>0, <3>5
  <2>4. QED
    BY <1>0, <2>1, <2>2, <2>3
<1>5. QED
  BY <1>2, <1>3, <1>4 DEF Held

(* A statement states an outcome above all others.                         *)
LEMMA HeldStated ==
  ASSUME NEW A, NEW B, NEW calls, NEW told, NEW says, NEW k \in Nat,
         k \in DOMAIN A, A[k] = NoOutcome, DOMAIN A \subseteq 1 .. k,
         DOMAIN B = DOMAIN A, \A d \in DOMAIN B : d # k => B[d] = A[d],
         B[k].stamp # 0, ~B[k].fromHttp, B[k].error \in BOOLEAN,
         IF B[k].error
         THEN /\ says.data = told.data
              /\ says.error.stamp = B[k].stamp /\ says.error.status = B[k].statusCode
              /\ says.error.http <=> \E e \in calls : e < k
         ELSE says.error = told.error /\ says.data.stamp = B[k].stamp,
         Held(A, calls, told)
  PROVE  Held(B, calls, says)
<1>0. \A d \in DOMAIN B : d \in Nat /\ (d < k \/ d = k)
  OBVIOUS
<1>1. CASE B[k].error
  <2>1. Fails(says) /\ Counted(says) = says.error
    BY <1>1 DEF Fails, Counted
  <2>2. Counts(B, calls, says, k)
    BY <1>0, <1>1, <2>1 DEF Counts
  <2>3. QED
    BY <1>1, <2>1, <2>2 DEF Held
<1>2. CASE ~B[k].error /\ Fails(told)
  <2>1. Fails(says) /\ Counted(says) = Counted(told) /\ Counted(told).stamp # 0
    BY <1>2 DEF Fails, Counted
  <2>2. PICK d \in DOMAIN A : Counts(A, calls, told, d)
    BY <2>1 DEF Held
  <2>3. d # k /\ A[d].error
    BY <1>2, <2>1, <2>2, NoOutcomeFields DEF Counts
  <2>4. Counts(B, calls, says, d)
    BY <1>2, <2>1, <2>2, <2>3 DEF Counts
  <2>5. QED
    BY <2>1, <2>4 DEF Held
<1>3. CASE ~B[k].error /\ ~Fails(told)
  <2>1. ~Fails(says) /\ Counted(says) = says.data
    BY <1>3 DEF Fails, Counted
  <2>2. Counts(B, calls, says, k)
    BY <1>0, <1>3, <2>1 DEF Counts
  <2>3. \A d \in DOMAIN B : ~B[d].error
    BY <1>3 DEF Held
  <2>4. QED
    BY <1>3, <2>1, <2>2, <2>3 DEF Held
<1>4. QED
  BY <1>1, <1>2, <1>3

-----------------------------------------------------------------------------
(* The nodes of a map, and the frames of the stack.                        *)

Nodes(kinds) == {n \in DOMAIN ast : ast[n].kind \in kinds}

LEMMA ChildNode ==
  ASSUME NEW kinds, NEW children \in Seq(Nodes(kinds)), NEW i \in Nat, i < Len(children)
  PROVE  children[i + 1] \in DOMAIN ast /\ ast[children[i + 1]].kind \in kinds
BY ElementOfSeq, LenProperties DEF Nodes

LEMMA Grammar ==
  ASSUME ast \in Programs, NEW n \in DOMAIN ast
  PROVE  /\ ast[n].kind \in Definitions \cup Calls \cup {"HttpResponseHandler"} =>
              ast[n].statements \in Seq(Nodes(StatementKinds))
         /\ ast[n].kind = "PrimitiveLiteral" => ast[n].value \in Values
         /\ ast[n].kind = "JessieExpression" => ast[n].values \subseteq Values
         /\ ast[n].kind \in Objects => ast[n].fields \in Seq(Nodes(Expressions))
         /\ ast[n].kind = "ConditionAtom" => ast[n].expression \in Nodes(Expressions)
         /\ ast[n].kind = "IterationAtom" => ast[n].iterable \in Nodes(Expressions)
         /\ ast[n].kind \in Calls \cup {"SetStatement", "OutcomeStatement"} =>
              ast[n].condition \in Nodes({"ConditionAtom"}) \cup {None}
         /\ ast[n].kind = "SetStatement" => ast[n].assignments \in Seq(Nodes({"Assignment"}))
         /\ ast[n].kind \in Calls =>
              /\ ast[n].iteration \in Nodes({"IterationAtom"}) \cup {None}
              /\ ast[n].arguments \in Seq(Nodes({"Assignment"}))
              /\ ast[n].operation \in Nodes({"OperationDefinition"}) \cup {None}
         /\ ast[n].kind = "HttpCallStatement" =>
              /\ ast[n].request \in Nodes({"HttpRequest"}) \cup {None}
              /\ ast[n].responseHandlers \in Seq(Nodes({"HttpResponseHandler"}))
         /\ ast[n].kind = "OutcomeStatement" =>
              /\ ast[n].value \in Nodes(Expressions)
              /\ ast[n].isError \in BOOLEAN /\ ast[n].terminateFlow \in BOOLEAN
<1>1. WellFormed(ast, ast[n])
  BY ProgramsAssumption
<1>2. QED
  BY <1>1 DEF WellFormed, Definitions, Objects, Calls, Nodes

(* The map runs, and something is visited.                                 *)
Runs == TypeOK /\ status = "running" /\ StackFits /\ Depth > 0

LEMMA RunsFacts ==
  ASSUME Runs
  PROVE  /\ Depth \in Nat /\ Depth > 0 /\ Depth <= Len(said)
         /\ frames \in Seq(Frame) /\ said \in Seq(Told) /\ Len(said) \in Nat
         /\ \A d \in 1 .. Depth : frames[d] \in Frame /\ frames[d].act \in 1 .. d
         /\ \A d \in 1 .. Depth : said[d] \in Told
         /\ \A d \in 1 .. Depth : frames[d].node \in DOMAIN ast
         /\ Top \in Frame /\ Top.act \in 1 .. Depth /\ said[Top.act] \in Told
         /\ Depth \in 1 .. Depth
<1>1. frames \in Seq(Frame) /\ said \in Seq(Told)
  BY DEF Runs, TypeOK
<1>2. Depth \in Nat /\ Len(said) \in Nat
  BY <1>1, LenProperties DEF Depth
<1>3. Depth > 0 /\ Depth <= Len(said) /\ \A d \in 1 .. Depth : FrameFits(d)
  BY DEF Runs, StackFits
<1>4. \A d \in 1 .. Depth : frames[d] \in Frame /\ said[d] \in Told
  BY <1>1, <1>2, <1>3, ElementOfSeq DEF Depth
<1>5. \A d \in 1 .. Depth : frames[d].act \in 1 .. d
  BY <1>3 DEF FrameFits
<1>6. \A d \in 1 .. Depth : frames[d].node \in DOMAIN ast
  BY <1>4 DEF Frame
<1>7. QED
  BY <1>1, <1>2, <1>3, <1>4, <1>5, <1>6 DEF Top

-----------------------------------------------------------------------------
(* A visitor that is ready to go on: what its activation said is in its    *)
(* outcome and in those below it, and its scope is the current one.        *)

Own(outcome) ==
  [d \in {e \in 1 .. Depth : frames[e].act = Top.act} |->
     IF d = Depth THEN outcome ELSE frames[d].outcome]

Ready(f, told) ==
  /\ f \in Frame /\ f.node = Top.node /\ f.act = Top.act /\ told \in Told
  /\ f.scope = [owner |-> f.act, statusCode |-> told.status]
  /\ Visited.kind = "HttpCallStatement" /\ f.outcome.error => f.outcome.fromHttp
  /\ Held(Own(f.outcome), HttpCalls(Top.act), told)

Collects(f) == f.outcome # NoOutcome => Visited.kind \in Collectors

LEMMA OwnFacts ==
  ASSUME Runs, NEW outcome
  PROVE  /\ Depth \in DOMAIN Own(outcome) /\ DOMAIN Own(outcome) \subseteq 1 .. Depth
         /\ Own(outcome)[Depth] = outcome
         /\ \A d \in DOMAIN Own(outcome) : d # Depth => Own(outcome)[d] = frames[d].outcome
         /\ \A d \in 1 .. Depth : d \in DOMAIN Own(outcome) <=> frames[d].act = Top.act
BY RunsFacts DEF Own, Top

(* The outcomes of the activation of the visitor on top.                   *)
LEMMA TopOutcomes ==
  ASSUME Runs
  PROVE  LET A == Outcomes(Top.act)
         IN /\ \A d \in 1 .. Depth :
                 /\ d \in DOMAIN A <=> frames[d].act = Top.act
                 /\ d \in DOMAIN A => A[d] = frames[d].outcome
            /\ DOMAIN A \subseteq 1 .. Depth + 1
            /\ Depth + 1 \in DOMAIN A <=> last.given /\ Top.at # "operation"
            /\ Depth + 1 \in DOMAIN A => A[Depth + 1] = last.outcome
BY RunsFacts DEF Outcomes, Carries, Carried, Receiver, Top

LEMMA TopFits ==
  ASSUME Runs
  PROVE  /\ FrameFits(Depth) /\ Holds(Top.act) /\ ResultFits /\ HandlerSees
         /\ EndedFits /\ StoppedFits
         /\ last.scope \in Scope /\ last.outcome \in OutcomeValue /\ last.value \in Values
<1>1. FrameFits(Depth) /\ frames[Depth].act \in Active
  BY RunsFacts DEF Runs, StackFits, Active
<1>2. QED
  BY <1>1 DEF Runs, StackFits, Top, TypeOK

(* A visitor that did not wait for a statement has all it needs.           *)
LEMMA TopReady ==
  ASSUME Runs, Top.at \notin StatementPlaces
  PROVE  Ready(Top, said[Top.act]) /\ Collects(Top)
<1>1. /\ Top.scope = [owner |-> Top.act, statusCode |-> said[Top.act].status]
      /\ Visited.kind = "HttpCallStatement" /\ Top.outcome.error => Top.outcome.fromHttp
      /\ Collects(Top)
  BY TopFits DEF FrameFits, Collects, LatestStatus, KindAt, Visited, Top
<1> DEFINE A == Outcomes(Top.act)
           B == Own(Top.outcome)
<1>2. Depth + 1 \in DOMAIN A => A[Depth + 1] = NoOutcome
  <2>1. Top.at \in Place
    BY RunsFacts DEF Frame
  <2>2. QED
    BY <2>1, TopOutcomes, TopFits, RunsFacts DEF ResultFits, Place
<1>3. /\ \A d \in DOMAIN A \cap DOMAIN B : B[d] = A[d]
      /\ \A d \in DOMAIN A \ DOMAIN B : A[d] = NoOutcome
      /\ \A d \in DOMAIN B \ DOMAIN A : B[d] = NoOutcome
  <2> HIDE DEF A, B
  <2>1. DOMAIN A \subseteq 1 .. Depth + 1 /\ DOMAIN B \subseteq 1 .. Depth
    BY TopOutcomes, OwnFacts DEF A, B
  <2>2. \A d \in 1 .. Depth : d \in DOMAIN A <=> d \in DOMAIN B
    BY TopOutcomes, OwnFacts DEF A, B
  <2>3. \A d \in 1 .. Depth : d \in DOMAIN A => A[d] = B[d]
    BY TopOutcomes, OwnFacts DEF A, B, Top
  <2>4. QED
    BY <1>2, <2>1, <2>2, <2>3, RunsFacts
<1>4. Held(A, HttpCalls(Top.act), said[Top.act])
  BY TopFits DEF Holds
<1>5. Held(B, HttpCalls(Top.act), said[Top.act])
  <2> HIDE DEF A, B
  <2>1. QED
    BY <1>3, <1>4, HeldSame
<1>6. QED
  BY <1>1, <1>5, RunsFacts DEF Ready

(* Only the scope and the outcome matter.                                  *)
LEMMA ReadySame ==
  ASSUME NEW f, NEW g \in Frame, NEW told, Ready(f, told),
         g.node = f.node, g.act = f.act, g.scope = f.scope, g.outcome = f.outcome
  PROVE  Ready(g, told) /\ (Collects(f) => Collects(g))
BY DEF Ready, Collects

LEMMA ProcessedFields ==
  ASSUME NEW f \in Frame, last.scope \in Scope, last.outcome \in OutcomeValue
  PROVE  LET g == Processed(f)
         IN /\ g \in Frame
            /\ g.node = f.node /\ g.act = f.act /\ g.at = f.at /\ g.i = f.i
            /\ g.rest = f.rest /\ g.response = f.response /\ g.value = f.value
            /\ g.failed = f.failed
            /\ g.scope = last.scope /\ g.outcome = Merged(f.outcome, last.outcome)
BY DEF Processed, Merged, MergeOutcome, Frame

LEMMA FromHttpFields ==
  ASSUME NEW f \in Frame
  PROVE  LET g == FromHttp(f)
         IN /\ g \in Frame
            /\ g.node = f.node /\ g.act = f.act /\ g.at = f.at /\ g.i = f.i
            /\ g.rest = f.rest /\ g.response = f.response /\ g.value = f.value
            /\ g.failed = f.failed /\ g.scope = f.scope
            /\ g.outcome.stamp = f.outcome.stamp
            /\ g.outcome.error <=> f.outcome.error
            /\ g.outcome.error = f.outcome.error
            /\ g.outcome.statusCode = f.outcome.statusCode
            /\ f.outcome.error => g.outcome.fromHttp
            /\ ~f.outcome.error => g.outcome = f.outcome
BY DEF FromHttp, Frame, OutcomeValue

LEMMA MergedFields ==
  ASSUME NEW current \in OutcomeValue, NEW other \in OutcomeValue
  PROVE  /\ Merged(current, other) \in OutcomeValue
         /\ Merged(current, other) # NoOutcome => current # NoOutcome \/ other # NoOutcome
BY DEF Merged, MergeOutcome

(* A visitor that waited for a statement is ready when it has processed    *)
(* the result; that of an HTTP call also marks an error.                   *)
LEMMA MergedReady ==
  ASSUME Runs, Top.at \in StatementPlaces, NEW f \in Frame,
         f.node = Top.node, f.act = Top.act, f.scope = last.scope,
         LET m == Merged(Top.outcome, last.outcome)
         IN IF Visited.kind = "HttpCallStatement" /\ m.error
            THEN /\ f.outcome.stamp = m.stamp /\ f.outcome.error = m.error
                 /\ f.outcome.statusCode = m.statusCode /\ f.outcome.fromHttp
            ELSE f.outcome = m
  PROVE  Ready(f, said[Top.act]) /\ Collects(f)
<1> DEFINE A == Outcomes(Top.act)
           B == Own(f.outcome)
           m == Merged(Top.outcome, last.outcome)
<1>1. last.given /\ Top.at # "operation" /\ Receiver = Top.act
  BY RunsFacts, TopFits DEF ResultFits, StatementPlaces, OwnPlaces, Receiver
<1>2. /\ last.scope = [owner |-> Top.act, statusCode |-> said[Top.act].status]
      /\ Visited.kind \in Collectors
      /\ Visited.kind = "HttpCallStatement" /\ Top.outcome.error => Top.outcome.fromHttp
  BY <1>1, TopFits DEF ResultFits, FrameFits, LatestStatus, KindAt, Visited, Top
<1>3. /\ Depth \in DOMAIN A /\ Depth + 1 \in DOMAIN A /\ DOMAIN A \subseteq 1 .. Depth + 1
      /\ A[Depth] = Top.outcome /\ A[Depth + 1] = last.outcome
  BY <1>1, TopOutcomes, RunsFacts DEF Top
<1>4. DOMAIN B = DOMAIN A \ {Depth + 1}
  <2> HIDE DEF A, B
  <2>1. DOMAIN A \subseteq 1 .. Depth + 1 /\ DOMAIN B \subseteq 1 .. Depth
    BY TopOutcomes, OwnFacts DEF A, B
  <2>2. \A d \in 1 .. Depth : d \in DOMAIN A <=> d \in DOMAIN B
    BY TopOutcomes, OwnFacts DEF A, B
  <2>3. Depth \in Nat
    BY RunsFacts
  <2>4. \A d : d \in DOMAIN B <=> d \in DOMAIN A \ {Depth + 1}
    BY <2>1, <2>2, <2>3
  <2>5. QED
    BY <2>4
<1>5. \A d \in DOMAIN B : d # Depth => B[d] = A[d]
  <2> HIDE DEF A, B
  <2>1. QED
    BY <1>4, TopOutcomes, OwnFacts DEF A, B
<1>6. B[Depth] = f.outcome
  BY OwnFacts
<1>7. /\ Depth \in HttpCalls(Top.act) <=> Visited.kind = "HttpCallStatement"
      /\ HttpCalls(Top.act) \subseteq 1 .. Depth
  BY RunsFacts DEF HttpCalls, KindAt, Visited, Top
<1>8. Held(A, HttpCalls(Top.act), said[Top.act])
  BY TopFits DEF Holds
<1>9. /\ f.outcome.stamp = m.stamp /\ f.outcome.error = m.error
      /\ m.error => f.outcome.statusCode = m.statusCode
      /\ ~m.error => f.outcome = m
      /\ m.error => (f.outcome.fromHttp <=> m.fromHttp \/ Visited.kind = "HttpCallStatement")
  OBVIOUS
<1>10. Held(B, HttpCalls(Top.act), said[Top.act])
  <2> DEFINE k == Depth
             calls == HttpCalls(Top.act)
             told == said[Top.act]
             outcome == f.outcome
             mk == Merged(A[k], A[k + 1])
  <2>1. m = mk
    BY <1>3
  <2>2. /\ B[k].stamp = mk.stamp /\ B[k].error = mk.error
        /\ mk.error => B[k].statusCode = mk.statusCode
        /\ ~mk.error => B[k] = mk
        /\ mk.error => (B[k].fromHttp <=> mk.fromHttp \/ k \in calls)
    BY <1>6, <1>7, <1>9, <2>1
  <2>3. k \in calls /\ A[k].error => A[k].fromHttp
    BY <1>2, <1>3, <1>7
  <2>4. k \in Nat /\ k \in DOMAIN A /\ k + 1 \in DOMAIN A /\ DOMAIN A \subseteq 1 .. k + 1
        /\ calls \subseteq 1 .. k
    BY <1>3, <1>7, RunsFacts
  <2> HIDE DEF A, B, k, calls, told, mk
  <2>5. Held(A, calls, told)
    BY <1>8 DEF calls, told
  <2>6. DOMAIN B = DOMAIN A \ {k + 1} /\ \A d \in DOMAIN B : d # k => B[d] = A[d]
    BY <1>4, <1>5 DEF k
  <2>7. mk = Merged(A[k], A[k + 1])
    BY DEF mk
  <2>8. Held(B, calls, told)
    BY <2>2, <2>3, <2>4, <2>5, <2>6, <2>7, HeldMerged, ZenonT(60)
  <2>9. QED
    BY <2>8 DEF calls, told
<1>11. Visited.kind = "HttpCallStatement" /\ f.outcome.error => f.outcome.fromHttp
  BY <1>9
<1>12. QED
  BY <1>2, <1>10, <1>11, RunsFacts DEF Ready, Collects

LEMMA StatementReady ==
  ASSUME Runs, Top.at \in StatementPlaces
  PROVE  /\ Visited.kind # "HttpCallStatement" =>
              Ready(Processed(Top), said[Top.act]) /\ Collects(Processed(Top))
         /\ Visited.kind = "HttpCallStatement" =>
              /\ Ready(FromHttp(Processed(Top)), said[Top.act])
              /\ Collects(FromHttp(Processed(Top)))
<1> DEFINE f == Processed(Top)
           g == FromHttp(f)
           m == Merged(Top.outcome, last.outcome)
<1>1. /\ f \in Frame /\ f.node = Top.node /\ f.act = Top.act
      /\ f.scope = last.scope /\ f.outcome = m
  BY ProcessedFields, TopFits, RunsFacts
<1>2. /\ g \in Frame /\ g.node = f.node /\ g.act = f.act
      /\ g.scope = f.scope /\ g.outcome.stamp = f.outcome.stamp
      /\ g.outcome.error = f.outcome.error
      /\ g.outcome.statusCode = f.outcome.statusCode
      /\ f.outcome.error => g.outcome.fromHttp
      /\ ~f.outcome.error => g.outcome = f.outcome
  BY <1>1, FromHttpFields
<1> HIDE DEF f, g
<1>3. ASSUME Visited.kind # "HttpCallStatement"
      PROVE  Ready(f, said[Top.act]) /\ Collects(f)
  BY <1>1, <1>3, MergedReady
<1>4. ASSUME Visited.kind = "HttpCallStatement"
      PROVE  Ready(g, said[Top.act]) /\ Collects(g)
  BY <1>1, <1>2, <1>4, MergedReady
<1>5. QED
  BY <1>3, <1>4 DEF f, g

-----------------------------------------------------------------------------
(* What a step does to the stack and to the history.                       *)

LEMMA SameFrames ==
  ASSUME ast' = ast
  PROVE  Frame' = Frame /\ Told' = Told
BY DEF Frame, Told, Scope, OutcomeValue, StatedOutcome, StatusCodes, Place, OwnPlaces,
       ValuePlaces, StatementPlaces, NoResponse

LEMMA RememberEffect ==
  ASSUME Runs, NEW act \in 1 .. Depth, NEW told \in Told, NEW depth \in Depth .. Depth + 1,
         Remember(act, told, depth)
  PROVE  /\ said' \in Seq(Told) /\ Len(said') = depth
         /\ said'[act] = told
         /\ \A d \in 1 .. Depth : d # act => said'[d] = said[d]
         /\ depth = Depth + 1 => said'[Depth + 1] = NothingSaid
<1> DEFINE says(d) == IF d = act THEN told ELSE IF d <= Depth THEN said[d] ELSE NothingSaid
<1>1. said' = [d \in 1 .. depth |-> says(d)]
  BY DEF Remember
<1>2. NothingSaid \in Told
  BY DEF NothingSaid, NoStatement, Told, StatedOutcome, StatusCodes
<1>3. \A d \in 1 .. depth : says(d) \in Told
  BY <1>2, RunsFacts
<1>4. depth \in Nat /\ act \in 1 .. depth /\ \A d \in 1 .. Depth : d \in 1 .. depth
  BY RunsFacts
<1>5. said' \in Seq(Told)
  <2> HIDE DEF says
  <2>1. [d \in 1 .. depth |-> says(d)] \in [1 .. depth -> Told]
    BY <1>3
  <2>2. QED
    BY <1>1, <1>4, <2>1, SeqDef
<1>6. Len(said') = depth
  <2> HIDE DEF says
  <2>1. DOMAIN said' = 1 .. depth
    BY <1>1
  <2>2. QED
    BY <1>4, <1>5, <2>1, LenProperties
<1>7. QED
  BY <1>1, <1>4, <1>5, <1>6, RunsFacts

LEMMA PlacedFields ==
  ASSUME NEW f \in Frame, NEW place \in Place
  PROVE  LET g == [f EXCEPT !.at = place]
         IN /\ g \in Frame /\ g.node = f.node /\ g.act = f.act /\ g.at = place
            /\ g.scope = f.scope /\ g.outcome = f.outcome
            /\ g.response = f.response /\ g.failed = f.failed
BY DEF Frame

LEMMA NewFrameFields ==
  ASSUME NEW child \in DOMAIN ast, NEW scope \in Scope, NEW act \in Nat
  PROVE  LET g == NewFrame(child, scope, act)
         IN /\ g \in Frame /\ g.node = child /\ g.act = act /\ g.at = "start"
            /\ g.scope = scope /\ g.outcome = NoOutcome
<1>1. NoOutcome \in OutcomeValue /\ "undefined" \in Values
  BY InterpreterAssumption DEF NoOutcome, OutcomeValue, StatusCodes
<1>2. QED
  BY <1>1 DEF NewFrame, Frame, Place, OwnPlaces, NoResponse

LEMMA PushEffect ==
  ASSUME Runs, NEW f, NEW place \in Place, NEW told, Ready(f, told),
         NEW child \in DOMAIN ast, NEW scope \in Scope, NEW act \in Nat,
         Push(f, place, NewFrame(child, scope, act), told)
  PROVE  /\ frames' \in Seq(Frame) /\ Len(frames') = Depth + 1
         /\ \A d \in 1 .. Depth : d # Depth => frames'[d] = frames[d]
         /\ frames'[Depth].node = Top.node /\ frames'[Depth].act = Top.act
         /\ frames'[Depth].at = place /\ frames'[Depth].scope = f.scope
         /\ frames'[Depth].outcome = f.outcome /\ frames'[Depth].response = f.response
         /\ frames'[Depth].failed = f.failed
         /\ frames'[Depth + 1].node = child /\ frames'[Depth + 1].act = act
         /\ frames'[Depth + 1].at = "start" /\ frames'[Depth + 1].scope = scope
         /\ frames'[Depth + 1].outcome = NoOutcome
         /\ said' \in Seq(Told) /\ Len(said') = Depth + 1 /\ said'[Top.act] = told
         /\ \A d \in 1 .. Depth : d # Top.act => said'[d] = said[d]
         /\ said'[Depth + 1] = NothingSaid
         /\ last' = NoResult /\ ended' = {a \in ended : a <= Depth}
         /\ UNCHANGED <<ast, external, status, opened, result, stopped>>
<1> DEFINE g == [f EXCEPT !.at = place]
           new == NewFrame(child, scope, act)
           moved == [frames EXCEPT ![Depth] = g]
<1>1. f \in Frame /\ f.node = Top.node /\ f.act = Top.act /\ told \in Told
  BY DEF Ready
<1>2. g \in Frame /\ g.node = f.node /\ g.act = f.act /\ g.at = place
      /\ g.scope = f.scope /\ g.outcome = f.outcome
      /\ g.response = f.response /\ g.failed = f.failed
  BY <1>1, PlacedFields
<1>3. new \in Frame /\ new.node = child /\ new.act = act /\ new.at = "start"
      /\ new.scope = scope /\ new.outcome = NoOutcome
  BY NewFrameFields
<1>4. /\ frames' = Append(moved, new) /\ Remember(f.act, told, Depth + 1)
      /\ last' = NoResult /\ ended' = {a \in ended : a <= Depth}
      /\ UNCHANGED <<ast, external, status, opened, result, stopped>>
  BY DEF Push, setting
<1> HIDE DEF g, new
<1>5. /\ moved \in Seq(Frame) /\ Len(moved) = Depth
      /\ \A d \in 1 .. Depth : moved[d] = IF d = Depth THEN g ELSE frames[d]
  BY <1>2, RunsFacts, ExceptSeq DEF Depth
<1> HIDE DEF moved
<1>6. /\ frames' \in Seq(Frame) /\ Len(frames') = Depth + 1
      /\ \A d \in 1 .. Depth : frames'[d] = moved[d]
      /\ frames'[Depth + 1] = new
  BY <1>3, <1>4, <1>5, AppendProperties
<1>7. frames'[Depth] = g /\ \A d \in 1 .. Depth : d # Depth => frames'[d] = frames[d]
  BY <1>5, <1>6, RunsFacts
<1>8. /\ said' \in Seq(Told) /\ Len(said') = Depth + 1 /\ said'[Top.act] = told
      /\ \A d \in 1 .. Depth : d # Top.act => said'[d] = said[d]
      /\ said'[Depth + 1] = NothingSaid
  <2>1. Remember(Top.act, told, Depth + 1)
    BY <1>1, <1>4
  <2>2. Depth + 1 \in Depth .. Depth + 1 /\ Top.act \in 1 .. Depth /\ told \in Told
    BY <1>1, RunsFacts
  <2>3. QED
    BY <2>1, <2>2, RememberEffect
<1>9. QED
  BY <1>1, <1>2, <1>3, <1>4, <1>6, <1>7, <1>8

LEMMA GotoEffect ==
  ASSUME Runs, NEW f, NEW place \in Place, NEW told, Ready(f, told), Goto(f, place)
  PROVE  /\ frames' \in Seq(Frame) /\ Len(frames') = Depth
         /\ \A d \in 1 .. Depth : d # Depth => frames'[d] = frames[d]
         /\ frames'[Depth].node = Top.node /\ frames'[Depth].act = Top.act
         /\ frames'[Depth].at = place /\ frames'[Depth].scope = f.scope
         /\ frames'[Depth].outcome = f.outcome
         /\ last' = NoResult
         /\ UNCHANGED <<ast, external, status, opened, result, said, ended, stopped>>
<1> DEFINE g == [f EXCEPT !.at = place]
<1>1. f \in Frame /\ f.node = Top.node /\ f.act = Top.act
  BY DEF Ready
<1>2. g \in Frame /\ g.node = f.node /\ g.act = f.act /\ g.at = place
      /\ g.scope = f.scope /\ g.outcome = f.outcome
  BY <1>1, PlacedFields
<1>3. /\ frames' = [frames EXCEPT ![Depth] = g] /\ last' = NoResult
      /\ UNCHANGED <<ast, external, status, opened, result, said, ended, stopped>>
  BY DEF Goto, setting, history
<1> HIDE DEF g
<1>4. /\ frames' \in Seq(Frame) /\ Len(frames') = Depth
      /\ \A d \in 1 .. Depth : frames'[d] = IF d = Depth THEN g ELSE frames[d]
  BY <1>2, <1>3, RunsFacts, ExceptSeq DEF Depth
<1>5. QED
  BY <1>1, <1>2, <1>3, <1>4, RunsFacts

LEMMA ReturnEffect ==
  ASSUME Runs, NEW f, NEW value, NEW terminate \in BOOLEAN, NEW told, Ready(f, told),
         terminate => f.outcome # NoOutcome, ReturnSaying(f, value, terminate, told)
  PROVE  /\ frames' \in Seq(Frame) /\ Len(frames') = Depth - 1
         /\ \A d \in 1 .. Depth - 1 : frames'[d] = frames[d]
         /\ said' \in Seq(Told) /\ Len(said') = Depth /\ said'[Top.act] = told
         /\ \A d \in 1 .. Depth : d # Top.act => said'[d] = said[d]
         /\ last' = [given |-> TRUE, scope |-> f.scope, value |-> value,
                     outcome |-> f.outcome, terminate |-> terminate]
         /\ ended' = {a \in ended : a <= Depth} \cup (IF terminate THEN {Top.act} ELSE {})
         /\ stopped' = {call \in stopped : call < Depth} \cup
                       (IF Top.act = Depth /\ Failed(Top.act) THEN {Depth - 1} ELSE {})
         /\ UNCHANGED <<ast, external, status, opened, result>>
<1>1. f \in Frame /\ f.act = Top.act /\ told \in Told
  BY DEF Ready
<1>2. /\ frames' = Front(frames) /\ Remember(f.act, told, Depth)
      /\ last' = [given |-> TRUE, scope |-> f.scope, value |-> value,
                  outcome |-> f.outcome, terminate |-> terminate]
      /\ ended' = {a \in ended : a <= Depth} \cup (IF terminate THEN {Top.act} ELSE {})
      /\ stopped' = {call \in stopped : call < Depth} \cup
                    (IF Top.act = Depth /\ Failed(Top.act) THEN {Depth - 1} ELSE {})
      /\ UNCHANGED <<ast, external, status, opened, result>>
  BY <1>1 DEF ReturnSaying, setting
<1>3. /\ frames' \in Seq(Frame) /\ Len(frames') = Depth - 1
      /\ \A d \in 1 .. Depth - 1 : frames'[d] = frames[d]
  <2>1. frames' = SubSeq(frames, 1, Depth - 1)
    BY <1>2 DEF Front, Depth
  <2>2. \A i \in 1 .. Depth - 1 : frames[i] \in Frame
    BY RunsFacts
  <2>3. 1 \in Int /\ Depth - 1 \in Int
    BY RunsFacts
  <2>4. /\ frames' \in Seq(Frame)
        /\ Len(frames') = IF 1 <= Depth - 1 THEN (Depth - 1) - 1 + 1 ELSE 0
        /\ \A i \in 1 .. (Depth - 1) - 1 + 1 : frames'[i] = frames[1 + i - 1]
    BY <2>1, <2>2, <2>3, SubSeqProperties
  <2>5. QED
    BY <2>4, RunsFacts
<1>4. /\ said' \in Seq(Told) /\ Len(said') = Depth /\ said'[Top.act] = told
      /\ \A d \in 1 .. Depth : d # Top.act => said'[d] = said[d]
  BY <1>1, <1>2, RunsFacts, RememberEffect
<1>5. QED
  BY <1>2, <1>3, <1>4

-----------------------------------------------------------------------------
(* Outcomes stay held.                                                     *)

(* Those of an activation that waits are left alone.                       *)
LEMMA OthersHold ==
  ASSUME Runs, NEW b \in 1 .. Depth, b # Top.act, Holds(b), ast' = ast,
         Len(frames') \in Depth - 1 .. Depth + 1,
         \A d \in 1 .. Depth : d # Depth /\ d <= Len(frames') => frames'[d] = frames[d],
         \A d \in 1 .. Len(frames') : d >= Depth => frames'[d].act # b,
         last'.given => Receiver' # b,
         said'[b] = said[b]
  PROVE  Holds(b)'
<1> DEFINE A == Outcomes(b)
           B == Outcomes(b)'
           n == Len(frames')
<1>1. /\ \A d \in DOMAIN A : d \in 1 .. Depth /\ frames[d].act = b
      /\ \A d \in 1 .. Depth : frames[d].act = b => d \in DOMAIN A
      /\ \A d \in DOMAIN A : A[d] = frames[d].outcome
  BY RunsFacts DEF Outcomes, Carries, Carried, Receiver, Top
<1>2. n \in Nat
  BY RunsFacts
<1>3. /\ \A d \in DOMAIN B : d \in 1 .. n /\ frames'[d].act = b
      /\ \A d \in 1 .. n : frames'[d].act = b => d \in DOMAIN B
      /\ \A d \in DOMAIN B : B[d] = frames'[d].outcome
  <2>1. ~(last'.given /\ b = Receiver')
    OBVIOUS
  <2>2. DOMAIN B = {e \in 1 .. n + 1 : Carries(b, e)'}
        /\ \A d \in DOMAIN B : B[d] = Carried(d)'
    BY DEF Outcomes, Depth
  <2>3. \A d \in 1 .. n + 1 : Carries(b, d)' <=> d \in 1 .. n /\ frames'[d].act = b
    BY <2>1 DEF Carries, Depth
  <2>4. \A d \in 1 .. n : Carried(d)' = frames'[d].outcome
    BY <1>2 DEF Carried, Depth
  <2> HIDE DEF B, n
  <2>5. QED
    BY <1>2, <2>2, <2>3, <2>4
<1>4. \A d \in 1 .. n : frames'[d].act = b => d \in 1 .. Depth /\ frames'[d] = frames[d]
  BY RunsFacts
<1>5. \A d \in 1 .. Depth : frames[d].act = b => d \in 1 .. n /\ frames'[d] = frames[d]
  <2> SUFFICES ASSUME NEW d \in 1 .. Depth, frames[d].act = b
               PROVE  d \in 1 .. n /\ frames'[d] = frames[d]
    OBVIOUS
  <2>1. d # Depth
    BY DEF Top
  <2>2. d \in 1 .. n /\ d <= n
    BY <1>2, <2>1, RunsFacts
  <2>3. QED
    BY <2>1, <2>2
<1>6. /\ \A d \in DOMAIN A \cap DOMAIN B : B[d] = A[d]
      /\ \A d \in DOMAIN A \ DOMAIN B : A[d] = NoOutcome
      /\ \A d \in DOMAIN B \ DOMAIN A : B[d] = NoOutcome
  <2> HIDE DEF A, B, n
  <2>1. QED
    BY <1>1, <1>3, <1>4, <1>5
<1>7. HttpCalls(b)' = HttpCalls(b)
  BY <1>4, <1>5 DEF HttpCalls, KindAt, Depth
<1>8. Held(A, HttpCalls(b), said[b])
  BY DEF Holds
<1>9. Held(B, HttpCalls(b)', said'[b])
  <2> HIDE DEF A, B
  <2>1. QED
    BY <1>6, <1>7, <1>8, HeldSame
<1>10. QED
  BY <1>9 DEF Holds

(* Those of the visitor that is ready, when it goes on, explores a child   *)
(* or returns.                                                             *)
LEMMA OwnHolds ==
  ASSUME Runs, NEW f, NEW told, Ready(f, told), NEW b, b = Top.act, ast' = ast,
         Len(frames') \in Depth - 1 .. Depth + 1,
         \A d \in 1 .. Depth : d # Depth /\ d <= Len(frames') => frames'[d] = frames[d],
         Len(frames') >= Depth => /\ frames'[Depth].act = b /\ frames'[Depth].outcome = f.outcome
                                  /\ ~last'.given,
         Len(frames') = Depth + 1 => frames'[Depth + 1].outcome = NoOutcome,
         Len(frames') < Depth => /\ last'.given /\ Receiver' = b
                                 /\ last'.outcome = f.outcome,
         said'[b] = told
  PROVE  Holds(b)'
<1> DEFINE A == Own(f.outcome)
           B == Outcomes(b)'
           n == Len(frames')
<1>1. /\ \A d \in DOMAIN A : d \in 1 .. Depth /\ frames[d].act = b
      /\ \A d \in 1 .. Depth : frames[d].act = b => d \in DOMAIN A
      /\ \A d \in DOMAIN A : A[d] = IF d = Depth THEN f.outcome ELSE frames[d].outcome
      /\ Depth \in DOMAIN A
  BY OwnFacts, RunsFacts
<1>2. /\ n \in Nat /\ Depth \in Nat /\ Depth > 0
      /\ n = Depth - 1 \/ n = Depth \/ n = Depth + 1
  BY RunsFacts
<1>3. /\ DOMAIN B = {e \in 1 .. n + 1 : Carries(b, e)'}
      /\ \A d \in DOMAIN B : B[d] = Carried(d)'
  BY DEF Outcomes, Depth
<1>4. \A d : Carries(b, d)' <=> \/ d \in 1 .. n /\ frames'[d].act = b
                                \/ d = n + 1 /\ last'.given /\ b = Receiver'
  BY DEF Carries, Depth
<1>5. \A d \in 1 .. n + 1 : Carried(d)' = IF d <= n THEN frames'[d].outcome ELSE last'.outcome
  BY DEF Carried, Depth
<1>6. \A d \in 1 .. Depth : d # Depth =>
        (d \in DOMAIN A <=> d \in DOMAIN B) /\ (d \in DOMAIN B => B[d] = A[d])
  <2> TAKE d \in 1 .. Depth
  <2> HAVE d # Depth
  <2>1. d \in 1 .. n /\ frames'[d] = frames[d] /\ d # n + 1
    BY <1>2
  <2>2. d \in DOMAIN A <=> frames[d].act = b
    BY <1>1
  <2> HIDE DEF A, B, n
  <2>3. d \in DOMAIN B <=> frames'[d].act = b
    BY <1>2, <1>3, <1>4, <2>1
  <2>4. d \in DOMAIN B => B[d] = frames'[d].outcome
    BY <1>2, <1>3, <1>5, <2>1
  <2>5. d \in DOMAIN A => A[d] = frames[d].outcome
    BY <1>1
  <2>6. QED
    BY <2>1, <2>2, <2>3, <2>4, <2>5
<1>7. Depth \in DOMAIN B /\ B[Depth] = A[Depth]
  <2> HIDE DEF A, B
  <2>1. CASE n >= Depth
    <3>1. Depth \in 1 .. n /\ Depth \in 1 .. n + 1
      BY <1>2, <2>1
    <3>2. Depth \in DOMAIN B
      BY <1>3, <1>4, <2>1, <3>1
    <3>3. B[Depth] = frames'[Depth].outcome
      BY <1>2, <1>3, <1>5, <3>1, <3>2
    <3>4. QED
      BY <1>1, <2>1, <3>2, <3>3
  <2>2. CASE n = Depth - 1
    <3>1. n + 1 = Depth /\ Depth \in 1 .. n + 1 /\ ~(Depth <= n)
      BY <1>2, <2>2
    <3>2. Depth \in DOMAIN B
      BY <1>2, <1>3, <1>4, <2>2, <3>1
    <3>3. B[Depth] = last'.outcome
      BY <1>2, <1>3, <1>5, <3>1, <3>2
    <3>4. QED
      BY <1>1, <1>2, <2>2, <3>2, <3>3
  <2>3. QED
    BY <1>2, <2>1, <2>2
<1>8. \A d \in DOMAIN B : d \in 1 .. Depth \/ (d = Depth + 1 /\ B[d] = NoOutcome)
  <2> HIDE DEF A, B
  <2> TAKE d \in DOMAIN B
  <2>1. d \in 1 .. n + 1 /\ (d \in 1 .. n \/ (d = n + 1 /\ last'.given))
    BY <1>3, <1>4
  <2>2. CASE n = Depth + 1
    BY <1>2, <1>3, <1>5, <2>1, <2>2
  <2>3. CASE n # Depth + 1
    BY <1>2, <2>1, <2>3
  <2>4. QED
    BY <2>2, <2>3
<1>9. /\ \A d \in DOMAIN A \cap DOMAIN B : B[d] = A[d]
      /\ \A d \in DOMAIN A \ DOMAIN B : A[d] = NoOutcome
      /\ \A d \in DOMAIN B \ DOMAIN A : B[d] = NoOutcome
  <2> HIDE DEF A, B, n
  <2>1. QED
    BY <1>1, <1>6, <1>7, <1>8
<1>10. \A d \in 1 .. Depth : (\E e \in HttpCalls(b) : e < d) <=> (\E e \in HttpCalls(b)' : e < d)
  <2>1. \A e \in 1 .. Depth : e # Depth => (e \in HttpCalls(b) <=> e \in HttpCalls(b)')
    BY <1>2 DEF HttpCalls, KindAt, Depth
  <2>2. \A e \in HttpCalls(b) : e \in 1 .. Depth
    BY DEF HttpCalls
  <2>3. \A e \in HttpCalls(b)' : e \in 1 .. n
    BY DEF HttpCalls, Depth
  <2> HIDE DEF n
  <2>4. QED
    BY <1>2, <2>1, <2>2, <2>3
<1>11. Held(A, HttpCalls(b), told)
  BY DEF Ready
<1>12. Held(B, HttpCalls(b)', said'[b])
  <2> HIDE DEF A, B
  <2>1. \A d \in DOMAIN A : (\E e \in HttpCalls(b) : e < d) <=> (\E e \in HttpCalls(b)' : e < d)
    BY <1>1, <1>10
  <2>2. QED
    BY <1>9, <1>11, <2>1, HeldSame
<1>13. QED
  BY <1>12 DEF Holds

(* An activation that starts has none.                                     *)
LEMMA NothingHeld ==
  ASSUME NEW A, NEW calls, \A d \in DOMAIN A : A[d] = NoOutcome
  PROVE  Held(A, calls, NothingSaid)
BY NoOutcomeFields DEF Held, Counted, Fails, NothingSaid, NoStatement

-----------------------------------------------------------------------------
(* A step of a visitor keeps the invariant; what it explores is not over,  *)
(* and is a statement when the operation of the call has failed.           *)

Kept ==
  /\ IInv'
  /\ Grows => NewTop.act \notin ended'
  /\ Grows /\ Depth \in stopped => frames'[Depth].at = "statement"

LEMMA KindsApart ==
  /\ StatementKinds \cap Expressions = {} /\ Collectors \cap Expressions = {}
  /\ "HttpResponseHandler" \notin Expressions /\ "OperationDefinition" \notin Expressions
  /\ OwnPlaces \cap (ValuePlaces \cup StatementPlaces \cup {"operation"}) = {}
  /\ ValuePlaces \cap StatementPlaces = {} /\ "operation" \notin ValuePlaces \cup StatementPlaces
  /\ "statement" \in StatementPlaces /\ "response" \in StatementPlaces /\ "start" \in OwnPlaces
  /\ Place = OwnPlaces \cup ValuePlaces \cup StatementPlaces \cup {"operation"}
BY DEF StatementKinds, Expressions, Collectors, Definitions, Objects, OwnPlaces, ValuePlaces,
       StatementPlaces, Place

LEMMA NoResultFields ==
  /\ NoResult \in [given : BOOLEAN, scope : Scope, value : Values, outcome : OutcomeValue,
                   terminate : BOOLEAN]
  /\ ~NoResult.given /\ ~NoResult.terminate
BY InterpreterAssumption
   DEF NoResult, NoOutcome, OutcomeValue, Scope, StatusCodes

(* The child that a visitor explores, from which place.                    *)
Explores(f, place, child, scope, act) ==
  \/ /\ place = "operation" /\ Visited.kind \in Calls
     /\ scope = NewScope(Depth + 1) /\ act = Depth + 1
     /\ ast[child].kind = "OperationDefinition"
  \/ /\ scope = f.scope /\ act = f.act
     /\ \/ /\ place = "statement"
           /\ Visited.kind \in Collectors /\ ast[child].kind \in StatementKinds
        \/ /\ place = "response"
           /\ Visited.kind = "HttpCallStatement" /\ ast[child].kind = "HttpResponseHandler"
        \/ /\ place \in ValuePlaces /\ ast[child].kind \in Expressions
           /\ place = "iteration" => ast[child].kind = "IterationAtom"

LEMMA PushKeeps ==
  ASSUME Runs, NEW f, NEW told, Ready(f, told), Collects(f),
         NEW place, NEW child \in DOMAIN ast, NEW scope, NEW act,
         Explores(f, place, child, scope, act),
         told.status = LatestStatus(Top.act) \/ Visited.kind \notin Expressions,
         place = "response" => told.status = f.response.status,
         Top.act \notin ended,
         Depth \in stopped =>
           place = "statement" /\ f.failed /\ Visited.kind = "CallStatement",
         Push(f, place, NewFrame(child, scope, act), told)
  PROVE  Kept
<1>0. PICK n : n = Depth
  OBVIOUS
<1>1. /\ f \in Frame /\ f.act = Top.act /\ f.node = Top.node /\ told \in Told
      /\ f.scope = [owner |-> Top.act, statusCode |-> told.status]
      /\ Visited.kind = "HttpCallStatement" /\ f.outcome.error => f.outcome.fromHttp
  BY DEF Ready
<1>2. /\ Depth \in Nat /\ Depth > 0 /\ Depth <= Len(said) /\ Depth \in 1 .. Depth
      /\ \A d \in 1 .. Depth : frames[d].act \in 1 .. d
      /\ Top.act \in 1 .. Depth /\ Top = frames[Depth]
  BY RunsFacts DEF Top
<1>3. /\ scope \in Scope /\ act \in Nat /\ place \in Place /\ place \notin OwnPlaces
      /\ act = Top.act \/ act = Depth + 1
  BY <1>1, <1>2, KindsApart DEF Explores, NewScope, Scope, StatusCodes, Frame
<1>4. /\ frames' \in Seq(Frame) /\ Len(frames') = Depth + 1
      /\ \A d \in 1 .. Depth : d # Depth => frames'[d] = frames[d]
      /\ frames'[Depth].node = Top.node /\ frames'[Depth].act = Top.act
      /\ frames'[Depth].at = place /\ frames'[Depth].scope = f.scope
      /\ frames'[Depth].outcome = f.outcome /\ frames'[Depth].response = f.response
      /\ frames'[Depth].failed = f.failed
      /\ frames'[Depth + 1].node = child /\ frames'[Depth + 1].act = act
      /\ frames'[Depth + 1].at = "start" /\ frames'[Depth + 1].scope = scope
      /\ frames'[Depth + 1].outcome = NoOutcome
      /\ said' \in Seq(Told) /\ Len(said') = Depth + 1 /\ said'[Top.act] = told
      /\ \A d \in 1 .. Depth : d # Top.act => said'[d] = said[d]
      /\ said'[Depth + 1] = NothingSaid
      /\ last' = NoResult /\ ended' = {a \in ended : a <= Depth}
      /\ UNCHANGED <<ast, external, status, opened, result, stopped>>
  BY <1>3, PushEffect
<1>5. Depth' = Depth + 1 /\ Top' = frames'[Depth + 1]
  BY <1>4 DEF Depth, Top
<1>6. /\ \A d \in 1 .. Depth : frames'[d].act = frames[d].act
                             /\ frames'[d].node = frames[d].node
      /\ ast' = ast /\ ast[Top.node].kind = Visited.kind
  BY <1>2, <1>4 DEF Visited
<1>7. TypeOK'
  BY <1>4, SameFrames, NoResultFields DEF TypeOK, Runs, Settled, Scope, OutcomeValue, StatusCodes
<1>8. scope = [owner |-> act, statusCode |-> said'[act].status]
  BY <1>1, <1>3, <1>4 DEF Explores, NewScope, NothingSaid
<1>9. ScopeIsCurrent'
  BY <1>4, <1>5, <1>8 DEF ScopeIsCurrent, LatestStatus
<1>10. Depth' <= Len(said') /\ frames'[1].act = 1
  BY <1>2, <1>4, <1>5, <1>6 DEF Runs, StackFits
<1>11. \A d \in 1 .. Depth + 1 : FrameFits(d)'
  <2>1. ASSUME NEW d \in 1 .. Depth, d # Depth PROVE FrameFits(d)'
    <3>1. FrameFits(d) /\ Above(d, Depth) /\ d < Depth
      BY <1>2, <2>1 DEF Runs, StackFits
    <3>2. frames[d].at \notin StatementPlaces =>
            said'[frames[d].act].status = said[frames[d].act].status
      <4>1. CASE frames[d].act # Top.act
        BY <1>2, <1>4, <4>1
      <4>2. CASE frames[d].act = Top.act
        BY <1>2, <1>4, <3>1, <4>2 DEF Above, KindAt, LatestStatus, Visited
      <4>3. QED
        BY <4>1, <4>2
    <3>3. frames'[d] = frames[d]
      BY <1>4, <2>1
    <3>4. QED
      BY <1>2, <1>5, <1>6, <3>1, <3>2, <3>3 DEF FrameFits, KindAt, LatestStatus
  <2>2. FrameFits(n)'
    <3>1. place \in StatementPlaces \/ f.outcome # NoOutcome => Visited.kind \in Collectors
      BY KindsApart DEF Explores, Collects, Collectors
    <3>2. /\ place = "response" => Visited.kind = "HttpCallStatement"
          /\ place = "operation" => Visited.kind \in Calls
      BY KindsApart DEF Explores
    <3>3. f.scope = [owner |-> Top.act, statusCode |-> said'[Top.act].status]
      BY <1>1, <1>4
    <3>4. QED
      BY <1>0, <1>1, <1>2, <1>3, <1>4, <1>5, <1>6, <3>1, <3>2, <3>3
      DEF FrameFits, KindAt, LatestStatus
  <2>3. FrameFits(n + 1)'
    BY <1>0, <1>2, <1>3, <1>4, <1>5, <1>6, <1>8, KindsApart, NoOutcomeFields
    DEF FrameFits, KindAt, LatestStatus
  <2>4. QED
    BY <1>0, <1>2, <2>1, <2>2, <2>3
<1>12. \A b \in Active' : b <= Len(said') /\ Holds(b)'
  <2> TAKE b \in Active'
  <2>1. ~last'.given
    BY <1>4, NoResultFields
  <2>2. PICK d \in 1 .. Depth + 1 : frames'[d].act = b
    BY <1>4, <2>1 DEF Active, Depth
  <2>3. b \in 1 .. Depth \/ b = Depth + 1
    BY <1>2, <1>3, <1>4, <1>6, <2>2
  <2>4. CASE b = Top.act
    <3>1. Holds(b)'
      BY <1>2, <1>4, <2>1, <2>4, OwnHolds
    <3>2. QED
      BY <1>2, <1>4, <2>4, <3>1
  <2>5. CASE b \in 1 .. Depth /\ b # Top.act
    <3>1. d \in 1 .. Depth /\ frames[d].act = b
      <4>1. d # Depth + 1
        BY <1>2, <1>3, <1>4, <2>2, <2>5
      <4>2. d \in 1 .. Depth
        BY <1>2, <4>1
      <4>3. QED
        BY <1>6, <2>2, <4>2
    <3>2. Holds(b)
      BY <3>1 DEF Runs, StackFits, Active
    <3>3. \A e \in 1 .. Len(frames') : e >= Depth => frames'[e].act # b
      BY <1>2, <1>3, <1>4, <2>5
    <3>4. Len(frames') \in Depth - 1 .. Depth + 1
          /\ \A e \in 1 .. Depth : e # Depth /\ e <= Len(frames') => frames'[e] = frames[e]
      BY <1>2, <1>4
    <3>5. said'[b] = said[b] /\ ast' = ast
      BY <1>4, <2>5
    <3>6. Holds(b)'
      BY <2>1, <2>5, <3>2, <3>3, <3>4, <3>5, OthersHold
    <3>7. QED
      BY <1>2, <1>4, <2>5, <3>6
  <2>6. CASE b = Depth + 1
    <3>1. \A e \in DOMAIN Outcomes(b)' : Outcomes(b)'[e] = NoOutcome
      BY <1>2, <1>4, <1>6, <2>1, <2>6 DEF Outcomes, Carries, Carried, Depth
    <3>2. Held(Outcomes(b)', HttpCalls(b)', said'[b])
      BY <1>4, <2>6, <3>1, NothingHeld
    <3>3. QED
      BY <1>4, <2>6, <3>2 DEF Holds
  <2>7. QED
    BY <2>3, <2>4, <2>5, <2>6
<1>13. \A d \in 1 .. Depth : ChildFits(d)'
  <2>1. ASSUME NEW d \in 1 .. Depth, d # Depth PROVE ChildFits(d)'
    <3>1. ChildFits(d) /\ d + 1 \in 1 .. Depth
      BY <1>2, <2>1 DEF Runs, StackFits
    <3>2. QED
      BY <1>4, <1>6, <2>1, <3>1 DEF ChildFits, KindAt
  <2>2. ChildFits(n)'
    BY <1>0, <1>1, <1>4, <1>6 DEF ChildFits, KindAt, Explores
  <2>3. QED
    BY <1>0, <2>1, <2>2
<1>14. \A d, e \in 1 .. Depth + 1 : d < e => Above(d, e)'
  <2>1. ASSUME NEW d \in 1 .. Depth, NEW e \in 1 .. Depth, d < e PROVE Above(d, e)'
    <3>1. Above(d, e) /\ d # Depth
      BY <1>2, <2>1 DEF Runs, StackFits
    <3>2. QED
      BY <1>4, <1>6, <2>1, <3>1 DEF Above, KindAt
  <2>2. ASSUME NEW d \in 1 .. Depth, d # Depth PROVE Above(d, n + 1)'
    <3>1. Above(d, Depth)
      BY <1>2, <2>2 DEF Runs, StackFits
    <3>2. frames'[d] = frames[d]
      BY <1>4, <2>2
    <3>3. CASE act = Depth + 1
      BY <1>0, <1>2, <1>4, <3>3 DEF Above
    <3>4. CASE act # Depth + 1
      <4>1. act = Top.act /\ place # "operation"
            /\ (Visited.kind \in Expressions => ast[child].kind \in Expressions)
        BY <1>1, <1>2, <3>4, KindsApart DEF Explores, Collectors
      <4>2. QED
        BY <1>0, <1>2, <1>4, <1>6, <3>1, <3>2, <4>1 DEF Above, KindAt
    <3>5. QED
      BY <3>3, <3>4
  <2>3. Above(n, n + 1)'
    <3>1. CASE act = Depth + 1
      BY <1>0, <1>2, <1>4, <3>1 DEF Above
    <3>2. CASE act # Depth + 1
      <4>1. act = Top.act /\ place # "operation"
            /\ (place \in StatementPlaces \/ ast[child].kind \in Expressions)
        BY <1>1, <3>2, KindsApart DEF Explores
      <4>2. QED
        BY <1>0, <1>4, <1>6, <4>1 DEF Above, KindAt
    <3>3. QED
      BY <3>1, <3>2
  <2>4. QED
    BY <1>0, <1>2, <2>1, <2>2, <2>3
<1>15. HandlerSees'
  <2>1. place = "response" => act = Top.act /\ said'[act].status = f.response.status
    BY <1>1, <1>4, KindsApart DEF Explores
  <2>2. QED
    BY <1>2, <1>4, <1>5, <2>1, NoResultFields, KindsApart DEF HandlerSees, LatestStatus
<1>16. ResultFits'
  BY <1>2, <1>4, <1>5, NoResultFields, KindsApart DEF ResultFits
<1>17. ended' = {}
  BY <1>2, <1>4, TopFits DEF EndedFits
<1>18. EndedFits'
  BY <1>17 DEF EndedFits
<1>19. StoppedFits'
  <2> SUFFICES ASSUME NEW call \in stopped
               PROVE  /\ call \in 1 .. Depth + 1
                      /\ frames'[call].at = "statement" /\ frames'[call].failed
                      /\ ast'[frames'[call].node].kind = "CallStatement"
    BY <1>4, <1>5 DEF StoppedFits, KindAt
  <2>1. call \in 1 .. Depth
    BY <1>2, TopFits DEF StoppedFits
  <2>2. CASE call = Depth
    BY <1>2, <1>4, <1>6, <2>2
  <2>3. CASE call # Depth
    BY <1>2, <1>4, <1>6, <2>1, <2>3, TopFits DEF StoppedFits, KindAt
  <2>4. QED
    BY <2>1, <2>2, <2>3
<1>20. StackFits'
  <2>1. Depth' > 0 /\ Depth' - 1 = Depth
    BY <1>2, <1>5
  <2>2. QED
    BY <1>5, <1>10, <1>11, <1>12, <1>13, <1>14, <1>15, <1>16, <1>18, <1>19, <2>1
    DEF StackFits
<1>21. status' = "running"
  BY <1>4 DEF Runs
<1>22. IInv'
  BY <1>7, <1>9, <1>20, <1>21 DEF IInv
<1>23. QED
  BY <1>4, <1>17, <1>22 DEF Kept

LEMMA GotoKeeps ==
  ASSUME Runs, NEW f, Ready(f, said[Top.act]), Collects(f),
         NEW place \in {"item", "send", "unhandled"},
         Top.act \notin ended, Depth \notin stopped, Goto(f, place)
  PROVE  Kept
<1>0. PICK n : n = Depth
  OBVIOUS
<1>1. /\ f.scope = [owner |-> Top.act, statusCode |-> said[Top.act].status]
      /\ f.act = Top.act
      /\ Visited.kind = "HttpCallStatement" /\ f.outcome.error => f.outcome.fromHttp
  BY DEF Ready
<1>2. /\ Depth \in Nat /\ Depth > 0 /\ Depth <= Len(said) /\ Depth \in 1 .. Depth
      /\ \A d \in 1 .. Depth : frames[d].act \in 1 .. d
      /\ Top.act \in 1 .. Depth /\ Top = frames[Depth]
  BY RunsFacts DEF Top
<1>3. place \in Place /\ place \in OwnPlaces
      /\ place # "start" /\ place # "response" /\ place # "operation"
  BY DEF Place, OwnPlaces
<1>4. /\ frames' \in Seq(Frame) /\ Len(frames') = Depth
      /\ \A d \in 1 .. Depth : d # Depth => frames'[d] = frames[d]
      /\ frames'[Depth].node = Top.node /\ frames'[Depth].act = Top.act
      /\ frames'[Depth].at = place /\ frames'[Depth].scope = f.scope
      /\ frames'[Depth].outcome = f.outcome
      /\ last' = NoResult
      /\ UNCHANGED <<ast, external, status, opened, result, said, ended, stopped>>
  BY <1>3, GotoEffect
<1>5. Depth' = Depth /\ Top' = frames'[Depth]
  BY <1>4 DEF Depth, Top
<1>6. /\ \A d \in 1 .. Depth : frames'[d].act = frames[d].act
                             /\ frames'[d].node = frames[d].node
      /\ ast' = ast /\ ast[Top.node].kind = Visited.kind
  BY <1>2, <1>4 DEF Visited
<1>7. TypeOK'
  BY <1>4, SameFrames, NoResultFields DEF TypeOK, Runs, Settled, Scope, OutcomeValue, StatusCodes
<1>8. ScopeIsCurrent'
  BY <1>3, <1>4, <1>5 DEF ScopeIsCurrent
<1>9. Depth' <= Len(said') /\ frames'[1].act = 1
  BY <1>2, <1>4, <1>5, <1>6 DEF Runs, StackFits
<1>10. \A d \in 1 .. Depth : FrameFits(d)'
  <2>1. ASSUME NEW d \in 1 .. Depth, d # Depth PROVE FrameFits(d)'
    <3>1. FrameFits(d) /\ frames'[d] = frames[d]
      BY <1>2, <1>4, <2>1 DEF Runs, StackFits
    <3>2. QED
      BY <1>4, <1>5, <1>6, <3>1 DEF FrameFits, KindAt, LatestStatus
  <2>2. FrameFits(n)'
    <3>1. f.outcome # NoOutcome => Visited.kind \in Collectors
      BY DEF Collects
    <3>2. QED
      BY <1>0, <1>1, <1>2, <1>3, <1>4, <1>5, <1>6, <3>1, KindsApart
      DEF FrameFits, KindAt, LatestStatus
  <2>3. QED
    BY <1>0, <2>1, <2>2
<1>11. \A b \in Active' : b <= Len(said') /\ Holds(b)'
  <2> TAKE b \in Active'
  <2>1. ~last'.given
    BY <1>4, NoResultFields
  <2>2. PICK d \in 1 .. Depth : frames[d].act = b
    BY <1>4, <1>6, <2>1 DEF Active, Depth
  <2>3. b \in 1 .. Depth /\ Holds(b)
    BY <1>2, <2>2 DEF Runs, StackFits, Active
  <2>4. CASE b = Top.act
    <3>1. Holds(b)'
      BY <1>2, <1>4, <2>1, <2>4, OwnHolds
    <3>2. QED
      BY <1>2, <1>4, <2>3, <3>1
  <2>5. CASE b # Top.act
    <3>1. \A e \in 1 .. Len(frames') : e >= Depth => frames'[e].act # b
      BY <1>2, <1>4, <2>5
    <3>2. Holds(b)'
      BY <1>2, <1>4, <2>1, <2>3, <2>5, <3>1, OthersHold
    <3>3. QED
      BY <1>2, <1>4, <2>3, <3>2
  <2>6. QED
    BY <2>4, <2>5
<1>12. \A d \in 1 .. Depth - 1 : ChildFits(d)'
  <2> TAKE d \in 1 .. Depth - 1
  <2>1. ChildFits(d) /\ d \in 1 .. Depth /\ d + 1 \in 1 .. Depth /\ d # Depth
    BY <1>2 DEF Runs, StackFits
  <2>2. QED
    BY <1>4, <1>6, <2>1 DEF ChildFits, KindAt
<1>13. \A d, e \in 1 .. Depth : d < e => Above(d, e)'
  <2> TAKE d, e \in 1 .. Depth
  <2> HAVE d < e
  <2>1. Above(d, e) /\ d # Depth
    BY <1>2 DEF Runs, StackFits
  <2>2. QED
    BY <1>4, <1>6, <2>1 DEF Above, KindAt
<1>14. HandlerSees' /\ ResultFits'
  BY <1>2, <1>3, <1>4, <1>5, NoResultFields, KindsApart DEF HandlerSees, ResultFits
<1>15. EndedFits'
  BY <1>4, <1>5, TopFits DEF EndedFits
<1>16. StoppedFits'
  <2> SUFFICES ASSUME NEW call \in stopped
               PROVE  /\ call \in 1 .. Depth
                      /\ frames'[call].at = "statement" /\ frames'[call].failed
                      /\ ast'[frames'[call].node].kind = "CallStatement"
    BY <1>4, <1>5 DEF StoppedFits, KindAt
  <2>1. call \in 1 .. Depth /\ call # Depth
    BY <1>2, TopFits DEF StoppedFits
  <2>2. QED
    BY <1>2, <1>4, <1>6, <2>1, TopFits DEF StoppedFits, KindAt
<1>17. StackFits'
  BY <1>2, <1>5, <1>9, <1>10, <1>11, <1>12, <1>13, <1>14, <1>15, <1>16 DEF StackFits
<1>18. status' = "running"
  BY <1>4 DEF Runs
<1>19. IInv'
  BY <1>7, <1>8, <1>17, <1>18 DEF IInv
<1>20. QED
  BY <1>2, <1>4, <1>19 DEF Kept, Grows

(* The only outcome that is left of an activation is what it stated.       *)
LEMMA HeldAlone ==
  ASSUME NEW A, NEW calls, NEW told, NEW k, Held(A, calls, told), DOMAIN A = {k}
  PROVE  /\ A[k].stamp = Counted(told).stamp
         /\ A[k].error <=> Fails(told)
         /\ A[k].error => /\ A[k].statusCode = told.error.status
                          /\ told.error.http <=> A[k].fromHttp \/ \E e \in calls : e < k
<1>1. CASE Counted(told).stamp = 0
  <2>1. A[k] = NoOutcome
    BY <1>1 DEF Held
  <2>2. ~Fails(told)
    BY <1>1 DEF Fails, Counted
  <2>3. QED
    BY <1>1, <2>1, <2>2, NoOutcomeFields
<1>2. CASE Counted(told).stamp # 0
  <2>1. Counts(A, calls, told, k)
    BY <1>2 DEF Held
  <2>2. QED
    BY <2>1 DEF Counts
<1>3. QED
  BY <1>1, <1>2

LEMMA ReturnKeeps ==
  ASSUME Runs, NEW f, NEW told, Ready(f, told), NEW value \in Values,
         NEW terminate \in BOOLEAN,
         told.status = LatestStatus(Top.act) \/ Visited.kind = "SetStatement",
         Failed(Top.act) => Fails(told),
         terminate => f.outcome # NoOutcome,
         Visited.kind \in Expressions => f.outcome = NoOutcome /\ ~terminate,
         Visited.kind = "IterationAtom" => value \in DOMAIN Elements,
         Visited.kind = "HttpResponseHandler" /\ ~terminate /\ value # "true" =>
           Top.at = "start",
         Top.act \in ended => terminate,
         ReturnSaying(f, value, terminate, told)
  PROVE  Kept
<1>1. /\ f.scope = [owner |-> Top.act, statusCode |-> told.status]
      /\ f.scope \in Scope /\ f.outcome \in OutcomeValue
      /\ Held(Own(f.outcome), HttpCalls(Top.act), told)
  BY DEF Ready, Frame
<1>2. /\ Depth \in Nat /\ Depth > 0 /\ Depth <= Len(said) /\ Depth \in 1 .. Depth
      /\ \A d \in 1 .. Depth : frames[d].act \in 1 .. d
      /\ Top.act \in 1 .. Depth /\ Top = frames[Depth]
      /\ Depth - 1 \in Nat
  BY RunsFacts DEF Top
<1>3. /\ frames' \in Seq(Frame) /\ Len(frames') = Depth - 1
      /\ \A d \in 1 .. Depth - 1 : frames'[d] = frames[d]
      /\ said' \in Seq(Told) /\ Len(said') = Depth /\ said'[Top.act] = told
      /\ \A d \in 1 .. Depth : d # Top.act => said'[d] = said[d]
      /\ last' = [given |-> TRUE, scope |-> f.scope, value |-> value,
                  outcome |-> f.outcome, terminate |-> terminate]
      /\ ended' = {a \in ended : a <= Depth} \cup (IF terminate THEN {Top.act} ELSE {})
      /\ stopped' = {call \in stopped : call < Depth} \cup
                    (IF Top.act = Depth /\ Failed(Top.act) THEN {Depth - 1} ELSE {})
      /\ UNCHANGED <<ast, external, status, opened, result>>
  BY ReturnEffect
<1>4. /\ last'.given /\ last'.scope = f.scope /\ last'.value = value
      /\ last'.outcome = f.outcome /\ (last'.terminate <=> terminate)
  BY <1>3
<1>5. Depth' = Depth - 1 /\ (Depth > 1 => Top' = frames[Depth - 1])
  BY <1>2, <1>3 DEF Depth, Top
<1>6. /\ ast' = ast /\ ast[Top.node].kind = Visited.kind
      /\ Top.node = frames[Depth].node /\ Top.act = frames[Depth].act
  BY <1>2, <1>3 DEF Visited
<1>7. Depth > 1 => ChildFits(Depth - 1) /\ FrameFits(Depth - 1)
  BY <1>2 DEF Runs, StackFits
<1>8. Depth > 1 =>
        \/ /\ Top'.at = "operation" /\ Top.act = Depth /\ Visited.kind = "OperationDefinition"
        \/ /\ Top'.act = Top.act /\ Top'.at # "operation" /\ Top.act < Depth
           /\ \/ Top'.at = "statement" /\ Visited.kind \in StatementKinds
              \/ Top'.at = "response" /\ Visited.kind = "HttpResponseHandler"
              \/ /\ Top'.at \in ValuePlaces /\ Visited.kind \in Expressions
                 /\ Top'.at = "iteration" => Visited.kind = "IterationAtom"
  BY <1>2, <1>5, <1>6, <1>7, KindsApart DEF ChildFits, KindAt
<1>9. Receiver' = Top.act
  BY <1>2, <1>5, <1>8 DEF Receiver
<1>10. TypeOK'
  <2>1. last' \in [given : BOOLEAN, scope : Scope, value : Values, outcome : OutcomeValue,
                   terminate : BOOLEAN]
    BY <1>1, <1>3
  <2>2. ended \subseteq Nat /\ stopped \subseteq Nat
    BY DEF Runs, TypeOK
  <2>3. ended' \subseteq Nat /\ stopped' \subseteq Nat
    BY <1>2, <1>3, <2>2
  <2>4. Scope' = Scope /\ OutcomeValue' = OutcomeValue
    BY DEF Scope, OutcomeValue, StatusCodes
  <2>5. QED
    BY <1>3, <2>1, <2>3, <2>4, SameFrames DEF TypeOK, Runs, Settled
<1>11. Depth > 1 => Top'.at \notin OwnPlaces
  BY <1>2, <1>5, <1>7 DEF FrameFits
<1>12. ScopeIsCurrent'
  BY <1>2, <1>5, <1>11, KindsApart DEF ScopeIsCurrent
<1>13. Depth' <= Len(said') /\ (Depth' > 0 => frames'[1].act = 1)
  BY <1>2, <1>3, <1>5 DEF Runs, StackFits
<1>14. \A d \in 1 .. Depth - 1 : FrameFits(d)'
  <2> TAKE d \in 1 .. Depth - 1
  <2>1. FrameFits(d) /\ frames'[d] = frames[d] /\ d \in 1 .. Depth
    BY <1>2, <1>3 DEF Runs, StackFits
  <2>2. frames[d].at \notin StatementPlaces =>
          said'[frames[d].act].status = said[frames[d].act].status
    <3>1. frames[d].act \in 1 .. Depth /\ Above(d, Depth)
      BY <1>2, <2>1 DEF Runs, StackFits
    <3>2. CASE frames[d].act # Top.act
      BY <1>3, <3>1, <3>2
    <3>3. CASE frames[d].act = Top.act
      <4>1. ~(Top.act > d)
        BY <1>2, <3>3
      <4>2. Visited.kind = "SetStatement" => frames[d].at \in StatementPlaces
        BY <1>6, <3>1, <3>3, <4>1 DEF Above, KindAt, Expressions, Objects
      <4>3. QED
        BY <1>3, <3>3, <4>2 DEF LatestStatus
    <3>4. QED
      BY <3>2, <3>3
  <2>3. QED
    BY <1>2, <1>5, <1>6, <2>1, <2>2 DEF FrameFits, KindAt, LatestStatus
<1>15. \A b \in Active' : b <= Len(said') /\ Holds(b)'
  <2> TAKE b \in Active'
  <2>1. b = Top.act \/ \E d \in 1 .. Depth - 1 : frames[d].act = b
    <3>1. b = Receiver' \/ \E d \in 1 .. Depth' : frames'[d].act = b
      BY DEF Active
    <3>2. QED
      BY <1>3, <1>5, <1>9, <3>1
  <2>2. CASE b = Top.act
    <3>1. ~(Len(frames') >= Depth) /\ Len(frames') < Depth
          /\ Len(frames') # Depth + 1 /\ Len(frames') \in Depth - 1 .. Depth + 1
      BY <1>2, <1>3
    <3>2. \A d \in 1 .. Depth : d # Depth /\ d <= Len(frames') => frames'[d] = frames[d]
      BY <1>2, <1>3
    <3>3. Holds(b)'
      BY <1>3, <1>4, <1>6, <1>9, <2>2, <3>1, <3>2, OwnHolds
    <3>4. QED
      BY <1>2, <1>3, <2>2, <3>3
  <2>3. CASE b # Top.act
    <3>1. PICK d \in 1 .. Depth - 1 : frames[d].act = b
      BY <2>1, <2>3
    <3>2. b \in 1 .. Depth /\ Holds(b)
      <4>1. d \in 1 .. Depth
        BY <1>2
      <4>2. QED
        BY <1>2, <3>1, <4>1 DEF Runs, StackFits, Active
    <3>3. /\ Len(frames') \in Depth - 1 .. Depth + 1
          /\ \A e \in 1 .. Depth : e # Depth /\ e <= Len(frames') => frames'[e] = frames[e]
          /\ \A e \in 1 .. Len(frames') : ~(e >= Depth)
      BY <1>2, <1>3
    <3>4. Holds(b)'
      BY <1>3, <1>6, <1>9, <2>3, <3>2, <3>3, OthersHold
    <3>5. QED
      BY <1>2, <1>3, <3>2, <3>4
  <2>4. QED
    BY <2>2, <2>3
<1>16. \A d \in 1 .. Depth - 1 - 1 : ChildFits(d)'
  <2> TAKE d \in 1 .. Depth - 1 - 1
  <2>1. ChildFits(d) /\ d \in 1 .. Depth - 1 /\ d + 1 \in 1 .. Depth - 1
    BY <1>2 DEF Runs, StackFits
  <2>2. QED
    BY <1>3, <1>6, <2>1 DEF ChildFits, KindAt
<1>17. \A d, e \in 1 .. Depth - 1 : d < e => Above(d, e)'
  <2> TAKE d, e \in 1 .. Depth - 1
  <2> HAVE d < e
  <2>1. Above(d, e)
    BY <1>2 DEF Runs, StackFits
  <2>2. QED
    BY <1>3, <1>6, <2>1 DEF Above, KindAt
<1>18. HandlerSees'
  <2>1. ~(Depth' > 1 /\ frames'[Depth' - 1].at = "response" /\ Top'.at = "start")
    BY <1>2, <1>5, <1>11, KindsApart
  <2>2. ASSUME Depth' > 0, Top'.at = "response", ~terminate, value # "true"
        PROVE  said'[Top'.act].status = Top'.response.status
    <3>1. Depth > 1 /\ Visited.kind = "HttpResponseHandler" /\ Top'.act = Top.act
      BY <1>2, <1>5, <1>8, <2>2, KindsApart
    <3>2. Top.at = "start" /\ frames[Depth - 1].at = "response"
      BY <1>5, <2>2, <3>1
    <3>3. said[Top.act].status = frames[Depth - 1].response.status
      BY <3>1, <3>2, TopFits DEF HandlerSees, LatestStatus
    <3>4. QED
      BY <1>3, <1>5, <3>1, <3>3 DEF LatestStatus
  <2>3. QED
    BY <1>4, <2>1, <2>2 DEF HandlerSees, LatestStatus
<1>19. ResultFits'
  <2>1. last'.scope = [owner |-> Receiver', statusCode |-> said'[Receiver'].status]
    BY <1>1, <1>3, <1>4, <1>9
  <2>2. last'.given <=> Depth' = 0 \/ Top'.at \notin OwnPlaces
    BY <1>2, <1>4, <1>5, <1>11
  <2>3. Depth' > 0 /\ Top'.at \in ValuePlaces => last'.outcome = NoOutcome /\ ~last'.terminate
    BY <1>2, <1>4, <1>5, <1>8, KindsApart
  <2>4. Depth' > 0 /\ Top'.at = "iteration" => last'.value \in DOMAIN Elements
    BY <1>2, <1>4, <1>5, <1>8, KindsApart DEF StatementPlaces
  <2>5. last'.terminate => last'.given /\ last'.outcome # NoOutcome
    BY <1>4
  <2>6. QED
    BY <2>1, <2>2, <2>3, <2>4, <2>5 DEF ResultFits, LatestStatus
<1>20. EndedFits'
  <2>1. \A a \in ended' : a = Top.act /\ terminate
    BY <1>2, <1>3, TopFits DEF EndedFits
  <2>2. terminate => Visited.kind \notin Expressions
    OBVIOUS
  <2>3. terminate =>
          \/ Top.act = Depth' + 1
          \/ Depth' > 0 /\ Top.act = Top'.act /\ Top'.at \in StatementPlaces /\ last'.terminate
    BY <1>2, <1>4, <1>5, <1>8, <2>2, KindsApart
  <2>4. QED
    BY <2>1, <2>3 DEF EndedFits
<1>21. StoppedFits'
  <2>1. ASSUME NEW call \in stopped, call < Depth
        PROVE  /\ call \in 1 .. Depth - 1
               /\ frames'[call].at = "statement" /\ frames'[call].failed
               /\ ast'[frames'[call].node].kind = "CallStatement"
    <3>1. call \in 1 .. Depth /\ call # Depth
      BY <1>2, <2>1, TopFits DEF StoppedFits
    <3>2. call \in 1 .. Depth - 1
      BY <1>2, <3>1
    <3>3. QED
      BY <1>3, <1>6, <2>1, <3>1, <3>2, TopFits DEF StoppedFits, KindAt
  <2>2. ASSUME Top.act = Depth, Failed(Top.act)
        PROVE  Depth - 1 = Depth' /\ (Depth' > 0 => Top'.at = "operation" /\ last'.outcome.error)
    <3>1. DOMAIN Own(f.outcome) = {Depth} /\ Own(f.outcome)[Depth] = f.outcome
      BY <1>2, <2>2, OwnFacts DEF Own
    <3>2. f.outcome.error
      BY <1>1, <2>2, <3>1, HeldAlone
    <3>3. QED
      BY <1>2, <1>4, <1>5, <1>8, <2>2, <3>2
  <2>3. \A call \in stopped' : \/ call \in stopped /\ call < Depth
                               \/ call = Depth - 1 /\ Top.act = Depth /\ Failed(Top.act)
    BY <1>3
  <2>4. QED
    <3> SUFFICES ASSUME NEW call \in stopped'
                 PROVE  \/ call = 0 /\ Depth' = 0
                        \/ /\ call \in 1 .. Depth'
                           /\ \/ call = Depth' /\ Top'.at = "operation" /\ last'.outcome.error
                              \/ /\ frames'[call].at = "statement" /\ frames'[call].failed
                                 /\ ast'[frames'[call].node].kind = "CallStatement"
      BY DEF StoppedFits, KindAt
    <3>1. CASE call \in stopped /\ call < Depth
      BY <1>5, <2>1, <3>1
    <3>2. CASE call = Depth - 1 /\ Top.act = Depth /\ Failed(Top.act)
      BY <1>2, <1>5, <2>2, <3>2
    <3>3. QED
      BY <2>3, <3>1, <3>2
<1>22. StackFits'
  BY <1>2, <1>5, <1>13, <1>14, <1>15, <1>16, <1>17, <1>18, <1>19, <1>20, <1>21 DEF StackFits
<1>23. status' = "running"
  BY <1>3 DEF Runs
<1>24. IInv'
  BY <1>10, <1>12, <1>22, <1>23 DEF IInv
<1>25. QED
  BY <1>2, <1>3, <1>24 DEF Kept, Grows

(* An error settles the perform, without an outcome.                       *)
LEMMA FailKeeps ==
  ASSUME TypeOK, status # "settled",
         NEW error, error \notin {"outcome-not-set", "none", "mapped", "mapped-http"},
         Fail(error)
  PROVE  Kept
<1>1. /\ status' = "settled" /\ result' = [NotYet EXCEPT !.error = error]
      /\ UNCHANGED <<ast, external, opened, frames, last, said, ended, stopped>>
  BY DEF Fail, setting, history
<1>2. ~result'.ok /\ result'.error = error
  BY <1>1 DEF NotYet
<1>3. TypeOK'
  BY <1>1, <1>2, SameFrames DEF TypeOK, Settled, Scope, OutcomeValue, StatusCodes
<1>4. ResultAsStated'
  BY <1>2 DEF ResultAsStated
<1>5. Len(frames') = Depth /\ Depth \in Nat
  BY <1>1, LenProperties DEF Depth, TypeOK
<1>6. QED
  BY <1>1, <1>3, <1>4, <1>5 DEF Kept, IInv, ScopeIsCurrent, Grows

-----------------------------------------------------------------------------
(* The visitors.                                                           *)

(* The same visitor with other registers.                                  *)
Like(f, g) ==
  g \in Frame /\ g.node = f.node /\ g.act = f.act /\ g.scope = f.scope /\ g.outcome = f.outcome

LEMMA NextChild ==
  ASSUME NEW f \in Frame
  PROVE  LET g == [f EXCEPT !.i = @ + 1]
         IN Like(f, g) /\ g.failed = f.failed /\ g.response = f.response
BY DEF Like, Frame

LEMMA LikeReady ==
  ASSUME NEW f, NEW g, NEW told, Like(f, g), Ready(f, told)
  PROVE  Ready(g, told) /\ (Collects(f) => Collects(g))
BY ReadySame DEF Like

(* Nothing of the activation is visited after its end, and a call whose    *)
(* operation failed is only at its operation and its statements.           *)
LEMMA NotOver ==
  ASSUME Runs, Top.at \notin StatementPlaces \/ ~last.terminate
  PROVE  Top.act \notin ended
BY RunsFacts, TopFits DEF EndedFits

LEMMA OnlyStatements ==
  ASSUME Runs, Depth \in stopped
  PROVE  \/ Top.at = "operation" /\ last.outcome.error
         \/ Top.at = "statement" /\ Top.failed /\ Visited.kind = "CallStatement"
BY RunsFacts, TopFits DEF StoppedFits, KindAt, Visited, Top

(* A visitor that did not wait for a statement or an operation.            *)
Plain == Runs /\ Top.at \in OwnPlaces \cup ValuePlaces

LEMMA PlainFacts ==
  ASSUME Plain
  PROVE  /\ Ready(Top, said[Top.act]) /\ Collects(Top)
         /\ Top.act \notin ended /\ Depth \notin stopped
<1>1. Top.at \notin StatementPlaces /\ Top.at # "operation" /\ Top.at # "statement"
  BY KindsApart DEF Plain
<1>2. QED
  BY <1>1, TopReady, NotOver, OnlyStatements DEF Plain

LEMMA ExploreKeeps ==
  ASSUME Runs, NEW f, Ready(f, said[Top.act]), Collects(f),
         NEW place, NEW child \in DOMAIN ast, place # "response",
         Explores(f, place, child, f.scope, f.act),
         Top.act \notin ended,
         Depth \in stopped =>
           place = "statement" /\ f.failed /\ Visited.kind = "CallStatement",
         Explore(f, place, child)
  PROVE  Kept
<1>1. said[f.act] = said[Top.act]
  BY DEF Ready
<1>2. Push(f, place, NewFrame(child, f.scope, f.act), said[Top.act])
  BY <1>1 DEF Explore
<1>3. QED
  BY <1>2, PushKeeps DEF LatestStatus

(* A plain visitor explores a value.                                       *)
LEMMA ValueKeeps ==
  ASSUME Plain, NEW f, Like(Top, f), NEW place \in ValuePlaces, NEW child,
         child \in Nodes(Expressions),
         place = "iteration" => ast[child].kind = "IterationAtom",
         Explore(f, place, child)
  PROVE  Kept
<1>1. Ready(f, said[Top.act]) /\ Collects(f)
  BY PlainFacts, LikeReady
<1>2. child \in DOMAIN ast /\ ast[child].kind \in Expressions
  BY DEF Nodes
<1>3. place # "response" /\ Explores(f, place, child, f.scope, f.act)
  BY <1>2, KindsApart DEF Explores
<1>4. QED
  BY <1>1, <1>2, <1>3, PlainFacts, ExploreKeeps DEF Plain

(* A result that ends nothing.                                             *)
LEMMA ReturnsKeeps ==
  ASSUME Runs, NEW f, Ready(f, said[Top.act]), NEW value \in Values,
         Visited.kind \in Expressions => f.outcome = NoOutcome,
         Visited.kind = "IterationAtom" => value \in DOMAIN Elements,
         Visited.kind = "HttpResponseHandler" /\ value # "true" => Top.at = "start",
         Top.act \notin ended,
         Return(f, value, FALSE)
  PROVE  Kept
<1>1. said[f.act] = said[Top.act]
  BY DEF Ready
<1>2. ReturnSaying(f, value, FALSE, said[Top.act])
  BY <1>1 DEF Return
<1>3. QED
  BY <1>2, ReturnKeeps DEF LatestStatus, Failed

LEMMA PlainReturnKeeps ==
  ASSUME Plain, NEW f, Like(Top, f), NEW value \in Values,
         Visited.kind = "IterationAtom" => value \in DOMAIN Elements,
         Visited.kind = "HttpResponseHandler" /\ value # "true" => Top.at = "start",
         Return(f, value, FALSE)
  PROVE  Kept
<1>1. Ready(f, said[Top.act]) /\ Collects(f)
  BY PlainFacts, LikeReady
<1>2. Visited.kind \in Expressions => f.outcome = NoOutcome
  BY <1>1, KindsApart DEF Collects
<1>3. QED
  BY <1>1, <1>2, PlainFacts, ReturnsKeeps DEF Plain

(* The end of the activation is passed on.                                 *)
LEMMA EndKeeps ==
  ASSUME Runs, Top.at \in StatementPlaces, last.terminate,
         NEW f, Ready(f, said[Top.act]), f.outcome # NoOutcome,
         Return(f, "undefined", TRUE)
  PROVE  Kept
<1>1. said[f.act] = said[Top.act]
  BY DEF Ready
<1>2. ReturnSaying(f, "undefined", TRUE, said[Top.act])
  BY <1>1 DEF Return
<1>3. Visited.kind \notin Expressions
  BY TopFits, KindsApart, RunsFacts DEF FrameFits, KindAt, Visited, Top
<1>4. "undefined" \in Values /\ Visited.kind # "IterationAtom"
  BY <1>3, InterpreterAssumption DEF Expressions
<1>5. QED
  BY <1>2, <1>3, <1>4, ReturnKeeps DEF LatestStatus, Failed

LEMMA EndHasOutcome ==
  ASSUME Runs, last.terminate
  PROVE  /\ Processed(Top).outcome # NoOutcome
         /\ FromHttp(Processed(Top)).outcome # NoOutcome
<1>1. last.outcome # NoOutcome
  BY TopFits DEF ResultFits
<1>2. Processed(Top) \in Frame
      /\ Processed(Top).outcome = Merged(Top.outcome, last.outcome)
  BY TopFits, RunsFacts, ProcessedFields
<1>3. Merged(Top.outcome, last.outcome) # NoOutcome
  BY <1>1, NoOutcomeFields DEF Merged, MergeOutcome
<1>4. FromHttp(Processed(Top)).outcome # NoOutcome
  BY <1>2, <1>3, FromHttpFields, NoOutcomeFields
<1>5. QED
  BY <1>2, <1>3, <1>4

LEMMA AtRuns ==
  ASSUME IInv, NEW kinds, NEW place, At(kinds, place)
  PROVE  /\ Runs /\ Visited.kind \in kinds /\ Top.at = place
         /\ ast \in Programs /\ Top.node \in DOMAIN ast /\ Visited = ast[Top.node]
         /\ Top \in Frame /\ TypeOK /\ status # "settled"
         /\ (place \in OwnPlaces \cup ValuePlaces => Plain)
<1>1. Runs /\ Visited.kind \in kinds /\ Top.at = place
  BY DEF At, Runs, IInv
<1>2. QED
  BY <1>1, RunsFacts DEF Runs, TypeOK, Visited, Frame, Plain

LEMMA AtPlain ==
  ASSUME IInv, NEW kinds, NEW place \in OwnPlaces \cup ValuePlaces, At(kinds, place)
  PROVE  /\ Plain /\ Visited.kind \in kinds /\ Top.at = place
         /\ ast \in Programs /\ Top.node \in DOMAIN ast /\ Visited = ast[Top.node]
         /\ Like(Top, Top) /\ Top \in Frame /\ TypeOK /\ status # "settled"
BY AtRuns DEF Like

LEMMA StatementsKeeps ==
  ASSUME Runs, NEW f, Ready(f, said[Top.act]), Collects(f), NEW value \in Values,
         Visited.kind \in Definitions \cup {"CallStatement", "HttpResponseHandler"},
         Top.act \notin ended,
         Depth \in stopped =>
           f.failed /\ Visited.kind = "CallStatement",
         Visited.kind = "HttpResponseHandler" /\ value # "true" => Top.at = "start",
         Statements(f, value)
  PROVE  Kept
<1>1. f \in Frame /\ f.i \in Nat
  BY DEF Ready, Frame
<1>2. Visited.statements \in Seq(Nodes(StatementKinds))
  <2>1. ast \in Programs /\ Top.node \in DOMAIN ast
    BY RunsFacts DEF Runs, TypeOK, Frame
  <2>2. QED
    BY <2>1, Grammar DEF Visited, Calls
<1>3. CASE f.i < Len(Visited.statements)
  <2> DEFINE g == [f EXCEPT !.i = @ + 1]
             child == Visited.statements[f.i + 1]
  <2>1. Like(f, g) /\ g.failed = f.failed
    BY <1>1, NextChild
  <2>2. child \in DOMAIN ast /\ ast[child].kind \in StatementKinds
    BY <1>1, <1>2, <1>3, ChildNode
  <2>3. Explore(g, "statement", child)
    BY <1>3 DEF Statements
  <2> HIDE DEF g, child
  <2>4. Ready(g, said[Top.act]) /\ Collects(g)
    BY <2>1, LikeReady
  <2>5. Explores(g, "statement", child, g.scope, g.act)
    BY <2>2 DEF Explores, Collectors
  <2>6. QED
    BY <2>1, <2>2, <2>3, <2>4, <2>5, ExploreKeeps
<1>4. CASE ~(f.i < Len(Visited.statements))
  <2>1. Return(f, value, FALSE)
    BY <1>4 DEF Statements
  <2>2. Visited.kind \notin Expressions /\ Visited.kind # "IterationAtom"
    BY DEF Definitions, Expressions, Objects
  <2>3. QED
    BY <2>1, <2>2, ReturnsKeeps
<1>5. QED
  BY <1>3, <1>4

LEMMA DefinitionStartKeeps ==
  ASSUME IInv, DefinitionStart
  PROVE  Kept
<1>1. /\ Runs /\ Plain /\ Visited.kind \in Definitions /\ Top.at = "start"
      /\ Statements(Top, "undefined")
  BY AtRuns, KindsApart DEF DefinitionStart
<1>2. QED
  BY <1>1, PlainFacts, StatementsKeeps, InterpreterAssumption DEF Definitions

LEMMA DefinitionStatementKeeps ==
  ASSUME IInv, DefinitionStatement
  PROVE  Kept
<1>1. /\ Runs /\ Visited.kind \in Definitions /\ Top.at = "statement"
      /\ Top.at \in StatementPlaces /\ Visited.kind # "HttpCallStatement"
      /\ Visited.kind # "CallStatement" /\ Visited.kind # "HttpResponseHandler"
  BY AtRuns DEF DefinitionStatement, Definitions, StatementPlaces
<1>2. Ready(Processed(Top), said[Top.act]) /\ Collects(Processed(Top))
  BY <1>1, StatementReady
<1>3. Depth \notin stopped
  BY <1>1, OnlyStatements
<1>4. CASE last.terminate
  <2>1. Return(Processed(Top), "undefined", TRUE)
    BY <1>4 DEF DefinitionStatement, Terminates
  <2>2. QED
    BY <1>1, <1>2, <1>4, <2>1, EndHasOutcome, EndKeeps
<1>5. CASE ~last.terminate
  <2>1. Statements(Processed(Top), "undefined")
    BY <1>5 DEF DefinitionStatement, Terminates
  <2>2. QED
    BY <1>1, <1>2, <1>3, <1>5, <2>1, NotOver, StatementsKeeps, InterpreterAssumption
<1>6. QED
  BY <1>4, <1>5

LEMMA HandlerStartKeeps ==
  ASSUME IInv, HandlerStart
  PROVE  Kept
<1>1. /\ Runs /\ Plain /\ Visited.kind = "HttpResponseHandler" /\ Top.at = "start"
      /\ Top \in Frame
  BY AtRuns, KindsApart DEF HandlerStart
<1>2. "true" \in Values /\ "false" \in Values
  BY InterpreterAssumption
<1>3. CASE MatchResponse(Top)
  <2>1. Statements(Top, "true")
    BY <1>3 DEF HandlerStart
  <2>2. QED
    BY <1>1, <1>2, <2>1, PlainFacts, StatementsKeeps
<1>4. CASE ~MatchResponse(Top)
  <2>1. Return(Top, "false", FALSE) /\ Like(Top, Top)
    BY <1>1, <1>4 DEF HandlerStart, Like
  <2>2. QED
    BY <1>1, <1>2, <2>1, PlainReturnKeeps
<1>5. QED
  BY <1>3, <1>4

LEMMA HandlerStatementKeeps ==
  ASSUME IInv, HandlerStatement
  PROVE  Kept
<1>1. /\ Runs /\ Visited.kind = "HttpResponseHandler" /\ Top.at = "statement"
      /\ Top.at \in StatementPlaces
  BY AtRuns DEF HandlerStatement, StatementPlaces
<1>2. Ready(Processed(Top), said[Top.act]) /\ Collects(Processed(Top))
  BY <1>1, StatementReady
<1>3. Depth \notin stopped
  BY <1>1, OnlyStatements
<1>4. CASE last.terminate
  <2>1. Return(Processed(Top), "undefined", TRUE)
    BY <1>4 DEF HandlerStatement, Terminates
  <2>2. QED
    BY <1>1, <1>2, <1>4, <2>1, EndHasOutcome, EndKeeps
<1>5. CASE ~last.terminate
  <2>1. Statements(Processed(Top), "true")
    BY <1>5 DEF HandlerStatement, Terminates
  <2>2. QED
    BY <1>1, <1>2, <1>3, <1>5, <2>1, NotOver, StatementsKeeps, InterpreterAssumption
<1>6. QED
  BY <1>4, <1>5

LEMMA PlainPlaces ==
  OwnPlaces \cup ValuePlaces =
    {"start", "item", "send", "unhandled", "field", "value", "condition", "assignment",
     "iteration", "argument", "request"}
BY DEF OwnPlaces, ValuePlaces

LEMMA PrimitiveLiteralKeeps ==
  ASSUME IInv, PrimitiveLiteral
  PROVE  Kept
<1>1. /\ Plain /\ Visited.kind = "PrimitiveLiteral" /\ Like(Top, Top)
      /\ ast \in Programs /\ Top.node \in DOMAIN ast /\ Visited = ast[Top.node]
  <2>1. At({"PrimitiveLiteral"}, "start")
    BY DEF PrimitiveLiteral
  <2>2. QED
    BY <2>1, AtPlain, PlainPlaces
<1>2. Visited.value \in Values
  BY <1>1, Grammar
<1>3. Return(Top, Visited.value, FALSE)
  BY DEF PrimitiveLiteral
<1>4. QED
  BY <1>1, <1>2, <1>3, PlainReturnKeeps

LEMMA JessieExpressionKeeps ==
  ASSUME IInv, JessieExpression
  PROVE  Kept
<1>1. /\ Plain /\ Visited.kind = "JessieExpression" /\ Like(Top, Top)
      /\ Visited.values \subseteq Values /\ TypeOK /\ status # "settled"
  BY AtRuns, KindsApart, Grammar DEF JessieExpression, Like
<1>2. ASSUME NEW value \in Visited.values, Return(Top, value, FALSE)
      PROVE  Kept
  BY <1>1, <1>2, PlainReturnKeeps
<1>3. ASSUME Fail("jessie")
      PROVE  Kept
  BY <1>1, <1>3, FailKeeps
<1>4. QED
  BY <1>2, <1>3 DEF JessieExpression

LEMMA ObjectFieldKeeps ==
  ASSUME IInv, ObjectField
  PROVE  Kept
<1>1. /\ Plain /\ Visited.kind \in Objects /\ Like(Top, Top) /\ Top \in Frame
      /\ Visited.fields \in Seq(Nodes(Expressions))
  BY AtRuns, KindsApart, Grammar DEF ObjectField, Like, ValuePlaces
<1>2. Visited.kind # "IterationAtom" /\ Visited.kind # "HttpResponseHandler"
      /\ "true" \in Values /\ Top.i \in Nat
  BY <1>1, InterpreterAssumption DEF Objects, Frame
<1>3. CASE Top.i < Len(Visited.fields)
  <2> DEFINE g == [Top EXCEPT !.i = @ + 1]
             child == Visited.fields[Top.i + 1]
  <2>1. Explore(g, "field", child)
    BY <1>3 DEF ObjectField
  <2>2. Like(Top, g)
    BY <1>1, NextChild
  <2>3. child \in Nodes(Expressions)
    BY <1>1, <1>2, <1>3, ChildNode DEF Nodes
  <2>4. "field" \in ValuePlaces
    BY DEF ValuePlaces
  <2> HIDE DEF g, child
  <2>5. QED
    BY <1>1, <2>1, <2>2, <2>3, <2>4, ValueKeeps
<1>4. CASE ~(Top.i < Len(Visited.fields))
  <2>1. Return(Top, "true", FALSE)
    BY <1>4 DEF ObjectField
  <2>2. QED
    BY <1>1, <1>2, <2>1, PlainReturnKeeps
<1>5. QED
  BY <1>3, <1>4

LEMMA ConditionAtomKeeps ==
  ASSUME IInv, ConditionAtom
  PROVE  Kept
<1>1. /\ Plain /\ Visited.kind = "ConditionAtom" /\ Like(Top, Top)
      /\ ast \in Programs /\ Top.node \in DOMAIN ast /\ Visited = ast[Top.node]
  <2>1. At({"ConditionAtom"}, "start") \/ At({"ConditionAtom"}, "value")
    BY DEF ConditionAtom
  <2>2. QED
    BY <2>1, AtPlain, PlainPlaces
<1>2. /\ "value" \in ValuePlaces /\ "true" \in Values /\ "false" \in Values
      /\ Visited.expression \in Nodes(Expressions)
  BY <1>1, Grammar, InterpreterAssumption DEF ValuePlaces
<1>3. ASSUME Explore(Top, "value", Visited.expression)
      PROVE  Kept
  BY <1>1, <1>2, <1>3, ValueKeeps
<1>4. ASSUME NEW value \in {"true", "false"}, Return(Top, value, FALSE)
      PROVE  Kept
  BY <1>1, <1>2, <1>4, PlainReturnKeeps
<1>5. QED
  BY <1>3, <1>4 DEF ConditionAtom

LEMMA IterationAtomKeeps ==
  ASSUME IInv, IterationAtom
  PROVE  Kept
<1>1. /\ Plain /\ Visited.kind = "IterationAtom" /\ Like(Top, Top)
      /\ TypeOK /\ status # "settled"
      /\ ast \in Programs /\ Top.node \in DOMAIN ast /\ Visited = ast[Top.node]
  <2>1. At({"IterationAtom"}, "start") \/ At({"IterationAtom"}, "value")
    BY DEF IterationAtom
  <2>2. QED
    BY <2>1, AtPlain, PlainPlaces
<1>2. /\ "value" \in ValuePlaces /\ DOMAIN Elements \subseteq Values
      /\ Visited.iterable \in Nodes(Expressions)
  BY <1>1, Grammar, InterpreterAssumption DEF ValuePlaces
<1>3. ASSUME Explore(Top, "value", Visited.iterable)
      PROVE  Kept
  BY <1>1, <1>2, <1>3, ValueKeeps
<1>4. ASSUME last.value \in DOMAIN Elements, Return(Top, last.value, FALSE)
      PROVE  Kept
  BY <1>1, <1>2, <1>4, PlainReturnKeeps
<1>5. ASSUME Fail("not-iterable")
      PROVE  Kept
  BY <1>1, <1>5, FailKeeps
<1>6. QED
  BY <1>3, <1>4, <1>5 DEF IterationAtom

LEMMA AssignKeeps ==
  ASSUME Plain, Visited.kind = "SetStatement",
         NEW f, NEW told, Ready(f, told), Collects(f), Failed(Top.act) => Fails(told),
         Assign(f, told)
  PROVE  Kept
<1>1. /\ Visited.assignments \in Seq(Nodes({"Assignment"}))
      /\ f \in Frame /\ f.i \in Nat
  <2>1. Top \in Frame /\ ast \in Programs /\ f \in Frame
    BY RunsFacts DEF Plain, Runs, TypeOK, Ready
  <2>2. QED
    BY <2>1, Grammar DEF Frame, Visited
<1>2. /\ Visited.kind \notin Expressions /\ Visited.kind # "HttpResponseHandler"
      /\ Visited.kind # "IterationAtom"
  BY DEF Expressions, Objects
<1>3. CASE f.i < Len(Visited.assignments)
  <2> DEFINE g == [f EXCEPT !.i = @ + 1]
             child == Visited.assignments[f.i + 1]
  <2>1. Push(g, "assignment", NewFrame(child, f.scope, f.act), told)
    BY <1>3 DEF Assign
  <2>2. Like(f, g)
    BY <1>1, NextChild
  <2>3. child \in DOMAIN ast /\ ast[child].kind \in {"Assignment"}
    BY <1>1, <1>3, ChildNode
  <2> HIDE DEF g, child
  <2>4. Ready(g, told) /\ Collects(g)
    BY <2>2, LikeReady
  <2>5. Explores(g, "assignment", child, f.scope, f.act)
    BY <2>2, <2>3 DEF Explores, Like, ValuePlaces, Expressions, Objects
  <2>6. QED
    BY <1>2, <2>1, <2>3, <2>4, <2>5, PlainFacts, PushKeeps DEF Plain
<1>4. CASE ~(f.i < Len(Visited.assignments))
  <2>1. ReturnSaying(f, "undefined", FALSE, told)
    BY <1>4 DEF Assign
  <2>2. "undefined" \in Values
    BY InterpreterAssumption
  <2>3. QED
    BY <1>2, <2>1, <2>2, PlainFacts, ReturnKeeps DEF Plain
<1>5. QED
  BY <1>3, <1>4

(* The scope that an assignment has written is told.                       *)
LEMMA AssignedKeeps ==
  ASSUME Plain, Visited.kind = "SetStatement", Assigned
  PROVE  Kept
<1>1. Ready(Top, said[Top.act]) /\ Collects(Top)
  BY PlainFacts
<1>2. ASSUME Assign(Top, said[Top.act])
      PROVE  Kept
  BY <1>1, <1>2, AssignKeeps DEF Failed
<1>3. ASSUME NEW code \in StatusCodes,
             Assign([Top EXCEPT !.scope.statusCode = code],
                    [said[Top.act] EXCEPT !.status = code])
      PROVE  Kept
  <2> DEFINE f    == [Top EXCEPT !.scope.statusCode = code]
             told == [said[Top.act] EXCEPT !.status = code]
             s    == [Top.scope EXCEPT !.statusCode = code]
  <2>1. Top \in Frame /\ Top.scope \in Scope /\ said[Top.act] \in Told
    BY RunsFacts DEF Plain, Frame
  <2>2. s \in Scope /\ s = [owner |-> Top.scope.owner, statusCode |-> code]
    BY <1>3, <2>1 DEF Scope
  <2>3. f = [Top EXCEPT !.scope = s]
    OBVIOUS
  <2>4. /\ told \in Told /\ told.status = code
        /\ told.error = said[Top.act].error /\ told.data = said[Top.act].data
    BY <1>3, <2>1 DEF Told
  <2>5. Assign(f, told)
    BY <1>3
  <2> HIDE DEF f, told, s
  <2>6. /\ f \in Frame /\ f.node = Top.node /\ f.act = Top.act
        /\ f.outcome = Top.outcome /\ f.scope = s
    BY <2>1, <2>2, <2>3 DEF Frame
  <2>7. Held(Own(f.outcome), HttpCalls(Top.act), told)
    BY <1>1, <2>4, <2>6, HeldSame DEF Ready
  <2>8. Ready(f, told) /\ Collects(f)
    BY <1>1, <2>2, <2>4, <2>6, <2>7 DEF Ready, Collects
  <2>9. Failed(Top.act) => Fails(told)
    BY <2>4 DEF Failed, Fails
  <2>10. QED
    BY <2>5, <2>8, <2>9, AssignKeeps
<1>4. QED
  BY <1>2, <1>3 DEF Assigned

LEMMA ConditionNodes ==
  Nodes({"ConditionAtom"}) \subseteq Nodes(Expressions)
BY DEF Nodes, Expressions

LEMMA SetStatementKeeps ==
  ASSUME IInv, SetStatement
  PROVE  Kept
<1>1. /\ Plain /\ Visited.kind = "SetStatement" /\ Like(Top, Top)
      /\ Visited.condition \in Nodes({"ConditionAtom"}) \cup {None}
  <2>1. /\ Plain /\ Visited.kind = "SetStatement" /\ Like(Top, Top)
        /\ ast \in Programs /\ Top.node \in DOMAIN ast /\ Visited = ast[Top.node]
    <3>1. \/ At({"SetStatement"}, "start") \/ At({"SetStatement"}, "condition")
          \/ At({"SetStatement"}, "assignment")
      BY DEF SetStatement
    <3>2. QED
      BY <3>1, AtPlain, PlainPlaces
  <2>2. QED
    BY <2>1, Grammar
<1>2. ASSUME Visited.condition # None, Explore(Top, "condition", Visited.condition)
      PROVE  Kept
  BY <1>1, <1>2, ConditionNodes, ValueKeeps DEF ValuePlaces
<1>3. ASSUME Assign(Top, said[Top.act])
      PROVE  Kept
  BY <1>1, <1>3, PlainFacts, AssignKeeps DEF Failed
<1>4. ASSUME Return(Top, "undefined", FALSE)
      PROVE  Kept
  BY <1>1, <1>4, PlainReturnKeeps, InterpreterAssumption
<1>5. ASSUME Assigned
      PROVE  Kept
  BY <1>1, <1>5, AssignedKeeps
<1>6. QED
  BY <1>2, <1>3, <1>4, <1>5 DEF SetStatement

(* The operation of a call.                                                *)
LEMMA CallOperationKeeps ==
  ASSUME Plain, TypeOK, status # "settled", Visited.kind \in Calls,
         NEW f, Like(Top, f), CallOperation(f)
  PROVE  Kept
<1>1. CASE Visited.operation = None
  BY <1>1, FailKeeps DEF CallOperation
<1>2. CASE Visited.operation # None
  <2> DEFINE child == Visited.operation
  <2>1. Ready(f, said[Top.act]) /\ Collects(f) /\ f.act = Top.act
    BY PlainFacts, LikeReady DEF Like
  <2>2. child \in DOMAIN ast /\ ast[child].kind = "OperationDefinition"
    <3>1. ast \in Programs /\ Top.node \in DOMAIN ast
      BY RunsFacts DEF Plain, Runs, TypeOK, Frame
    <3>2. QED
      BY <1>2, <3>1, Grammar DEF Visited, Nodes
  <2>3. Push(f, "operation", NewFrame(child, NewScope(Depth + 1), Depth + 1), said[Top.act])
    BY <1>2, <2>1 DEF CallOperation
  <2> HIDE DEF child
  <2>4. Explores(f, "operation", child, NewScope(Depth + 1), Depth + 1)
    BY <2>2 DEF Explores
  <2>5. QED
    BY <2>1, <2>2, <2>3, <2>4, PlainFacts, PushKeeps DEF LatestStatus, Plain
<1>3. QED
  BY <1>1, <1>2

LEMMA ArgumentsKeeps ==
  ASSUME Plain, TypeOK, status # "settled", Visited.kind \in Calls,
         NEW f, Like(Top, f), Arguments(f)
  PROVE  Kept
<1>1. Visited.arguments \in Seq(Nodes({"Assignment"})) /\ f \in Frame /\ f.i \in Nat
  <2>1. Top \in Frame /\ ast \in Programs
    BY RunsFacts DEF Plain, Runs, TypeOK
  <2>2. QED
    BY <2>1, Grammar DEF Frame, Like, Visited
<1>2. CASE f.i < Len(Visited.arguments)
  <2> DEFINE g == [f EXCEPT !.i = @ + 1]
             child == Visited.arguments[f.i + 1]
  <2>1. Explore(g, "argument", child)
    BY <1>2 DEF Arguments
  <2>2. Like(Top, g)
    BY <1>1, NextChild DEF Like
  <2>3. child \in DOMAIN ast /\ ast[child].kind \in {"Assignment"}
    BY <1>1, <1>2, ChildNode
  <2>4. child \in Nodes(Expressions) /\ "argument" \in ValuePlaces
    BY <2>3 DEF ValuePlaces, Nodes, Expressions, Objects
  <2> HIDE DEF g, child
  <2>5. QED
    BY <2>1, <2>2, <2>4, ValueKeeps
<1>3. CASE ~(f.i < Len(Visited.arguments))
  BY <1>3, CallOperationKeeps DEF Arguments
<1>4. QED
  BY <1>2, <1>3

(* A plain visitor goes on.                                                *)
LEMMA PlainGotoKeeps ==
  ASSUME Plain, NEW f, Like(Top, f), NEW place \in {"item", "send", "unhandled"},
         Goto(f, place)
  PROVE  Kept
<1>1. Ready(f, said[Top.act]) /\ Collects(f)
  BY PlainFacts, LikeReady
<1>2. QED
  BY <1>1, PlainFacts, GotoKeeps DEF Plain

LEMMA CallFacts ==
  ASSUME IInv, NEW place \in OwnPlaces \cup ValuePlaces, At(Calls, place)
  PROVE  /\ Plain /\ Visited.kind \in Calls /\ Like(Top, Top) /\ Top \in Frame
         /\ TypeOK /\ status # "settled" /\ Top.at = place
         /\ Visited.condition \in Nodes(Expressions) \cup {None}
         /\ Visited.iteration # None =>
              /\ Visited.iteration \in Nodes(Expressions)
              /\ ast[Visited.iteration].kind = "IterationAtom"
         /\ Visited.kind # "IterationAtom" /\ Visited.kind # "HttpResponseHandler"
<1>1. /\ Plain /\ Visited.kind \in Calls /\ Like(Top, Top) /\ Top \in Frame
      /\ TypeOK /\ status # "settled" /\ Top.at = place
      /\ ast \in Programs /\ Top.node \in DOMAIN ast /\ Visited = ast[Top.node]
  BY AtRuns DEF Like
<1>2. /\ Visited.condition \in Nodes({"ConditionAtom"}) \cup {None}
      /\ Visited.iteration \in Nodes({"IterationAtom"}) \cup {None}
  BY <1>1, Grammar
<1>3. Nodes({"IterationAtom"}) \subseteq Nodes(Expressions)
      /\ \A n \in Nodes({"IterationAtom"}) : ast[n].kind = "IterationAtom"
  BY DEF Nodes, Expressions
<1>4. QED
  BY <1>1, <1>2, <1>3, ConditionNodes DEF Calls

LEMMA CallStartKeeps ==
  ASSUME IInv, CallStart
  PROVE  Kept
<1>1. At(Calls, "start") /\ "start" \in OwnPlaces
  BY KindsApart DEF CallStart
<1>2. CASE Visited.iteration = None
  <2> DEFINE f == [Top EXCEPT !.rest = 1]
  <2>1. Goto(f, "item")
    BY <1>2 DEF CallStart
  <2>2. Like(Top, f)
    BY <1>1, CallFacts DEF Like, Frame
  <2> HIDE DEF f
  <2>3. QED
    BY <1>1, <2>1, <2>2, CallFacts, PlainGotoKeeps
<1>3. CASE Visited.iteration # None
  <2> DEFINE f == [Top EXCEPT !.value = "list0"]
             child == Visited.iteration
  <2>1. Explore(f, "iteration", child)
    BY <1>3 DEF CallStart
  <2>2. Like(Top, f)
    <3>1. "list0" \in Values
      BY InterpreterAssumption DEF Elements
    <3>2. QED
      BY <1>1, <3>1, CallFacts DEF Like, Frame
  <2>3. child \in Nodes(Expressions) /\ ast[child].kind = "IterationAtom"
    BY <1>1, <1>3, CallFacts
  <2>4. "iteration" \in ValuePlaces
    BY DEF ValuePlaces
  <2> HIDE DEF f, child
  <2>5. QED
    BY <1>1, <2>1, <2>2, <2>3, <2>4, CallFacts, ValueKeeps
<1>4. QED
  BY <1>2, <1>3

LEMMA CallIterationKeeps ==
  ASSUME IInv, CallIteration
  PROVE  Kept
<1>1. At(Calls, "iteration") /\ "iteration" \in OwnPlaces \cup ValuePlaces
  BY DEF CallIteration, ValuePlaces
<1>2. Plain /\ Top \in Frame /\ Top.at = "iteration"
  BY <1>1, CallFacts
<1>3. last.value \in DOMAIN Elements
  BY <1>1, <1>2, TopFits, RunsFacts DEF ResultFits, Plain, OwnPlaces
<1> DEFINE f == [Top EXCEPT !.rest = Elements[last.value]]
<1>4. Like(Top, f)
  BY <1>2, <1>3 DEF Like, Frame, Elements
<1>5. Goto(f, "item")
  BY DEF CallIteration
<1> HIDE DEF f
<1>6. QED
  BY <1>2, <1>4, <1>5, PlainGotoKeeps

LEMMA CallItemKeeps ==
  ASSUME IInv, CallItem
  PROVE  Kept
<1>1. At(Calls, "item") /\ "item" \in OwnPlaces
  BY DEF CallItem, OwnPlaces
<1>2. /\ Plain /\ Top \in Frame /\ Top.rest \in Nat /\ Top.value \in Values
      /\ TypeOK /\ status # "settled"
  BY <1>1, CallFacts DEF Frame
<1>3. ASSUME Return(Top, Collection(Top), FALSE)
      PROVE  Kept
  <2>1. Collection(Top) \in Values
    BY <1>2, InterpreterAssumption DEF Collection
  <2>2. QED
    BY <1>1, <1>3, <2>1, CallFacts, PlainReturnKeeps
<1>4. Top.rest > 0 => Like(Top, NextItem(Top))
  <2>1. Top.rest > 0 => Top.rest - 1 \in Nat
    BY <1>2
  <2>2. QED
    BY <1>2, <2>1 DEF Like, Frame, NextItem
<1>5. ASSUME Top.rest > 0, Arguments(NextItem(Top))
      PROVE  Kept
  BY <1>1, <1>4, <1>5, CallFacts, ArgumentsKeeps
<1>6. ASSUME Top.rest > 0, Visited.condition # None,
             Explore(NextItem(Top), "condition", Visited.condition)
      PROVE  Kept
  <2>1. "condition" \in ValuePlaces /\ "condition" # "iteration"
    BY DEF ValuePlaces
  <2>2. QED
    BY <1>1, <1>4, <1>6, <2>1, CallFacts, ValueKeeps
<1>7. ASSUME Fail("thrown")
      PROVE  Kept
  BY <1>2, <1>7, FailKeeps
<1>8. QED
  BY <1>3, <1>5, <1>6, <1>7 DEF CallItem

LEMMA CallConditionKeeps ==
  ASSUME IInv, CallCondition
  PROVE  Kept
<1>1. At(Calls, "condition") /\ "condition" \in ValuePlaces
  BY DEF CallCondition, ValuePlaces
<1>2. ASSUME Goto(Top, "item")
      PROVE  Kept
  BY <1>1, <1>2, CallFacts, PlainGotoKeeps
<1>3. ASSUME Arguments(Top)
      PROVE  Kept
  BY <1>1, <1>3, CallFacts, ArgumentsKeeps
<1>4. QED
  BY <1>2, <1>3 DEF CallCondition, Skip

LEMMA CallArgumentKeeps ==
  ASSUME IInv, CallArgument
  PROVE  Kept
<1>1. At(Calls, "argument") /\ "argument" \in ValuePlaces /\ Arguments(Top)
  BY DEF CallArgument, ValuePlaces
<1>2. QED
  BY <1>1, CallFacts, ArgumentsKeeps

LEMMA InlineCallOperationKeeps ==
  ASSUME IInv, InlineCallOperation
  PROVE  Kept
<1>1. At({"InlineCall"}, "operation")
  BY DEF InlineCallOperation
<1>2. /\ Runs /\ Top.at = "operation" /\ Top \in Frame /\ TypeOK /\ status # "settled"
      /\ Top.at \notin StatementPlaces
  BY <1>1, AtRuns, KindsApart
<1>3. Ready(Top, said[Top.act]) /\ Collects(Top) /\ Top.act \notin ended
  BY <1>2, TopReady, NotOver
<1>4. CASE last.outcome.error
  <2>1. Fail("inline-call")
    BY <1>4 DEF InlineCallOperation
  <2>2. QED
    BY <1>2, <2>1, FailKeeps
<1>5. CASE ~last.outcome.error
  <2> DEFINE f == [Top EXCEPT !.value = Collected(Top)]
  <2>1. Goto(f, "item")
    BY <1>5 DEF InlineCallOperation
  <2>2. Collected(Top) \in Values
    <3>1. \A n : ListOf(n) \in Values
      BY InterpreterAssumption DEF ListOf, Elements
    <3>2. last.outcome.value \in Values
      BY <1>2, TopFits DEF OutcomeValue
    <3>3. QED
      BY <3>1, <3>2 DEF Collected
  <2>3. Like(Top, f)
    BY <1>2, <2>2 DEF Like, Frame
  <2> HIDE DEF f
  <2>4. Ready(f, said[Top.act]) /\ Collects(f)
    BY <1>3, <2>3, LikeReady
  <2>5. Depth \notin stopped
    BY <1>2, <1>5, OnlyStatements
  <2>6. QED
    BY <1>2, <1>3, <2>1, <2>4, <2>5, GotoKeeps
<1>6. QED
  BY <1>4, <1>5

LEMMA CallBlockKeeps ==
  ASSUME Runs, Visited.kind = "CallStatement", Top.act \notin ended,
         NEW f, Ready(f, said[Top.act]), Collects(f), Depth \in stopped => f.failed,
         CallBlock(f)
  PROVE  Kept
<1>1. CASE f.i < Len(Visited.statements)
  <2>1. Statements(f, "undefined")
    BY <1>1 DEF CallBlock
  <2>2. QED
    BY <2>1, StatementsKeeps, InterpreterAssumption
<1>2. CASE ~(f.i < Len(Visited.statements)) /\ f.failed
  <2>1. Return(f, "undefined", FALSE)
    BY <1>2 DEF CallBlock, Breaks
  <2>2. Visited.kind \notin Expressions
    BY DEF Expressions, Objects
  <2>3. QED
    BY <2>1, <2>2, ReturnsKeeps, InterpreterAssumption
<1>3. CASE ~(f.i < Len(Visited.statements)) /\ ~f.failed
  <2>1. Goto(f, "item")
    BY <1>3 DEF CallBlock, Breaks
  <2>2. QED
    BY <1>3, <2>1, GotoKeeps
<1>4. QED
  BY <1>1, <1>2, <1>3

LEMMA CallStatementOperationKeeps ==
  ASSUME IInv, CallStatementOperation
  PROVE  Kept
<1>1. At({"CallStatement"}, "operation")
  BY DEF CallStatementOperation
<1>2. /\ Runs /\ Top.at = "operation" /\ Top \in Frame /\ Visited.kind = "CallStatement"
      /\ Top.at \notin StatementPlaces
  BY <1>1, AtRuns, KindsApart
<1>3. Ready(Top, said[Top.act]) /\ Collects(Top) /\ Top.act \notin ended
  BY <1>2, TopReady, NotOver
<1> DEFINE f == [Top EXCEPT !.i = 0, !.failed = last.outcome.error]
<1>4. Like(Top, f) /\ (f.failed <=> last.outcome.error)
  <2>1. last.outcome.error \in BOOLEAN
    BY <1>2, TopFits DEF OutcomeValue
  <2>2. QED
    BY <1>2, <2>1 DEF Like, Frame
<1>5. CallBlock(f)
  BY DEF CallStatementOperation
<1> HIDE DEF f
<1>6. Ready(f, said[Top.act]) /\ Collects(f)
  BY <1>3, <1>4, LikeReady
<1>7. Depth \in stopped => f.failed
  BY <1>2, <1>4, OnlyStatements
<1>8. QED
  BY <1>2, <1>3, <1>5, <1>6, <1>7, CallBlockKeeps

LEMMA CallStatementStatementKeeps ==
  ASSUME IInv, CallStatementStatement
  PROVE  Kept
<1>1. At({"CallStatement"}, "statement")
  BY DEF CallStatementStatement
<1>2. /\ Runs /\ Top.at = "statement" /\ Top \in Frame /\ Visited.kind = "CallStatement"
      /\ Top.at \in StatementPlaces
  BY <1>1, AtRuns, KindsApart
<1>3. Ready(Processed(Top), said[Top.act]) /\ Collects(Processed(Top))
  BY <1>2, StatementReady
<1>4. CASE last.terminate
  <2>1. Return(Processed(Top), "undefined", TRUE)
    BY <1>4 DEF CallStatementStatement, Terminates
  <2>2. QED
    BY <1>2, <1>3, <1>4, <2>1, EndHasOutcome, EndKeeps
<1>5. CASE ~last.terminate
  <2>1. CallBlock(Processed(Top))
    BY <1>5 DEF CallStatementStatement, Terminates
  <2>2. Depth \in stopped => Processed(Top).failed
    BY <1>2, OnlyStatements, ProcessedFields, TopFits
  <2>3. QED
    BY <1>2, <1>3, <1>5, <2>1, <2>2, NotOver, CallBlockKeeps
<1>6. QED
  BY <1>4, <1>5

(* HTTP calls and their handlers.                                          *)
LEMMA HttpStartKeeps ==
  ASSUME IInv, HttpStart
  PROVE  Kept
<1>1. At({"HttpCallStatement"}, "start")
  BY DEF HttpStart
<1>2. /\ Plain /\ Like(Top, Top) /\ TypeOK /\ status # "settled"
      /\ Visited.kind = "HttpCallStatement"
      /\ ast \in Programs /\ Top.node \in DOMAIN ast /\ Visited = ast[Top.node]
  BY <1>1, AtPlain, PlainPlaces
<1>3. ASSUME Fail("no-service")
      PROVE  Kept
  BY <1>2, <1>3, FailKeeps
<1>4. ASSUME Goto(Top, "send")
      PROVE  Kept
  BY <1>2, <1>4, PlainGotoKeeps
<1>5. ASSUME Visited.request # None, Explore(Top, "request", Visited.request)
      PROVE  Kept
  <2>1. Visited.request \in Nodes({"HttpRequest"})
    BY <1>2, <1>5, Grammar
  <2>2. Visited.request \in Nodes(Expressions) /\ "request" \in ValuePlaces
    BY <2>1 DEF Nodes, Expressions, Objects, ValuePlaces
  <2>3. QED
    BY <1>2, <1>5, <2>2, ValueKeeps
<1>6. QED
  BY <1>3, <1>4, <1>5 DEF HttpStart

LEMMA HttpRequestedKeeps ==
  ASSUME IInv, HttpRequested
  PROVE  Kept
<1>1. At({"HttpCallStatement"}, "request") /\ Goto(Top, "send")
  BY DEF HttpRequested
<1>2. QED
  BY <1>1, AtPlain, PlainPlaces, PlainGotoKeeps

LEMMA HandlersKeeps ==
  ASSUME Runs, Visited.kind = "HttpCallStatement", Top.act \notin ended,
         NEW f, Ready(f, said[Top.act]), Collects(f),
         f.i > 0 => said[Top.act].status = f.response.status,
         Handlers(f)
  PROVE  Kept
<1>1. /\ f \in Frame /\ f.i \in Nat /\ f.response.status \in StatusCodes
      /\ f.act = Top.act /\ f.node = Top.node
  BY DEF Ready, Frame, NoResponse, StatusCodes
<1>2. Depth \notin stopped
  <2>1. Top.at # "operation"
    BY TopFits DEF FrameFits, KindAt, Visited, Top, Calls
  <2>2. QED
    BY <2>1, OnlyStatements
<1>3. Visited.responseHandlers \in Seq(Nodes({"HttpResponseHandler"}))
  <2>1. ast \in Programs /\ Top.node \in DOMAIN ast
    BY RunsFacts DEF Runs, TypeOK, Frame
  <2>2. QED
    BY <2>1, Grammar DEF Visited
<1>4. CASE f.i < Len(Visited.responseHandlers)
  <2> DEFINE g == [f EXCEPT !.scope.statusCode = f.response.status, !.i = @ + 1]
             told == IF f.i > 0 THEN said[Top.act]
                     ELSE [said[Top.act] EXCEPT !.status = f.response.status]
             child == Visited.responseHandlers[g.i]
  <2>1. /\ g \in Frame /\ g.node = f.node /\ g.act = f.act /\ g.i = f.i + 1
        /\ g.outcome = f.outcome /\ g.response = f.response
        /\ g.scope = [owner |-> f.scope.owner, statusCode |-> f.response.status]
    <3> DEFINE s == [f.scope EXCEPT !.statusCode = f.response.status]
               h == [f EXCEPT !.scope = s]
    <3>1. f.scope \in Scope
      BY <1>1 DEF Frame
    <3>2. s \in Scope /\ s = [owner |-> f.scope.owner, statusCode |-> f.response.status]
      BY <1>1, <3>1 DEF Scope
    <3>3. g = [h EXCEPT !.i = @ + 1]
      OBVIOUS
    <3> HIDE DEF s, g
    <3>4. /\ h \in Frame /\ h.node = f.node /\ h.act = f.act /\ h.i = f.i
          /\ h.outcome = f.outcome /\ h.response = f.response /\ h.scope = s
      BY <1>1, <3>2 DEF Frame
    <3> HIDE DEF h
    <3>5. /\ g \in Frame /\ g.node = h.node /\ g.act = h.act /\ g.i = h.i + 1
          /\ g.outcome = h.outcome /\ g.response = h.response /\ g.scope = h.scope
      BY <3>3, <3>4 DEF Frame
    <3>6. QED
      BY <3>2, <3>4, <3>5
  <2>2. Push(g, "response", NewFrame(child, g.scope, g.act), told)
    BY <1>1, <1>4 DEF Handlers
  <2>3. child \in DOMAIN ast /\ ast[child].kind \in {"HttpResponseHandler"}
    <3>1. child = Visited.responseHandlers[f.i + 1]
      BY <2>1
    <3>2. QED
      BY <1>1, <1>3, <1>4, <3>1, ChildNode
  <2>4. /\ told \in Told /\ told.status = f.response.status
        /\ told.error = said[Top.act].error /\ told.data = said[Top.act].data
    BY <1>1, RunsFacts DEF Told
  <2> HIDE DEF g, told, child
  <2>5. Ready(g, told)
    <3>1. Held(Own(f.outcome), HttpCalls(Top.act), told)
      BY <2>4, HeldSame DEF Ready
    <3>2. f.scope.owner = f.act
      BY DEF Ready
    <3>3. QED
      BY <1>1, <2>1, <2>4, <3>1, <3>2 DEF Ready
  <2>6. Collects(g) /\ Visited.kind \notin Expressions
    BY <2>1 DEF Collects, Expressions, Objects
  <2>7. Explores(g, "response", child, g.scope, g.act)
    BY <2>3 DEF Explores
  <2>8. told.status = g.response.status
    BY <2>1, <2>4
  <2>9. QED
    BY <1>2, <2>2, <2>3, <2>5, <2>6, <2>7, <2>8, PushKeeps
<1>5. CASE ~(f.i < Len(Visited.responseHandlers))
  <2>1. Goto(f, "unhandled")
    BY <1>5 DEF Handlers
  <2>2. QED
    BY <1>2, <2>1, GotoKeeps
<1>6. QED
  BY <1>4, <1>5

LEMMA HttpSendKeeps ==
  ASSUME IInv, HttpSend
  PROVE  Kept
<1>1. At({"HttpCallStatement"}, "send")
  BY DEF HttpSend
<1>2. /\ Plain /\ Runs /\ Top \in Frame /\ TypeOK /\ status # "settled"
      /\ Visited.kind = "HttpCallStatement"
  BY <1>1, AtPlain, PlainPlaces DEF Plain
<1>3. ASSUME NEW response \in Responses,
             Handlers([Top EXCEPT !.response = response, !.rest = @ + 1, !.i = 0])
      PROVE  Kept
  <2> DEFINE f == [Top EXCEPT !.response = response, !.rest = @ + 1, !.i = 0]
  <2>1. Like(Top, f) /\ f.i = 0
    <3>1. Top.rest + 1 \in Nat /\ response \in Responses \cup {NoResponse}
      BY <1>2 DEF Frame
    <3>2. QED
      BY <1>2, <3>1 DEF Like, Frame
  <2>2. Handlers(f)
    BY <1>3
  <2> HIDE DEF f
  <2>3. Ready(f, said[Top.act]) /\ Collects(f) /\ Top.act \notin ended
    BY <1>2, <2>1, PlainFacts, LikeReady
  <2>4. ~(f.i > 0)
    BY <2>1
  <2>5. QED
    BY <1>2, <2>2, <2>3, <2>4, HandlersKeeps
<1>4. ASSUME NEW error \in {"request", "thrown"}, Fail(error)
      PROVE  Kept
  BY <1>2, <1>4, FailKeeps
<1>5. QED
  BY <1>3, <1>4 DEF HttpSend

LEMMA HttpResponseKeeps ==
  ASSUME IInv, HttpResponse
  PROVE  Kept
<1>1. At({"HttpCallStatement"}, "response")
  BY DEF HttpResponse
<1>2. /\ Runs /\ Top.at = "response" /\ Top \in Frame /\ Visited.kind = "HttpCallStatement"
      /\ Top.at \in StatementPlaces
  BY <1>1, AtRuns, KindsApart
<1> DEFINE f == FromHttp(Processed(Top))
<1>3. Ready(f, said[Top.act]) /\ Collects(f)
  BY <1>2, StatementReady
<1>4. f.response = Top.response
  BY <1>2, TopFits, ProcessedFields, FromHttpFields
<1>5. Visited.kind \notin Expressions /\ "undefined" \in Values
  BY <1>2, InterpreterAssumption DEF Expressions, Objects
<1>6. last.terminate => f.outcome # NoOutcome
  BY <1>2, EndHasOutcome
<1>7. CASE last.terminate
  <2>1. Return(f, "undefined", TRUE)
    BY <1>7 DEF HttpResponse, Terminates
  <2> HIDE DEF f
  <2>2. QED
    BY <1>2, <1>3, <1>6, <1>7, <2>1, EndKeeps
<1>8. CASE ~last.terminate /\ last.value = "true"
  <2>1. Return(f, "undefined", FALSE)
    BY <1>8 DEF HttpResponse, Terminates, FoundHandler
  <2> HIDE DEF f
  <2>2. QED
    BY <1>2, <1>3, <1>5, <1>8, <2>1, NotOver, ReturnsKeeps
<1>9. CASE ~last.terminate /\ last.value # "true"
  <2>1. Handlers(f)
    BY <1>9 DEF HttpResponse, Terminates, FoundHandler
  <2> HIDE DEF f
  <2>2. last.given
    BY <1>2, TopFits DEF ResultFits, OwnPlaces
  <2>3. said[Top.act].status = f.response.status
    BY <1>2, <1>4, <1>9, <2>2, TopFits DEF HandlerSees, LatestStatus, Runs
  <2>4. QED
    BY <1>2, <1>3, <1>9, <2>1, <2>3, NotOver, HandlersKeeps
<1>10. QED
  BY <1>7, <1>8, <1>9

LEMMA UnhandledKeeps ==
  ASSUME IInv, UnhandledExternal \/ UnhandledBuiltIn
  PROVE  Kept
<1>1. At({"HttpCallStatement"}, "unhandled")
  BY DEF UnhandledExternal, UnhandledBuiltIn
<1>2. /\ Plain /\ Like(Top, Top) /\ TypeOK /\ status # "settled"
      /\ Visited.kind = "HttpCallStatement"
  BY <1>1, AtPlain, PlainPlaces
<1>3. ASSUME Goto(Top, "send")
      PROVE  Kept
  BY <1>2, <1>3, PlainGotoKeeps
<1>4. ASSUME Return(Top, "undefined", FALSE)
      PROVE  Kept
  BY <1>2, <1>4, PlainReturnKeeps, InterpreterAssumption
<1>5. ASSUME NEW error \in {"external-handler", "http"}, Fail(error)
      PROVE  Kept
  BY <1>2, <1>5, FailKeeps
<1>6. QED
  BY <1>3, <1>4, <1>5 DEF UnhandledExternal, UnhandledBuiltIn

(* Statements of outcomes.                                                 *)
LEMMA BelowHttpIsBelow ==
  ASSUME Runs, Visited.kind # "HttpCallStatement"
  PROVE  BelowHttp(Top) <=> \E e \in HttpCalls(Top.act) : e < Depth
<1>1. /\ Depth \in Nat /\ Top.act \in 1 .. Depth /\ Top = frames[Depth]
      /\ \A d \in 1 .. Depth : frames[d].act \in 1 .. d
  BY RunsFacts DEF Top
<1>2. \A d \in Top.act .. Depth : d # Depth => frames[d].act = Top.act
  <2> TAKE d \in Top.act .. Depth
  <2> HAVE d # Depth
  <2>1. d \in 1 .. Depth /\ Depth \in 1 .. Depth /\ d < Depth /\ ~(Top.act > d)
    BY <1>1
  <2>2. Above(d, Depth)
    BY <2>1 DEF Runs, StackFits
  <2>3. QED
    BY <1>1, <2>1, <2>2 DEF Above
<1>3. \A d \in 1 .. Depth : frames[d].act = Top.act => d \in Top.act .. Depth
  BY <1>1
<1>4. KindAt(Depth) # "HttpCallStatement"
  BY <1>1 DEF KindAt, Visited
<1>5. BelowHttp(Top) <=> \E d \in Top.act .. Depth : KindAt(d) = "HttpCallStatement"
  BY DEF BelowHttp, KindAt
<1>6. \A d \in Top.act .. Depth : d \in 1 .. Depth /\ (d # Depth => d < Depth)
  BY <1>1
<1>7. \A d : d \in HttpCalls(Top.act) <=>
               /\ d \in 1 .. Depth /\ frames[d].act = Top.act
               /\ KindAt(d) = "HttpCallStatement"
  BY DEF HttpCalls
<1>8. QED
  BY <1>2, <1>3, <1>4, <1>5, <1>6, <1>7

LEMMA StatementKeeps ==
  ASSUME Plain, Visited.kind = "OutcomeStatement", Statement(Top)
  PROVE  Kept
<1> DEFINE new == NewOutcome(Top)
           g == [Top EXCEPT !.outcome = new]
           told == said[Top.act]
           says == Said(Top)
<1>1. /\ Runs /\ Top \in Frame /\ Top.scope \in Scope /\ Depth \in Nat
      /\ Visited.isError \in BOOLEAN /\ Visited.terminateFlow \in BOOLEAN
  <2>1. Runs /\ Top \in Frame /\ ast \in Programs /\ Depth \in Nat
    BY RunsFacts DEF Plain, Runs, TypeOK
  <2>2. QED
    BY <2>1, Grammar DEF Frame, Visited
<1>2. told \in Told /\ told.count \in Nat /\ told.status \in StatusCodes
  BY <1>1, RunsFacts DEF Told
<1>3. /\ new \in OutcomeValue /\ new.stamp = told.count + 1 /\ ~new.fromHttp
      /\ new.error = Visited.isError /\ new.statusCode = Top.scope.statusCode
  BY <1>1, <1>2, TopFits DEF NewOutcome, OutcomeValue, Scope
<1>4. Visited.kind \notin Collectors /\ Visited.kind \notin Expressions
      /\ Visited.kind # "HttpCallStatement"
  BY DEF Collectors, Definitions, Expressions, Objects
<1>5. /\ Ready(Top, told) /\ Top.outcome = NoOutcome /\ Top.act \notin ended
      /\ Top.scope = [owner |-> Top.act, statusCode |-> told.status]
  BY <1>4, PlainFacts DEF Collects, Ready
<1>6. BelowHttp(Top) \in BOOLEAN
      /\ (BelowHttp(Top) <=> \E e \in HttpCalls(Top.act) : e < Depth)
  BY <1>1, <1>4, BelowHttpIsBelow DEF BelowHttp
<1>7. /\ says \in Told /\ says.status = told.status
      /\ IF Visited.isError
         THEN /\ says.data = told.data /\ says.error.stamp = told.count + 1
              /\ says.error.status = told.status /\ (says.error.http <=> BelowHttp(Top))
         ELSE says.error = told.error /\ says.data.stamp = told.count + 1
  <2> DEFINE statement == [stamp |-> told.count + 1, http |-> BelowHttp(Top),
                           status |-> told.status]
  <2>1. /\ statement \in StatedOutcome /\ statement.stamp = told.count + 1
        /\ (statement.http <=> BelowHttp(Top)) /\ statement.status = told.status
    BY <1>2, <1>6 DEF StatedOutcome
  <2>2. says = IF Visited.isError
               THEN [told EXCEPT !.count = @ + 1, !.error = statement]
               ELSE [told EXCEPT !.count = @ + 1, !.data = statement]
    BY DEF Said
  <2> HIDE DEF statement, says, told
  <2>3. told.count + 1 \in Nat
    BY <1>2
  <2>4. CASE Visited.isError
    BY <1>2, <2>1, <2>2, <2>3, <2>4 DEF Told
  <2>5. CASE ~Visited.isError
    BY <1>2, <2>1, <2>2, <2>3, <2>5 DEF Told
  <2>6. QED
    BY <2>4, <2>5
<1>8. ReturnSaying(g, "undefined", Visited.terminateFlow, says)
  BY DEF Statement
<1>9. g \in Frame /\ g.node = Top.node /\ g.act = Top.act /\ g.scope = Top.scope
      /\ g.outcome = new
  <2> HIDE DEF new
  <2>1. QED
    BY <1>1, <1>3 DEF Frame
<1> HIDE DEF new, g, told, says
<1>10. Held(Own(g.outcome), HttpCalls(Top.act), says)
  <2> DEFINE A == Own(Top.outcome)
             B == Own(g.outcome)
             calls == HttpCalls(Top.act)
  <2>1. /\ Depth \in DOMAIN A /\ DOMAIN A \subseteq 1 .. Depth
        /\ A[Depth] = Top.outcome /\ B[Depth] = g.outcome
        /\ DOMAIN B = DOMAIN A
    BY <1>1, OwnFacts DEF Own
  <2>2. \A d \in DOMAIN B : d # Depth => B[d] = A[d]
    BY <1>1, <2>1, OwnFacts
  <2>3. Held(A, calls, told)
    BY <1>5 DEF Ready
  <2>4. B[Depth].stamp # 0 /\ ~B[Depth].fromHttp /\ B[Depth].error \in BOOLEAN
    BY <1>1, <1>2, <1>3, <1>9, <2>1
  <2>5. IF B[Depth].error
        THEN /\ says.data = told.data
             /\ says.error.stamp = B[Depth].stamp
             /\ says.error.status = B[Depth].statusCode
             /\ says.error.http <=> \E e \in calls : e < Depth
        ELSE says.error = told.error /\ says.data.stamp = B[Depth].stamp
    BY <1>3, <1>5, <1>6, <1>7, <1>9, <2>1
  <2>6. A[Depth] = NoOutcome
    BY <1>5, <2>1
  <2> HIDE DEF A, B, calls
  <2>7. Held(B, calls, says)
    BY <1>1, <2>1, <2>2, <2>3, <2>4, <2>5, <2>6, HeldStated
  <2>8. QED
    BY <2>7 DEF B, calls
<1>11. Ready(g, says)
  BY <1>4, <1>5, <1>7, <1>9, <1>10 DEF Ready
<1>12. g.outcome # NoOutcome
  BY <1>2, <1>3, <1>9, NoOutcomeFields
<1>13. Failed(Top.act) => Fails(says)
  BY <1>2, <1>7 DEF Failed, Fails, told
<1>14. says.status = LatestStatus(Top.act)
  BY <1>7 DEF LatestStatus, told
<1>15. Visited.kind # "IterationAtom" /\ Visited.kind # "HttpResponseHandler"
       /\ "undefined" \in Values
  BY InterpreterAssumption
<1>16. QED
  BY <1>1, <1>4, <1>5, <1>8, <1>11, <1>12, <1>13, <1>14, <1>15, ReturnKeeps

LEMMA OutcomeStatementKeeps ==
  ASSUME IInv, OutcomeStatement
  PROVE  Kept
<1>1. \/ At({"OutcomeStatement"}, "start") \/ At({"OutcomeStatement"}, "condition")
      \/ At({"OutcomeStatement"}, "value")
  BY DEF OutcomeStatement
<1>2. /\ Plain /\ Like(Top, Top) /\ TypeOK /\ status # "settled"
      /\ Visited.kind = "OutcomeStatement"
      /\ ast \in Programs /\ Top.node \in DOMAIN ast /\ Visited = ast[Top.node]
  BY <1>1, AtPlain, PlainPlaces
<1>3. /\ Visited.condition \in Nodes(Expressions) \cup {None}
      /\ Visited.value \in Nodes(Expressions)
  BY <1>2, Grammar, ConditionNodes
<1>4. "value" \in ValuePlaces /\ "condition" \in ValuePlaces
  BY DEF ValuePlaces
<1>5. ASSUME Explore(Top, "value", Visited.value)
      PROVE  Kept
  BY <1>2, <1>3, <1>4, <1>5, ValueKeeps
<1>6. ASSUME Visited.condition # None, Explore(Top, "condition", Visited.condition)
      PROVE  Kept
  BY <1>2, <1>3, <1>4, <1>6, ValueKeeps
<1>7. ASSUME Return(Top, "undefined", FALSE)
      PROVE  Kept
  BY <1>2, <1>7, PlainReturnKeeps, InterpreterAssumption
<1>8. ASSUME Fail("undefined-error")
      PROVE  Kept
  BY <1>2, <1>8, FailKeeps
<1>9. ASSUME Statement(Top)
      PROVE  Kept
  BY <1>2, <1>9, StatementKeeps
<1>10. QED
  BY <1>5, <1>6, <1>7, <1>8, <1>9 DEF OutcomeStatement

-----------------------------------------------------------------------------
(* Before and after the map runs.                                          *)

(* Such a step leaves the stack and the history alone.                     *)
LEMMA AsideKeeps ==
  ASSUME TypeOK, UNCHANGED <<setting, frames, last, history>>,
         status' \in {"initializing", "destroying", "settled"}, opened' \in 0 .. Files,
         status' = "initializing" => /\ result' = NotYet
                                     /\ frames = <<>> /\ last = NoResult
                                     /\ ended = {} /\ stopped = {},
         status' # "initializing" => ResultAsStated',
         status' = "settled" /\ result'.ok => opened' = 0
  PROVE  Kept
<1>1. TypeOK'
  BY SameFrames DEF TypeOK, Settled, Scope, OutcomeValue, StatusCodes, setting, history
<1>2. Len(frames') = Depth /\ Depth \in Nat
  BY LenProperties DEF Depth, TypeOK
<1>3. QED
  BY <1>1, <1>2 DEF Kept, IInv, ScopeIsCurrent, Grows, setting, history

LEMMA StartKeeps ==
  ASSUME IInv, Start
  PROVE  Kept
<1>1. /\ TypeOK /\ status = "idle" /\ opened \in 0 .. Files /\ result = NotYet
      /\ frames = <<>> /\ last = NoResult /\ ended = {} /\ stopped = {}
      /\ UNCHANGED <<setting, opened, frames, last, history>>
  BY DEF IInv, TypeOK, Start
<1>2. CASE status' = "initializing" /\ result' = result
  BY <1>1, <1>2, AsideKeeps
<1>3. ASSUME NEW error \in {"invalid-ast", "no-usecase"}, status' = "settled",
             result' = [NotYet EXCEPT !.error = error]
      PROVE  Kept
  <2>1. ~result'.ok /\ ResultAsStated'
    BY <1>3 DEF NotYet, ResultAsStated
  <2>2. QED
    BY <1>1, <1>3, <2>1, AsideKeeps
<1>4. QED
  BY <1>2, <1>3 DEF Start

LEMMA InitializeInputKeeps ==
  ASSUME IInv, InitializeInput
  PROVE  Kept
<1>1. /\ TypeOK /\ status = "initializing" /\ opened \in 0 .. Files /\ opened < Files
      /\ result = NotYet /\ Files \in Nat
      /\ frames = <<>> /\ last = NoResult /\ ended = {} /\ stopped = {}
  BY InterpreterAssumption DEF IInv, TypeOK, InitializeInput
<1>2. CASE Fail("thrown")
  BY <1>1, <1>2, FailKeeps
<1>3. CASE /\ opened' = opened + 1
           /\ UNCHANGED <<setting, status, frames, last, result, history>>
  BY <1>1, <1>3, AsideKeeps
<1>4. QED
  BY <1>2, <1>3 DEF InitializeInput

LEMMA FinishKeeps ==
  ASSUME IInv, Finish
  PROVE  Kept
<1>1. /\ TypeOK /\ status = "running" /\ Depth = 0 /\ StackFits /\ opened \in 0 .. Files
      /\ last.outcome \in OutcomeValue /\ last.outcome.error \in BOOLEAN
      /\ UNCHANGED <<setting, opened, frames, last, history>>
  BY DEF IInv, TypeOK, Finish, OutcomeValue
<1>2. /\ result' = [ok |-> FinalError(last.outcome) = "none",
                    error |-> FinalError(last.outcome), outcome |-> last.outcome]
      /\ status' = IF result'.ok THEN "destroying" ELSE "settled"
  BY DEF Finish
<1>3. last.given /\ Receiver = 1 /\ Holds(1)
  BY <1>1 DEF StackFits, ResultFits, Receiver, Active
<1>4. /\ DOMAIN Outcomes(1) = {1} /\ Outcomes(1)[1] = last.outcome
      /\ HttpCalls(1) = {}
  BY <1>1, <1>3 DEF Outcomes, Carries, Carried, HttpCalls
<1> DEFINE o == last.outcome
<1>5. /\ o.error <=> Failed(1)
      /\ o.error => /\ o.statusCode = said[1].error.status
                    /\ said[1].error.http <=> o.fromHttp
      /\ Failed(1) => Stated(1) = said[1].error
  BY <1>3, <1>4, HeldAlone DEF Holds, Failed, Stated, Counted
<1>6. /\ FinalError(o) \in {"binary", "none", "mapped", "mapped-http"}
      /\ FinalError(o) = "none" => ~o.error
      /\ FinalError(o) \in {"mapped", "mapped-http"} => o.error
      /\ FinalError(o) = "mapped-http" => o.fromHttp
      /\ FinalError(o) = "mapped" => ~o.fromHttp
  BY <1>1 DEF FinalError
<1>7. ResultAsStated'
  <2>1. (Failed(1) <=> Failed(1)') /\ Stated(1)' = Stated(1)
    BY <1>1 DEF Failed, Stated, history
  <2>2. result'.error = FinalError(o) /\ (result'.ok <=> FinalError(o) = "none")
        /\ result'.outcome = o
    BY <1>2
  <2> HIDE DEF o
  <2>3. /\ result'.error # "outcome-not-set"
        /\ result'.error \in {"none", "mapped", "mapped-http"} => (result'.ok <=> ~Failed(1))
    BY <1>5, <1>6, <2>2
  <2>4. result'.error \in {"none", "mapped", "mapped-http"} =>
          /\ result'.error = "mapped-http" <=> (~result'.ok /\ Stated(1).http)
          /\ ~result'.ok => result'.outcome.statusCode = Stated(1).status
    BY <1>5, <1>6, <2>2
  <2>5. QED
    BY <2>1, <2>3, <2>4 DEF ResultAsStated
<1>8. status' \in {"destroying", "settled"} /\ (status' = "settled" => ~result'.ok)
  BY <1>2
<1>9. QED
  BY <1>1, <1>7, <1>8, AsideKeeps

LEMMA DestroyInputKeeps ==
  ASSUME IInv, DestroyInput
  PROVE  Kept
<1>1. /\ TypeOK /\ status = "destroying" /\ opened \in 0 .. Files /\ Files \in Nat
      /\ ResultAsStated
  BY InterpreterAssumption DEF IInv, TypeOK, DestroyInput
<1>2. CASE Fail("thrown")
  BY <1>1, <1>2, FailKeeps
<1>3. ASSUME UNCHANGED <<setting, frames, last, result, history>>,
             \/ opened > 0 /\ opened' = opened - 1 /\ status' = status
             \/ opened = 0 /\ opened' = opened /\ status' = "settled"
      PROVE  Kept
  <2>1. ResultAsStated'
    BY <1>1, <1>3 DEF ResultAsStated, Failed, Stated, history
  <2>2. /\ opened' \in 0 .. Files /\ status' \in {"destroying", "settled"}
        /\ status' = "settled" => opened' = 0
    BY <1>1, <1>3
  <2>3. QED
    BY <1>1, <1>3, <2>1, <2>2, AsideKeeps
<1>4. QED
  BY <1>2, <1>3 DEF DestroyInput

(* The definition of the use case is alone on the stack.                   *)
LEMMA VisitKeeps ==
  ASSUME IInv, Visit
  PROVE  Kept
<1> DEFINE g == NewFrame(Root, NewScope(1), 1)
<1>1. PICK n : n = 1
  OBVIOUS
<1>2. /\ TypeOK /\ status = "initializing" /\ opened = Files /\ result = NotYet
      /\ Depth = 0 /\ last = NoResult /\ ended = {} /\ stopped = {}
      /\ status' = "running" /\ frames' = <<g>> /\ said' = <<NothingSaid>>
      /\ UNCHANGED <<ast, external, opened, last, result, ended, stopped>>
  BY DEF IInv, TypeOK, Visit, Initialized, setting, Depth
<1>3. /\ ast \in Programs /\ Root \in DOMAIN ast /\ ast[Root].kind = "MapDefinition"
      /\ NewScope(1) \in Scope
  BY <1>2, ProgramsAssumption DEF TypeOK, NewScope, Scope, StatusCodes
<1>4. /\ g \in Frame /\ g.node = Root /\ g.act = 1 /\ g.at = "start"
      /\ g.scope = NewScope(1) /\ g.outcome = NoOutcome
  BY <1>3, NewFrameFields
<1>5. NothingSaid \in Told /\ NothingSaid.status = AnyStatus
  BY DEF NothingSaid, NoStatement, Told, StatedOutcome, StatusCodes
<1> HIDE DEF g
<1>6. /\ frames' \in Seq(Frame) /\ Len(frames') = 1 /\ frames'[1] = g
      /\ said' \in Seq(Told) /\ Len(said') = 1 /\ said'[1] = NothingSaid
  BY <1>2, <1>4, <1>5
<1>7. Depth' = 1 /\ Top' = g
  BY <1>6 DEF Depth, Top
<1>8. TypeOK'
  BY <1>2, <1>6, SameFrames DEF TypeOK, Settled, Scope, OutcomeValue, StatusCodes
<1>9. g.scope = [owner |-> 1, statusCode |-> said'[1].status]
  BY <1>4, <1>5, <1>6 DEF NewScope
<1>10. ScopeIsCurrent'
  BY <1>4, <1>7, <1>9 DEF ScopeIsCurrent, LatestStatus
<1>11. ast'[frames'[1].node].kind = "MapDefinition"
  BY <1>2, <1>3, <1>4, <1>6
<1>12. FrameFits(n)'
  BY <1>1, <1>4, <1>6, <1>7, <1>9, <1>11, KindsApart
  DEF FrameFits, KindAt, LatestStatus, NoOutcome
<1>13. ~last'.given /\ ~last'.terminate
  BY <1>2, NoResultFields
<1>14. Active' = {1}
  BY <1>4, <1>6, <1>7, <1>13 DEF Active
<1>15. Holds(n)'
  <2>1. \A d \in DOMAIN Outcomes(n)' : Outcomes(n)'[d] = NoOutcome
    BY <1>4, <1>6, <1>7, <1>13 DEF Outcomes, Carries, Carried
  <2>2. QED
    BY <1>1, <1>6, <2>1, NothingHeld DEF Holds
<1>16. HandlerSees' /\ ResultFits' /\ EndedFits' /\ StoppedFits'
  BY <1>2, <1>4, <1>7, <1>13, KindsApart
  DEF HandlerSees, ResultFits, EndedFits, StoppedFits
<1>17. StackFits'
  <2>1. /\ Depth' <= Len(said') /\ frames'[1].act = 1
        /\ \A d \in 1 .. Depth' - 1 : FALSE
        /\ \A d, e \in 1 .. Depth' : ~(d < e)
        /\ \A d \in 1 .. Depth' : d = n
        /\ \A act \in Active' : act <= Len(said') /\ act = n
    BY <1>1, <1>4, <1>6, <1>7, <1>14
  <2>2. QED
    BY <1>12, <1>15, <1>16, <2>1 DEF StackFits
<1>18. IInv'
  BY <1>2, <1>8, <1>10, <1>17 DEF IInv
<1>19. QED
  BY <1>2, <1>4, <1>6, <1>7, <1>18 DEF Kept, Grows

-----------------------------------------------------------------------------
(* The theorems.                                                           *)

LEMMA InitImplies ==
  ASSUME Init
  PROVE  IInv
<1>1. frames = <<>> /\ Depth = 0 /\ 0 \in 0 .. Files
  BY InterpreterAssumption DEF Init, Depth
<1>2. TypeOK
  BY <1>1, NoResultFields DEF Init, TypeOK, NotYet, Settled
<1>3. QED
  BY <1>1, <1>2 DEF Init, IInv, ScopeIsCurrent

(* Every step keeps the invariant, and what a step may never do.           *)
LEMMA StepKeeps ==
  ASSUME IInv, Next
  PROVE  Kept
<1>1. ASSUME Start \/ InitializeInput \/ Visit \/ Finish \/ DestroyInput
      PROVE  Kept
  BY <1>1, StartKeeps, InitializeInputKeeps, VisitKeeps, FinishKeeps, DestroyInputKeeps
<1>2. ASSUME DefinitionStart \/ DefinitionStatement \/ HandlerStart \/ HandlerStatement
      PROVE  Kept
  BY <1>2, DefinitionStartKeeps, DefinitionStatementKeeps, HandlerStartKeeps,
     HandlerStatementKeeps
<1>3. ASSUME \/ PrimitiveLiteral \/ JessieExpression \/ ObjectField
             \/ ConditionAtom \/ IterationAtom
      PROVE  Kept
  BY <1>3, PrimitiveLiteralKeeps, JessieExpressionKeeps, ObjectFieldKeeps,
     ConditionAtomKeeps, IterationAtomKeeps
<1>4. ASSUME SetStatement \/ OutcomeStatement
      PROVE  Kept
  BY <1>4, SetStatementKeeps, OutcomeStatementKeeps
<1>5. ASSUME CallStart \/ CallIteration \/ CallItem \/ CallCondition \/ CallArgument
      PROVE  Kept
  BY <1>5, CallStartKeeps, CallIterationKeeps, CallItemKeeps, CallConditionKeeps,
     CallArgumentKeeps
<1>6. ASSUME InlineCallOperation \/ CallStatementOperation \/ CallStatementStatement
      PROVE  Kept
  BY <1>6, InlineCallOperationKeeps, CallStatementOperationKeeps, CallStatementStatementKeeps
<1>7. ASSUME \/ HttpStart \/ HttpRequested \/ HttpSend \/ HttpResponse
             \/ UnhandledExternal \/ UnhandledBuiltIn
      PROVE  Kept
  BY <1>7, HttpStartKeeps, HttpRequestedKeeps, HttpSendKeeps, HttpResponseKeeps,
     UnhandledKeeps
<1>8. QED
  BY <1>1, <1>2, <1>3, <1>4, <1>5, <1>6, <1>7 DEF Next

LEMMA StutterKeeps ==
  ASSUME IInv, UNCHANGED vars
  PROVE  IInv'
<1>1. Frame' = Frame /\ Told' = Told
  BY SameFrames DEF vars
<1>2. TypeOK'
  BY <1>1 DEF vars, IInv, TypeOK, Settled, Scope, OutcomeValue, StatusCodes
<1>3. Depth' = Depth /\ Top' = Top /\ Receiver' = Receiver /\ Active' = Active
  BY DEF vars, Depth, Top, Receiver, Active
<1>4. ScopeIsCurrent' /\ (ResultAsStated => ResultAsStated')
  BY <1>3
  DEF vars, IInv, ScopeIsCurrent, LatestStatus, ResultAsStated, Failed, Stated
<1>5. ASSUME StackFits
      PROVE  StackFits'
  <2>1. \A act \in Active : Holds(act)'
    <3> TAKE act \in Active
    <3>1. Outcomes(act)' = Outcomes(act) /\ HttpCalls(act)' = HttpCalls(act)
      BY <1>3 DEF vars, Outcomes, Carries, Carried, HttpCalls, KindAt
    <3>2. QED
      BY <1>5, <3>1 DEF vars, StackFits, Holds
  <2>2. \A d \in 1 .. Depth : FrameFits(d)'
    BY <1>3, <1>5 DEF vars, StackFits, FrameFits, KindAt, LatestStatus
  <2>3. \A d \in 1 .. Depth - 1 : ChildFits(d)'
    BY <1>5 DEF vars, StackFits, ChildFits, KindAt
  <2>4. \A d, e \in 1 .. Depth : d < e => Above(d, e)'
    BY <1>5 DEF vars, StackFits, Above, KindAt
  <2>5. HandlerSees' /\ ResultFits'
    BY <1>3, <1>5 DEF vars, StackFits, HandlerSees, ResultFits, LatestStatus
  <2>6. EndedFits' /\ StoppedFits'
    BY <1>3, <1>5 DEF vars, StackFits, EndedFits, StoppedFits, KindAt
  <2>7. QED
    BY <1>3, <1>5, <2>1, <2>2, <2>3, <2>4, <2>5, <2>6 DEF vars, StackFits
<1>6. QED
  BY <1>2, <1>4, <1>5 DEF vars, IInv

(* The invariant of the stack, for every map: visitors are in the scope of *)
(* their own activation, which knows the answer that it handled last, a    *)
(* result fits the place that waits for it, and the outcomes on the stack  *)
(* are what the statements of each activation stated.                      *)
THEOREM InterpreterInductive == Spec => []IInv
<1>1. IInv /\ [Next]_vars => IInv'
  BY StepKeeps, StutterKeeps DEF Kept
<1>2. QED
  BY <1>1, InitImplies, PTL DEF Spec

(* What a map or an operation hands over is the last error that was stated *)
(* in it, or else the last data, and the error that perform returns is the *)
(* one stated last in the map, with the status of its answer.              *)
THEOREM StatedOutcomesCount == Spec => []OutcomesAsStated
<1>1. ASSUME IInv
      PROVE  OutcomesAsStated
  <2>1. MappedAsStated
    BY <1>1 DEF IInv, MappedAsStated, Settled
  <2>2. ASSUME status = "running", last.given, Depth = 0 \/ Top.at = "operation"
        PROVE  /\ last.outcome.stamp = Stated(Depth + 1).stamp
               /\ last.outcome.error <=> Failed(Depth + 1)
    <3>1. /\ StackFits /\ Depth \in Nat /\ Receiver = Depth + 1 /\ Receiver \in Active
          /\ \A d \in 1 .. Depth : frames[d].act \in 1 .. d
      BY <1>1, <2>2, LenProperties
      DEF IInv, StackFits, FrameFits, TypeOK, Receiver, Active, Depth
    <3>2. PICK act : act = Depth + 1
      OBVIOUS
    <3>3. Holds(act)
      BY <3>1, <3>2 DEF StackFits
    <3>4. \A d \in 1 .. Depth + 1 : Carries(act, d) <=> d = act
      BY <2>2, <3>1, <3>2 DEF Carries
    <3>5. DOMAIN Outcomes(act) = {act} /\ Outcomes(act)[act] = last.outcome
      BY <3>1, <3>2, <3>4 DEF Outcomes, Carried
    <3>6. QED
      BY <3>2, <3>3, <3>5, HeldAlone DEF Holds, Stated, Failed
  <2>3. QED
    BY <2>1, <2>2 DEF OutcomesAsStated, LastStatedCounts
<1>2. QED
  BY <1>1, InterpreterInductive, PTL

(* A terminating outcome ends its map or operation: none of its nodes is   *)
(* visited after it.                                                       *)
THEOREM EndIsTheEnd == Spec => NothingAfterEnd
<1>1. IInv /\ [Next]_vars => [Grows => NewTop.act \notin ended']_vars
  BY StepKeeps DEF Kept
<1>2. QED
  BY <1>1, InterpreterInductive, PTL DEF Spec, NothingAfterEnd

(* An operation that ended with an error is called for no other item.      *)
THEOREM ErrorBreaksIteration == Spec => BreaksOnError
<1>1. IInv /\ [Next]_vars =>
        [Grows /\ Depth \in stopped => frames'[Depth].at = "statement"]_vars
  BY StepKeeps DEF Kept
<1>2. QED
  BY <1>1, InterpreterInductive, PTL DEF Spec, BreaksOnError
=============================================================================
