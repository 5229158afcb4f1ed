---------------------------- MODULE MapInterpreter ----------------------------
(***************************************************************************)
(* MapInterpreter.perform: a stack of node visitors (generators) that is   *)
(* driven until it is empty.  A visitor explores its children one by one,  *)
(* gets the result of each, and hands its own result to its parent.  Maps  *)
(* and operations are activations: they start with a scope of their own    *)
(* and collect the outcomes that their statements state.                   *)
(*                                                                         *)
(* Data abstraction: an expression evaluates to any of the values its node *)
(* lists, or throws; a scope is who owns it and the status code in it; an  *)
(* outcome is where and what was stated; content languages are matched     *)
(* like content types.  Left out: the sanity check of child identifiers,   *)
(* streaming (no visitor yields), and the writes of a call into the scope  *)
(* object that it shares with its parents: the iteration variable and what *)
(* the call came to.                                                       *)
(***************************************************************************)
EXTENDS Integers, SequencesExt

CONSTANTS Programs,      \* map ASTs: functions from nodes to node records
          Values,        \* what expressions evaluate to
          Root,          \* the definition of the use case
          None,          \* no node
          AnyStatus,     \* a handler or a scope without a status code
          AnyType,       \* a handler without, an answer without content type
          Responses,     \* answers to requests: records of status and type
          Files,         \* number of initializable values in the input
          MaxRequests    \* bound of the attempts of one HTTP call

(* Arrays are told apart by their length only.                             *)
Elements == [list0 |-> 0, list1 |-> 1, list2 |-> 2]
ListOf(n) == CASE n = 0 -> "list0" [] n = 1 -> "list1" [] OTHER -> "list2"

StatusCodes == {AnyStatus} \cup {response.status : response \in Responses}

(* The kinds of nodes, by where a map may have them.                       *)
Definitions == {"MapDefinition", "OperationDefinition"}
Objects     == {"Assignment", "ObjectLiteral", "HttpRequest"}
Calls       == {"CallStatement", "InlineCall"}
Expressions == Objects \cup {"PrimitiveLiteral", "JessieExpression", "ConditionAtom",
                             "IterationAtom", "InlineCall"}
StatementKinds == {"SetStatement", "CallStatement", "HttpCallStatement", "OutcomeStatement"}

(* A node whose children are of the kinds that the AST has for them.       *)
WellFormed(program, node) ==
  LET Nodes(kinds) == {n \in DOMAIN program : program[n].kind \in kinds}
  IN CASE node.kind \in Definitions -> node.statements \in Seq(Nodes(StatementKinds))
       [] node.kind = "PrimitiveLiteral" -> node.value \in Values
       [] node.kind = "JessieExpression" -> node.values \subseteq Values
       [] node.kind \in Objects ->
            /\ node.fields \in Seq(Nodes(Expressions))
            /\ node.kind = "Assignment" => node.toStatus \in BOOLEAN
       [] node.kind = "ConditionAtom" -> node.expression \in Nodes(Expressions)
       [] node.kind = "IterationAtom" -> node.iterable \in Nodes(Expressions)
       [] node.kind = "SetStatement" ->
            /\ node.condition \in Nodes({"ConditionAtom"}) \cup {None}
            /\ node.assignments \in Seq(Nodes({"Assignment"}))
       [] node.kind \in Calls ->
            /\ node.iteration \in Nodes({"IterationAtom"}) \cup {None}
            /\ node.condition \in Nodes({"ConditionAtom"}) \cup {None}
            /\ node.arguments \in Seq(Nodes({"Assignment"}))
            /\ node.operation \in Nodes({"OperationDefinition"}) \cup {None}
            /\ node.statements \in Seq(Nodes(StatementKinds))
       [] node.kind = "HttpCallStatement" ->
            /\ node.request \in Nodes({"HttpRequest"}) \cup {None}
            /\ node.responseHandlers \in Seq(Nodes({"HttpResponseHandler"}))
       [] node.kind = "HttpResponseHandler" ->
            node.statements \in Seq(Nodes(StatementKinds))
       [] node.kind = "OutcomeStatement" ->
            /\ node.condition \in Nodes({"ConditionAtom"}) \cup {None}
            /\ node.value \in Nodes(Expressions)
            /\ node.isError \in BOOLEAN /\ node.terminateFlow \in BOOLEAN
       [] OTHER -> FALSE

ASSUME ProgramsAssumption ==
  \A program \in Programs :
    /\ Root \in DOMAIN program /\ program[Root].kind = "MapDefinition"
    /\ None \notin DOMAIN program
    /\ \A n \in DOMAIN program : WellFormed(program, program[n])
ASSUME InterpreterAssumption ==
  /\ {"undefined", "true", "false"} \cup DOMAIN Elements \subseteq Values
  /\ Files \in Nat /\ MaxRequests \in Nat \ {0}

VARIABLES ast,       \* the map that is performed
          external,  \* there is an external handler of unhandled responses
          status,    \* where perform is
          opened,    \* how many of the files are open
          frames,    \* nodeStack
          last,      \* lastResult
          result,    \* what perform returns
          said,      \* history: answers and outcomes of each activation
          ended,     \* history: activations with a terminating outcome
          stopped    \* history: calls whose operation ended with an error

vars == <<ast, external, status, opened, frames, last, result, said, ended, stopped>>
setting == <<ast, external>>
history == <<said, ended, stopped>>

NoOutcome == [stamp |-> 0, error |-> FALSE, value |-> "undefined", fromHttp |-> FALSE,
              statusCode |-> AnyStatus]
NoResult  == [given |-> FALSE, scope |-> [owner |-> 0, statusCode |-> AnyStatus],
              value |-> "undefined", outcome |-> NoOutcome, terminate |-> FALSE]
NoResponse == [status |-> AnyStatus, type |-> AnyType]
NotYet    == [ok |-> FALSE, error |-> "none", outcome |-> NoOutcome]

(* createVisitor.  An activation is named by the depth of its first frame. *)
NewFrame(node, scope, act) ==
  [node |-> node, scope |-> scope, act |-> act, at |-> "start", i |-> 0, rest |-> 0,
   value |-> "undefined", failed |-> FALSE,
   response |-> NoResponse, outcome |-> NoOutcome]
NewScope(act) == [owner |-> act, statusCode |-> AnyStatus]

Init ==
  /\ ast \in Programs /\ external \in BOOLEAN
  /\ status = "idle" /\ opened = 0
  /\ frames = <<>> /\ last = NoResult /\ result = NotYet
  /\ said = <<>> /\ ended = {} /\ stopped = {}

-----------------------------------------------------------------------------
(* The history of an activation: how many outcomes its statements stated,  *)
(* the status code it put into its scope last, of an answer or by a set    *)
(* statement, the last error, and the last data.                           *)

NoStatement == [stamp |-> 0, http |-> FALSE, status |-> AnyStatus]
NothingSaid == [count |-> 0, status |-> AnyStatus, error |-> NoStatement,
                data |-> NoStatement]

LatestStatus(act) == said[act].status

(* An error once stated is only replaced by a later error.                 *)
Fails(told)   == told.error.stamp # 0
Counted(told) == IF Fails(told) THEN told.error ELSE told.data
Failed(act) == Fails(said[act])
Stated(act) == Counted(said[act])

-----------------------------------------------------------------------------
(* The stack.                                                              *)

Depth   == Len(frames)
Top     == frames[Depth]
Visited == ast[Top.node]
At(kinds, place) ==
  status = "running" /\ Depth > 0 /\ Visited.kind \in kinds /\ Top.at = place

(* The activation has said so much by now; of those that are over, all is  *)
(* forgotten when the next one starts.                                     *)
Remember(act, told, depth) ==
  said' = [d \in 1 .. depth |-> IF d = act THEN told
                                ELSE IF d <= Depth THEN said[d] ELSE NothingSaid]

(* yield explore                                                           *)
Push(f, place, frame, told) ==
  /\ frames' = Append([frames EXCEPT ![Depth] = [f EXCEPT !.at = place]], frame)
  /\ last' = NoResult
  /\ Remember(f.act, told, Depth + 1)
  /\ ended' = {act \in ended : act <= Depth}
  /\ UNCHANGED <<setting, status, opened, result, stopped>>

(* A child starts with the scope of its parent.                            *)
Explore(f, place, child) == Push(f, place, NewFrame(child, f.scope, f.act), said[f.act])

(* A visitor goes on.                                                      *)
Goto(f, place) ==
  /\ frames' = [frames EXCEPT ![Depth] = [f EXCEPT !.at = place]]
  /\ last' = NoResult
  /\ UNCHANGED <<setting, status, opened, result, history>>

(* return a result of kind error, or a throw of the visitor                *)
Fail(error) ==
  /\ status' = "settled" /\ result' = [NotYet EXCEPT !.error = error]
  /\ UNCHANGED <<setting, opened, frames, last, history>>

(* prepareResultDone, and nodeStack.pop()                                  *)
ReturnSaying(f, value, terminate, told) ==
  IF terminate /\ f.outcome = NoOutcome THEN Fail("outcome-not-set")
  ELSE /\ frames' = Front(frames)
       /\ last' = [given |-> TRUE, scope |-> f.scope, value |-> value,
                   outcome |-> f.outcome, terminate |-> terminate]
       /\ Remember(f.act, told, Depth)
       /\ ended' = {act \in ended : act <= Depth} \cup (IF terminate THEN {f.act} ELSE {})
       /\ stopped' = {call \in stopped : call < Depth} \cup
                     (IF f.act = Depth /\ Failed(f.act) THEN {Depth - 1} ELSE {})
       /\ UNCHANGED <<setting, status, opened, result>>

Return(f, value, terminate) == ReturnSaying(f, value, terminate, said[f.act])

(* Mutated form: what is stated last counts, also after an error.          *)
LastOutcome(current, other) == other

MergeOutcome(current, other) ==
  IF ~other.error /\ current.error THEN current ELSE other

(* Mutated form: the variables of the parent are kept.                     *)
ProcessedKeepingScope(f) ==
  [f EXCEPT !.outcome = IF last.outcome = NoOutcome THEN @
                        ELSE MergeOutcome(@, last.outcome)]

(* processChildResult                                                      *)
Processed(f) ==
  [f EXCEPT !.scope = last.scope,
            !.outcome = IF last.outcome = NoOutcome THEN @
                        ELSE MergeOutcome(@, last.outcome)]

(* Mutated form: the end of the activation is not passed on.               *)
NeverTerminates == FALSE

Terminates == last.terminate

(* The loop over statements, and the value of a visitor that ends it.      *)
Statements(f, value) ==
  IF f.i < Len(Visited.statements)
  THEN Explore([f EXCEPT !.i = @ + 1], "statement", Visited.statements[f.i + 1])
  ELSE Return(f, value, FALSE)

-----------------------------------------------------------------------------
(* MapDefinitionVisitor, OperationDefinitionVisitor                        *)

DefinitionStart == At(Definitions, "start") /\ Statements(Top, "undefined")

DefinitionStatement ==
  /\ At(Definitions, "statement")
  /\ IF Terminates THEN Return(Processed(Top), "undefined", TRUE)
     ELSE Statements(Processed(Top), "undefined")

-----------------------------------------------------------------------------
(* Values.  None of these visitors keeps the scope of a child.             *)

PrimitiveLiteral ==
  At({"PrimitiveLiteral"}, "start") /\ Return(Top, Visited.value, FALSE)

JessieExpression ==
  /\ At({"JessieExpression"}, "start")
  /\ \/ \E value \in Visited.values : Return(Top, value, FALSE)
     \/ Fail("jessie")

(* AssignmentVisitor, ObjectLiteralVisitor, HttpRequestVisitor: the fields *)
(* one by one, and the object made of them.                                *)
ObjectField ==
  /\ \/ At(Objects, "start")
     \/ At(Objects, "field")
  /\ IF Top.i < Len(Visited.fields)
     THEN Explore([Top EXCEPT !.i = @ + 1], "field", Visited.fields[Top.i + 1])
     ELSE Return(Top, "true", FALSE)

ConditionAtom ==
  \/ At({"ConditionAtom"}, "start") /\ Explore(Top, "value", Visited.expression)
  \/ /\ At({"ConditionAtom"}, "value")
     /\ Return(Top, IF last.value \in {"false", "undefined"} THEN "false" ELSE "true", FALSE)

IterationAtom ==
  \/ At({"IterationAtom"}, "start") /\ Explore(Top, "value", Visited.iterable)
  \/ /\ At({"IterationAtom"}, "value")
     /\ IF last.value \in DOMAIN Elements THEN Return(Top, last.value, FALSE)
        ELSE Fail("not-iterable")

-----------------------------------------------------------------------------
(* SetStatementVisitor                                                     *)

Assign(f, told) ==
  IF f.i < Len(Visited.assignments)
  THEN Push([f EXCEPT !.i = @ + 1], "assignment",
            NewFrame(Visited.assignments[f.i + 1], f.scope, f.act), told)
  ELSE ReturnSaying(f, "undefined", FALSE, told)

(* The value is merged into the scope, which the next assignment sees; one *)
(* to the variable statusCode may be any.                                  *)
Assigned ==
  IF ast[Visited.assignments[Top.i]].toStatus
  THEN \E code \in StatusCodes :
         Assign([Top EXCEPT !.scope.statusCode = code],
                [said[Top.act] EXCEPT !.status = code])
  ELSE Assign(Top, said[Top.act])

SetStatement ==
  \/ /\ At({"SetStatement"}, "start")
     /\ IF Visited.condition = None THEN Assign(Top, said[Top.act])
        ELSE Explore(Top, "condition", Visited.condition)
  \/ /\ At({"SetStatement"}, "condition")
     /\ IF last.value = "false" THEN Return(Top, "undefined", FALSE)
        ELSE Assign(Top, said[Top.act])
  \/ At({"SetStatement"}, "assignment") /\ Assigned

-----------------------------------------------------------------------------
(* CallVisitor, of call statements and of inline calls                     *)

(* Mutated form: the operation starts with the variables of the caller.    *)
CallInScope(f) ==
  IF Visited.operation = None THEN Fail("no-operation")
  ELSE Push(f, "operation", NewFrame(Visited.operation, f.scope, Depth + 1), said[f.act])

(* The operation starts with nothing but the arguments in its scope.       *)
CallOperation(f) ==
  IF Visited.operation = None THEN Fail("no-operation")
  ELSE Push(f, "operation",
            NewFrame(Visited.operation, NewScope(Depth + 1), Depth + 1), said[f.act])

Arguments(f) ==
  IF f.i < Len(Visited.arguments)
  THEN Explore([f EXCEPT !.i = @ + 1], "argument", Visited.arguments[f.i + 1])
  ELSE CallOperation(f)

CallStart ==
  /\ At(Calls, "start")
  /\ IF Visited.iteration = None THEN Goto([Top EXCEPT !.rest = 1], "item")
     ELSE Explore([Top EXCEPT !.value = "list0"], "iteration", Visited.iteration)

CallIteration ==
  At(Calls, "iteration") /\ Goto([Top EXCEPT !.rest = Elements[last.value]], "item")

(* An inline call evaluates to what it collected.                          *)
Collection(f) == IF Visited.kind = "InlineCall" THEN f.value ELSE "undefined"

NextItem(f) == [f EXCEPT !.rest = @ - 1, !.i = 0]

(* What is iterated, a stream perhaps, may throw at any item.              *)
CallItem ==
  /\ At(Calls, "item")
  /\ \/ Top.rest = 0 /\ Return(Top, Collection(Top), FALSE)
     \/ Top.rest > 0 /\ Visited.condition = None /\ Arguments(NextItem(Top))
     \/ /\ Top.rest > 0 /\ Visited.condition # None
        /\ Explore(NextItem(Top), "condition", Visited.condition)
     \/ Visited.iteration # None /\ Fail("thrown")

(* Mutated form: the iteration is not advanced by continue.                *)
SkipNothing(f) == Goto([f EXCEPT !.rest = @ + 1], "item")

Skip(f) == Goto(f, "item")

CallCondition ==
  /\ At(Calls, "condition")
  /\ IF last.value = "false" THEN Skip(Top) ELSE Arguments(Top)

CallArgument == At(Calls, "argument") /\ Arguments(Top)

(* An inline call collects the data: a value, or a list of them.           *)
Collected(f) ==
  IF Visited.iteration = None THEN last.outcome.value ELSE ListOf(Elements[f.value] + 1)

InlineCallOperation ==
  /\ At({"InlineCall"}, "operation")
  /\ IF last.outcome.error THEN Fail("inline-call")
     ELSE Goto([Top EXCEPT !.value = Collected(Top)], "item")

(* Mutated form: the iteration goes on after an error.                     *)
NeverBreaks(f) == FALSE

Breaks(f) == f.failed

(* The statements of the call, and the end of the item.                    *)
CallBlock(f) ==
  IF f.i < Len(Visited.statements) THEN Statements(f, "undefined")
  ELSE IF Breaks(f) THEN Return(f, "undefined", FALSE)
  ELSE Goto(f, "item")

CallStatementOperation ==
  /\ At({"CallStatement"}, "operation")
  /\ CallBlock([Top EXCEPT !.i = 0, !.failed = last.outcome.error])

CallStatementStatement ==
  /\ At({"CallStatement"}, "statement")
  /\ IF Terminates THEN Return(Processed(Top), "undefined", TRUE)
     ELSE CallBlock(Processed(Top))

-----------------------------------------------------------------------------
(* HttpCallStatementVisitor, HttpResponseHandlerVisitor                    *)

HttpStart ==
  /\ At({"HttpCallStatement"}, "start")
  /\ \/ ~Visited.service /\ Fail("no-service")
     \/ Visited.service /\ Visited.request = None /\ Goto(Top, "send")
     \/ /\ Visited.service /\ Visited.request # None
        /\ Explore(Top, "request", Visited.request)

HttpRequested == At({"HttpCallStatement"}, "request") /\ Goto(Top, "send")

(* The handlers see the response in the scope, one after the other.        *)
Handlers(f) ==
  LET given == [f EXCEPT !.scope.statusCode = f.response.status, !.i = @ + 1]
  IN  IF f.i < Len(Visited.responseHandlers)
      THEN Push(given, "response",
                NewFrame(Visited.responseHandlers[given.i], given.scope, given.act),
                IF f.i > 0 THEN said[f.act]
                ELSE [said[f.act] EXCEPT !.status = f.response.status])
      ELSE Goto(f, "unhandled")

HttpSend ==
  /\ At({"HttpCallStatement"}, "send")
  /\ \/ \E response \in Responses :
          /\ Top.rest < MaxRequests
          /\ Handlers([Top EXCEPT !.response = response, !.rest = @ + 1, !.i = 0])
     \/ \E error \in {"request", "thrown"} : Fail(error)

FromHttp(f) == IF f.outcome.error THEN [f EXCEPT !.outcome.fromHttp = TRUE] ELSE f

FoundHandler == last.value = "true"

HttpResponse ==
  /\ At({"HttpCallStatement"}, "response")
  /\ IF Terminates THEN Return(FromHttp(Processed(Top)), "undefined", TRUE)
     ELSE IF FoundHandler THEN Return(FromHttp(Processed(Top)), "undefined", FALSE)
     ELSE Handlers(FromHttp(Processed(Top)))

UnhandledExternal ==
  /\ At({"HttpCallStatement"}, "unhandled") /\ external
  /\ \/ Top.rest < MaxRequests /\ Goto(Top, "send")
     \/ Return(Top, "undefined", FALSE)
     \/ Fail("external-handler")

UnhandledBuiltIn ==
  /\ At({"HttpCallStatement"}, "unhandled") /\ ~external
  /\ IF Top.response.status >= 400 THEN Fail("http") ELSE Return(Top, "undefined", FALSE)

MatchResponse(f) ==
  LET response == frames[Depth - 1].response
  IN  /\ Visited.statusCode \in {AnyStatus, f.scope.statusCode}
      /\ AnyType \in {Visited.contentType, response.type} \/ Visited.contentType = response.type

HandlerStart ==
  /\ At({"HttpResponseHandler"}, "start")
  /\ IF MatchResponse(Top) THEN Statements(Top, "true") ELSE Return(Top, "false", FALSE)

HandlerStatement ==
  /\ At({"HttpResponseHandler"}, "statement")
  /\ IF Terminates THEN Return(Processed(Top), "undefined", TRUE)
     ELSE Statements(Processed(Top), "true")

-----------------------------------------------------------------------------
(* OutcomeStatementVisitor                                                 *)

(* The stamp of an outcome is its number in the activation.                *)
NewOutcome(f) ==
  [stamp |-> said[f.act].count + 1, error |-> Visited.isError, value |-> last.value,
   fromHttp |-> FALSE, statusCode |-> f.scope.statusCode]

(* The statement is below the handler of an HTTP call.                     *)
BelowHttp(f) ==
  \E depth \in f.act .. Depth : ast[frames[depth].node].kind = "HttpCallStatement"

Said(f) ==
  LET told      == said[f.act]
      statement == [stamp |-> told.count + 1, http |-> BelowHttp(f), status |-> told.status]
  IN  IF Visited.isError
      THEN [told EXCEPT !.count = @ + 1, !.error = statement]
      ELSE [told EXCEPT !.count = @ + 1, !.data = statement]

Statement(f) ==
  ReturnSaying([f EXCEPT !.outcome = NewOutcome(f)], "undefined", Visited.terminateFlow,
               Said(f))

OutcomeStatement ==
  \/ /\ At({"OutcomeStatement"}, "start")
     /\ IF Visited.condition = None THEN Explore(Top, "value", Visited.value)
        ELSE Explore(Top, "condition", Visited.condition)
  \/ /\ At({"OutcomeStatement"}, "condition")
     /\ IF last.value = "false" THEN Return(Top, "undefined", FALSE)
        ELSE Explore(Top, "value", Visited.value)
  \/ /\ At({"OutcomeStatement"}, "value")
     /\ IF Visited.isError /\ last.value = "undefined" THEN Fail("undefined-error")
        ELSE Statement(Top)

-----------------------------------------------------------------------------
(* performStream                                                           *)

Start ==
  /\ status = "idle"
  /\ \/ status' = "initializing" /\ UNCHANGED <<result>>
     \/ \E error \in {"invalid-ast", "no-usecase"} :
          status' = "settled" /\ result' = [NotYet EXCEPT !.error = error]
  /\ UNCHANGED <<setting, opened, frames, last, history>>

(* initializeInput: the files one after the other; one may throw.          *)
InitializeInput ==
  /\ status = "initializing" /\ opened < Files
  /\ \/ /\ opened' = opened + 1
        /\ UNCHANGED <<setting, status, frames, last, result, history>>
     \/ Fail("thrown")

Initialized == opened = Files

Visit ==
  /\ status = "initializing" /\ Initialized
  /\ status' = "running" /\ frames' = <<NewFrame(Root, NewScope(1), 1)>>
  /\ said' = <<NothingSaid>>
  /\ UNCHANGED <<setting, opened, last, result, ended, stopped>>

(* handleFinalOutcome, wrapOutcomeError                                    *)
FinalError(outcome) ==
  CASE outcome.value = "binary" -> "binary"
    [] outcome.value # "binary" /\ ~outcome.error -> "none"
    [] OTHER -> IF outcome.fromHttp THEN "mapped-http" ELSE "mapped"

Finish ==
  /\ status = "running" /\ Depth = 0
  /\ result' = [ok |-> FinalError(last.outcome) = "none",
                error |-> FinalError(last.outcome), outcome |-> last.outcome]
  /\ status' = IF result'.ok THEN "destroying" ELSE "settled"
  /\ UNCHANGED <<setting, opened, frames, last, history>>

(* destroyInput, only of a map that succeeded; one may throw.              *)
DestroyInput ==
  /\ status = "destroying"
  /\ \/ /\ opened > 0 /\ opened' = opened - 1
        /\ UNCHANGED <<setting, status, frames, last, result, history>>
     \/ opened > 0 /\ Fail("thrown")
     \/ /\ opened = 0 /\ status' = "settled"
        /\ UNCHANGED <<setting, opened, frames, last, result, history>>

Next ==
  \/ Start \/ InitializeInput \/ Visit \/ Finish \/ DestroyInput
  \/ DefinitionStart \/ DefinitionStatement
  \/ PrimitiveLiteral \/ JessieExpression \/ ObjectField \/ ConditionAtom \/ IterationAtom
  \/ SetStatement \/ OutcomeStatement
  \/ CallStart \/ CallIteration \/ CallItem \/ CallCondition \/ CallArgument
  \/ InlineCallOperation \/ CallStatementOperation \/ CallStatementStatement
  \/ HttpStart \/ HttpRequested \/ HttpSend \/ HttpResponse
  \/ UnhandledExternal \/ UnhandledBuiltIn \/ HandlerStart \/ HandlerStatement

Spec == Init /\ [][Next]_vars /\ WF_vars(Next)

-----------------------------------------------------------------------------
(* Properties                                                              *)

Settled == status = "settled"
Grows == Len(frames') > Depth
NewTop == frames'[Len(frames')]

(* What is in the variables.                                               *)
Scope   == [owner : Nat, statusCode : StatusCodes]
OutcomeValue ==
  [stamp : Nat, error : BOOLEAN, value : Values, fromHttp : BOOLEAN,
   statusCode : StatusCodes]
StatedOutcome == [stamp : Nat, http : BOOLEAN, status : StatusCodes]
Told == [count : Nat, status : StatusCodes, error : StatedOutcome, data : StatedOutcome]

(* Where a visitor is: about to go on by itself, or waiting for a value,   *)
(* for an operation, or for a statement, whose scope and outcome it takes. *)
OwnPlaces       == {"start", "item", "send", "unhandled"}
ValuePlaces     == {"field", "value", "condition", "assignment", "iteration", "argument",
                    "request"}
StatementPlaces == {"statement", "response"}
Place == OwnPlaces \cup ValuePlaces \cup StatementPlaces \cup {"operation"}

Frame ==
  [node : DOMAIN ast, scope : Scope, act : Nat, at : Place, i : Nat, rest : Nat,
   value : Values, failed : BOOLEAN, response : Responses \cup {NoResponse},
   outcome : OutcomeValue]

(* While the map runs all files are open, and they are closed again when   *)
(* it has succeeded; the result is not there before the stack is empty.    *)
TypeOK ==
  /\ ast \in Programs /\ external \in BOOLEAN
  /\ status \in {"idle", "initializing", "running", "destroying", "settled"}
  /\ opened \in 0 .. Files
  /\ frames \in Seq(Frame)
  /\ last \in [given : BOOLEAN, scope : Scope, value : Values, outcome : OutcomeValue,
               terminate : BOOLEAN]
  /\ said \in Seq(Told)
  /\ ended \subseteq Nat /\ stopped \subseteq Nat
  /\ status = "running" => opened = Files
  /\ Settled /\ result.ok => opened = 0
  /\ status \in {"idle", "initializing", "running"} => result = NotYet

(* The scope that a visitor starts with is the one of its own activation,  *)
(* with the status code of the last answer that was handled there, or that *)
(* a set statement has put in its place: nothing leaks into an operation   *)
(* ("should not leak scope into callee"), out of one, or is lost on the    *)
(* way up (processChildResult).                                            *)
ScopeIsCurrent ==
  status = "running" /\ Depth > 0 /\ Top.at = "start" =>
    Top.scope = [owner |-> Top.act, statusCode |-> LatestStatus(Top.act)]

(* A map or an operation hands over the last error that its statements     *)
(* stated, or else the last data (mergeOutcome through all the visitors).  *)
LastStatedCounts ==
  status = "running" /\ last.given /\ (Depth = 0 \/ Top.at = "operation") =>
    /\ last.outcome.stamp = Stated(Depth + 1).stamp
    /\ last.outcome.error <=> Failed(Depth + 1)

(* An error result is mapped-http exactly if it was stated below an HTTP   *)
(* call of the map, and carries the status code that its scope had then,   *)
(* of the answer or of a set statement; no error in between is replaced by *)
(* data, and no visitor ends the flow without an outcome ("Expected        *)
(* outcome to be set").                                                    *)
ResultAsStated ==
  /\ result.error # "outcome-not-set"
  /\ result.error \in {"none", "mapped", "mapped-http"} =>
       /\ result.ok <=> ~Failed(1)
       /\ result.error = "mapped-http" <=> (~result.ok /\ Stated(1).http)
       /\ ~result.ok => result.outcome.statusCode = Stated(1).status

MappedAsStated == Settled => ResultAsStated

(* Both: what is stated in the maps is what comes out of them.             *)
OutcomesAsStated == LastStatedCounts /\ MappedAsStated

-----------------------------------------------------------------------------
(* Why these hold: the invariant of a stack.                               *)

KindAt(d) == ast[frames[d].node].kind

(* The activation that the pending result is for.                          *)
Receiver == IF Depth = 0 \/ Top.at = "operation" THEN Depth + 1 ELSE Top.act

(* A visitor waits for the one above it: in its activation, for a node of  *)
(* the kind its place says, or for the operation that it calls.            *)
ChildFits(d) ==
  \/ /\ frames[d].at = "operation"
     /\ frames[d + 1].act = d + 1 /\ KindAt(d + 1) = "OperationDefinition"
  \/ /\ frames[d + 1].act = frames[d].act
     /\ \/ frames[d].at = "statement" /\ KindAt(d + 1) \in StatementKinds
        \/ /\ frames[d].at = "response" /\ KindAt(d + 1) = "HttpResponseHandler"
        \/ /\ frames[d].at \in ValuePlaces /\ KindAt(d + 1) \in Expressions
           /\ frames[d].at = "iteration" => KindAt(d + 1) = "IterationAtom"

(* A visitor that waits for a value has only visitors of values, or those  *)
(* of other activations, above it.                                         *)
Above(d, e) ==
  \/ frames[e].act > d
  \/ /\ frames[e].act = frames[d].act /\ frames[d].at # "operation"
     /\ frames[d].at \in StatementPlaces \/ KindAt(e) \in Expressions

(* Only visitors that process the results of their children have outcomes; *)
(* that of an HTTP call, if an error, is marked.                           *)
Collectors ==
  Definitions \cup {"CallStatement", "HttpCallStatement", "HttpResponseHandler"}

FrameFits(d) ==
  LET f == frames[d]
  IN /\ f.act \in 1 .. d
     /\ d < Depth => f.at \notin OwnPlaces
     /\ f.at \in StatementPlaces \/ f.outcome # NoOutcome => KindAt(d) \in Collectors
     /\ f.at = "response" => KindAt(d) = "HttpCallStatement"
     /\ f.at = "operation" => KindAt(d) \in Calls
     /\ KindAt(d) = "HttpCallStatement" /\ f.outcome.error => f.outcome.fromHttp
     /\ f.at \notin StatementPlaces =>
          f.scope = [owner |-> f.act, statusCode |-> LatestStatus(f.act)]

(* A handler sees the answer that its HTTP call has got last, and one that *)
(* does not match it leaves it at that.                                    *)
HandlerSees ==
  /\ Depth > 1 /\ frames[Depth - 1].at = "response" /\ Top.at = "start" =>
       LatestStatus(Top.act) = frames[Depth - 1].response.status
  /\ Depth > 0 /\ Top.at = "response" /\ last.given /\ ~last.terminate
       /\ last.value # "true" => LatestStatus(Top.act) = Top.response.status

(* The pending result fits the place that waits for it.                    *)
ResultFits ==
  /\ last.given => last.scope = [owner |-> Receiver, statusCode |-> LatestStatus(Receiver)]
  /\ last.given <=> Depth = 0 \/ Top.at \notin OwnPlaces
  /\ last.terminate => last.given /\ last.outcome # NoOutcome
  /\ Depth > 0 /\ last.given /\ Top.at \in ValuePlaces =>
       last.outcome = NoOutcome /\ ~last.terminate
  /\ Depth > 0 /\ last.given /\ Top.at = "iteration" => last.value \in DOMAIN Elements

(* The outcomes that an activation has on the stack, deepest last; the     *)
(* pending one is above all others.                                        *)
Carries(act, d) ==
  \/ d \in 1 .. Depth /\ frames[d].act = act
  \/ d = Depth + 1 /\ last.given /\ act = Receiver
Carried(d) == IF d <= Depth THEN frames[d].outcome ELSE last.outcome

Outcomes(act)  == [d \in {e \in 1 .. Depth + 1 : Carries(act, e)} |-> Carried(d)]
HttpCalls(act) ==
  {d \in 1 .. Depth : frames[d].act = act /\ KindAt(d) = "HttpCallStatement"}

(* Among these outcomes the one at d is what was stated, and none above it *)
(* replaces it; an error is marked once it is at an HTTP call or above it. *)
Counts(outcomes, calls, told, d) ==
  LET o == outcomes[d]
  IN /\ o.stamp = Counted(told).stamp /\ (o.error <=> Fails(told))
     /\ o.error => /\ o.statusCode = told.error.status
                   /\ told.error.http <=> o.fromHttp \/ \E e \in calls : e < d
     /\ \A e \in DOMAIN outcomes :
          e > d => IF o.error THEN ~outcomes[e].error ELSE outcomes[e] = NoOutcome

Held(outcomes, calls, told) ==
  /\ Counted(told).stamp = 0 => \A d \in DOMAIN outcomes : outcomes[d] = NoOutcome
  /\ Counted(told).stamp # 0 => \E d \in DOMAIN outcomes : Counts(outcomes, calls, told, d)
  /\ ~Fails(told) => \A d \in DOMAIN outcomes : ~outcomes[d].error

(* The activations that have an outcome on the stack, or a result.         *)
Active ==
  {frames[d].act : d \in 1 .. Depth} \cup (IF last.given THEN {Receiver} ELSE {})

Holds(act) == Held(Outcomes(act), HttpCalls(act), said[act])

(* An activation that has stated its end only hands it on, and a call      *)
(* whose operation failed is at its statements.                            *)
EndedFits ==
  \A act \in ended :
    \/ act = Depth + 1
    \/ /\ Depth > 0 /\ act = Top.act /\ Top.at \in StatementPlaces /\ last.terminate

StoppedFits ==
  \A call \in stopped :
    \/ call = 0 /\ Depth = 0
    \/ /\ call \in 1 .. Depth
       /\ \/ call = Depth /\ Top.at = "operation" /\ last.outcome.error
          \/ /\ frames[call].at = "statement" /\ frames[call].failed
             /\ KindAt(call) = "CallStatement"

StackFits ==
  /\ Depth <= Len(said)
  /\ Depth > 0 => frames[1].act = 1
  /\ \A act \in Active : act <= Len(said) /\ Holds(act)
  /\ \A d \in 1 .. Depth : FrameFits(d)
  /\ \A d \in 1 .. Depth - 1 : ChildFits(d)
  /\ \A d, e \in 1 .. Depth : d < e => Above(d, e)
  /\ HandlerSees /\ ResultFits /\ EndedFits /\ StoppedFits

(* The inductive invariant: the types, the stack while it runs, and what   *)
(* has come out of it.                                                     *)
IInv ==
  /\ TypeOK /\ ScopeIsCurrent
  /\ status = "running" => StackFits
  /\ status \in {"idle", "initializing"} =>
       frames = <<>> /\ last = NoResult /\ ended = {} /\ stopped = {}
  /\ status \in {"destroying", "settled"} => ResultAsStated

(* Nothing of an activation is visited after it stated a terminating       *)
(* outcome, however deep the statement was.                                *)
NothingAfterEnd == [][Grows => NewTop.act \notin ended']_vars

(* After an operation ended with an error its call explores its statements *)
(* for this item and then no other item ("should break from iteration",    *)
(* "end early if last outcome was an error").                              *)
BreaksOnError ==
  [][Grows /\ Depth \in stopped => frames'[Depth].at = "statement"]_vars

(* Every perform of a map settles, given that requests, scripts and files  *)
(* answer and that an external handler does not retry for ever.            *)
Settles == <>Settled
=============================================================================
