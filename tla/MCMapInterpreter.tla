--------------------------- MODULE MCMapInterpreter ---------------------------
(* Two maps: one that iterates a call of an operation, and one with an     *)
(* inline call and an HTTP call, whose handlers hold a call and another    *)
(* HTTP call, and set statements that write the status code; their outcome *)
(* statements in every combination of error and terminating, a call of no  *)
(* operation and a service without a URL.                                  *)
EXTENDS MapInterpreter, TLC

MCResponses == {[status |-> 200, type |-> "json"], [status |-> 404, type |-> AnyType],
                [status |-> 500, type |-> "xml"]}

Block(kind, statements) == [kind |-> kind, statements |-> statements]
Literal(value) == [kind |-> "PrimitiveLiteral", value |-> value]
Jessie(values) == [kind |-> "JessieExpression", values |-> values]
Condition(node) == [kind |-> "ConditionAtom", expression |-> node]
Iteration(node) == [kind |-> "IterationAtom", iterable |-> node]
Fields(kind, fields) == [kind |-> kind, fields |-> fields]
Assignment(toStatus, value) ==
  [kind |-> "Assignment", toStatus |-> toStatus, fields |-> <<value>>]
Set(condition, assignments) ==
  [kind |-> "SetStatement", condition |-> condition, assignments |-> assignments]
Outcome(condition, value, isError, terminateFlow) ==
  [kind |-> "OutcomeStatement", condition |-> condition, value |-> value,
   isError |-> isError, terminateFlow |-> terminateFlow]
Call(kind, iteration, condition, arguments, operation, statements) ==
  [kind |-> kind, iteration |-> iteration, condition |-> condition,
   arguments |-> arguments, operation |-> operation, statements |-> statements]
Http(service, request, handlers) ==
  [kind |-> "HttpCallStatement", service |-> service, request |-> request,
   responseHandlers |-> handlers]
Handler(statusCode, contentType, statements) ==
  [kind |-> "HttpResponseHandler", statusCode |-> statusCode, contentType |-> contentType,
   statements |-> statements]

Iterates(error, ends, inner) ==
  ("map" :> Block("MapDefinition", <<"call", "result">>)) @@
  ("call" :> Call("CallStatement", "each", "when", <<"argument">>, "op", <<"item">>)) @@
  ("each" :> Iteration("list")) @@ ("list" :> Jessie({"list2", "list0", "true"})) @@
  ("when" :> Condition("test")) @@ ("test" :> Jessie({"true", "false"})) @@
  ("argument" :> Assignment(TRUE, "literal")) @@ ("literal" :> Literal("true")) @@
  ("item" :> Outcome("when", "literal", error, ends)) @@
  ("result" :> Outcome(None, "value", FALSE, FALSE)) @@
  ("value" :> Jessie({"true", "undefined", "binary"})) @@
  ("op" :> Block("OperationDefinition", <<"fails", "request", "gives">>)) @@
  ("fails" :> Outcome("when", "literal", TRUE, inner)) @@
  ("request" :> Http(TRUE, None, <<"answer">>)) @@
  ("answer" :> Handler(404, AnyType, <<"set">>)) @@
  ("set" :> Set("when", <<"argument">>)) @@
  ("gives" :> Outcome(None, "literal", FALSE, FALSE))

Requests(error, ends, inner, service) ==
  ("map" :> Block("MapDefinition", <<"set", "http", "result">>)) @@
  ("set" :> Set(None, <<"argument">>)) @@ ("argument" :> Assignment(FALSE, "inline")) @@
  ("inline" :> Call("InlineCall", "each", None, <<>>, "op", <<>>)) @@
  ("each" :> Iteration("list")) @@ ("list" :> Jessie({"list1", "list2"})) @@
  ("op" :> Block("OperationDefinition", <<"inner">>)) @@
  ("inner" :> Http(TRUE, None, <<"any">>)) @@ ("any" :> Handler(AnyStatus, "json", <<"data">>)) @@
  ("data" :> Outcome(None, "literal", inner, TRUE)) @@ ("literal" :> Literal("true")) @@
  ("http" :> Http(service, "head", <<"missing", "other">>)) @@
  ("head" :> Fields("HttpRequest", <<"header">>)) @@
  ("header" :> Fields("ObjectLiteral", <<"argument2">>)) @@
  ("argument2" :> Assignment(FALSE, "literal")) @@
  ("missing" :> Handler(404, AnyType, <<"first", "again">>)) @@
  ("first" :> Outcome(None, "value", error, ends)) @@
  ("value" :> Jessie({"true", "undefined"})) @@
  ("again" :> Call("CallStatement", None, None, <<>>, "op", <<"second">>)) @@
  ("second" :> Outcome(None, "literal", TRUE, ~ends)) @@
  ("other" :> Handler(AnyStatus, "json", <<"nested", "mark", "third">>)) @@
  ("mark" :> Set(None, <<"code">>)) @@ ("code" :> Assignment(TRUE, "literal")) @@
  ("nested" :> Http(TRUE, None, <<"answer">>)) @@ ("answer" :> Handler(404, AnyType, <<>>)) @@
  ("third" :> Outcome(None, "literal", ~error, ends)) @@
  ("result" :> Outcome("when", "literal", ~error, FALSE)) @@
  ("when" :> Condition("test")) @@ ("test" :> Jessie({"true", "false"}))

MCPrograms ==
  {Iterates(error, ends, inner) : error, ends, inner \in BOOLEAN} \cup
  {Requests(error, ends, inner, TRUE) : error, ends, inner \in BOOLEAN} \cup
  {Requests(TRUE, TRUE, FALSE, FALSE)} \cup
  {[Iterates(TRUE, TRUE, TRUE) EXCEPT !["call"].operation = None]}
=============================================================================
