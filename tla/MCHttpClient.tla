---------------------------- MODULE MCHttpClient ----------------------------
(* An instance of HttpClient for TLC: plans of each handler, with a stream *)
(* for a body, and one plan for each reason not to send anything.          *)
EXTENDS HttpClient

Asks(requirements, content, body) ==
  [requirements |-> requirements, values |-> "strings", url |-> "relative",
   content |-> content, body |-> body]

Simple == Asks(<<"digest">>, "json", "object")

MCPlans ==
  {Simple, Asks(<<"apikey", "digest">>, "binary", "stream"),
   Asks(<<"bodykey">>, "formdata", "none"),
   Asks(<<"digest", "missing">>, "json", "none"),
   Asks(<<"bodykey">>, "json", "primitive"), Asks(<<"bodykey">>, "other", "none"),
   Asks(<<>>, "urlencoded", "primitive"),
   [Simple EXCEPT !.url = "unfilled"], [Simple EXCEPT !.values = "objects"]}
=============================================================================
