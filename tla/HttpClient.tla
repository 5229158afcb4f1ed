----------------------------- MODULE HttpClient -----------------------------
(***************************************************************************)
(* HttpClient.request: a request of a map is checked, gets the credentials *)
(* of its security requirements, is sent, and is sent once more if the     *)
(* digest handler has an answer to the challenge of a refusal.  Requests   *)
(* run concurrently and share the cache of digest headers of the client.   *)
(*                                                                         *)
(* Data abstraction: one digest configuration (hence one key of the cache) *)
(* and one server; a target is the method and the path, all that a digest  *)
(* header says of a request; an answer is the status and the challenge.    *)
(* The server decides on an answer in the step in which it is read: what   *)
(* happens in between (a nonce it offers expires, others are served) can   *)
(* as well happen after, before the next fetch reaches the server.         *)
(***************************************************************************)
EXTENDS Sequences, SequencesExt

CONSTANTS Requests,   \* the calls of request() that may be under way at once
          Targets,    \* methods and paths
          Nonces,     \* bound: nonces in use at once; a free one is issued anew
          Plans       \* what a map may ask for, see Plan

Schemes == {"digest", "basic", "bearer", "apikey", "bodykey", "missing"}

Plan == [requirements : Seq(Schemes),
         values  : {"strings", "objects"},          \* of headers and query
         url     : {"empty", "relative", "absolute", "unfilled"},
         content : {"json", "urlencoded", "formdata", "binary", "other"},
         body    : {"none", "primitive", "object", "stream"}]

ASSUME PlansAssumption == Plans \subseteq Plan
ASSUME TargetsAssumption == Targets # {}
(* Whatever nonces the cache and the requests hold, one is left.           *)
ASSUME NoncesAssumption ==
  /\ Nonces # {} /\ "absent" \notin Nonces /\ "garbled" \notin Nonces
  /\ \A held \in [Requests -> Nonces], n \in Nonces :
       \E free \in Nonces \ {n} : \A r \in Requests : held[r] # free

VARIABLES server,   \* external: the nonces it accepts, and in which way
          cache,    \* the digest header in the SuperCache, if any
          call,     \* progress of every request()
          ended     \* history: how the request ended that ends in this step

vars == <<server, cache, call, ended>>

Header == [nonce : Nonces, target : Targets]
Call   == [pc : {"idle", "challenge", "request", "retry"}, digest : BOOLEAN,
           target : Targets, streamed : BOOLEAN, header : SUBSET Header,
           served : BOOLEAN, lost : BOOLEAN]
Ended  == [result : {"none", "ok", "denied", "other", "error"}, odd : BOOLEAN]

TypeOK ==
  /\ server \in [valid : SUBSET Nonces, once : BOOLEAN, strict : BOOLEAN,
                 settled : BOOLEAN]
  /\ \A h \in cache : h \in Header /\ cache = {h}
  /\ call \in [Requests -> Call]
  /\ \A r \in Requests : \A h \in call[r].header : call[r].header = {h}
  /\ ended \in Ended

AtRest == [pc |-> "idle", digest |-> FALSE, target |-> CHOOSE t \in Targets : TRUE,
           streamed |-> FALSE, header |-> {}, served |-> FALSE, lost |-> FALSE]
Nothing == [result |-> "none", odd |-> FALSE]

(* once: a nonce is good for one request; strict: the target is compared.  *)
Init ==
  /\ server \in [valid : {{}}, once : BOOLEAN, strict : BOOLEAN, settled : {FALSE}]
  /\ cache = {}
  /\ call = [r \in Requests |-> AtRest]
  /\ ended = Nothing

-----------------------------------------------------------------------------
(* createSecurityHandler: the last requirement decides.                    *)
Handler(plan) ==
  IF plan.requirements = <<>> THEN "none" ELSE Last(plan.requirements)

(* The body after authenticate: an api key makes an object of no body.     *)
BodyOf(plan) ==
  IF Handler(plan) = "bodykey" /\ plan.body = "none" THEN "object" ELSE plan.body

(* What throws before anything is sent, whatever the order: values that    *)
(* are no HTTP strings, a requirement without values, an api key for a     *)
(* body that is not an object, and a URL or a body that cannot be built.   *)
BadValues(plan) == plan.values = "objects"
BadRequirement(plan) == "missing" \in Range(plan.requirements)
BadKeyedBody(plan) == Handler(plan) = "bodykey" /\ plan.body = "primitive"
BadUrl(plan) == plan.url \in {"absolute", "unfilled"}
BadBody(plan) ==
  /\ BodyOf(plan) # "none"
  /\ \/ plan.content = "other"
     \/ plan.content \in {"urlencoded", "formdata"} /\ BodyOf(plan) = "primitive"

Unsendable(plan) ==
  \/ BadValues(plan) \/ BadRequirement(plan) \/ BadKeyedBody(plan)
  \/ BadUrl(plan) \/ BadBody(plan)

Streamed(plan) == plan.body = "stream" /\ plan.content \in {"formdata", "binary"}

-----------------------------------------------------------------------------
(* request(), up to its first fetch: without a cached header the digest    *)
(* handler sends the whole request without credentials, for the challenge. *)
Sent(plan, target) ==
  [AtRest EXCEPT
     !.pc = IF Handler(plan) = "digest" /\ cache = {} THEN "challenge" ELSE "request",
     !.digest = Handler(plan) = "digest",
     !.target = IF Handler(plan) = "digest" THEN target ELSE @,   \* else it says nothing
     !.streamed = Streamed(plan), !.header = IF Handler(plan) = "digest" THEN cache ELSE {}]

Request(r, plan, target) ==
  /\ call[r].pc = "idle" /\ ~Unsendable(plan)
  /\ call' = [call EXCEPT ![r] = Sent(plan, target)]
  /\ ended' = Nothing
  /\ UNCHANGED <<server, cache>>

Refuse(r, plan) ==
  /\ call[r].pc = "idle" /\ Unsendable(plan)
  /\ ended' = [result |-> "error", odd |-> FALSE]
  /\ UNCHANGED <<server, cache, call>>

-----------------------------------------------------------------------------
(* The client reads an answer: [status, challenge, odd], where challenge   *)
(* is a nonce, or "absent", or "garbled"; others are the calls but r, as   *)
(* the server leaves them.                                                 *)
Finish(r, others, result, answer) ==
  /\ call' = [others EXCEPT ![r] = AtRest]
  /\ ended' = [result |-> result, odd |-> answer.odd]

(* The request is sent with the header; a body that is a stream was given  *)
(* away by the fetch before, and taking it again throws.                   *)
Resend(r, others, pc, header, answer) ==
  IF call[r].streamed THEN Finish(r, others, "error", answer)
  ELSE /\ call' = [others EXCEPT ![r].pc = pc, ![r].header = header]
       /\ ended' = Nothing

(* buildDigestAuth, from the challenge of the answer and the target of the *)
(* request; what is cached is the whole header.                            *)
Built(c, answer) == {[nonce |-> answer.challenge, target |-> c.target]}

Challenged(answer) == answer.status = "denied" /\ answer.challenge \in Nonces

(* Mutated form: the request goes on whatever the answer to the first.     *)
LenientChallenge(r, others, answer) ==
  /\ cache' = IF Challenged(answer) THEN Built(call[r], answer) ELSE cache
  /\ Resend(r, others, "request", cache', answer)

(* The initializer in authenticate: no usable challenge is an error, also  *)
(* where the server has served the request.                                *)
ReadChallenge(r, others, answer) ==
  IF Challenged(answer)
  THEN /\ cache' = Built(call[r], answer)
       /\ Resend(r, others, "request", cache', answer)
  ELSE Finish(r, others, "error", answer) /\ UNCHANGED cache

(* Mutated form: the header that was refused is not invalidated.           *)
Kept(c, answer) == IF cache # {} THEN cache ELSE Built(c, answer)

Renewed(c, answer) == Built(c, answer)

(* Mutated form: every refusal is answered.                                *)
Always(c, answer) == c.digest /\ answer.status = "denied"

(* handleResponse is called for the first answer only.                     *)
Handled(c, answer) == c.pc = "request" /\ c.digest /\ answer.status = "denied"

(* The cache is invalidated before the challenge is read, so one that      *)
(* cannot be read empties it.                                              *)
ReadAnswer(r, others, answer) ==
  IF ~Handled(call[r], answer)
  THEN Finish(r, others, answer.status, answer) /\ UNCHANGED cache
  ELSE IF Challenged(answer)
       THEN /\ cache' = Renewed(call[r], answer)
            /\ Resend(r, others, "retry", cache', answer)
       ELSE /\ cache' = IF answer.challenge = "absent" THEN cache ELSE {}
            /\ Finish(r, others, "error", answer)

Read(r, others, answer) ==
  IF call[r].pc = "challenge" THEN ReadChallenge(r, others, answer)
                              ELSE ReadAnswer(r, others, answer)

-----------------------------------------------------------------------------
(* External: the server.  Until it settles it may answer anything oddly:   *)
(* serve without credentials, fail, send no challenge or a garbled one.    *)
InUse == {h.nonce : h \in cache \cup UNION {call[r].header : r \in Requests}}
Fresh == CHOOSE n \in Nonces : n \notin InUse

Accepts(c) ==
  \E h \in c.header : /\ h.nonce \in server.valid
                      /\ server.strict => h.target = c.target

(* A retry is lost when its nonce is void before it reaches the server.    *)
Voided(c, void) ==
  [c EXCEPT !.lost = @ \/ (c.pc = "retry" /\ \E h \in c.header : h.nonce \in void)]
AllVoided(void) == [r \in Requests |-> Voided(call[r], void)]

Says(status, challenge, odd) ==
  [status |-> status, challenge |-> challenge, odd |-> odd]

(* Served, and perhaps answered: a mutated client may go on.               *)
AndServed(r, calls) == [calls EXCEPT ![r].served = TRUE]

Serve(r) ==
  LET spent == IF server.once THEN {h.nonce : h \in call[r].header} ELSE {}
  IN /\ Accepts(call[r])
     /\ server' = [server EXCEPT !.valid = (@ \cap InUse) \ spent]
     /\ Read(r, AndServed(r, AllVoided(spent)), Says("ok", "absent", FALSE))

Deny(r) ==
  /\ ~Accepts(call[r])
  /\ server' = [server EXCEPT !.valid = (@ \cap InUse) \cup {Fresh}]
  /\ Read(r, call, Says("denied", Fresh, FALSE))

ServeOddly(r) ==
  /\ ~server.settled /\ UNCHANGED server
  /\ Read(r, AndServed(r, call), Says("ok", "absent", TRUE))

DenyOddly(r) ==
  /\ ~server.settled /\ UNCHANGED server
  /\ \E answer \in {Says("other", "absent", TRUE), Says("denied", "absent", TRUE),
                    Says("denied", "garbled", TRUE)} : Read(r, call, answer)

(* Other credentials are good or not: the server alone knows.              *)
Judge(r) ==
  /\ UNCHANGED server
  /\ \E status \in {"ok", "denied"} :
       Read(r, call, Says(status, "absent", FALSE))

(* The connection fails or times out, before or after the server has acted *)
(* on the request, or the body of the answer cannot be decoded: fetch      *)
(* throws.                                                                 *)
Lose(r) ==
  /\ ~server.settled
  /\ Finish(r, call, "error", Says("other", "absent", TRUE))
  /\ UNCHANGED <<server, cache>>

Pending(r) == call[r].pc # "idle"

Exchange(r) ==
  /\ Pending(r)
  /\ IF call[r].digest
     THEN Serve(r) \/ Deny(r) \/ ServeOddly(r) \/ DenyOddly(r)
     ELSE Judge(r)

Expire(n) ==
  /\ ~server.settled
  /\ n \in server.valid
  /\ server' = [server EXCEPT !.valid = @ \ {n}]
  /\ call' = AllVoided({n})
  /\ ended' = Nothing
  /\ UNCHANGED cache

Settle ==
  /\ ~server.settled
  /\ server' = [server EXCEPT !.settled = TRUE]
  /\ ended' = Nothing
  /\ UNCHANGED <<cache, call>>

Next ==
  \/ \E r \in Requests :
       \/ \E plan \in Plans, target \in Targets : Request(r, plan, target)
       \/ \E plan \in Plans : Refuse(r, plan)
       \/ Exchange(r)
       \/ Pending(r) /\ Lose(r)
  \/ \E n \in Nonces : Expire(n)
  \/ Settle

Spec == Init /\ [][Next]_vars

(* Each fetch ends, with an answer or without: weak fairness of Exchange,  *)
(* which is enabled as long as a request is pending.                       *)
FairSpec == Spec /\ \A r \in Requests : <>[]Pending(r) => []<><<Exchange(r)>>_vars

-----------------------------------------------------------------------------
(* The headers on their way: only the digest handler sends one, never      *)
(* without, and a retry carries one that was built for its own target.     *)
HeadersFit ==
  \A r \in Requests :
    LET c == call[r]
    IN /\ (c.digest /\ c.pc \in {"request", "retry"}) <=> c.header # {}
       /\ c.pc = "retry" => ~c.streamed /\ \A h \in c.header : h.target = c.target

(* However often a request is sent, the server acts on it at most once:    *)
(* none that it has served goes on.                                        *)
ServedOnce == \A r \in Requests : ~call[r].served

(* A retry that is not lost carries a nonce the server accepts.            *)
RetryAccepted ==
  \A r \in Requests :
    LET c == call[r]
    IN /\ c.digest => c.pc # "idle"
       /\ c.pc = "retry" /\ ~c.lost => \A h \in c.header : h.nonce \in server.valid

IInv == TypeOK /\ HeadersFit /\ ServedOnce /\ RetryAccepted

(* Stale headers in the cache, headers built for another path or by        *)
(* another request, nonces that expire or are spent under way: a digest    *)
(* request gets through all the same, in three fetches at most, unless its *)
(* very last nonce is taken from it or the server answers oddly; only a    *)
(* body that is a stream cannot be sent again.                             *)
GetsThrough ==
  [][\A r \in Requests :
       LET c == call[r] IN
       c.digest /\ ~c.lost /\ call'[r].pc = "idle" /\ ~ended'.odd =>
         ended'.result = "ok" \/ (c.streamed /\ ended'.result = "error")]_vars

(* Every request ends: the handler answers one refusal, not each.          *)
RequestsEnd == \A r \in Requests : []<>(call[r].pc = "idle")

(* With a server that takes a header again, for any target, the cache is   *)
(* worth it: however the requests race to fill it, from some time on each  *)
(* is a single fetch.                                                      *)
OneFetchInTheEnd ==
  ~server.once /\ ~server.strict /\ <>server.settled =>
    <>[](\A r \in Requests : call[r].pc \notin {"challenge", "retry"})
=============================================================================
