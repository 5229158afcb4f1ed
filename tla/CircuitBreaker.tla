--------------------------- MODULE CircuitBreaker ---------------------------
(***************************************************************************)
(* What a circuit breaker promises, free of how CircuitBreakerPolicy keeps *)
(* the promise: no inner RetryPolicy, no streak of either sign, no backoff *)
(* balance and no executions.  The variables are the state a caller can    *)
(* infer, the clock, and the last call with its answer.                    *)
(***************************************************************************)
EXTENDS Integers

CONSTANTS Threshold,   \* failures in a row that trip the breaker
          OpenTime     \* how long a tripped breaker refuses

VARIABLES state,       \* "closed", "open" or "half-open"
          failed,      \* failures in a row that count against the threshold
          until,       \* while open: the time from which a trial is let in
          now,         \* the clock
          call,        \* the last call
          answer       \* what the breaker answered

vars == <<state, failed, until, now, call, answer>>

Init ==
  /\ state = "closed" /\ failed = 0 /\ until = 0 /\ now = 0
  /\ call = "none" /\ answer = "none"

-----------------------------------------------------------------------------
(* beforeExecution: anybody enters a closed breaker, perhaps after a wait; *)
(* nobody waits in a half-open one; an open one refuses until its time is  *)
(* over, and then becomes half-open.                                       *)
Admit ==
  /\ state # "open"
  /\ answer' = "continue" \/ (state = "closed" /\ answer' = "backoff")
  /\ UNCHANGED <<state, failed, until>>

Refuse ==
  /\ state = "open" /\ now < until
  /\ answer' = "abort"
  /\ UNCHANGED <<state, failed, until>>

Trial ==
  /\ state = "open" /\ now >= until
  /\ state' = "half-open" /\ until' = 0
  /\ answer' = "continue"
  /\ UNCHANGED failed

Before == /\ call' = "before"
          /\ Admit \/ Refuse \/ Trial
          /\ UNCHANGED now

(* afterFailure: a closed breaker asks for a retry below the threshold and *)
(* trips on reaching it; a bind failure counts as the whole threshold, and *)
(* any failure trips a half-open breaker.                                  *)
Retry ==
  /\ state = "closed" /\ call' = "failure" /\ failed + 1 < Threshold
  /\ failed' = failed + 1
  /\ answer' = "retry"
  /\ UNCHANGED <<state, until>>

Trip ==
  /\ \/ state = "half-open"
     \/ state = "closed" /\ failed + 1 >= Threshold
     \/ state = "closed" /\ call' = "bind-failure"
  /\ state' = "open" /\ failed' = 0 /\ until' = now + OpenTime
  /\ answer' = "abort"

(* A report that arrives while the breaker is open is an error.            *)
Late ==
  /\ state = "open"
  /\ answer' = "throw"
  /\ UNCHANGED <<state, failed, until>>

Failure == /\ call' \in {"failure", "bind-failure"}
           /\ Retry \/ Trip \/ Late
           /\ UNCHANGED now

Recover ==
  /\ state # "open"
  /\ state' = "closed" /\ failed' = 0
  /\ answer' = "continue"
  /\ UNCHANGED until

Success == /\ call' = "success"
           /\ Recover \/ Late
           /\ UNCHANGED now

Reset == /\ call' = "reset" /\ answer' = "none"
         /\ state' = "closed" /\ failed' = 0 /\ until' = 0
         /\ UNCHANGED now

(* Time passes, or an execution leaves without a report.                   *)
Idle == /\ call' \in {"tick", "abandon"} /\ answer' = "none"
        /\ now' >= now /\ (call' = "abandon" => now' = now)
        /\ UNCHANGED <<state, failed, until>>

Next == Before \/ Failure \/ Success \/ Reset \/ Idle

Spec == Init /\ [][Next]_vars
=============================================================================
