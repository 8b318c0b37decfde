-------------------------- MODULE IdempotentSubmission --------------------------
(***************************************************************************)
(* What POST /submissions promises about an Idempotency-Key, whatever      *)
(* becomes of requests and answers: the key is bound once, to one scenario *)
(* and one cancellation token, and starts one execution at most, unless it *)
(* is cancelled before.                                                    *)
(***************************************************************************)
EXTENDS Naturals

CONSTANTS Keys, Scenarios, Tokens, NoRoom, None

VARIABLES
  bound,      \* by key: its scenario and its token
  runs,       \* by key: executions asked for
  cancelled   \* the keys whose dispatch was cancelled

promised == <<bound, runs, cancelled>>

\* Some keys may be bound from before, by an earlier contract.
Init ==
  /\ bound \in [Keys -> (Scenarios \X (Tokens \union {None})) \union {None}]
  /\ runs = [k \in Keys |-> 0]
  /\ cancelled = {}

Bind(k, scenario, token) ==
  /\ bound[k] = None
  /\ scenario \notin NoRoom
  /\ bound' = [bound EXCEPT ![k] = <<scenario, token>>]
  /\ UNCHANGED <<runs, cancelled>>

Run(k) ==
  /\ bound[k] # None
  /\ runs[k] = 0
  /\ k \notin cancelled
  /\ runs' = [runs EXCEPT ![k] = 1]
  /\ UNCHANGED <<bound, cancelled>>

Cancel(k) ==
  /\ bound[k] # None
  /\ runs[k] = 0
  /\ cancelled' = cancelled \union {k}
  /\ UNCHANGED <<bound, runs>>

Next ==
  \E k \in Keys :
    \/ \E s \in Scenarios, t \in Tokens : Bind(k, s, t)
    \/ Run(k)
    \/ Cancel(k)

Spec == Init /\ [][Next]_promised
==============================================================================
