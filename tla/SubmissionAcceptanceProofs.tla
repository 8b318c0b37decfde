----------------------- MODULE SubmissionAcceptanceProofs -----------------------
(***************************************************************************)
(* Theorems of SubmissionAcceptance for every number of requests, keys,    *)
(* scenarios and tokens and any number of transaction attempts.            *)
(***************************************************************************)
EXTENDS SubmissionAcceptance, TLAPS

------------------------------------------------------------------------------
(* The inductive invariant.                                                *)

\* The documents of a key fit together: a pending dispatch is queued and was
\* never run, and both documents are cancelled or neither is.
DocumentsOK ==
  \A k \in Keys :
    /\ runs[k] \in {0, 1}
    /\ ~Exists(k) => status[k] = "absent" /\ runs[k] = 0
    /\ Exists(k) =>
         LET state == submission[k].dispatch_state IN
         /\ state = "pending" =>
              status[k] = "queued" /\ runs[k] = 0 /\ submission[k].token # None
         /\ state = "dispatching" => status[k] \in {"queued", "later"}
         /\ state = "cancelled" => status[k] = "cancelled" /\ runs[k] = 0
         /\ state = "unknown" => status[k] \in {"absent", "later"} /\ runs[k] = 0

Same(q) ==
  /\ submission[q.key].scenario = q.scenario
  /\ submission[q.key].token = q.token

\* A state that was read tells something of the state now: it is known for good,
\* and what has left pending does not come back.
SeenHolds(q) ==
  q.seen \in DispatchState =>
    /\ Readable(q.key)
    /\ q.seen # "pending" => submission[q.key].dispatch_state # "pending"

\* What a request relies on, wherever it is.
Relies(q) ==
  /\ q.pc # "idle" => q.key \in Keys
  /\ q.pc \in {"commit", "read_existing", "read_result"} =>
       q.scenario \in Scenarios \ NoRoom /\ q.token \in Tokens
  /\ q.pc \in {"read_existing", "reconcile"} => Exists(q.key)
  /\ q.pc = "reconcile" => q.token = None
  /\ q.pc = "read_result" => Exists(q.key) /\ Same(q)
  /\ q.pc \in {"claim", "claim_result", "claim_commit", "run_job"} =>
       Readable(q.key) /\ (q.token # None => Same(q))
  /\ q.pc \in {"cancel_result", "cancel", "cancel_read", "cancel_commit"} =>
       Readable(q.key) /\ submission[q.key].token = q.token
  /\ q.pc \in {"read_result", "claim_result", "cancel_result", "cancel_read"} => SeenHolds(q)
  /\ q.pc = "claim_result" => q.seen \in DispatchState
  /\ q.pc \in {"claim_commit", "cancel_commit"} => q.seen = "pending" /\ q.status = "queued"
  /\ q.pc = "answered" /\ q.answer = "accepted" =>
       /\ Readable(q.key) /\ Same(q)
       /\ submission[q.key].dispatch_state # "pending"
  /\ q.pc = "answered" /\ q.answer = "cancelled" => status[q.key] = "cancelled"

RequestsOK == \A r \in Requests : Relies(request[r])

\* Who calls run_job has claimed the dispatch and is the only one.
RunnersOK ==
  \A r \in Requests : In(r, "run_job") =>
    /\ submission[Key(r)].dispatch_state = "dispatching"
    /\ runs[Key(r)] = 0
    /\ \A q \in Requests : In(q, "run_job") /\ Key(q) = Key(r) => q = r

IInv == TypeOK /\ DocumentsOK /\ RequestsOK /\ RunnersOK

------------------------------------------------------------------------------
(* Steps of one request.                                                   *)

\* Documents are created, never rewritten, and a dispatch only leaves pending.
DocumentsGrow ==
  \A k \in Keys :
    /\ Exists(k) =>
         /\ submission'[k] # None
         /\ submission'[k].scenario = submission[k].scenario
         /\ submission'[k].token = submission[k].token
         /\ submission[k].dispatch_state # "pending" =>
              submission'[k].dispatch_state = submission[k].dispatch_state
         /\ submission[k].dispatch_state = "pending" =>
              submission'[k].dispatch_state \in DispatchState
    /\ status[k] = "cancelled" => status'[k] = "cancelled"

LEMMA GrowthKeepsRelies ==
  ASSUME TypeOK, DocumentsGrow, NEW q \in Request, Relies(q), q.pc # "idle"
  PROVE  Relies(q)'
<1>1. q.key \in Keys
  BY DEF Relies
<1>2. Exists(q.key) => /\ Exists(q.key)'
                       /\ submission'[q.key].scenario = submission[q.key].scenario
                       /\ submission'[q.key].token = submission[q.key].token
                       /\ submission[q.key].dispatch_state # "pending" =>
                            submission'[q.key].dispatch_state # "pending"
  BY <1>1 DEF DocumentsGrow, Exists
<1>3. Readable(q.key) => Readable(q.key)'
  BY <1>1 DEF DocumentsGrow, Readable, HasControl, Exists
<1>4. Readable(q.key) => Exists(q.key)
  BY DEF Readable, HasControl
<1>5. Exists(q.key) /\ Same(q) => Same(q)'
  BY <1>2 DEF Same
<1>6. SeenHolds(q) => SeenHolds(q)'
  BY <1>2, <1>3, <1>4 DEF SeenHolds
<1>7. status[q.key] = "cancelled" => status'[q.key] = "cancelled"
  BY <1>1 DEF DocumentsGrow
<1> QED
  BY <1>1, <1>2, <1>3, <1>4, <1>5, <1>6, <1>7 DEF Relies

\* One request moves on, and the documents with it.
LEMMA Moves ==
  ASSUME IInv, NEW r \in Requests, NEW q \in Request,
         request' = [request EXCEPT ![r] = q],
         submission' \in [Keys -> SubmissionDocument \union {None}],
         status' \in [Keys -> Status],
         runs' = runs,
         DocumentsGrow, DocumentsOK', Relies(q)',
         q.pc = "run_job" =>
           /\ submission'[q.key].dispatch_state = "dispatching"
           /\ runs[q.key] = 0
           /\ \A p \in Requests : p # r /\ In(p, "run_job") => Key(p) # q.key
  PROVE  IInv'
<1>1. request \in [Requests -> Request] /\ request'[r] = q
      /\ \A p \in Requests : p # r => request'[p] = request[p]
  BY DEF IInv, TypeOK
<1>2. TypeOK'
  BY <1>1 DEF IInv, TypeOK
<1>3. ASSUME NEW p \in Requests PROVE Relies(request[p])'
  <2>1. CASE p = r
    BY <1>1, <2>1 DEF Relies, Same, SeenHolds, Readable, HasControl, Exists
  <2>2. CASE p # r /\ request[p].pc = "idle"
    BY <1>1, <2>2 DEF Relies
  <2>3. CASE p # r /\ request[p].pc # "idle"
    <3>1. request[p] \in Request /\ Relies(request[p])
      BY <1>1 DEF IInv, RequestsOK
    <3> DEFINE x == request[p]
    <3>2. x \in Request /\ Relies(x) /\ x.pc # "idle"
      BY <2>3, <3>1
    <3>3. \A y \in Request : Relies(y) /\ y.pc # "idle" => Relies(y)'
      BY GrowthKeepsRelies DEF IInv
    <3>4. request'[p] = x
      BY <1>1, <2>3
    <3> QED
      BY <1>1, <2>3, <3>1, <3>3, <3>4
         DEF Relies, Same, SeenHolds, Readable, HasControl, Exists
  <2> QED
    BY <2>1, <2>2, <2>3
<1>4. RunnersOK'
  <2> SUFFICES ASSUME NEW p \in Requests, In(p, "run_job")'
               PROVE  /\ submission'[request'[p].key].dispatch_state = "dispatching"
                      /\ runs[request'[p].key] = 0
                      /\ \A s \in Requests :
                           request'[s].pc = "run_job" /\ request'[s].key = request'[p].key
                             => s = p
    BY DEF RunnersOK, In, Key
  <2>1. \A s \in Requests : In(s, "run_job") =>
          /\ submission[Key(s)].dispatch_state = "dispatching"
          /\ runs[Key(s)] = 0
          /\ \A t \in Requests : In(t, "run_job") /\ Key(t) = Key(s) => t = s
    BY DEF IInv, RunnersOK
  <2>2. CASE p = r
    BY <1>1, <2>2 DEF In, Key
  <2>3. CASE p # r
    <3>1. request[p].pc = "run_job" /\ request'[p] = request[p]
      BY <1>1, <2>3 DEF In
    <3>2. request[p].key \in Keys /\ Exists(request[p].key)
      BY <3>1 DEF IInv, RequestsOK, Relies, Readable, HasControl
    <3>3. submission'[request[p].key].dispatch_state = "dispatching"
      BY <2>1, <3>1, <3>2 DEF DocumentsGrow, In, Key
    <3> QED
      BY <1>1, <2>1, <2>3, <3>1, <3>3 DEF In, Key
  <2> QED
    BY <2>2, <2>3
<1> QED
  BY <1>2, <1>3, <1>4 DEF IInv, RequestsOK

\* One request moves on and leaves the documents alone.
LEMMA Quiet ==
  ASSUME IInv, NEW r \in Requests, NEW q \in Request,
         request' = [request EXCEPT ![r] = q],
         UNCHANGED <<docs, runs>>,
         Relies(q), q.pc # "run_job"
  PROVE  IInv'
<1>1. submission' = submission /\ status' = status /\ runs' = runs
  BY DEF docs
<1>2. DocumentsGrow
  BY <1>1 DEF DocumentsGrow, Exists, DispatchState
<1>3. DocumentsOK'
  BY <1>1 DEF IInv, DocumentsOK, Exists
<1>4. Relies(q)'
  BY <1>1 DEF Relies, Same, SeenHolds, Readable, HasControl, Exists
<1> QED
  BY <1>1, <1>2, <1>3, <1>4, Moves DEF IInv, TypeOK

LEMMA NewRequest ==
  /\ Idle \in Request
  /\ \A q \in Request, a \in Answers :
       [Idle EXCEPT !.pc = "answered", !.answer = a, !.key = q.key,
                    !.scenario = q.scenario, !.token = q.token] \in Request
<1>1. 0 \in 0 .. TransactionAttempts
  BY AttemptsAssumption
<1>2. "idle" \in Pc /\ "answered" \in Pc /\ "absent" \in Status
  BY DEF Pc, Status
<1>3. Idle \in Request
  BY <1>1, <1>2 DEF Idle, Request
<1> QED
  BY <1>1, <1>2, <1>3 DEF Idle, Request

\* A request is answered with something that need not be true of documents.
LEMMA Answering ==
  ASSUME IInv, NEW r \in Requests, NEW a \in Answers,
         request[r].pc # "idle",
         a \notin {"accepted", "cancelled"},
         Answer(r, a), UNCHANGED <<docs, runs>>
  PROVE  IInv'
<1> DEFINE q == [Idle EXCEPT !.pc = "answered", !.answer = a, !.key = request[r].key,
                             !.scenario = request[r].scenario, !.token = request[r].token]
<1>1. request[r] \in Request /\ request[r].key \in Keys
  BY DEF IInv, TypeOK, RequestsOK, Relies
<1>2. q \in Request /\ q.pc = "answered" /\ q.answer = a /\ q.key = request[r].key
  BY <1>1, NewRequest DEF Idle
<1>3. request' = [request EXCEPT ![r] = q]
  BY DEF Answer
<1> HIDE DEF q
<1>4. Relies(q)
  BY <1>1, <1>2 DEF Relies
<1> QED
  BY <1>2, <1>3, <1>4, Quiet

LEMMA ReadSubmissionKeeps ==
  ASSUME IInv, NEW r \in Requests, NEW from \in {"claim", "cancel"}, NEW to \in Pc,
         from = "claim" => to = "claim_result",
         from = "cancel" => to = "cancel_read",
         ReadSubmission(r, from, to)
  PROVE  IInv'
<1> DEFINE q == [request[r] EXCEPT !.pc = to, !.seen = submission[Key(r)].dispatch_state]
<1>1. request[r] \in Request /\ request[r].pc = from /\ Relies(request[r])
  BY DEF IInv, TypeOK, RequestsOK, ReadSubmission, In
<1>2. request[r].key \in Keys /\ Readable(request[r].key)
  BY <1>1 DEF Relies
<1>3. submission[Key(r)].dispatch_state \in DispatchState
  BY <1>2 DEF Readable, Key
<1>4. q \in Request /\ q.pc = to /\ q.seen = submission[q.key].dispatch_state
      /\ q.key = request[r].key /\ q.token = request[r].token /\ q.scenario = request[r].scenario
  BY <1>1, <1>3 DEF Request, Key
<1>5. request' = [request EXCEPT ![r] = q]
  BY <1>1 DEF ReadSubmission, IInv, TypeOK, Request
<1> HIDE DEF q
<1>6. Relies(q)
  BY <1>1, <1>2, <1>3, <1>4 DEF Relies, SeenHolds, Same, Key
<1> QED
  BY <1>1, <1>4, <1>5, <1>6, Quiet DEF ReadSubmission

\* The second read of a transaction, and the answer when nothing is pending.
LEMMA ReadResultKeeps ==
  ASSUME IInv, NEW r \in Requests, NEW from \in {"claim_result", "cancel_read"}, NEW to \in Pc,
         NEW refused \in Answers,
         from = "claim_result" => to = "claim_commit" /\ refused = Done(r),
         from = "cancel_read" => to = "cancel_commit" /\ refused = "not_pending",
         ReadResult(r, from, to, refused)
  PROVE  IInv'
<1>1. request[r] \in Request /\ request[r].pc = from /\ Relies(request[r])
  BY DEF IInv, TypeOK, RequestsOK, ReadResult, In
<1>2. request[r].key \in Keys /\ Readable(request[r].key)
  BY <1>1 DEF Relies
<1>3. CASE Pending(r, status[Key(r)])
           /\ request' = [request EXCEPT ![r].pc = to, ![r].status = status[Key(r)]]
  <2> DEFINE q == [request[r] EXCEPT !.pc = to, !.status = status[Key(r)]]
  <2>1. q \in Request /\ q.pc = to /\ q.seen = "pending" /\ q.status = "queued"
        /\ q.key = request[r].key /\ q.token = request[r].token /\ q.scenario = request[r].scenario
    BY <1>1, <1>2, <1>3 DEF Request, Key, Pending, IInv, TypeOK
  <2>2. request' = [request EXCEPT ![r] = q]
    BY <1>1, <1>3 DEF IInv, TypeOK, Request
  <2> HIDE DEF q
  <2>3. Relies(q)
    BY <1>1, <1>2, <2>1 DEF Relies, Same
  <2> QED
    BY <1>1, <2>1, <2>2, <2>3, Quiet DEF ReadResult
<1>4. CASE ~Pending(r, status[Key(r)]) /\ Answer(r, refused)
  <2>1. CASE refused \notin {"accepted", "cancelled"}
    BY <1>1, <1>4, <2>1, Answering DEF ReadResult
  <2>2. CASE refused = "accepted"
    <3> DEFINE q == [Idle EXCEPT !.pc = "answered", !.answer = refused, !.key = request[r].key,
                       !.scenario = request[r].scenario, !.token = request[r].token]
    <3>1. q \in Request /\ q.pc = "answered" /\ q.answer = refused
          /\ q.key = request[r].key /\ q.token = request[r].token /\ q.scenario = request[r].scenario
      BY <1>1, NewRequest DEF Idle
    <3>2. request' = [request EXCEPT ![r] = q]
      BY <1>4 DEF Answer
    <3>3. from = "claim_result" /\ request[r].token # None
      BY <2>2 DEF Done
    <3>4. submission[request[r].key].dispatch_state # "pending"
      <4>1. SeenHolds(request[r]) /\ request[r].seen \in DispatchState
        BY <1>1, <3>3 DEF Relies
      <4>2. CASE request[r].seen # "pending"
        BY <4>1, <4>2 DEF SeenHolds
      <4>3. CASE request[r].seen = "pending" /\ status[request[r].key] # "queued"
        BY <1>2, <4>3 DEF IInv, DocumentsOK, Readable, HasControl
      <4> QED
        BY <1>4, <4>2, <4>3 DEF Pending, Key
    <3> HIDE DEF q
    <3>5. Relies(q)
      BY <1>1, <1>2, <2>2, <3>1, <3>3, <3>4 DEF Relies, Same
    <3> QED
      BY <1>1, <3>1, <3>2, <3>5, Quiet DEF ReadResult
  <2>3. refused # "cancelled"
    BY DEF Done
  <2> QED
    BY <2>1, <2>2, <2>3
<1> QED
  BY <1>3, <1>4 DEF ReadResult

\* An aborted transaction begins again or fails its request.
LEMMA AbortedKeeps ==
  ASSUME IInv, NEW r \in Requests, NEW again \in {"claim", "cancel"}, NEW failed \in Answers,
         failed \notin {"accepted", "cancelled"},
         again = "claim" => In(r, "claim_commit"),
         again = "cancel" => In(r, "cancel_commit"),
         Aborted(r, again, failed), UNCHANGED runs
  PROVE  IInv'
<1>1. request[r] \in Request /\ request[r].pc # "idle" /\ Relies(request[r])
  BY DEF IInv, TypeOK, RequestsOK, In
<1>2. CASE request[r].tries > 1
  <2> DEFINE q == [request[r] EXCEPT !.pc = again, !.tries = request[r].tries - 1]
  <2>1. q \in Request /\ q.pc = again /\ q.key = request[r].key /\ q.token = request[r].token
        /\ q.scenario = request[r].scenario
    <3>1. request[r].tries - 1 \in 0 .. TransactionAttempts
      BY <1>1, <1>2, AttemptsAssumption DEF Request
    <3>2. again \in Pc
      BY DEF Pc
    <3> QED
      BY <1>1, <3>1, <3>2 DEF Request
  <2>2. request' = [request EXCEPT ![r] = q]
    BY <1>1, <1>2 DEF Aborted, IInv, TypeOK, Request
  <2> HIDE DEF q
  <2>3. Relies(q)
    BY <1>1, <2>1 DEF Relies, Same, In
  <2> QED
    BY <2>1, <2>2, <2>3, Quiet DEF Aborted
<1>3. CASE ~(request[r].tries > 1)
  BY <1>1, <1>3, Answering DEF Aborted
<1> QED
  BY <1>2, <1>3

\* A transaction begins, for a request that relies on what it will need.
LEMMA BeginKeeps ==
  ASSUME IInv, NEW r \in Requests, NEW pc \in {"claim", "cancel"},
         request[r].pc # "idle",
         pc = "claim" => /\ Readable(Key(r))
                         /\ request[r].token # None => Same(request[r]),
         pc = "cancel" => Readable(Key(r)) /\ submission[Key(r)].token = request[r].token,
         Begin(r, pc), UNCHANGED <<docs, runs>>
  PROVE  IInv'
<1> DEFINE q == [request[r] EXCEPT !.pc = pc, !.tries = TransactionAttempts]
<1>1. request[r] \in Request /\ request[r].key \in Keys
  BY DEF IInv, TypeOK, RequestsOK, Relies
<1>2. q \in Request /\ q.pc = pc /\ q.key = request[r].key /\ q.token = request[r].token
      /\ q.scenario = request[r].scenario
  <2>1. TransactionAttempts \in 0 .. TransactionAttempts /\ pc \in Pc
    BY AttemptsAssumption DEF Pc
  <2> QED
    BY <1>1, <2>1 DEF Request
<1>3. request' = [request EXCEPT ![r] = q]
  BY <1>1 DEF Begin, IInv, TypeOK, Request
<1> HIDE DEF q
<1>4. Relies(q)
  BY <1>1, <1>2 DEF Relies, Same, Key
<1> QED
  BY <1>2, <1>3, <1>4, Quiet

------------------------------------------------------------------------------
(* POST.                                                                   *)

LEMMA PostKeeps ==
  ASSUME IInv, NEW r \in Requests, NEW k \in Keys, NEW scenario \in Scenarios,
         NEW token \in Tokens, Post(r, k, scenario, token)
  PROVE  IInv'
<1> DEFINE asked == [Idle EXCEPT !.key = k, !.scenario = scenario, !.token = token]
           q == IF scenario \in NoRoom
                  THEN [asked EXCEPT !.pc = "answered", !.answer = "no_room"]
                  ELSE [asked EXCEPT !.pc = "commit"]
<1>1. q \in Request /\ q.key = k /\ q.scenario = scenario /\ q.token = token
      /\ \/ q.pc = "answered" /\ q.answer = "no_room"
         \/ q.pc = "commit" /\ scenario \notin NoRoom
  <2>1. Idle \in Request
    BY NewRequest
  <2>2. "answered" \in Pc /\ "commit" \in Pc /\ "no_room" \in Answers
    BY DEF Pc, Answers
  <2> QED
    BY <2>1, <2>2 DEF Request, Idle
<1>2. request' = [request EXCEPT ![r] = q]
  BY DEF Post
<1> HIDE DEF q
<1>3. Relies(q)
  BY <1>1 DEF Relies
<1> QED
  BY <1>1, <1>2, <1>3, Quiet DEF Post

\* Both documents are created, and the request goes on or never learns it.
LEMMA CreateKeeps ==
  ASSUME IInv, NEW r \in Requests, In(r, "commit"), Creates(r), Create(r), runs' = runs,
         Begin(r, "claim") \/ Answer(r, "error")
  PROVE  IInv'
<1> DEFINE k == request[r].key
           fresh == Fresh(request[r].scenario, request[r].token)
<1>1. /\ request[r] \in Request /\ k \in Keys /\ k # None
      /\ request[r].scenario \in Scenarios /\ request[r].token \in Tokens
      /\ request[r].token # None /\ request[r].pc = "commit"
  BY NoneAssumption DEF IInv, TypeOK, RequestsOK, Relies, In
<1>2. fresh \in SubmissionDocument /\ fresh # None
      /\ fresh.dispatch_state = "pending" /\ fresh.token = request[r].token
      /\ fresh.scenario = request[r].scenario
  <2>1. fresh \in SubmissionDocument
    BY <1>1 DEF Fresh, SubmissionDocument, DispatchState
  <2> QED
    BY <2>1, DocumentAssumption DEF Fresh
<1> HIDE DEF fresh
<1>3. /\ submission' = [submission EXCEPT ![k] = fresh]
      /\ status' = [status EXCEPT ![k] = "queued"]
  BY DEF Create, Key, fresh
<1>4. submission \in [Keys -> SubmissionDocument \union {None}] /\ status \in [Keys -> Status]
  BY DEF IInv, TypeOK
<1>5. /\ submission' \in [Keys -> SubmissionDocument \union {None}]
      /\ status' \in [Keys -> Status]
  BY <1>2, <1>3, <1>4 DEF Status
<1>6. submission[k] = None /\ status[k] = "absent" /\ runs[k] = 0
  BY <1>1 DEF Creates, Exists, Key, IInv, DocumentsOK
<1>7. DocumentsGrow
  BY <1>1, <1>3, <1>4, <1>6 DEF DocumentsGrow, Exists, DispatchState
<1>8. DocumentsOK'
  BY <1>1, <1>2, <1>3, <1>4, <1>6 DEF IInv, DocumentsOK, Exists
<1>9. CASE Begin(r, "claim")
  <2>1. [request[r] EXCEPT !.pc = "claim", !.tries = TransactionAttempts] \in Request
    <3>1. TransactionAttempts \in 0 .. TransactionAttempts /\ "claim" \in Pc
      BY AttemptsAssumption DEF Pc
    <3> QED
      BY <1>1, <3>1 DEF Request
  <2>2. PICK q \in Request : q = [request[r] EXCEPT !.pc = "claim", !.tries = TransactionAttempts]
    BY <2>1
  <2>3. /\ request' = [request EXCEPT ![r] = q]
        /\ q.pc = "claim" /\ q.key = k /\ q.token = fresh.token /\ q.scenario = fresh.scenario
    BY <1>1, <1>2, <1>9, <2>2 DEF Begin, IInv, TypeOK, Request
  <2>4. submission'[q.key] = fresh
    BY <1>1, <1>3, <1>4, <2>3
  <2>5. Readable(q.key)' /\ Same(q)'
    BY <1>1, <1>2, <2>3, <2>4 DEF Same, Readable, HasControl, Exists, DispatchState
  <2>6. Relies(q)'
    BY <1>1, <2>3, <2>5 DEF Relies
  <2> QED
    BY <1>5, <1>7, <1>8, <2>3, <2>6, Moves
<1>10. CASE Answer(r, "error")
  <2>1. [Idle EXCEPT !.pc = "answered", !.answer = "error", !.key = request[r].key,
                     !.scenario = request[r].scenario, !.token = request[r].token] \in Request
    BY <1>1, NewRequest DEF Answers
  <2>2. PICK q \in Request :
          q = [Idle EXCEPT !.pc = "answered", !.answer = "error", !.key = request[r].key,
                           !.scenario = request[r].scenario, !.token = request[r].token]
    BY <2>1
  <2>3. request' = [request EXCEPT ![r] = q]
    BY <1>10, <2>2 DEF Answer
  <2>4. q.pc = "answered" /\ q.answer = "error" /\ q.key = k
    BY <1>1, <2>2 DEF Idle
  <2>5. Relies(q)'
    BY <1>1, <2>4 DEF Relies
  <2> QED
    BY <1>5, <1>7, <1>8, <2>3, <2>4, <2>5, Moves
<1> QED
  BY <1>9, <1>10

LEMMA AcceptCommitKeeps ==
  ASSUME IInv, NEW r \in Requests, AcceptCommit(r)
  PROVE  IInv'
<1>1. request[r] \in Request /\ request[r].pc = "commit" /\ Relies(request[r])
  BY DEF IInv, TypeOK, RequestsOK, AcceptCommit, In
<1>2. CASE Creates(r) /\ Create(r) /\ (Begin(r, "claim") \/ Answer(r, "error"))
  BY <1>2, CreateKeeps DEF AcceptCommit
<1>3. CASE ~Creates(r) /\ UNCHANGED docs /\ Goto(r, "read_existing")
  <2> DEFINE q == [request[r] EXCEPT !.pc = "read_existing"]
  <2>1. q \in Request /\ q.pc = "read_existing" /\ q.key = request[r].key
        /\ q.token = request[r].token /\ q.scenario = request[r].scenario
    <3>1. "read_existing" \in Pc
      BY DEF Pc
    <3> QED
      BY <1>1, <3>1 DEF Request
  <2>2. request' = [request EXCEPT ![r] = q]
    BY <1>1, <1>3 DEF Goto, IInv, TypeOK, Request
  <2>3. Exists(request[r].key)
    BY <1>1, <1>3 DEF Creates, IInv, DocumentsOK, Key, Relies
  <2> HIDE DEF q
  <2>4. Relies(q)
    BY <1>1, <2>1, <2>3 DEF Relies
  <2> QED
    BY <1>3, <2>1, <2>2, <2>4, Quiet DEF AcceptCommit
<1>4. CASE UNCHANGED docs /\ Answer(r, "error")
  BY <1>1, <1>4, Answering DEF AcceptCommit, Answers
<1> QED
  BY <1>2, <1>3, <1>4 DEF AcceptCommit

LEMMA ReadExistingKeeps ==
  ASSUME IInv, NEW r \in Requests, ReadExisting(r)
  PROVE  IInv'
<1> DEFINE doc == submission[request[r].key]
<1>1. request[r] \in Request /\ request[r].pc = "read_existing" /\ Relies(request[r])
  BY DEF IInv, TypeOK, RequestsOK, ReadExisting, In
<1>2. request[r].key \in Keys /\ Exists(request[r].key) /\ request[r].token \in Tokens
  BY <1>1 DEF Relies
<1>3. doc \in SubmissionDocument
  BY <1>2 DEF IInv, TypeOK, Exists
<1>4. CASE \E a \in {"unrecoverable", "conflict", "error"} : Answer(r, a)
  <2>1. PICK a \in {"unrecoverable", "conflict", "error"} : Answer(r, a)
    BY <1>4
  <2>2. a \in Answers /\ a \notin {"accepted", "cancelled"}
    BY DEF Answers
  <2> QED
    BY <1>1, <2>1, <2>2, Answering DEF ReadExisting
<1>5. CASE SameRequest(r) /\ request' = [request EXCEPT ![r].pc = "read_result",
                                                       ![r].seen = doc.dispatch_state]
  <2> DEFINE q == [request[r] EXCEPT !.pc = "read_result", !.seen = doc.dispatch_state]
  <2>1. q \in Request /\ q.pc = "read_result" /\ q.key = request[r].key
        /\ q.seen = submission[q.key].dispatch_state
        /\ q.token = request[r].token /\ q.scenario = request[r].scenario
    <3>1. "read_result" \in Pc
      BY DEF Pc
    <3>2. doc.dispatch_state \in DispatchState \union {"unknown"}
      BY <1>3 DEF SubmissionDocument
    <3> QED
      BY <1>1, <3>1, <3>2 DEF Request
  <2>2. request' = [request EXCEPT ![r] = q]
    BY <1>1, <1>5 DEF IInv, TypeOK, Request
  <2>3. Same(request[r]) /\ doc.token # None
    BY <1>2, <1>5, NoneAssumption DEF SameRequest, Same, Key
  <2> HIDE DEF q
  <2>4. Relies(q)
    BY <1>1, <1>2, <2>1, <2>3 DEF Relies, Same, SeenHolds, Readable, HasControl
  <2> QED
    BY <2>1, <2>2, <2>4, Quiet DEF ReadExisting
<1> QED
  BY <1>4, <1>5 DEF ReadExisting, Key

LEMMA ReadExistingResultKeeps ==
  ASSUME IInv, NEW r \in Requests, ReadExistingResult(r)
  PROVE  IInv'
<1>1. request[r] \in Request /\ request[r].pc = "read_result" /\ Relies(request[r])
  BY DEF IInv, TypeOK, RequestsOK, ReadExistingResult, In
<1>2. CASE request[r].seen \in DispatchState /\ Begin(r, "claim")
  <2>1. Readable(Key(r)) /\ Same(request[r])
    BY <1>1, <1>2 DEF Relies, SeenHolds, Key
  <2> QED
    BY <1>1, <1>2, <2>1, BeginKeeps DEF ReadExistingResult
<1>3. CASE Answer(r, "unrecoverable") \/ Answer(r, "error")
  <2>1. "unrecoverable" \in Answers /\ "error" \in Answers
    BY DEF Answers
  <2> QED
    BY <1>1, <1>3, <2>1, Answering DEF ReadExistingResult
<1> QED
  BY <1>2, <1>3 DEF ReadExistingResult

------------------------------------------------------------------------------
(* The dispatch.                                                           *)

LEMMA ClaimFailsKeeps ==
  ASSUME IInv, NEW r \in Requests, ClaimFails(r)
  PROVE  IInv'
<1>1. "unavailable" \in Answers
  BY DEF Answers
<1> QED
  BY <1>1, Answering DEF ClaimFails

\* The dispatch is claimed, and the claimer calls run_job or never learns it.
LEMMA ClaimedKeeps ==
  ASSUME IInv, NEW r \in Requests, In(r, "claim_commit"), UnchangedSinceRead(r),
         SetDispatch(Key(r), "dispatching"), UNCHANGED <<status, runs>>,
         Goto(r, "run_job") \/ Answer(r, "unavailable")
  PROVE  IInv'
<1> DEFINE k == request[r].key
           claimed == [submission[k] EXCEPT !.dispatch_state = "dispatching"]
<1>1. /\ request[r] \in Request /\ k \in Keys /\ request[r].pc = "claim_commit"
      /\ Readable(k) /\ (request[r].token # None => Same(request[r]))
  BY DEF IInv, TypeOK, RequestsOK, Relies, In
<1>2. /\ submission[k] \in SubmissionDocument /\ submission[k] # None
      /\ submission[k].dispatch_state = "pending"
  <2>1. request[r].seen = "pending"
    BY <1>1 DEF IInv, RequestsOK, Relies
  <2> QED
    BY <1>1, <2>1 DEF IInv, TypeOK, Readable, HasControl, Exists, UnchangedSinceRead, Key
<1>3. /\ claimed \in SubmissionDocument /\ claimed # None
      /\ claimed.dispatch_state = "dispatching"
      /\ claimed.token = submission[k].token /\ claimed.scenario = submission[k].scenario
  <2>1. claimed \in SubmissionDocument
    BY <1>2 DEF SubmissionDocument, DispatchState
  <2> QED
    BY <1>2, <2>1, DocumentAssumption DEF SubmissionDocument
<1> HIDE DEF claimed
<1>4. submission' = [submission EXCEPT ![k] = claimed]
  BY <1>1 DEF SetDispatch, Key, claimed, IInv, TypeOK
<1>5. submission \in [Keys -> SubmissionDocument \union {None}] /\ status \in [Keys -> Status]
  BY DEF IInv, TypeOK
<1>6. submission' \in [Keys -> SubmissionDocument \union {None}] /\ status' \in [Keys -> Status]
  BY <1>3, <1>4, <1>5
<1>7. submission'[k] = claimed /\ \A j \in Keys : j # k => submission'[j] = submission[j]
  BY <1>1, <1>4, <1>5
<1>8. DocumentsGrow
  BY <1>2, <1>3, <1>7 DEF DocumentsGrow, Exists, DispatchState
<1>9. runs[k] = 0 /\ status[k] = "queued"
  BY <1>1, <1>2 DEF IInv, DocumentsOK, Exists
<1>10. DocumentsOK'
  BY <1>3, <1>7, <1>9 DEF IInv, DocumentsOK, Exists
<1>11. CASE Goto(r, "run_job")
  <2>1. [request[r] EXCEPT !.pc = "run_job"] \in Request
    <3>1. "run_job" \in Pc
      BY DEF Pc
    <3> QED
      BY <1>1, <3>1 DEF Request
  <2>2. PICK q \in Request : q = [request[r] EXCEPT !.pc = "run_job"]
    BY <2>1
  <2>3. /\ request' = [request EXCEPT ![r] = q]
        /\ q.pc = "run_job" /\ q.key = k /\ q.token = request[r].token
        /\ q.scenario = request[r].scenario
    BY <1>1, <1>11, <2>2 DEF Goto, IInv, TypeOK, Request
  <2>4. Readable(q.key)' /\ (q.token # None => Same(q)')
    BY <1>1, <1>3, <1>7, <2>3 DEF Readable, HasControl, Exists, Same, DispatchState
  <2>5. Relies(q)'
    BY <1>1, <2>3, <2>4 DEF Relies
  <2>6. \A p \in Requests : p # r /\ In(p, "run_job") => Key(p) # k
    BY <1>2 DEF IInv, RunnersOK
  <2> QED
    BY <1>3, <1>6, <1>7, <1>8, <1>9, <1>10, <2>3, <2>5, <2>6, Moves
<1>12. CASE Answer(r, "unavailable")
  <2>1. [Idle EXCEPT !.pc = "answered", !.answer = "unavailable", !.key = request[r].key,
                     !.scenario = request[r].scenario, !.token = request[r].token] \in Request
    BY <1>1, NewRequest DEF Answers
  <2>2. PICK q \in Request :
          q = [Idle EXCEPT !.pc = "answered", !.answer = "unavailable", !.key = request[r].key,
                           !.scenario = request[r].scenario, !.token = request[r].token]
    BY <2>1
  <2>3. request' = [request EXCEPT ![r] = q]
    BY <1>12, <2>2 DEF Answer
  <2>4. q.pc = "answered" /\ q.answer = "unavailable" /\ q.key = k
    BY <1>1, <2>2 DEF Idle
  <2>5. Relies(q)'
    BY <1>1, <2>4 DEF Relies
  <2> QED
    BY <1>6, <1>8, <1>10, <2>3, <2>4, <2>5, Moves
<1> QED
  BY <1>11, <1>12

LEMMA ClaimCommitKeeps ==
  ASSUME IInv, NEW r \in Requests, ClaimCommit(r)
  PROVE  IInv'
<1>1. CASE /\ UnchangedSinceRead(r)
           /\ SetDispatch(Key(r), "dispatching")
           /\ UNCHANGED status
           /\ Goto(r, "run_job") \/ Answer(r, "unavailable")
  BY <1>1, ClaimedKeeps DEF ClaimCommit
<1>2. CASE Aborted(r, "claim", "unavailable")
  <2>1. "unavailable" \in Answers
    BY DEF Answers
  <2> QED
    BY <1>2, <2>1, AbortedKeeps DEF ClaimCommit
<1> QED
  BY <1>1, <1>2 DEF ClaimCommit

LEMMA RunJobKeeps ==
  ASSUME IInv, NEW r \in Requests, RunJob(r)
  PROVE  IInv'
<1> DEFINE k == request[r].key
<1>1. /\ request[r] \in Request /\ k \in Keys /\ request[r].pc = "run_job"
      /\ Readable(k) /\ (request[r].token # None => Same(request[r]))
  BY DEF IInv, TypeOK, RequestsOK, Relies, RunJob, In
<1>2. submission[k].dispatch_state = "dispatching" /\ runs[k] = 0
      /\ \A p \in Requests : p # r /\ In(p, "run_job") => Key(p) # k
  BY <1>1 DEF IInv, RunnersOK, In, Key
<1>3. Done(r) \in Answers
  BY DEF Done, Answers
<1>4. [Idle EXCEPT !.pc = "answered", !.answer = Done(r), !.key = request[r].key,
                   !.scenario = request[r].scenario, !.token = request[r].token] \in Request
  BY <1>1, <1>3, NewRequest
<1>5. PICK q \in Request :
        q = [Idle EXCEPT !.pc = "answered", !.answer = Done(r), !.key = request[r].key,
                         !.scenario = request[r].scenario, !.token = request[r].token]
  BY <1>4
<1>6. /\ request' = [request EXCEPT ![r] = q]
      /\ q.pc = "answered" /\ q.answer = Done(r) /\ q.key = k
      /\ q.token = request[r].token /\ q.scenario = request[r].scenario
  BY <1>5 DEF RunJob, Answer, Idle
<1>7. submission' = submission /\ status' = status /\ runs' = [runs EXCEPT ![k] = runs[k] + 1]
  BY DEF RunJob, docs, Key
<1>8. runs \in [Keys -> Nat] /\ request \in [Requests -> Request]
  BY DEF IInv, TypeOK
<1>9. TypeOK'
  BY <1>1, <1>6, <1>7, <1>8 DEF IInv, TypeOK
<1>10. runs'[k] = 1 /\ \A j \in Keys : j # k => runs'[j] = runs[j]
  BY <1>1, <1>2, <1>7, <1>8
<1>11. DocumentsOK'
  BY <1>1, <1>2, <1>7, <1>10 DEF IInv, DocumentsOK, Exists, Readable, HasControl
<1>12. Relies(q)
  BY <1>1, <1>2, <1>6 DEF Relies, Done, Same
<1>13. \A p \in Requests : request'[p] = IF p = r THEN q ELSE request[p]
  BY <1>6, <1>8
<1>14. \A p \in Requests : Relies(request'[p])
  BY <1>12, <1>13 DEF IInv, RequestsOK
<1>15. RequestsOK'
  BY <1>7, <1>14 DEF RequestsOK, Relies, Same, SeenHolds, Readable, HasControl, Exists
<1>16. RunnersOK'
  <2> SUFFICES ASSUME NEW p \in Requests, request'[p].pc = "run_job"
               PROVE  /\ submission[request'[p].key].dispatch_state = "dispatching"
                      /\ runs'[request'[p].key] = 0
                      /\ \A s \in Requests :
                           request'[s].pc = "run_job" /\ request'[s].key = request'[p].key
                             => s = p
    BY <1>7 DEF RunnersOK, In, Key
  <2>1. p # r /\ request'[p] = request[p]
    BY <1>6, <1>13
  <2>2. request[p].key # k /\ request[p].key \in Keys
    BY <1>2, <2>1 DEF In, Key, IInv, RequestsOK, Relies
  <2> QED
    BY <1>6, <1>10, <1>13, <2>1, <2>2 DEF IInv, RunnersOK, In, Key
<1> QED
  BY <1>9, <1>11, <1>15, <1>16 DEF IInv

LEMMA PollKeeps ==
  ASSUME IInv, NEW r \in Requests, NEW k \in Keys, Poll(r, k)
  PROVE  IInv'
<1> DEFINE q == [Idle EXCEPT !.pc = "reconcile", !.key = k]
<1>1. q \in Request /\ q.pc = "reconcile" /\ q.key = k /\ q.token = None
  <2>1. Idle \in Request /\ "reconcile" \in Pc
    BY NewRequest DEF Pc
  <2> QED
    BY <2>1 DEF Request, Idle
<1>2. Exists(k)
  BY DEF Poll, IInv, DocumentsOK
<1>3. request' = [request EXCEPT ![r] = q]
  BY DEF Poll
<1> HIDE DEF q
<1>4. Relies(q)
  BY <1>1, <1>2 DEF Relies
<1> QED
  BY <1>1, <1>3, <1>4, Quiet DEF Poll

LEMMA ReconcileKeeps ==
  ASSUME IInv, NEW r \in Requests, Reconcile(r)
  PROVE  IInv'
<1>1. request[r] \in Request /\ request[r].pc = "reconcile" /\ Relies(request[r])
  BY DEF IInv, TypeOK, RequestsOK, Reconcile, In
<1>2. request[r].key \in Keys /\ Exists(request[r].key) /\ request[r].token = None
  BY <1>1 DEF Relies
<1>3. CASE submission[Key(r)].dispatch_state = "pending" /\ Begin(r, "claim")
  <2>1. Readable(Key(r))
    BY <1>2, <1>3 DEF IInv, DocumentsOK, Readable, HasControl, Key, DispatchState
  <2> QED
    BY <1>1, <1>2, <1>3, <2>1, BeginKeeps DEF Reconcile
<1>4. CASE Answer(r, "polled") \/ Answer(r, "error")
  <2>1. "polled" \in Answers /\ "error" \in Answers
    BY DEF Answers
  <2> QED
    BY <1>1, <1>4, <2>1, Answering DEF Reconcile
<1> QED
  BY <1>3, <1>4 DEF Reconcile

------------------------------------------------------------------------------
(* The cancellation.                                                       *)

LEMMA CancelKeeps ==
  ASSUME IInv, NEW r \in Requests, NEW k \in Keys, NEW token \in Tokens, Cancel(r, k, token)
  PROVE  IInv'
<1> DEFINE q == [Idle EXCEPT !.pc = "cancel_control", !.key = k, !.token = token]
<1>1. q \in Request /\ q.pc = "cancel_control" /\ q.key = k
  <2>1. Idle \in Request /\ "cancel_control" \in Pc
    BY NewRequest DEF Pc
  <2> QED
    BY <2>1 DEF Request, Idle
<1>2. request' = [request EXCEPT ![r] = q]
  BY DEF Cancel
<1> HIDE DEF q
<1>3. Relies(q)
  BY <1>1 DEF Relies
<1> QED
  BY <1>1, <1>2, <1>3, Quiet DEF Cancel

LEMMA CancelReadControlKeeps ==
  ASSUME IInv, NEW r \in Requests, CancelReadControl(r)
  PROVE  IInv'
<1> DEFINE state == submission[request[r].key].dispatch_state
<1>1. request[r] \in Request /\ request[r].pc = "cancel_control" /\ Relies(request[r])
  BY DEF IInv, TypeOK, RequestsOK, CancelReadControl, In
<1>2. CASE Authorised(r) /\ request' = [request EXCEPT ![r].pc = "cancel_result",
                                                     ![r].seen = state]
  <2> DEFINE q == [request[r] EXCEPT !.pc = "cancel_result", !.seen = state]
  <2>1. request[r].key \in Keys /\ Readable(request[r].key)
        /\ submission[request[r].key].token = request[r].token
    BY <1>1, <1>2 DEF Relies, Authorised, Key
  <2>2. q \in Request /\ q.pc = "cancel_result" /\ q.key = request[r].key
        /\ q.token = request[r].token /\ q.seen = submission[q.key].dispatch_state
    <3>1. "cancel_result" \in Pc /\ state \in DispatchState
      BY <2>1 DEF Pc, Readable
    <3> QED
      BY <1>1, <3>1 DEF Request
  <2>3. request' = [request EXCEPT ![r] = q]
    BY <1>1, <1>2 DEF IInv, TypeOK, Request
  <2> HIDE DEF q
  <2>4. Relies(q)
    BY <2>1, <2>2 DEF Relies, SeenHolds
  <2> QED
    BY <2>2, <2>3, <2>4, Quiet DEF CancelReadControl
<1>3. CASE \E a \in {"error", "forbidden"} : Answer(r, a)
  <2>1. PICK a \in {"error", "forbidden"} : Answer(r, a)
    BY <1>3
  <2>2. a \in Answers /\ a \notin {"accepted", "cancelled"}
    BY DEF Answers
  <2> QED
    BY <1>1, <2>1, <2>2, Answering DEF CancelReadControl
<1> QED
  BY <1>2, <1>3 DEF CancelReadControl, Key

\* A request is told "cancelled" where the result says so.
LEMMA TellsCancelled ==
  ASSUME IInv, NEW r \in Requests, request[r].pc # "idle", Answer(r, "cancelled"),
         submission' \in [Keys -> SubmissionDocument \union {None}],
         status' \in [Keys -> Status], runs' = runs,
         DocumentsGrow, DocumentsOK', status'[request[r].key] = "cancelled"
  PROVE  IInv'
<1>1. request[r] \in Request /\ request[r].key \in Keys
  BY DEF IInv, TypeOK, RequestsOK, Relies
<1>2. [Idle EXCEPT !.pc = "answered", !.answer = "cancelled", !.key = request[r].key,
                   !.scenario = request[r].scenario, !.token = request[r].token] \in Request
  BY <1>1, NewRequest DEF Answers
<1>3. PICK q \in Request :
        q = [Idle EXCEPT !.pc = "answered", !.answer = "cancelled", !.key = request[r].key,
                         !.scenario = request[r].scenario, !.token = request[r].token]
  BY <1>2
<1>4. request' = [request EXCEPT ![r] = q]
  BY <1>3 DEF Answer
<1>5. q.pc = "answered" /\ q.answer = "cancelled" /\ q.key = request[r].key
  BY <1>1, <1>3 DEF Idle
<1>6. Relies(q)'
  BY <1>1, <1>5 DEF Relies
<1> QED
  BY <1>4, <1>5, <1>6, Moves

LEMMA UnchangedDocuments ==
  ASSUME IInv, UNCHANGED <<docs, runs>>
  PROVE  /\ submission' \in [Keys -> SubmissionDocument \union {None}]
         /\ status' \in [Keys -> Status] /\ status' = status /\ runs' = runs
         /\ DocumentsGrow /\ DocumentsOK'
<1>1. submission' = submission /\ status' = status /\ runs' = runs
  BY DEF docs
<1> QED
  BY <1>1 DEF IInv, TypeOK, DocumentsOK, DocumentsGrow, Exists, DispatchState

LEMMA CancelReadResultKeeps ==
  ASSUME IInv, NEW r \in Requests, CancelReadResult(r)
  PROVE  IInv'
<1>1. request[r] \in Request /\ request[r].pc = "cancel_result" /\ Relies(request[r])
  BY DEF IInv, TypeOK, RequestsOK, CancelReadResult, In
<1>2. CASE status[Key(r)] = "cancelled" /\ Answer(r, "cancelled")
  BY <1>1, <1>2, TellsCancelled, UnchangedDocuments DEF CancelReadResult, Key
<1>3. CASE Begin(r, "cancel")
  <2>1. Readable(Key(r)) /\ submission[Key(r)].token = request[r].token
    BY <1>1 DEF Relies, Key
  <2> QED
    BY <1>1, <1>3, <2>1, BeginKeeps DEF CancelReadResult
<1>4. CASE Answer(r, "not_pending") \/ Answer(r, "error")
  <2>1. "not_pending" \in Answers /\ "error" \in Answers
    BY DEF Answers
  <2> QED
    BY <1>1, <1>4, <2>1, Answering DEF CancelReadResult
<1> QED
  BY <1>2, <1>3, <1>4 DEF CancelReadResult

LEMMA CancelFailsKeeps ==
  ASSUME IInv, NEW r \in Requests, CancelFails(r)
  PROVE  IInv'
<1>1. "error" \in Answers
  BY DEF Answers
<1> QED
  BY <1>1, Answering DEF CancelFails

LEMMA CancelCommitKeeps ==
  ASSUME IInv, NEW r \in Requests, CancelCommit(r)
  PROVE  IInv'
<1> DEFINE k == request[r].key
           closed == [submission[k] EXCEPT !.dispatch_state = "cancelled"]
<1>1. request[r] \in Request /\ k \in Keys /\ request[r].pc = "cancel_commit"
      /\ Readable(k) /\ request[r].seen = "pending"
  BY DEF IInv, TypeOK, RequestsOK, Relies, CancelCommit, In
<1>2. CASE /\ UnchangedSinceRead(r)
           /\ SetDispatch(Key(r), "cancelled")
           /\ status' = [status EXCEPT ![Key(r)] = "cancelled"]
           /\ Answer(r, "cancelled") \/ Answer(r, "error")
  <2>1. /\ submission[k] \in SubmissionDocument /\ submission[k] # None
        /\ submission[k].dispatch_state = "pending"
    BY <1>1, <1>2 DEF IInv, TypeOK, Readable, HasControl, Exists, UnchangedSinceRead, Key
  <2>2. /\ closed \in SubmissionDocument /\ closed # None
        /\ closed.dispatch_state = "cancelled"
        /\ closed.token = submission[k].token /\ closed.scenario = submission[k].scenario
    <3>1. closed \in SubmissionDocument
      BY <2>1 DEF SubmissionDocument, DispatchState
    <3> QED
      BY <2>1, <3>1, DocumentAssumption DEF SubmissionDocument
  <2> HIDE DEF closed
  <2>3. /\ submission' = [submission EXCEPT ![k] = closed]
        /\ status' = [status EXCEPT ![k] = "cancelled"] /\ runs' = runs
    BY <1>1, <1>2 DEF SetDispatch, Key, closed, IInv, TypeOK, CancelCommit
  <2>4. submission \in [Keys -> SubmissionDocument \union {None}] /\ status \in [Keys -> Status]
    BY DEF IInv, TypeOK
  <2>5. submission' \in [Keys -> SubmissionDocument \union {None}] /\ status' \in [Keys -> Status]
    BY <2>2, <2>3, <2>4 DEF Status
  <2>6. /\ submission'[k] = closed /\ status'[k] = "cancelled"
        /\ \A j \in Keys : j # k => submission'[j] = submission[j] /\ status'[j] = status[j]
    BY <1>1, <2>3, <2>4
  <2>7. DocumentsGrow
    BY <2>1, <2>2, <2>6 DEF DocumentsGrow, Exists, DispatchState
  <2>8. runs[k] = 0
    BY <1>1, <2>1 DEF IInv, DocumentsOK, Exists
  <2>9. DocumentsOK'
    BY <2>2, <2>3, <2>6, <2>8 DEF IInv, DocumentsOK, Exists
  <2>10. CASE Answer(r, "cancelled")
    BY <1>1, <2>3, <2>5, <2>6, <2>7, <2>9, <2>10, TellsCancelled
  <2>11. CASE Answer(r, "error")
    <3>1. [Idle EXCEPT !.pc = "answered", !.answer = "error", !.key = request[r].key,
                       !.scenario = request[r].scenario, !.token = request[r].token] \in Request
      BY <1>1, NewRequest DEF Answers
    <3>2. PICK q \in Request :
            q = [Idle EXCEPT !.pc = "answered", !.answer = "error", !.key = request[r].key,
                             !.scenario = request[r].scenario, !.token = request[r].token]
      BY <3>1
    <3>3. request' = [request EXCEPT ![r] = q]
      BY <2>11, <3>2 DEF Answer
    <3>4. q.pc = "answered" /\ q.answer = "error" /\ q.key = k
      BY <1>1, <3>2 DEF Idle
    <3>5. Relies(q)'
      BY <1>1, <3>4 DEF Relies
    <3> QED
      BY <2>3, <2>5, <2>7, <2>9, <3>3, <3>4, <3>5, Moves
  <2> QED
    BY <1>2, <2>10, <2>11
<1>3. CASE Aborted(r, "cancel", "error")
  <2>1. "error" \in Answers
    BY DEF Answers
  <2> QED
    BY <1>3, <2>1, AbortedKeeps DEF CancelCommit
<1> QED
  BY <1>2, <1>3 DEF CancelCommit

------------------------------------------------------------------------------
(* The rest.                                                               *)

LEMMA LifecycleKeeps ==
  ASSUME IInv, NEW k \in Keys, LifecycleGoesOn(k)
  PROVE  IInv'
<1>1. /\ submission' = submission /\ runs' = runs /\ request' = request
      /\ status' = [status EXCEPT ![k] = "later"]
      /\ status[k] = "queued" /\ Exists(k) /\ submission[k].dispatch_state = "dispatching"
  BY DEF LifecycleGoesOn
<1>2. status \in [Keys -> Status] /\ request \in [Requests -> Request]
  BY DEF IInv, TypeOK
<1>3. TypeOK'
  BY <1>1, <1>2 DEF IInv, TypeOK, Status
<1>4. status'[k] = "later" /\ \A j \in Keys : j # k => status'[j] = status[j]
  BY <1>1, <1>2
<1>5. DocumentsOK'
  BY <1>1, <1>4 DEF IInv, DocumentsOK, Exists
<1>6. RunnersOK'
  BY <1>1 DEF IInv, RunnersOK, In, Key
<1>7. \A r \in Requests : Relies(request[r])'
  BY <1>1, <1>4 DEF IInv, RequestsOK, Relies, Same, SeenHolds, Readable, HasControl, Exists
<1> QED
  BY <1>1, <1>3, <1>5, <1>6, <1>7 DEF IInv, RequestsOK

LEMMA DiesKeeps ==
  ASSUME IInv, NEW r \in Requests, Dies(r)
  PROVE  IInv'
<1>1. Idle \in Request /\ Idle.pc = "idle"
  BY NewRequest DEF Idle
<1>2. Relies(Idle)
  BY <1>1 DEF Relies
<1> QED
  BY <1>1, <1>2, Quiet DEF Dies

LEMMA InitIInv == Init => IInv
<1> SUFFICES ASSUME Init PROVE IInv
  OBVIOUS
<1>1. PICK old \in [Keys -> Earlier \union {None}] :
        /\ submission = [k \in Keys |-> IF old[k] = None THEN None ELSE old[k].doc]
        /\ status = [k \in Keys |-> IF old[k] = None THEN "absent" ELSE old[k].status]
  BY DEF Init
<1>2. \A e \in Earlier : /\ e.doc \in SubmissionDocument /\ e.doc.dispatch_state = "unknown"
                         /\ e.status \in {"absent", "later"}
  BY DEF Earlier
<1>3. ASSUME NEW k \in Keys
      PROVE  \/ submission[k] = None /\ status[k] = "absent"
             \/ /\ submission[k] \in SubmissionDocument
                /\ submission[k].dispatch_state = "unknown"
                /\ status[k] \in {"absent", "later"}
  <2>1. CASE old[k] = None
    BY <1>1, <2>1
  <2>2. CASE old[k] # None
    BY <1>1, <1>2, <2>2
  <2> QED
    BY <2>1, <2>2
<1>4. /\ submission \in [Keys -> SubmissionDocument \union {None}]
      /\ status \in [Keys -> Status]
  BY <1>1, <1>3 DEF Status
<1>5. \A r \in Requests : request[r] = Idle
  BY DEF Init
<1>6. Idle.pc = "idle"
  BY DEF Idle
<1>7. TypeOK
  BY <1>4, NewRequest DEF TypeOK, Init
<1>8. DocumentsOK
  BY <1>3, DocumentAssumption DEF DocumentsOK, Exists, Init
<1>9. RequestsOK /\ RunnersOK
  BY <1>5, <1>6 DEF RequestsOK, Relies, RunnersOK, In
<1> QED
  BY <1>7, <1>8, <1>9 DEF IInv

LEMMA Inductive == IInv /\ [Next]_vars => IInv'
<1> SUFFICES ASSUME IInv, [Next]_vars PROVE IInv'
  OBVIOUS
<1>1. ASSUME NEW r \in Requests, Claim(r) PROVE IInv'
  <2>1. "claim_result" \in Pc /\ "claim_commit" \in Pc /\ Done(r) \in Answers
    BY DEF Pc, Done, Answers
  <2>2. CASE ReadSubmission(r, "claim", "claim_result")
    BY <2>1, <2>2, ReadSubmissionKeeps
  <2>3. CASE ReadResult(r, "claim_result", "claim_commit", Done(r))
    BY <2>1, <2>3, ReadResultKeeps
  <2>4. CASE ClaimCommit(r)
    BY <2>4, ClaimCommitKeeps
  <2>5. CASE ClaimFails(r)
    BY <2>5, ClaimFailsKeeps
  <2>6. CASE RunJob(r)
    BY <2>6, RunJobKeeps
  <2> QED
    BY <1>1, <2>2, <2>3, <2>4, <2>5, <2>6 DEF Claim
<1>2. ASSUME NEW r \in Requests, CancelPending(r) PROVE IInv'
  <2>1. "cancel_read" \in Pc /\ "cancel_commit" \in Pc /\ "not_pending" \in Answers
    BY DEF Pc, Answers
  <2>2. CASE CancelReadControl(r)
    BY <2>2, CancelReadControlKeeps
  <2>3. CASE CancelReadResult(r)
    BY <2>3, CancelReadResultKeeps
  <2>4. CASE ReadSubmission(r, "cancel", "cancel_read")
    BY <2>1, <2>4, ReadSubmissionKeeps
  <2>5. CASE ReadResult(r, "cancel_read", "cancel_commit", "not_pending")
    BY <2>1, <2>5, ReadResultKeeps
  <2>6. CASE CancelCommit(r)
    BY <2>6, CancelCommitKeeps
  <2>7. CASE CancelFails(r)
    BY <2>7, CancelFailsKeeps
  <2> QED
    BY <1>2, <2>2, <2>3, <2>4, <2>5, <2>6, <2>7 DEF CancelPending
<1>3. ASSUME NEW r \in Requests, Step(r) PROVE IInv'
  BY <1>1, <1>2, <1>3, AcceptCommitKeeps, ReadExistingKeeps, ReadExistingResultKeeps,
     ReconcileKeeps DEF Step
<1>4. ASSUME NEW r \in Requests, NEW k \in Keys, Arrive(r, k) PROVE IInv'
  BY <1>4, PostKeeps, CancelKeeps, PollKeeps DEF Arrive
<1>5. CASE UNCHANGED vars
  BY <1>5 DEF vars, IInv, TypeOK, DocumentsOK, RequestsOK, RunnersOK, Relies, Same, SeenHolds,
     Readable, HasControl, Exists, In, Key
<1> QED
  BY <1>3, <1>4, <1>5, DiesKeeps, LifecycleKeeps DEF Next

THEOREM AcceptanceInvariance == Spec => []IInv
BY InitIInv, Inductive, PTL DEF Spec

------------------------------------------------------------------------------
(* The properties.                                                         *)

\* Documents, counters and requests keep their types (TypeOK), which bounds the
\* attempts of every transaction.
THEOREM TypeCorrect == Spec => []TypeOK
<1>1. IInv => TypeOK
  BY DEF IInv
<1> QED
  BY <1>1, AcceptanceInvariance, PTL

\* Whoever is told "accepted" owns what is stored under its key, for any number
\* of requests that reuse, repeat and race (AcceptedIsBound).
THEOREM AcceptedIsTheTruth == Spec => []AcceptedIsBound
<1>1. IInv => AcceptedIsBound
  <2> SUFFICES ASSUME IInv, NEW r \in Requests, Answered(r, "accepted")
               PROVE  submission[Key(r)] \in
                        [scenario       : {request[r].scenario},
                         token          : {request[r].token},
                         dispatch_state : {"dispatching", "cancelled"}]
    BY DEF AcceptedIsBound
  <2>1. /\ Key(r) \in Keys /\ Readable(Key(r)) /\ Same(request[r])
        /\ submission[Key(r)].dispatch_state # "pending"
    BY DEF IInv, RequestsOK, Relies, Answered, In, Key
  <2>2. submission[Key(r)] \in SubmissionDocument
    BY <2>1 DEF IInv, TypeOK, Readable, HasControl, Exists
  <2> QED
    BY <2>1, <2>2 DEF SubmissionDocument, Same, Readable, DispatchState, Key
<1> QED
  BY <1>1, AcceptanceInvariance, PTL

\* A key costs one execution at most, and none after a client was told that it
\* is cancelled (RunsOnceUnlessCancelled).
THEOREM RunsAtMostOnce == Spec => []RunsOnceUnlessCancelled
<1>1. IInv => RunsOnceUnlessCancelled
  <2> SUFFICES ASSUME IInv, NEW k \in Keys
               PROVE  /\ runs[k] <= 1
                      /\ status[k] = "cancelled"
                           \/ (\E r \in Requests : Answered(r, "cancelled") /\ Key(r) = k)
                         => /\ runs[k] = 0
                            /\ status[k] = "cancelled"
                            /\ \A r \in Requests : In(r, "run_job") => Key(r) # k
    BY DEF RunsOnceUnlessCancelled
  <2>1. runs[k] <= 1
    BY DEF IInv, DocumentsOK
  <2>2. ASSUME NEW r \in Requests, Answered(r, "cancelled"), Key(r) = k
        PROVE  status[k] = "cancelled"
    BY <2>2 DEF IInv, RequestsOK, Relies, Answered, In, Key
  <2>3. ASSUME status[k] = "cancelled" PROVE runs[k] = 0
    <3>1. Exists(k)
      BY <2>3 DEF IInv, DocumentsOK
    <3>2. submission[k] \in SubmissionDocument
      BY <3>1 DEF IInv, TypeOK, Exists
    <3> QED
      BY <2>3, <3>1, <3>2 DEF IInv, DocumentsOK, SubmissionDocument, DispatchState
  <2>4. ASSUME status[k] = "cancelled", NEW r \in Requests, In(r, "run_job"), Key(r) = k
        PROVE  FALSE
    <3>1. Readable(k) /\ submission[k].dispatch_state = "dispatching"
      BY <2>4 DEF IInv, RequestsOK, Relies, RunnersOK, In, Key
    <3> QED
      BY <2>4, <3>1 DEF IInv, DocumentsOK, Readable, HasControl
  <2> QED
    BY <2>1, <2>2, <2>3, <2>4
<1> QED
  BY <1>1, AcceptanceInvariance, PTL

------------------------------------------------------------------------------
(* What a step does to the documents.                                      *)

NewKey(r) ==
  LET k == Key(r) IN
  /\ k \in Keys /\ ~Exists(k) /\ status[k] = "absent"
  /\ request[r].scenario \in Scenarios \ NoRoom /\ request[r].token \in Tokens
  /\ submission' = [submission EXCEPT ![k] = Fresh(request[r].scenario, request[r].token)]
  /\ status' = [status EXCEPT ![k] = "queued"]
  /\ runs' = runs

Claimed(r) ==
  LET k == Key(r) IN
  /\ k \in Keys /\ Exists(k)
  /\ SetDispatch(k, "dispatching")
  /\ status' = status /\ runs' = runs

Ran(r) ==
  LET k == Key(r) IN
  /\ k \in Keys /\ Exists(k) /\ status[k] # "cancelled" /\ runs[k] = 0
  /\ runs' = [runs EXCEPT ![k] = 1]
  /\ submission' = submission /\ status' = status

Closed(r) ==
  LET k == Key(r) IN
  /\ k \in Keys /\ Exists(k) /\ runs[k] = 0
  /\ In(r, "cancel_commit") /\ request'[r] # request[r]
  /\ request[r].token = submission[k].token
  /\ SetDispatch(k, "cancelled")
  /\ status' = [status EXCEPT ![k] = "cancelled"]
  /\ runs' = runs

MovedOn(k) ==
  /\ submission' = submission /\ runs' = runs
  /\ status[k] = "queued" /\ status' = [status EXCEPT ![k] = "later"]

\* A request changes the documents in one of four ways, if at all.
LEMMA StepEffects ==
  ASSUME IInv, NEW r \in Requests, Step(r)
  PROVE  NewKey(r) \/ Claimed(r) \/ Ran(r) \/ Closed(r) \/ UNCHANGED <<docs, runs>>
<1>1. CASE AcceptCommit(r)
  <2>1. CASE Creates(r) /\ Create(r)
    <3>1. /\ Key(r) \in Keys /\ request[r].scenario \in Scenarios \ NoRoom
          /\ request[r].token \in Tokens
      BY <1>1 DEF AcceptCommit, In, IInv, RequestsOK, Relies, Key
    <3> QED
      BY <1>1, <2>1, <3>1 DEF NewKey, AcceptCommit, Creates, Create
  <2>2. CASE UNCHANGED docs
    BY <1>1, <2>2 DEF AcceptCommit
  <2> QED
    BY <1>1, <2>1, <2>2 DEF AcceptCommit
<1>2. CASE ClaimCommit(r)
  <2>1. Key(r) \in Keys /\ Exists(Key(r))
    BY <1>2 DEF ClaimCommit, In, IInv, RequestsOK, Relies, Key, Readable, HasControl
  <2> QED
    BY <1>2, <2>1 DEF Claimed, ClaimCommit, Aborted
<1>3. CASE RunJob(r)
  <2>1. Key(r) \in Keys /\ Exists(Key(r))
    BY <1>3 DEF RunJob, In, IInv, RequestsOK, Relies, Key, Readable, HasControl
  <2>2. submission[Key(r)].dispatch_state = "dispatching" /\ runs[Key(r)] = 0
    BY <1>3 DEF RunJob, IInv, RunnersOK
  <2>3. status[Key(r)] # "cancelled"
    BY <2>1, <2>2 DEF IInv, DocumentsOK
  <2>4. runs' = [runs EXCEPT ![Key(r)] = 1]
    BY <1>3, <2>1, <2>2 DEF RunJob, IInv, TypeOK
  <2> QED
    BY <1>3, <2>1, <2>2, <2>3, <2>4 DEF RunJob, Ran, docs
<1>4. CASE CancelCommit(r)
  <2>1. CASE Aborted(r, "cancel", "error")
    BY <1>4, <2>1 DEF CancelCommit, Aborted
  <2>2. CASE /\ UnchangedSinceRead(r)
             /\ SetDispatch(Key(r), "cancelled")
             /\ status' = [status EXCEPT ![Key(r)] = "cancelled"]
             /\ Answer(r, "cancelled") \/ Answer(r, "error")
    <3>1. /\ Key(r) \in Keys /\ Readable(Key(r)) /\ Exists(Key(r))
          /\ request[r].seen = "pending"
          /\ submission[Key(r)].token = request[r].token
      BY <1>4 DEF CancelCommit, In, IInv, RequestsOK, Relies, Key, Readable, HasControl
    <3>2. runs[Key(r)] = 0
      BY <2>2, <3>1 DEF UnchangedSinceRead, IInv, DocumentsOK
    <3>3. request'[r].pc = "answered"
      <4>1. \A q \in Request, a \in Answers :
              [Idle EXCEPT !.pc = "answered", !.answer = a, !.key = q.key,
                           !.scenario = q.scenario, !.token = q.token].pc = "answered"
        BY DEF Idle
      <4>2. request[r] \in Request /\ "cancelled" \in Answers /\ "error" \in Answers
        BY DEF IInv, TypeOK, Answers
      <4>3. PICK a \in Answers : Answer(r, a)
        BY <2>2, <4>2
      <4>4. request'[r] = [Idle EXCEPT !.pc = "answered", !.answer = a, !.key = request[r].key,
                                       !.scenario = request[r].scenario, !.token = request[r].token]
        BY <4>3 DEF Answer, IInv, TypeOK
      <4> QED
        BY <4>1, <4>2, <4>4
    <3>4. request[r].pc = "cancel_commit"
      BY <1>4 DEF CancelCommit, In
    <3>5. runs' = runs
      BY <1>4 DEF CancelCommit
    <3> QED
      BY <2>2, <3>1, <3>2, <3>3, <3>4, <3>5 DEF Closed, In
  <2> QED
    BY <1>4, <2>1, <2>2 DEF CancelCommit
<1>5. CASE \/ ReadExisting(r) \/ ReadExistingResult(r) \/ Reconcile(r)
           \/ ClaimFails(r) \/ CancelReadControl(r) \/ CancelReadResult(r) \/ CancelFails(r)
  BY <1>5 DEF ReadExisting, ReadExistingResult, Reconcile, ClaimFails, CancelReadControl,
     CancelReadResult, CancelFails
<1>6. CASE \/ ReadSubmission(r, "claim", "claim_result")
           \/ ReadResult(r, "claim_result", "claim_commit", Done(r))
           \/ ReadSubmission(r, "cancel", "cancel_read")
           \/ ReadResult(r, "cancel_read", "cancel_commit", "not_pending")
  BY <1>6 DEF ReadSubmission, ReadResult
<1> QED
  BY <1>1, <1>2, <1>3, <1>4, <1>5, <1>6 DEF Step, Claim, CancelPending

LEMMA NextEffects ==
  ASSUME IInv, [Next]_vars
  PROVE  \/ \E r \in Requests : NewKey(r) \/ Claimed(r) \/ Ran(r) \/ Closed(r)
         \/ \E k \in Keys : MovedOn(k)
         \/ UNCHANGED <<docs, runs>>
<1>1. ASSUME NEW r \in Requests, Step(r) \/ Dies(r)
      PROVE  NewKey(r) \/ Claimed(r) \/ Ran(r) \/ Closed(r) \/ UNCHANGED <<docs, runs>>
  BY <1>1, StepEffects DEF Dies
<1>2. ASSUME NEW r \in Requests, NEW k \in Keys, Arrive(r, k)
      PROVE  UNCHANGED <<docs, runs>>
  BY <1>2 DEF Arrive, Post, Cancel, Poll
<1>3. ASSUME NEW k \in Keys, LifecycleGoesOn(k)
      PROVE  MovedOn(k)
  BY <1>3 DEF LifecycleGoesOn, MovedOn
<1>4. UNCHANGED vars => UNCHANGED <<docs, runs>>
  BY DEF vars, docs
<1> QED
  BY <1>1, <1>2, <1>3, <1>4 DEF Next

\* A dispatch is cancelled by a request that holds the token it was accepted
\* with (OnlyTheTokenCancels).
THEOREM CancelledByItsToken == Spec => OnlyTheTokenCancels
<1> DEFINE P == \A k \in Keys :
                  status[k] # "cancelled" /\ status'[k] = "cancelled" =>
                    \E r \in Requests :
                      /\ In(r, "cancel_commit") /\ request'[r] # request[r]
                      /\ Key(r) = k /\ request[r].token = submission[k].token
<1>1. ASSUME IInv, [Next]_vars PROVE P
  <2> SUFFICES ASSUME NEW k \in Keys, status[k] # "cancelled", status'[k] = "cancelled"
               PROVE  \E r \in Requests :
                        /\ In(r, "cancel_commit") /\ request'[r] # request[r]
                        /\ Key(r) = k /\ request[r].token = submission[k].token
    OBVIOUS
  <2>1. status \in [Keys -> Status]
    BY <1>1 DEF IInv, TypeOK
  <2>2. ASSUME NEW r \in Requests, NewKey(r) PROVE FALSE
    BY <2>1, <2>2 DEF NewKey
  <2>3. ASSUME NEW r \in Requests, Claimed(r) \/ Ran(r) PROVE FALSE
    BY <2>3 DEF Claimed, Ran
  <2>4. ASSUME NEW j \in Keys, MovedOn(j) PROVE FALSE
    BY <2>1, <2>4 DEF MovedOn
  <2>5. ~UNCHANGED <<docs, runs>>
    BY DEF docs
  <2>6. PICK r \in Requests : Closed(r)
    BY <1>1, <2>2, <2>3, <2>4, <2>5, NextEffects
  <2>7. Key(r) = k
    BY <2>1, <2>6 DEF Closed
  <2> QED
    BY <2>6, <2>7 DEF Closed
<1>2. IInv /\ [Next]_vars => [P]_vars
  BY <1>1
<1> QED
  BY <1>2, AcceptanceInvariance, PTL DEF Spec, OnlyTheTokenCancels

------------------------------------------------------------------------------
(* The refinement.                                                         *)

Cancelled == {k \in Keys : status[k] = "cancelled"}

LEMMA BoundUnlessNone ==
  ASSUME TypeOK, NEW k \in Keys, Exists(k)
  PROVE  Bound[k] # None
<1>1. <<submission[k].scenario, submission[k].token>> \in Scenarios \X (Tokens \union {None})
  BY DEF TypeOK, Exists, SubmissionDocument
<1>2. Bound[k] = <<submission[k].scenario, submission[k].token>>
  BY DEF Bound
<1> QED
  BY <1>1, <1>2, DocumentAssumption

\* Another dispatch state does not touch what a key is bound to.
LEMMA ReDispatchKeepsBound ==
  ASSUME submission \in [Keys -> SubmissionDocument \union {None}],
         NEW k \in Keys, Exists(k), NEW state \in DispatchState, SetDispatch(k, state)
  PROVE  Bound' = Bound
<1> DEFINE doc == [submission[k] EXCEPT !.dispatch_state = state]
<1>1. submission[k] \in SubmissionDocument
  BY DEF Exists
<1>2. /\ doc.scenario = submission[k].scenario /\ doc.token = submission[k].token
      /\ doc # None
  <2>1. doc \in SubmissionDocument
    BY <1>1 DEF SubmissionDocument, DispatchState
  <2> QED
    BY <1>1, <2>1, DocumentAssumption DEF SubmissionDocument
<1>3. submission' = [submission EXCEPT ![k] = doc]
  BY DEF SetDispatch
<1> HIDE DEF doc
<1> QED
  BY <1>1, <1>2, <1>3 DEF Bound, Exists

LEMMA PromiseInit == Init => Promise!Init
<1> SUFFICES ASSUME Init PROVE Promise!Init
  OBVIOUS
<1>1. TypeOK
  BY InitIInv DEF IInv
<1>2. Bound \in [Keys -> (Scenarios \X (Tokens \union {None})) \union {None}]
  <2>1. ASSUME NEW k \in Keys, Exists(k)
        PROVE  <<submission[k].scenario, submission[k].token>>
                 \in Scenarios \X (Tokens \union {None})
    BY <1>1, <2>1 DEF TypeOK, Exists, SubmissionDocument
  <2> QED
    BY <2>1 DEF Bound
<1>3. Cancelled = {}
  <2> SUFFICES ASSUME NEW k \in Keys, status[k] = "cancelled" PROVE FALSE
    BY DEF Cancelled
  <2>1. runs[k] = 0 /\ DocumentsOK
    BY InitIInv DEF IInv, Init
  <2>2. PICK old \in [Keys -> Earlier \union {None}] :
          status = [j \in Keys |-> IF old[j] = None THEN "absent" ELSE old[j].status]
    BY DEF Init
  <2>3. old[k] # None => old[k].status \in {"absent", "later"}
    BY DEF Earlier
  <2> QED
    BY <2>2, <2>3
<1> QED
  BY <1>2, <1>3 DEF Promise!Init, Init, Cancelled

LEMMA PromiseStep ==
  ASSUME IInv, [Next]_vars
  PROVE  [Promise!Next]_(Promise!promised)
<1>1. /\ submission \in [Keys -> SubmissionDocument \union {None}]
      /\ status \in [Keys -> Status]
  BY DEF IInv, TypeOK
<1>2. ASSUME NEW r \in Requests, NewKey(r)
      PROVE  Promise!Next
  <2> DEFINE k == Key(r)
             s == request[r].scenario
             t == request[r].token
  <2>1. /\ k \in Keys /\ s \in Scenarios /\ s \notin NoRoom /\ t \in Tokens
        /\ submission' = [submission EXCEPT ![k] = Fresh(s, t)] /\ runs' = runs
        /\ submission[k] = None /\ status[k] = "absent"
        /\ status' = [status EXCEPT ![k] = "queued"]
    BY <1>2 DEF NewKey, Exists
  <2>2. Fresh(s, t).scenario = s /\ Fresh(s, t).token = t /\ Fresh(s, t) # None
    <3>1. Fresh(s, t) \in SubmissionDocument
      BY <2>1 DEF Fresh, SubmissionDocument, DispatchState
    <3> QED
      BY <3>1, DocumentAssumption DEF Fresh
  <2> HIDE DEF k, s, t
  <2>3. Bound[k] = None
    BY <2>1 DEF Bound, Exists
  <2>4. Bound' = [Bound EXCEPT ![k] = <<s, t>>]
    BY <1>1, <2>1, <2>2 DEF Bound, Exists
  <2>5. Cancelled' = Cancelled
    BY <1>1, <2>1 DEF Cancelled
  <2>6. Promise!Bind(k, s, t)
    BY <2>1, <2>3, <2>4, <2>5 DEF Promise!Bind, Cancelled
  <2> QED
    BY <2>1, <2>6 DEF Promise!Next
<1>3. ASSUME NEW r \in Requests, Ran(r)
      PROVE  Promise!Next
  <2>1. Bound[Key(r)] # None
    BY <1>3, BoundUnlessNone DEF IInv, Ran
  <2>2. Bound' = Bound /\ Cancelled' = Cancelled /\ Key(r) \notin Cancelled
    BY <1>3 DEF Ran, Bound, Exists, Cancelled
  <2>3. Promise!Run(Key(r))
    BY <1>3, <2>1, <2>2 DEF Promise!Run, Ran, Cancelled
  <2> QED
    BY <1>3, <2>3 DEF Promise!Next, Ran
<1>4. ASSUME NEW r \in Requests, Closed(r)
      PROVE  Promise!Next
  <2>1. PICK k \in Keys : k = Key(r) /\ Exists(k) /\ runs[k] = 0 /\ runs' = runs
    BY <1>4 DEF Closed
  <2>2. Bound[k] # None
    BY <2>1, BoundUnlessNone DEF IInv
  <2>3. Bound' = Bound
    BY <1>4, <1>1, ReDispatchKeepsBound DEF Closed, DispatchState
  <2>4. Cancelled' = Cancelled \union {k}
    BY <1>4, <1>1, <2>1 DEF Closed, Cancelled
  <2>5. Promise!Cancel(k)
    BY <2>1, <2>2, <2>3, <2>4 DEF Promise!Cancel, Cancelled
  <2> QED
    BY <2>5 DEF Promise!Next
<1>5. ASSUME NEW r \in Requests, Claimed(r)
      PROVE  UNCHANGED Promise!promised
  <2>1. Bound' = Bound
    BY <1>5, <1>1, ReDispatchKeepsBound DEF Claimed, DispatchState
  <2> QED
    BY <1>5, <2>1 DEF Promise!promised, Claimed
<1>6. ASSUME NEW k \in Keys, MovedOn(k)
      PROVE  UNCHANGED Promise!promised
  <2>1. Bound' = Bound
    BY <1>6 DEF MovedOn, Bound, Exists
  <2>2. Cancelled' = Cancelled
    BY <1>6, <1>1 DEF MovedOn, Cancelled
  <2> QED
    BY <1>6, <2>1, <2>2 DEF Promise!promised, MovedOn, Cancelled
<1>7. UNCHANGED <<docs, runs>> => UNCHANGED Promise!promised
  BY DEF docs, Promise!promised, Bound, Exists
<1> QED
  BY <1>2, <1>3, <1>4, <1>5, <1>6, <1>7, NextEffects

\* Whatever requests, aborts and losses there are, the documents do what the
\* promise says: a key is bound once, runs once, and not after its cancellation
\* (KeepsPromise).
THEOREM PromiseIsKept == Spec => KeepsPromise
BY PromiseInit, PromiseStep, AcceptanceInvariance, PTL DEF Spec, KeepsPromise, Promise!Spec
==============================================================================
