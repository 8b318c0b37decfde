-------------------------- MODULE SubmissionAcceptance --------------------------
(***************************************************************************)
(* POST /submissions with its two recovery headers, at the grain of single *)
(* reads and commits: requests that repeat or reuse an Idempotency-Key     *)
(* meet one another, the polls that resume a pending dispatch and the      *)
(* cancellations of one, while requests die, responses are lost and        *)
(* transactions are aborted and tried again.                               *)
(*                                                                         *)
(* TrainingLifecycle takes a transaction for one step.  Here it is what    *)
(* _retry_aborted runs: reads, a check, and a commit that Firestore aborts *)
(* if a document it read has changed since, up to TransactionAttempts      *)
(* times.                                                                  *)
(*                                                                         *)
(* The id of a submission is a digest of its key and the stored hash is a  *)
(* digest of the token, so a key and a token stand for themselves.         *)
(***************************************************************************)
EXTENDS Naturals

CONSTANTS
  Requests,             \* slots for requests; one is used again once it has been answered
  Keys,                 \* values of Idempotency-Key
  Scenarios,            \* normalised scenarios
  Tokens,               \* cancellation capabilities
  NoRoom,               \* the scenarios without room for a random start
  TransactionAttempts,  \* TRANSACTION_ATTEMPTS
  Faults,               \* what may go wrong
  None                  \* no value

FaultKinds == {"request", "firestore", "contention", "lost_commit"}

ASSUME AttemptsAssumption == TransactionAttempts \in Nat \ {0}
ASSUME ScenariosAssumption == NoRoom \subseteq Scenarios
ASSUME NoneAssumption == None \notin Scenarios \union Tokens \union Keys
ASSUME FaultsAssumption == Faults \subseteq FaultKinds

VARIABLES
  submission,  \* submissions/{id}, by key
  status,      \* the status of results/{id}, by key
  runs,        \* how often run_job was called, by key
  request      \* the requests

docs == <<submission, status>>
vars == <<submission, status, runs, request>>

------------------------------------------------------------------------------
(* The documents.  One that an earlier contract left may lack its control  *)
(* object, hold a dispatch state this one does not know, or have no result *)
(* beside it.                                                              *)

DispatchState == {"pending", "dispatching", "cancelled"}

SubmissionDocument ==
  [scenario       : Scenarios,
   token          : Tokens \union {None},  \* None: there is no control object
   dispatch_state : DispatchState \union {"unknown"}]

ASSUME DocumentAssumption ==
  None \notin SubmissionDocument \union Scenarios \X (Tokens \union {None})

\* Whatever the rest of the lifecycle makes of a dispatched submission is
\* "later" here.
Status == {"absent", "queued", "later", "cancelled"}

Fresh(scenario, token) ==
  [scenario |-> scenario, token |-> token, dispatch_state |-> "pending"]

Earlier ==
  {[doc |-> d, status |-> s] :
     d \in {d \in SubmissionDocument : d.dispatch_state = "unknown"},
     s \in {"absent", "later"}}

Exists(k) == submission[k] # None
HasControl(k) == Exists(k) /\ submission[k].token # None
Readable(k) == HasControl(k) /\ submission[k].dispatch_state \in DispatchState

------------------------------------------------------------------------------
(* Requests.                                                               *)

Answers ==
  {"accepted", "no_room", "conflict", "unrecoverable", "unavailable",
   "forbidden", "not_pending", "cancelled", "polled", "error"}

Pc ==
  {"idle", "commit", "read_existing", "read_result",
   "claim", "claim_result", "claim_commit", "run_job",
   "cancel_control", "cancel_result",
   "cancel", "cancel_read", "cancel_commit", "reconcile", "answered"}

Request ==
  [pc       : Pc,
   key      : Keys \union {None},
   scenario : Scenarios \union {None},
   token    : Tokens \union {None},
   seen     : DispatchState \union {"unknown", "none"},  \* what a transaction or a check read
   status   : Status,
   tries    : 0 .. TransactionAttempts,
   answer   : Answers \union {"none"}]

Idle ==
  [pc |-> "idle", key |-> None, scenario |-> None, token |-> None,
   seen |-> "none", status |-> "absent", tries |-> 0, answer |-> "none"]

Init ==
  /\ \E old \in [Keys -> Earlier \union {None}] :
       /\ submission = [k \in Keys |-> IF old[k] = None THEN None ELSE old[k].doc]
       /\ status = [k \in Keys |-> IF old[k] = None THEN "absent" ELSE old[k].status]
  /\ runs = [k \in Keys |-> 0]
  /\ request = [r \in Requests |-> Idle]

In(r, pc) == request[r].pc = pc
Key(r) == request[r].key
Goto(r, pc) == request' = [request EXCEPT ![r].pc = pc]

\* An answered request remembers what it asked and was told.
Answer(r, answer) ==
  request' = [request EXCEPT
    ![r] = [Idle EXCEPT !.pc = "answered", !.answer = answer, !.key = request[r].key,
                        !.scenario = request[r].scenario, !.token = request[r].token]]

\* Firestore fails before anything was changed, or after it was.
ReadFails == "firestore" \in Faults
CommitIsLost == "lost_commit" \in Faults

------------------------------------------------------------------------------
(* A transaction reads the submission, then the result, and decides.       *)

Begin(r, pc) ==
  request' = [request EXCEPT ![r].pc = pc, ![r].tries = TransactionAttempts]

ReadSubmission(r, from, to) ==
  /\ In(r, from)
  /\ request' = [request EXCEPT ![r].pc = to,
                                ![r].seen = submission[Key(r)].dispatch_state]
  /\ UNCHANGED <<docs, runs>>

\* What _transition_pending_dispatch and cancel_pending_dispatch both ask.
Pending(r, result) == request[r].seen = "pending" /\ result = "queued"

ReadResult(r, from, to, refused) ==
  /\ In(r, from)
  /\ \/ /\ Pending(r, status[Key(r)])
        /\ request' = [request EXCEPT ![r].pc = to, ![r].status = status[Key(r)]]
     \/ ~Pending(r, status[Key(r)]) /\ Answer(r, refused)
  /\ UNCHANGED <<docs, runs>>

\* Mutant: only the submission is compared with what was read.
MutUnchangedSinceRead(r) == status[Key(r)] = request[r].status

UnchangedSinceRead(r) ==
  /\ submission[Key(r)].dispatch_state = request[r].seen
  /\ status[Key(r)] = request[r].status

\* Mutant: one attempt too many.
MutAborted(r, again, failed) ==
  /\ ~UnchangedSinceRead(r) \/ "contention" \in Faults
  /\ UNCHANGED docs
  /\ IF request[r].tries >= 0
       THEN request' = [request EXCEPT ![r].pc = again, ![r].tries = @ - 1]
       ELSE Answer(r, failed)

\* A transaction is aborted because of what it read, or of others that want
\* the same documents.  It is begun again while attempts are left, then the
\* exception reaches the handler.
Aborted(r, again, failed) ==
  /\ ~UnchangedSinceRead(r) \/ "contention" \in Faults
  /\ UNCHANGED docs
  /\ IF request[r].tries > 1
       THEN request' = [request EXCEPT ![r].pc = again, ![r].tries = @ - 1]
       ELSE Answer(r, failed)

------------------------------------------------------------------------------
(* POST /submissions.                                                      *)

\* A scenario without room for its random start is refused before anything
\* is stored.
Post(r, k, scenario, token) ==
  LET asked == [Idle EXCEPT !.key = k, !.scenario = scenario, !.token = token]
  IN /\ request[r].pc \in {"idle", "answered"}
     /\ request' = [request EXCEPT ![r] =
          IF scenario \in NoRoom
            THEN [asked EXCEPT !.pc = "answered", !.answer = "no_room"]
            ELSE [asked EXCEPT !.pc = "commit"]]
     /\ UNCHANGED <<docs, runs>>

\* Mutant: documents that are there are written again.
MutCreates(r) == TRUE

\* batch.create of both documents fails if either of them exists.
Creates(r) == ~Exists(Key(r)) /\ status[Key(r)] = "absent"

Create(r) ==
  /\ submission' = [submission EXCEPT
       ![Key(r)] = Fresh(request[r].scenario, request[r].token)]
  /\ status' = [status EXCEPT ![Key(r)] = "queued"]

AcceptCommit(r) ==
  /\ In(r, "commit")
  /\ \/ Creates(r) /\ Create(r) /\ Begin(r, "claim")
     \/ ~Creates(r) /\ UNCHANGED docs /\ Goto(r, "read_existing")
     \/ CommitIsLost /\ Creates(r) /\ Create(r) /\ Answer(r, "error")
     \/ ReadFails /\ UNCHANGED docs /\ Answer(r, "error")
  /\ UNCHANGED runs

\* Mutant: the token is not compared.
MutSameRequest(r) == submission[Key(r)].scenario = request[r].scenario

SameRequest(r) ==
  /\ submission[Key(r)].scenario = request[r].scenario
  /\ submission[Key(r)].token = request[r].token

\* The document that was found is checked in the order of the code: has it a
\* control, is it this request's, is its dispatch state known.
ReadExisting(r) ==
  LET doc == submission[Key(r)] IN
  /\ In(r, "read_existing")
  /\ \/ doc.token = None /\ Answer(r, "unrecoverable")
     \/ doc.token # None /\ ~SameRequest(r) /\ Answer(r, "conflict")
     \/ /\ SameRequest(r)
        /\ request' = [request EXCEPT ![r].pc = "read_result",
                                      ![r].seen = doc.dispatch_state]
     \/ ReadFails /\ Answer(r, "error")
  /\ UNCHANGED <<docs, runs>>

ReadExistingResult(r) ==
  /\ In(r, "read_result")
  /\ \/ /\ request[r].seen \in DispatchState /\ status[Key(r)] # "absent"
        /\ Begin(r, "claim")
     \/ /\ request[r].seen \notin DispatchState \/ status[Key(r)] = "absent"
        /\ Answer(r, "unrecoverable")
     \/ ReadFails /\ Answer(r, "error")
  /\ UNCHANGED <<docs, runs>>

------------------------------------------------------------------------------
(* SubmissionWorkflow.dispatch, for a POST and for the poll of a result.   *)

Done(r) == IF request[r].token = None THEN "polled" ELSE "accepted"

ClaimFails(r) ==
  /\ ReadFails
  /\ request[r].pc \in {"claim", "claim_result", "claim_commit"}
  /\ Answer(r, "unavailable")
  /\ UNCHANGED <<docs, runs>>

SetDispatch(k, state) == submission' = [submission EXCEPT ![k].dispatch_state = state]

ClaimCommit(r) ==
  /\ In(r, "claim_commit")
  /\ \/ /\ UnchangedSinceRead(r)
        /\ SetDispatch(Key(r), "dispatching")
        /\ UNCHANGED status
        /\ \/ Goto(r, "run_job")
           \/ CommitIsLost /\ Answer(r, "unavailable")
     \/ Aborted(r, "claim", "unavailable")
  /\ UNCHANGED runs

\* What run_job returns is the subject of TrainingLifecycle: whatever it is,
\* the client gets the same answer.
RunJob(r) ==
  /\ In(r, "run_job")
  /\ runs' = [runs EXCEPT ![Key(r)] = @ + 1]
  /\ Answer(r, Done(r))
  /\ UNCHANGED docs

\* GET /results/{id} resumes a dispatch that nobody claimed.
Poll(r, k) ==
  /\ request[r].pc \in {"idle", "answered"}
  /\ status[k] = "queued"
  /\ request' = [request EXCEPT ![r] = [Idle EXCEPT !.pc = "reconcile", !.key = k]]
  /\ UNCHANGED <<docs, runs>>

Reconcile(r) ==
  /\ In(r, "reconcile")
  /\ \/ submission[Key(r)].dispatch_state = "pending" /\ Begin(r, "claim")
     \/ submission[Key(r)].dispatch_state # "pending" /\ Answer(r, "polled")
     \/ ReadFails /\ Answer(r, "error")
  /\ UNCHANGED <<docs, runs>>

------------------------------------------------------------------------------
(* POST /submissions/{id}/cancel of a dispatch nobody claimed; the one of  *)
(* a running execution is the subject of TrainingLifecycle.                *)

Cancel(r, k, token) ==
  /\ request[r].pc \in {"idle", "answered"}
  /\ request' = [request EXCEPT ![r] =
       [Idle EXCEPT !.pc = "cancel_control", !.key = k, !.token = token]]
  /\ UNCHANGED <<docs, runs>>

\* Mutant: any token of the right form is taken.
MutAuthorised(r) == Readable(Key(r))

Authorised(r) == Readable(Key(r)) /\ submission[Key(r)].token = request[r].token

CancelReadControl(r) ==
  /\ In(r, "cancel_control")
  /\ \/ /\ Authorised(r)
        /\ request' = [request EXCEPT ![r].pc = "cancel_result",
                                      ![r].seen = submission[Key(r)].dispatch_state]
     \/ /\ ~Authorised(r)
        /\ Answer(r, IF HasControl(Key(r)) /\ ~Readable(Key(r)) THEN "error" ELSE "forbidden")
     \/ ReadFails /\ Answer(r, "error")
  /\ UNCHANGED <<docs, runs>>

CancelReadResult(r) ==
  /\ In(r, "cancel_result")
  /\ \/ status[Key(r)] = "cancelled" /\ Answer(r, "cancelled")
     \/ Pending(r, status[Key(r)]) /\ Begin(r, "cancel")
     \/ /\ status[Key(r)] # "cancelled" /\ ~Pending(r, status[Key(r)])
        /\ Answer(r, "not_pending")
     \/ ReadFails /\ Answer(r, "error")
  /\ UNCHANGED <<docs, runs>>

CancelFails(r) ==
  /\ ReadFails
  /\ request[r].pc \in {"cancel", "cancel_read", "cancel_commit"}
  /\ Answer(r, "error")
  /\ UNCHANGED <<docs, runs>>

\* Both documents change in one commit.
CancelCommit(r) ==
  /\ In(r, "cancel_commit")
  /\ \/ /\ UnchangedSinceRead(r)
        /\ SetDispatch(Key(r), "cancelled")
        /\ status' = [status EXCEPT ![Key(r)] = "cancelled"]
        /\ Answer(r, "cancelled") \/ (CommitIsLost /\ Answer(r, "error"))
     \/ Aborted(r, "cancel", "error")
  /\ UNCHANGED runs

------------------------------------------------------------------------------

\* The rest of the lifecycle moves the result of a dispatched submission on.
LifecycleGoesOn(k) ==
  /\ Exists(k) /\ submission[k].dispatch_state = "dispatching"
  /\ status[k] = "queued"
  /\ status' = [status EXCEPT ![k] = "later"]
  /\ UNCHANGED <<submission, runs, request>>

Dies(r) ==
  /\ "request" \in Faults
  /\ request[r].pc \notin {"idle", "answered"}
  /\ request' = [request EXCEPT ![r] = Idle]
  /\ UNCHANGED <<docs, runs>>

Claim(r) ==
  \/ ReadSubmission(r, "claim", "claim_result")
  \/ ReadResult(r, "claim_result", "claim_commit", Done(r))
  \/ ClaimCommit(r)
  \/ ClaimFails(r)
  \/ RunJob(r)

CancelPending(r) ==
  \/ CancelReadControl(r)
  \/ CancelReadResult(r)
  \/ ReadSubmission(r, "cancel", "cancel_read")
  \/ ReadResult(r, "cancel_read", "cancel_commit", "not_pending")
  \/ CancelCommit(r)
  \/ CancelFails(r)

Step(r) ==
  \/ AcceptCommit(r) \/ ReadExisting(r) \/ ReadExistingResult(r)
  \/ Reconcile(r) \/ Claim(r) \/ CancelPending(r)

Arrive(r, k) ==
  \/ \E s \in Scenarios, t \in Tokens : Post(r, k, s, t)
  \/ \E t \in Tokens : Cancel(r, k, t)
  \/ Poll(r, k)

Next ==
  \/ \E r \in Requests : Step(r) \/ Dies(r)
  \/ \E r \in Requests, k \in Keys : Arrive(r, k)
  \/ \E k \in Keys : LifecycleGoesOn(k)

Spec == Init /\ [][Next]_vars

------------------------------------------------------------------------------

TypeOK ==
  /\ submission \in [Keys -> SubmissionDocument \union {None}]
  /\ status \in [Keys -> Status]
  /\ runs \in [Keys -> Nat]
  /\ request \in [Requests -> Request]

Answered(r, answer) == In(r, "answered") /\ request[r].answer = answer

\* "accepted" is the truth and stays it: what is stored under the key is the
\* scenario and the token this client sent, also when it lost an earlier answer
\* or raced with another client, and the dispatch no longer waits for anybody.
AcceptedIsBound ==
  \A r \in Requests : Answered(r, "accepted") =>
    submission[Key(r)] \in [scenario       : {request[r].scenario},
                             token          : {request[r].token},
                             dispatch_state : {"dispatching", "cancelled"}]

\* However requests repeat, overlap, abort and die, a key costs one execution
\* at most, and none once a client was told that it is cancelled.
RunsOnceUnlessCancelled ==
  \A k \in Keys :
    /\ runs[k] <= 1
    /\ status[k] = "cancelled" \/ (\E r \in Requests : Answered(r, "cancelled") /\ Key(r) = k)
         => /\ runs[k] = 0
            /\ status[k] = "cancelled"
            /\ \A r \in Requests : In(r, "run_job") => Key(r) # k

\* A dispatch is cancelled by a request with the token it was accepted with.
OnlyTheTokenCancels ==
  [][\A k \in Keys :
       status[k] # "cancelled" /\ status'[k] = "cancelled" =>
         \E r \in Requests :
           /\ In(r, "cancel_commit") /\ request'[r] # request[r]
           /\ Key(r) = k /\ request[r].token = submission[k].token]_vars

------------------------------------------------------------------------------
(* What the two headers promise a client.                                  *)

Bound ==
  [k \in Keys |-> IF Exists(k) THEN <<submission[k].scenario, submission[k].token>>
                   ELSE None]

Promise == INSTANCE IdempotentSubmission WITH
  bound <- Bound, runs <- runs, cancelled <- {k \in Keys : status[k] = "cancelled"}

\* Every commit of a request is one that the promise allows.
KeepsPromise == Promise!Spec
==============================================================================
