# A TLA+ verification of EmbodiedLab

EmbodiedLab trains a navigation policy in the cloud. A client posts a scenario; an API server
stores it in Firestore and starts one Cloud Run execution; the trainer in its container trains,
uploads the model and a replay bundle to Cloud Storage and writes the result; a notification
service relays result events to WebSocket clients. This directory holds TLA+ models of the parts
of that system that keep state or race with one another, the TLC runs that check them, and
machine-checked proofs of what they promise.

All paths below are relative to the repository.

## 1. Inventory

| Component | State | Operations | Talks to |
| --- | --- | --- | --- |
| API server: dispatch (`server/services/submission_workflow.py`, `jobs.py`) | none of its own; each request is a sequence of reads, transactions and RPCs | `submit`, `dispatch`, `reconcile`, `_persist_execution_name`, `_mark_ambiguous`, `_record_failure` | Firestore, Cloud Run |
| API server: cancellation (`server/services/cancellations.py`) | none; a lease in `control` | `cancel_training_for_submission` and its helpers | Firestore, Cloud Run, Pub/Sub |
| API server: execution reconciliation (`execution_reconciliation.py`) | none | `reconcile_result_with_execution` | Cloud Run, Firestore |
| Firestore documents (`server/repositories.py`, `trainer/repositories.py`) | `submissions/{id}.control` (dispatch state, execution name, cancellation state and lease), `results/{id}` (status, progress, error, bundle) | one transaction per repository method | — |
| Trainer (`trainer/job.py`, `transitions.py`, `training_service.py`) | the local state of the process; attempts of the task | register, STARTING, RUNNING, progress, COMPLETED, FAILED | Firestore, Pub/Sub, Cloud Storage |
| Cloud Run Jobs (external) | executions: none, running, succeeded, failed, cancelled | `run_job`, `cancel_execution`, task retries | — |
| Replay recording (`embodiedlab/training/replay_bundle.py`, `TrainingProgressReporter` in `runner.py`) | the open chunk, manifest entries, per-environment episode counters, next evaluation | `record_train_step`, `write_eval_checkpoint`, `finish` | Stable-Baselines3 callbacks |
| Artifact upload and validation (`trainer/artifacts.py`, `embodiedlab/result_models.py`) | objects under `results/{id}/` | preflight, create-only upload, recovery | Cloud Storage |
| Notification service (`notification/main.py`, `registry.py`) | `ConnectionRegistry` | `ws_results`, `pubsub_push`, `broadcast` | Pub/Sub, Firestore, clients |
| Contracts (`embodiedlab/schemas.py`, `result_models.py`) | — | validation of single documents | all |
| Scenario validation, conversion and random start (`schemas.py`, `training_converter.py`, `random_start.py`) | — | validators, `convert_scenario_to_spec`, `build_random_start_area` | server and trainer |
| Navigation environment and evaluation (`continuous_navigation_env.py`, `evaluate_continuous_policy` in `runner.py`) | position, heading, steps; rows and successes | `reset`, `step` | trainer |
| Exported policy | — | numerics | trainer |

What is hard here:

* **Interleaving.** Any number of HTTP requests, the trainer and Cloud Run act on the same two
  documents. A request reads `control`, then `result`, then decides, then opens a transaction,
  then calls Cloud Run: each is a separate step, and everything it read may be stale.
* **Lost answers.** `run_job` and `cancel_execution` may take effect although the caller saw an
  error or died. Nothing may be started twice; nothing may be reported stopped that still runs.
* **Crashes and retries.** A request or a container can die between any two steps. Cloud Run
  retries a failed task in a new container, which meets its predecessor's documents and objects.
* **Timeouts.** The dispatch confirmation timeout (5 min) and the cancellation lease (2 min) race
  with late answers.
* **Repeated requests.** `Idempotency-Key` and the cancellation token let a client repeat a
  request whose answer it lost; the repetition meets whatever the first one and others have made
  of the documents, and transactions that abort and are tried again.
* **Boundaries.** Rollouts, evaluation intervals, chunk sizes and environments need not divide
  one another.
* **Two formulas for one thing.** Random starts and collisions, the server's validators and the
  trainer's conversion, the evaluation's rows and the chunk's limit are each decided twice.
* **Fan-out.** Registration, snapshot and broadcast interleave at every `await`; Pub/Sub pushes
  again what is not acknowledged in time.

What makes each component correct: one execution at most per submission; control and result that
tell the same story; a cancelled result whose execution is over; a lease that a stale owner cannot
touch; terminal results that never change; progress that does not roll back; every accepted
submission ending while it is polled; a replay bundle that its own validation accepts; objects
that never change and a manifest that is complete; a key that is bound once and runs once; an
accepted scenario that can be trained; a robot that starts and stays where it may be; a registry that follows its handlers, and no
event lost between snapshot and broadcast. `PROJECT.json` lists the hazards by line with the
properties that cover them.

## 2. Modules

### The lifecycle of a submission

| Module | Models |
| --- | --- |
| `CloudRun` | executions (external), the RPCs on them, what may fail (`Faults`) and when failing ends (`stable`) |
| `SubmissionStore` | the `control` and `result` documents, one operator per repository transaction |
| `Trainer` | `run_training_job` in the container of each execution, as a program counter |
| `ApiServer` | submitting, polling and cancelling requests, each a program counter with what it remembers |
| `TrainingLifecycle` | all of them together; the properties; fairness |
| `ResultLifecycle` | the abstract specification: what a client is promised of one submission |
| `MCTrainingLifecycle` | symmetry for TLC |

One submission is modelled: requests for different submissions share no document. `control` and
`result` are records with the fields the code consults; a time stamp is a `Timer` that is running
or has elapsed, since the code only ever compares it with one timeout. `current_step` counts
progress reports up to `TotalSteps`.

Each step of a request is what it does up to the next point where somebody else can act: a read,
a transaction, the sending of an RPC, its return. `Submit` creates both documents in one batch
(`accept`) and continues with `DispatchClaim`; `RunJob` sends the call, `AcceptRunJob` (Cloud Run)
creates the execution, `RunJobReturns` sees the answer, a rejection or no answer. A poller is
`GetResult`, `ReconcileDispatch`, `Refetch`, `ReadControl`, `ReadOutcome`, `ApplyOutcome`. A
canceller is `CancelReadControl`, `CancelReadResult`, then `CancelPending`, or `CancellationClaim`,
`RequestCancellation`, `CancelRpcReturns`, `MarkRequested`, `OperationReturns`,
`RecordCancelling`, `RecordCancelled`. `RequestDies` ends any of them anywhere. The trainer's
steps carry the names of what they write. The fault kinds are named in `FaultKinds`; each run
allows those its question needs.

Reads that decide nothing until the next transaction are merged with it: `now` with the claim it
is passed to, and the fetch of `_record_pending_cancellation` with the transaction after it. A
commit that is applied although the client library raised is covered by the failing publication
and the dying request that follow the commit.

`TrainingLifecycle` takes each transaction for one step; the next module looks into them.

### Acceptance, claim and cancellation of a dispatch

`SubmissionAcceptance` models `POST /submissions` with its two headers at the grain of single reads
and commits, over several requests, keys, scenarios and tokens. A request slot is used for one
request after another. `Post` is the check for room (`submit`); `AcceptCommit` the batch that
creates both documents; `ReadExisting` and `ReadExistingResult` what `accept` does after
`AlreadyExists`, check by check; `ReadSubmission`, `ReadResult` and `ClaimCommit` or `CancelCommit`
the body of a transaction, and `Aborted` the next attempt of `_retry_aborted`. `Poll` and
`Reconcile` are the `GET` that resumes a dispatch, `Cancel`, `CancelReadControl` and
`CancelReadResult` the route of the cancellation up to its transaction. What `run_job` returns
and everything after it is `TrainingLifecycle`'s: here a call is counted in `runs`, and
`LifecycleGoesOn` moves the result on. A store may hold documents of an earlier contract (`Earlier`):
without control, with an unknown dispatch state or without a result. Firestore may fail before a
commit, lose its response after it, or abort it; it commits a transaction only if the documents
it read are unchanged (`UnchangedSinceRead`, external).

`IdempotentSubmission` is what the headers promise: a key is bound once, to a scenario and a token,
runs at most once and not after it was cancelled. `SubmissionAcceptance!KeepsPromise` is the
refinement.

### Scenarios and their evaluation

`NavigationWorld` holds the two formulas for where a robot may be, as operators: `IsValidRandomStart`,
`HasRandomStartArea`, `SafePositions` and `RandomStarts` from `random_start.py` and
`_sample_random_start`, and `Collides`, `SegmentCollides` from `ContinuousNavigationEnv`. Lengths are
whole units, rotations quarter turns; `hypot` is compared by squares; a probe between whole units
is taken in the `Magnify`-ed world in which it is whole.

`NavigationEpisodes` follows one scenario from the request to the rows of its evaluation:
`Validate` (the validators of `WorldSpec`, `TrainingSpec` and `ScenarioBundle`), `Submit` (the check
for room), `BuildEnvironment` (the trainer's conversion and the constructors), `Reset`, `Step` and
`WriteEvalCheckpoint`. `Step` is `ContinuousNavigationEnv.step` with the row that
`evaluate_continuous_policy` writes for it; its action is any turn and any forward move, so
whatever the policy has learned is covered. The server and the trainer decide separately
(`BundleValid` and `Converts`), as they are separate processes.

### Replay recording

`ReplayRecorder` follows `TrainingProgressReporter` and `ReplayBundleWriter` from the reset to
`finish`, for one choice of `timesteps`, `n_envs`, `n_steps`, `replay_eval_interval_steps` and
`replay_train_chunk_steps` out of `Trainings`. A row is its checkpoint; the file of a chunk is the
sequence of its rows; a manifest entry has the fields the validators look at. Episodes end at any
step, since the environment decides. `MCReplayRecorder` defines the sets of parameters.

### Artifact upload

`ArtifactUpload` models the bucket and the attempts of the trainer's task: the preflight of all
files, `upload_file` with `if_generation_match=0`, the recovery after `PreconditionFailed`, the
manifest last, then the record of the bundle. Contents are compared by digest, so a content is a
version. An attempt may die anywhere; its last request may be carried out later. The chunks may be
uploaded in any order, a superset of the order the manifest gives.

### Notification

`Notification` models the writers' commit and publication, the topic under one ordering key, the
`ws_results` handlers, the overlapping pushes and the registry of one submission. A step lasts
from one `await` to the next: `Connect` (accept, add, the connected message), `SendSnapshot` (the
synchronous fetch and the call of `send_json`), `Leave` (the `finally` clause), `StartPush` (the
list of connections), `SendEvent` (one connection), `FinishPush` (the removal of the dead and the
acknowledgement). `buckets` is the entry of the submission in `_connections`, and is a set of
sets so that an entry that should have been deleted is visible. `Restart` replaces the instance.
There is one instance because the Makefile deploys with `--max-instances 1`.

### Beside the definitions

An operator `MutX` next to `X` is a mutated form of it, as a plausible bug would leave it (a
dropped guard, a missing reset, a swapped order). `PROJECT.json` pairs each with the property it
breaks: with `MutX` in place of `X`, TLC finds a violation of that property in the same run. This
is how the properties are shown not to be vacuous.

## 3. Runs

Each run answers one question on one instance. Except where a system really stops, deadlock is
checked, too.

| Run | Question | Bounds |
| --- | --- | --- |
| `Lifecycle` | does one dispatch give one execution, do control and result agree, do terminal results and progress stay, is `ResultLifecycle` implemented? | 2 executions, 2 attempts of a task, 2 of the persistence, 2 reports; one submitter, one poller, one canceller; requests and containers die, Firestore, `run_job` and publications fail, tracebacks are long; 1 075 000 states |
| `Cancellation` | is a cancelled result stopped, is REQUESTED recorded only after acceptance, is the lease fenced? | 2 executions, 1 submitter, 2 cancellers; requests die, cancellations are lost, late or rejected; 322 000 states |
| `Liveness` | does a polled submission end, and is a stopped execution reported cancelled? | 1 execution, one request of each kind, until the platform is stable they die, and Firestore, `run_job` and the trainer fail; 440 000 states |
| `Acceptance` | is an accepted answer true, does a key run once and never after its cancellation, is `IdempotentSubmission` implemented? | 3 requests, used again, about 1 key; 2 scenarios with room and 1 without, 2 tokens, 2 attempts of a transaction; all faults; 227 000 states up to symmetry |
| `Navigation` | is an accepted scenario trainable, is a random start clear of what collides, do rows, rewards and successes agree? | 46 scenarios: 7 worlds of 4 to 12 units with up to 2 boxes, 7 wrong sets of sensors, 5 wrong rewards, evaluations around the chunk's limit of 8; steps of up to 5 units with probes every 3; 31 000 states |
| `Replay` | is every row in exactly one full chunk, how do evaluations follow the intervals, and is the bundle of one environment with dividing rollouts accepted by its own validators unless it has too many chunks? | up to 3 environments, any proportions; one environment with `timesteps` to 8, rollouts and intervals to 4, chunk sizes 1, 2, 3, 5, 20; manifests of up to 8 chunks, which the smallest sizes exceed; 499 000 states |
| `ArtifactUpload` | are objects immutable, manifests complete, recorded bundles there? | 2 chunks, 2 contents, 3 attempts; 107 000 states |
| `Broadcast` | does the registry follow the handlers, is nothing missed, is every published event told to whoever stays? | 2 connections, one of which may go, 2 overlapping pushes, 2 writers, 2 events; 248 000 states |
| `Redispatch`, `LongTraceback`, `ReplayOvershoot`, `ReplayParallel` | see section 6 | the least that shows the disagreement |

**Why the bounds are enough.** The guards of the lifecycle look at one document and at the
request's own memory. Two requests of a kind show every race between a stale and a current one; a
third would repeat one of the two roles. In `Acceptance` the third lets two racing requests meet
a cancelling or polling one, and a slot that is used again is a fourth; keys share no document.
In `Navigation` the worlds hold a start clear of everything, a wall across the way, two boxes near a
corner, a robot wider than the inset, no room, no area at all and a box out of bounds. Two executions suffice to refute *one execution*. Two
attempts show a retry; one report is enough to roll back to zero. For the replay, what matters is
which of rollout, interval and chunk boundaries coincide, and the sets hold each coincidence and
each off-by-one. For uploads, the first, second and third attempt are the one that left objects,
the one that meets them and one that meets both; two contents tell own from foreign. For the
relay, one client watches while another comes or breaks (`Leavers`: only the other goes of its own
accord), two events are published in either order, and the pushes of an event overlap. The theorems of
section 5 remove these bounds for all safety properties.

`MaxAttempts` (attempts of a task), `PersistAttempts` (`EXECUTION_METADATA_WRITE_ATTEMPTS`),
`TotalSteps` (progress reports), `Executions` (run_job calls), `TransactionAttempts`
(`TRANSACTION_ATTEMPTS`), `MaxChunkSteps` (`MAX_REPLAY_CHUNK_STEPS`), the grid, inset and probe
distances of `NavigationWorld`, `MaxChunks`
(`MAX_REPLAY_BUNDLE_CHUNKS`: 4096 in the code, 8 in the run, so that some parameters exceed it), `LastVersion` (events) are the only bounds of the models.

## 4. Fairness and liveness

`TrainingLifecycle!Fairness` asks that

* the platform fails only for some time (`Stabilise`); before that, anything may be lost;
* a client polls: the steps of a `GET /results/{id}` request, begun again when it ends. Only that
  request reconciles (`docs/implementation/current-architecture.md` gives it that task), so without
  it nothing ends a lost submission;
* a container makes progress. Cloud Run's task timeout (`TRAINER_TASK_TIMEOUT`, 24 h) ends one
  that does not;
* Cloud Run answers `run_job`, and time passes.

Nothing is asked of the requests that submit or cancel: they may stop for ever anywhere.
`EventuallyTerminal` and `StoppedIsReported` hold under it.

`Notification!Fairness` asks that the event loop resumes coroutines that can go on and that
Pub/Sub pushes until it is acknowledged. Sending to a client returns or raises: uvicorn's
keep-alive pings close a peer that is gone. Nothing is asked of writers, clients or restarts.

## 5. Proofs

All theorems hold for every value of the constants allowed by the `ASSUME`s of the modules, and
are checked by `tlapm` with no omitted step.

**Lifecycle** (`TrainingLifecycleTypes`, `…Invariant`, `…Proofs`). `TypeCorrect`
is inductive by itself. *One execution* is not: it holds because the right to call `run_job` is
handed out by the claim of a `pending` dispatch, never returns, and is there only while all
executions are unused. `IInv` therefore adds who has that permission (`OnePermission`), which
combinations of control and result occur (`DocumentsAreJoint`), what each request remembers
(`RequestsRememberRight`: a remembered name, outcome or acceptance stays true, as executions only
move forward and a name is written once), and that a trainer beyond its registration belongs to
the named execution (`TrainersAreNamed`). Given one execution and its name in control, a cancelled
outcome that somebody read is the end of the only run there can be, hence `CancelledIsStopped`.
`PInv` adds how far a trainer tells how far the result is, for `ProgressStays` and for
`PromiseIsKept`, which shows step by step that the lifecycle implements `ResultLifecycle`.

**Upload** (`ArtifactUploadProofs`). Objects never change, so what an attempt has confirmed stays
confirmed, also after its death; the manifest is sent only when all its chunks are confirmed, and
a request that arrives late was sent by an attempt of which that was true.

**Notification** (`NotificationProofs`). A broadcast serves whoever was registered when it began;
whoever begins to listen later was sent a snapshot fetched after the event was published, hence at
least as new (`CommittedFirst`). So whoever is informed is still to be served or knows the event
(`BroadcastsReachAll`), and when nobody is left to be served the acknowledgement is safe.

**Acceptance** (`SubmissionAcceptanceProofs`). What a transaction read may be stale, so `IInv` says
what a request may still rely on wherever it is (`Relies`): documents are created and never
rewritten, a dispatch state only leaves `pending`, so a readable control stays readable, a
scenario and token that were equal stay equal, and a state that was seen to have left `pending` is not
back (`SeenHolds`). With `DocumentsGrow` for every step, all of that survives the steps of other
requests (`GrowthKeepsRelies`). That only one request may call `run_job` (`RunnersOK`) rests on the
commit rule alone: it claims a dispatch that is still pending. `StepEffects` reduces every step to
one of four changes of the documents, from which `CancelledByItsToken` and the refinement
`PromiseIsKept` follow.

**Navigation** (`NavigationProofs`). A point at a distance greater than zero from the grown box does
not hit it, one in the sampling area is within the bounds by the inset, and the safe position is
one of the valid ones: so a start is clear (for radii up to the inset), and a move that is made
ends clear as its last probe is its end. A robot that is clear of the goal at its start and
enters it ends its episode with that step, hence reward and reason agree. Each episode writes at
most one row more than it has steps. The conversion raises for nothing that `BundleValid` lets
through. All for any worlds, scenarios and distances.

That nothing is driven through (`DrivesThroughNothing`) needs the probes between the ends of a step.
In the magnified world, in which the n probes of a step are whole, the way goes from the multiple 0
to the multiple n of one and the same difference, along each axis of the box. A way that leads through
begins on one side of the box and ends on the other, so one of the multiples is the first beyond the
near face (`MultipleFrom`); probes are at most `ProbeStep` apart and the grown box is at least that
thick, so it is not beyond the far face (`ProbeInside`), and as both ends are within the box on the
other axis, so is every probe (`ProbeWithin`). That probe collides, and the move is not made.

**Replay** (`ReplayRecorderProofs`). `RowsWritten` counts rows as piles of units, so the lemmas on the
writer (`ChunkCloses`, `ChunkIsExtended`, `RowIsWritten`, `EvaluationIsWritten`) are about
cardinalities; each says what one call does to the rows, the fullness of chunks, the paths, the
evaluations and the order of rows. `IInv` adds to the properties what they depend on:

* `RolloutsInv`: learning ends at `End`, the end of the first rollout that reaches `timesteps`, and
  nowhere else. Hence it overshoots by less than a rollout, and not at all when rollouts are aligned.
* `ChunksInv`: chunks are full and the open one is not, as long as rows may follow; a path occurs
  once, as train chunks are numbered by their opening and evaluations by their checkpoint.
* `EvalsInv`: `next_eval` is the multiple of the interval after as many evaluations as there are, and
  every evaluation lies before the present step and, until the final one, before `timesteps`; the
  final evaluation is therefore a path of its own.
* `PaceInv`: there is an evaluation for every `Stride` of the steps whose callback has returned, up to
  the last one before `timesteps` (`Passed`). The stride is the interval while no more environments
  step at once than it has steps, since then a callback overruns `next_eval` by less than one
  interval; else it is a step of all environments, since then every callback finds an evaluation due.
  `EvaluationsKeepPace` follows for any number of environments.
* `SingleInv`: the only environment records rows in the order of their checkpoints, so the first and
  last row of a chunk are its least and greatest checkpoint; and at most one episode begins per
  transition, so there are at most `2 * timesteps` rows. With full chunks that bounds the train chunks, and
  `EvalsInv` the evaluations: together `FewChunks`, the least bound that depends on the
  parameters alone.

**Only model-checked**: the liveness properties `EventuallyTerminal`, `StoppedIsReported` and
`PublishedIsTold`. They rest on fairness, that is on `ENABLED`, which the provers cannot
reason about. Every invariant and every action property that a run checks is the statement of a
theorem.

## 6. Where code and documents disagree

* `Redispatch`: the README says that once Cloud Run returned an Operation the request is
  reconciled *without redispatch*. `cancellations.py` calls Cloud Run after its claim with neither
  a deadline below the lease nor a second look at it: a slow owner sends the call again after the
  lease expired and another owner got its Operation. No failure is needed, only slowness.
* `LongTraceback`: a training failure whose traceback exceeds the 4096 characters of
  `ErrorReport.message` makes the construction of the failed bundle raise inside the `except`
  block. The result stays active until the server writes `failed` without the bundle that the
  README promises.
* `ReplayOvershoot`: PPO collects whole rollouts, so with `timesteps` 5000 and `n_steps` 32 it
  records up to step 5024, and the manifest, which may not mention a checkpoint beyond
  `total_timesteps`, is refused after the training has succeeded.
* `ReplayParallel`: with several environments the first row of an episode bears the checkpoint of
  the reset and follows rows of a later checkpoint; the range of a chunk (its first and last
  row) then does not match its rows, and the trainer refuses its own bundle.

## 7. Assumptions and what is not modelled

* A Firestore transaction commits only if the documents it read are unchanged, as `_retry_aborted`
  and `@firestore.transactional` expect. The server's repositories use a transaction object
  directly, without the decorator that begins it; what such an object does is up to the client
  library. `MutUnchangedSinceRead` shows what depends on it: without the rule a dispatch can be
  claimed and cancelled at once.
* `execution_name` is always known to a trainer on Cloud Run.
* `RobotStaysClear` is about robots no wider than `RANDOM_START_BOUNDARY_INSET_METERS` (1.35 m).
  `RobotSpec.radius` has no upper bound, and a wider robot may be put where its environment takes
  it for out of bounds: every move then collides. `Navigation` contains such a world.
* `EvaluationFitsItsChunk` holds because the code counts `max_episode_steps + 1` rows an episode.
  `docs/implementation/data-models.md` and `development.md` give the bound without the `+ 1`
  (`current-architecture.md` gives it as coded); `MutEvalReplayFits` is that bound, and breaks the
  property.
* Of the validators, those of single fields, of the camera's heights, of the rollout's size and of
  the angle thresholds are left out, as are the failures of `_configure_cpu_count`: a scenario that
  asks for more CPUs than the container has is accepted and fails.
* Geometry is exact here and floating point in the code, with `float32` positions: agreement of
  the two formulas at their common boundary is not affected by rounding, as the clearance keeps them
  apart.
* `BundleIsAccepted` is about trainings with one environment and dividing rollouts; what happens to
  the others is `ReplayOvershoot` and `ReplayParallel`. For those it says that too many chunks are the
  only reason for a refusal, and that there are not too many where `FewChunks` holds. Nothing
  in the code compares `replay_train_chunk_steps` and `replay_eval_interval_steps` with
  `MAX_REPLAY_BUNDLE_CHUNKS` beforehand: a training with more chunks runs to its end and is refused by
  `finish`.
* With more environments than `replay_eval_interval_steps` (`TrainingSpec` accepts that) the
  evaluations lag: each callback makes at most one and advances `_next_eval_step` by one interval, so
  there is one for every step of all environments, and those missed are not made up for.
  `EvaluationsKeepPace` says exactly how many there are. No document promises another number, so this
  is not among the disagreements of section 6.
* `ArtifactUpload` lets any attempt after the first train and upload. In the code one that finds the
  result in STARTING or RUNNING returns, and only CANCELLING lets it go on (`trainer/job.py`); the
  model allows more, so what it excludes the code excludes, too.
* The rows of an evaluation all bear its checkpoint and are not counted against the limit of rows.
* Observations, rendering, the exported policy and ONNX are numerics; tools and deployment files
  hold no state.
* Back-pressure of a client that does not read is a hazard without a property. Two writers may
  publish in another order than they committed: every event still reaches the client
  (`PublishedIsTold`), but that an older status may be the last one it sees is not excluded by any
  document, and no property.

## 8. Plan

Done, in this order: the lifecycle with its proofs; recording, upload and relay; acceptance at the
grain of reads and commits with its refinement; scenarios, random starts and evaluation episodes;
the proofs of the replay recording, with the limit of chunks, and of the way between probes. What is
left:

1. The writer of the replay as a refinement of a log of rows that is cut into chunks.
2. `Notification` joined with the lifecycle's own writers, so that versions are statuses.
