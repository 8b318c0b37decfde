---------------------------- MODULE ArtifactUpload ----------------------------
(***************************************************************************)
(* The upload of one submission's artifacts to the bucket: the model, the  *)
(* chunks of the Replay Bundle and, last, its manifest.  The attempts of a *)
(* trainer task follow one another; each trains anew and may come out with *)
(* other files.  (In the code a second attempt gets past STARTING only     *)
(* while the result is cancelling; here it always may, which allows more.) *)
(* Every object is created under if_generation_match=0; one that is there  *)
(* already must have the content to be uploaded.                           *)
(*                                                                         *)
(* A content is a version; the content of a manifest is what it declares,  *)
(* a version for each of its chunks.                                       *)
(***************************************************************************)
EXTENDS Naturals

CONSTANTS
  Chunks,       \* paths of chunks
  Versions,     \* contents of chunks and of models
  MaxAttempts,  \* attempts of the task
  Absent        \* no such object

Model == "model/policy.onnx"
Manifest == "replay/manifest.json"
Paths == {Model, Manifest} \union Chunks

ASSUME ChunksAssumption == {Model, Manifest} \intersect Chunks = {}
ASSUME UploadAttemptsAssumption == MaxAttempts \in Nat \ {0}

Manifests == UNION {[declared -> Versions] : declared \in (SUBSET Chunks) \ {{}}}
Contents == Versions \union Manifests

\* The files of an attempt.
Bundle == [model : Versions, manifest : Manifests]

ASSUME AbsentAssumption == Absent \notin Contents \union Bundle

VARIABLES
  bucket,    \* the objects under results/{submission_id}/
  attempt,   \* which attempt it is
  stage,     \* where it is
  local,     \* the files it has prepared
  uploaded,  \* those that are known to be in the bucket
  late       \* creations still on their way from an attempt that is gone

vars == <<bucket, attempt, stage, local, uploaded, late>>

Init ==
  /\ bucket = [p \in Paths |-> Absent]
  /\ attempt = 1
  /\ stage = "training"
  /\ local = Absent
  /\ uploaded = {}
  /\ late = {}

Files == {Model, Manifest} \union DOMAIN local.manifest

Content(p) ==
  IF p = Model THEN local.model
  ELSE IF p = Manifest THEN local.manifest
  ELSE local.manifest[p]

\* Training ends; the model is exported and the whole Replay Bundle passes its
\* preflight before anything is uploaded.
Prepare ==
  /\ stage = "training"
  /\ local' \in Bundle
  /\ stage' = "uploading"
  /\ UNCHANGED <<bucket, attempt, uploaded, late>>

\* Mutant: the manifest waits for the model alone.
MutIsNext(p) ==
  /\ stage = "uploading"
  /\ p \in Files \ uploaded
  /\ p # Model => Model \in uploaded

\* The order of the uploads: the model, the chunks, the manifest.
IsNext(p) ==
  /\ stage = "uploading"
  /\ p \in Files \ uploaded
  /\ p # Model => Model \in uploaded
  /\ p = Manifest => Files \ {Manifest} \subseteq uploaded

\* Mutant: no precondition.
MutCreate(p, content) == bucket' = [bucket EXCEPT ![p] = content]

\* What the bucket does with a creation: nothing if the object exists.
Create(p, content) ==
  bucket' = [bucket EXCEPT ![p] = IF @ = Absent THEN content ELSE @]

\* upload_file.  A creation whose answer is lost is sent again by the client
\* and then finds its own object.
Upload(p) ==
  /\ IsNext(p)
  /\ bucket[p] = Absent
  /\ Create(p, Content(p))
  /\ uploaded' \in {uploaded, uploaded \union {p}}
  /\ UNCHANGED <<attempt, stage, local, late>>

\* Mutant: an object that exists is taken for this one.
MutRecoverUpload(p) ==
  /\ IsNext(p)
  /\ bucket[p] # Absent
  /\ uploaded' = uploaded \union {p}
  /\ UNCHANGED <<bucket, attempt, stage, local, late>>

\* The precondition fails, and size and digest are the expected ones.
RecoverUpload(p) ==
  /\ IsNext(p)
  /\ bucket[p] = Content(p)
  /\ uploaded' = uploaded \union {p}
  /\ UNCHANGED <<bucket, attempt, stage, local, late>>

\* The precondition fails and the object is another one: the attempt raises.
RefuseUpload(p) ==
  /\ IsNext(p)
  /\ bucket[p] \notin {Absent, Content(p)}
  /\ stage' = "ended"
  /\ UNCHANGED <<bucket, attempt, local, uploaded, late>>

\* All artifacts are uploaded, and COMPLETED is written with their digests.
Record ==
  /\ stage = "uploading"
  /\ uploaded = Files
  /\ stage' = "recorded"
  /\ UNCHANGED <<bucket, attempt, local, uploaded, late>>

\* The container is killed, or an upload raises; one that was under way may
\* still be carried out.
Die ==
  /\ stage \in {"training", "uploading"}
  /\ stage' = "ended"
  /\ \/ UNCHANGED late
     \/ \E p \in Paths : IsNext(p) /\ late' = late \union {<<p, Content(p)>>}
  /\ UNCHANGED <<bucket, attempt, local, uploaded>>

LateCreationArrives ==
  \E creation \in late :
    /\ Create(creation[1], creation[2])
    /\ late' = late \ {creation}
    /\ UNCHANGED <<attempt, stage, local, uploaded>>

\* Mutant: what the attempt before has uploaded is not forgotten.
MutRetry ==
  /\ stage = "ended"
  /\ attempt < MaxAttempts
  /\ attempt' = attempt + 1
  /\ stage' = "training"
  /\ local' = Absent
  /\ UNCHANGED <<bucket, uploaded, late>>

\* Cloud Run starts the task again.
Retry ==
  /\ stage = "ended"
  /\ attempt < MaxAttempts
  /\ attempt' = attempt + 1
  /\ stage' = "training"
  /\ local' = Absent
  /\ uploaded' = {}
  /\ UNCHANGED <<bucket, late>>

Next ==
  \/ Prepare
  \/ \E p \in Paths : Upload(p) \/ RecoverUpload(p) \/ RefuseUpload(p)
  \/ Record
  \/ Die
  \/ LateCreationArrives
  \/ Retry

Spec == Init /\ [][Next]_vars

------------------------------------------------------------------------------

\* An attempt has uploaded nothing but files it has prepared.
TypeOK ==
  /\ bucket \in [Paths -> Contents \union {Absent}]
  /\ attempt \in 1 .. MaxAttempts
  /\ stage \in {"training", "uploading", "recorded", "ended"}
  /\ local \in Bundle \union {Absent}
  /\ stage = "training" => local = Absent
  /\ stage \in {"uploading", "recorded"} => local # Absent
  /\ uploaded \subseteq IF local = Absent THEN {} ELSE Files
  /\ late \subseteq Paths \X Contents

\* An object that a client may have read never changes, whichever attempt
\* writes next and however late.
ObjectsAreImmutable ==
  [][\A p \in Paths : bucket[p] # Absent => bucket'[p] = bucket[p]]_vars

\* A manifest in the bucket can be followed: every chunk it declares is there
\* with the content it declares, whichever attempts the chunks came from.
ManifestIsComplete ==
  bucket[Manifest] # Absent =>
    \A c \in DOMAIN bucket[Manifest] : bucket[c] = bucket[Manifest][c]

\* A completed result names, by digest, the model and the manifest that are in
\* the bucket.
RecordedIsThere ==
  stage = "recorded" =>
    /\ bucket[Model] = local.model
    /\ bucket[Manifest] = local.manifest
==============================================================================
