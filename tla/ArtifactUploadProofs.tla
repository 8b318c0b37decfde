------------------------- MODULE ArtifactUploadProofs -------------------------
(***************************************************************************)
(* Proofs about ArtifactUpload, for any chunks, contents and attempts.     *)
(* What makes a manifest in the bucket complete is that objects are        *)
(* immutable and that a manifest is sent, also by an attempt that is gone, *)
(* only after its chunks are known to be there.                            *)
(***************************************************************************)
EXTENDS ArtifactUpload, TLAPS

\* What has been confirmed is in the bucket, and a result is recorded only
\* when all of it is.
UploadedIsThere ==
  /\ \A p \in uploaded : bucket[p] = Content(p)
  /\ stage = "recorded" => uploaded = Files

\* Manifests, in the bucket or on their way to it, are sets of declared chunks
\* that are there.
Followable(m) == m \in Manifests /\ \A c \in DOMAIN m : bucket[c] = m[c]

ManifestsAreFollowable ==
  /\ bucket[Manifest] # Absent => Followable(bucket[Manifest])
  /\ \A creation \in late : creation[1] = Manifest => Followable(creation[2])

IInv == TypeOK /\ UploadedIsThere /\ ManifestsAreFollowable

\* What a manifest is: it declares versions of chunks, and is not "no object".
LEMMA ManifestFacts ==
  ASSUME NEW m \in Manifests
  PROVE  /\ DOMAIN m \subseteq Chunks
         /\ \A c \in DOMAIN m : m[c] \in Versions
         /\ m \in Contents
BY DEF Manifests, Contents

\* The contents of the files of an attempt.
LEMMA ContentFacts ==
  ASSUME local \in Bundle, NEW p \in Files
  PROVE  p \in Paths /\ Content(p) \in Contents
<1>1. local.model \in Versions /\ local.manifest \in Manifests
  BY DEF Bundle
<1>2. DOMAIN local.manifest \subseteq Chunks
      /\ \A c \in DOMAIN local.manifest : local.manifest[c] \in Versions
  BY <1>1, ManifestFacts
<1> QED
  BY <1>1, <1>2 DEF Content, Contents, Files, Paths

\* A creation keeps every object and stays within the types.
LEMMA CreateKeeps ==
  ASSUME bucket \in [Paths -> Contents \union {Absent}],
         NEW p \in Paths, NEW content \in Contents,
         Create(p, content)
  PROVE  /\ bucket' \in [Paths -> Contents \union {Absent}]
         /\ \A q \in Paths : bucket[q] # Absent => bucket'[q] = bucket[q]
         /\ \A q \in Paths : q # p => bucket'[q] = bucket[q]
         /\ bucket[p] = Absent => bucket'[p] = content
BY DEF Create

\* upload_file of any attempt, in time or late, never replaces an object.
LEMMA StepIsImmutable ==
  ASSUME TypeOK, [Next]_vars
  PROVE  /\ bucket' \in [Paths -> Contents \union {Absent}]
         /\ \A q \in Paths : bucket[q] # Absent => bucket'[q] = bucket[q]
<1>1. ASSUME NEW p \in Paths, Upload(p)
      PROVE  /\ bucket' \in [Paths -> Contents \union {Absent}]
             /\ \A q \in Paths : bucket[q] # Absent => bucket'[q] = bucket[q]
  <2>1. local \in Bundle /\ p \in Files
    BY <1>1 DEF Upload, IsNext, TypeOK
  <2>2. Content(p) \in Contents
    BY <2>1, ContentFacts
  <2> QED
    BY <1>1, <2>2, CreateKeeps DEF Upload, TypeOK
<1>2. ASSUME LateCreationArrives
      PROVE  /\ bucket' \in [Paths -> Contents \union {Absent}]
             /\ \A q \in Paths : bucket[q] # Absent => bucket'[q] = bucket[q]
  <2>1. PICK creation \in late : Create(creation[1], creation[2])
    BY <1>2 DEF LateCreationArrives
  <2>2. creation[1] \in Paths /\ creation[2] \in Contents
    BY <2>1 DEF TypeOK
  <2> QED
    BY <2>1, <2>2, CreateKeeps DEF TypeOK
<1> QED
  BY <1>1, <1>2
  DEF Next, vars, TypeOK, Prepare, RecoverUpload, RefuseUpload, Record, Die, Retry

\* Immutable objects keep a followable manifest followable.
LEMMA StaysFollowable ==
  ASSUME NEW m, Followable(m),
         \A q \in Paths : bucket[q] # Absent => bucket'[q] = bucket[q]
  PROVE  Followable(m)'
<1>1. \A c \in DOMAIN m : c \in Paths /\ m[c] \in Contents
  BY ManifestFacts DEF Followable, Paths, Contents
<1>2. \A c \in DOMAIN m : bucket[c] # Absent
  BY <1>1, AbsentAssumption DEF Followable
<1> QED
  BY <1>1, <1>2 DEF Followable

\* A manifest that is next has all its chunks confirmed.
LEMMA NextManifestIsFollowable ==
  ASSUME IInv, IsNext(Manifest)
  PROVE  Content(Manifest) = local.manifest /\ Followable(local.manifest)
<1>1. local \in Bundle
  BY DEF IInv, TypeOK, IsNext
<1>2. local.manifest \in Manifests
  BY <1>1 DEF Bundle
<1>3. DOMAIN local.manifest \subseteq Chunks
  BY <1>2, ManifestFacts
<1>4. DOMAIN local.manifest \subseteq uploaded
  BY <1>3, ChunksAssumption DEF IsNext, Files
<1>5. \A c \in DOMAIN local.manifest : Content(c) = local.manifest[c]
  BY <1>3, ChunksAssumption DEF Content
<1>6. Content(Manifest) = local.manifest
  BY DEF Content, Manifest, Model
<1> QED
  BY <1>2, <1>4, <1>5, <1>6 DEF Followable, IInv, UploadedIsThere

\* The inductive invariant holds before the first attempt.
LEMMA InitIInv ==
  ASSUME Init
  PROVE  IInv
BY UploadAttemptsAssumption
DEF Init, IInv, TypeOK, UploadedIsThere, ManifestsAreFollowable, Paths

\* Every step of an attempt, a retry and a late request keeps it.
LEMMA StepIInv ==
  ASSUME IInv, [Next]_vars
  PROVE  IInv'
<1>1. /\ bucket' \in [Paths -> Contents \union {Absent}]
      /\ \A q \in Paths : bucket[q] # Absent => bucket'[q] = bucket[q]
  BY StepIsImmutable DEF IInv
<1>2. TypeOK /\ UploadedIsThere /\ ManifestsAreFollowable
  BY DEF IInv
<1>3. \A m : Followable(m) => Followable(m)'
  BY <1>1, StaysFollowable
<1>4. local \in Bundle =>
        \A p \in Files : p \in Paths /\ Content(p) \in Contents /\ Content(p) # Absent
  BY ContentFacts, AbsentAssumption
<1>5. UNCHANGED local => Files' = Files /\ \A p : Content(p)' = Content(p)
  BY DEF Files, Content
<1>6. UNCHANGED local =>
        \A p \in uploaded : bucket'[p] = Content(p)'
  BY <1>1, <1>2, <1>4, <1>5 DEF TypeOK, UploadedIsThere
<1>7. CASE Prepare
  <2>1. uploaded = {} /\ uploaded' = {}
    BY <1>7, <1>2 DEF Prepare, TypeOK
  <2>2. local' \in Bundle /\ local' # Absent /\ stage' = "uploading"
    BY <1>7, AbsentAssumption DEF Prepare
  <2>3. UNCHANGED <<bucket, attempt, late>>
    BY <1>7 DEF Prepare
  <2>4. TypeOK'
    BY <2>1, <2>2, <2>3, <1>2 DEF TypeOK
  <2>5. UploadedIsThere'
    BY <2>1, <2>2 DEF UploadedIsThere
  <2>6. ManifestsAreFollowable'
    BY <2>3, <1>2 DEF ManifestsAreFollowable, Followable
  <2> QED
    BY <2>4, <2>5, <2>6 DEF IInv
<1>8. ASSUME NEW p \in Paths, Upload(p)
      PROVE  IInv'
  <2>1. p \in Files /\ local \in Bundle
    BY <1>8, <1>2 DEF Upload, IsNext, TypeOK
  <2>2. Content(p) \in Contents
    BY <2>1, <1>4
  <2>3. bucket'[p] = Content(p) /\ \A q \in Paths : q # p => bucket'[q] = bucket[q]
    BY <1>8, <2>2, <1>2, CreateKeeps DEF Upload, TypeOK
  <2>4. TypeOK'
    <3>1. UNCHANGED <<attempt, stage, local, late>> /\ stage = "uploading"
      BY <1>8 DEF Upload, IsNext
    <3>2. uploaded' \subseteq uploaded \union {p}
      BY <1>8 DEF Upload
    <3>3. local # Absent /\ uploaded \subseteq Files
      BY <3>1, <1>2 DEF TypeOK
    <3>4. local' # Absent /\ uploaded' \subseteq Files'
      BY <3>1, <3>2, <3>3, <2>1, <1>5
    <3> QED
      BY <3>1, <3>4, <1>1, <1>2 DEF TypeOK
  <2>5. UploadedIsThere'
    BY <1>8, <2>3, <1>2, <1>5, <1>6 DEF Upload, IsNext, UploadedIsThere
  <2>6. bucket'[Manifest] # Absent => Followable(bucket[Manifest])'
    <3>1. CASE p = Manifest
      BY <3>1, <1>8, <2>3, <1>3, NextManifestIsFollowable DEF Upload, Followable
    <3>2. CASE p # Manifest
      BY <3>2, <2>3, <1>2, <1>3 DEF ManifestsAreFollowable, Followable, Paths
    <3> QED
      BY <3>1, <3>2
  <2>7. ManifestsAreFollowable'
    BY <1>8, <2>6, <1>2, <1>3 DEF Upload, ManifestsAreFollowable, Followable
  <2> QED
    BY <2>4, <2>5, <2>7 DEF IInv
<1>9. ASSUME NEW p \in Paths, RecoverUpload(p)
      PROVE  IInv'
  <2>1. TypeOK'
    BY <1>9, <1>2, <1>5 DEF RecoverUpload, IsNext, TypeOK
  <2>2. UploadedIsThere'
    BY <1>9, <1>2, <1>5 DEF RecoverUpload, IsNext, UploadedIsThere
  <2> QED
    BY <2>1, <2>2, <1>9, <1>2
    DEF RecoverUpload, IInv, ManifestsAreFollowable, Followable
<1>10. ASSUME NEW p \in Paths, RefuseUpload(p)
       PROVE  IInv'
  BY <1>10, <1>2, <1>5
  DEF RefuseUpload, IInv, TypeOK, UploadedIsThere, ManifestsAreFollowable, Followable
<1>11. CASE Record
  BY <1>11, <1>2, <1>5
  DEF Record, IInv, TypeOK, UploadedIsThere, ManifestsAreFollowable, Followable
<1>12. CASE Die
  <2>1. UNCHANGED <<bucket, local, uploaded, attempt>> /\ stage' = "ended"
    BY <1>12 DEF Die
  <2>2. \/ late' = late
        \/ \E p \in Paths : IsNext(p) /\ late' = late \union {<<p, Content(p)>>}
    BY <1>12 DEF Die
  <2>3. \A p \in Paths : IsNext(p) => Content(p) \in Contents
    BY <1>2, <1>4 DEF IsNext, TypeOK
  <2>4. TypeOK'
    BY <2>1, <2>2, <2>3, <1>2, <1>5 DEF TypeOK
  <2>5. UploadedIsThere'
    BY <2>1, <1>2, <1>5 DEF UploadedIsThere
  <2>6. ASSUME NEW creation \in late', creation[1] = Manifest
        PROVE  Followable(creation[2])'
    <3>1. CASE creation \in late
      BY <3>1, <2>6, <1>2, <1>3 DEF ManifestsAreFollowable
    <3>2. CASE creation \notin late
      <4>1. PICK p \in Paths : IsNext(p) /\ late' = late \union {<<p, Content(p)>>}
        BY <3>2, <2>2
      <4>2. creation = <<p, Content(p)>>
        BY <3>2, <4>1
      <4>3. p = Manifest /\ creation[2] = Content(Manifest)
        BY <4>2, <2>6
      <4> QED
        BY <4>1, <4>3, <1>3, NextManifestIsFollowable
    <3> QED
      BY <3>1, <3>2
  <2>7. bucket'[Manifest] # Absent => Followable(bucket[Manifest])'
    BY <2>1, <1>2 DEF ManifestsAreFollowable, Followable
  <2> QED
    BY <2>4, <2>5, <2>6, <2>7 DEF IInv, ManifestsAreFollowable
<1>13. CASE LateCreationArrives
  <2>1. PICK creation \in late :
          /\ Create(creation[1], creation[2])
          /\ late' = late \ {creation}
          /\ UNCHANGED <<attempt, stage, local, uploaded>>
    BY <1>13 DEF LateCreationArrives
  <2>2. creation[1] \in Paths /\ creation[2] \in Contents
    BY <1>2, <2>1 DEF TypeOK
  <2>3. TypeOK'
    BY <2>1, <1>1, <1>2, <1>5 DEF TypeOK
  <2>4. UploadedIsThere'
    BY <2>1, <1>2, <1>5, <1>6 DEF UploadedIsThere
  <2>5. \A q \in Paths : q # creation[1] => bucket'[q] = bucket[q]
    BY <2>1, <2>2, <1>2, CreateKeeps DEF TypeOK
  <2>6. bucket[creation[1]] = Absent => bucket'[creation[1]] = creation[2]
    BY <2>1, <2>2, <1>2, CreateKeeps DEF TypeOK
  <2>7. bucket'[Manifest] # Absent => Followable(bucket[Manifest])'
    <3>1. CASE bucket[Manifest] = Absent /\ creation[1] = Manifest
      BY <3>1, <2>1, <2>6, <1>2, <1>3 DEF ManifestsAreFollowable, Followable
    <3>2. CASE bucket[Manifest] = Absent /\ creation[1] # Manifest
      BY <3>2, <2>5 DEF Paths
    <3>3. CASE bucket[Manifest] # Absent
      BY <3>3, <1>1, <1>2, <1>3 DEF ManifestsAreFollowable, Followable, Paths
    <3> QED
      BY <3>1, <3>2, <3>3
  <2>8. ManifestsAreFollowable'
    BY <2>1, <2>7, <1>2, <1>3 DEF ManifestsAreFollowable
  <2> QED
    BY <2>3, <2>4, <2>8 DEF IInv
<1>14. CASE Retry
  <2>1. local' = Absent /\ uploaded' = {} /\ stage' = "training"
    BY <1>14 DEF Retry
  <2>2. UNCHANGED <<bucket, late>> /\ attempt' \in 1 .. MaxAttempts
    BY <1>14, <1>2, UploadAttemptsAssumption DEF Retry, TypeOK
  <2>3. TypeOK'
    BY <2>1, <2>2, <1>2 DEF TypeOK
  <2>4. UploadedIsThere'
    BY <2>1 DEF UploadedIsThere
  <2>5. ManifestsAreFollowable'
    BY <2>2, <1>2 DEF ManifestsAreFollowable, Followable
  <2> QED
    BY <2>3, <2>4, <2>5 DEF IInv
<1>15. CASE UNCHANGED vars
  BY <1>15, <1>2, <1>5
  DEF vars, IInv, TypeOK, UploadedIsThere, ManifestsAreFollowable, Followable
<1> QED
  BY <1>7, <1>8, <1>9, <1>10, <1>11, <1>12, <1>13, <1>14, <1>15 DEF Next

\* The inductive invariant holds in every reachable state.
THEOREM UploadInvariance == Spec => []IInv
BY InitIInv, StepIInv, PTL DEF Spec

\* upload_file under if_generation_match=0: no object that is in the bucket is
\* ever changed, by this attempt, by a later one or by a late request.
THEOREM ObjectsStayImmutable == Spec => ObjectsAreImmutable
<1>1. ASSUME TypeOK, [Next]_vars
      PROVE  [\A p \in Paths : bucket[p] # Absent => bucket'[p] = bucket[p]]_vars
  BY <1>1, StepIsImmutable
<1>2. IInv => TypeOK
  BY DEF IInv
<1> QED
  BY <1>1, <1>2, UploadInvariance, PTL DEF Spec, ObjectsAreImmutable

\* The attempts stay within those of the task and what one remembers in its type,
\* whatever objects an earlier attempt has left (TypeOK).
THEOREM UploadTypeCorrect == Spec => []TypeOK
<1>1. IInv => TypeOK
  BY DEF IInv
<1> QED
  BY <1>1, UploadInvariance, PTL

\* _upload_prepared_replay_bundle sends the manifest last: whoever reads a
\* manifest finds every chunk it declares, after any number of attempts.
THEOREM ManifestStaysComplete == Spec => []ManifestIsComplete
<1>1. IInv => ManifestIsComplete
  BY DEF IInv, ManifestsAreFollowable, Followable, ManifestIsComplete
<1> QED
  BY <1>1, UploadInvariance, PTL

\* upload_model_to_gcs returns the digests of what is in the bucket, so that
\* the recorded result can be verified by whoever downloads it.
THEOREM RecordedStaysThere == Spec => []RecordedIsThere
<1>1. IInv => RecordedIsThere
  <2> SUFFICES ASSUME IInv, stage = "recorded"
               PROVE  bucket[Model] = local.model /\ bucket[Manifest] = local.manifest
    BY DEF RecordedIsThere
  <2>1. Model \in uploaded /\ Manifest \in uploaded
    BY DEF IInv, UploadedIsThere, Files
  <2>2. Content(Model) = local.model /\ Content(Manifest) = local.manifest
    BY DEF Content, Model, Manifest
  <2> QED
    BY <2>1, <2>2 DEF IInv, UploadedIsThere
<1> QED
  BY <1>1, UploadInvariance, PTL
==============================================================================
