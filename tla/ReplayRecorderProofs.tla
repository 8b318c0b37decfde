------------------------- MODULE ReplayRecorderProofs -------------------------
(***************************************************************************)
(* The safety properties of ReplayRecorder, for any training, any limit of *)
(* chunks and any interval of reports.                                     *)
(***************************************************************************)
EXTENDS ReplayRecorder, FiniteSetTheorems, TLAPS

------------------------------------------------------------------------------
(* Quotients and remainders.                                               *)

LEMMA QuotientIs ==
  ASSUME NEW a \in Nat, NEW b \in Positive, NEW q \in Nat, q * b <= a, a < (q + 1) * b
  PROVE  a \div b = q
BY DEF Positive

LEMMA QuotientIsAtLeast ==
  ASSUME NEW a \in Nat, NEW b \in Positive, NEW q \in Nat, q * b <= a
  PROVE  a \div b \in Nat /\ q <= a \div b
BY DEF Positive

LEMMA MultipleHasNoRemainder ==
  ASSUME NEW b \in Positive, NEW q \in Nat
  PROVE  (q * b) % b = 0
BY DEF Positive

LEMMA NoRemainderIsMultiple ==
  ASSUME NEW a \in Nat, NEW b \in Positive, a % b = 0
  PROVE  \E q \in Nat : a = q * b
BY DEF Positive

\* From one multiple to a greater one it is a whole factor.
LEMMA NextMultiple ==
  ASSUME NEW b \in Positive, NEW p \in Nat, NEW q \in Nat, p * b < q * b
  PROVE  p * b + b <= q * b
BY DEF Positive

LEMMA MinOfTwo ==
  ASSUME NEW a \in Nat, NEW b \in Nat
  PROVE  Min({a, b}) \in {a, b} /\ Min({a, b}) <= a /\ Min({a, b}) <= b
<1>1. \E m \in {a, b} : \A y \in {a, b} : m <= y
  <2>1. CASE a <= b
    BY <2>1
  <2>2. CASE b <= a
    BY <2>2
  <2>3. QED
    BY <2>1, <2>2
<1>2. QED
  BY <1>1 DEF Min

LEMMA MaxOfTwo ==
  ASSUME NEW a \in Nat, NEW b \in Nat
  PROVE  Max({a, b}) \in {a, b} /\ a <= Max({a, b}) /\ b <= Max({a, b})
<1>1. \E m \in {a, b} : \A y \in {a, b} : m >= y
  <2>1. CASE a <= b
    BY <2>1
  <2>2. CASE b <= a
    BY <2>2
  <2>3. QED
    BY <2>1, <2>2
<1>2. QED
  BY <1>1 DEF Max

------------------------------------------------------------------------------
(* Sums.                                                                   *)

\* The set that Tally counts.
Units(S, count) == UNION {{i} \X (1 .. count[i]) : i \in S}

LEMMA UnitsElements ==
  ASSUME NEW S, NEW count
  PROVE  \A i, k : <<i, k>> \in Units(S, count) <=> i \in S /\ k \in 1 .. count[i]
BY DEF Units

\* The pile of one element.
LEMMA PileCardinality ==
  ASSUME NEW x, NEW n \in Nat
  PROVE  IsFiniteSet({x} \X (1 .. n)) /\ Cardinality({x} \X (1 .. n)) = n
<1>1. IsFiniteSet({x}) /\ Cardinality({x}) = 1
  BY FS_Singleton
<1>2. IsFiniteSet(1 .. n) /\ Cardinality(1 .. n) = n
  BY FS_Interval
<1>3. /\ IsFiniteSet({x} \X (1 .. n))
      /\ Cardinality({x} \X (1 .. n)) = Cardinality({x}) * Cardinality(1 .. n)
  BY <1>1, <1>2, FS_Product
<1>4. QED
  BY <1>1, <1>2, <1>3

LEMMA UnitsFinite ==
  ASSUME NEW S, IsFiniteSet(S), NEW count \in [S -> Nat]
  PROVE  IsFiniteSet(Units(S, count)) /\ Tally(S, count) \in Nat
<1> DEFINE pile == [i \in S |-> {i} \X (1 .. count[i])]
           Piles == {{i} \X (1 .. count[i]) : i \in S}
<1>1. pile \in Surjection(S, Piles)
  BY DEF Surjection
<1>2. IsFiniteSet(Piles)
  BY <1>1, FS_Surjection
<1>3. \A P \in Piles : IsFiniteSet(P)
  <2>1. SUFFICES ASSUME NEW i \in S
                 PROVE  IsFiniteSet({i} \X (1 .. count[i]))
    OBVIOUS
  <2>2. QED
    BY PileCardinality
<1>4. IsFiniteSet(UNION Piles)
  BY <1>2, <1>3, FS_UNION
<1>5. QED
  BY <1>4, FS_CardinalityType DEF Units, Tally

\* One more element to be counted.
LEMMA TallyGrows ==
  ASSUME NEW S, IsFiniteSet(S), NEW x, x \notin S,
         NEW count \in [S -> Nat], NEW more \in [S \union {x} -> Nat],
         \A i \in S : more[i] = count[i]
  PROVE  Tally(S \union {x}, more) = Tally(S, count) + more[x]
<1> DEFINE pile == {x} \X (1 .. more[x])
<1>1. Units(S \union {x}, more) = Units(S, count) \union pile
  BY DEF Units
<1>2. Units(S, count) \intersect pile = {}
  BY DEF Units
<1>3. IsFiniteSet(pile) /\ Cardinality(pile) = more[x]
  BY PileCardinality
<1>4. IsFiniteSet(Units(S, count)) /\ Cardinality(Units(S, count)) \in Nat
  BY UnitsFinite DEF Units, Tally
<1>5. Cardinality(Units(S, count) \union pile)
        = Cardinality(Units(S, count)) + Cardinality(pile) - Cardinality({})
  BY <1>2, <1>3, <1>4, FS_Union
<1>6. Tally(S \union {x}, more) = Cardinality(Units(S, count) \union pile)
  BY <1>1 DEF Units, Tally
<1>7. Tally(S, count) = Cardinality(Units(S, count))
  BY DEF Units, Tally
<1>8. Cardinality({}) = 0
  BY FS_EmptySet
<1>9. QED
  BY <1>3, <1>4, <1>5, <1>6, <1>7, <1>8

\* One of the counts is increased.
LEMMA TallyIncreases ==
  ASSUME NEW S, IsFiniteSet(S), NEW x \in S, NEW count \in [S -> Nat]
  PROVE  Tally(S, [count EXCEPT ![x] = @ + 1]) = Tally(S, count) + 1
<1> DEFINE more == [count EXCEPT ![x] = @ + 1]
           new == <<x, count[x] + 1>>
<1>1. more \in [S -> Nat] /\ more[x] = count[x] + 1 /\ \A i \in S \ {x} : more[i] = count[i]
  OBVIOUS
<1>2. 1 .. more[x] = (1 .. count[x]) \union {count[x] + 1}
  BY <1>1
<1>3. Units(S, more) = Units(S, count) \union {new}
  <2> HIDE DEF more
  <2>1. \A i \in S : {i} \X (1 .. more[i]) \subseteq Units(S, count) \union {new}
    BY <1>1, <1>2 DEF Units
  <2>2. \A i \in S : {i} \X (1 .. count[i]) \subseteq Units(S, more)
    BY <1>1, <1>2 DEF Units
  <2>3. new \in Units(S, more)
    BY <1>1, <1>2, UnitsElements
  <2>4. QED
    BY <2>1, <2>2, <2>3 DEF Units
<1>4. new \notin Units(S, count)
  BY UnitsElements
<1>5. IsFiniteSet(Units(S, count))
  BY UnitsFinite
<1>6. Cardinality(Units(S, count) \union {new}) = Cardinality(Units(S, count)) + 1
  BY <1>4, <1>5, FS_AddElement
<1>7. QED
  BY <1>3, <1>6 DEF Tally, Units

\* Equal counts add up to a product.
LEMMA TallyOfEqual ==
  ASSUME NEW S, IsFiniteSet(S), NEW n \in Nat, NEW count \in [S -> Nat],
         \A i \in S : count[i] = n
  PROVE  Tally(S, count) = Cardinality(S) * n
<1>1. UNION {{i} \X (1 .. count[i]) : i \in S} = S \X (1 .. n)
  OBVIOUS
<1>2. IsFiniteSet(1 .. n) /\ Cardinality(1 .. n) = n
  BY FS_Interval
<1>3. Cardinality(S \X (1 .. n)) = Cardinality(S) * Cardinality(1 .. n)
  BY <1>2, FS_Product
<1>4. QED
  BY <1>1, <1>2, <1>3 DEF Tally

LEMMA TallyOfOne ==
  ASSUME NEW x, NEW count \in [{x} -> Nat]
  PROVE  Tally({x}, count) = count[x]
<1>1. UNION {{i} \X (1 .. count[i]) : i \in {x}} = {x} \X (1 .. count[x])
  OBVIOUS
<1>2. QED
  BY <1>1, PileCardinality DEF Tally

------------------------------------------------------------------------------
(* What holds of a writer w.                                               *)

Chunk == [count : Nat, first : Nat, last : Nat, least : Nat, greatest : Nat]

WriterType(w) == w \in [chunks : Seq(ChunkEntry), open : Chunk, opened : Nat]

Full == training.replay_train_chunk_steps

\* All train chunks are full but the open one.
Filling(w) ==
  /\ w.open.count < Full
  /\ \A i \in Trains(w) : w.chunks[i].step_count = Full

\* Train chunks are numbered in the order in which they are opened, and
\* evaluations bear their checkpoints.
PathsAreUnique(w) ==
  /\ \A i \in Trains(w) :
       /\ w.chunks[i].path[2] <= w.opened
       /\ w.open.count > 0 => w.chunks[i].path[2] < w.opened
  /\ \A i \in Evals(w) : w.chunks[i].path = <<"eval", w.chunks[i].checkpoint_step>>
  /\ \A i, j \in DOMAIN w.chunks : w.chunks[i].path = w.chunks[j].path => i = j

\* No evaluation at step n or later.
EvalsBefore(w, n) == \A i \in Evals(w) : w.chunks[i].checkpoint_step < n

\* Rows were recorded in the order of their checkpoints, the last one not
\* after n.
InOrderUpTo(w, n) ==
  /\ \A i \in Trains(w) :
       LET chunk == w.chunks[i] IN
       /\ chunk.start_step = chunk.least /\ chunk.end_step = chunk.greatest
       /\ chunk.start_step <= chunk.end_step /\ chunk.end_step <= n
       /\ chunk.checkpoint_step = chunk.end_step
  /\ w.open.count > 0 =>
       /\ w.open.first = w.open.least /\ w.open.last = w.open.greatest
       /\ w.open.first <= w.open.last /\ w.open.last <= n

LEMMA WriterRecord ==
  ASSUME NEW w
  PROVE  WriterType(w) <=>
           /\ w = [chunks |-> w.chunks, open |-> w.open, opened |-> w.opened]
           /\ w.chunks \in Seq(ChunkEntry) /\ w.open \in Chunk /\ w.opened \in Nat
BY DEF WriterType

LEMMA ChunkTypes ==
  ASSUME NEW w, WriterType(w)
  PROVE  /\ \A i \in DOMAIN w.chunks :
              /\ w.chunks[i].step_count \in Nat \ {0} /\ w.chunks[i].checkpoint_step \in Nat
              /\ w.chunks[i].start_step \in Nat /\ w.chunks[i].end_step \in Nat
         /\ w.open.count \in Nat /\ w.open.first \in Nat /\ w.open.last \in Nat
         /\ Trains(w) \subseteq DOMAIN w.chunks /\ Evals(w) \subseteq DOMAIN w.chunks
<1>1. \A i \in DOMAIN w.chunks : w.chunks[i] \in ChunkEntry
  BY DEF WriterType
<1>2. \A i \in DOMAIN w.chunks :
        /\ w.chunks[i].step_count \in Nat \ {0} /\ w.chunks[i].checkpoint_step \in Nat
        /\ w.chunks[i].start_step \in Nat /\ w.chunks[i].end_step \in Nat
  BY <1>1 DEF ChunkEntry, Positive
<1>3. w.open.count \in Nat /\ w.open.first \in Nat /\ w.open.last \in Nat
  BY DEF WriterType, Chunk
<1>4. QED
  BY <1>2, <1>3 DEF Trains, Evals

\* A later bound will do as well.
LEMMA BoundsGrow ==
  ASSUME NEW w, WriterType(w), NEW m \in Nat, NEW n \in Nat, m <= n
  PROVE  /\ InOrderUpTo(w, m) => InOrderUpTo(w, n)
         /\ EvalsBefore(w, m) => EvalsBefore(w, n)
<1>1. InOrderUpTo(w, m) => InOrderUpTo(w, n)
  BY ChunkTypes DEF InOrderUpTo
<1>2. EvalsBefore(w, m) => EvalsBefore(w, n)
  BY ChunkTypes DEF EvalsBefore
<1>3. QED
  BY <1>1, <1>2

LEMMA WriterIsFinite ==
  ASSUME NEW w, WriterType(w)
  PROVE  /\ IsFiniteSet(Trains(w)) /\ Cardinality(Trains(w)) \in Nat
         /\ IsFiniteSet(Evals(w)) /\ Cardinality(Evals(w)) \in Nat
         /\ Len(w.chunks) = Cardinality(Trains(w)) + Cardinality(Evals(w))
         /\ [i \in Trains(w) |-> w.chunks[i].step_count] \in [Trains(w) -> Nat]
<1>1. Len(w.chunks) \in Nat /\ DOMAIN w.chunks = 1 .. Len(w.chunks)
  BY DEF WriterType
<1>2. IsFiniteSet(DOMAIN w.chunks) /\ Cardinality(DOMAIN w.chunks) = Len(w.chunks)
  BY <1>1, FS_Interval
<1>3. Trains(w) \subseteq DOMAIN w.chunks
  BY DEF Trains
<1>4. IsFiniteSet(Trains(w)) /\ Cardinality(Trains(w)) \in Nat
  BY <1>2, <1>3, FS_Subset, FS_CardinalityType
<1>5. (DOMAIN w.chunks) \intersect Trains(w) = Trains(w)
  BY <1>3
<1>6. /\ IsFiniteSet(Evals(w))
      /\ Cardinality(Evals(w)) = Len(w.chunks) - Cardinality(Trains(w))
  <2>1. /\ IsFiniteSet((DOMAIN w.chunks) \ Trains(w))
        /\ Cardinality((DOMAIN w.chunks) \ Trains(w))
             = Cardinality(DOMAIN w.chunks) - Cardinality((DOMAIN w.chunks) \intersect Trains(w))
    BY <1>2, FS_Difference
  <2>2. QED
    BY <1>2, <1>5, <2>1 DEF Evals
<1>7. Cardinality(Evals(w)) \in Nat
  BY <1>6, FS_CardinalityType
<1>8. [i \in Trains(w) |-> w.chunks[i].step_count] \in [Trains(w) -> Nat]
  BY ChunkTypes
<1>9. Len(w.chunks) = Cardinality(Trains(w)) + Cardinality(Evals(w))
  BY <1>1, <1>4, <1>6, <1>7
<1>10. QED
  BY <1>4, <1>6, <1>7, <1>8, <1>9

\* A chunk more in the manifest.
LEMMA OneMoreChunk ==
  ASSUME NEW w, WriterType(w), NEW entry \in ChunkEntry,
         NEW v, v.chunks = Append(w.chunks, entry),
         NEW n, n = Len(w.chunks) + 1
  PROVE  /\ n \notin DOMAIN w.chunks
         /\ DOMAIN v.chunks = DOMAIN w.chunks \union {n}
         /\ \A i \in DOMAIN w.chunks : v.chunks[i] = w.chunks[i]
         /\ v.chunks[n] = entry
         /\ IsTrain(entry)  => Trains(v) = Trains(w) \union {n} /\ Evals(v) = Evals(w)
         /\ ~IsTrain(entry) => Trains(v) = Trains(w) /\ Evals(v) = Evals(w) \union {n}
<1>1. /\ n \notin DOMAIN w.chunks
      /\ DOMAIN v.chunks = DOMAIN w.chunks \union {n}
      /\ \A i \in DOMAIN w.chunks : v.chunks[i] = w.chunks[i]
      /\ v.chunks[n] = entry
  BY DEF WriterType
<1>2. QED
  BY <1>1 DEF Trains, Evals

LEMMA EntryType ==
  ASSUME NEW path \in {"train", "eval"} \X Nat, NEW chunk \in Chunk, chunk.count # 0
  PROVE  Entry(path, chunk) \in ChunkEntry
BY DEF Entry, Chunk, ChunkEntry, Positive

\* The open chunk is closed.
LEMMA ChunkCloses ==
  ASSUME training.replay_train_chunk_steps \in Positive,
         NEW w, WriterType(w), PathsAreUnique(w),
         w.open.count <= Full, \A i \in Trains(w) : w.chunks[i].step_count = Full
  PROVE  LET v == CloseTrainChunk(w) IN
         /\ WriterType(v) /\ PathsAreUnique(v)
         /\ v.open.count = 0
         /\ \A i \in Trains(v) : v.chunks[i].step_count <= Full
         /\ w.open.count \in {0, Full} => Filling(v)
         /\ RowsWritten(v) = RowsWritten(w)
         /\ Evals(v) = Evals(w)
         /\ Cardinality(Trains(v))
              = IF w.open.count = 0 THEN Cardinality(Trains(w)) ELSE Cardinality(Trains(w)) + 1
         /\ \A n \in Nat : EvalsBefore(w, n) => EvalsBefore(v, n)
         /\ \A n \in Nat : InOrderUpTo(w, n) => InOrderUpTo(v, n)
<1> DEFINE v == CloseTrainChunk(w)
<1>1. CASE w.open.count = 0
  <2>1. v = w
    BY <1>1 DEF CloseTrainChunk
  <2>2. Filling(w) /\ \A i \in Trains(w) : w.chunks[i].step_count <= Full
    BY <1>1 DEF Filling, Full, Positive
  <2> HIDE DEF v
  <2>3. QED
    BY <1>1, <2>1, <2>2 DEF v
<1>2. CASE w.open.count # 0
  <2> DEFINE entry == Entry(<<"train", w.opened>>, w.open)
             n == Len(w.chunks) + 1
  <2>1. /\ v.chunks = Append(w.chunks, entry)
        /\ v.open = NoChunk
        /\ v.opened = w.opened
        /\ v = [chunks |-> v.chunks, open |-> v.open, opened |-> v.opened]
    BY <1>2 DEF CloseTrainChunk, WriterType
  <2>2. entry \in ChunkEntry
    BY <1>2, EntryType DEF WriterType
  <2>3. /\ IsTrain(entry) /\ entry.path = <<"train", w.opened>>
        /\ entry.step_count = w.open.count /\ entry.checkpoint_step = w.open.last
        /\ entry.start_step = w.open.first /\ entry.end_step = w.open.last
        /\ entry.least = w.open.least /\ entry.greatest = w.open.greatest
    BY DEF IsTrain, Entry
  <2> n = Len(w.chunks) + 1
    OBVIOUS
  <2> HIDE DEF v, entry, n
  <2>4. /\ n \notin DOMAIN w.chunks
        /\ DOMAIN v.chunks = DOMAIN w.chunks \union {n}
        /\ \A i \in DOMAIN w.chunks : v.chunks[i] = w.chunks[i]
        /\ v.chunks[n] = entry
        /\ Trains(v) = Trains(w) \union {n} /\ Evals(v) = Evals(w)
    <3>1. v.chunks = Append(w.chunks, entry)
      BY <2>1
    <3>2. IsTrain(entry)
      BY <2>3
    <3>3. n = Len(w.chunks) + 1
      OBVIOUS
    <3>4. QED
      BY <2>2, <3>1, <3>2, <3>3, OneMoreChunk
  <2>5. Trains(w) \subseteq DOMAIN w.chunks /\ Evals(w) \subseteq DOMAIN w.chunks
    BY DEF Trains, Evals
  <2>6. v.open.count = 0 /\ NoChunk \in Chunk
    BY <2>1 DEF NoChunk, Chunk
  <2>7. WriterType(v)
    <3>1. Append(w.chunks, entry) \in Seq(ChunkEntry)
      BY <2>2 DEF WriterType
    <3>2. QED
      BY <2>1, <2>6, <3>1 DEF WriterType
  <2>8. PathsAreUnique(v)
    <3>1. w.opened \in Nat /\ w.open.count > 0
      BY <1>2 DEF WriterType, Chunk
    <3>2. \A i \in Trains(v) : v.chunks[i].path[2] <= v.opened
      BY <2>1, <2>3, <2>4, <2>5, <3>1 DEF PathsAreUnique
    <3>3. \A i \in Evals(v) : v.chunks[i].path = <<"eval", v.chunks[i].checkpoint_step>>
      BY <2>4, <2>5 DEF PathsAreUnique
    <3>4. \A i \in DOMAIN w.chunks : w.chunks[i].path # entry.path
      <4>1. \A i \in Trains(w) : w.chunks[i].path[2] < w.opened
        BY <3>1 DEF PathsAreUnique
      <4>2. \A i \in Evals(w) : w.chunks[i].path[1] = "eval"
        BY DEF PathsAreUnique
      <4>3. QED
        BY <2>3, <3>1, <4>1, <4>2 DEF Evals
    <3>5. \A i, j \in DOMAIN v.chunks : v.chunks[i].path = v.chunks[j].path => i = j
      BY <2>4, <3>4 DEF PathsAreUnique
    <3>6. QED
      BY <2>6, <3>2, <3>3, <3>5 DEF PathsAreUnique
  <2>9. \A i \in Trains(v) : v.chunks[i].step_count <= Full
    BY <2>3, <2>4, <2>5 DEF Full, Positive
  <2>10. w.open.count \in {0, Full} => Filling(v)
    BY <1>2, <2>3, <2>4, <2>5, <2>6 DEF Filling, Full, Positive
  <2>11. RowsWritten(v) = RowsWritten(w)
    <3> DEFINE before == [i \in Trains(w) |-> w.chunks[i].step_count]
               after == [i \in Trains(v) |-> v.chunks[i].step_count]
    <3>1. before \in [Trains(w) -> Nat] /\ after \in [Trains(v) -> Nat]
      BY <2>7, WriterIsFinite
    <3>2. \A i \in Trains(w) : after[i] = before[i]
      BY <2>4, <2>5
    <3>3. after[n] = w.open.count
      BY <2>3, <2>4
    <3>4. n \notin Trains(w) /\ IsFiniteSet(Trains(w))
      BY <2>4, <2>5, WriterIsFinite
    <3> HIDE DEF before, after
    <3>5. Tally(Trains(w) \union {n}, after) = Tally(Trains(w), before) + after[n]
      BY <2>4, <3>1, <3>2, <3>4, TallyGrows
    <3>6. Tally(Trains(w), before) \in Nat /\ w.open.count \in Nat
      BY <3>1, <3>4, UnitsFinite DEF WriterType, Chunk
    <3>7. QED
      BY <2>4, <2>6, <3>3, <3>5, <3>6 DEF RowsWritten, before, after
  <2>12. Cardinality(Trains(v)) = Cardinality(Trains(w)) + 1
    <3>1. IsFiniteSet(Trains(w)) /\ n \notin Trains(w)
      BY <2>4, <2>5, WriterIsFinite
    <3>2. QED
      BY <2>4, <3>1, FS_AddElement
  <2>13. \A m \in Nat : EvalsBefore(w, m) => EvalsBefore(v, m)
    BY <2>4, <2>5 DEF EvalsBefore
  <2>14. \A m \in Nat : InOrderUpTo(w, m) => InOrderUpTo(v, m)
    <3>1. w.open.count > 0
      BY <1>2 DEF WriterType, Chunk
    <3>2. QED
      BY <2>3, <2>4, <2>5, <2>6, <3>1 DEF InOrderUpTo
  <2>15. QED
    BY <1>2, <2>4, <2>6, <2>7, <2>8, <2>9, <2>10, <2>11, <2>12, <2>13, <2>14 DEF v
<1>3. QED
  BY <1>1, <1>2

------------------------------------------------------------------------------
(* A row, and an evaluation.                                               *)

\* A row is added to the open chunk, or opens one.
Written(w, checkpoint) ==
  IF w.open.count = 0
    THEN [w EXCEPT !.open = [count |-> 1, first |-> checkpoint, last |-> checkpoint,
                             least |-> checkpoint, greatest |-> checkpoint],
                   !.opened = @ + 1]
    ELSE [w EXCEPT !.open = [w.open EXCEPT !.count = @ + 1,
                                           !.last = checkpoint,
                                           !.least = Min({@, checkpoint}),
                                           !.greatest = Max({@, checkpoint})]]

LEMMA ChunkIsExtended ==
  ASSUME NEW chunk,
         chunk = [count |-> chunk.count, first |-> chunk.first, last |-> chunk.last,
                  least |-> chunk.least, greatest |-> chunk.greatest],
         NEW checkpoint
  PROVE  [chunk EXCEPT !.count = @ + 1,
                       !.last = checkpoint,
                       !.least = Min({@, checkpoint}),
                       !.greatest = Max({@, checkpoint})]
           = [count |-> chunk.count + 1, first |-> chunk.first, last |-> checkpoint,
              least |-> Min({chunk.least, checkpoint}),
              greatest |-> Max({chunk.greatest, checkpoint})]
<1> DEFINE least == Min({chunk.least, checkpoint})
           greatest == Max({chunk.greatest, checkpoint})
           one == [chunk EXCEPT !.count = @ + 1]
           two == [one EXCEPT !.last = checkpoint]
           three == [two EXCEPT !.least = Min({@, checkpoint})]
           four == [three EXCEPT !.greatest = Max({@, checkpoint})]
<1>1. one = [count |-> chunk.count + 1, first |-> chunk.first, last |-> chunk.last,
             least |-> chunk.least, greatest |-> chunk.greatest]
  OBVIOUS
<1> HIDE DEF one
<1>2. two = [count |-> chunk.count + 1, first |-> chunk.first, last |-> checkpoint,
             least |-> chunk.least, greatest |-> chunk.greatest]
  BY <1>1
<1> HIDE DEF two
<1>3. two.least = chunk.least /\ two.greatest = chunk.greatest
  BY <1>2
<1>4. three = [two EXCEPT !.least = least]
  BY <1>3, Zenon
<1> HIDE DEF least, three
<1>5. three = [count |-> chunk.count + 1, first |-> chunk.first, last |-> checkpoint,
               least |-> least, greatest |-> chunk.greatest]
  BY <1>2, <1>4
<1>6. three.greatest = chunk.greatest
  BY <1>5
<1>7. four = [three EXCEPT !.greatest = greatest]
  BY <1>6, Zenon
<1> HIDE DEF greatest, four
<1>8. four = [count |-> chunk.count + 1, first |-> chunk.first, last |-> checkpoint,
              least |-> least, greatest |-> greatest]
  BY <1>5, <1>7
<1>9. QED
  BY <1>8, Zenon DEF one, two, three, four, least, greatest

LEMMA RowIsWritten ==
  ASSUME NEW w, WriterType(w), Filling(w), PathsAreUnique(w), NEW checkpoint \in Nat, Full \in Nat
  PROVE  LET v == Written(w, checkpoint) IN
         /\ WriterType(v) /\ PathsAreUnique(v)
         /\ v.chunks = w.chunks
         /\ v.open.count = w.open.count + 1 /\ v.open.count <= Full
         /\ \A n \in Nat : InOrderUpTo(w, n) /\ n <= checkpoint => InOrderUpTo(v, checkpoint)
<1> DEFINE v == Written(w, checkpoint)
           open == v.open
<1>1. w.opened \in Nat /\ w.chunks \in Seq(ChunkEntry)
  BY DEF WriterType
<1>2. /\ w.open.count \in Nat /\ w.open.first \in Nat /\ w.open.last \in Nat
      /\ w.open.least \in Nat /\ w.open.greatest \in Nat
  BY DEF WriterType, Chunk
<1>3. /\ v.chunks = w.chunks
      /\ v.opened = IF w.open.count = 0 THEN w.opened + 1 ELSE w.opened
      /\ open = IF w.open.count = 0
                  THEN [count |-> 1, first |-> checkpoint, last |-> checkpoint,
                        least |-> checkpoint, greatest |-> checkpoint]
                  ELSE [count |-> w.open.count + 1, first |-> w.open.first, last |-> checkpoint,
                        least |-> Min({w.open.least, checkpoint}),
                        greatest |-> Max({w.open.greatest, checkpoint})]
      /\ v = [chunks |-> v.chunks, open |-> open, opened |-> v.opened]
  <2>1. w = [chunks |-> w.chunks, open |-> w.open, opened |-> w.opened]
    BY WriterRecord
  <2>2. w.open = [count |-> w.open.count, first |-> w.open.first, last |-> w.open.last,
                  least |-> w.open.least, greatest |-> w.open.greatest]
    BY DEF WriterType, Chunk
  <2>3. CASE w.open.count = 0
    <3> DEFINE begin == [count |-> 1, first |-> checkpoint, last |-> checkpoint,
                         least |-> checkpoint, greatest |-> checkpoint]
    <3>1. v = [w EXCEPT !.open = begin, !.opened = @ + 1]
      BY <2>3 DEF Written
    <3> HIDE DEF v, begin
    <3>2. v = [chunks |-> w.chunks, open |-> begin, opened |-> w.opened + 1]
      BY <2>1, <3>1
    <3>3. QED
      BY <2>3, <3>2 DEF begin
  <2>4. CASE w.open.count # 0
    <3> DEFINE extend == [w.open EXCEPT !.count = @ + 1,
                                        !.last = checkpoint,
                                        !.least = Min({@, checkpoint}),
                                        !.greatest = Max({@, checkpoint})]
    <3>1. v = [w EXCEPT !.open = extend]
      BY <2>4 DEF Written
    <3>2. extend = [count |-> w.open.count + 1, first |-> w.open.first, last |-> checkpoint,
                    least |-> Min({w.open.least, checkpoint}),
                    greatest |-> Max({w.open.greatest, checkpoint})]
      BY <2>2, ChunkIsExtended
    <3> HIDE DEF v, extend
    <3>3. v = [chunks |-> w.chunks, open |-> extend, opened |-> w.opened]
      BY <2>1, <3>1
    <3>4. QED
      BY <2>4, <3>2, <3>3
  <2>5. QED
    BY <2>3, <2>4
<1> HIDE DEF v, open
<1>4. /\ Min({w.open.least, checkpoint}) \in {w.open.least, checkpoint}
      /\ Min({w.open.least, checkpoint}) <= w.open.least
      /\ Min({w.open.least, checkpoint}) <= checkpoint
      /\ Max({w.open.greatest, checkpoint}) \in {w.open.greatest, checkpoint}
      /\ w.open.greatest <= Max({w.open.greatest, checkpoint})
      /\ checkpoint <= Max({w.open.greatest, checkpoint})
  BY <1>2, MinOfTwo, MaxOfTwo
<1>5. open.count = w.open.count + 1 /\ open.last = checkpoint
  BY <1>3
<1>6. WriterType(v)
  <2>1. open \in Chunk
    BY <1>2, <1>3, <1>4 DEF Chunk
  <2>2. v.opened \in Nat
    BY <1>1, <1>3
  <2>3. QED
    <3>1. v.chunks \in Seq(ChunkEntry) /\ v.open \in Chunk
      BY <1>1, <1>3, <2>1 DEF open
    <3>2. v = [chunks |-> v.chunks, open |-> v.open, opened |-> v.opened]
      BY <1>3 DEF open
    <3>3. QED
      BY <2>2, <3>1, <3>2, WriterRecord
<1>7. Trains(v) = Trains(w) /\ Evals(v) = Evals(w)
  BY <1>3 DEF Trains, Evals
<1>8. PathsAreUnique(v)
  <2>1. \A i \in Trains(w) : w.chunks[i].path[2] \in Nat
    <3>1. \A i \in DOMAIN w.chunks : w.chunks[i] \in ChunkEntry
      BY <1>1
    <3>2. \A i \in DOMAIN w.chunks : w.chunks[i].path \in {"train", "eval"} \X Nat
      BY <3>1 DEF ChunkEntry
    <3>3. \A i \in DOMAIN w.chunks : w.chunks[i].path[2] \in Nat
      BY <3>2
    <3>4. QED
      BY <3>3, ChunkTypes
  <2>2. \A i \in Trains(v) : v.chunks[i].path[2] <= v.opened /\ v.chunks[i].path[2] < v.opened
    <3>1. CASE w.open.count = 0
      <4>1. \A i \in Trains(w) : w.chunks[i].path[2] <= w.opened
        BY DEF PathsAreUnique
      <4>2. v.opened = w.opened + 1
        BY <1>3, <3>1
      <4>3. QED
        BY <1>1, <1>3, <1>7, <2>1, <4>1, <4>2
    <3>2. CASE w.open.count # 0
      <4>1. \A i \in Trains(w) : w.chunks[i].path[2] < w.opened
        BY <1>2, <3>2 DEF PathsAreUnique
      <4>2. v.opened = w.opened
        BY <1>3, <3>2
      <4>3. QED
        BY <1>1, <1>3, <1>7, <2>1, <4>1, <4>2
    <3>3. QED
      BY <3>1, <3>2
  <2>3. QED
    BY <1>3, <1>7, <2>2 DEF PathsAreUnique
<1>9. open.count <= Full
  BY <1>2, <1>5 DEF Filling
<1>10. ASSUME NEW n \in Nat, InOrderUpTo(w, n), n <= checkpoint
       PROVE  InOrderUpTo(v, checkpoint)
  <2>1. InOrderUpTo(w, checkpoint)
    BY <1>10, BoundsGrow
  <2>2. /\ open.first = open.least /\ open.last = open.greatest
        /\ open.first <= open.last /\ open.last <= checkpoint
    <3>1. CASE w.open.count = 0
      BY <1>3, <3>1
    <3>2. CASE w.open.count # 0
      <4>1. /\ w.open.first = w.open.least /\ w.open.last = w.open.greatest
            /\ w.open.first <= w.open.last /\ w.open.last <= checkpoint
        BY <1>2, <2>1, <3>2 DEF InOrderUpTo
      <4>2. Min({w.open.least, checkpoint}) = w.open.first
        BY <1>2, <1>4, <4>1
      <4>3. Max({w.open.greatest, checkpoint}) = checkpoint
        BY <1>2, <1>4, <4>1
      <4>4. QED
        BY <1>2, <1>3, <3>2, <4>1, <4>2, <4>3
    <3>3. QED
      BY <3>1, <3>2
  <2>3. QED
    BY <1>3, <1>7, <2>1, <2>2 DEF InOrderUpTo, open
<1>11. QED
  BY <1>3, <1>5, <1>6, <1>8, <1>9, <1>10 DEF v, open

LEMMA RowIsRecorded ==
  ASSUME Full \in Positive,
         NEW w, WriterType(w), Filling(w), PathsAreUnique(w), NEW checkpoint \in Nat
  PROVE  LET v == RecordTrainStep(w, checkpoint) IN
         /\ WriterType(v) /\ Filling(v) /\ PathsAreUnique(v)
         /\ RowsWritten(v) = RowsWritten(w) + 1
         /\ Evals(v) = Evals(w)
         /\ \A n \in Nat : EvalsBefore(w, n) => EvalsBefore(v, n)
         /\ \A n \in Nat : InOrderUpTo(w, n) /\ n <= checkpoint => InOrderUpTo(v, checkpoint)
<1> DEFINE u == Written(w, checkpoint)
           v == RecordTrainStep(w, checkpoint)
<1>1. v = IF u.open.count >= Full THEN CloseTrainChunk(u) ELSE u
  BY DEF RecordTrainStep, Written, Full
<1> HIDE DEF v, u
<1>2. /\ WriterType(u) /\ PathsAreUnique(u)
      /\ u.chunks = w.chunks
      /\ u.open.count = w.open.count + 1 /\ u.open.count <= Full
      /\ \A n \in Nat : InOrderUpTo(w, n) /\ n <= checkpoint => InOrderUpTo(u, checkpoint)
  BY RowIsWritten DEF u, Positive
<1>3. /\ Trains(u) = Trains(w) /\ Evals(u) = Evals(w)
      /\ \A n \in Nat : EvalsBefore(w, n) => EvalsBefore(u, n)
  BY <1>2 DEF Trains, Evals, EvalsBefore
<1>4. \A i \in Trains(u) : u.chunks[i].step_count = Full
  BY <1>2, <1>3 DEF Filling
<1>5. RowsWritten(u) = RowsWritten(w) + 1
  <2>1. Tally(Trains(w), [i \in Trains(w) |-> w.chunks[i].step_count]) \in Nat
    BY WriterIsFinite, UnitsFinite
  <2>2. w.open.count \in Nat
    BY ChunkTypes
  <2>3. QED
    BY <1>2, <1>3, <2>1, <2>2 DEF RowsWritten
<1>6. CASE u.open.count >= Full
  <2>1. v = CloseTrainChunk(u) /\ u.open.count = Full
    BY <1>1, <1>2, <1>6, ChunkTypes DEF Positive
  <2>2. /\ WriterType(v) /\ Filling(v) /\ PathsAreUnique(v)
        /\ RowsWritten(v) = RowsWritten(u)
        /\ Evals(v) = Evals(u)
        /\ \A n \in Nat : EvalsBefore(u, n) => EvalsBefore(v, n)
        /\ \A n \in Nat : InOrderUpTo(u, n) => InOrderUpTo(v, n)
    BY <1>2, <1>4, <2>1, ChunkCloses DEF Full
  <2>3. QED
    BY <1>2, <1>3, <1>5, <2>2 DEF v
<1>7. CASE ~(u.open.count >= Full)
  <2>1. v = u
    BY <1>1, <1>7
  <2>2. Filling(u)
    BY <1>2, <1>4, <1>7, ChunkTypes DEF Filling, Positive
  <2>3. QED
    BY <1>2, <1>3, <1>5, <2>1, <2>2 DEF v
<1>8. QED
  BY <1>6, <1>7

LEMMA EvaluationIsWritten ==
  ASSUME NEW w, WriterType(w), Filling(w), PathsAreUnique(w),
         NEW checkpoint \in Nat, EvalsBefore(w, checkpoint)
  PROVE  LET v == WriteEvalCheckpoint(w, checkpoint) IN
         /\ WriterType(v) /\ Filling(v) /\ PathsAreUnique(v)
         /\ v.open = w.open
         /\ RowsWritten(v) = RowsWritten(w)
         /\ Trains(v) = Trains(w)
         /\ Cardinality(Evals(v)) = Cardinality(Evals(w)) + 1
         /\ EvalsBefore(v, checkpoint + 1)
         /\ \A n \in Nat : InOrderUpTo(w, n) => InOrderUpTo(v, n)
<1> DEFINE v == WriteEvalCheckpoint(w, checkpoint)
           rows == [count |-> 1, first |-> checkpoint, last |-> checkpoint,
                    least |-> checkpoint, greatest |-> checkpoint]
           entry == Entry(<<"eval", checkpoint>>, rows)
           n == Len(w.chunks) + 1
<1>1. /\ v.chunks = Append(w.chunks, entry)
      /\ v.open = w.open /\ v.opened = w.opened
      /\ v = [chunks |-> v.chunks, open |-> v.open, opened |-> v.opened]
  <2>1. w = [chunks |-> w.chunks, open |-> w.open, opened |-> w.opened]
    BY WriterRecord
  <2>2. v = [w EXCEPT !.chunks = Append(@, entry)]
    BY DEF WriteEvalCheckpoint
  <2> HIDE DEF v, entry
  <2>3. v = [chunks |-> Append(w.chunks, entry), open |-> w.open, opened |-> w.opened]
    BY <2>1, <2>2
  <2>4. QED
    BY <2>3
<1>2. entry \in ChunkEntry
  <2>1. rows \in Chunk /\ rows.count # 0
    BY DEF Chunk
  <2>2. QED
    BY <2>1, EntryType
<1>3. entry.path = <<"eval", checkpoint>> /\ entry.checkpoint_step = checkpoint /\ ~IsTrain(entry)
  BY DEF IsTrain, Entry
<1>4. n = Len(w.chunks) + 1
  OBVIOUS
<1> HIDE DEF v, entry, n
<1>5. /\ n \notin DOMAIN w.chunks
      /\ DOMAIN v.chunks = DOMAIN w.chunks \union {n}
      /\ \A i \in DOMAIN w.chunks : v.chunks[i] = w.chunks[i]
      /\ v.chunks[n] = entry
      /\ Trains(v) = Trains(w) /\ Evals(v) = Evals(w) \union {n}
  <2>1. v.chunks = Append(w.chunks, entry)
    BY <1>1
  <2>2. QED
    BY <1>2, <1>3, <1>4, <2>1, OneMoreChunk
<1>6. /\ Trains(w) \subseteq DOMAIN w.chunks /\ Evals(w) \subseteq DOMAIN w.chunks
      /\ DOMAIN w.chunks = Trains(w) \union Evals(w)
  BY DEF Trains, Evals
<1>7. WriterType(v)
  <2>1. Append(w.chunks, entry) \in Seq(ChunkEntry)
    BY <1>2 DEF WriterType
  <2>2. QED
    BY <1>1, <2>1 DEF WriterType
<1>8. Filling(v)
  BY <1>1, <1>5, <1>6 DEF Filling
<1>9. PathsAreUnique(v)
  <2>1. \A i \in Trains(w) : w.chunks[i].path[1] = "train"
    BY DEF Trains, IsTrain
  <2>2. \A i \in Evals(w) : w.chunks[i].path[2] # checkpoint
    <3>1. \A i \in Evals(w) : w.chunks[i].checkpoint_step # checkpoint
      BY <1>6, ChunkTypes DEF EvalsBefore
    <3>2. QED
      BY <3>1 DEF PathsAreUnique
  <2>3. \A i \in DOMAIN w.chunks : w.chunks[i].path # entry.path
    BY <1>3, <1>6, <2>1, <2>2
  <2>4. \A i, j \in DOMAIN v.chunks : v.chunks[i].path = v.chunks[j].path => i = j
    BY <1>5, <2>3 DEF PathsAreUnique
  <2>5. QED
    BY <1>1, <1>3, <1>5, <1>6, <2>4 DEF PathsAreUnique
<1>10. RowsWritten(v) = RowsWritten(w)
  <2>1. [i \in Trains(v) |-> v.chunks[i].step_count] = [i \in Trains(w) |-> w.chunks[i].step_count]
    BY <1>5, <1>6
  <2>2. QED
    BY <1>1, <1>5, <2>1 DEF RowsWritten
<1>11. Cardinality(Evals(v)) = Cardinality(Evals(w)) + 1
  <2>1. IsFiniteSet(Evals(w)) /\ n \notin Evals(w)
    BY <1>5, <1>6, WriterIsFinite
  <2>2. QED
    BY <1>5, <2>1, FS_AddElement
<1>12. EvalsBefore(v, checkpoint + 1)
  BY <1>3, <1>5, <1>6, ChunkTypes DEF EvalsBefore
<1>13. \A m \in Nat : InOrderUpTo(w, m) => InOrderUpTo(v, m)
  BY <1>1, <1>5, <1>6 DEF InOrderUpTo
<1>14. QED
  BY <1>1, <1>5, <1>7, <1>8, <1>9, <1>10, <1>11, <1>12, <1>13 DEF v
------------------------------------------------------------------------------
(* The inductive invariant.                                                *)

Timesteps == training.timesteps
Interval == training.replay_eval_interval_steps
Rollout == training.n_steps * training.n_envs

\* The end of the first rollout that reaches timesteps.
End == ((Timesteps + Rollout - 1) \div Rollout) * Rollout

TypesInv ==
  /\ training \in Trainings
  /\ phase \in {"learning", "learned", "evaluated", "finished", "prepared"} \union Refused
  /\ num_timesteps \in Nat
  /\ env \in 0 .. (training.n_envs + 1)
  /\ episodes \in [Envs -> Nat]
  /\ pending \in [Envs -> Nat \union {NoRow}]
  /\ next_eval \in Nat
  /\ last_reported \in 0 .. num_timesteps
  /\ WriterType(writer)

\* Learning stops at End and nowhere else.
RolloutsInv ==
  /\ num_timesteps % training.n_envs = 0
  /\ num_timesteps <= End
  /\ phase = "learning" /\ env = 0 => num_timesteps < End
  /\ env # 0 => num_timesteps >= training.n_envs
  /\ phase # "learning" => env = 0 /\ num_timesteps = End

ChunksInv ==
  /\ PathsAreUnique(writer)
  /\ phase \in {"learning", "learned", "evaluated"} => Filling(writer)
  /\ \A i \in Trains(writer) : writer.chunks[i].step_count <= Full

RowsInv == RowsWritten(writer) = Transitions + Tally(Envs, EpisodesBegun)

\* The evaluations that an interval made due.
CheckpointEvals ==
  IF phase \in {"learning", "learned"} THEN Cardinality(Evals(writer))
  ELSE Cardinality(Evals(writer)) - 1

EvalsInv ==
  /\ CheckpointEvals \in Nat
  /\ Interval = 0 => CheckpointEvals = 0
  /\ Interval > 0 =>
       /\ next_eval = (CheckpointEvals + 1) * Interval
       /\ CheckpointEvals * Interval < Timesteps
  /\ phase \in {"learning", "learned"} => EvalsBefore(writer, Timesteps)
  /\ phase = "learning" => EvalsBefore(writer, IF env = 0 THEN num_timesteps + 1 ELSE num_timesteps)
  /\ EvalsBefore(writer, Timesteps + 1)

\* Evaluations are made for every Stride of what the callback has finished.
Stride == Max({Interval, training.n_envs})
Passed ==
  Min({IF env = 0 THEN num_timesteps ELSE num_timesteps - training.n_envs, LastStepBefore})

PaceInv ==
  Interval > 0 =>
    CheckpointEvals * Stride <= Passed /\ Passed < (CheckpointEvals + 1) * Stride

\* One environment records its rows in the order of their checkpoints.
SingleInv ==
  training.n_envs = 1 =>
    /\ EpisodesBegun[1] <= Transitions
    /\ pending[1] # NoRow => pending[1] <= num_timesteps
    /\ InOrderUpTo(writer, IF pending[1] = NoRow THEN num_timesteps ELSE pending[1])

IInv ==
  /\ TypesInv
  /\ RolloutsInv
  /\ ChunksInv
  /\ RowsInv
  /\ EvalsInv
  /\ PaceInv
  /\ SingleInv
  /\ BundleIsAccepted
LEMMA Parameters ==
  ASSUME training \in Trainings
  PROVE  /\ Timesteps \in Nat \ {0} /\ training.n_envs \in Nat \ {0}
         /\ training.n_steps \in Nat \ {0} /\ Rollout \in Nat \ {0}
         /\ Interval \in Nat /\ Full \in Positive
<1>1. training \in TrainingSpec
  BY TrainingsAssumption
<1>2. /\ training.timesteps \in Nat \ {0} /\ training.n_envs \in Nat \ {0}
      /\ training.n_steps \in Nat \ {0}
      /\ training.replay_eval_interval_steps \in Nat
      /\ training.replay_train_chunk_steps \in Positive
  BY <1>1 DEF TrainingSpec, Positive
<1>3. QED
  BY <1>2 DEF Timesteps, Rollout, Interval, Full

LEMMA EndOfLearning ==
  ASSUME training \in Trainings
  PROVE  /\ End \in Nat /\ Timesteps <= End /\ End < Timesteps + Rollout
         /\ End % Rollout = 0
         /\ \E k \in Nat : End = k * training.n_envs
<1> DEFINE q == (Timesteps + Rollout - 1) \div Rollout
<1>1. Timesteps \in Nat \ {0} /\ Rollout \in Positive
  BY Parameters DEF Positive
<1>2. q \in Nat /\ Timesteps <= q * Rollout /\ q * Rollout < Timesteps + Rollout
  BY <1>1 DEF Positive
<1>3. End = q * Rollout
  BY DEF End
<1> HIDE DEF q
<1>4. End \in Nat /\ End % Rollout = 0
  BY <1>1, <1>2, <1>3, MultipleHasNoRemainder DEF Positive
<1>5. End = (q * training.n_steps) * training.n_envs /\ q * training.n_steps \in Nat
  BY <1>2, <1>3, Parameters DEF Rollout
<1>6. QED
  BY <1>2, <1>3, <1>4, <1>5

\* The training stays what it is.
LEMMA SameTraining ==
  ASSUME training' = training
  PROVE  /\ Timesteps' = Timesteps /\ Rollout' = Rollout /\ Interval' = Interval
         /\ Full' = Full /\ End' = End /\ Envs' = Envs
BY DEF Timesteps, Rollout, Interval, Full, End, Envs

\* Of the steps before timesteps, LastStepBefore is the last.
LEMMA LastStep ==
  ASSUME training \in Trainings
  PROVE  /\ LastStepBefore \in Nat
         /\ LastStepBefore < Timesteps
         /\ Timesteps <= LastStepBefore + training.n_envs
         /\ \E k \in Nat : LastStepBefore = k * training.n_envs
<1> DEFINE k == (Timesteps - 1) \div training.n_envs
<1>1. Timesteps - 1 \in Nat /\ training.n_envs \in Positive /\ Timesteps \in Nat
  BY Parameters DEF Positive
<1>2. /\ k \in Nat /\ k * training.n_envs <= Timesteps - 1
      /\ Timesteps - 1 < (k + 1) * training.n_envs
  BY <1>1 DEF Positive
<1>3. LastStepBefore = k * training.n_envs
  BY DEF LastStepBefore, Timesteps
<1> HIDE DEF k
<1>4. /\ k * training.n_envs \in Nat
      /\ (k + 1) * training.n_envs = k * training.n_envs + training.n_envs
  BY <1>1, <1>2 DEF Positive
<1>5. QED
  BY <1>1, <1>2, <1>3, <1>4 DEF Positive

LEMMA StrideIs ==
  ASSUME training \in Trainings
  PROVE  /\ Stride \in Positive
         /\ training.n_envs <= Interval => Stride = Interval
         /\ Interval < training.n_envs => Stride = training.n_envs
<1>1. Interval \in Nat /\ training.n_envs \in Nat \ {0}
  BY Parameters
<1>2. /\ Stride \in {Interval, training.n_envs}
      /\ Interval <= Stride /\ training.n_envs <= Stride
  BY <1>1, MaxOfTwo DEF Stride
<1>3. QED
  BY <1>1, <1>2 DEF Positive

\* No evaluation is made, and what has passed stays.
LEMMA SamePace ==
  ASSUME PaceInv, training' = training, CheckpointEvals' = CheckpointEvals,
         Passed' = Passed
  PROVE  PaceInv'
<1>1. Interval' = Interval /\ Stride' = Stride
  BY DEF Interval, Stride
<1>2. QED
  BY <1>1 DEF PaceInv

\* A callback that makes an evaluation if one is due keeps the pace.
LEMMA PaceGoesOn ==
  ASSUME NEW interval \in Positive, NEW envs \in Positive,
         NEW stride, stride = IF envs <= interval THEN interval ELSE envs,
         NEW evals \in Nat, NEW p \in Nat,
         evals * stride <= p * envs, p * envs < (evals + 1) * stride
  PROVE  LET now == p * envs + envs
             made == IF (evals + 1) * interval <= now THEN evals + 1 ELSE evals
         IN  made * stride <= now /\ now < (made + 1) * stride
<1>1. CASE envs <= interval
  <2>1. /\ stride = interval /\ evals * interval \in Nat /\ p * envs \in Nat
        /\ (evals + 1) * interval = evals * interval + interval
        /\ (evals + 1 + 1) * interval = evals * interval + interval + interval
    BY <1>1 DEF Positive
  <2>2. QED
    BY <1>1, <2>1 DEF Positive
<1>2. CASE interval < envs
  <2>1. stride = envs
    BY <1>2 DEF Positive
  <2>2. p = evals
    <3>1. ~(p < evals)
      <4>1. ASSUME p < evals
            PROVE  FALSE
        <5>1. p * envs < evals * envs
          BY <4>1 DEF Positive
        <5>2. p * envs \in Nat /\ evals * envs \in Nat
          BY DEF Positive
        <5>3. QED
          BY <2>1, <5>1, <5>2
      <4>2. QED
        BY <4>1
    <3>2. ~(evals < p)
      <4>1. ASSUME evals < p
            PROVE  FALSE
        <5>1. evals + 1 <= p
          BY <4>1
        <5>2. (evals + 1) * envs <= p * envs
          BY <5>1 DEF Positive
        <5>3. p * envs \in Nat /\ (evals + 1) * envs \in Nat
          BY DEF Positive
        <5>4. QED
          BY <2>1, <5>2, <5>3
      <4>2. QED
        BY <4>1
    <3>3. QED
      BY <3>1, <3>2
  <2>3. /\ (evals + 1) * interval <= (evals + 1) * envs
        /\ (evals + 1) * envs = evals * envs + envs
        /\ (evals + 1 + 1) * envs = evals * envs + envs + envs
        /\ evals * envs \in Nat
    BY <1>2 DEF Positive
  <2>4. QED
    BY <2>1, <2>2, <2>3 DEF Positive
<1>3. QED
  BY <1>1, <1>2 DEF Positive

\* No row is written and no episode begins.
LEMMA SameRows ==
  ASSUME RowsInv, Envs' = Envs, Transitions' = Transitions, EpisodesBegun' = EpisodesBegun,
         RowsWritten(writer') = RowsWritten(writer)
  PROVE  RowsInv'
<1>1. RowsWritten(writer') = Transitions' + Tally(Envs', EpisodesBegun')
  BY DEF RowsInv
<1>2. QED
  BY <1>1 DEF RowsInv, RowsWritten, Trains, IsTrain, Tally

------------------------------------------------------------------------------
(* It holds initially, and every action preserves it.                      *)

LEMMA InitiallyInv ==
  ASSUME Init
  PROVE  IInv
<1>1. training \in Trainings /\ Envs = 1 .. training.n_envs
  BY DEF Init, Envs
<1>2. /\ Timesteps \in Nat \ {0} /\ training.n_envs \in Nat \ {0}
      /\ Rollout \in Nat \ {0} /\ Interval \in Nat /\ Full \in Positive
  BY <1>1, Parameters
<1>3. writer.chunks = <<>> /\ writer.open = NoChunk /\ writer.opened = 0
  BY DEF Init, NewWriter
<1>4. WriterType(writer)
  <2>1. NoChunk \in Chunk /\ <<>> \in Seq(ChunkEntry)
    BY DEF NoChunk, Chunk
  <2>2. QED
    BY <2>1 DEF Init, NewWriter, WriterType
<1>5. Trains(writer) = {} /\ Evals(writer) = {} /\ writer.open.count = 0
  BY <1>3 DEF Trains, Evals, NoChunk
<1>6. Cardinality({}) = 0
  BY FS_EmptySet
<1>7. TypesInv
  <2>1. next_eval \in Nat
    BY <1>2 DEF Init, Interval
  <2>2. episodes \in [Envs -> Nat] /\ pending \in [Envs -> Nat \union {NoRow}]
    BY DEF Init
  <2>3. env \in 0 .. (training.n_envs + 1) /\ last_reported \in 0 .. num_timesteps
    BY <1>2 DEF Init
  <2>4. QED
    BY <1>1, <1>4, <2>1, <2>2, <2>3 DEF Init, TypesInv
<1>8. RolloutsInv
  BY <1>1, <1>2, EndOfLearning DEF Init, RolloutsInv
<1>9. ChunksInv
  BY <1>2, <1>3, <1>5 DEF ChunksInv, PathsAreUnique, Filling, Positive
<1>10. RowsInv
  <2>1. Units(Trains(writer), [i \in Trains(writer) |-> writer.chunks[i].step_count]) = {}
    BY <1>5 DEF Units
  <2>2. Units(Envs, EpisodesBegun) = {}
    <3>1. \A i \in Envs : EpisodesBegun[i] = 0
      BY NoRowAssumption DEF Init, EpisodesBegun
    <3>2. QED
      BY <3>1 DEF Units
  <2>3. Transitions = 0
    BY DEF Init, Transitions
  <2>4. QED
    BY <1>5, <1>6, <2>1, <2>2, <2>3 DEF RowsInv, RowsWritten, Tally, Units
<1>11. CheckpointEvals = 0
  BY <1>5, <1>6 DEF Init, CheckpointEvals
<1>12. EvalsInv
  BY <1>2, <1>5, <1>11 DEF Init, EvalsInv, EvalsBefore, Interval
<1>13. PaceInv
  <2>1. Passed = 0
    <3>1. LastStepBefore \in Nat /\ num_timesteps = 0 /\ env = 0
      BY <1>1, LastStep DEF Init
    <3>2. Passed = Min({0, LastStepBefore})
      BY <3>1 DEF Passed
    <3>3. QED
      BY <3>1, <3>2, MinOfTwo
  <2>2. Stride \in Positive
    BY <1>1, StrideIs
  <2>3. QED
    BY <1>11, <2>1, <2>2 DEF PaceInv, Positive
<1>14. SingleInv
  <2>1. SUFFICES ASSUME training.n_envs = 1
                 PROVE  /\ EpisodesBegun[1] <= Transitions
                        /\ pending[1] # NoRow => pending[1] <= num_timesteps
                        /\ InOrderUpTo(writer, IF pending[1] = NoRow THEN num_timesteps ELSE pending[1])
    BY DEF SingleInv
  <2>2. 1 \in Envs
    BY <1>1, <2>1
  <2>3. pending[1] = 0 /\ EpisodesBegun[1] = 0 /\ Transitions = 0 /\ num_timesteps = 0
    BY <2>2, NoRowAssumption DEF Init, EpisodesBegun, Transitions
  <2>4. QED
    BY <1>5, <2>3 DEF InOrderUpTo
<1>15. BundleIsAccepted
  BY DEF Init, BundleIsAccepted, Refused
<1>16. QED
  BY <1>7, <1>8, <1>9, <1>10, <1>12, <1>13, <1>14, <1>15 DEF IInv

LEMMA StepEnvironmentsInv ==
  ASSUME IInv, StepEnvironments
  PROVE  IInv'
<1> USE DEF IInv
<1>1. /\ phase = "learning" /\ env = 0 /\ env' = 1
      /\ num_timesteps' = num_timesteps + training.n_envs
      /\ training' = training /\ phase' = phase /\ episodes' = episodes
      /\ pending' = pending /\ next_eval' = next_eval /\ last_reported' = last_reported
      /\ writer' = writer
  BY DEF StepEnvironments
<1>2. /\ num_timesteps \in Nat /\ training \in Trainings /\ WriterType(writer)
      /\ training.n_envs \in Nat \ {0}
  BY Parameters DEF TypesInv
<1>3. /\ Timesteps' = Timesteps /\ Rollout' = Rollout /\ Interval' = Interval
      /\ Full' = Full /\ End' = End /\ Envs' = Envs
  BY <1>1, SameTraining
<1>4. TypesInv'
  BY <1>1, <1>2, <1>3 DEF TypesInv, WriterType
<1>5. RolloutsInv'
  <2>1. PICK j \in Nat : num_timesteps = j * training.n_envs
    BY <1>2, NoRemainderIsMultiple DEF RolloutsInv, Positive
  <2>2. PICK k \in Nat : End = k * training.n_envs
    BY <1>2, EndOfLearning
  <2>3. num_timesteps' = (j + 1) * training.n_envs
    BY <1>1, <1>2, <2>1
  <2>4. num_timesteps' % training.n_envs = 0
    BY <1>2, <2>3, MultipleHasNoRemainder DEF Positive
  <2>5. num_timesteps' <= End
    <3>1. j * training.n_envs < k * training.n_envs
      BY <1>1, <2>1, <2>2 DEF RolloutsInv
    <3>2. QED
      BY <1>1, <1>2, <2>1, <2>2, <3>1, NextMultiple DEF Positive
  <2>6. QED
    BY <1>1, <1>2, <1>3, <2>4, <2>5 DEF RolloutsInv
<1>6. ChunksInv'
  BY <1>1, <1>3 DEF ChunksInv, PathsAreUnique, Filling, Trains, Evals, IsTrain
<1>7. Transitions' = Transitions /\ EpisodesBegun' = EpisodesBegun
  BY <1>1, <1>2, <1>3 DEF Transitions, EpisodesBegun
<1>8. RowsInv'
  BY <1>1, <1>3, <1>7, SameRows
<1>9. CheckpointEvals' = CheckpointEvals
  BY <1>1 DEF CheckpointEvals, Evals, Trains, IsTrain
<1>10. EvalsInv'
  <2>1. EvalsBefore(writer, num_timesteps')
    <3>1. EvalsBefore(writer, num_timesteps + 1)
      BY <1>1 DEF EvalsInv
    <3>2. num_timesteps + 1 \in Nat /\ num_timesteps' \in Nat /\ num_timesteps + 1 <= num_timesteps'
      BY <1>1, <1>2
    <3>3. QED
      BY <1>2, <3>1, <3>2, BoundsGrow
  <2>2. QED
    BY <1>1, <1>3, <1>9, <2>1 DEF EvalsInv, EvalsBefore, Evals, Trains, IsTrain
<1>11. PaceInv'
  <2>1. Passed' = Passed
    <3>1. num_timesteps' - training'.n_envs = num_timesteps
      BY <1>1, <1>2
    <3>2. LastStepBefore' = LastStepBefore
      BY <1>1 DEF LastStepBefore
    <3>3. Passed' = Min({num_timesteps' - training'.n_envs, LastStepBefore'})
      BY <1>1 DEF Passed
    <3>4. QED
      BY <1>1, <3>1, <3>2, <3>3 DEF Passed
  <2>2. QED
    BY <1>1, <1>9, <2>1, SamePace
<1>12. SingleInv'
  <2>1. SUFFICES ASSUME training.n_envs = 1
                 PROVE  LET last == IF pending[1] = NoRow THEN num_timesteps' ELSE pending[1] IN
                        /\ EpisodesBegun'[1] <= Transitions'
                        /\ pending[1] # NoRow => pending[1] <= num_timesteps'
                        /\ InOrderUpTo(writer, last)
    BY <1>1 DEF SingleInv, InOrderUpTo, Trains, IsTrain
  <2>2. pending[1] \in Nat \union {NoRow}
    BY <2>1 DEF TypesInv, Envs
  <2>3. InOrderUpTo(writer, num_timesteps) => InOrderUpTo(writer, num_timesteps')
    BY <1>1, <1>2, BoundsGrow
  <2>4. QED
    BY <1>1, <1>2, <1>7, <2>1, <2>2, <2>3 DEF SingleInv
<1>13. BundleIsAccepted'
  BY <1>1 DEF BundleIsAccepted, Refused
<1>14. QED
  BY <1>4, <1>5, <1>6, <1>8, <1>10, <1>11, <1>12, <1>13
\* The initial row that precedes a transition, if an episode begins with it.
LEMMA InitialRowInv ==
  ASSUME IInv, env \in Envs,
         NEW begun, begun = IF pending[env] = NoRow THEN writer
                            ELSE RecordTrainStep(writer, pending[env])
  PROVE  /\ WriterType(begun) /\ Filling(begun) /\ PathsAreUnique(begun)
         /\ RowsWritten(begun) = IF pending[env] = NoRow THEN RowsWritten(writer)
                                 ELSE RowsWritten(writer) + 1
         /\ Evals(begun) = Evals(writer)
         /\ \A n \in Nat : EvalsBefore(writer, n) => EvalsBefore(begun, n)
         /\ training.n_envs = 1 =>
              \E n \in Nat : n <= num_timesteps /\ InOrderUpTo(begun, n)
<1>1. /\ phase = "learning" /\ WriterType(writer) /\ Filling(writer) /\ PathsAreUnique(writer)
      /\ pending[env] \in Nat \union {NoRow} /\ num_timesteps \in Nat
      /\ Full \in Positive
  BY Parameters DEF IInv, TypesInv, RolloutsInv, ChunksInv, Envs
<1>2. training.n_envs = 1 =>
        /\ pending[env] # NoRow => pending[env] <= num_timesteps
        /\ InOrderUpTo(writer, IF pending[env] = NoRow THEN num_timesteps ELSE pending[env])
  BY DEF IInv, SingleInv, Envs
<1>3. CASE pending[env] = NoRow
  BY <1>1, <1>2, <1>3
<1>4. CASE pending[env] # NoRow
  <2>1. pending[env] \in Nat /\ begun = RecordTrainStep(writer, pending[env])
    BY <1>1, <1>4
  <2>2. /\ WriterType(begun) /\ Filling(begun) /\ PathsAreUnique(begun)
        /\ RowsWritten(begun) = RowsWritten(writer) + 1
        /\ Evals(begun) = Evals(writer)
        /\ \A n \in Nat : EvalsBefore(writer, n) => EvalsBefore(begun, n)
        /\ \A n \in Nat : InOrderUpTo(writer, n) /\ n <= pending[env]
                            => InOrderUpTo(begun, pending[env])
    BY <1>1, <2>1, RowIsRecorded
  <2>3. training.n_envs = 1 => InOrderUpTo(begun, pending[env]) /\ pending[env] <= num_timesteps
    BY <1>2, <1>4, <2>1, <2>2
  <2>4. QED
    BY <1>4, <2>1, <2>2, <2>3
<1>5. QED
  BY <1>3, <1>4

LEMMA RecordTransitionInv ==
  ASSUME IInv, NEW done \in BOOLEAN, RecordTransition(done)
  PROVE  IInv'
<1> USE DEF IInv
<1> DEFINE begun == IF pending[env] = NoRow THEN writer
                    ELSE RecordTrainStep(writer, pending[env])
<1>1. /\ env \in Envs /\ env' = env + 1
      /\ writer' = RecordTrainStep(begun, num_timesteps)
      /\ pending' = [pending EXCEPT ![env] = IF done THEN num_timesteps ELSE NoRow]
      /\ episodes' = [episodes EXCEPT ![env] = IF done THEN @ + 1 ELSE @]
      /\ training' = training /\ phase' = phase /\ num_timesteps' = num_timesteps
      /\ next_eval' = next_eval /\ last_reported' = last_reported
  BY DEF RecordTransition
<1>2. /\ num_timesteps \in Nat /\ training \in Trainings /\ WriterType(writer)
      /\ training.n_envs \in Nat \ {0} /\ Full \in Positive
      /\ env \in 1 .. training.n_envs /\ env # 0 /\ phase = "learning"
  BY <1>1, Parameters DEF TypesInv, RolloutsInv, Envs
<1>3. /\ Timesteps' = Timesteps /\ Rollout' = Rollout /\ Interval' = Interval
      /\ Full' = Full /\ End' = End /\ Envs' = Envs
  BY <1>1, SameTraining
<1>4. /\ WriterType(begun) /\ Filling(begun) /\ PathsAreUnique(begun)
      /\ RowsWritten(begun) = IF pending[env] = NoRow THEN RowsWritten(writer)
                              ELSE RowsWritten(writer) + 1
      /\ Evals(begun) = Evals(writer)
      /\ \A n \in Nat : EvalsBefore(writer, n) => EvalsBefore(begun, n)
      /\ training.n_envs = 1 => \E n \in Nat : n <= num_timesteps /\ InOrderUpTo(begun, n)
  BY <1>1, InitialRowInv
<1> HIDE DEF begun
<1>5. /\ WriterType(writer') /\ Filling(writer') /\ PathsAreUnique(writer')
      /\ RowsWritten(writer') = RowsWritten(begun) + 1
      /\ Evals(writer') = Evals(writer)
      /\ \A n \in Nat : EvalsBefore(writer, n) => EvalsBefore(writer', n)
      /\ training.n_envs = 1 => InOrderUpTo(writer', num_timesteps)
  BY <1>1, <1>2, <1>4, RowIsRecorded
<1>6. TypesInv'
  <2>1. pending' \in [Envs -> Nat \union {NoRow}] /\ episodes' \in [Envs -> Nat]
    BY <1>1, <1>2 DEF TypesInv
  <2>2. env' \in 0 .. (training.n_envs + 1)
    BY <1>1, <1>2
  <2>3. QED
    BY <1>1, <1>2, <1>3, <1>5, <2>1, <2>2 DEF TypesInv, WriterType
<1>7. RolloutsInv'
  BY <1>1, <1>2, <1>3 DEF RolloutsInv
<1>8. ChunksInv'
  <2>1. \A i \in Trains(writer') : writer'.chunks[i].step_count <= Full
    BY <1>2, <1>5 DEF Filling, Positive
  <2>2. QED
    BY <1>1, <1>3, <1>5, <2>1 DEF ChunksInv, PathsAreUnique, Filling, Trains, Evals, IsTrain
<1>9. Transitions \in Nat /\ Transitions' = Transitions + 1
  <2>1. num_timesteps >= training.n_envs
    BY <1>2 DEF RolloutsInv
  <2>2. QED
    BY <1>1, <1>2, <2>1 DEF Transitions
<1>10. /\ EpisodesBegun \in [Envs -> Nat]
       /\ EpisodesBegun' = IF pending[env] = NoRow THEN EpisodesBegun
                           ELSE [EpisodesBegun EXCEPT ![env] = @ + 1]
  <2>1. EpisodesBegun \in [Envs -> Nat]
    BY DEF TypesInv, EpisodesBegun
  <2>2. EpisodesBegun' = [i \in Envs |-> IF pending'[i] = NoRow THEN episodes'[i] + 1
                                         ELSE episodes'[i]]
    BY <1>3 DEF EpisodesBegun
  <2>3. \A i \in Envs \ {env} : EpisodesBegun'[i] = EpisodesBegun[i]
    BY <1>1, <2>2 DEF TypesInv, EpisodesBegun
  <2>4. EpisodesBegun'[env] = episodes[env] + 1
    BY <1>1, <1>2, <2>2, NoRowAssumption DEF TypesInv
  <2>5. EpisodesBegun[env] = IF pending[env] = NoRow THEN episodes[env] + 1 ELSE episodes[env]
    BY <1>1 DEF EpisodesBegun
  <2>6. QED
    BY <2>1, <2>2, <2>3, <2>4, <2>5
<1>11. RowsInv'
  <2>1. IsFiniteSet(Envs)
    BY <1>2, FS_Interval DEF Envs
  <2>2. Tally(Envs, EpisodesBegun) \in Nat
    BY <1>10, <2>1, UnitsFinite
  <2>3. Tally(Envs, EpisodesBegun')
          = IF pending[env] = NoRow THEN Tally(Envs, EpisodesBegun)
            ELSE Tally(Envs, EpisodesBegun) + 1
    BY <1>1, <1>10, <2>1, TallyIncreases
  <2>4. RowsWritten(writer') = Transitions' + Tally(Envs, EpisodesBegun')
    BY <1>4, <1>5, <1>9, <2>2, <2>3 DEF RowsInv
  <2>5. QED
    BY <1>3, <2>4 DEF RowsInv, RowsWritten, Trains, IsTrain, Tally
<1>12. CheckpointEvals' = CheckpointEvals
  BY <1>1, <1>5 DEF CheckpointEvals, Evals, Trains, IsTrain
<1>13. EvalsInv'
  <2>1. Timesteps \in Nat
    BY <1>2, Parameters
  <2>2. /\ EvalsBefore(writer', Timesteps) /\ EvalsBefore(writer', Timesteps + 1)
        /\ EvalsBefore(writer', num_timesteps)
    BY <1>2, <1>5, <2>1 DEF EvalsInv
  <2>3. env' # 0
    BY <1>1, <1>2
  <2>4. QED
    BY <1>1, <1>2, <1>3, <1>12, <2>2, <2>3 DEF EvalsInv, EvalsBefore, Evals, Trains, IsTrain
<1>14. PaceInv'
  <2>1. Passed' = Passed
    <3>1. env # 0 /\ env' # 0
      BY <1>1, <1>2
    <3>2. LastStepBefore' = LastStepBefore
      BY <1>1 DEF LastStepBefore
    <3>3. Passed' = Min({num_timesteps' - training'.n_envs, LastStepBefore'})
      BY <3>1 DEF Passed
    <3>4. QED
      BY <1>1, <3>1, <3>2, <3>3 DEF Passed
  <2>2. QED
    BY <1>1, <1>12, <2>1, SamePace
<1>15. SingleInv'
  <2>1. SUFFICES ASSUME training.n_envs = 1
                 PROVE  LET last == IF pending'[1] = NoRow THEN num_timesteps ELSE pending'[1] IN
                        /\ EpisodesBegun'[1] <= Transitions'
                        /\ pending'[1] # NoRow => pending'[1] <= num_timesteps
                        /\ InOrderUpTo(writer', last)
    BY <1>1 DEF SingleInv, InOrderUpTo, Trains, IsTrain
  <2>2. env = 1 /\ 1 \in Envs
    BY <1>2, <2>1 DEF Envs
  <2>3. pending'[1] \in {num_timesteps, NoRow}
    BY <1>1, <2>2 DEF TypesInv
  <2>4. EpisodesBegun'[1] <= EpisodesBegun[1] + 1
    BY <1>10, <2>2
  <2>5. EpisodesBegun'[1] <= Transitions'
    BY <1>9, <1>10, <2>1, <2>2, <2>4 DEF SingleInv
  <2>6. QED
    BY <1>2, <1>5, <2>1, <2>3, <2>5
<1>16. BundleIsAccepted'
  BY <1>1, <1>2 DEF BundleIsAccepted, Refused
<1>17. QED
  BY <1>6, <1>7, <1>8, <1>11, <1>13, <1>14, <1>15, <1>16
LEMMA EndStepInv ==
  ASSUME IInv, EndStep
  PROVE  IInv'
<1> USE DEF IInv
<1> DEFINE due == EvalIsDue
<1>1. /\ phase = "learning" /\ env = training.n_envs + 1 /\ env' = 0
      /\ last_reported' = IF num_timesteps - last_reported >= ReportInterval
                            THEN num_timesteps ELSE last_reported
      /\ writer' = IF due THEN WriteEvalCheckpoint(writer, num_timesteps) ELSE writer
      /\ next_eval' = IF due THEN next_eval + Interval ELSE next_eval
      /\ phase' = IF LearningEnds THEN "learned" ELSE "learning"
      /\ training' = training /\ num_timesteps' = num_timesteps /\ episodes' = episodes
      /\ pending' = pending
  BY DEF EndStep, RecordCheckpointEval, Interval
<1>2. /\ num_timesteps \in Nat /\ training \in Trainings /\ WriterType(writer)
      /\ training.n_envs \in Nat \ {0} /\ env # 0
      /\ Timesteps \in Nat \ {0} /\ Interval \in Nat /\ next_eval \in Nat
      /\ last_reported \in 0 .. num_timesteps
  BY <1>1, Parameters DEF TypesInv
<1>3. /\ Timesteps' = Timesteps /\ Rollout' = Rollout /\ Interval' = Interval
      /\ Full' = Full /\ End' = End /\ Envs' = Envs
  BY <1>1, SameTraining
<1>4. due <=> Interval > 0 /\ num_timesteps >= next_eval /\ num_timesteps < Timesteps
  BY DEF EvalIsDue, Interval, Timesteps
<1>5. Filling(writer) /\ PathsAreUnique(writer) /\ EvalsBefore(writer, num_timesteps)
  BY <1>1, <1>2 DEF ChunksInv, EvalsInv
<1> HIDE DEF due
<1>6. /\ WriterType(writer') /\ Filling(writer') /\ PathsAreUnique(writer')
      /\ RowsWritten(writer') = RowsWritten(writer)
      /\ Trains(writer') = Trains(writer)
      /\ Cardinality(Evals(writer'))
           = IF due THEN Cardinality(Evals(writer)) + 1 ELSE Cardinality(Evals(writer))
      /\ EvalsBefore(writer', IF due THEN num_timesteps + 1 ELSE num_timesteps)
      /\ \A n \in Nat : InOrderUpTo(writer, n) => InOrderUpTo(writer', n)
  <2>1. CASE due
    <3>1. writer' = WriteEvalCheckpoint(writer, num_timesteps)
      BY <1>1, <2>1
    <3>2. QED
      BY <1>2, <1>5, <2>1, <3>1, EvaluationIsWritten
  <2>2. CASE ~due
    BY <1>1, <1>2, <1>5, <2>2
  <2>3. QED
    BY <2>1, <2>2
<1>7. TypesInv'
  <2>1. next_eval' \in Nat /\ env' \in 0 .. (training.n_envs + 1)
        /\ last_reported' \in 0 .. num_timesteps /\ phase' \in {"learned", "learning"}
    BY <1>1, <1>2
  <2>2. QED
    BY <1>1, <1>2, <1>3, <1>6, <2>1 DEF TypesInv, WriterType
<1>8. /\ num_timesteps <= End
      /\ LearningEnds => num_timesteps = End
      /\ ~LearningEnds => num_timesteps < End
  <2>1. /\ End \in Nat /\ Timesteps <= End /\ End < Timesteps + Rollout
        /\ End % Rollout = 0 /\ Rollout \in Positive
    BY <1>2, EndOfLearning, Parameters DEF Positive
  <2>2. num_timesteps <= End
    BY DEF RolloutsInv
  <2>3. LearningEnds <=> num_timesteps % Rollout = 0 /\ num_timesteps >= Timesteps
    BY DEF LearningEnds, Rollout, Timesteps
  <2>4. ASSUME LearningEnds, num_timesteps < End
        PROVE  FALSE
    <3>1. PICK p \in Nat : num_timesteps = p * Rollout
      BY <1>2, <2>1, <2>3, <2>4, NoRemainderIsMultiple
    <3>2. PICK q \in Nat : End = q * Rollout
      BY <2>1, NoRemainderIsMultiple
    <3>3. num_timesteps + Rollout <= End
      <4>1. p * Rollout < q * Rollout
        BY <2>4, <3>1, <3>2
      <4>2. QED
        BY <2>1, <3>1, <3>2, <4>1, NextMultiple
    <3>4. QED
      BY <1>2, <2>1, <2>3, <2>4, <3>3 DEF Positive
  <2>5. ASSUME ~LearningEnds
        PROVE  num_timesteps < End
    BY <1>2, <2>1, <2>2, <2>3, <2>5
  <2>6. QED
    BY <1>2, <2>1, <2>2, <2>4, <2>5
<1>9. RolloutsInv'
  BY <1>1, <1>3, <1>8 DEF RolloutsInv
<1>10. ChunksInv'
  <2>1. \A i \in Trains(writer') : writer'.chunks[i].step_count <= Full
    BY <1>2, <1>6, Parameters DEF Filling, Positive
  <2>2. QED
    BY <1>3, <1>6, <2>1 DEF ChunksInv, PathsAreUnique, Filling, Trains, Evals, IsTrain
<1>11. Transitions' = Transitions /\ EpisodesBegun' = EpisodesBegun
  BY <1>1, <1>2, <1>3 DEF Transitions, EpisodesBegun
<1>12. RowsInv'
  BY <1>3, <1>6, <1>11, SameRows
<1>13. CheckpointEvals' = IF due THEN CheckpointEvals + 1 ELSE CheckpointEvals
  <2>1. phase \in {"learning", "learned"} /\ phase' \in {"learning", "learned"}
    BY <1>1
  <2>2. CheckpointEvals = Cardinality(Evals(writer))
    BY <2>1 DEF CheckpointEvals
  <2>3. CheckpointEvals' = Cardinality(Evals(writer'))
    BY <2>1 DEF CheckpointEvals, Evals, Trains, IsTrain
  <2>4. QED
    BY <1>6, <2>2, <2>3
<1>14. CheckpointEvals \in Nat
  BY DEF EvalsInv
<1>15. due => CheckpointEvals' * Interval <= num_timesteps
             /\ CheckpointEvals' * Interval = next_eval
             /\ next_eval' = (CheckpointEvals' + 1) * Interval
  BY <1>1, <1>2, <1>4, <1>13, <1>14 DEF EvalsInv
<1>16. EvalsInv'
  <2>1. CheckpointEvals' \in Nat
    BY <1>13, <1>14
  <2>2. Interval = 0 => CheckpointEvals' = 0
    BY <1>4, <1>13 DEF EvalsInv
  <2>3. Interval > 0 => next_eval' = (CheckpointEvals' + 1) * Interval
    BY <1>1, <1>13, <1>15 DEF EvalsInv
  <2>4. Interval > 0 => CheckpointEvals' * Interval < Timesteps
    <3>1. CASE due
      BY <1>2, <1>4, <1>15, <3>1
    <3>2. CASE ~due
      BY <1>13, <3>2 DEF EvalsInv
    <3>3. QED
      BY <3>1, <3>2
  <2>5. EvalsBefore(writer', num_timesteps + 1)
    BY <1>2, <1>6, BoundsGrow
  <2>6. EvalsBefore(writer', Timesteps)
    <3>1. CASE due
      BY <1>2, <1>4, <1>6, <3>1, BoundsGrow
    <3>2. CASE ~due
      BY <1>1, <3>2 DEF EvalsInv
    <3>3. QED
      BY <3>1, <3>2
  <2>7. EvalsBefore(writer', Timesteps + 1)
    BY <1>2, <1>6, <2>6, BoundsGrow
  <2>8. QED
    BY <1>1, <1>3, <2>1, <2>2, <2>3, <2>4, <2>5, <2>6, <2>7
    DEF EvalsInv, EvalsBefore, Evals, Trains, IsTrain
<1>17. PaceInv'
  <2>1. SUFFICES ASSUME Interval > 0
                 PROVE  /\ CheckpointEvals' * Stride <= Passed'
                        /\ Passed' < (CheckpointEvals' + 1) * Stride
    <3>1. Stride' = Stride
      BY <1>1 DEF Stride, Interval
    <3>2. QED
      BY <1>3, <3>1 DEF PaceInv
  <2>2. PICK p \in Nat : num_timesteps = p * training.n_envs + training.n_envs
    <3>1. PICK k \in Nat : num_timesteps = k * training.n_envs
      BY <1>2, NoRemainderIsMultiple DEF RolloutsInv, Positive
    <3>2. k # 0
      BY <1>2, <3>1 DEF RolloutsInv
    <3>3. k - 1 \in Nat /\ k * training.n_envs = (k - 1) * training.n_envs + training.n_envs
      BY <1>2, <3>2
    <3>4. QED
      BY <3>1, <3>3
  <2>3. /\ LastStepBefore \in Nat /\ LastStepBefore < Timesteps
        /\ Timesteps <= LastStepBefore + training.n_envs
    BY <1>2, LastStep
  <2>4. PICK k \in Nat : LastStepBefore = k * training.n_envs
    BY <1>2, LastStep
  <2>5. p * training.n_envs \in Nat /\ (p + 1) * training.n_envs = num_timesteps
    BY <1>2, <2>2
  <2>6. /\ Passed = Min({p * training.n_envs, LastStepBefore})
        /\ Passed' = Min({num_timesteps, LastStepBefore})
    <3>1. num_timesteps - training.n_envs = p * training.n_envs
      BY <1>2, <2>2, <2>5
    <3>2. LastStepBefore' = LastStepBefore
      BY <1>1 DEF LastStepBefore
    <3>3. QED
      BY <1>1, <1>2, <3>1, <3>2 DEF Passed
  <2>7. CheckpointEvals * Stride <= Passed /\ Passed < (CheckpointEvals + 1) * Stride
    BY <2>1 DEF PaceInv
  <2>8. CASE num_timesteps < Timesteps
    <3>1. num_timesteps <= LastStepBefore
      <4>1. ASSUME LastStepBefore < num_timesteps
            PROVE  FALSE
        <5>1. LastStepBefore + training.n_envs <= num_timesteps
          <6>1. k * training.n_envs < (p + 1) * training.n_envs
            BY <2>4, <2>5, <4>1
          <6>2. QED
            BY <1>2, <2>4, <2>5, <6>1, NextMultiple DEF Positive
        <5>2. QED
          BY <1>2, <2>3, <2>8, <5>1
      <4>2. QED
        BY <1>2, <2>3, <4>1
    <3>2. Passed' = num_timesteps /\ Passed = p * training.n_envs
      <4>1. p * training.n_envs <= LastStepBefore
        BY <1>2, <2>2, <2>3, <2>5, <3>1
      <4>2. Min({num_timesteps, LastStepBefore}) = num_timesteps
        BY <1>2, <2>3, <3>1, MinOfTwo
      <4>3. Min({p * training.n_envs, LastStepBefore}) = p * training.n_envs
        BY <2>3, <2>5, <4>1, MinOfTwo
      <4>4. QED
        BY <2>6, <4>2, <4>3
    <3>3. due <=> (CheckpointEvals + 1) * Interval <= num_timesteps
      <4>1. next_eval = (CheckpointEvals + 1) * Interval
        BY <2>1 DEF EvalsInv
      <4>2. QED
        BY <1>2, <1>4, <2>1, <2>8, <4>1
    <3>4. Stride = IF training.n_envs <= Interval THEN Interval ELSE training.n_envs
      BY <1>2, StrideIs
    <3>5. Interval \in Positive /\ training.n_envs \in Positive
      BY <1>2, <2>1 DEF Positive
    <3>6. LET made == IF (CheckpointEvals + 1) * Interval <= num_timesteps
                        THEN CheckpointEvals + 1 ELSE CheckpointEvals
          IN  made * Stride <= num_timesteps /\ num_timesteps < (made + 1) * Stride
      BY <1>14, <2>2, <2>7, <3>2, <3>4, <3>5, PaceGoesOn
    <3>7. QED
      BY <1>13, <3>2, <3>3, <3>6
  <2>9. CASE num_timesteps >= Timesteps
    <3>1. LastStepBefore <= p * training.n_envs
      <4>1. LastStepBefore + training.n_envs <= num_timesteps
        <5>1. k * training.n_envs < (p + 1) * training.n_envs
          BY <1>2, <2>3, <2>4, <2>5, <2>9
        <5>2. QED
          BY <1>2, <2>4, <2>5, <5>1, NextMultiple DEF Positive
      <4>2. QED
        BY <1>2, <2>2, <2>3, <2>5, <4>1
    <3>2. Passed' = LastStepBefore /\ Passed = LastStepBefore
      <4>1. LastStepBefore <= num_timesteps
        BY <1>2, <2>3, <2>9, Parameters
      <4>2. Min({num_timesteps, LastStepBefore}) = LastStepBefore
        BY <1>2, <2>3, <4>1, MinOfTwo
      <4>3. Min({p * training.n_envs, LastStepBefore}) = LastStepBefore
        BY <2>3, <2>5, <3>1, MinOfTwo
      <4>4. QED
        BY <2>6, <4>2, <4>3
    <3>3. CheckpointEvals' = CheckpointEvals
      BY <1>2, <1>4, <1>13, <2>9
    <3>4. QED
      BY <2>7, <3>2, <3>3
  <2>10. QED
    BY <1>2, <2>8, <2>9
<1>18. SingleInv'
  <2>1. SUFFICES ASSUME training.n_envs = 1
                 PROVE  LET last == IF pending[1] = NoRow THEN num_timesteps ELSE pending[1] IN
                        /\ EpisodesBegun[1] <= Transitions
                        /\ pending[1] # NoRow => pending[1] <= num_timesteps
                        /\ InOrderUpTo(writer', last)
    BY <1>1, <1>11 DEF SingleInv, InOrderUpTo, Trains, IsTrain
  <2>2. pending[1] \in Nat \union {NoRow}
    BY <2>1 DEF TypesInv, Envs
  <2>3. QED
    BY <1>2, <1>6, <2>1, <2>2 DEF SingleInv
<1>19. BundleIsAccepted'
  BY <1>1 DEF BundleIsAccepted, Refused
<1>20. QED
  BY <1>7, <1>9, <1>10, <1>12, <1>16, <1>17, <1>18, <1>19

LEMMA FinalEvaluationInv ==
  ASSUME IInv, FinalEvaluation
  PROVE  IInv'
<1> USE DEF IInv
<1>1. /\ phase = "learned" /\ phase' = "evaluated"
      /\ writer' = WriteEvalCheckpoint(writer, Timesteps)
      /\ training' = training /\ num_timesteps' = num_timesteps /\ env' = env
      /\ episodes' = episodes /\ pending' = pending /\ next_eval' = next_eval
      /\ last_reported' = last_reported
  BY DEF FinalEvaluation, Timesteps
<1>2. /\ num_timesteps \in Nat /\ training \in Trainings /\ WriterType(writer)
      /\ Timesteps \in Nat /\ Full \in Positive
  BY Parameters DEF TypesInv
<1>3. /\ Timesteps' = Timesteps /\ Rollout' = Rollout /\ Interval' = Interval
      /\ Full' = Full /\ End' = End /\ Envs' = Envs
  BY <1>1, SameTraining
<1>4. Filling(writer) /\ PathsAreUnique(writer) /\ EvalsBefore(writer, Timesteps)
  BY <1>1 DEF ChunksInv, EvalsInv
<1>5. /\ WriterType(writer') /\ Filling(writer') /\ PathsAreUnique(writer')
      /\ RowsWritten(writer') = RowsWritten(writer)
      /\ Cardinality(Evals(writer')) = Cardinality(Evals(writer)) + 1
      /\ EvalsBefore(writer', Timesteps + 1)
      /\ \A n \in Nat : InOrderUpTo(writer, n) => InOrderUpTo(writer', n)
  BY <1>1, <1>2, <1>4, EvaluationIsWritten
<1>6. TypesInv'
  BY <1>1, <1>3, <1>5 DEF TypesInv, WriterType
<1>7. RolloutsInv'
  BY <1>1, <1>3 DEF RolloutsInv
<1>8. ChunksInv'
  <2>1. \A i \in Trains(writer') : writer'.chunks[i].step_count <= Full
    BY <1>2, <1>5 DEF Filling, Positive
  <2>2. QED
    BY <1>3, <1>5, <2>1 DEF ChunksInv, PathsAreUnique, Filling, Trains, Evals, IsTrain
<1>9. Transitions' = Transitions /\ EpisodesBegun' = EpisodesBegun
  BY <1>1, <1>3 DEF Transitions, EpisodesBegun
<1>10. RowsInv'
  BY <1>3, <1>5, <1>9, SameRows
<1>11. CheckpointEvals' = CheckpointEvals
  <2>1. CheckpointEvals = Cardinality(Evals(writer)) /\ CheckpointEvals \in Nat
    BY <1>1 DEF CheckpointEvals, EvalsInv
  <2>2. CheckpointEvals' = Cardinality(Evals(writer')) - 1
    BY <1>1 DEF CheckpointEvals, Evals, Trains, IsTrain
  <2>3. QED
    BY <1>5, <2>1, <2>2
<1>12. EvalsInv'
  BY <1>1, <1>3, <1>5, <1>11 DEF EvalsInv, EvalsBefore, Evals, Trains, IsTrain
<1>13. PaceInv'
  <2>1. Passed' = Passed
    BY <1>1 DEF Passed, LastStepBefore
  <2>2. QED
    BY <1>1, <1>11, <2>1, SamePace
<1>14. SingleInv'
  <2>1. SUFFICES ASSUME training.n_envs = 1
                 PROVE  LET last == IF pending[1] = NoRow THEN num_timesteps ELSE pending[1] IN
                        /\ EpisodesBegun[1] <= Transitions
                        /\ pending[1] # NoRow => pending[1] <= num_timesteps
                        /\ InOrderUpTo(writer', last)
    BY <1>1, <1>9 DEF SingleInv, InOrderUpTo, Trains, IsTrain
  <2>2. pending[1] \in Nat \union {NoRow}
    BY <2>1 DEF TypesInv, Envs
  <2>3. QED
    BY <1>2, <1>5, <2>1, <2>2 DEF SingleInv
<1>15. BundleIsAccepted'
  BY <1>1 DEF BundleIsAccepted, Refused
<1>16. QED
  BY <1>6, <1>7, <1>8, <1>10, <1>12, <1>13, <1>14, <1>15
\* A training with one environment and rollouts that end at timesteps stops
\* there.
LEMMA AlignedEnd ==
  ASSUME training \in Trainings, training.n_envs = 1, Timesteps % training.n_steps = 0
  PROVE  End = Timesteps
<1>1. /\ Timesteps \in Nat \ {0} /\ Rollout \in Positive /\ Rollout = training.n_steps
      /\ End \in Nat /\ Timesteps <= End /\ End < Timesteps + Rollout /\ End % Rollout = 0
  BY Parameters, EndOfLearning DEF Rollout, Positive
<1>2. PICK p \in Nat : Timesteps = p * Rollout
  BY <1>1, NoRemainderIsMultiple
<1>3. PICK q \in Nat : End = q * Rollout
  BY <1>1, NoRemainderIsMultiple
<1>4. ASSUME Timesteps < End
      PROVE  FALSE
  <2>1. p * Rollout + Rollout <= q * Rollout
    BY <1>1, <1>2, <1>3, <1>4, NextMultiple
  <2>2. Timesteps + Rollout <= End
    BY <1>2, <1>3, <2>1
  <2>3. QED
    BY <1>1, <2>2 DEF Positive
<1>5. QED
  BY <1>1, <1>4

\* The chunks that 2 * Timesteps rows fill are not more than FewChunks counts.
LEMMA TrainChunksAreFew ==
  ASSUME NEW a \in Nat, NEW open \in Nat, NEW all \in Nat, NEW rows \in Nat,
         NEW size \in Positive,
         a * size + open <= rows, all = IF open = 0 THEN a ELSE a + 1
  PROVE  (rows + size - 1) \div size \in Nat /\ all <= (rows + size - 1) \div size
<1>1. rows + size - 1 \in Nat
  BY DEF Positive
<1>2. all * size <= rows + size - 1
  <2>1. CASE open = 0
    BY <2>1 DEF Positive
  <2>2. CASE open # 0
    <3>1. all * size = a * size + size
      BY <2>2 DEF Positive
    <3>2. a * size \in Nat
      BY DEF Positive
    <3>3. QED
      BY <2>2, <3>1, <3>2 DEF Positive
  <2>3. QED
    BY <2>1, <2>2
<1>3. QED
  BY <1>1, <1>2, QuotientIsAtLeast

\* With one environment and rollouts that end at timesteps only the number of
\* chunks can make the manifest invalid, and FewChunks bounds it.
LEMMA ManifestIsValid ==
  ASSUME IInv, phase = "evaluated",
         training.n_envs = 1, training.timesteps % training.n_steps = 0,
         NEW v, v = CloseTrainChunk(writer)
  PROVE  /\ Len(v.chunks) <= MaxChunks => ManifestValid(v.chunks)
         /\ FewChunks => Len(v.chunks) <= MaxChunks
<1>1. /\ training \in Trainings /\ num_timesteps \in Nat /\ WriterType(writer)
      /\ Timesteps \in Nat \ {0} /\ Interval \in Nat /\ Full \in Positive
  BY Parameters DEF IInv, TypesInv
<1>2. num_timesteps = Timesteps /\ env = 0
  BY <1>1, AlignedEnd DEF IInv, RolloutsInv, Timesteps
<1>3. /\ PathsAreUnique(writer) /\ Filling(writer) /\ writer.open.count \in Nat
      /\ writer.open.count <= Full /\ \A i \in Trains(writer) : writer.chunks[i].step_count = Full
  BY <1>1, ChunkTypes DEF IInv, ChunksInv, Filling, Positive
<1>4. /\ WriterType(v) /\ PathsAreUnique(v)
      /\ Evals(v) = Evals(writer)
      /\ Cardinality(Trains(v)) = IF writer.open.count = 0 THEN Cardinality(Trains(writer))
                                  ELSE Cardinality(Trains(writer)) + 1
      /\ \A n \in Nat : EvalsBefore(writer, n) => EvalsBefore(v, n)
      /\ \A n \in Nat : InOrderUpTo(writer, n) => InOrderUpTo(v, n)
  BY <1>1, <1>3, ChunkCloses DEF Full
<1>5. InOrderUpTo(v, Timesteps) /\ EvalsBefore(v, Timesteps + 1)
  <2>1. pending[1] \in Nat \union {NoRow}
    BY DEF IInv, TypesInv, Envs
  <2>2. InOrderUpTo(writer, Timesteps)
    BY <1>1, <1>2, <2>1, BoundsGrow DEF IInv, SingleInv
  <2>3. EvalsBefore(writer, Timesteps + 1)
    BY DEF IInv, EvalsInv
  <2>4. QED
    BY <1>1, <1>4, <2>2, <2>3
<1>6. \A i \in DOMAIN v.chunks :
        /\ IsTrain(v.chunks[i]) => v.chunks[i].start_step <= v.chunks[i].end_step
        /\ v.chunks[i].checkpoint_step <= training.timesteps
  <2>1. \A i \in Trains(v) : /\ v.chunks[i].start_step <= v.chunks[i].end_step
                             /\ v.chunks[i].checkpoint_step <= Timesteps
    BY <1>5 DEF InOrderUpTo
  <2>2. \A i \in Evals(v) : v.chunks[i].checkpoint_step <= Timesteps
    BY <1>1, <1>4, <1>5, ChunkTypes DEF EvalsBefore
  <2>3. QED
    BY <2>1, <2>2 DEF Trains, Evals, Timesteps
<1>7. \A i, j \in DOMAIN v.chunks : v.chunks[i].path = v.chunks[j].path => i = j
  BY <1>4 DEF PathsAreUnique
<1>8. /\ Len(v.chunks) = Cardinality(Trains(v)) + Cardinality(Evals(v))
      /\ Cardinality(Trains(v)) \in Nat /\ Cardinality(Evals(v)) \in Nat
      /\ Cardinality(Trains(writer)) \in Nat
  BY <1>1, <1>4, WriterIsFinite
<1>9. CheckpointEvals \in Nat /\ Cardinality(Evals(v)) = CheckpointEvals + 1
  BY <1>4, <1>8 DEF IInv, EvalsInv, CheckpointEvals
<1>10. Cardinality(Trains(writer)) * Full + writer.open.count <= 2 * Timesteps
  <2>1. Envs = {1}
    BY DEF Envs
  <2>2. EpisodesBegun \in [{1} -> Nat]
    BY <2>1 DEF IInv, TypesInv, EpisodesBegun
  <2>3. Tally(Envs, EpisodesBegun) = EpisodesBegun[1]
    BY <2>1, <2>2, TallyOfOne
  <2>4. EpisodesBegun[1] <= Transitions /\ Transitions = Timesteps
    BY <1>2 DEF IInv, SingleInv, Transitions
  <2>5. Tally(Trains(writer), [i \in Trains(writer) |-> writer.chunks[i].step_count])
          = Cardinality(Trains(writer)) * Full
    <3>1. /\ IsFiniteSet(Trains(writer))
          /\ [i \in Trains(writer) |-> writer.chunks[i].step_count] \in [Trains(writer) -> Nat]
      BY <1>1, WriterIsFinite
    <3>2. QED
      BY <1>1, <1>3, <3>1, TallyOfEqual DEF Positive
  <2>6. RowsWritten(writer) = Transitions + Tally(Envs, EpisodesBegun)
    BY DEF IInv, RowsInv
  <2>7. RowsWritten(writer) = writer.open.count + Cardinality(Trains(writer)) * Full
    BY <2>5 DEF RowsWritten
  <2>8. Cardinality(Trains(writer)) * Full \in Nat
    BY <1>1, <1>8 DEF Positive
  <2>9. EpisodesBegun[1] \in Nat
    BY <2>2
  <2>10. QED
    BY <1>1, <1>3, <2>3, <2>4, <2>6, <2>7, <2>8, <2>9
<1>11. LET trains == (2 * Timesteps + Full - 1) \div Full
       IN  trains \in Nat /\ Cardinality(Trains(v)) <= trains
  <2>1. 2 * Timesteps \in Nat
    BY <1>1
  <2>2. QED
    BY <1>1, <1>3, <1>4, <1>8, <1>10, <2>1, TrainChunksAreFew
<1>12. LET evals == IF Interval > 0 THEN (Timesteps - 1) \div Interval ELSE 0
       IN  evals \in Nat /\ CheckpointEvals <= evals
  <2>1. CASE Interval > 0
    <3>1. CheckpointEvals * Interval < Timesteps
      BY <2>1 DEF IInv, EvalsInv
    <3>2. CheckpointEvals * Interval \in Nat
      BY <1>1, <1>9
    <3>3. CheckpointEvals * Interval <= Timesteps - 1 /\ Timesteps - 1 \in Nat
      BY <1>1, <3>1, <3>2
    <3>4. Interval \in Positive
      BY <1>1, <2>1 DEF Positive
    <3>5. QED
      BY <1>9, <2>1, <3>3, <3>4, QuotientIsAtLeast
  <2>2. CASE ~(Interval > 0)
    <3>1. Interval = 0
      BY <1>1, <2>2
    <3>2. QED
      BY <2>2, <3>1 DEF IInv, EvalsInv
  <2>3. QED
    BY <2>1, <2>2
<1>13. Len(v.chunks) >= 1
  BY <1>8, <1>9
<1>14. ASSUME FewChunks
       PROVE  Len(v.chunks) <= MaxChunks
  <2> DEFINE trains == (2 * Timesteps + Full - 1) \div Full
             evals == IF Interval > 0 THEN (Timesteps - 1) \div Interval ELSE 0
  <2>1. trains + evals + 1 <= MaxChunks
    BY <1>14 DEF FewChunks, Full, Interval, Timesteps
  <2>2. /\ trains \in Nat /\ Cardinality(Trains(v)) <= trains
        /\ evals \in Nat /\ CheckpointEvals <= evals
    BY <1>11, <1>12
  <2>3. MaxChunks \in Nat
    BY LimitsAssumption DEF Positive
  <2> HIDE DEF trains, evals
  <2>4. QED
    BY <1>8, <1>9, <2>1, <2>2, <2>3
<1>15. ASSUME Len(v.chunks) <= MaxChunks
       PROVE  Len(v.chunks) \in 1 .. MaxChunks
  BY <1>8, <1>13, <1>15, LimitsAssumption DEF Positive
<1>16. QED
  BY <1>6, <1>7, <1>14, <1>15 DEF ManifestValid

LEMMA FinishInv ==
  ASSUME IInv, Finish
  PROVE  IInv'
<1> USE DEF IInv
<1>1. /\ phase = "evaluated"
      /\ writer' = CloseTrainChunk(writer)
      /\ phase' = IF ManifestValid(writer'.chunks) THEN "finished" ELSE "manifest_refused"
      /\ training' = training /\ num_timesteps' = num_timesteps /\ env' = env
      /\ episodes' = episodes /\ pending' = pending /\ next_eval' = next_eval
      /\ last_reported' = last_reported
  BY DEF Finish
<1>2. /\ num_timesteps \in Nat /\ training \in Trainings /\ WriterType(writer)
      /\ Timesteps \in Nat /\ Full \in Positive
  BY Parameters DEF TypesInv
<1>3. /\ Timesteps' = Timesteps /\ Rollout' = Rollout /\ Interval' = Interval
      /\ Full' = Full /\ End' = End /\ Envs' = Envs
  BY <1>1, SameTraining
<1>4. phase' \in {"finished", "manifest_refused"}
  BY <1>1
<1>5. /\ PathsAreUnique(writer) /\ writer.open.count \in Nat
      /\ writer.open.count <= Full /\ \A i \in Trains(writer) : writer.chunks[i].step_count = Full
  BY <1>1, <1>2, ChunkTypes DEF ChunksInv, Filling, Positive
<1>6. /\ WriterType(writer') /\ PathsAreUnique(writer')
      /\ \A i \in Trains(writer') : writer'.chunks[i].step_count <= Full
      /\ RowsWritten(writer') = RowsWritten(writer)
      /\ Evals(writer') = Evals(writer)
      /\ \A n \in Nat : EvalsBefore(writer, n) => EvalsBefore(writer', n)
      /\ \A n \in Nat : InOrderUpTo(writer, n) => InOrderUpTo(writer', n)
  BY <1>1, <1>2, <1>5, ChunkCloses DEF Full
<1>7. TypesInv'
  BY <1>1, <1>3, <1>4, <1>6 DEF TypesInv, WriterType, Refused
<1>8. RolloutsInv'
  BY <1>1, <1>3, <1>4 DEF RolloutsInv
<1>9. ChunksInv'
  BY <1>3, <1>4, <1>6 DEF ChunksInv, PathsAreUnique, Trains, Evals, IsTrain
<1>10. Transitions' = Transitions /\ EpisodesBegun' = EpisodesBegun
  BY <1>1, <1>3 DEF Transitions, EpisodesBegun
<1>11. RowsInv'
  BY <1>3, <1>6, <1>10, SameRows
<1>12. CheckpointEvals' = CheckpointEvals
  <2>1. CheckpointEvals = Cardinality(Evals(writer)) - 1
    BY <1>1 DEF CheckpointEvals
  <2>2. CheckpointEvals' = Cardinality(Evals(writer')) - 1
    BY <1>4 DEF CheckpointEvals, Evals, Trains, IsTrain
  <2>3. QED
    BY <1>6, <2>1, <2>2
<1>13. EvalsInv'
  <2>1. EvalsBefore(writer', Timesteps + 1)
    BY <1>2, <1>6 DEF EvalsInv
  <2>2. QED
    BY <1>1, <1>3, <1>4, <1>12, <2>1 DEF EvalsInv, EvalsBefore, Evals, Trains, IsTrain
<1>14. PaceInv'
  <2>1. Passed' = Passed
    BY <1>1 DEF Passed, LastStepBefore
  <2>2. QED
    BY <1>1, <1>12, <2>1, SamePace
<1>15. SingleInv'
  <2>1. SUFFICES ASSUME training.n_envs = 1
                 PROVE  LET last == IF pending[1] = NoRow THEN num_timesteps ELSE pending[1] IN
                        /\ EpisodesBegun[1] <= Transitions
                        /\ pending[1] # NoRow => pending[1] <= num_timesteps
                        /\ InOrderUpTo(writer', last)
    BY <1>1, <1>10 DEF SingleInv, InOrderUpTo, Trains, IsTrain
  <2>2. pending[1] \in Nat \union {NoRow}
    BY <2>1 DEF TypesInv, Envs
  <2>3. QED
    BY <1>2, <1>6, <2>1, <2>2 DEF SingleInv
<1>16. BundleIsAccepted'
  <2>1. SUFFICES ASSUME training.n_envs = 1, training.timesteps % training.n_steps = 0,
                        phase' \in Refused
                 PROVE  Len(writer'.chunks) > MaxChunks /\ ~FewChunks
    BY <1>1 DEF BundleIsAccepted, FewChunks, Refused
  <2>2. ~ManifestValid(writer'.chunks)
    BY <1>1, <2>1 DEF Refused
  <2>3. ~(Len(writer'.chunks) <= MaxChunks)
    BY <1>1, <2>1, <2>2, ManifestIsValid
  <2>4. ~FewChunks
    BY <1>1, <2>1, <2>3, ManifestIsValid
  <2>5. Len(writer'.chunks) \in Nat /\ MaxChunks \in Nat
    BY <1>6, LimitsAssumption DEF WriterType, Positive
  <2>6. QED
    BY <2>3, <2>4, <2>5
<1>17. QED
  BY <1>7, <1>8, <1>9, <1>11, <1>13, <1>14, <1>15, <1>16
LEMMA PrepareReplayBundleInv ==
  ASSUME IInv, PrepareReplayBundle
  PROVE  IInv'
<1> USE DEF IInv
<1>1. /\ phase = "finished" /\ phase' \in {"prepared", "preflight_refused"}
      /\ phase' = IF \A i \in DOMAIN writer.chunks : RangeMatchesRows(writer.chunks[i])
                    THEN "prepared" ELSE "preflight_refused"
      /\ training' = training /\ num_timesteps' = num_timesteps /\ env' = env
      /\ episodes' = episodes /\ pending' = pending /\ next_eval' = next_eval
      /\ last_reported' = last_reported /\ writer' = writer
  BY DEF PrepareReplayBundle
<1>2. /\ Timesteps' = Timesteps /\ Rollout' = Rollout /\ Interval' = Interval
      /\ Full' = Full /\ End' = End /\ Envs' = Envs
  BY <1>1, SameTraining
<1>3. TypesInv'
  BY <1>1, <1>2 DEF TypesInv, WriterType, Refused
<1>4. RolloutsInv'
  BY <1>1, <1>2 DEF RolloutsInv
<1>5. ChunksInv'
  BY <1>1, <1>2 DEF ChunksInv, PathsAreUnique, Trains, Evals, IsTrain
<1>6. Transitions' = Transitions /\ EpisodesBegun' = EpisodesBegun
  BY <1>1, <1>2 DEF Transitions, EpisodesBegun
<1>7. RowsInv'
  BY <1>1, <1>2, <1>6, SameRows
<1>8. CheckpointEvals' = CheckpointEvals
  BY <1>1 DEF CheckpointEvals, Evals, Trains, IsTrain
<1>9. EvalsInv'
  BY <1>1, <1>2, <1>8 DEF EvalsInv, EvalsBefore, Evals, Trains, IsTrain
<1>10. PaceInv'
  <2>1. Passed' = Passed
    BY <1>1 DEF Passed, LastStepBefore
  <2>2. QED
    BY <1>1, <1>8, <2>1, SamePace
<1>11. SingleInv'
  BY <1>1, <1>6 DEF SingleInv, InOrderUpTo, Trains, IsTrain
<1>12. BundleIsAccepted'
  <2>1. SUFFICES ASSUME training.n_envs = 1
                 PROVE  \A i \in DOMAIN writer.chunks : RangeMatchesRows(writer.chunks[i])
    BY <1>1 DEF BundleIsAccepted, FewChunks, Refused
  <2>2. \E n : InOrderUpTo(writer, n)
    BY <2>1 DEF SingleInv
  <2>3. QED
    BY <2>2 DEF InOrderUpTo, RangeMatchesRows, Trains
<1>13. QED
  BY <1>3, <1>4, <1>5, <1>7, <1>9, <1>10, <1>11, <1>12

LEMMA StutterInv ==
  ASSUME IInv, UNCHANGED vars
  PROVE  IInv'
<1> USE DEF IInv
<1>1. /\ training' = training /\ phase' = phase /\ num_timesteps' = num_timesteps
      /\ env' = env /\ episodes' = episodes /\ pending' = pending
      /\ next_eval' = next_eval /\ last_reported' = last_reported /\ writer' = writer
  BY DEF vars
<1>2. /\ Timesteps' = Timesteps /\ Rollout' = Rollout /\ Interval' = Interval
      /\ Full' = Full /\ End' = End /\ Envs' = Envs
  BY <1>1, SameTraining
<1>3. TypesInv' /\ RolloutsInv'
  BY <1>1, <1>2 DEF TypesInv, WriterType, Refused, RolloutsInv
<1>4. ChunksInv'
  BY <1>1, <1>2 DEF ChunksInv, PathsAreUnique, Filling, Trains, Evals, IsTrain
<1>5. Transitions' = Transitions /\ EpisodesBegun' = EpisodesBegun
  BY <1>1, <1>2 DEF Transitions, EpisodesBegun
<1>6. RowsInv'
  BY <1>1, <1>2, <1>5, SameRows
<1>7. CheckpointEvals' = CheckpointEvals
  BY <1>1 DEF CheckpointEvals, Evals, Trains, IsTrain
<1>8. EvalsInv' /\ PaceInv'
  <2>1. Passed' = Passed
    BY <1>1 DEF Passed, LastStepBefore
  <2>2. PaceInv'
    BY <1>1, <1>7, <2>1, SamePace
  <2>3. QED
    BY <1>1, <1>2, <1>7, <2>2 DEF EvalsInv, EvalsBefore, Evals, Trains, IsTrain
<1>9. SingleInv'
  BY <1>1, <1>5 DEF SingleInv, InOrderUpTo, Trains, IsTrain
<1>10. BundleIsAccepted'
  BY <1>1 DEF BundleIsAccepted, FewChunks, Refused
<1>11. QED
  BY <1>3, <1>4, <1>6, <1>8, <1>9, <1>10

------------------------------------------------------------------------------
(* The theorems.                                                           *)

\* The inductive invariant: what the callback, the writer and SB3's loop keep
\* between two of their steps, for any proportion of environments, rollouts,
\* intervals and chunks.
THEOREM ReplayInvariant == Spec => []IInv
<1>1. Init => IInv
  BY InitiallyInv
<1>2. IInv /\ [Next]_vars => IInv'
  <2>1. SUFFICES ASSUME IInv, [Next]_vars
                 PROVE  IInv'
    OBVIOUS
  <2>2. CASE StepEnvironments
    BY <2>1, <2>2, StepEnvironmentsInv
  <2>3. ASSUME NEW done \in BOOLEAN, RecordTransition(done)
        PROVE  IInv'
    BY <2>1, <2>3, RecordTransitionInv
  <2>4. CASE EndStep
    BY <2>1, <2>4, EndStepInv
  <2>5. CASE FinalEvaluation
    BY <2>1, <2>5, FinalEvaluationInv
  <2>6. CASE Finish
    BY <2>1, <2>6, FinishInv
  <2>7. CASE PrepareReplayBundle
    BY <2>1, <2>7, PrepareReplayBundleInv
  <2>8. CASE UNCHANGED vars
    BY <2>1, <2>8, StutterInv
  <2>9. QED
    BY <2>1, <2>2, <2>3, <2>4, <2>5, <2>6, <2>7, <2>8 DEF Next
<1>3. QED
  BY <1>1, <1>2, PTL DEF Spec

\* Every variable has its type, and SB3's loop runs past timesteps by less
\* than one rollout of all environments.
THEOREM ReplayTypeCorrect == Spec => []TypeOK
<1>1. IInv => TypeOK
  <2>1. SUFFICES ASSUME IInv
                 PROVE  TypeOK
    OBVIOUS
  <2>2. training \in Trainings /\ num_timesteps \in Nat /\ num_timesteps <= End
    BY <2>1 DEF IInv, TypesInv, RolloutsInv
  <2>3. End \in Nat /\ End < Timesteps + Rollout /\ Timesteps \in Nat /\ Rollout \in Nat
    BY <2>2, EndOfLearning, Parameters
  <2>4. num_timesteps \in 0 .. (training.timesteps + training.n_steps * training.n_envs - 1)
    <3>1. num_timesteps \in 0 .. (Timesteps + Rollout - 1)
      BY <2>2, <2>3
    <3>2. QED
      BY <3>1 DEF Timesteps, Rollout
  <2>5. QED
    BY <2>1, <2>4 DEF IInv, TypesInv, TypeOK, WriterType, Chunk
<1>2. QED
  BY <1>1, ReplayInvariant, PTL

\* With one environment, rollouts that end at timesteps and chunks large
\* enough for a manifest to list them, the manifest that finish writes is
\* valid and the preflight of the upload finds its chunks in order: the
\* training that has learned is not turned into a failure by its bundle.
THEOREM BundlesAreAccepted == Spec => []BundleIsAccepted
<1>1. IInv => BundleIsAccepted
  BY DEF IInv
<1>2. QED
  BY <1>1, ReplayInvariant, PTL

\* The writer loses no row and writes none twice, however many environments
\* write their initial rows in between, and it closes only full chunks as long
\* as training goes on.
THEOREM RowsAreInFullChunks == Spec => []EveryRowIsInAFullChunk
<1>1. IInv => EveryRowIsInAFullChunk
  <2>1. SUFFICES ASSUME IInv
                 PROVE  EveryRowIsInAFullChunk
    OBVIOUS
  <2>2. /\ Full \in Nat /\ WriterType(writer)
        /\ \A i \in Trains(writer) : writer.chunks[i].step_count \in Nat
    BY <2>1, Parameters, ChunkTypes DEF IInv, TypesInv, Positive
  <2>3. \A i \in Trains(writer) :
          writer.chunks[i].step_count # Full =>
            phase # "learning" /\ writer.chunks[i].step_count < Full
    BY <2>1, <2>2 DEF IInv, ChunksInv, Filling
  <2>4. QED
    BY <2>1, <2>3 DEF IInv, RowsInv, EveryRowIsInAFullChunk, Full
<1>2. QED
  BY <1>1, ReplayInvariant, PTL

\* _next_eval_step advances by an interval at each callback that reaches it:
\* evaluations keep up with the intervals as long as no more environments step
\* at once than an interval has steps, and else with the callbacks.
THEOREM EvaluationsFollow == Spec => []EvaluationsKeepPace
<1>1. IInv => EvaluationsKeepPace
  <2>1. SUFFICES ASSUME IInv, env = 0
                 PROVE  Cardinality(Evals(writer))
                          = (IF phase \in {"learning", "learned"} THEN 0 ELSE 1)
                              + (IF Interval = 0 THEN 0
                                 ELSE Min({num_timesteps, LastStepBefore}) \div Stride)
    BY DEF EvaluationsKeepPace, Interval, Stride
  <2>2. /\ training \in Trainings /\ num_timesteps \in Nat /\ CheckpointEvals \in Nat
        /\ Interval \in Nat /\ Cardinality(Evals(writer)) \in Nat
    BY <2>1, Parameters, WriterIsFinite DEF IInv, TypesInv, EvalsInv
  <2>3. Cardinality(Evals(writer))
          = (IF phase \in {"learning", "learned"} THEN 0 ELSE 1) + CheckpointEvals
    BY <2>2 DEF CheckpointEvals
  <2>4. CASE Interval = 0
    BY <2>1, <2>2, <2>3, <2>4 DEF IInv, EvalsInv
  <2>5. CASE Interval # 0
    <3>1. Passed = Min({num_timesteps, LastStepBefore})
      BY <2>1 DEF Passed
    <3>2. CheckpointEvals * Stride <= Passed /\ Passed < (CheckpointEvals + 1) * Stride
      BY <2>1, <2>2, <2>5 DEF IInv, PaceInv
    <3>3. Passed \in Nat
      BY <2>2, <3>1, LastStep, MinOfTwo
    <3>4. Stride \in Positive
      BY <2>2, StrideIs
    <3>5. Passed \div Stride = CheckpointEvals
      BY <2>2, <3>2, <3>3, <3>4, QuotientIs
    <3>6. QED
      BY <2>3, <2>5, <3>1, <3>5
  <2>6. QED
    BY <2>4, <2>5
<1>2. QED
  BY <1>1, ReplayInvariant, PTL
==============================================================================
