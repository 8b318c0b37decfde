-------------------------- MODULE NotificationProofs --------------------------
(***************************************************************************)
(* Proofs about Notification, for any number of clients, of overlapping    *)
(* pushes and of versions.  A broadcast that has begun serves whoever was  *)
(* registered then; whoever registers later fetches a snapshot that is at  *)
(* least as new as the event being broadcast.                              *)
(***************************************************************************)
EXTENDS Notification, TLAPS

USE DEF store, clients, vars

\* A client that was sent a snapshot and is still there.
Informed(c) == handler[c] = "listening" /\ link[c] = "open" /\ snapshot[c] # NoSnapshot

\* Nothing is published, pushed, acknowledged or sent before it is committed.
CommittedFirst ==
  /\ \A w \in Writers : publishing[w] <= committed
  /\ \A i \in 1 .. Len(topic) : topic[i] <= committed
  /\ \A v \in acked : v <= committed
  /\ \A p \in Pushes : push[p].event <= committed

\* Whoever is informed knows the event of a broadcast or is still to be served.
BroadcastsReachAll ==
  \A p \in Pushes, c \in Conns :
    Informed(c) => c \in push[p].todo \/ Knows(c, push[p].event)

DeadAreClosed == \A p \in Pushes : \A c \in push[p].dead : link[c] = "closed"

\* The snapshot is sent by the step that begins to listen.
SnapshotToCome ==
  \A c \in Conns : handler[c] \in {"accepting", "greeted"} => snapshot[c] = NoSnapshot

\* A broadcast that has anything to do has an event.
Busy == \A p \in Pushes : push[p] = NoPush \/ push[p].event # 0

IInv ==
  /\ TypeOK
  /\ Busy
  /\ SnapshotToCome
  /\ CommittedFirst
  /\ DeadAreClosed
  /\ RegistryFollowsHandlers
  /\ BroadcastsReachAll
  /\ NothingMissed

------------------------------------------------------------------------------

\* Registered connections are connections of the submission.
LEMMA RegisteredType == TypeOK => Registered \in SUBSET Conns
BY DEF TypeOK, OneBucket, Registered

\* The registry after a discard: one bucket, without those discarded.
LEMMA DiscardFacts ==
  ASSUME NEW cs, Discard(cs), TypeOK
  PROVE  Registered' = Registered \ cs /\ OneBucket'
<1>1. Registered \in SUBSET Conns
  BY RegisteredType
<1>2. CASE Registered \ cs = {}
  <2>1. buckets' = {}
    BY <1>2 DEF Discard
  <2>2. QED
    BY <1>2, <2>1 DEF Registered, OneBucket
<1>3. CASE Registered \ cs # {}
  <2>1. buckets' = {Registered \ cs}
    BY <1>3 DEF Discard
  <2>2. Registered \ cs \in (SUBSET Conns) \ {{}}
    BY <1>1, <1>3
  <2>3. UNION buckets' = Registered \ cs
    BY <2>1
  <2>4. QED
    BY <2>1, <2>2, <2>3 DEF Registered, OneBucket
<1>4. QED
  BY <1>2, <1>3

\* The registry after an addition.
LEMMA JoinFacts ==
  ASSUME NEW c \in Conns, buckets' = {Registered \union {c}}, TypeOK
  PROVE  Registered' = Registered \union {c} /\ OneBucket'
<1>1. Registered \union {c} \in (SUBSET Conns) \ {{}}
  BY RegisteredType
<1>2. UNION buckets' = Registered \union {c}
  OBVIOUS
<1>3. QED
  BY <1>1, <1>2 DEF Registered, OneBucket

\* What is true of a client and an event stays true.
LEMMA KnowsStays ==
  ASSUME TypeOK, SnapshotToCome, NEW c \in Conns, NEW v, Knows(c, v),
         seen[c] \subseteq seen'[c],
         snapshot'[c] = snapshot[c] \/ snapshot[c] = NoSnapshot
  PROVE  Knows(c, v)'
BY DEF Knows

\* The invariant holds before anything is committed or connected.
LEMMA InitIInv == Init => IInv
BY LastVersionAssumption, NoSnapshotAssumption
   DEF Init, IInv, TypeOK, OneBucket, CommittedFirst, DeadAreClosed, RegistryFollowsHandlers,
       Registered, Served, Live, BroadcastsReachAll, Informed, NothingMissed, NoPush, SnapshotToCome, Busy

\* A writer touches neither connections nor broadcasts.
LEMMA WriterStep ==
  ASSUME IInv, NEW w \in Writers, Commit(w) \/ Publish(w)
  PROVE  IInv'
<1>1. UNCHANGED <<acked, handler, buckets, push, clients>>
  BY DEF Commit, Publish
<1>2. committed \in 0 .. LastVersion /\ committed' \in 0 .. LastVersion /\ committed <= committed'
  BY LastVersionAssumption DEF IInv, TypeOK, Commit, Publish
<1>3. publishing' \in [Writers -> 0 .. LastVersion] /\ \A x \in Writers : publishing'[x] <= committed'
  <2>1. publishing \in [Writers -> 0 .. LastVersion] /\ \A x \in Writers : publishing[x] <= committed
    BY DEF IInv, TypeOK, CommittedFirst
  <2>2. PICK n \in 0 .. LastVersion : n <= committed' /\ publishing' = [publishing EXCEPT ![w] = n]
    BY <1>2, LastVersionAssumption DEF Commit, Publish
  <2>3. publishing' \in [Writers -> 0 .. LastVersion]
    BY <2>1, <2>2
  <2>4. ASSUME NEW x \in Writers PROVE publishing'[x] <= committed'
    <3>1. publishing'[x] = IF x = w THEN n ELSE publishing[x]
      BY <2>1, <2>2
    <3>2. publishing[x] \in 0 .. LastVersion /\ publishing[x] <= committed
      BY <2>1
    <3>3. QED
      BY <1>2, <2>2, <3>1, <3>2, LastVersionAssumption
  <2>5. QED
    BY <2>3, <2>4
<1>4. topic' \in Seq(Versions) /\ \A i \in 1 .. Len(topic') : topic'[i] <= committed'
  <2>1. topic \in Seq(Versions) /\ \A i \in 1 .. Len(topic) : topic[i] <= committed
    BY DEF IInv, TypeOK, CommittedFirst
  <2>2. \A i \in 1 .. Len(topic) : topic[i] \in Nat
    BY <2>1, LastVersionAssumption DEF Versions
  <2>3. CASE topic' = topic
    <3>1. \A i \in 1 .. Len(topic) : topic[i] <= committed'
      BY <1>2, <2>1, <2>2, LastVersionAssumption
    <3>2. QED
      BY <2>1, <2>3, <3>1
  <2>4. CASE Publish(w) /\ topic' = Append(topic, publishing[w])
    <3>1. publishing[w] \in Versions /\ publishing[w] <= committed
      BY <2>4, LastVersionAssumption DEF Publish, IInv, TypeOK, CommittedFirst, Versions
    <3>2. committed' = committed
      BY <2>4 DEF Publish
    <3>3. topic' \in Seq(Versions)
      BY <2>1, <2>4, <3>1
    <3>4. ASSUME NEW i \in 1 .. Len(topic') PROVE topic'[i] <= committed'
      <4>1. Len(topic') = Len(topic) + 1
        BY <2>1, <2>4, <3>1
      <4>2. CASE i = Len(topic) + 1
        BY <2>1, <2>4, <3>1, <3>2, <4>2
      <4>3. CASE i \in 1 .. Len(topic)
        BY <2>1, <2>4, <3>1, <3>2, <4>3
      <4>4. QED
        BY <2>1, <4>1, <4>2, <4>3
    <3>5. QED
      BY <3>3, <3>4
  <2>5. QED
    BY <2>3, <2>4 DEF Commit, Publish
<1>5. \A v \in acked : v <= committed'
  BY <1>2, LastVersionAssumption DEF IInv, TypeOK, CommittedFirst, Versions
<1>6. \A p \in Pushes : push[p].event <= committed'
  BY <1>2, LastVersionAssumption DEF IInv, TypeOK, CommittedFirst
<1>7. TypeOK' /\ CommittedFirst'
  BY <1>1, <1>2, <1>3, <1>4, <1>5, <1>6 DEF IInv, TypeOK, OneBucket, CommittedFirst
<1>8. DeadAreClosed' /\ SnapshotToCome' /\ RegistryFollowsHandlers' /\ Busy'
  BY <1>1 DEF IInv, Busy, DeadAreClosed, SnapshotToCome, RegistryFollowsHandlers, Registered, Served, Live
<1>9. BroadcastsReachAll' /\ NothingMissed'
  BY <1>1 DEF IInv, BroadcastsReachAll, NothingMissed, Informed, Knows, Served, Live
<1>10. QED
  BY <1>7, <1>8, <1>9 DEF IInv

\* A client that connects is registered before it may listen.
LEMMA ConnectStep ==
  ASSUME IInv, NEW c \in Conns, Connect(c)
  PROVE  IInv'
<1>1. /\ UNCHANGED <<store, topic, acked, push, clients>>
      /\ handler[c] = "accepting"
      /\ handler \in [Conns -> {"accepting", "greeted", "listening", "gone"}]
  BY DEF Connect, IInv, TypeOK
<1>2. PICK h \in {"greeted", "gone"} : handler' = [handler EXCEPT ![c] = h]
  BY DEF Connect
<1>3. handler'[c] = h /\ \A d \in Conns : d # c => handler'[d] = handler[d]
  BY <1>1, <1>2
<1>4. OneBucket' /\ RegistryFollowsHandlers'
  <2>1. CASE buckets' = {Registered \union {c}} /\ h = "greeted"
    <3>1. Registered' = Registered \union {c} /\ OneBucket'
      BY <2>1, JoinFacts DEF IInv
    <3>2. QED
      BY <1>1, <1>3, <2>1, <3>1 DEF IInv, RegistryFollowsHandlers, Served, Live
  <2>2. CASE UNCHANGED buckets /\ h = "gone"
    <3>1. Registered' = Registered
      BY <2>2 DEF Registered
    <3>2. c \notin Registered
      BY <1>1 DEF IInv, RegistryFollowsHandlers, Served
    <3>3. QED
      BY <1>1, <1>3, <2>2, <3>1, <3>2
         DEF IInv, TypeOK, OneBucket, RegistryFollowsHandlers, Served, Live
  <2>3. QED
    BY <1>1, <1>2, <1>3, <2>1, <2>2 DEF Connect
<1>5. TypeOK' /\ CommittedFirst' /\ DeadAreClosed' /\ Busy'
  BY <1>1, <1>2, <1>4 DEF IInv, Busy, TypeOK, CommittedFirst, DeadAreClosed
<1>6. SnapshotToCome'
  BY <1>1, <1>3 DEF IInv, SnapshotToCome
<1>7. \A d \in Conns : handler'[d] = "listening" => handler[d] = "listening"
  BY <1>2, <1>3
<1>8. BroadcastsReachAll' /\ NothingMissed'
  BY <1>1, <1>7 DEF IInv, BroadcastsReachAll, NothingMissed, Informed, Knows, Served, Live
<1>9. QED
  BY <1>4, <1>5, <1>6, <1>8 DEF IInv

\* The snapshot is as new as any event that was published before.
LEMMA SnapshotStep ==
  ASSUME IInv, NEW c \in Conns, SendSnapshot(c)
  PROVE  IInv'
<1>1. /\ UNCHANGED <<store, topic, acked, buckets, push, link, seen>>
      /\ handler[c] = "greeted"
      /\ handler' = [handler EXCEPT ![c] = "listening"]
      /\ handler \in [Conns -> {"accepting", "greeted", "listening", "gone"}]
      /\ snapshot \in [Conns -> {NoSnapshot} \union 0 .. LastVersion]
      /\ committed \in 0 .. LastVersion
      /\ snapshot[c] = NoSnapshot
  BY DEF SendSnapshot, IInv, TypeOK, SnapshotToCome
<1>2. handler'[c] = "listening" /\ \A d \in Conns : d # c => handler'[d] = handler[d]
  BY <1>1
<1>3. /\ snapshot' \in [Conns -> {NoSnapshot} \union 0 .. LastVersion]
      /\ snapshot'[c] \in {NoSnapshot, committed}
      /\ \A d \in Conns : d # c => snapshot'[d] = snapshot[d]
  BY <1>1 DEF SendSnapshot
<1>4. TypeOK' /\ CommittedFirst' /\ DeadAreClosed' /\ Busy'
  BY <1>1, <1>3 DEF IInv, Busy, TypeOK, OneBucket, CommittedFirst, DeadAreClosed
<1>5. SnapshotToCome' /\ RegistryFollowsHandlers'
  BY <1>1, <1>2, <1>3
     DEF IInv, SnapshotToCome, RegistryFollowsHandlers, Registered, Served, Live
<1>6. ASSUME NEW d \in Conns, d # c, NEW v
      PROVE  (Informed(d)' <=> Informed(d)) /\ (Knows(d, v)' <=> Knows(d, v))
  BY <1>1, <1>2, <1>3, <1>6 DEF Informed, Knows
<1>7. ASSUME Informed(c)', NEW v, v <= committed
      PROVE  Knows(c, v)'
  BY <1>3, <1>7 DEF Informed, Knows
<1>8. BroadcastsReachAll'
  <2>1. SUFFICES ASSUME NEW p \in Pushes, NEW d \in Conns, Informed(d)'
                 PROVE  d \in push[p].todo \/ Knows(d, push[p].event)'
    BY <1>1 DEF BroadcastsReachAll, Knows
  <2>2. push[p].event <= committed
    BY DEF IInv, CommittedFirst
  <2>3. QED
    BY <1>1, <1>6, <1>7, <2>1, <2>2 DEF IInv, BroadcastsReachAll, Knows
<1>9. NothingMissed'
  <2>1. SUFFICES ASSUME NEW d \in Conns, Informed(d)', NEW v \in acked
                 PROVE  Knows(d, v)'
    BY <1>1 DEF NothingMissed, Informed, Served, Live
  <2>2. v <= committed
    BY DEF IInv, CommittedFirst
  <2>3. QED
    BY <1>6, <1>7, <2>1, <2>2 DEF IInv, NothingMissed, Informed, Served, Live
<1>10. QED
  BY <1>4, <1>5, <1>8, <1>9 DEF IInv

\* A handler that ends takes its connection out of the registry.
LEMMA LeaveStep ==
  ASSUME IInv, NEW c \in Conns, Leave(c)
  PROVE  IInv'
<1>1. /\ UNCHANGED <<store, topic, acked, push, clients>>
      /\ handler' = [handler EXCEPT ![c] = "gone"]
      /\ handler \in [Conns -> {"accepting", "greeted", "listening", "gone"}]
  BY DEF Leave, IInv, TypeOK
<1>2. handler'[c] = "gone" /\ \A d \in Conns : d # c => handler'[d] = handler[d]
  BY <1>1
<1>3. Registered' = Registered \ {c} /\ OneBucket'
  BY DiscardFacts DEF Leave, IInv
<1>4. TypeOK' /\ CommittedFirst' /\ DeadAreClosed' /\ Busy'
  BY <1>1, <1>3 DEF IInv, Busy, TypeOK, CommittedFirst, DeadAreClosed
<1>5. SnapshotToCome' /\ RegistryFollowsHandlers'
  BY <1>1, <1>2, <1>3 DEF IInv, SnapshotToCome, RegistryFollowsHandlers, Served, Live
<1>6. \A d \in Conns : handler'[d] = "listening" => handler[d] = "listening"
  BY <1>2
<1>7. BroadcastsReachAll' /\ NothingMissed'
  BY <1>1, <1>6 DEF IInv, BroadcastsReachAll, NothingMissed, Informed, Knows, Served, Live
<1>8. QED
  BY <1>4, <1>5, <1>7 DEF IInv

\* A client that goes stays registered until the service learns of it.
LEMMA CloseStep ==
  ASSUME IInv, NEW c \in Conns, Close(c)
  PROVE  IInv'
<1>1. /\ UNCHANGED <<store, topic, acked, handler, buckets, push, seen, snapshot>>
      /\ link' = [link EXCEPT ![c] = "closed"]
      /\ link \in [Conns -> {"open", "closed"}]
  BY DEF Close, IInv, TypeOK
<1>2. link'[c] = "closed" /\ \A d \in Conns : d # c => link'[d] = link[d]
  BY <1>1
<1>3. TypeOK' /\ CommittedFirst' /\ Busy'
  BY <1>1 DEF IInv, Busy, TypeOK, OneBucket, CommittedFirst
<1>4. DeadAreClosed'
  <2>1. \A p \in Pushes : push[p].dead \subseteq Conns
    BY DEF IInv, TypeOK
  <2>2. QED
    BY <1>1, <1>2, <2>1 DEF IInv, DeadAreClosed
<1>5. SnapshotToCome' /\ RegistryFollowsHandlers'
  BY <1>1, <1>2 DEF IInv, SnapshotToCome, RegistryFollowsHandlers, Registered, Served, Live
<1>6. \A d \in Conns : link'[d] = "open" => link[d] = "open"
  BY <1>2
<1>7. BroadcastsReachAll' /\ NothingMissed'
  BY <1>1, <1>6 DEF IInv, BroadcastsReachAll, NothingMissed, Informed, Knows, Served, Live
<1>8. QED
  BY <1>3, <1>4, <1>5, <1>7 DEF IInv

------------------------------------------------------------------------------

\* A broadcast has everybody to serve who is registered when it begins.
LEMMA StartStep ==
  ASSUME IInv, NEW p \in Pushes, StartPush(p)
  PROVE  IInv'
<1>1. /\ UNCHANGED <<store, topic, acked, handler, buckets, clients>>
      /\ topic # <<>>
      /\ push' = [push EXCEPT ![p] = [event |-> Head(topic), todo |-> Registered, dead |-> {}]]
      /\ push \in [Pushes -> [event : 0 .. LastVersion, todo : SUBSET Conns, dead : SUBSET Conns]]
      /\ topic \in Seq(Versions)
  BY DEF StartPush, IInv, TypeOK
<1>2. Head(topic) \in Versions /\ Head(topic) = topic[1] /\ 1 \in 1 .. Len(topic)
  BY <1>1
<1>3. Head(topic) \in 0 .. LastVersion /\ Head(topic) <= committed
  BY <1>2, LastVersionAssumption DEF IInv, CommittedFirst, Versions
<1>4. push' \in [Pushes -> [event : 0 .. LastVersion, todo : SUBSET Conns, dead : SUBSET Conns]]
  BY <1>1, <1>3, RegisteredType DEF IInv
<1>5. /\ push'[p] = [event |-> Head(topic), todo |-> Registered, dead |-> {}]
      /\ \A q \in Pushes : q # p => push'[q] = push[q]
  BY <1>1
<1>6. TypeOK'
  BY <1>1, <1>4 DEF IInv, TypeOK, OneBucket
<1>7. CommittedFirst'
  BY <1>1, <1>3, <1>5 DEF IInv, CommittedFirst
<1>8. DeadAreClosed'
  BY <1>1, <1>5 DEF IInv, DeadAreClosed
<1>9. SnapshotToCome' /\ RegistryFollowsHandlers' /\ NothingMissed'
  BY <1>1 DEF IInv, SnapshotToCome, RegistryFollowsHandlers, Registered, NothingMissed, Knows,
              Served, Live
<1>10. BroadcastsReachAll'
  <2>1. SUFFICES ASSUME NEW q \in Pushes, NEW c \in Conns, Informed(c)
                 PROVE  c \in push'[q].todo \/ Knows(c, push'[q].event)
    BY <1>1 DEF BroadcastsReachAll, Informed, Knows
  <2>2. CASE q = p
    BY <1>5, <2>1, <2>2 DEF IInv, RegistryFollowsHandlers, Informed, Served, Live
  <2>3. CASE q # p
    BY <1>5, <2>1, <2>3 DEF IInv, BroadcastsReachAll
  <2>4. QED
    BY <2>2, <2>3
<1>11. Busy'
  BY <1>2, <1>5, LastVersionAssumption DEF IInv, Busy, Versions
<1>12. QED
  BY <1>6, <1>7, <1>8, <1>9, <1>10, <1>11 DEF IInv

\* A client is taken off the list when it has the frame, or is not there.
LEMMA SendStep ==
  ASSUME IInv, NEW p \in Pushes, SendEvent(p)
  PROVE  IInv'
<1>1. /\ UNCHANGED <<store, topic, acked, handler, buckets, link, snapshot>>
      /\ push \in [Pushes -> [event : 0 .. LastVersion, todo : SUBSET Conns, dead : SUBSET Conns]]
      /\ seen \in [Conns -> SUBSET Versions]
      /\ link \in [Conns -> {"open", "closed"}]
  BY DEF SendEvent, IInv, TypeOK
<1>2. PICK c \in push[p].todo :
        \/ /\ link[c] = "open"
           /\ seen' = [seen EXCEPT ![c] = @ \union {push[p].event}]
           /\ push' = [push EXCEPT ![p].todo = @ \ {c}]
        \/ /\ link[c] = "closed"
           /\ push' \in {[push EXCEPT ![p].todo = @ \ {c}],
                         [push EXCEPT ![p].todo = @ \ {c}, ![p].dead = @ \union {c}]}
           /\ UNCHANGED seen
  BY DEF SendEvent
<1>3. c \in Conns /\ push[p].event \in 0 .. LastVersion /\ push[p].event # 0
  <2>1. push[p].event # 0
    BY <1>2 DEF IInv, Busy, NoPush
  <2>2. QED
    BY <1>1, <1>2, <2>1
<1>4. PICK D \in SUBSET {c} :
        /\ D = {} \/ link[c] = "closed"
        /\ push' = [push EXCEPT ![p].todo = @ \ {c}, ![p].dead = @ \union D]
  <2>1. push[p].dead \union {} = push[p].dead
    OBVIOUS
  <2>2. CASE push' = [push EXCEPT ![p].todo = @ \ {c}]
    <3>1. push' = [push EXCEPT ![p].todo = @ \ {c}, ![p].dead = @ \union {}]
      BY <1>1, <2>1, <2>2
    <3>2. QED
      BY <3>1
  <2>3. QED
    BY <1>2, <2>2
<1>5. push' \in [Pushes -> [event : 0 .. LastVersion, todo : SUBSET Conns, dead : SUBSET Conns]]
  <2>1. D \subseteq Conns
    BY <1>3
  <2>2. [push[p] EXCEPT !.todo = @ \ {c}, !.dead = @ \union D]
          \in [event : 0 .. LastVersion, todo : SUBSET Conns, dead : SUBSET Conns]
    BY <1>1, <2>1
  <2>3. push' = [push EXCEPT ![p] = [push[p] EXCEPT !.todo = @ \ {c}, !.dead = @ \union D]]
    BY <1>4
  <2>4. QED
    BY <1>1, <2>2, <2>3
<1>6. /\ push'[p].event = push[p].event
      /\ push'[p].todo = push[p].todo \ {c}
      /\ push'[p].dead = push[p].dead \union D
      /\ \A q \in Pushes : q # p => push'[q] = push[q]
  BY <1>1, <1>4
<1>7. /\ seen' \in [Conns -> SUBSET Versions]
      /\ \A d \in Conns : seen[d] \subseteq seen'[d]
      /\ link[c] = "open" => push[p].event \in seen'[c]
  BY <1>1, <1>2, <1>3, LastVersionAssumption DEF Versions
<1>8. TypeOK'
  BY <1>1, <1>5, <1>7 DEF IInv, TypeOK, OneBucket
<1>9. CommittedFirst'
  BY <1>1, <1>6 DEF IInv, CommittedFirst
<1>10. DeadAreClosed'
  BY <1>1, <1>4, <1>6 DEF IInv, DeadAreClosed
<1>11. SnapshotToCome' /\ RegistryFollowsHandlers' /\ Busy'
  <2>1. SnapshotToCome' /\ RegistryFollowsHandlers'
    BY <1>1 DEF IInv, SnapshotToCome, RegistryFollowsHandlers, Registered, Served, Live
  <2>2. Busy'
    BY <1>3, <1>6 DEF IInv, Busy
  <2>3. QED
    BY <2>1, <2>2
<1>12. ASSUME NEW d \in Conns, NEW v, Knows(d, v)
       PROVE  Knows(d, v)'
  BY <1>1, <1>7, <1>12, KnowsStays DEF IInv
<1>13. BroadcastsReachAll'
  <2>1. SUFFICES ASSUME NEW q \in Pushes, NEW d \in Conns, Informed(d)
                 PROVE  d \in push'[q].todo \/ Knows(d, push[q].event)'
    BY <1>1, <1>6 DEF BroadcastsReachAll, Informed, Knows
  <2>2. d \in push[q].todo \/ Knows(d, push[q].event)
    BY <2>1 DEF IInv, BroadcastsReachAll
  <2>3. CASE q = p /\ d = c
    BY <1>6, <1>7, <2>1, <2>3 DEF Informed, Knows
  <2>4. CASE ~(q = p /\ d = c)
    BY <1>6, <1>12, <2>2, <2>4
  <2>5. QED
    BY <2>3, <2>4
<1>14. NothingMissed'
  BY <1>1, <1>12 DEF IInv, NothingMissed, Served, Live
<1>15. QED
  BY <1>8, <1>9, <1>10, <1>11, <1>13, <1>14 DEF IInv

\* Nobody is left to serve: whoever is informed knows the event by now, and
\* those found dead have not come back.
LEMMA FinishStep ==
  ASSUME IInv, NEW p \in Pushes, FinishPush(p)
  PROVE  IInv'
<1>1. /\ UNCHANGED <<store, handler, clients>>
      /\ push[p] # NoPush /\ push[p].todo = {}
      /\ push' = [push EXCEPT ![p] = NoPush]
      /\ acked' = acked \union {push[p].event}
      /\ push \in [Pushes -> [event : 0 .. LastVersion, todo : SUBSET Conns, dead : SUBSET Conns]]
      /\ topic \in Seq(Versions)
  BY DEF FinishPush, IInv, TypeOK
<1>2. /\ push'[p] = NoPush
      /\ \A q \in Pushes : q # p => push'[q] = push[q]
  BY <1>1
<1>3. push[p].event \in Versions /\ push[p].event <= committed
  BY <1>1, LastVersionAssumption DEF IInv, Busy, Versions, CommittedFirst
<1>4. topic' \in Seq(Versions) /\ \A i \in 1 .. Len(topic') : topic'[i] <= committed
  <2>1. CASE topic' = topic
    <3>1. \A i \in 1 .. Len(topic) : topic[i] <= committed
      BY DEF IInv, CommittedFirst
    <3>2. QED
      BY <1>1, <2>1, <3>1
  <2>2. CASE topic # <<>> /\ topic' = Tail(topic)
    <3>1. topic' \in Seq(Versions) /\ Len(topic') = Len(topic) - 1
      BY <1>1, <2>2
    <3>2. ASSUME NEW i \in 1 .. Len(topic') PROVE topic'[i] <= committed
      <4>1. topic'[i] = topic[i + 1] /\ i + 1 \in 1 .. Len(topic)
        BY <1>1, <2>2, <3>1
      <4>2. QED
        BY <4>1 DEF IInv, CommittedFirst
    <3>3. QED
      BY <3>1, <3>2
  <2>3. QED
    BY <2>1, <2>2 DEF FinishPush
<1>5. Registered' = Registered \ push[p].dead /\ OneBucket'
  BY DiscardFacts DEF FinishPush, IInv
<1>6. TypeOK'
  <2>1. NoPush \in [event : 0 .. LastVersion, todo : SUBSET Conns, dead : SUBSET Conns]
    BY LastVersionAssumption DEF NoPush
  <2>2. push' \in [Pushes -> [event : 0 .. LastVersion, todo : SUBSET Conns, dead : SUBSET Conns]]
    BY <1>1, <2>1
  <2>3. QED
    BY <1>1, <1>3, <1>4, <1>5, <2>2 DEF IInv, TypeOK
<1>7. CommittedFirst'
  <2>1. 0 <= committed
    BY DEF IInv, TypeOK
  <2>2. push'[p].event <= committed
    BY <1>2, <2>1 DEF NoPush
  <2>3. \A q \in Pushes : push'[q].event <= committed
    BY <1>2, <2>2 DEF IInv, CommittedFirst
  <2>4. QED
    BY <1>1, <1>3, <1>4, <2>3 DEF IInv, CommittedFirst
<1>8. DeadAreClosed'
  BY <1>1, <1>2 DEF IInv, DeadAreClosed, NoPush
<1>9. SnapshotToCome' /\ Busy'
  BY <1>1, <1>2 DEF IInv, SnapshotToCome, Busy, NoPush
<1>10. RegistryFollowsHandlers'
  <2>1. \A c \in push[p].dead : link[c] = "closed"
    BY DEF IInv, DeadAreClosed
  <2>2. QED
    BY <1>1, <1>5, <2>1 DEF IInv, RegistryFollowsHandlers, Served, Live
<1>11. BroadcastsReachAll'
  <2>1. SUFFICES ASSUME NEW q \in Pushes, NEW c \in Conns, Informed(c)
                 PROVE  c \in push'[q].todo \/ Knows(c, push'[q].event)
    BY <1>1 DEF BroadcastsReachAll, Informed, Knows
  <2>2. CASE q # p
    BY <1>2, <2>1, <2>2 DEF IInv, BroadcastsReachAll
  <2>3. CASE q = p
    <3>1. snapshot[c] \in 0 .. LastVersion
      BY <2>1 DEF IInv, TypeOK, Informed
    <3>2. 0 <= snapshot[c]
      BY <3>1
    <3>3. QED
      BY <1>2, <2>1, <2>3, <3>2 DEF NoPush, Informed, Knows
  <2>4. QED
    BY <2>2, <2>3
<1>12. NothingMissed'
  <2>1. SUFFICES ASSUME NEW c \in Conns, Informed(c), NEW v \in acked \union {push[p].event}
                 PROVE  Knows(c, v)
    BY <1>1 DEF NothingMissed, Informed, Knows, Served, Live
  <2>2. CASE v \in acked
    BY <2>1, <2>2 DEF IInv, NothingMissed, Informed, Served, Live
  <2>3. CASE v = push[p].event
    BY <1>1, <2>1, <2>3 DEF IInv, BroadcastsReachAll
  <2>4. QED
    BY <2>1, <2>2, <2>3
<1>13. QED
  BY <1>6, <1>7, <1>8, <1>9, <1>10, <1>11, <1>12 DEF IInv

\* A new instance has no connections, hence nobody it has not told.
LEMMA RestartStep ==
  ASSUME IInv, Restart
  PROVE  IInv'
<1>1. /\ UNCHANGED <<store, topic, acked, seen, snapshot>>
      /\ handler' = [c \in Conns |-> IF handler[c] = "accepting" THEN "accepting" ELSE "gone"]
      /\ link' = [c \in Conns |-> IF handler[c] = "accepting" THEN link[c] ELSE "closed"]
      /\ buckets' = {} /\ push' = [p \in Pushes |-> NoPush]
  BY DEF Restart
<1>2. \A c \in Conns : (handler'[c] = "accepting" /\ handler[c] = "accepting") \/ handler'[c] = "gone"
  BY <1>1
<1>3. Registered' = {} /\ OneBucket'
  BY <1>1 DEF Registered, OneBucket
<1>4. TypeOK'
  <2>1. NoPush \in [event : 0 .. LastVersion, todo : SUBSET Conns, dead : SUBSET Conns]
    BY LastVersionAssumption DEF NoPush
  <2>2. link' \in [Conns -> {"open", "closed"}]
    BY <1>1 DEF IInv, TypeOK
  <2>3. QED
    BY <1>1, <1>3, <2>1, <2>2 DEF IInv, TypeOK
<1>5. CommittedFirst' /\ DeadAreClosed' /\ Busy'
  BY <1>1, LastVersionAssumption DEF IInv, TypeOK, CommittedFirst, DeadAreClosed, Busy, NoPush
<1>6. SnapshotToCome' /\ RegistryFollowsHandlers' /\ BroadcastsReachAll' /\ NothingMissed'
  BY <1>1, <1>2, <1>3
     DEF IInv, SnapshotToCome, RegistryFollowsHandlers, BroadcastsReachAll, NothingMissed, Informed,
         Served, Live
<1>7. QED
  BY <1>4, <1>5, <1>6 DEF IInv

------------------------------------------------------------------------------

\* Every step keeps the invariant.
LEMMA StepIInv == IInv /\ [Next]_vars => IInv'
<1>1. SUFFICES ASSUME IInv, [Next]_vars PROVE IInv'
  OBVIOUS
<1>2. CASE \E w \in Writers : Commit(w) \/ Publish(w)
  BY <1>1, <1>2, WriterStep
<1>3. CASE \E c \in Conns : Connect(c) \/ SendSnapshot(c) \/ Leave(c) \/ Close(c)
  BY <1>1, <1>3, ConnectStep, SnapshotStep, LeaveStep, CloseStep
<1>4. CASE \E p \in Pushes : StartPush(p) \/ SendEvent(p) \/ FinishPush(p)
  BY <1>1, <1>4, StartStep, SendStep, FinishStep
<1>5. CASE Restart
  BY <1>1, <1>5, RestartStep
<1>6. CASE UNCHANGED vars
  BY <1>1, <1>6 DEF IInv, TypeOK, OneBucket, SnapshotToCome, CommittedFirst, DeadAreClosed, Busy,
    RegistryFollowsHandlers, BroadcastsReachAll, NothingMissed, Registered, Informed, Knows, Served, Live
<1>7. QED
  BY <1>1, <1>2, <1>3, <1>4, <1>5, <1>6 DEF Next

\* The invariant of the service, for every number of clients and pushes.
THEOREM NotificationInvariance == Spec => []IInv
<1>1. QED
  BY InitIInv, StepIInv, PTL DEF Spec

\* Connections, pushes and handlers keep their types across every interleaving
\* and restart (TypeOK).
THEOREM NotificationTypeCorrect == Spec => []TypeOK
<1>1. IInv => TypeOK
  BY DEF IInv
<1>2. QED
  BY <1>1, NotificationInvariance, PTL

\* The registry holds just the connections a handler will remove, and never
\* loses a client that is there (ConnectionRegistry.remove, broadcast).
THEOREM RegistryIsConsistent == Spec => []RegistryFollowsHandlers
<1>1. IInv => RegistryFollowsHandlers
  BY DEF IInv
<1>2. QED
  BY <1>1, NotificationInvariance, PTL

\* A client that was sent a snapshot has not missed an acknowledged event
\* (ws_results registers before it fetches, and broadcasts after).
THEOREM NobodyMissesAnEvent == Spec => []NothingMissed
<1>1. IInv => NothingMissed
  BY DEF IInv
<1>2. QED
  BY <1>1, NotificationInvariance, PTL

==============================================================================
