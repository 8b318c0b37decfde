------------------------------ MODULE Notification ------------------------------
(***************************************************************************)
(* The way of a submission's result events to its WebSocket clients.       *)
(* Writers (the trainer and the API server's requests) commit a new        *)
(* version of the result and publish it afterwards; Pub/Sub (external)     *)
(* pushes the events of one ordering key one after the other, again until  *)
(* they are acknowledged; the notification service relays each to the      *)
(* connections of its registry.                                            *)
(*                                                                         *)
(* The service is one event loop in one instance: what happens between two *)
(* awaits is one step.  A frame is written when send_json is called, so    *)
(* the frames of a connection keep the order of the calls.  A version of   *)
(* the result stands for its event, too.                                   *)
(***************************************************************************)
EXTENDS Naturals, Sequences

CONSTANTS
  Writers,     \* processes that commit and publish
  LastVersion, \* the version with the terminal status
  Conns,       \* WebSocket connections of the submission, each made once
  Leavers,     \* those whose client may go of its own accord
  Pushes,      \* push requests the service can be handling
  NoSnapshot   \* the client was sent no snapshot

ASSUME LastVersionAssumption == LastVersion \in Nat \ {0}
ASSUME NoSnapshotAssumption == NoSnapshot \notin Nat

Versions == 1 .. LastVersion

VARIABLES
  committed,  \* version of the result in Firestore, 0 while there is none
  publishing, \* the version each writer has yet to publish, 0 for none
  topic,      \* published events that are not acknowledged
  acked,      \* events that are
  handler,    \* where the handler of a connection is
  link,       \* whether the client is still there
  buckets,    \* ConnectionRegistry: the bucket of the submission, if there is one
  push,       \* the broadcasts under way
  seen,       \* events each client has received
  snapshot    \* the version of the result it was sent on connection

store == <<committed, publishing>>
clients == <<link, seen, snapshot>>
vars == <<store, topic, acked, handler, buckets, push, clients>>

NoPush == [event |-> 0, todo |-> {}, dead |-> {}]

Init ==
  /\ committed = 0
  /\ publishing = [w \in Writers |-> 0]
  /\ topic = <<>>
  /\ acked = {}
  /\ handler = [c \in Conns |-> "accepting"]
  /\ link = [c \in Conns |-> "open"]
  /\ buckets = {}
  /\ push = [p \in Pushes |-> NoPush]
  /\ seen = [c \in Conns |-> {}]
  /\ snapshot = [c \in Conns |-> NoSnapshot]

------------------------------------------------------------------------------
(* Writers.  The publication follows the commit; when it raises the event  *)
(* is lost.                                                                *)

Commit(w) ==
  /\ committed < LastVersion
  /\ publishing[w] = 0
  /\ committed' = committed + 1
  /\ publishing' = [publishing EXCEPT ![w] = committed']
  /\ UNCHANGED <<topic, acked, handler, buckets, push, clients>>

Publish(w) ==
  /\ publishing[w] # 0
  /\ topic' \in {topic, Append(topic, publishing[w])}
  /\ publishing' = [publishing EXCEPT ![w] = 0]
  /\ UNCHANGED <<committed, acked, handler, buckets, push, clients>>

------------------------------------------------------------------------------
(* ConnectionRegistry.                                                     *)

Registered == UNION buckets

\* Mutant: an empty bucket stays.
MutDiscard(cs) == buckets' = {b \ cs : b \in buckets}

\* remove, and the end of broadcast: a bucket that is empty is deleted.
Discard(cs) == buckets' = {Registered \ cs} \ {{}}

------------------------------------------------------------------------------
(* ws_results: one handler for each connection.                            *)

\* From accept to the "connected" message, which may fail at once.
Connect(c) ==
  /\ handler[c] = "accepting"
  /\ \/ /\ buckets' = {Registered \union {c}}
        /\ handler' = [handler EXCEPT ![c] = "greeted"]
     \/ /\ link[c] = "closed"
        /\ handler' = [handler EXCEPT ![c] = "gone"]
        /\ UNCHANGED buckets
  /\ UNCHANGED <<store, topic, acked, push, clients>>

\* The result is fetched and sent without an await in between.  A fetch that
\* raises is only logged.
SendSnapshot(c) ==
  /\ handler[c] = "greeted"
  /\ snapshot' \in {snapshot, [snapshot EXCEPT ![c] = committed]}
  /\ handler' = [handler EXCEPT ![c] = "listening"]
  /\ UNCHANGED <<store, topic, acked, buckets, push, link, seen>>

\* Mutant: a handler that ends before it listens does not unregister.
MutLeave(c) ==
  /\ handler[c] \in {"greeted", "listening"}
  /\ link[c] = "closed"
  /\ IF handler[c] = "listening" THEN Discard({c}) ELSE UNCHANGED buckets
  /\ handler' = [handler EXCEPT ![c] = "gone"]
  /\ UNCHANGED <<store, topic, acked, push, clients>>

\* Sending or receiving raises; the connection is removed whatever it was.
Leave(c) ==
  /\ handler[c] \in {"greeted", "listening"}
  /\ link[c] = "closed"
  /\ Discard({c})
  /\ handler' = [handler EXCEPT ![c] = "gone"]
  /\ UNCHANGED <<store, topic, acked, push, clients>>

\* The client goes, and the service learns of it only when it sends or reads.
Close(c) ==
  /\ c \in Leavers
  /\ handler[c] # "gone"
  /\ link[c] = "open"
  /\ link' = [link EXCEPT ![c] = "closed"]
  /\ UNCHANGED <<store, topic, acked, handler, buckets, push, seen, snapshot>>

------------------------------------------------------------------------------
(* pubsub_push.  Only the oldest event is pushed; when its deadline passes *)
(* it is pushed again although the first push still goes on.               *)

\* The broadcast serves the connections that are registered now.
StartPush(p) ==
  /\ push[p] = NoPush
  /\ topic # <<>>
  /\ push' = [push EXCEPT ![p] = [event |-> Head(topic), todo |-> Registered, dead |-> {}]]
  /\ UNCHANGED <<store, topic, acked, handler, buckets, clients>>

\* Mutant: a failed send ends the push with an error.
MutSendEvent(p) ==
  \E c \in push[p].todo :
    /\ \/ /\ link[c] = "open"
          /\ seen' = [seen EXCEPT ![c] = @ \union {push[p].event}]
          /\ push' = [push EXCEPT ![p].todo = @ \ {c}]
       \/ /\ link[c] = "closed"
          /\ push' = [push EXCEPT ![p] = NoPush]
          /\ UNCHANGED seen
    /\ UNCHANGED <<store, topic, acked, handler, buckets, link, snapshot>>

\* A frame to a client that is gone is lost or raises.
SendEvent(p) ==
  \E c \in push[p].todo :
    /\ \/ /\ link[c] = "open"
          /\ seen' = [seen EXCEPT ![c] = @ \union {push[p].event}]
          /\ push' = [push EXCEPT ![p].todo = @ \ {c}]
       \/ /\ link[c] = "closed"
          /\ push' \in {[push EXCEPT ![p].todo = @ \ {c}],
                        [push EXCEPT ![p].todo = @ \ {c}, ![p].dead = @ \union {c}]}
          /\ UNCHANGED seen
    /\ UNCHANGED <<store, topic, acked, handler, buckets, link, snapshot>>

\* Mutant: the push is answered while connections are still to be served.
MutFinishPush(p) ==
  /\ push[p] # NoPush
  /\ Discard(push[p].dead)
  /\ acked' = acked \union {push[p].event}
  /\ topic' = IF topic # <<>> /\ Head(topic) = push[p].event THEN Tail(topic) ELSE topic
  /\ push' = [push EXCEPT ![p] = NoPush]
  /\ UNCHANGED <<store, handler, clients>>

\* All have been served: drop the dead connections and acknowledge; the event
\* is the oldest one unless another push of it has been acknowledged before.
FinishPush(p) ==
  /\ push[p] # NoPush
  /\ push[p].todo = {}
  /\ Discard(push[p].dead)
  /\ acked' = acked \union {push[p].event}
  /\ topic' = IF topic # <<>> /\ Head(topic) = push[p].event THEN Tail(topic) ELSE topic
  /\ push' = [push EXCEPT ![p] = NoPush]
  /\ UNCHANGED <<store, handler, clients>>

\* The instance is replaced: connections, registry and pushes are gone, and
\* what was not acknowledged is pushed again.
Restart ==
  /\ \/ \E c \in Conns : handler[c] \in {"greeted", "listening"}
     \/ \E p \in Pushes : push[p] # NoPush
  /\ handler' = [c \in Conns |-> IF handler[c] = "accepting" THEN "accepting" ELSE "gone"]
  /\ link' = [c \in Conns |-> IF handler[c] = "accepting" THEN link[c] ELSE "closed"]
  /\ buckets' = {}
  /\ push' = [p \in Pushes |-> NoPush]
  /\ UNCHANGED <<store, topic, acked, seen, snapshot>>

Next ==
  \/ \E w \in Writers : Commit(w) \/ Publish(w)
  \/ \E c \in Conns : Connect(c) \/ SendSnapshot(c) \/ Leave(c) \/ Close(c)
  \/ \E p \in Pushes : StartPush(p) \/ SendEvent(p) \/ FinishPush(p)
  \/ Restart

Spec == Init /\ [][Next]_vars

\* The event loop resumes what is ready, and Pub/Sub pushes until it is
\* acknowledged.  Nothing is asked of writers, clients or restarts.
Fairness ==
  /\ \A c \in Conns : WF_vars(SendSnapshot(c))
  /\ \A p \in Pushes :
       WF_vars(StartPush(p)) /\ WF_vars(SendEvent(p)) /\ WF_vars(FinishPush(p))

FairSpec == Spec /\ Fairness

------------------------------------------------------------------------------

\* The submission has a bucket while connections are registered, no longer.
OneBucket == buckets = {} \/ \E b \in (SUBSET Conns) \ {{}} : buckets = {b}

\* Versions are bounded by the last one, and no empty bucket is left behind.
TypeOK ==
  /\ committed \in 0 .. LastVersion
  /\ publishing \in [Writers -> 0 .. LastVersion]
  /\ topic \in Seq(Versions)
  /\ acked \subseteq Versions
  /\ handler \in [Conns -> {"accepting", "greeted", "listening", "gone"}]
  /\ link \in [Conns -> {"open", "closed"}]
  /\ OneBucket
  /\ push \in [Pushes -> [event : 0 .. LastVersion, todo : SUBSET Conns, dead : SUBSET Conns]]
  /\ seen \in [Conns -> SUBSET Versions]
  /\ snapshot \in [Conns -> {NoSnapshot} \union 0 .. LastVersion]

Pending(v) == \E i \in 1 .. Len(topic) : topic[i] = v
Served(c) == handler[c] \in {"greeted", "listening"}
Live(c) == Served(c) /\ link[c] = "open"

\* The client has been told of version v, or of a later one on connection.
Knows(c, v) ==
  \/ v \in seen[c]
  \/ snapshot[c] # NoSnapshot /\ v <= snapshot[c]

\* The registry follows the handlers through every overlap of connections,
\* broadcasts and removals: nothing stays registered without a handler that
\* will remove it, and a client that is there is never forgotten.
RegistryFollowsHandlers ==
  \A c \in Conns :
    /\ c \in Registered => Served(c)
    /\ Live(c) => c \in Registered

\* Between the snapshot and the events nothing falls through: a client that
\* was sent a snapshot knows every event that was acknowledged, whichever
\* broadcast had already begun when it connected.
NothingMissed ==
  \A c \in Conns :
    handler[c] = "listening" /\ Live(c) /\ snapshot[c] # NoSnapshot =>
      \A v \in acked : Knows(c, v)

\* Every published event reaches every client that stays, however other
\* clients come, go and break; only one whose snapshot failed may miss the
\* event that was being broadcast when it came.
PublishedIsTold ==
  \A c \in Conns, v \in Versions :
    (Pending(v) /\ Live(c))
      ~> (Knows(c, v) \/ ~Live(c) \/ (handler[c] = "listening" /\ snapshot[c] = NoSnapshot))
==============================================================================
