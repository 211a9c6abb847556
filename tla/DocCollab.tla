------------------------------ MODULE DocCollab ------------------------------
(***************************************************************************)
(* One shared document: its write-ahead log, snapshots and revisions       *)
(* (src/src/ai/workspace/workspace-doc-collab.repo.ts), the WebSocket room *)
(* on one instance (src/src/server/workspace-docs-ws.ts) and the route     *)
(* that loads it (GET docs/:docId/snapshot/latest of workspace-router.ts). *)
(*                                                                         *)
(* Updates are Y.js updates: a document is the set of those it has merged. *)
(* created_at is now(), the time at which a row's transaction began.       *)
(***************************************************************************)
EXTENDS Integers, Sequences, FiniteSets

CONSTANTS
  Client,       \* the connections there may be, each with a clientId of its own
  MaxUpdates,   \* bound: updates, all clients
  MaxSnapshots, \* bound: snapshots asked for
  MaxOps,       \* bound: doc_op messages
  Nobody

ASSUME DocAssumption ==
  /\ Nobody \notin Client
  /\ {MaxUpdates, MaxSnapshots, MaxOps} \subseteq Nat

VARIABLES
  log,        \* workspace_doc_updates: [u, at]
  written,    \* history: every row that was ever in it
  snapshots,  \* workspace_doc_snapshots in the order of their ids
  revisions,  \* versions in workspace_doc_revisions in the order of their ids
  docLock,    \* who holds the row lock of workspace_docs
  clock,      \* the time; every transaction begins at a time of its own
  room,       \* docClients of the document
  refCount,   \* docSubRefCount of the document
  subscribed, \* whether redisSub is subscribed to the cursor channel
  conn,       \* where each connection is
  doc,        \* what each client has merged
  load,       \* how far each client's GET of the document is
  update,     \* the update each client has under way
  snap,       \* the snapshot it has under way
  op,         \* its doc_op under way
  tally,      \* how many updates, snapshots and ops there were
  raced       \* history: connections overlapped, or one ended twice

store   == <<log, written, snapshots, revisions, docLock, clock>>
roomVars == <<room, refCount, subscribed, conn, raced>>
tasks   == <<load, update, snap, op>>
docVars == <<store, roomVars, doc, tasks, tally>>

-----------------------------------------------------------------------------
(* The store *)

(* ORDER BY version DESC, id DESC *)
Newer(i, j) == \/ snapshots[i].version > snapshots[j].version
               \/ snapshots[i].version = snapshots[j].version /\ i >= j
Latest == CHOOSE i \in 1..Len(snapshots) :
            \A j \in 1..Len(snapshots) : Newer(i, j)
NoSnapshot == [version |-> 0, state |-> {}, at |-> 0]
LatestSnapshot == IF snapshots = <<>> THEN NoSnapshot ELSE snapshots[Latest]

Pending(since) == {row.u : row \in {r \in log : r.at >= since}}
Loadable == LatestSnapshot.state \union Pending(LatestSnapshot.at)

MaxVersion == IF revisions = <<>> THEN 0
              ELSE CHOOSE v \in {revisions[i] : i \in 1..Len(revisions)} :
                     \A i \in 1..Len(revisions) : revisions[i] <= v

NotLoaded == [at |-> "none", snapshot |-> NoSnapshot, inRoom |-> FALSE,
              torn |-> FALSE, lost |-> {}]
NoUpdate == [at |-> "none", u |-> 0, time |-> 0]
NoSnap   == [at |-> "none", state |-> {}, version |-> 0, time |-> 0]
NoOp     == [at |-> "none", state |-> {}, version |-> 0, time |-> 0]

On(c)  == conn[c].pc = "on"
Deliver(u, to) ==
  doc' = [c \in Client |-> IF c \in to /\ ~conn[c].closed
                           THEN doc[c] \union {u} ELSE doc[c]]

-----------------------------------------------------------------------------
(* Connections: addClientToDoc, subscribeDocChannel, the presence, and     *)
(* only then the handlers of message, close and error.                     *)

Off == [pc |-> "off", closed |-> FALSE, again |-> FALSE]
To(c, pc) == conn' = [conn EXCEPT ![c].pc = pc]

Join(c) ==
  /\ conn[c].pc = "off"
  /\ room' = room \union {c}
  /\ To(c, "joining")
  /\ UNCHANGED <<store, refCount, subscribed, raced, doc, tasks, tally>>

Subscribe(c) ==
  /\ conn[c].pc = "joining"
  /\ IF refCount = 0
     THEN subscribed' = TRUE /\ To(c, "subscribing") /\ UNCHANGED refCount
     ELSE refCount' = refCount + 1 /\ To(c, "greeting") /\ UNCHANGED subscribed
  /\ raced' = (raced \/ \E d \in Client : conn[d].pc = "subscribing")
  /\ UNCHANGED <<store, room, doc, tasks, tally>>

(* The count is set from the 0 that was read before SUBSCRIBE was awaited. *)
Subscribed(c) ==
  /\ conn[c].pc = "subscribing"
  /\ refCount' = 1
  /\ To(c, "greeting")
  /\ UNCHANGED <<store, room, subscribed, raced, doc, tasks, tally>>

(* A connection closed before the handlers are attached is never removed.  *)
Greet(c) ==
  /\ conn[c].pc = "greeting"
  /\ To(c, IF conn[c].closed THEN "ghost" ELSE "on")
  /\ UNCHANGED <<store, room, refCount, subscribed, raced, doc, tasks, tally>>

(* The socket goes away, with a close event or an error before it, and     *)
(* with it a snapshot_request it has not answered.                         *)
Close(c) ==
  /\ ~conn[c].closed
  /\ \/ /\ conn[c].pc \in {"joining", "subscribing", "greeting"}
        /\ conn' = [conn EXCEPT ![c].closed = TRUE]
        /\ UNCHANGED <<room, raced, snap>>
     \/ /\ On(c)
        /\ \E again \in BOOLEAN :
             /\ conn' = [conn EXCEPT ![c].closed = TRUE, ![c].again = again,
                                     ![c].pc = "leaving"]
             /\ raced' = (raced \/ again)
        /\ room' = room \ {c}
        /\ snap' = [snap EXCEPT ![c] = IF @.at = "asked" THEN NoSnap ELSE @]
  /\ UNCHANGED <<store, refCount, subscribed, doc, load, update, op, tally>>

(* handleDisconnect after the presence is removed.                         *)
UnsubscribeEarly(c) ==
  /\ conn[c].pc = "leaving"
  /\ IF refCount <= 2
     THEN refCount' = 0 /\ subscribed' = FALSE
     ELSE refCount' = refCount - 1 /\ UNCHANGED subscribed
  /\ conn' = [conn EXCEPT ![c].again = FALSE,
                          ![c].pc = IF conn[c].again THEN @ ELSE "gone"]
  /\ UNCHANGED <<store, room, raced, doc, tasks, tally>>

Unsubscribe(c) ==
  /\ conn[c].pc = "leaving"
  /\ IF refCount <= 1
     THEN refCount' = 0 /\ subscribed' = FALSE
     ELSE refCount' = refCount - 1 /\ UNCHANGED subscribed
  /\ conn' = [conn EXCEPT ![c].again = FALSE,
                          ![c].pc = IF conn[c].again THEN @ ELSE "gone"]
  /\ UNCHANGED <<store, room, raced, doc, tasks, tally>>

-----------------------------------------------------------------------------
(* Loading: the latest snapshot, then the updates since; two queries.      *)
(* History: what the store has lost by then, and whether a snapshot was    *)
(* saved in between.                                                       *)

LoadSnapshot(c) ==
  /\ load[c].at = "none"
  /\ load' = [load EXCEPT ![c] = [at |-> "half", snapshot |-> LatestSnapshot,
                                  inRoom |-> c \in room, torn |-> FALSE,
                                  lost |-> {}]]
  /\ UNCHANGED <<store, roomVars, doc, update, snap, op, tally>>

LoadPending(c) ==
  /\ load[c].at = "half"
  /\ LET got == load[c].snapshot.state \union Pending(load[c].snapshot.at) IN
     /\ doc' = [doc EXCEPT ![c] = @ \union got]
     /\ load' = [load EXCEPT ![c].at = "done",
                             ![c].lost = {row.u : row \in written} \ Loadable]
  /\ UNCHANGED <<store, roomVars, update, snap, op, tally>>

-----------------------------------------------------------------------------
(* yjs_update: appended, then broadcast, then perhaps a snapshot_request.  *)

(* The server has the message: the INSERT's time is that of its beginning. *)
Edit(c) ==
  /\ On(c) /\ load[c].at = "done" /\ update[c].at = "none"
  /\ tally.updates < MaxUpdates
  /\ LET u == tally.updates + 1 IN
     /\ update' = [update EXCEPT ![c] =
                     [at |-> "sent", u |-> u, time |-> clock]]
     /\ doc' = [doc EXCEPT ![c] = @ \union {u}]
  /\ clock' = clock + 1
  /\ tally' = [tally EXCEPT !.updates = @ + 1]
  /\ UNCHANGED <<log, written, snapshots, revisions, docLock, roomVars, load,
                 snap, op>>

AppendUpdate(c) ==
  /\ update[c].at = "sent"
  /\ LET row == [u |-> update[c].u, at |-> update[c].time] IN
       log' = log \union {row} /\ written' = written \union {row}
  /\ update' = [update EXCEPT ![c].at = "logged"]
  /\ UNCHANGED <<snapshots, revisions, docLock, clock, roomVars, doc, load,
                 snap, op, tally>>

BroadcastToReady(c) ==
  /\ update[c].at = "logged"
  /\ Deliver(update[c].u, {d \in room : On(d)} \ {c})
  /\ update' = [update EXCEPT ![c] = NoUpdate]
  /\ UNCHANGED <<store, roomVars, load, snap, op, tally>>

(* The request is due when 30 seconds or 1000 updates have passed.         *)
Broadcast(c) ==
  /\ update[c].at = "logged"
  /\ Deliver(update[c].u, room \ {c})
  /\ update' = [update EXCEPT ![c] = NoUpdate]
  /\ \/ UNCHANGED <<snap, tally>>
     \/ /\ On(c) /\ snap[c].at = "none" /\ tally.snapshots < MaxSnapshots
        /\ snap' = [snap EXCEPT ![c].at = "asked"]
        /\ tally' = [tally EXCEPT !.snapshots = @ + 1]
  /\ UNCHANGED <<store, roomVars, load, op>>

-----------------------------------------------------------------------------
(* snapshot_response: the client's whole document, the current version in  *)
(* a query of its own, then saveSnapshotAndCompact, whose time is that of  *)
(* its BEGIN.                                                              *)

Capture(c) ==
  /\ snap[c].at = "asked"
  /\ snap' = [snap EXCEPT ![c] = [NoSnap EXCEPT !.at = "sent",
                                                !.state = doc[c]]]
  /\ UNCHANGED <<store, roomVars, doc, load, update, op, tally>>

ReadVersion(c) ==
  /\ snap[c].at = "sent"
  /\ snap' = [snap EXCEPT ![c].at = "versioned", ![c].version = MaxVersion]
  /\ UNCHANGED <<store, roomVars, doc, load, update, op, tally>>

BeginSave(c) ==
  /\ snap[c].at = "versioned"
  /\ snap' = [snap EXCEPT ![c].at = "begun", ![c].time = clock]
  /\ clock' = clock + 1
  /\ UNCHANGED <<log, written, snapshots, revisions, docLock, roomVars, doc,
                 load, update, op, tally>>

Save(version, state, at) ==
  snapshots' = Append(snapshots, [version |-> version, state |-> state,
                                  at |-> at])

Tear == load' = [c \in Client |-> IF load[c].at = "half"
                                  THEN [load[c] EXCEPT !.torn = TRUE]
                                  ELSE load[c]]

CompactAll(c) ==
  /\ snap[c].at = "begun"
  /\ Save(snap[c].version + 1, snap[c].state, snap[c].time)
  /\ log' = {}
  /\ snap' = [snap EXCEPT ![c] = NoSnap]
  /\ Tear
  /\ UNCHANGED <<written, revisions, docLock, clock, roomVars, doc, update, op,
                 tally>>

SaveSnapshotAndCompact(c) ==
  /\ snap[c].at = "begun"
  /\ Save(snap[c].version + 1, snap[c].state, snap[c].time)
  /\ log' = {row \in log : row.at >= snap[c].time}
  /\ snap' = [snap EXCEPT ![c] = NoSnap]
  /\ Tear
  /\ UNCHANGED <<written, revisions, docLock, clock, roomVars, doc, update, op,
                 tally>>

-----------------------------------------------------------------------------
(* doc_op: persistDocOp with a base version or without, and with the state *)
(* or without it; an empty state saves no snapshot.                        *)

BeginOp(c) ==
  /\ On(c) /\ op[c].at = "none" /\ load[c].at = "done"
  /\ tally.ops < MaxOps
  /\ \E base \in {-1} \union 0..MaxVersion : \E state \in {{}, doc[c]} :
       op' = [op EXCEPT ![c] = [at |-> "begun", state |-> state,
                                version |-> base, time |-> clock]]
  /\ clock' = clock + 1
  /\ tally' = [tally EXCEPT !.ops = @ + 1]
  /\ UNCHANGED <<log, written, snapshots, revisions, docLock, roomVars, doc,
                 load, update, snap>>

LockDocLoosely(c) ==
  /\ op[c].at = "begun"
  /\ IF op[c].version \notin {-1, MaxVersion}
     THEN op' = [op EXCEPT ![c] = NoOp] /\ UNCHANGED docLock
     ELSE /\ op' = [op EXCEPT ![c].at = "locked", ![c].version = MaxVersion]
          /\ UNCHANGED docLock
  /\ UNCHANGED <<log, written, snapshots, revisions, clock, roomVars, doc,
                 load, update, snap, tally>>

(* FOR UPDATE, then the version; a stale base version is a conflict.       *)
LockDoc(c) ==
  /\ op[c].at = "begun" /\ docLock = Nobody
  /\ IF op[c].version \notin {-1, MaxVersion}
     THEN op' = [op EXCEPT ![c] = NoOp] /\ UNCHANGED docLock
     ELSE /\ op' = [op EXCEPT ![c].at = "locked", ![c].version = MaxVersion]
          /\ docLock' = c
  /\ UNCHANGED <<log, written, snapshots, revisions, clock, roomVars, doc,
                 load, update, snap, tally>>

PersistDocOp(c) ==
  /\ op[c].at = "locked"
  /\ revisions' = Append(revisions, op[c].version + 1)
  /\ IF op[c].state = {} THEN UNCHANGED <<snapshots, load>>
     ELSE Save(op[c].version + 1, op[c].state, op[c].time) /\ Tear
  /\ op' = [op EXCEPT ![c] = NoOp]
  /\ docLock' = Nobody
  /\ UNCHANGED <<log, written, clock, roomVars, doc, update, snap, tally>>

-----------------------------------------------------------------------------
DocInit ==
  /\ log = {} /\ written = {} /\ snapshots = <<>> /\ revisions = <<>>
  /\ docLock = Nobody /\ clock = 1
  /\ room = {} /\ refCount = 0 /\ subscribed = FALSE /\ raced = FALSE
  /\ conn = [c \in Client |-> Off]
  /\ doc = [c \in Client |-> {}]
  /\ load = [c \in Client |-> NotLoaded]
  /\ update = [c \in Client |-> NoUpdate]
  /\ snap = [c \in Client |-> NoSnap]
  /\ op = [c \in Client |-> NoOp]
  /\ tally = [updates |-> 0, snapshots |-> 0, ops |-> 0]

DocNext ==
  \E c \in Client :
    \/ Join(c) \/ Subscribe(c) \/ Subscribed(c) \/ Greet(c) \/ Close(c)
    \/ Unsubscribe(c) \/ LoadSnapshot(c) \/ LoadPending(c)
    \/ Edit(c) \/ AppendUpdate(c) \/ Broadcast(c)
    \/ Capture(c) \/ ReadVersion(c) \/ BeginSave(c)
    \/ SaveSnapshotAndCompact(c)
    \/ BeginOp(c) \/ LockDoc(c) \/ PersistDocOp(c)

DocSpec == DocInit /\ [][DocNext]_docVars
=============================================================================
