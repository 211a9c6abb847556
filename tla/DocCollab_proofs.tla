-------------------------- MODULE DocCollab_proofs ---------------------------
(***************************************************************************)
(* A shared document for any number of clients, updates, snapshots and     *)
(* operations.  DocInv is inductive: an editor past the row lock holds it  *)
(* and has read the last number, a row that a compaction removed is older  *)
(* than the snapshot that was saved with it, and there is a latest         *)
(* snapshot as soon as there is one.                                       *)
(*                                                                         *)
(* RoomInv adds the connections: while none of them overlapped, the count  *)
(* is that of those who counted themselves, and at most one is on its way  *)
(* in, at a count of 0.  ReaderInv adds the readers: an update has one     *)
(* editor, who has merged it, and a load no save tore holds the snapshot   *)
(* that counts.                                                            *)
(***************************************************************************)
EXTENDS DocCollabProperties, FiniteSetTheorems, SequenceTheorems, TLAPS

UpdateState == [at: {"none", "sent", "logged"}, u: Nat, time: Nat]
SnapState == [at: {"none", "asked", "sent", "versioned", "begun"},
              state: SUBSET Update, version: Nat, time: Nat]
OpState == [at: {"none", "begun", "locked"}, state: SUBSET Update,
            version: Nat \union {-1}, time: Nat]
LoadState == [at: {"none", "half", "done"}, snapshot: Snapshot,
              inRoom: BOOLEAN, torn: BOOLEAN, lost: SUBSET Update]

StoreTypes ==
  /\ log \subseteq written /\ written \subseteq Row
  /\ snapshots \in Seq(Snapshot) /\ revisions \in Seq(Nat)
  /\ clock \in Nat

TaskTypes ==
  /\ doc \in [Client -> SUBSET Update]
  /\ load \in [Client -> LoadState]
  /\ update \in [Client -> UpdateState]
  /\ \A c \in Client : update[c].at # "none" => update[c].u \in Update
  /\ snap \in [Client -> SnapState]
  /\ op \in [Client -> OpState]
  /\ tally \in [updates: 0..MaxUpdates, snapshots: 0..MaxSnapshots,
                ops: 0..MaxOps]

LockedHasLast ==
  \A c \in Client : op[c].at = "locked" =>
    docLock = c /\ op[c].version = Len(revisions)

HasLatest ==
  snapshots = <<>> \/ \E i \in 1..Len(snapshots) :
                        \A j \in 1..Len(snapshots) : Newer(i, j)

RemovedIsOlder ==
  \A row \in written \ log :
    \E i \in 1..Len(snapshots) : row.at < snapshots[i].at

DocInv ==
  /\ StoreTypes
  /\ TaskTypes
  /\ LockedHasLast
  /\ RevisionsInOrder
  /\ HasLatest
  /\ RemovedIsOlder

-----------------------------------------------------------------------------
LEMMA LatestTyped ==
  ASSUME DocInv
  PROVE  /\ LatestSnapshot \in Snapshot
         /\ snapshots # <<>> => Latest \in 1..Len(snapshots)
                                /\ LatestSnapshot = snapshots[Latest]
<1>1. CASE snapshots = <<>>
  BY <1>1 DEF LatestSnapshot, NoSnapshot, Snapshot
<1>2. CASE snapshots # <<>>
  <2>1. \E i \in 1..Len(snapshots) : \A j \in 1..Len(snapshots) : Newer(i, j)
    BY <1>2 DEF DocInv, HasLatest
  <2>2. Latest \in 1..Len(snapshots)
    BY <2>1 DEF Latest
  <2>. QED
    BY <1>2, <2>2 DEF LatestSnapshot, DocInv, StoreTypes
<1>. QED  BY <1>1, <1>2

LEMMA MaxVersionIsLen ==
  ASSUME DocInv
  PROVE  MaxVersion = Len(revisions) /\ Len(revisions) \in Nat
<1>1. /\ revisions \in Seq(Nat) /\ Len(revisions) \in Nat
      /\ \A i \in 1..Len(revisions) : revisions[i] = i
  BY DEF DocInv, StoreTypes, RevisionsInOrder
<1>2. CASE revisions = <<>>
  BY <1>2 DEF MaxVersion
<1>3. CASE revisions # <<>>
  <2>. DEFINE S == {revisions[i] : i \in 1..Len(revisions)}
              m == CHOOSE v \in S : \A i \in 1..Len(revisions) : revisions[i] <= v
  <2>1. Len(revisions) \in 1..Len(revisions)
    BY <1>1, <1>3
  <2>2. \E v \in S : \A i \in 1..Len(revisions) : revisions[i] <= v
    BY <1>1, <2>1
  <2>3. m \in S /\ \A i \in 1..Len(revisions) : revisions[i] <= m
    BY <2>2
  <2>4. m \in 1..Len(revisions)
    BY <1>1, <2>3
  <2>5. Len(revisions) <= m
    BY <1>1, <2>1, <2>3
  <2>6. m = Len(revisions)
    BY <1>1, <2>4, <2>5
  <2>. QED  BY <1>1, <1>3, <2>6 DEF MaxVersion
<1>. QED  BY <1>1, <1>2, <1>3

LEMMA DocInitInv == DocInit => DocInv
<1>. SUFFICES ASSUME DocInit  PROVE DocInv
  OBVIOUS
<1>1. StoreTypes
  BY DEF DocInit, StoreTypes
<1>2. /\ doc \in [Client -> SUBSET Update]
      /\ tally \in [updates: 0..MaxUpdates, snapshots: 0..MaxSnapshots,
                    ops: 0..MaxOps]
  BY DocAssumption DEF DocInit
<1>3. /\ NotLoaded \in LoadState /\ NoUpdate \in UpdateState
      /\ NoSnap \in SnapState /\ NoOp \in OpState
      /\ NoUpdate.at = "none" /\ NoOp.at = "none"
  BY DEF NotLoaded, NoUpdate, NoSnap, NoOp, NoSnapshot, LoadState, UpdateState,
         SnapState, OpState, Snapshot
<1>4. TaskTypes
  BY <1>2, <1>3 DEF DocInit, TaskTypes
<1>5. LockedHasLast
  BY <1>3 DEF DocInit, LockedHasLast
<1>6. RevisionsInOrder /\ HasLatest /\ RemovedIsOlder
  BY DEF DocInit, RevisionsInOrder, HasLatest, RemovedIsOlder
<1>. QED  BY <1>1, <1>4, <1>5, <1>6 DEF DocInv

-----------------------------------------------------------------------------
(* Steps that leave the store to itself, but perhaps for the clock, and    *)
(* lock nothing.                                                           *)
LEMMA StoreStands ==
  ASSUME DocInv, TaskTypes', clock' \in Nat,
         \A c \in Client : op'[c].at = "locked" => op'[c] = op[c],
         UNCHANGED <<log, written, snapshots, revisions, docLock>>
  PROVE  DocInv'
<1>1. StoreTypes'
  BY DEF DocInv, StoreTypes
<1>2. LockedHasLast'
  BY DEF DocInv, LockedHasLast
<1>3. RevisionsInOrder' /\ HasLatest' /\ RemovedIsOlder'
  BY DEF DocInv, RevisionsInOrder, HasLatest, RemovedIsOlder, Newer
<1>. QED  BY <1>1, <1>2, <1>3 DEF DocInv

LEMMA NoneTyped ==
  /\ NotLoaded \in LoadState /\ NoUpdate \in UpdateState
  /\ NoSnap \in SnapState /\ NoOp \in OpState
  /\ NoUpdate.at = "none" /\ NoOp.at = "none"
  BY DEF NotLoaded, NoUpdate, NoSnap, NoOp, NoSnapshot, LoadState, UpdateState,
         SnapState, OpState, Snapshot

(* The room, and the loading of the document.                              *)
LEMMA RoomStepInv ==
  ASSUME DocInv, NEW c \in Client,
         \/ Join(c) \/ Subscribe(c) \/ Subscribed(c) \/ Greet(c) \/ Close(c)
         \/ Unsubscribe(c)
  PROVE  DocInv'
<1>1. UNCHANGED <<log, written, snapshots, revisions, docLock, clock, doc, load,
                  update, op, tally>>
  BY DEF Join, Subscribe, Subscribed, Greet, Close, Unsubscribe, store, tasks
<1>2. snap' \in [Client -> SnapState]
  BY NoneTyped
  DEF Join, Subscribe, Subscribed, Greet, Close, Unsubscribe, tasks, DocInv,
      TaskTypes
<1>3. TaskTypes'
  BY <1>1, <1>2 DEF DocInv, TaskTypes
<1>. QED  BY <1>1, <1>3, StoreStands DEF DocInv, StoreTypes

LEMMA LoadStepInv ==
  ASSUME DocInv, NEW c \in Client, LoadSnapshot(c) \/ LoadPending(c)
  PROVE  DocInv'
<1>1. UNCHANGED <<log, written, snapshots, revisions, docLock, clock, update,
                  snap, op, tally>>
  BY DEF LoadSnapshot, LoadPending, store
<1>2. doc' \in [Client -> SUBSET Update] /\ load' \in [Client -> LoadState]
  <2>1. CASE LoadSnapshot(c)
    <3>1. [at |-> "half", snapshot |-> LatestSnapshot, inRoom |-> c \in room,
           torn |-> FALSE, lost |-> {}] \in LoadState
      BY LatestTyped DEF LoadState
    <3>. QED  BY <2>1, <3>1 DEF LoadSnapshot, DocInv, TaskTypes
  <2>2. CASE LoadPending(c)
    <3>. DEFINE got == load[c].snapshot.state
                       \union Pending(load[c].snapshot.at)
                lost == {row.u : row \in written} \ Loadable
    <3>1. load[c] \in LoadState
      BY DEF DocInv, TaskTypes
    <3>2. /\ load[c].snapshot.state \subseteq Update
          /\ Pending(load[c].snapshot.at) \subseteq Update
          /\ lost \in SUBSET Update
      BY <3>1 DEF LoadState, Snapshot, Pending, DocInv, StoreTypes, Row
    <3>3. got \in SUBSET Update
      BY <3>2
    <3>4. /\ doc' = [doc EXCEPT ![c] = doc[c] \union got]
          /\ load' = [load EXCEPT ![c] = [load[c] EXCEPT !.at = "done",
                                                         !.lost = lost]]
      BY <2>2 DEF LoadPending, DocInv, TaskTypes
    <3>5. doc[c] \union got \in SUBSET Update
      BY <3>3 DEF DocInv, TaskTypes
    <3>. HIDE DEF got, lost
    <3>6. [load[c] EXCEPT !.at = "done", !.lost = lost] \in LoadState
      BY <3>1, <3>2 DEF LoadState
    <3>. QED  BY <3>4, <3>5, <3>6 DEF DocInv, TaskTypes
  <2>. QED  BY <2>1, <2>2
<1>3. TaskTypes'
  BY <1>1, <1>2 DEF DocInv, TaskTypes
<1>. QED  BY <1>1, <1>3, StoreStands DEF DocInv, StoreTypes

-----------------------------------------------------------------------------
(* Updates *)

LEMMA EditInv ==
  ASSUME DocInv, NEW c \in Client, Edit(c)
  PROVE  DocInv'
<1>. DEFINE u == tally.updates + 1
            r == [at |-> "sent", u |-> u, time |-> clock]
<1>1. /\ tally.updates < MaxUpdates /\ update' = [update EXCEPT ![c] = r]
      /\ doc' = [doc EXCEPT ![c] = doc[c] \union {u}]
      /\ clock' = clock + 1 /\ tally' = [tally EXCEPT !.updates = u]
      /\ UNCHANGED <<log, written, snapshots, revisions, docLock, load, snap, op>>
  BY DEF Edit, DocInv, TaskTypes
<1>2. u \in Update /\ u \in 0..MaxUpdates /\ clock \in Nat /\ clock' \in Nat
  BY <1>1, DocAssumption DEF Update, DocInv, StoreTypes, TaskTypes
<1>3. r \in UpdateState /\ r.u \in Update
  BY <1>2, DocAssumption DEF UpdateState, Update
<1>4. tally' \in [updates: 0..MaxUpdates, snapshots: 0..MaxSnapshots,
                  ops: 0..MaxOps]
  BY <1>1, <1>2 DEF DocInv, TaskTypes
<1>5. doc' \in [Client -> SUBSET Update]
  <2>1. doc[c] \union {u} \in SUBSET Update
    BY <1>2 DEF DocInv, TaskTypes
  <2>. QED  BY <1>1, <2>1 DEF DocInv, TaskTypes
<1>. HIDE DEF r
<1>6. /\ update' \in [Client -> UpdateState]
      /\ \A d \in Client : update'[d].at # "none" => update'[d].u \in Update
  BY <1>1, <1>3 DEF DocInv, TaskTypes
<1>7. TaskTypes'
  BY <1>1, <1>4, <1>5, <1>6 DEF DocInv, TaskTypes
<1>. QED  BY <1>1, <1>2, <1>7, StoreStands

LEMMA AppendUpdateInv ==
  ASSUME DocInv, NEW c \in Client, AppendUpdate(c)
  PROVE  DocInv'
<1>. DEFINE row == [u |-> update[c].u, at |-> update[c].time]
<1>1. /\ update[c].at = "sent"
      /\ log' = log \union {row} /\ written' = written \union {row}
      /\ update' = [update EXCEPT ![c].at = "logged"]
      /\ UNCHANGED <<snapshots, revisions, docLock, clock, doc, load, snap, op,
                     tally>>
  BY DEF AppendUpdate
<1>2. row \in Row
  BY <1>1 DEF DocInv, TaskTypes, UpdateState, Row
<1>3. /\ update' \in [Client -> UpdateState]
      /\ \A d \in Client : update'[d].at # "none" => update'[d].u \in Update
  BY <1>1 DEF DocInv, TaskTypes, UpdateState
<1>. HIDE DEF row
<1>4. StoreTypes'
  BY <1>1, <1>2 DEF DocInv, StoreTypes
<1>5. TaskTypes'
  BY <1>1, <1>3 DEF DocInv, TaskTypes
<1>6. LockedHasLast' /\ RevisionsInOrder' /\ HasLatest'
  BY <1>1 DEF DocInv, LockedHasLast, RevisionsInOrder, HasLatest, Newer
<1>7. RemovedIsOlder'
  BY <1>1 DEF DocInv, RemovedIsOlder
<1>. QED  BY <1>4, <1>5, <1>6, <1>7 DEF DocInv

LEMMA BroadcastInv ==
  ASSUME DocInv, NEW c \in Client, Broadcast(c)
  PROVE  DocInv'
<1>1. /\ update[c].at = "logged" /\ update' = [update EXCEPT ![c] = NoUpdate]
      /\ Deliver(update[c].u, room \ {c})
      /\ UNCHANGED <<log, written, snapshots, revisions, docLock, clock, load, op>>
  BY DEF Broadcast, store
<1>2. /\ update' \in [Client -> UpdateState]
      /\ \A d \in Client : update'[d].at # "none" => update'[d].u \in Update
  BY <1>1, NoneTyped DEF DocInv, TaskTypes
<1>3. update[c].u \in Update
  BY <1>1 DEF DocInv, TaskTypes
<1>4. doc' \in [Client -> SUBSET Update]
  BY <1>1, <1>3 DEF Deliver, DocInv, TaskTypes
<1>5. /\ snap' \in [Client -> SnapState]
      /\ tally' \in [updates: 0..MaxUpdates, snapshots: 0..MaxSnapshots,
                      ops: 0..MaxOps]
  <2>1. CASE UNCHANGED <<snap, tally>>
    BY <2>1 DEF DocInv, TaskTypes, SnapState
  <2>2. CASE /\ tally.snapshots < MaxSnapshots
             /\ snap' = [snap EXCEPT ![c].at = "asked"]
             /\ tally' = [tally EXCEPT !.snapshots = @ + 1]
    <3>1. snap' \in [Client -> SnapState]
      BY <2>2 DEF DocInv, TaskTypes, SnapState
    <3>2. tally.snapshots + 1 \in 0..MaxSnapshots
      BY <2>2, DocAssumption DEF DocInv, TaskTypes
    <3>3. tally' \in [updates: 0..MaxUpdates, snapshots: 0..MaxSnapshots,
                      ops: 0..MaxOps]
      BY <2>2, <3>2 DEF DocInv, TaskTypes
    <3>. QED  BY <3>1, <3>3
  <2>. QED  BY <2>1, <2>2 DEF Broadcast
<1>6. TaskTypes'
  BY <1>1, <1>2, <1>4, <1>5 DEF DocInv, TaskTypes
<1>. QED  BY <1>1, <1>6, StoreStands DEF DocInv, StoreTypes

-----------------------------------------------------------------------------
(* Snapshots *)

LEMMA SnapStepInv ==
  ASSUME DocInv, NEW c \in Client, Capture(c) \/ ReadVersion(c) \/ BeginSave(c)
  PROVE  DocInv'
<1>1. /\ UNCHANGED <<log, written, snapshots, revisions, docLock, doc, load,
                     update, op, tally>>
      /\ clock' \in {clock, clock + 1}
  BY DEF Capture, ReadVersion, BeginSave, store
<1>2. snap[c] \in SnapState /\ doc[c] \in SUBSET Update /\ clock \in Nat
  BY DEF DocInv, TaskTypes, StoreTypes
<1>3. snap' \in [Client -> SnapState]
  <2>1. CASE Capture(c)
    <3>1. [NoSnap EXCEPT !.at = "sent", !.state = doc[c]] \in SnapState
      BY <1>2, NoneTyped DEF SnapState
    <3>. QED  BY <2>1, <3>1 DEF Capture, DocInv, TaskTypes
  <2>2. CASE ReadVersion(c)
    BY <1>2, <2>2, MaxVersionIsLen
    DEF ReadVersion, DocInv, TaskTypes, SnapState
  <2>3. CASE BeginSave(c)
    BY <1>2, <2>3 DEF BeginSave, DocInv, TaskTypes, SnapState
  <2>. QED  BY <2>1, <2>2, <2>3
<1>4. TaskTypes'
  BY <1>1, <1>3 DEF DocInv, TaskTypes
<1>. QED  BY <1>1, <1>2, <1>4, StoreStands

(* A snapshot that is appended is the latest, or the one before remains it;*)
(* what is removed with it is older than it.                               *)
LEMMA SaveKeepsLatest ==
  ASSUME DocInv, NEW s \in Snapshot, snapshots' = Append(snapshots, s)
  PROVE  /\ snapshots' \in Seq(Snapshot)
         /\ HasLatest'
         /\ Len(snapshots') = Len(snapshots) + 1 /\ Len(snapshots) \in Nat
         /\ snapshots'[Len(snapshots) + 1] = s
         /\ \A i \in 1..Len(snapshots) : snapshots'[i] = snapshots[i]
<1>. DEFINE n == Len(snapshots) + 1
<1>1. /\ snapshots \in Seq(Snapshot) /\ Len(snapshots) \in Nat
      /\ \A i \in 1..Len(snapshots) : snapshots[i] \in Snapshot
  BY DEF DocInv, StoreTypes
<1>2. /\ snapshots' \in Seq(Snapshot) /\ Len(snapshots') = n
      /\ snapshots'[n] = s
      /\ \A i \in 1..Len(snapshots) : snapshots'[i] = snapshots[i]
  BY <1>1
<1>3. /\ s.version \in Nat
      /\ \A i \in 1..Len(snapshots) : snapshots[i].version \in Nat
  BY <1>1 DEF Snapshot
<1>4. HasLatest'
  <2>1. CASE snapshots = <<>>
    <3>1. \A j \in 1..Len(snapshots') : j = n
      BY <1>1, <1>2, <2>1
    <3>. QED  BY <1>1, <1>2, <1>3, <3>1 DEF HasLatest, Newer
  <2>2. CASE snapshots # <<>>
    <3>1. PICK i \in 1..Len(snapshots) :
            \A j \in 1..Len(snapshots) : Newer(i, j)
      BY <2>2 DEF DocInv, HasLatest
    <3>4. \A j \in 1..Len(snapshots) :
            \/ snapshots[i].version > snapshots[j].version
            \/ snapshots[i].version = snapshots[j].version /\ i >= j
      BY <3>1 DEF Newer
    <3>2. CASE s.version >= snapshots[i].version
      <4>1. \A j \in 1..n :
              \/ snapshots'[n].version > snapshots'[j].version
              \/ snapshots'[n].version = snapshots'[j].version /\ n >= j
        BY <1>1, <1>2, <1>3, <3>4, <3>2
      <4>2. n \in 1..Len(snapshots') /\ Len(snapshots') = n
        BY <1>1, <1>2
      <4>3. \E k \in 1..Len(snapshots') : \A j \in 1..Len(snapshots') :
              \/ snapshots'[k].version > snapshots'[j].version
              \/ snapshots'[k].version = snapshots'[j].version /\ k >= j
        BY <4>1, <4>2, Zenon
      <4>. QED  BY <4>3 DEF HasLatest, Newer
    <3>3. CASE s.version < snapshots[i].version
      <4>1. \A j \in 1..n :
              \/ snapshots'[i].version > snapshots'[j].version
              \/ snapshots'[i].version = snapshots'[j].version /\ i >= j
        BY <1>1, <1>2, <1>3, <3>4, <3>3
      <4>2. i \in 1..Len(snapshots') /\ Len(snapshots') = n
        BY <1>1, <1>2
      <4>3. \E k \in 1..Len(snapshots') : \A j \in 1..Len(snapshots') :
              \/ snapshots'[k].version > snapshots'[j].version
              \/ snapshots'[k].version = snapshots'[j].version /\ k >= j
        BY <4>1, <4>2, Zenon
      <4>. QED  BY <4>3 DEF HasLatest, Newer
    <3>. QED  BY <1>3, <3>2, <3>3
  <2>. QED  BY <2>1, <2>2
<1>. QED  BY <1>1, <1>2, <1>4

LEMMA TearTyped ==
  ASSUME DocInv, Tear
  PROVE  load' \in [Client -> LoadState]
  BY DEF Tear, DocInv, TaskTypes, LoadState

LEMMA SaveSnapshotInv ==
  ASSUME DocInv, NEW c \in Client, SaveSnapshotAndCompact(c)
  PROVE  DocInv'
<1>. DEFINE s == [version |-> snap[c].version + 1, state |-> snap[c].state,
                  at |-> snap[c].time]
            n == Len(snapshots) + 1
<1>1. /\ snapshots' = Append(snapshots, s)
      /\ log' = {row \in log : row.at >= snap[c].time}
      /\ snap' = [snap EXCEPT ![c] = NoSnap] /\ Tear
      /\ UNCHANGED <<written, revisions, docLock, clock, doc, update, op, tally>>
  BY DEF SaveSnapshotAndCompact, Save
<1>2. s \in Snapshot /\ s.at = snap[c].time /\ snap[c].time \in Nat
  BY DEF DocInv, TaskTypes, SnapState, Snapshot
<1>. HIDE DEF s
<1>3. /\ snapshots' \in Seq(Snapshot) /\ HasLatest' /\ Len(snapshots') = n
      /\ Len(snapshots) \in Nat /\ snapshots'[n] = s
      /\ \A i \in 1..Len(snapshots) : snapshots'[i] = snapshots[i]
  BY <1>1, <1>2, SaveKeepsLatest
<1>4. StoreTypes'
  BY <1>1, <1>3 DEF DocInv, StoreTypes
<1>5. TaskTypes'
  BY <1>1, TearTyped, NoneTyped DEF DocInv, TaskTypes
<1>6. LockedHasLast' /\ RevisionsInOrder'
  BY <1>1 DEF DocInv, LockedHasLast, RevisionsInOrder
<1>7. RemovedIsOlder'
  <2>. SUFFICES ASSUME NEW row \in written \ log'
                PROVE  \E i \in 1..Len(snapshots') : row.at < snapshots'[i].at
    BY <1>1 DEF RemovedIsOlder
  <2>1. CASE row \notin log
    <3>1. PICK i \in 1..Len(snapshots) : row.at < snapshots[i].at
      BY <2>1 DEF DocInv, RemovedIsOlder
    <3>2. i \in 1..Len(snapshots') /\ snapshots'[i] = snapshots[i]
      BY <1>3
    <3>. QED  BY <3>1, <3>2
  <2>2. CASE row \in log
    <3>1. row.at \in Nat /\ ~(row.at >= snap[c].time)
      BY <1>1, <2>2 DEF DocInv, StoreTypes, Row
    <3>2. row.at < snapshots'[n].at /\ n \in 1..Len(snapshots')
      BY <1>2, <1>3, <3>1
    <3>. QED  BY <3>2
  <2>. QED  BY <2>1, <2>2
<1>. QED  BY <1>3, <1>4, <1>5, <1>6, <1>7 DEF DocInv

-----------------------------------------------------------------------------
(* Operations *)

LEMMA BeginOpInv ==
  ASSUME DocInv, NEW c \in Client, BeginOp(c)
  PROVE  DocInv'
<1>1. PICK base \in {-1} \union 0..MaxVersion, state \in {{}, doc[c]} :
        op' = [op EXCEPT ![c] = [at |-> "begun", state |-> state,
                                 version |-> base, time |-> clock]]
  BY DEF BeginOp
<1>. DEFINE r == [at |-> "begun", state |-> state, version |-> base,
                  time |-> clock]
<1>2. /\ tally.ops < MaxOps /\ clock' = clock + 1
      /\ tally' = [tally EXCEPT !.ops = tally.ops + 1]
      /\ UNCHANGED <<log, written, snapshots, revisions, docLock, doc, load,
                     update, snap>>
  BY DEF BeginOp
<1>3. r \in OpState /\ r.at = "begun"
  BY MaxVersionIsLen DEF OpState, DocInv, TaskTypes, StoreTypes
<1>4. tally' \in [updates: 0..MaxUpdates, snapshots: 0..MaxSnapshots,
                  ops: 0..MaxOps]
  BY <1>2, DocAssumption DEF DocInv, TaskTypes
<1>5. op' = [op EXCEPT ![c] = r]
  BY <1>1
<1>. HIDE DEF r
<1>6. TaskTypes'
  BY <1>2, <1>3, <1>4, <1>5 DEF DocInv, TaskTypes
<1>7. \A d \in Client : op'[d].at = "locked" => op'[d] = op[d]
  BY <1>3, <1>5 DEF DocInv, TaskTypes
<1>. QED  BY <1>2, <1>6, <1>7, StoreStands DEF DocInv, StoreTypes

LEMMA LockDocInv ==
  ASSUME DocInv, NEW c \in Client, LockDoc(c)
  PROVE  DocInv'
<1>1. /\ docLock = Nobody
      /\ UNCHANGED <<log, written, snapshots, revisions, clock, doc, load, update,
                     snap, tally>>
  BY DEF LockDoc
<1>2. \A d \in Client : op[d].at # "locked"
  BY <1>1, DocAssumption DEF DocInv, LockedHasLast
<1>3. CASE op' = [op EXCEPT ![c] = NoOp] /\ UNCHANGED docLock
  <2>1. TaskTypes'
    BY <1>1, <1>3, NoneTyped DEF DocInv, TaskTypes
  <2>2. \A d \in Client : op'[d].at # "locked"
    BY <1>2, <1>3, NoneTyped DEF DocInv, TaskTypes
  <2>. QED  BY <1>1, <1>3, <2>1, <2>2, StoreStands DEF DocInv, StoreTypes
<1>4. CASE /\ op' = [op EXCEPT ![c].at = "locked", ![c].version = MaxVersion]
           /\ docLock' = c
  <2>1. op[c] \in OpState /\ MaxVersion = Len(revisions) /\ MaxVersion \in Nat
    BY MaxVersionIsLen DEF DocInv, TaskTypes
  <2>2. /\ op' \in [Client -> OpState] /\ op'[c].version = Len(revisions)
        /\ \A d \in Client \ {c} : op'[d] = op[d]
    BY <1>4, <2>1 DEF DocInv, TaskTypes, OpState
  <2>3. StoreTypes' /\ TaskTypes'
    BY <1>1, <2>2 DEF DocInv, StoreTypes, TaskTypes
  <2>4. LockedHasLast'
    BY <1>1, <1>2, <1>4, <2>2 DEF LockedHasLast
  <2>5. RevisionsInOrder' /\ HasLatest' /\ RemovedIsOlder'
    BY <1>1 DEF DocInv, RevisionsInOrder, HasLatest, RemovedIsOlder, Newer
  <2>. QED  BY <2>3, <2>4, <2>5 DEF DocInv
<1>. QED  BY <1>3, <1>4 DEF LockDoc

LEMMA PersistDocOpInv ==
  ASSUME DocInv, NEW c \in Client, PersistDocOp(c)
  PROVE  DocInv'
<1>. DEFINE s == [version |-> op[c].version + 1, state |-> op[c].state,
                  at |-> op[c].time]
<1>1. /\ op[c].at = "locked" /\ revisions' = Append(revisions, op[c].version + 1)
      /\ \/ UNCHANGED <<snapshots, load>>
         \/ snapshots' = Append(snapshots, s) /\ Tear
      /\ op' = [op EXCEPT ![c] = NoOp] /\ docLock' = Nobody
      /\ UNCHANGED <<log, written, clock, doc, update, snap, tally>>
  BY DEF PersistDocOp, Save
<1>2. /\ op[c] \in OpState /\ docLock = c /\ op[c].version = Len(revisions)
      /\ revisions \in Seq(Nat) /\ Len(revisions) \in Nat
  BY <1>1, MaxVersionIsLen
  DEF DocInv, TaskTypes, LockedHasLast, StoreTypes
<1>3. s \in Snapshot
  BY <1>2 DEF OpState, Snapshot
<1>. HIDE DEF s
<1>4. /\ snapshots' \in Seq(Snapshot) /\ HasLatest'
      /\ \A i \in 1..Len(snapshots) :
           i \in 1..Len(snapshots') /\ snapshots'[i] = snapshots[i]
  <2>1. CASE snapshots' = Append(snapshots, s)
    BY <1>3, <2>1, SaveKeepsLatest
  <2>2. CASE UNCHANGED snapshots
    BY <2>2 DEF DocInv, StoreTypes, HasLatest, Newer
  <2>. QED  BY <1>1, <2>1, <2>2
<1>5. /\ revisions' \in Seq(Nat) /\ Len(revisions') = Len(revisions) + 1
      /\ revisions'[Len(revisions) + 1] = Len(revisions) + 1
      /\ \A i \in 1..Len(revisions) : revisions'[i] = revisions[i]
  BY <1>1, <1>2
<1>6. StoreTypes'
  BY <1>1, <1>4, <1>5 DEF DocInv, StoreTypes
<1>7. TaskTypes'
  <2>1. load' \in [Client -> LoadState]
    BY <1>1, TearTyped DEF DocInv, TaskTypes
  <2>. QED  BY <1>1, <2>1, NoneTyped DEF DocInv, TaskTypes
<1>8. LockedHasLast'
  BY <1>1, <1>2, NoneTyped DEF DocInv, TaskTypes, LockedHasLast
<1>9. RevisionsInOrder'
  BY <1>2, <1>5 DEF DocInv, RevisionsInOrder
<1>10. RemovedIsOlder'
  BY <1>1, <1>4 DEF DocInv, RemovedIsOlder
<1>. QED  BY <1>4, <1>6, <1>7, <1>8, <1>9, <1>10 DEF DocInv

-----------------------------------------------------------------------------
LEMMA DocNextInv == DocInv /\ [DocNext]_docVars => DocInv'
<1>. SUFFICES ASSUME DocInv, [DocNext]_docVars
              PROVE  DocInv'
  OBVIOUS
<1>1. CASE UNCHANGED docVars
  <2>1. UNCHANGED <<log, written, snapshots, revisions, docLock, clock, doc,
                    load, update, snap, op, tally>>
    BY <1>1 DEF docVars, store, tasks
  <2>2. TaskTypes'
    BY <2>1 DEF DocInv, TaskTypes
  <2>. QED  BY <2>1, <2>2, StoreStands DEF DocInv, StoreTypes
<1>. QED
  BY <1>1, RoomStepInv, LoadStepInv, EditInv, AppendUpdateInv, BroadcastInv,
     SnapStepInv, SaveSnapshotInv, BeginOpInv, LockDocInv, PersistDocOpInv
  DEF DocNext

LEMMA DocInvariant == DocSpec => []DocInv
  BY DocInitInv, DocNextInv, PTL DEF DocSpec

(* However many editors persist operations at once, with a base version or *)
(* without, their revisions are numbered one by one (persistDocOp).        *)
THEOREM RevisionsAreNumbered == DocSpec => []RevisionsInOrder
<1>1. DocInv => RevisionsInOrder
  BY DEF DocInv
<1>. QED  BY <1>1, DocInvariant, PTL

(* A logged update is out of reach of a loading client only when the       *)
(* snapshot that counts is the younger one and lacks it, or counts above   *)
(* one that began later: no compaction removes what is newer than its own  *)
(* snapshot (saveSnapshotAndCompact).                                      *)
THEOREM CompactionRemovesTheOlder == DocSpec => []LostOnlyOverlooked
<1>1. DocInv => LostOnlyOverlooked
  <2>. SUFFICES ASSUME DocInv, NEW row \in written
                PROVE  row.u \in Loadable \/ Overlooked(row) \/ Inverted
    BY DEF LostOnlyOverlooked
  <2>1. row.at \in Nat /\ LatestSnapshot.at \in Nat
        /\ \A i \in 1..Len(snapshots) : snapshots[i].at \in Nat
    <3>1. row.at \in Nat
      BY DEF DocInv, StoreTypes, Row
    <3>2. LatestSnapshot \in Snapshot
      BY LatestTyped
    <3>3. \A i \in 1..Len(snapshots) : snapshots[i] \in Snapshot
      BY DEF DocInv, StoreTypes
    <3>. QED  BY <3>1, <3>2, <3>3 DEF Snapshot
  <2>2. CASE row \in log /\ row.at >= LatestSnapshot.at
    BY <2>2 DEF Loadable, Pending
  <2>3. CASE row.at < LatestSnapshot.at
    BY <2>3 DEF Overlooked
  <2>4. CASE row \notin log /\ row.at >= LatestSnapshot.at
    <3>1. PICK i \in 1..Len(snapshots) : row.at < snapshots[i].at
      BY <2>4 DEF DocInv, RemovedIsOlder
    <3>. QED  BY <2>1, <2>4, <3>1 DEF Inverted
  <2>. QED  BY <2>1, <2>2, <2>3, <2>4
<1>. QED  BY <1>1, DocInvariant, PTL

-----------------------------------------------------------------------------
(* Rooms: who counted himself, and what the count is worth while no two    *)
(* connections overlapped.                                                 *)
ConnState == [pc: {"off", "joining", "subscribing", "greeting", "ghost", "on",
                   "leaving", "gone"},
              closed: BOOLEAN, again: BOOLEAN]

RoomTypes ==
  /\ docLock \in Client \union {Nobody}
  /\ room \subseteq Client /\ refCount \in Nat
  /\ subscribed \in BOOLEAN /\ raced \in BOOLEAN
  /\ conn \in [Client -> ConnState]
  /\ \A c \in Client : c \notin room <=> conn[c].pc \in {"off", "leaving", "gone"}
  /\ \A c \in Client : conn[c].pc = "off" => ~conn[c].closed

TimesPast ==
  /\ \A row \in written : row.at < clock
  /\ \A c \in Client : update[c].at # "none" => update[c].time < clock

Counting == {c \in Client : conn[c].pc \in {"greeting", "on", "ghost", "leaving"}}
Entering == {c \in Client : conn[c].pc = "subscribing"}

CountHolds ==
  /\ IsFiniteSet(Counting) /\ refCount = Cardinality(Counting)
  /\ Entering # {} => refCount = 0 /\ subscribed
  /\ \A c, d \in Entering : c = d
  /\ refCount > 0 => subscribed
  /\ \A c \in Client : conn[c].pc = "leaving" => ~conn[c].again

RoomInv == RoomTypes /\ TimesPast /\ (raced \/ CountHolds)

-----------------------------------------------------------------------------
(* A connection that goes from one state to the next.                      *)
Moves(c, r) ==
  /\ r \in ConnState /\ conn' = [conn EXCEPT ![c] = r]

LEMMA MovesEffect ==
  ASSUME RoomTypes, NEW c \in Client, NEW r, Moves(c, r)
  PROVE  /\ conn' \in [Client -> ConnState] /\ conn'[c] = r
         /\ \A d \in Client \ {c} : conn'[d] = conn[d]
  BY DEF RoomTypes, Moves

LEMMA NewPcMoves ==
  ASSUME RoomTypes, NEW c \in Client,
         NEW pc \in {"joining", "subscribing", "greeting", "ghost", "on"},
         To(c, pc)
  PROVE  \E r : /\ Moves(c, r) /\ r.pc = pc /\ r.closed = conn[c].closed
                /\ r.again = conn[c].again
<1>. DEFINE r == [conn[c] EXCEPT !.pc = pc]
<1>1. conn[c] \in ConnState
  BY DEF RoomTypes
<1>2. /\ r \in ConnState /\ r.pc = pc /\ r.closed = conn[c].closed
      /\ r.again = conn[c].again
  BY <1>1 DEF ConnState
<1>3. conn' = [conn EXCEPT ![c] = r]
  BY DEF To, RoomTypes
<1>. HIDE DEF r
<1>. QED  BY <1>2, <1>3 DEF Moves

LEMMA RoomTypesMove ==
  ASSUME RoomTypes, NEW c \in Client, NEW r, Moves(c, r),
         r.pc # "off",
         room' \in {room, room \union {c}, room \ {c}},
         c \notin room' <=> r.pc \in {"leaving", "gone"},
         refCount' \in Nat, subscribed' \in BOOLEAN, raced' \in BOOLEAN,
         UNCHANGED docLock
  PROVE  RoomTypes'
<1>1. /\ conn' \in [Client -> ConnState] /\ conn'[c] = r
      /\ \A d \in Client \ {c} : conn'[d] = conn[d]
  BY MovesEffect
<1>2. room' \subseteq Client /\ \A d \in Client \ {c} : d \in room' <=> d \in room
  BY DEF RoomTypes
<1>. QED  BY <1>1, <1>2 DEF RoomTypes

(* Nobody new counts himself, nobody new enters, and the flags stand.      *)
LEMMA CountStands ==
  ASSUME RoomInv, Counting' = Counting, Entering' = Entering,
         UNCHANGED <<refCount, subscribed>>,
         \A c \in Client : conn'[c].pc = "leaving" => ~conn'[c].again
                                                     \/ conn'[c] = conn[c]
  PROVE  raced \/ CountHolds'
  BY DEF RoomInv, CountHolds

LEMMA JoinRoom ==
  ASSUME RoomInv, NEW c \in Client, Join(c)
  PROVE  RoomInv'
<1>1. /\ conn[c].pc = "off" /\ room' = room \union {c} /\ To(c, "joining")
      /\ UNCHANGED <<docLock, refCount, subscribed, raced, written, clock, update>>
  BY DEF Join, store, tasks
<1>2. PICK r : /\ Moves(c, r) /\ r.pc = "joining"
               /\ r.closed = conn[c].closed /\ r.again = conn[c].again
  BY <1>1, NewPcMoves DEF RoomInv
<1>3. /\ conn' \in [Client -> ConnState] /\ conn'[c] = r
      /\ \A d \in Client \ {c} : conn'[d] = conn[d]
  BY <1>2, MovesEffect DEF RoomInv
<1>4. RoomTypes'
  BY <1>1, <1>2, RoomTypesMove DEF RoomInv, RoomTypes
<1>5. Counting' = Counting /\ Entering' = Entering
  BY <1>1, <1>2, <1>3 DEF Counting, Entering
<1>6. raced \/ CountHolds'
  BY <1>1, <1>2, <1>3, <1>5, CountStands
<1>. QED  BY <1>1, <1>4, <1>6 DEF RoomInv, TimesPast

LEMMA GreetRoom ==
  ASSUME RoomInv, NEW c \in Client, Greet(c)
  PROVE  RoomInv'
<1>1. /\ conn[c].pc = "greeting"
      /\ \E pc \in {"ghost", "on"} : To(c, pc)
      /\ UNCHANGED <<room, docLock, refCount, subscribed, raced, written, clock, update>>
  BY DEF Greet, store, tasks
<1>2. PICK r : /\ Moves(c, r) /\ r.pc \in {"ghost", "on"}
  BY <1>1, NewPcMoves DEF RoomInv
<1>3. /\ conn' \in [Client -> ConnState] /\ conn'[c] = r
      /\ \A d \in Client \ {c} : conn'[d] = conn[d]
  BY <1>2, MovesEffect DEF RoomInv
<1>4. RoomTypes'
  BY <1>1, <1>2, RoomTypesMove DEF RoomInv, RoomTypes
<1>5. Counting' = Counting /\ Entering' = Entering
  BY <1>1, <1>2, <1>3 DEF Counting, Entering
<1>6. raced \/ CountHolds'
  BY <1>1, <1>2, <1>3, <1>5, CountStands
<1>. QED  BY <1>1, <1>4, <1>6 DEF RoomInv, TimesPast

LEMMA SubscribeRoom ==
  ASSUME RoomInv, NEW c \in Client, Subscribe(c)
  PROVE  RoomInv'
<1>1. /\ conn[c].pc = "joining"
      /\ \/ /\ refCount = 0 /\ subscribed' = TRUE /\ To(c, "subscribing")
            /\ refCount' = refCount
         \/ /\ refCount # 0 /\ refCount' = refCount + 1 /\ To(c, "greeting")
            /\ subscribed' = subscribed
      /\ raced' = (raced \/ Entering # {})
      /\ UNCHANGED <<room, docLock, written, clock, update>>
  BY DEF Subscribe, Entering, store, tasks
<1>2. PICK r : /\ Moves(c, r) /\ r.pc \in {"subscribing", "greeting"}
               /\ r.pc = "subscribing" <=> refCount = 0
  BY <1>1, NewPcMoves DEF RoomInv
<1>3. /\ conn' \in [Client -> ConnState] /\ conn'[c] = r
      /\ \A d \in Client \ {c} : conn'[d] = conn[d]
  BY <1>2, MovesEffect DEF RoomInv
<1>4. RoomTypes'
  <2>1. refCount' \in Nat
    BY <1>1 DEF RoomInv, RoomTypes
  <2>2. subscribed' \in BOOLEAN
    BY <1>1, Zenon DEF RoomInv, RoomTypes
  <2>3. raced' \in BOOLEAN
    <3>1. raced' = (raced \/ Entering # {})
      BY <1>1
    <3>. QED  BY <3>1, Zenon
  <2>. QED  BY <1>1, <1>2, <2>1, <2>2, <2>3, RoomTypesMove DEF RoomInv, RoomTypes
<1>5. CASE raced'
  BY <1>1, <1>4, <1>5 DEF RoomInv, TimesPast
<1>6. CASE ~raced'
  <2>1. CountHolds /\ Entering = {}
    BY <1>1, <1>6 DEF RoomInv
  <2>2. CASE refCount = 0
    <3>1. Counting' = Counting /\ Entering' = {c}
      BY <1>1, <1>2, <1>3, <2>1, <2>2 DEF Counting, Entering
    <3>2. CountHolds'
      BY <1>1, <1>2, <1>3, <2>1, <2>2, <3>1 DEF CountHolds
    <3>. QED  BY <1>1, <1>4, <3>2 DEF RoomInv, TimesPast
  <2>3. CASE refCount # 0
    <3>1. /\ Counting' = Counting \union {c} /\ c \notin Counting
          /\ Entering' = {}
      BY <1>1, <1>2, <1>3, <2>1, <2>3 DEF Counting, Entering
    <3>2. /\ IsFiniteSet(Counting') /\ Cardinality(Counting') = Cardinality(Counting) + 1
      BY <2>1, <3>1, FS_AddElement DEF CountHolds
    <3>3. refCount > 0
      BY <2>3 DEF RoomInv, RoomTypes
    <3>4. subscribed' /\ refCount' = Cardinality(Counting')
      BY <1>1, <2>1, <2>3, <3>2, <3>3 DEF CountHolds
    <3>5. \A d \in Client : conn'[d].pc = "leaving" => ~conn'[d].again
      BY <1>2, <1>3, <2>1 DEF CountHolds
    <3>6. CountHolds'
      BY <3>1, <3>2, <3>4, <3>5 DEF CountHolds
    <3>. QED  BY <1>1, <1>4, <3>6 DEF RoomInv, TimesPast
  <2>. QED  BY <2>2, <2>3
<1>. QED  BY <1>5, <1>6

LEMMA SubscribedRoom ==
  ASSUME RoomInv, NEW c \in Client, Subscribed(c)
  PROVE  RoomInv'
<1>1. /\ conn[c].pc = "subscribing" /\ refCount' = 1 /\ To(c, "greeting")
      /\ UNCHANGED <<room, subscribed, raced, docLock, written, clock, update>>
  BY DEF Subscribed, store, tasks
<1>2. PICK r : Moves(c, r) /\ r.pc = "greeting"
  BY <1>1, NewPcMoves DEF RoomInv
<1>3. /\ conn' \in [Client -> ConnState] /\ conn'[c] = r
      /\ \A d \in Client \ {c} : conn'[d] = conn[d]
  BY <1>2, MovesEffect DEF RoomInv
<1>4. RoomTypes'
  BY <1>1, <1>2, RoomTypesMove DEF RoomInv, RoomTypes
<1>5. ASSUME CountHolds PROVE CountHolds'
  <2>1. c \in Entering /\ c \notin Counting
    BY <1>1 DEF Entering, Counting
  <2>2. Entering' = {} /\ Counting' = Counting \union {c}
    BY <1>2, <1>3, <1>5, <2>1 DEF Entering, Counting, CountHolds
  <2>3. /\ IsFiniteSet(Counting') /\ Cardinality(Counting') = Cardinality(Counting) + 1
    BY <1>5, <2>1, <2>2, FS_AddElement DEF CountHolds
  <2>4. refCount = 0 /\ subscribed /\ refCount = Cardinality(Counting)
    BY <1>5, <2>1 DEF CountHolds
  <2>5. \A d \in Client : conn'[d].pc = "leaving" => ~conn'[d].again
    BY <1>2, <1>3, <1>5 DEF CountHolds
  <2>. QED  BY <1>1, <2>2, <2>3, <2>4, <2>5 DEF CountHolds
<1>. QED  BY <1>1, <1>4, <1>5 DEF RoomInv, TimesPast

LEMMA CloseRoom ==
  ASSUME RoomInv, NEW c \in Client, Close(c)
  PROVE  RoomInv'
<1>1. UNCHANGED <<docLock, refCount, subscribed, written, clock, update>>
  BY DEF Close, store
<1>2. conn[c] \in ConnState
  BY DEF RoomInv, RoomTypes
<1>3. CASE /\ conn[c].pc \in {"joining", "subscribing", "greeting"}
           /\ conn' = [conn EXCEPT ![c].closed = TRUE]
           /\ UNCHANGED <<room, raced>>
  <2>. DEFINE r == [conn[c] EXCEPT !.closed = TRUE]
  <2>1. r \in ConnState /\ r.pc = conn[c].pc
    BY <1>2 DEF ConnState
  <2>2. Moves(c, r)
    BY <1>3, <2>1 DEF Moves, RoomInv, RoomTypes
  <2>. HIDE DEF r
  <2>3. /\ conn' \in [Client -> ConnState] /\ conn'[c] = r
        /\ \A d \in Client \ {c} : conn'[d] = conn[d]
    BY <2>2, MovesEffect DEF RoomInv
  <2>4. RoomTypes'
    BY <1>1, <1>3, <2>1, <2>2, RoomTypesMove DEF RoomInv, RoomTypes
  <2>5. Counting' = Counting /\ Entering' = Entering
    BY <1>3, <2>1, <2>3 DEF Counting, Entering
  <2>6. raced \/ CountHolds'
    BY <1>1, <1>3, <2>1, <2>3, <2>5, CountStands
  <2>. QED  BY <1>1, <1>3, <2>4, <2>6 DEF RoomInv, TimesPast
<1>4. CASE /\ On(c) /\ room' = room \ {c}
           /\ \E again \in BOOLEAN :
                /\ conn' = [conn EXCEPT ![c].closed = TRUE, ![c].again = again,
                                        ![c].pc = "leaving"]
                /\ raced' = (raced \/ again)
  <2>1. PICK again \in BOOLEAN :
          /\ conn' = [conn EXCEPT ![c].closed = TRUE, ![c].again = again,
                                  ![c].pc = "leaving"]
          /\ raced' = (raced \/ again)
    BY <1>4
  <2>. DEFINE r == [conn[c] EXCEPT !.closed = TRUE, !.again = again, !.pc = "leaving"]
  <2>2. r \in ConnState /\ r.pc = "leaving" /\ r.again = again
    BY <1>2 DEF ConnState
  <2>3. conn' = [conn EXCEPT ![c] = r]
    BY <2>1 DEF RoomInv, RoomTypes
  <2>4. Moves(c, r)
    BY <2>2, <2>3 DEF Moves
  <2>. HIDE DEF r
  <2>5. /\ conn' \in [Client -> ConnState] /\ conn'[c] = r
        /\ \A d \in Client \ {c} : conn'[d] = conn[d]
    BY <2>4, MovesEffect DEF RoomInv
  <2>6. RoomTypes'
    <3>1. raced' \in BOOLEAN
      BY <2>1 DEF RoomInv, RoomTypes
    <3>2. room' = room \ {c} /\ c \notin room'
      BY <1>4
    <3>. QED  BY <1>1, <2>2, <2>4, <3>1, <3>2, RoomTypesMove DEF RoomInv, RoomTypes
  <2>7. Counting' = Counting /\ Entering' = Entering
    BY <1>4, <2>2, <2>5 DEF Counting, Entering, On
  <2>8. CASE again
    BY <1>1, <2>1, <2>6, <2>8 DEF RoomInv, TimesPast
  <2>9. CASE ~again
    <3>1. raced \/ CountHolds'
      BY <1>1, <2>2, <2>5, <2>7, <2>9, CountStands
    <3>. QED  BY <1>1, <2>1, <2>6, <2>9, <3>1 DEF RoomInv, TimesPast
  <2>. QED  BY <2>8, <2>9
<1>. QED  BY <1>3, <1>4 DEF Close

LEMMA UnsubscribeRoom ==
  ASSUME RoomInv, NEW c \in Client, Unsubscribe(c)
  PROVE  RoomInv'
<1>. DEFINE r == [conn[c] EXCEPT !.again = FALSE,
                                 !.pc = IF conn[c].again THEN @ ELSE "gone"]
<1>1. /\ conn[c].pc = "leaving" /\ conn' = [conn EXCEPT ![c] = r]
      /\ \/ refCount <= 1 /\ refCount' = 0 /\ subscribed' = FALSE
         \/ ~(refCount <= 1) /\ refCount' = refCount - 1 /\ subscribed' = subscribed
      /\ UNCHANGED <<docLock, room, raced, written, clock, update>>
  BY DEF Unsubscribe, store, tasks, RoomInv, RoomTypes
<1>2. conn[c] \in ConnState /\ refCount \in Nat
  BY DEF RoomInv, RoomTypes
<1>3. /\ r \in ConnState /\ r.pc \in {"leaving", "gone"} /\ ~r.again
      /\ ~conn[c].again => r.pc = "gone"
  BY <1>1, <1>2 DEF ConnState
<1>. HIDE DEF r
<1>4. Moves(c, r)
  BY <1>1, <1>3 DEF Moves
<1>5. /\ conn' \in [Client -> ConnState] /\ conn'[c] = r
      /\ \A d \in Client \ {c} : conn'[d] = conn[d]
  BY <1>4, MovesEffect DEF RoomInv
<1>6. RoomTypes'
  <2>1. refCount' \in Nat
    BY <1>1, <1>2
  <2>2. subscribed' \in BOOLEAN /\ raced' \in BOOLEAN
    BY <1>1, Zenon DEF RoomInv, RoomTypes
  <2>. QED  BY <1>1, <1>3, <1>4, <2>1, <2>2, RoomTypesMove DEF RoomInv, RoomTypes
<1>7. ASSUME CountHolds PROVE CountHolds'
  <2>1. c \in Counting /\ r.pc = "gone" /\ IsFiniteSet(Counting)
        /\ refCount = Cardinality(Counting)
    BY <1>1, <1>3, <1>7 DEF CountHolds, Counting
  <2>2. /\ Counting' = Counting \ {c} /\ Entering' = Entering
    BY <1>1, <1>5, <2>1 DEF Counting, Entering
  <2>3. /\ IsFiniteSet(Counting') /\ Cardinality(Counting') = Cardinality(Counting) - 1
        /\ Cardinality(Counting') \in Nat
    BY <2>1, <2>2, FS_RemoveElement, FS_CardinalityType
  <2>4. refCount' = Cardinality(Counting')
    BY <1>1, <1>2, <2>1, <2>3
  <2>5. Entering = {}
    <3>1. refCount # 0
      BY <1>2, <2>1, <2>3
    <3>. QED  BY <1>7, <3>1 DEF CountHolds
  <2>6. refCount' > 0 => subscribed'
    BY <1>1, <1>2, <1>7 DEF CountHolds
  <2>7. \A d \in Client : conn'[d].pc = "leaving" => ~conn'[d].again
    BY <1>3, <1>5, <1>7 DEF CountHolds
  <2>. QED  BY <2>2, <2>3, <2>4, <2>5, <2>6, <2>7 DEF CountHolds
<1>. QED  BY <1>1, <1>6, <1>7 DEF RoomInv, TimesPast

(* The steps on the document leave the room alone; an update is given the  *)
(* time at which it begins.                                                *)
LEMMA WorkRoom ==
  ASSUME DocInv, RoomInv, UNCHANGED roomVars,
         docLock' \in Client \union {Nobody},
         clock' \in {clock, clock + 1},
         \A row \in written' : \/ row \in written
                               \/ \E c \in Client : update[c].at # "none"
                                                    /\ row.at = update[c].time,
         \A c \in Client : update'[c].at # "none" =>
           \/ update[c].at # "none" /\ update'[c].time = update[c].time
           \/ update'[c].time = clock /\ clock' = clock + 1
  PROVE  RoomInv'
<1>1. clock \in Nat
  BY DEF DocInv, StoreTypes
<1>2. RoomTypes'
  BY DEF RoomInv, RoomTypes, roomVars
<1>3. \A row \in written : row.at \in Nat
  BY DEF DocInv, StoreTypes, Row
<1>4. \A c \in Client : update[c].time \in Nat
  BY DEF DocInv, TaskTypes, UpdateState
<1>5. TimesPast'
  <2>1. ASSUME NEW row \in written' PROVE row.at < clock'
    BY <1>1, <1>3, <1>4 DEF RoomInv, TimesPast
  <2>2. ASSUME NEW c \in Client, update'[c].at # "none" PROVE update'[c].time < clock'
    BY <1>1, <1>4, <2>2 DEF RoomInv, TimesPast
  <2>. QED  BY <2>1, <2>2 DEF TimesPast
<1>6. raced' \/ CountHolds'
  BY DEF RoomInv, CountHolds, Counting, Entering, roomVars
<1>. QED  BY <1>2, <1>5, <1>6 DEF RoomInv

Loads(c)   == LoadSnapshot(c) \/ LoadPending(c)
Connects(c) == \/ Join(c) \/ Subscribe(c) \/ Subscribed(c) \/ Greet(c)
               \/ Close(c) \/ Unsubscribe(c)
Writes(c)  == Edit(c) \/ AppendUpdate(c) \/ Broadcast(c)
Keeps(c)   == \/ Capture(c) \/ ReadVersion(c) \/ BeginSave(c)
              \/ BeginOp(c) \/ LockDoc(c)
Saves(c)   == SaveSnapshotAndCompact(c) \/ PersistDocOp(c)

LEMMA WritesRoom ==
  ASSUME DocInv, RoomInv, NEW c \in Client, Writes(c)
  PROVE  RoomInv'
<1>1. CASE Edit(c)
  <2>. DEFINE r == [at |-> "sent", u |-> tally.updates + 1, time |-> clock]
  <2>1. /\ update' = [update EXCEPT ![c] = r] /\ clock' = clock + 1
        /\ UNCHANGED roomVars /\ UNCHANGED <<docLock, written>>
    BY <1>1 DEF Edit
  <2>2. r.time = clock
    OBVIOUS
  <2>. HIDE DEF r
  <2>3. \A d \in Client : update'[d].at # "none" =>
           \/ update[d].at # "none" /\ update'[d].time = update[d].time
           \/ update'[d].time = clock /\ clock' = clock + 1
    BY <2>1, <2>2 DEF DocInv, TaskTypes
  <2>4. docLock' \in Client \union {Nobody}
    BY <2>1 DEF RoomInv, RoomTypes
  <2>. QED  BY <2>1, <2>3, <2>4, WorkRoom
<1>2. CASE AppendUpdate(c)
  <2>. DEFINE row == [u |-> update[c].u, at |-> update[c].time]
  <2>1. /\ update[c].at = "sent" /\ written' = written \union {row}
        /\ update' = [update EXCEPT ![c].at = "logged"]
        /\ UNCHANGED roomVars /\ UNCHANGED <<docLock, clock>>
    BY <1>2 DEF AppendUpdate
  <2>2. row.at = update[c].time
    OBVIOUS
  <2>. HIDE DEF row
  <2>3. \A d \in Client : update'[d].at # "none" =>
          update[d].at # "none" /\ update'[d].time = update[d].time
    BY <2>1 DEF DocInv, TaskTypes, UpdateState
  <2>4. docLock' \in Client \union {Nobody}
    BY <2>1 DEF RoomInv, RoomTypes
  <2>. QED  BY <2>1, <2>2, <2>3, <2>4, WorkRoom
<1>3. CASE Broadcast(c)
  <2>1. /\ update' = [update EXCEPT ![c] = NoUpdate]
        /\ UNCHANGED roomVars /\ UNCHANGED <<docLock, clock, written>>
    BY <1>3 DEF Broadcast, store
  <2>2. \A d \in Client : update'[d].at # "none" => update'[d] = update[d]
    BY <2>1, NoneTyped DEF DocInv, TaskTypes
  <2>3. docLock' \in Client \union {Nobody}
    BY <2>1 DEF RoomInv, RoomTypes
  <2>. QED  BY <2>1, <2>2, <2>3, WorkRoom
<1>. QED  BY <1>1, <1>2, <1>3 DEF Writes

LEMMA KeepsRoom ==
  ASSUME DocInv, RoomInv, NEW c \in Client, Loads(c) \/ Keeps(c) \/ Saves(c)
  PROVE  RoomInv'
<1>1. UNCHANGED roomVars /\ UNCHANGED <<written, update>>
  BY DEF Loads, Keeps, Saves, LoadSnapshot, LoadPending, Capture, ReadVersion,
         BeginSave, BeginOp, LockDoc, SaveSnapshotAndCompact, PersistDocOp, store
<1>2. clock' \in {clock, clock + 1}
  BY DEF Loads, Keeps, Saves, LoadSnapshot, LoadPending, Capture, ReadVersion,
         BeginSave, BeginOp, LockDoc, SaveSnapshotAndCompact, PersistDocOp, store
<1>3. docLock' \in {docLock, c, Nobody}
  BY DEF Loads, Keeps, Saves, LoadSnapshot, LoadPending, Capture, ReadVersion,
         BeginSave, BeginOp, LockDoc, SaveSnapshotAndCompact, PersistDocOp, store
<1>4. docLock' \in Client \union {Nobody}
  BY <1>3 DEF RoomInv, RoomTypes
<1>. QED  BY <1>1, <1>2, <1>4, WorkRoom

LEMMA ConnectsRoom ==
  ASSUME RoomInv, NEW c \in Client, Connects(c)
  PROVE  RoomInv'
  BY JoinRoom, SubscribeRoom, SubscribedRoom, GreetRoom, CloseRoom,
     UnsubscribeRoom DEF Connects

LEMMA DocSteps ==
  ASSUME DocNext
  PROVE  \E c \in Client : Connects(c) \/ Loads(c) \/ Writes(c) \/ Keeps(c) \/ Saves(c)
  BY DEF DocNext, Connects, Loads, Writes, Keeps, Saves

LEMMA RoomNextInv == DocInv /\ RoomInv /\ [DocNext]_docVars => RoomInv'
<1>. SUFFICES ASSUME DocInv, RoomInv, [DocNext]_docVars  PROVE RoomInv'
  OBVIOUS
<1>1. CASE DocNext
  <2>1. PICK c \in Client : Connects(c) \/ Loads(c) \/ Writes(c) \/ Keeps(c) \/ Saves(c)
    BY <1>1, DocSteps
  <2>. QED  BY <2>1, ConnectsRoom, WritesRoom, KeepsRoom
<1>2. CASE UNCHANGED docVars
  <2>1. UNCHANGED roomVars /\ UNCHANGED <<docLock, clock, written, update>>
    BY <1>2 DEF docVars, store, tasks, roomVars
  <2>2. docLock' \in Client \union {Nobody}
    BY <2>1 DEF RoomInv, RoomTypes
  <2>. QED  BY <2>1, <2>2, WorkRoom
<1>. QED  BY <1>1, <1>2

LEMMA RoomInitInv == DocInit => RoomInv
<1>. SUFFICES ASSUME DocInit  PROVE RoomInv
  OBVIOUS
<1>1. Off \in ConnState /\ Off.pc = "off" /\ ~Off.closed /\ ~Off.again
  BY DEF Off, ConnState
<1>2. /\ docLock = Nobody /\ room = {} /\ refCount = 0 /\ subscribed = FALSE
      /\ raced = FALSE /\ written = {} /\ conn = [c \in Client |-> Off]
      /\ update = [c \in Client |-> NoUpdate]
  BY DEF DocInit
<1>3. RoomTypes
  BY <1>1, <1>2 DEF RoomTypes
<1>4. TimesPast
  BY <1>2, NoneTyped DEF TimesPast
<1>5. Counting = {} /\ Entering = {}
  BY <1>1, <1>2 DEF Counting, Entering
<1>6. CountHolds
  BY <1>1, <1>2, <1>5, FS_EmptySet DEF CountHolds
<1>. QED  BY <1>3, <1>4, <1>6 DEF RoomInv

(* Types, and in every room someone occupies the instance is subscribed to *)
(* the cursors, for any number of connections that enter, end and end      *)
(* again, as long as no two enter at once and none ends twice              *)
(* (subscribeDocChannel reads its count before it awaits SUBSCRIBE).       *)
THEOREM RoomsHear == DocSpec => []RoomsSound
<1>1. DocInv /\ RoomInv => RoomsSound
  <2>. SUFFICES ASSUME DocInv, RoomInv  PROVE DocTypeOK /\ OccupiedHears
    BY DEF RoomsSound
  <2>1. \A c \in Client : room \cap {c} = {} <=> conn[c].pc \in {"off", "leaving", "gone"}
    BY DEF RoomInv, RoomTypes
  <2>2. /\ {subscribed, raced} \subseteq BOOLEAN
    BY DEF RoomInv, RoomTypes
  <2>3. DocTypeOK
    BY <2>1, <2>2
    DEF DocTypeOK, DocInv, StoreTypes, TaskTypes, RoomInv, RoomTypes, TimesPast,
        ConnState, LoadState, UpdateState, SnapState, OpState
  <2>4. ASSUME ~raced, NEW c \in room,
               conn[c].pc \in {"subscribing", "greeting", "on"}
        PROVE  subscribed
    <3>1. c \in Client /\ CountHolds
      BY <2>4 DEF RoomInv, RoomTypes
    <3>2. CASE c \in Entering
      BY <3>1, <3>2 DEF CountHolds
    <3>3. CASE c \in Counting
      <4>1. Cardinality(Counting) # 0 /\ Cardinality(Counting) \in Nat
        BY <3>1, <3>3, FS_EmptySet, FS_CardinalityType DEF CountHolds
      <4>. QED  BY <3>1, <4>1 DEF CountHolds
    <3>. QED  BY <2>4, <3>1, <3>2, <3>3 DEF Entering, Counting
  <2>. QED  BY <2>3, <2>4 DEF OccupiedHears
<1>2. DocInit => RoomInv
  BY RoomInitInv
<1>3. DocInv /\ RoomInv /\ [DocNext]_docVars => RoomInv'
  BY RoomNextInv
<1>. QED  BY <1>1, <1>2, <1>3, DocInvariant, PTL DEF DocSpec

-----------------------------------------------------------------------------
(* Readers: every update has a number of its own, who edits has merged his *)
(* own, and a load that no save tore holds the snapshot that counts.       *)
UpdatesNumbered ==
  /\ \A row \in written : row.u <= tally.updates
  /\ \A c \in Client : update[c].at # "none" =>
       /\ update[c].u <= tally.updates /\ update[c].u \in doc[c]
       /\ \A d \in Client \ {c} : update[d].at # "none" => update[d].u # update[c].u
       /\ update[c].at = "sent" => \A row \in written : row.u # update[c].u

LoadsWhole ==
  \A c \in Client :
    /\ load[c].at = "half" /\ ~load[c].torn => load[c].snapshot = LatestSnapshot
    /\ load[c].inRoom => c \in room \/ conn[c].closed

HasAllTold(c) ==
  load[c].at = "done" /\ load[c].inRoom /\ ~load[c].torn /\ ~conn[c].closed =>
    \A row \in written : Told(row) => row.u \in doc[c] \union load[c].lost

ReaderInv ==
  /\ UpdatesNumbered
  /\ LoadsWhole
  /\ \A c \in Client : HasAllTold(c)

-----------------------------------------------------------------------------
LEMMA ReaderInitInv == DocInit => ReaderInv
<1>. SUFFICES ASSUME DocInit  PROVE ReaderInv
  OBVIOUS
<1>1. /\ written = {} /\ load = [c \in Client |-> NotLoaded]
      /\ update = [c \in Client |-> NoUpdate]
  BY DEF DocInit
<1>2. NotLoaded.at = "none" /\ NotLoaded.inRoom = FALSE
  BY DEF NotLoaded
<1>. QED
  BY <1>1, <1>2, NoneTyped DEF ReaderInv, UpdatesNumbered, LoadsWhole, HasAllTold

(* A step that writes, tells and saves nothing.                            *)
LEMMA ReaderStands ==
  ASSUME ReaderInv,
         UNCHANGED <<written, snapshots, update, doc, load>>,
         tally'.updates = tally.updates,
         \A c \in Client : /\ conn[c].closed => conn'[c].closed
                           /\ c \in room /\ c \notin room' => conn'[c].closed
  PROVE  ReaderInv'
<1>1. UpdatesNumbered'
  BY DEF ReaderInv, UpdatesNumbered
<1>2. LoadsWhole'
  BY DEF ReaderInv, LoadsWhole, LatestSnapshot, Latest, Newer
<1>3. ASSUME NEW c \in Client PROVE HasAllTold(c)'
  BY DEF ReaderInv, HasAllTold, Told
<1>. QED  BY <1>1, <1>2, <1>3 DEF ReaderInv

LEMMA ConnectsReader ==
  ASSUME DocInv, RoomInv, ReaderInv, NEW c \in Client, Connects(c)
  PROVE  ReaderInv'
<1>1. UNCHANGED <<written, snapshots, update, doc, load, tally>>
  BY DEF Connects, Join, Subscribe, Subscribed, Greet, Close, Unsubscribe, store,
         tasks
<1>2. ASSUME NEW d \in Client
      PROVE  /\ conn[d].closed => conn'[d].closed
             /\ d \in room /\ d \notin room' => conn'[d].closed
  <2>1. conn[c] \in ConnState /\ conn \in [Client -> ConnState]
    BY DEF RoomInv, RoomTypes
  <2>2. CASE Close(c)
    <3>1. CASE conn' = [conn EXCEPT ![c].closed = TRUE] /\ UNCHANGED room
      BY <2>1, <3>1 DEF ConnState
    <3>2. ASSUME NEW again \in BOOLEAN, room' = room \ {c},
                 conn' = [conn EXCEPT ![c].closed = TRUE, ![c].again = again,
                                      ![c].pc = "leaving"]
          PROVE  /\ conn[d].closed => conn'[d].closed
                 /\ d \in room /\ d \notin room' => conn'[d].closed
      <4>. DEFINE r == [conn[c] EXCEPT !.closed = TRUE, !.again = again,
                                       !.pc = "leaving"]
      <4>1. r.closed /\ conn' = [conn EXCEPT ![c] = r]
        BY <2>1, <3>2 DEF ConnState
      <4>. HIDE DEF r
      <4>. QED  BY <2>1, <3>2, <4>1
    <3>. QED  BY <2>2, <3>1, <3>2 DEF Close
  <2>3. CASE Join(c) \/ Subscribe(c) \/ Subscribed(c) \/ Greet(c)
    BY <2>1, <2>3 DEF Join, Subscribe, Subscribed, Greet, To, ConnState
  <2>4. CASE Unsubscribe(c)
    BY <2>1, <2>4 DEF Unsubscribe, ConnState
  <2>. QED  BY <2>2, <2>3, <2>4 DEF Connects
<1>. QED  BY <1>1, <1>2, ReaderStands

LEMMA KeepsReader ==
  ASSUME DocInv, ReaderInv, NEW c \in Client, Keeps(c)
  PROVE  ReaderInv'
<1>1. UNCHANGED <<written, snapshots, update, doc, load, conn, room>>
  BY DEF Keeps, Capture, ReadVersion, BeginSave, BeginOp, LockDoc, store, roomVars
<1>2. tally'.updates = tally.updates
  BY DEF Keeps, Capture, ReadVersion, BeginSave, BeginOp, LockDoc, DocInv, TaskTypes
<1>. QED  BY <1>1, <1>2, ReaderStands

LEMMA SavesReader ==
  ASSUME DocInv, ReaderInv, NEW c \in Client, Saves(c)
  PROVE  ReaderInv'
<1>1. /\ UNCHANGED <<written, update, doc, conn, room, tally>>
      /\ (UNCHANGED <<snapshots, load>> \/ Tear)
  BY DEF Saves, SaveSnapshotAndCompact, PersistDocOp, roomVars
<1>2. CASE UNCHANGED <<snapshots, load>>
  BY <1>1, <1>2, ReaderStands
<1>3. CASE Tear
  <2>1. \A d \in Client : load'[d] = IF load[d].at = "half"
                                     THEN [load[d] EXCEPT !.torn = TRUE] ELSE load[d]
    BY <1>3 DEF Tear
  <2>2. \A d \in Client : load[d] \in LoadState
    BY DEF DocInv, TaskTypes
  <2>3. \A d \in Client :
          /\ load'[d].at = load[d].at /\ load'[d].inRoom = load[d].inRoom
          /\ load'[d].at = "half" => load'[d].torn
          /\ load'[d].at = "done" => load'[d] = load[d]
    BY <2>1, <2>2 DEF LoadState
  <2>4. UpdatesNumbered'
    BY <1>1 DEF ReaderInv, UpdatesNumbered
  <2>5. LoadsWhole'
    BY <1>1, <2>3 DEF ReaderInv, LoadsWhole
  <2>6. ASSUME NEW d \in Client PROVE HasAllTold(d)'
    BY <1>1, <2>3 DEF ReaderInv, HasAllTold, Told
  <2>. QED  BY <2>4, <2>5, <2>6 DEF ReaderInv
<1>. QED  BY <1>1, <1>2, <1>3

LEMMA LoadsReader ==
  ASSUME DocInv, ReaderInv, NEW c \in Client, Loads(c)
  PROVE  ReaderInv'
<1>1. UNCHANGED <<written, log, snapshots, update, conn, room, tally>>
  BY DEF Loads, LoadSnapshot, LoadPending, store, roomVars
<1>2. /\ doc \in [Client -> SUBSET Update] /\ load \in [Client -> LoadState]
      /\ load[c] \in LoadState /\ doc[c] \in SUBSET Update
  BY DEF DocInv, TaskTypes
<1>3. /\ \A d \in Client : doc[d] \subseteq doc'[d]
      /\ \A d \in Client \ {c} : load'[d] = load[d] /\ doc'[d] = doc[d]
  BY <1>2 DEF Loads, LoadSnapshot, LoadPending
<1>4. UpdatesNumbered'
  BY <1>1, <1>3 DEF ReaderInv, UpdatesNumbered
<1>5. LatestSnapshot' = LatestSnapshot
  BY <1>1 DEF LatestSnapshot, Latest, Newer
<1>6. CASE LoadSnapshot(c)
  <2>. DEFINE r == [at |-> "half", snapshot |-> LatestSnapshot,
                    inRoom |-> c \in room, torn |-> FALSE, lost |-> {}]
  <2>1. load' = [load EXCEPT ![c] = r]
    BY <1>6 DEF LoadSnapshot
  <2>2. r.at = "half" /\ r.snapshot = LatestSnapshot /\ (r.inRoom <=> c \in room)
    OBVIOUS
  <2>. HIDE DEF r
  <2>3. load'[c] = r
    BY <1>2, <2>1
  <2>4. LoadsWhole'
    BY <1>1, <1>3, <1>5, <2>2, <2>3 DEF ReaderInv, LoadsWhole
  <2>5. ASSUME NEW d \in Client PROVE HasAllTold(d)'
    BY <1>1, <1>3, <2>2, <2>3 DEF ReaderInv, HasAllTold, Told
  <2>. QED  BY <1>4, <2>4, <2>5 DEF ReaderInv
<1>7. CASE LoadPending(c)
  <2>. DEFINE got == load[c].snapshot.state \union Pending(load[c].snapshot.at)
              lost == {row.u : row \in written} \ Loadable
              r == [load[c] EXCEPT !.at = "done", !.lost = lost]
  <2>1. /\ load[c].at = "half" /\ doc' = [doc EXCEPT ![c] = doc[c] \union got]
        /\ load' = [load EXCEPT ![c] = r]
    BY <1>2, <1>7 DEF LoadPending
  <2>2. /\ r.at = "done" /\ r.lost = lost /\ r.inRoom = load[c].inRoom
        /\ r.torn = load[c].torn
    BY <1>2 DEF LoadState
  <2>3. ~load[c].torn => got = Loadable
    BY <2>1 DEF ReaderInv, LoadsWhole, Loadable
  <2>4. ~load[c].torn => \A row \in written : row.u \in got \union lost
    BY <2>3
  <2>. HIDE DEF r, lost, got
  <2>5. load'[c] = r /\ doc'[c] = doc[c] \union got
    BY <1>2, <2>1
  <2>6. LoadsWhole'
    BY <1>1, <1>3, <1>5, <2>2, <2>5 DEF ReaderInv, LoadsWhole
  <2>7. ASSUME NEW d \in Client PROVE HasAllTold(d)'
    <3>1. CASE d = c
      BY <1>1, <2>2, <2>4, <2>5, <3>1 DEF HasAllTold
    <3>2. CASE d # c
      BY <1>1, <1>3, <3>2 DEF ReaderInv, HasAllTold, Told
    <3>. QED  BY <3>1, <3>2
  <2>. QED  BY <1>4, <2>6, <2>7 DEF ReaderInv
<1>. QED  BY <1>6, <1>7 DEF Loads

LEMMA EditReader ==
  ASSUME DocInv, ReaderInv, NEW c \in Client, Edit(c)
  PROVE  ReaderInv'
<1>. DEFINE u == tally.updates + 1
            r == [at |-> "sent", u |-> u, time |-> clock]
<1>1. /\ update[c].at = "none" /\ update' = [update EXCEPT ![c] = r]
      /\ doc' = [doc EXCEPT ![c] = doc[c] \union {u}]
      /\ tally' = [tally EXCEPT !.updates = u]
      /\ UNCHANGED <<written, snapshots, load, conn, room>>
  BY DEF Edit, roomVars, DocInv, TaskTypes
<1>2. tally.updates \in Nat /\ tally'.updates = u /\ r.at = "sent" /\ r.u = u
  BY <1>1, DocAssumption DEF DocInv, TaskTypes
<1>3. /\ \A row \in written : row.u \in Nat /\ row.u <= tally.updates
      /\ \A d \in Client : update[d].at # "none" =>
           update[d].u \in Nat /\ update[d].u <= tally.updates
  BY DEF ReaderInv, UpdatesNumbered, DocInv, TaskTypes, StoreTypes, Row, Update,
         UpdateState
<1>4. u \in Nat /\ tally.updates < u
  BY <1>2
<1>. HIDE DEF r, u
<1>5. /\ update'[c] = r /\ \A d \in Client \ {c} : update'[d] = update[d]
      /\ u \in doc'[c] /\ \A d \in Client : doc[d] \subseteq doc'[d]
  BY <1>1 DEF DocInv, TaskTypes
<1>6. UpdatesNumbered'
  <2>1. \A row \in written' : row.u <= tally'.updates /\ row.u # u
    BY <1>1, <1>2, <1>3, <1>4
  <2>2. \A d \in Client \ {c} : update'[d].at # "none" =>
          /\ update'[d].u <= tally'.updates /\ update'[d].u # u
          /\ update'[d].u \in doc'[d]
    BY <1>2, <1>3, <1>4, <1>5 DEF ReaderInv, UpdatesNumbered
  <2>3. update'[c].u = u /\ update'[c].u <= tally'.updates /\ u \in doc'[c]
    BY <1>2, <1>4, <1>5
  <2>4. \A d \in Client \ {c} : update'[d].at # "none" =>
          /\ \A e \in Client \ {c, d} : update'[e].at # "none" =>
                                        update'[e].u # update'[d].u
          /\ update'[d].at = "sent" => \A row \in written' : row.u # update'[d].u
    BY <1>1, <1>5 DEF ReaderInv, UpdatesNumbered
  <2>. QED  BY <2>1, <2>2, <2>3, <2>4 DEF UpdatesNumbered
<1>7. LoadsWhole'
  BY <1>1 DEF ReaderInv, LoadsWhole, LatestSnapshot, Latest, Newer
<1>8. ASSUME NEW d \in Client PROVE HasAllTold(d)'
  <2>1. ASSUME NEW row \in written, Told(row)' PROVE Told(row)
    BY <1>1, <1>5, <2>1 DEF Told
  <2>. QED  BY <1>1, <1>5, <2>1 DEF ReaderInv, HasAllTold
<1>. QED  BY <1>6, <1>7, <1>8 DEF ReaderInv

LEMMA AppendReader ==
  ASSUME DocInv, ReaderInv, NEW c \in Client, AppendUpdate(c)
  PROVE  ReaderInv'
<1>. DEFINE row == [u |-> update[c].u, at |-> update[c].time]
<1>1. /\ update[c].at = "sent" /\ written' = written \union {row}
      /\ update' = [update EXCEPT ![c].at = "logged"]
      /\ UNCHANGED <<snapshots, load, doc, conn, room, tally>>
  BY DEF AppendUpdate, roomVars
<1>2. row.u = update[c].u
  OBVIOUS
<1>. HIDE DEF row
<1>3. /\ update'[c].at = "logged" /\ update'[c].u = update[c].u
      /\ \A d \in Client \ {c} : update'[d] = update[d]
  BY <1>1 DEF DocInv, TaskTypes, UpdateState
<1>4. /\ update[c].u <= tally.updates
      /\ \A w \in written : w.u # update[c].u
      /\ \A d \in Client \ {c} : update[d].at # "none" => update[d].u # update[c].u
  BY <1>1 DEF ReaderInv, UpdatesNumbered
<1>5. UpdatesNumbered'
  BY <1>1, <1>2, <1>3, <1>4 DEF ReaderInv, UpdatesNumbered
<1>6. LoadsWhole'
  BY <1>1 DEF ReaderInv, LoadsWhole, LatestSnapshot, Latest, Newer
<1>7. ASSUME NEW d \in Client PROVE HasAllTold(d)'
  <2>1. ASSUME NEW w \in written', Told(w)' PROVE w \in written /\ Told(w)
    <3>1. w # row
      BY <1>2, <1>3, <2>1 DEF Told
    <3>2. w \in written
      BY <1>1, <2>1, <3>1
    <3>. QED  BY <1>1, <1>3, <2>1, <3>2 DEF Told
  <2>. QED  BY <1>1, <2>1 DEF ReaderInv, HasAllTold
<1>. QED  BY <1>5, <1>6, <1>7 DEF ReaderInv

LEMMA BroadcastReader ==
  ASSUME DocInv, ReaderInv, NEW c \in Client, Broadcast(c)
  PROVE  ReaderInv'
<1>. DEFINE u == update[c].u
<1>1. /\ update[c].at = "logged" /\ update' = [update EXCEPT ![c] = NoUpdate]
      /\ Deliver(u, room \ {c})
      /\ UNCHANGED <<written, snapshots, load, conn, room>>
  BY DEF Broadcast, store, roomVars
<1>2. tally'.updates = tally.updates
  BY DEF Broadcast, DocInv, TaskTypes
<1>3. /\ update'[c].at = "none" /\ \A d \in Client \ {c} : update'[d] = update[d]
  BY <1>1, NoneTyped DEF DocInv, TaskTypes
<1>4. /\ u \in doc[c] /\ \A d \in Client : doc[d] \subseteq doc'[d]
      /\ \A d \in room : d \in Client /\ ~conn[d].closed => u \in doc'[d]
  BY <1>1 DEF ReaderInv, UpdatesNumbered, Deliver
<1>. HIDE DEF u
<1>5. UpdatesNumbered'
  BY <1>1, <1>2, <1>3, <1>4 DEF ReaderInv, UpdatesNumbered
<1>6. LoadsWhole'
  BY <1>1 DEF ReaderInv, LoadsWhole, LatestSnapshot, Latest, Newer
<1>7. ASSUME NEW d \in Client PROVE HasAllTold(d)'
  <2>. SUFFICES ASSUME load[d].at = "done", load[d].inRoom, ~load[d].torn,
                       ~conn[d].closed, NEW row \in written, Told(row)'
                PROVE  row.u \in doc'[d] \union load[d].lost
    BY <1>1 DEF HasAllTold
  <2>1. d \in room
    BY DEF ReaderInv, LoadsWhole
  <2>2. CASE row.u = u
    BY <1>4, <2>1, <2>2
  <2>3. CASE row.u # u
    <3>1. Told(row)
      BY <1>3, <2>3 DEF Told, u
    <3>. QED  BY <1>4, <3>1 DEF ReaderInv, HasAllTold
  <2>. QED  BY <2>2, <2>3
<1>. QED  BY <1>5, <1>6, <1>7 DEF ReaderInv

LEMMA ReaderNextInv ==
  DocInv /\ RoomInv /\ ReaderInv /\ [DocNext]_docVars => ReaderInv'
<1>. SUFFICES ASSUME DocInv, RoomInv, ReaderInv, [DocNext]_docVars
              PROVE  ReaderInv'
  OBVIOUS
<1>1. CASE DocNext
  <2>1. PICK c \in Client : Connects(c) \/ Loads(c) \/ Writes(c) \/ Keeps(c) \/ Saves(c)
    BY <1>1, DocSteps
  <2>. QED
    BY <2>1, ConnectsReader, LoadsReader, EditReader, AppendReader,
       BroadcastReader, KeepsReader, SavesReader DEF Writes
<1>2. CASE UNCHANGED docVars
  BY <1>2, ReaderStands DEF docVars, store, tasks, roomVars
<1>. QED  BY <1>1, <1>2

(* Whoever is in the room when the route reads the latest snapshot for him *)
(* has, from then on, every update that was broadcast, but for what the    *)
(* store itself had lost by the second query, and unless a snapshot was    *)
(* saved between the two (GET docs/:docId/snapshot/latest).                *)
THEOREM JoinedReadersMissNothing == DocSpec => []JoinedReaderMissesNothing
<1>1. RoomInv /\ ReaderInv => JoinedReaderMissesNothing
  BY DEF RoomInv, RoomTypes, ReaderInv, HasAllTold, JoinedReaderMissesNothing
<1>2. DocInit => RoomInv /\ ReaderInv
  BY RoomInitInv, ReaderInitInv
<1>3. DocInv /\ RoomInv /\ ReaderInv /\ [DocNext]_docVars => (RoomInv /\ ReaderInv)'
  BY RoomNextInv, ReaderNextInv
<1>. QED  BY <1>1, <1>2, <1>3, DocInvariant, PTL DEF DocSpec
=============================================================================
