------------------------ MODULE DocCollabProperties -------------------------
(***************************************************************************)
(* What a shared document is meant to keep.                                *)
(***************************************************************************)
EXTENDS DocCollab

-----------------------------------------------------------------------------
(* Holds of the code *)

Update == 1..MaxUpdates
Row == [u: Update, at: Nat]
Snapshot == [version: Nat, state: SUBSET Update, at: Nat]

(* Types; the log is a part of what was written, and a time is past.       *)
DocTypeOK ==
  /\ log \subseteq written /\ written \subseteq Row
  /\ snapshots \in Seq(Snapshot) /\ revisions \in Seq(Nat)
  /\ docLock \in Client \union {Nobody} /\ clock \in Nat
  /\ room \subseteq Client /\ refCount \in Nat
  /\ {subscribed, raced} \subseteq BOOLEAN
  /\ conn \in [Client -> [pc: {"off", "joining", "subscribing", "greeting",
                               "ghost", "on", "leaving", "gone"},
                          closed: BOOLEAN, again: BOOLEAN]]
  /\ doc \in [Client -> SUBSET Update]
  /\ load \in [Client -> [at: {"none", "half", "done"}, snapshot: Snapshot,
                          inRoom: BOOLEAN, torn: BOOLEAN,
                          lost: SUBSET Update]]
  /\ update \in [Client -> [at: {"none", "sent", "logged"}, u: Nat, time: Nat]]
  /\ snap \in [Client -> [at: {"none", "asked", "sent", "versioned", "begun"},
                          state: SUBSET Update, version: Nat, time: Nat]]
  /\ op \in [Client -> [at: {"none", "begun", "locked"}, state: SUBSET Update,
                        version: Nat \union {-1}, time: Nat]]
  /\ tally \in [updates: 0..MaxUpdates, snapshots: 0..MaxSnapshots,
                ops: 0..MaxOps]
  /\ \A row \in written : row.at < clock
  /\ \A c \in Client : room \cap {c} = {} <=>
                       conn[c].pc \in {"off", "leaving", "gone"}

(* Revisions are numbered one by one, though editors read the number and   *)
(* then insert the next (persistDocOp under FOR UPDATE).                   *)
RevisionsInOrder == \A i \in 1..Len(revisions) : revisions[i] = i

(* A logged update is out of reach only for one of two reasons: the        *)
(* snapshot that counts began after it and lacks it, or it counts above a  *)
(* snapshot that began later.  A compaction removes nothing newer than its *)
(* own beginning (created_at < snapshotCreatedAt).                         *)
Overlooked(row) == row.at < LatestSnapshot.at
Inverted == \E i \in 1..Len(snapshots) : snapshots[i].at > LatestSnapshot.at
LostOnlyOverlooked ==
  \A row \in written :
    row.u \in Loadable \/ Overlooked(row) \/ Inverted

(* Whoever entered the room before loading the document has every update   *)
(* that was broadcast: what he misses the store had lost when he loaded    *)
(* it, or a snapshot was saved between the two queries of the route.       *)
Told(row) == \A d \in Client : update[d].u = row.u => update[d].at # "logged"
JoinedReaderMissesNothing ==
  \A c \in room :
    load[c].at = "done" /\ load[c].inRoom /\ ~load[c].torn /\ ~conn[c].closed
    => \A row \in written :
         Told(row) => row.u \in doc[c] \union load[c].lost

(* An instance with someone in the room hears the cursors of the others,   *)
(* unless two connections entered at once or one ended twice.              *)
OccupiedHears ==
  ~raced => \A c \in room : conn[c].pc \in {"subscribing", "greeting", "on"}
                            => subscribed

(* Types, and rooms that hear, however connections come and go.            *)
RoomsSound == DocTypeOK /\ OccupiedHears

-----------------------------------------------------------------------------
(* Said of the code, and refuted by it *)

(* "Every Y.js update is immediately appended here (zero data loss on      *)
(* crash)" (src/sql/20260306_add_workspace_doc_updates.sql:2): whatever    *)
(* was appended can be loaded.                                             *)
NothingLost == {row.u : row \in written} \subseteq Loadable
=============================================================================
