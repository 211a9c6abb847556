------------------------ MODULE ChatStreamProperties ------------------------
(***************************************************************************)
(* What is expected of a chat turn on the stream broker.  The first group  *)
(* holds of the code; the second group states what the repository says of  *)
(* the code and is refuted by it (each has its own run).                   *)
(***************************************************************************)
EXTENDS ChatStream

RunTypeOK ==
  /\ run \in [Runs -> [pc: RunPC, sent: 0..MaxTokens, why: Reason]]
  /\ pokes \in 0..MaxPokes

(* Every variable has its type.                                            *)
TypeOK == BrokerTypeOK /\ ReaderTypeOK /\ RunTypeOK

-----------------------------------------------------------------------------
(* Holds of the code *)

(* What a reader would replay is the current turn and nothing else: the    *)
(* buffer has entries only while there is a session, all of that session's *)
(* turn and numbered below its next id, however register, the reaper, the  *)
(* last reader's cleanup and a late emitDone interleave.                   *)
ReplayIsCurrent ==
  \A i \in Inst : \A n \in DOMAIN buffer[i] :
    /\ session[i] # None
    /\ buffer[i][n].turn = session[i].turn
    /\ buffer[i][n].id < session[i].next

(* No id is given twice within a turn, so a reader's cursor can tell the   *)
(* live copy of an event from its replayed copy.                           *)
IdsIdentify ==
  \A d, e \in published : d.turn = e.turn /\ d.id = e.id => d = e

(* A reader is never handed an event twice or out of id order, although    *)
(* the same event can reach it live and by replay.                         *)
HeardInOrder ==
  \A s \in Subs : \A m, n \in DOMAIN reader[s].heard :
    m < n => reader[s].heard[m].id < reader[s].heard[n].id

(* The broker's bookkeeping is sound, whichever way turns end and whoever  *)
(* cleans up: ids identify, the replay is the current turn's, and nobody   *)
(* hears an event twice.                                                   *)
StreamSound == TypeOK /\ IdsIdentify /\ ReplayIsCurrent /\ HeardInOrder

(* Once a session is DONE its turn publishes nothing but further dones,    *)
(* whoever still publishes: a late token, a title patch, a suggestion.     *)
SilentStep ==
  \A i \in Inst : \A e \in published' \ published :
    session[i] # None /\ session[i].state \in Done /\ e.turn = session[i].turn
      => e.kind = "done"

SilenceAfterDone == [][SilentStep]_vars

(* A finished turn stays finished: nothing but a new registration or the   *)
(* removal of the session takes it out of the DONE states.                 *)
DoneStep ==
  \A i \in Inst :
    session[i] # None /\ session[i].state \in Done
      => \/ session'[i] = None
         \/ session'[i].state \in Done
         \/ session'[i].turn = turns' /\ turns' > turns

DoneIsForGood == [][DoneStep]_vars

(* While no timer runs, a reader in the broker's set can be reached: its   *)
(* channel is mapped and subscribed at Redis, although the last reader out *)
(* unmaps and unsubscribes it.                                             *)
ReaderReachable ==
  \A s \in Subs : reader[s].pc = "live" /\ s \in members[Home[s]]
                    => mapped[Home[s]] /\ Home[s] \in listening

(* s heard a later event of e's turn and did not hear e.  A reasoning      *)
(* block is exempt: the activity numbered after it overtakes it.           *)
Missed(s, e) ==
  /\ e.kind # "block"
  /\ \E d \in ToSet(reader[s].heard) : d.turn = e.turn /\ d.id > e.id
  /\ e \notin ToSet(reader[s].heard)

(* Of all turns s has heard t alone: a reader keeps its cursor from one    *)
(* turn to the next, although the ids begin again.                         *)
HeardOnly(s, t) == \A d \in ToSet(reader[s].heard) : d.turn = t

(* A reader that was there before the turn began loses nothing of it, on   *)
(* any instance, whoever else comes and goes and however the turn ends,    *)
(* unless it has heard another turn too.                                   *)
PresentReaderMissesNothing ==
  \A s \in Subs : \A e \in published :
    /\ reader[s].pc \in {"live", "closed"} /\ reader[s].since < e.turn
    /\ HeardOnly(s, e.turn)
    => ~Missed(s, e)

(* The whole conversation is served by the instance of s.                  *)
Local(s) == \A r \in Runs : Home[r] = Home[s]

(* A reader that joins a subscribed channel of that instance in mid-turn   *)
(* loses nothing between the replayed buffer and the live messages still   *)
(* in flight, as long as turns end by publishDone (finish would clear the  *)
(* buffer) and none was aborted.                                           *)
WarmReaderMissesNothing ==
  aborted = {} =>
    \A s \in Subs : \A e \in published :
      /\ ~reader[s].cold /\ Local(s)
      /\ reader[s].since <= e.turn /\ HeardOnly(s, e.turn)
      => ~Missed(s, e)

(* Every turn whose execution started ends: its session becomes DONE or is *)
(* replaced, also when it is aborted or superseded.                        *)
TurnOpen(r) == Live(session[Home[r]]) /\ session[Home[r]].run = r

TurnEnds == \A r \in Runs : At(r, {"running"}) /\ TurnOpen(r) ~> ~TurnOpen(r)

(* The run returned without ending its turn (see NoZombie).                *)
TurnDropped == \E r \in Runs : At(r, {"dropped"})

(* A reader that connects while the turn is open sees its end, unless      *)
(* emitDone has emptied the buffer of the ended session meanwhile, or the  *)
(* run dropped its turn.                                                   *)
Watching(s) ==
  /\ reader[s].pc \in {"connect", "acked", "patching", "patched", "live"}
  /\ Live(session[Home[s]])

Emptied(i) ==
  session[i] # None /\ session[i].state \in Done /\ buffer[i] = <<>>

ReaderSeesEnd ==
  \A s \in Subs :
    Watching(s) ~> reader[s].pc = "closed" \/ Emptied(Home[s]) \/ TurnDropped

(* A reader that was there when the only turn began sees its end, on any   *)
(* instance, however the turn ends short of being dropped.                 *)
PresentReaderSeesEnd ==
  \A s \in Subs :
    reader[s].pc = "live" /\ reader[s].since = 0 /\ turns = 1
       ~> reader[s].pc = "closed" \/ TurnDropped

(* Both kinds of readers see the end of the turn.                          *)
EndIsSeen == ReaderSeesEnd /\ PresentReaderSeesEnd

-----------------------------------------------------------------------------
(* The inductive strengthening of ReplayIsCurrent and IdsIdentify: a turn  *)
(* has one session, however many instances there are, and every event that *)
(* was published in it is numbered below the next id of that session.      *)

OneSessionPerTurn ==
  /\ \A i \in Inst : session[i] # None => session[i].turn <= turns
  /\ \A i, j \in Inst :
       session[i] # None /\ session[j] # None /\ session[i].turn = session[j].turn
         => i = j

IdsBelowNext ==
  \A e \in published :
    /\ e.turn <= turns
    /\ \A i \in Inst : session[i] # None /\ session[i].turn = e.turn
                         => e.id < session[i].next

BrokerInv ==
  /\ BrokerTypeOK
  /\ ReplayIsCurrent
  /\ IdsIdentify
  /\ OneSessionPerTurn
  /\ IdsBelowNext

-----------------------------------------------------------------------------
(* The inductive strengthening of what is said of the readers.             *)

IsAck(m) == "ack" \in DOMAIN m

(* The cursor of a reader is the id of the last event it was handed.       *)
Cursor(rd) ==
  /\ rd.heard = <<>> => rd.last = 0
  /\ rd.heard # <<>> => rd.last = rd.heard[Len(rd.heard)].id
  /\ \A n \in DOMAIN rd.heard : rd.heard[n].id <= rd.last

ReaderInv == ReaderTypeOK /\ HeardInOrder /\ \A s \in Subs : Cursor(reader[s])

(* While no reaper runs: who is in the set, whose channel is mapped and    *)
(* subscribed, and whose replies are under way.                            *)
Joined    == {"connect", "acked", "patching", "patched", "live"}
Connected == Joined \ {"connect"}
Routed    == Connected \ {"acked"}

JoinedInv ==
  \A s \in Subs :
    /\ reader[s].pc \in Joined => s \in members[Home[s]]
    /\ reader[s].pc \in Connected => Home[s] \in listening
    /\ reader[s].pc \in Routed => mapped[Home[s]]
    /\ reader[s].pc = "idle" => reader[s] = NewReader

MembersInv ==
  \A i \in Inst :
    /\ mapped[i] => i \in listening
    /\ \A s \in members[i] : Home[s] = i /\ reader[s].pc \notin {"idle", "closed"}

(* Each reply belongs to a reader that waits for it, and to one reader.    *)
AckInv ==
  \A i \in Inst :
    /\ \A n \in DOMAIN inbox[i] : IsAck(inbox[i][n]) =>
         /\ Home[inbox[i][n].sub] = i
         /\ reader[inbox[i][n].sub].pc =
              IF inbox[i][n].ack = 1 THEN "acked" ELSE "patched"
    /\ \A m, n \in DOMAIN inbox[i] :
         m # n /\ IsAck(inbox[i][m]) /\ IsAck(inbox[i][n])
           => inbox[i][m].sub # inbox[i][n].sub

ChannelInv == JoinedInv /\ MembersInv /\ AckInv

(* Turns and ids count from 1.                                             *)
CountInv ==
  /\ \A i \in Inst : session[i] # None => session[i].turn >= 1 /\ session[i].next >= 1
  /\ \A e \in published : e.turn >= 1 /\ e.id >= 1
  /\ \A s \in Subs : reader[s].since <= turns

(* Whatever is on its way was published.                                   *)
OriginInv ==
  /\ \A i \in Inst :
       /\ ToSet(buffer[i]) \subseteq published
       /\ \A n \in DOMAIN inbox[i] : ~IsAck(inbox[i][n]) => inbox[i][n] \in published
  /\ \A s \in Subs : ToSet(reader[s].heard) \subseteq published

(* Of one turn, an event is overtaken by none but the reasoning blocks.    *)
Ordered(d, e) == d.turn = e.turn /\ e.kind # "block" => d.id < e.id

OrderInv ==
  \A i \in Inst :
    /\ \A m, n \in DOMAIN buffer[i] : m < n => Ordered(buffer[i][m], buffer[i][n])
    /\ \A m, n \in DOMAIN inbox[i] :
         m < n /\ ~IsAck(inbox[i][m]) /\ ~IsAck(inbox[i][n])
           => Ordered(inbox[i][m], inbox[i][n])

(* An event of t is heard, or is still to be and will not be taken for old.*)
Follows(s, t) ==
  \A e \in published : e.turn = t /\ e.kind # "block" =>
    \/ e \in ToSet(reader[s].heard)
    \/ /\ e.id > reader[s].last
       /\ reader[s].pc = "live" => e \in ToSet(inbox[Home[s]])

PresentInv ==
  \A s \in Subs : \A t \in 1..turns :
    /\ reader[s].pc \in {"live", "closed"} /\ reader[s].since < t /\ HeardOnly(s, t)
    => Follows(s, t)

DeliveryInv ==
  ReaderInv /\ ChannelInv /\ CountInv /\ OriginInv /\ OrderInv /\ PresentInv

(* No run comes near finish, which would clear the buffer.                 *)
Unfinished == \A r \in Runs : ~At(r, {"media", "finish", "finish_done", "finish_clear"})

(* Then a session's buffer is all of its turn.                             *)
AllBuffered ==
  \A i \in Inst : session[i] # None =>
    \A e \in published : e.turn = session[i].turn => e \in ToSet(buffer[i])

(* What is left in an inbox of a turn without a session was sent before    *)
(* the channel is mapped again: replies come after it.                     *)
Settled(i) ==
  /\ mapped[i] => \A n \in DOMAIN inbox[i] : IsAck(inbox[i][n])
  /\ \A m, n \in DOMAIN inbox[i] :
       m < n /\ IsAck(inbox[i][m]) => IsAck(inbox[i][n])

(* The instance that serves every run has the only session.                *)
OneServer ==
  \A i \in Inst : (\A r \in Runs : Home[r] = i) =>
    /\ session[i] # None => session[i].turn = turns
    /\ \A j \in Inst \ {i} : session[j] = None
    /\ session[i] = None => Settled(i)

(* Nothing of t will ever come.                                            *)
GoneFor(s, t) ==
  /\ reader[s].heard = <<>>
  /\ session[Home[s]] # None => session[Home[s]].turn # t
  /\ \A n \in DOMAIN inbox[Home[s]] :
       ~IsAck(inbox[Home[s]][n]) => inbox[Home[s]][n].turn # t

WarmInv ==
  \A s \in Subs : \A t \in 0..turns :
    /\ reader[s].pc \in {"live", "closed"} /\ ~reader[s].cold /\ Local(s)
    /\ reader[s].since = t /\ HeardOnly(s, t)
    => Follows(s, t) \/ GoneFor(s, t)

(* Who had to wait for Redis is cold.                                      *)
ColdInv ==
  \A s \in Subs : reader[s].pc \notin {"idle", "live", "closed"} => reader[s].cold

UnfinishedInv ==
  aborted = {} => Unfinished /\ AllBuffered /\ OneServer /\ ColdInv /\ WarmInv

-----------------------------------------------------------------------------
(* Said of the code, and refuted by it *)

(* "DONE is published here once" (stream-engine.ts:801, on emitDone): no   *)
(* turn ends twice.                                                        *)
DonePublishedOnce ==
  \A d, e \in published :
    d.turn = e.turn /\ d.kind = "done" /\ e.kind = "done" => d = e

(* "Every catch path in the controller calls finish(), so zombie sessions  *)
(* don't pile up" (README.md:168): no exit leaves its session open.        *)
NoZombie ==
  \A r \in Runs : At(r, {"dropped"}) => ~TurnOpen(r)

(* "Refresh and resume - re-open /stream with the same threadId and you    *)
(* pick up where the response was" (README.md:42).                         *)
ResumeMissesNothing ==
  \A s \in Subs : \A e \in published : ~Missed(s, e)

(* "Mobile background - the server keeps working; the client re-subscribes *)
(* when it returns" (README.md:43): a reader that arrives while the turn   *)
(* is open sees its end, also when finish ends it.                         *)
ReturningReaderSeesEnd == \A s \in Subs : Watching(s) ~> reader[s].pc = "closed"
=============================================================================
