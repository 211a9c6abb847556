---------------------------- MODULE StreamEngine ----------------------------
(***************************************************************************)
(* The stream broker of one chat thread: src/src/ai/engines/stream-engine.ts *)
(* with the Redis pub/sub bridge of src/src/db/redis.ts.                   *)
(*                                                                         *)
(* Every map of the broker is keyed by threadId and no handler reads two   *)
(* keys, so one thread is modelled.  The maps live in the memory of a PM2  *)
(* instance, so every broker variable is a function of the instance; only  *)
(* Redis joins the instances.  A turn of the conversation is one run: one  *)
(* POST /chat with its traceId.  The module gives the state and the        *)
(* operations; ChatStream drives them with the controller, the execution   *)
(* engine and the SSE readers.                                             *)
(***************************************************************************)
EXTENDS Integers, FiniteSets, SequencesExt

CONSTANTS
  Inst,     \* PM2 instances, each with its own copy of the broker's maps
  Runs,     \* turns: the traceIds the controller may open a session for
  Subs,     \* calls of StreamEngine.subscribe, one per GET /stream
  Home,     \* the instance each run and each reader is served by
  None      \* undefined: no session, no execution attached

ASSUME HomeAssumption == Home \in [Runs \cup Subs -> Inst]

VARIABLES
  session,    \* sessions.get(threadId), per instance
  buffer,     \* buffers.get(threadId); a deleted entry reads as empty
  members,    \* subscribers.get(threadId); a deleted set reads as empty
  mapped,     \* channelToThread has the stream channel
  suggested,  \* StreamEngine.registry: traces whose suggestion went out
  listening,  \* instances whose redisSub connection is subscribed, at Redis
  inbox,      \* what Redis has sent to an instance's redisSub connection
  reader,     \* the async generators made by subscribe
  aborted,    \* runs whose execution AbortController was aborted
  published,  \* history: every event that passed the publish guards
  turns       \* history: how many times register has run

brokerVars == <<session, buffer, members, mapped, suggested>>
redisVars  == <<listening, inbox>>

-----------------------------------------------------------------------------
(* Data *)

Done  == {"DONE_COMPLETED", "DONE_ABORTED", "DONE_ERROR"}
State == {"READY", "STREAMING", "FINAL"} \cup Done

DoneState(reason) ==
  CASE reason = "completed" -> "DONE_COMPLETED"
    [] reason = "aborted"   -> "DONE_ABORTED"
    [] reason = "error"     -> "DONE_ERROR"

(* "token" stands for every event that carries content before FINAL.       *)
Kind == {"token", "block", "activity", "suggestion", "memory", "final", "done"}

Event == [id: Nat, kind: Kind, run: Runs, turn: Nat]

(* age: 0 young, 1 older than DONE_LINGER_MS, 2 older than ZOMBIE_MAX_AGE_MS *)
Session == [run: Runs, turn: Nat, state: State, next: Nat,
            executor: Runs \cup {None}, flushing: BOOLEAN, age: 0..2]

ASSUME NoneAssumption == None \notin Runs /\ None \notin Session

(* Replies to SUBSCRIBE share the connection with the messages.            *)
Ack == [ack: {1, 2}, sub: Subs]

(* History: cold, the reader had to wait for Redis before its replay;      *)
(* since, how many turns had begun when it replayed.                       *)
NewReader ==
  [pc |-> "idle", heard |-> <<>>, last |-> 0, cold |-> FALSE, since |-> 0]

EventOf(s, r, k, id) == [id |-> id, kind |-> k, run |-> r, turn |-> s.turn]

Live(s) == s # None /\ s.state \notin Done

-----------------------------------------------------------------------------
(* Producer: publish and what is built on it *)

(* Passes without the DONE guard.                                          *)
PassesAfterDone(i, s, r, k) ==
  /\ s.state = "FINAL" => k \in {"final", "suggestion", "memory", "done"}
  /\ k = "suggestion" => s.state = "FINAL" /\ r \notin suggested[i]

(* The guards of publish.  The suggestion gate opens once per trace.       *)
Passes(i, s, r, k) ==
  /\ s.state \in Done => k = "done"
  /\ s.state = "FINAL" => k \in {"final", "suggestion", "memory", "done"}
  /\ k = "suggestion" => s.state = "FINAL" /\ r \notin suggested[i]

(* Buffer the events and hand them to Redis, which fans them out to every  *)
(* instance that is subscribed at that moment.                             *)
Emit(i, s, es) ==
  /\ session' = [session EXCEPT ![i] = s]
  /\ buffer' = [buffer EXCEPT ![i] = @ \o es]
  /\ inbox' = [j \in Inst |-> IF j \in listening THEN inbox[j] \o es ELSE inbox[j]]
  /\ published' = published \cup {es[n] : n \in DOMAIN es}
  /\ UNCHANGED <<members, mapped, listening>>

Started(s) == IF s.state = "READY" THEN "STREAMING" ELSE s.state

(* Publish that does not consume an id.                                    *)
PublishUnnumbered(i, s, r, k) ==
  /\ Passes(i, s, r, k)
  /\ Emit(i, [s EXCEPT !.state = Started(s)], <<EventOf(s, r, k, s.next)>>)
  /\ UNCHANGED suggested

(* publish: the event id is consumed before the guards are looked at.      *)
Publish(i, s, r, k) ==
  IF Passes(i, s, r, k)
  THEN /\ Emit(i, [s EXCEPT !.next = @ + 1, !.state = Started(s)],
               <<EventOf(s, r, k, s.next)>>)
       /\ suggested' = IF k = "suggestion"
                       THEN [suggested EXCEPT ![i] = @ \cup {r}] ELSE suggested
  ELSE /\ session' = [session EXCEPT ![i] = [s EXCEPT !.next = @ + 1]]
       /\ UNCHANGED <<buffer, members, mapped, suggested, redisVars, published>>

Quiet == UNCHANGED <<brokerVars, redisVars, published>>

(* Every caller of publish first meets "no session: return".               *)
PublishAt(i, r, k) ==
  IF session[i] = None THEN Quiet ELSE Publish(i, session[i], r, k)

(* A reasoning_block is numbered, then flushed as an activity before it is *)
(* buffered itself: the activity, numbered second, goes out first.  While  *)
(* a flush is in its 30 ms pause the block goes out alone.                 *)
PublishReasoning(i, r) ==
  LET s == session[i]
      n == s.next
      block == EventOf(s, r, "block", n)
  IN  IF s = None THEN Quiet
      ELSE IF ~Passes(i, s, r, "block") THEN Publish(i, s, r, "block")
      ELSE /\ IF s.flushing
              THEN Emit(i, [s EXCEPT !.next = n + 1, !.state = "STREAMING"], <<block>>)
              ELSE Emit(i, [s EXCEPT !.next = n + 2, !.state = "STREAMING",
                                     !.flushing = TRUE],
                        <<EventOf(s, r, "activity", n + 1), block>>)
           /\ UNCHANGED suggested

(* The pause after a flush ends.                                           *)
FlushEnds(i) ==
  /\ session[i] # None /\ session[i].flushing
  /\ session' = [session EXCEPT ![i].flushing = FALSE]
  /\ UNCHANGED <<buffer, members, mapped, suggested, redisVars, reader,
                 aborted, published, turns>>

(* PublishFinal without the DONE guard.                                    *)
PublishFinalAnyway(i, r) ==
  IF session[i] = None THEN Quiet
  ELSE Publish(i, [session[i] EXCEPT !.state = "FINAL"], r, "final")

PublishFinal(i, r) ==
  IF ~Live(session[i]) THEN Quiet
  ELSE Publish(i, [session[i] EXCEPT !.state = "FINAL"], r, "final")

(* publishDone has no DONE guard: it overwrites the state and publishes.   *)
PublishDone(i, r, reason) ==
  IF session[i] = None THEN Quiet
  ELSE Publish(i, [session[i] EXCEPT !.state = DoneState(reason)], r, "done")

(* EmitDone that takes FINAL for an ended session.                         *)
EmitDoneUnlessFinal(i, reason) ==
  IF ~Live(session[i]) \/ session[i].state = "FINAL" THEN Quiet
  ELSE PublishDone(i, session[i].run, reason)

(* emitDone up to its await; EmitDoneResumes is what follows the await.    *)
EmitDone(i, reason) ==
  IF ~Live(session[i]) THEN Quiet
  ELSE PublishDone(i, session[i].run, reason)

EmitDoneResumes(i) ==
  /\ buffer' = [buffer EXCEPT ![i] = <<>>]
  /\ UNCHANGED <<session, members, mapped, suggested, redisVars, published>>

-----------------------------------------------------------------------------
(* Session control *)

(* abort: the runs whose signal fires.  It does not end the session itself. *)
AbortedBy(i) ==
  IF Live(session[i]) /\ session[i].executor # None
  THEN {session[i].executor} ELSE {}

NewSession(r) ==
  [run |-> r, turn |-> turns + 1, state |-> "READY", next |-> 1,
   executor |-> None, flushing |-> FALSE, age |-> 0]

(* RegisterSession that keeps the buffer of the session it replaces.       *)
RegisterOverBuffer(i, r) ==
  /\ session' = [session EXCEPT ![i] = NewSession(r)]
  /\ aborted' = aborted \cup AbortedBy(i)
  /\ turns' = turns + 1
  /\ UNCHANGED <<buffer, members, mapped, suggested, redisVars, published>>

(* register: the session it finds is aborted and replaced.                 *)
RegisterSession(i, r) ==
  /\ session' = [session EXCEPT ![i] = NewSession(r)]
  /\ buffer' = [buffer EXCEPT ![i] = <<>>]
  /\ aborted' = aborted \cup AbortedBy(i)
  /\ turns' = turns + 1
  /\ UNCHANGED <<members, mapped, suggested, redisVars, published>>

(* attachExecutionAbort: whatever session is there receives the controller. *)
AttachExecution(i, r) ==
  /\ session' = IF session[i] = None THEN session
                ELSE [session EXCEPT ![i].executor = r]
  /\ UNCHANGED <<buffer, members, mapped, suggested, redisVars, published>>

(* Forget that leaves the buffer behind.                                   *)
ForgetSession(i) ==
  /\ session' = [session EXCEPT ![i] = None]
  /\ mapped' = [mapped EXCEPT ![i] = FALSE]
  /\ listening' = listening \ {i}
  /\ UNCHANGED buffer

(* Drop every map entry of the thread and unsubscribe.                     *)
Forget(i) ==
  /\ session' = [session EXCEPT ![i] = None]
  /\ buffer' = [buffer EXCEPT ![i] = <<>>]
  /\ mapped' = [mapped EXCEPT ![i] = FALSE]
  /\ listening' = listening \ {i}

GrowOlder(i) ==
  /\ session[i] # None /\ session[i].age < 2
  /\ session' = [session EXCEPT ![i].age = @ + 1]
  /\ UNCHANGED <<buffer, members, mapped, suggested, redisVars, reader,
                 aborted, published, turns>>

(* The reaper's scan finds the session to be a zombie.                     *)
Reap(i) ==
  /\ session[i] # None
  /\ \/ session[i].age = 2 /\ members[i] = {}
     \/ session[i].state \in Done /\ session[i].age >= 1
  /\ Forget(i)
  /\ members' = [members EXCEPT ![i] = {}]
  /\ UNCHANGED <<suggested, inbox, reader, aborted, published, turns>>

-----------------------------------------------------------------------------
(* Consumer: subscribe and the Redis message handler *)

(* Enqueue without its cursor, and with a cursor off by one.               *)
EnqueueAll(rd, e) == [rd EXCEPT !.heard = Append(@, e), !.last = e.id]

EnqueuePast(rd, e) ==
  IF e.id > rd.last + 1
  THEN [rd EXCEPT !.heard = Append(@, e), !.last = e.id] ELSE rd

(* enqueue: an event whose id is not above the last queued one is dropped. *)
Enqueue(rd, e) ==
  IF e.id > rd.last
  THEN [rd EXCEPT !.heard = Append(@, e), !.last = e.id] ELSE rd

(* Replayed without the replay loop.                                       *)
LiveOnly(rd, es) == [rd EXCEPT !.pc = "live", !.since = turns]

(* The replay loop: the reader after each number of rounds.                *)
ReplayLoop(rd, es) ==
  LET after[n \in 0..Len(es)] ==
        IF n = 0 THEN rd ELSE Enqueue(after[n - 1], es[n])
  IN  after

(* The whole loop over the local buffer; then the reader is live.          *)
Replayed(rd, es) ==
  [ReplayLoop(rd, es)[Len(es)] EXCEPT !.pc = "live", !.since = turns]

(* subscribe up to its await.  With the channel mapped ensureRedis returns *)
(* at once and the replay belongs to the same turn of the event loop.      *)
Subscribe(s) ==
  LET i == Home[s] IN
  /\ reader[s].pc = "idle"
  /\ members' = [members EXCEPT ![i] = @ \cup {s}]
  /\ reader' = [reader EXCEPT ![s] =
                  IF mapped[i] THEN Replayed(@, buffer[i])
                  ELSE [@ EXCEPT !.pc = "connect", !.cold = TRUE]]
  /\ UNCHANGED <<session, buffer, mapped, suggested, redisVars, aborted,
                 published, turns>>

(* Redis executes the reader's SUBSCRIBE and replies: first for the stream *)
(* channel, later for the patch channels.                                  *)
RedisSubscribes(s) ==
  LET i == Home[s] IN
  /\ \/ /\ reader[s].pc = "connect"
        /\ reader' = [reader EXCEPT ![s].pc = "acked"]
        /\ listening' = listening \cup {i}
        /\ inbox' = [inbox EXCEPT ![i] = Append(@, [ack |-> 1, sub |-> s])]
     \/ /\ reader[s].pc = "patching"
        /\ reader' = [reader EXCEPT ![s].pc = "patched"]
        /\ inbox' = [inbox EXCEPT ![i] = Append(@, [ack |-> 2, sub |-> s])]
        /\ UNCHANGED listening
  /\ UNCHANGED <<brokerVars, aborted, published, turns>>

(* ensureRedis throws, a second redisSub.connect() for instance: the       *)
(* callback was added before the try block and stays in the set.           *)
SubscribeFails(s) ==
  /\ reader[s].pc = "connect"
  /\ reader' = [reader EXCEPT ![s].pc = "failed"]
  /\ UNCHANGED <<brokerVars, redisVars, aborted, published, turns>>

(* First reply: map the channel and go on to the patch channels.  Second   *)
(* reply: ensureRedis returns and the reader replays the buffer.           *)
HandleAck(i, a) ==
  /\ IF a.ack = 1
     THEN /\ mapped' = [mapped EXCEPT ![i] = TRUE]
          /\ reader' = [reader EXCEPT ![a.sub].pc = "patching"]
     ELSE /\ reader' = [reader EXCEPT ![a.sub] = Replayed(@, buffer[i])]
          /\ UNCHANGED mapped
  /\ inbox' = [inbox EXCEPT ![i] = Tail(@)]

(* A stream event: pushed to every callback in the set, if the channel is  *)
(* mapped.                                                                 *)
HandleEvent(i, e) ==
  /\ reader' = [s \in Subs |->
                  IF mapped[i] /\ s \in members[i] THEN Enqueue(reader[s], e)
                  ELSE reader[s]]
  /\ inbox' = [inbox EXCEPT ![i] = Tail(@)]
  /\ UNCHANGED mapped

Deliver(i) ==
  /\ inbox[i] # <<>>
  /\ LET m == Head(inbox[i]) IN
       IF "ack" \in DOMAIN m THEN HandleAck(i, m) ELSE HandleEvent(i, m)
  /\ UNCHANGED <<session, buffer, members, suggested, listening, aborted,
                 published, turns>>

(* Leave that does not look for other readers.                             *)
LeaveForAll(s) ==
  LET i    == Home[s]
      rest == members[i] \ {s}
  IN  IF ~Live(session[i])
      THEN /\ Forget(i)
           /\ members' = [members EXCEPT ![i] = rest]
           /\ suggested' = [suggested EXCEPT ![i] = {}]
      ELSE /\ members' = [members EXCEPT ![i] = rest]
           /\ UNCHANGED <<session, buffer, mapped, suggested, listening>>

(* The finally block: the last reader out clears a thread that is over.    *)
Leave(s) ==
  LET i    == Home[s]
      rest == members[i] \ {s}
  IN  IF rest = {} /\ ~Live(session[i])
      THEN /\ Forget(i)
           /\ members' = [members EXCEPT ![i] = {}]
           /\ suggested' = [suggested EXCEPT ![i] = {}]
      ELSE /\ members' = [members EXCEPT ![i] = rest]
           /\ UNCHANGED <<session, buffer, mapped, suggested, listening>>

(* The generator drains its queue into the SSE route without a pause, so   *)
(* only reaching a done is a step: the route stops there.  A client that   *)
(* went away does not stop the generator.                                  *)
Yield(s) ==
  /\ reader[s].pc = "live"
  /\ \E e \in ToSet(reader[s].heard) : e.kind = "done"
  /\ reader' = [reader EXCEPT ![s].pc = "closed"]
  /\ Leave(s)
  /\ UNCHANGED <<inbox, aborted, published, turns>>

-----------------------------------------------------------------------------

EngineInit ==
  /\ session = [i \in Inst |-> None]
  /\ buffer = [i \in Inst |-> <<>>]
  /\ members = [i \in Inst |-> {}]
  /\ mapped = [i \in Inst |-> FALSE]
  /\ suggested = [i \in Inst |-> {}]
  /\ listening = {}
  /\ inbox = [i \in Inst |-> <<>>]
  /\ reader = [s \in Subs |-> NewReader]
  /\ aborted = {}
  /\ published = {}
  /\ turns = 0

(* The types of everything but the reader queues.                          *)
BrokerTypeOK ==
  /\ session \in [Inst -> Session \cup {None}]
  /\ buffer \in [Inst -> Seq(Event)]
  /\ members \in [Inst -> SUBSET Subs]
  /\ mapped \in [Inst -> BOOLEAN]
  /\ suggested \in [Inst -> SUBSET Runs]
  /\ listening \in SUBSET Inst
  /\ inbox \in [Inst -> Seq(Event \cup Ack)]
  /\ aborted \in SUBSET Runs
  /\ published \in SUBSET Event
  /\ turns \in Nat

Reader ==
  [pc: {"idle", "connect", "acked", "patching", "patched", "live", "failed",
        "closed"},
   heard: Seq(Event), last: Nat, cold: BOOLEAN, since: Nat]

ReaderTypeOK == reader \in [Subs -> Reader]
=============================================================================
