---------------------------- MODULE AgentSessions -----------------------------
(***************************************************************************)
(* The agent sessions of one user in one process: the session manager      *)
(* (src/src/agent/agent-session-manager.ts), the executor's loop           *)
(* (agent-executor.ts) and the routes that start, watch, approve, stop and *)
(* interrupt a session (src/src/routes/yuan-agent-router.ts).              *)
(*                                                                         *)
(* Everything lives in memory and runs on one thread: a step is what runs  *)
(* between two awaits.  Events that one step emits in a row are one event, *)
(* agent:done counting for those before it.                                *)
(***************************************************************************)
EXTENDS Integers, Sequences, FiniteSets

CONSTANTS
  Agent,         \* the sessions there may be
  Risky,         \* the tools that requiresApproval holds back
  Replies,       \* per session, the tool lists the model may answer with
  MaxIterations, \* per session, planLimits.maxIterations
  Limits,        \* PLAN_LIMITS: [concurrent, daily]
  Former,        \* the sets of sessions that may be over at the beginning
  MaxEventBuffer,
  MaxPauses,     \* bound: per session, pause requests
  MaxWatches     \* bound: per session, streams opened

ASSUME AgentAssumption ==
  /\ Replies \in [Agent -> SUBSET Seq(STRING)]
  /\ {MaxIterations, MaxPauses, MaxWatches} \subseteq [Agent -> Nat]
  /\ MaxEventBuffer \in Nat \ {0} /\ Former \subseteq SUBSET Agent
  /\ Limits \subseteq [concurrent: Nat, daily: Nat]

VARIABLES
  plan,     \* the limits of the user's plan
  asked,    \* runs asked for, their plan not yet read
  session,  \* sessions: status, pendingApproval, cleanup timers set
  events,   \* eventSeqCounter and eventBuffer
  exec,     \* the executor of each session
  reader,   \* the SSE stream of each session, and its Last-Event-ID
  pauses,   \* how many pauses each session had
  approved, \* history: the actions the user approved, the tools for always
  late,     \* history: tools begun after a stop
  excused,  \* history: sessions paused or stopped
  revived,  \* history: sessions that left a final state after their run
  created   \* history: sessions created, those that are over included

running  == <<exec, approved, late>>
watching == <<events, reader>>
history  == <<pauses, excused, revived, created>>
agentVars == <<plan, asked, session, running, watching, history>>

Final == {"completed", "failed", "stopped"}
ActiveStatus == {"initializing", "running", "waiting_approval"}
There(s) == session[s].status # "none"
Active == {s \in Agent : session[s].status \in ActiveStatus}
Created == {s \in Agent : There(s)}

-----------------------------------------------------------------------------
(* emitEvent, heard at once by whoever streams *)

EmitDropsNewest(s, done) ==
  LET seq == events[s].seq + 1
      full == Len(events[s].buffer) = MaxEventBuffer IN
  /\ events' = [events EXCEPT ![s] =
       [seq |-> seq, buffer |-> IF full THEN @.buffer
                                ELSE Append(@.buffer, seq)]]
  /\ reader' = IF ~reader[s].on THEN reader
               ELSE [reader EXCEPT ![s].on = ~done, ![s].cursor = seq,
                                   ![s].heard = @ \union {seq}]

Emit(s, done) ==
  LET seq == events[s].seq + 1
      all == Append(events[s].buffer, seq) IN
  /\ events' = [events EXCEPT ![s] =
       [seq |-> seq, buffer |-> IF Len(all) > MaxEventBuffer THEN Tail(all)
                                ELSE all]]
  /\ reader' = IF ~reader[s].on THEN reader
               ELSE [reader EXCEPT ![s].on = ~done, ![s].cursor = seq,
                                   ![s].heard = @ \union {seq}]

EmitIfThere(s, done) ==
  IF There(s) THEN Emit(s, done) ELSE UNCHANGED watching

(* A final status sets a timer for the cleanup.                            *)
UpdateStatus(s, status, done) ==
  /\ EmitIfThere(s, done)
  /\ session' = IF There(s)
       THEN [session EXCEPT ![s].status = status,
               ![s].timers = IF status \in Final THEN @ + 1 ELSE @]
       ELSE session

-----------------------------------------------------------------------------
(* POST /run: the plan is read, and then the limits are checked and the    *)
(* session is created without an await in between.                         *)

NoExec == [pc |-> "none", iteration |-> 0, todo |-> <<>>, action |-> 0,
           hard |-> FALSE, always |-> {}, failed |-> FALSE]

Ask(s) ==
  /\ s \notin asked \union created
  /\ asked' = asked \union {s}
  /\ UNCHANGED <<plan, session, running, watching, history>>

RunIfFewRun(s) ==
  /\ s \in asked
  /\ asked' = asked \ {s}
  /\ Cardinality({a \in Active : session[a].status # "initializing"})
       < plan.concurrent
  /\ Cardinality(Created) < plan.daily
  /\ session' = [session EXCEPT ![s].status = "initializing"]
  /\ exec' = [exec EXCEPT ![s].pc = "scheduled"]
  /\ created' = created \union {s}
  /\ UNCHANGED <<plan, approved, late, watching, pauses, excused, revived>>

Run(s) ==
  /\ s \in asked
  /\ asked' = asked \ {s}
  /\ Cardinality(Active) < plan.concurrent
  /\ Cardinality(Created) < plan.daily
  /\ session' = [session EXCEPT ![s].status = "initializing"]
  /\ exec' = [exec EXCEPT ![s].pc = "scheduled"]
  /\ created' = created \union {s}
  /\ UNCHANGED <<plan, approved, late, watching, pauses, excused, revived>>

Refuse(s) ==
  /\ s \in asked
  /\ \/ Cardinality(Active) >= plan.concurrent
     \/ Cardinality(Created) >= plan.daily
  /\ asked' = asked \ {s}
  /\ UNCHANGED <<plan, session, running, watching, history>>

-----------------------------------------------------------------------------
(* AgentExecutor.run.  The flag of a hard interrupt is looked at before    *)
(* every iteration and every tool.                                         *)

At(s, pc) == exec[s].pc = pc
Goto(s, pc) == exec' = [exec EXCEPT ![s].pc = pc]

Start(s) ==
  /\ At(s, "scheduled")
  /\ UpdateStatus(s, "running", FALSE)
  /\ Goto(s, "loop")
  /\ UNCHANGED <<plan, asked, approved, late, history>>

Iterate(s) ==
  /\ At(s, "loop") /\ ~exec[s].hard
  /\ exec[s].iteration < MaxIterations[s]
  /\ exec' = [exec EXCEPT ![s].pc = "llm", ![s].iteration = @ + 1]
  /\ EmitIfThere(s, FALSE)
  /\ UNCHANGED <<plan, asked, session, approved, late, history>>

Finish(s) ==
  /\ UpdateStatus(s, IF exec[s].hard THEN "stopped" ELSE "completed", TRUE)
  /\ Goto(s, "ended")

Terminate(s) ==
  /\ At(s, "loop")
  /\ exec[s].hard \/ exec[s].iteration >= MaxIterations[s]
  /\ Finish(s)
  /\ UNCHANGED <<plan, asked, approved, late, history>>

(* The model answers with tools, or ends the turn.                         *)
Answer(s) ==
  /\ At(s, "llm")
  /\ \E tools \in Replies[s] :
       IF tools = <<>> THEN Finish(s)
       ELSE /\ exec' = [exec EXCEPT ![s].pc = "tools", ![s].todo = tools]
            /\ EmitIfThere(s, FALSE)
            /\ UNCHANGED session
  /\ UNCHANGED <<plan, asked, approved, late, history>>

(* Retries exhausted, or an exception: no agent:done.                      *)
Fail(s) ==
  /\ At(s, "llm")
  /\ exec' = [exec EXCEPT ![s].pc = "ended", ![s].failed = TRUE]
  /\ UpdateStatus(s, "failed", FALSE)
  /\ UNCHANGED <<plan, asked, approved, late, history>>

Tool(s) == Head(exec[s].todo)
Held(s) == Tool(s) \in Risky \ exec[s].always
Begin(s) == late' = [late EXCEPT ![s] = IF exec[s].hard THEN @ + 1 ELSE @]

UseToolAnyway(s) ==
  /\ At(s, "tools") /\ exec[s].todo # <<>>
  /\ ~Held(s)
  /\ exec' = [exec EXCEPT ![s].pc = "using", ![s].action = 0]
  /\ EmitIfThere(s, FALSE)
  /\ Begin(s)
  /\ UNCHANGED <<plan, asked, session, approved, history>>

UseTool(s) ==
  /\ At(s, "tools") /\ exec[s].todo # <<>> /\ ~exec[s].hard
  /\ ~Held(s)
  /\ exec' = [exec EXCEPT ![s].pc = "using", ![s].action = 0]
  /\ EmitIfThere(s, FALSE)
  /\ Begin(s)
  /\ UNCHANGED <<plan, asked, session, approved, history>>

Skip(s) == [exec EXCEPT ![s].pc = "tools", ![s].todo = Tail(@)]

RequestApproval(s) ==
  /\ At(s, "tools") /\ exec[s].todo # <<>> /\ ~exec[s].hard
  /\ Held(s)
  /\ IF There(s)
     THEN /\ exec' = [exec EXCEPT ![s].pc = "asking",
                                  ![s].action = session[s].actions + 1]
          /\ session' = [session EXCEPT ![s].status = "waiting_approval",
               ![s].actions = @ + 1, ![s].pending = session[s].actions + 1]
     ELSE exec' = Skip(s) /\ UNCHANGED session
  /\ EmitIfThere(s, FALSE)
  /\ UNCHANGED <<plan, asked, approved, late, history>>

ApprovalTimesOutAsYes(s) ==
  /\ At(s, "asking")
  /\ Goto(s, "using")
  /\ UNCHANGED <<plan, asked, session, approved, late, watching, history>>

ApprovalTimesOutIfStopped(s) ==
  /\ At(s, "asking") /\ exec[s].hard
  /\ exec' = Skip(s)
  /\ EmitIfThere(s, FALSE)
  /\ UNCHANGED <<plan, asked, session, approved, late, history>>

(* Rejected after five minutes; the session still waits for an approval.   *)
ApprovalTimesOut(s) ==
  /\ At(s, "asking")
  /\ exec' = Skip(s)
  /\ EmitIfThere(s, FALSE)
  /\ UNCHANGED <<plan, asked, session, approved, late, history>>

ToolReturns(s) ==
  /\ At(s, "using")
  /\ exec' = Skip(s)
  /\ EmitIfThere(s, FALSE)
  /\ UNCHANGED <<plan, asked, session, approved, late, history>>

EndIteration(s) ==
  /\ At(s, "tools")
  /\ exec[s].todo = <<>> \/ exec[s].hard
  /\ exec' = [exec EXCEPT ![s].pc = "loop", ![s].todo = <<>>]
  /\ EmitIfThere(s, FALSE)
  /\ UNCHANGED <<plan, asked, session, approved, late, history>>

-----------------------------------------------------------------------------
(* The user: POST /approve, /stop and /interrupt *)

(* An approval may come when nobody waits any more: after a stop, after    *)
(* the timeout, after the run.                                             *)
Approve(s, response) ==
  /\ There(s) /\ session[s].pending # 0
  /\ LET action == session[s].pending
         heard  == At(s, "asking") /\ exec[s].action = action IN
     /\ exec' = IF ~heard THEN exec
                ELSE IF response = "reject" THEN Skip(s)
                ELSE [exec EXCEPT ![s].pc = "using", ![s].always =
                        IF response = "always_approve"
                        THEN @ \union {Tool(s)} ELSE @]
     /\ late' = IF heard /\ response # "reject"
                THEN [late EXCEPT ![s] = IF exec[s].hard THEN @ + 1 ELSE @]
                ELSE late
     /\ approved' = IF response = "reject" THEN approved
          ELSE [approved EXCEPT ![s].actions = @ \union {action},
                  ![s].tools = IF heard /\ response = "always_approve"
                               THEN @ \union {Tool(s)} ELSE @]
  /\ session' = [session EXCEPT ![s].status = "running", ![s].pending = 0]
  /\ revived' = IF At(s, "ended") THEN revived \union {s} ELSE revived
  /\ Emit(s, FALSE)
  /\ UNCHANGED <<plan, asked, pauses, excused, created>>

(* stopSession; its executor, if it still runs, has the flag set.          *)
Stop(s) ==
  /\ There(s) /\ session[s].status \notin Final
  /\ exec[s].pc # "scheduled"
  /\ UpdateStatus(s, "stopped", FALSE)
  /\ exec' = [exec EXCEPT ![s].hard = TRUE]
  /\ excused' = excused \union {s}
  /\ UNCHANGED <<plan, asked, approved, late, pauses, revived, created>>

(* The route sets the status alone, whatever it was.                       *)
Pause(s) ==
  /\ There(s) /\ exec[s].pc # "scheduled" /\ pauses[s] < MaxPauses[s]
  /\ UpdateStatus(s, "paused", FALSE)
  /\ pauses' = [pauses EXCEPT ![s] = @ + 1]
  /\ excused' = excused \union {s}
  /\ revived' = IF At(s, "ended") THEN revived \union {s} ELSE revived
  /\ UNCHANGED <<plan, asked, running, created>>

Resume(s) ==
  /\ There(s) /\ session[s].status = "paused"
  /\ UpdateStatus(s, "running", FALSE)
  /\ UNCHANGED <<plan, asked, running, history>>

-----------------------------------------------------------------------------
(* The timer, and GET /stream *)

(* removeAllListeners leaves an open stream without events.                *)
Cleanup(s) ==
  /\ session[s].timers > 0
  /\ session' = IF session[s].status \in Final
       THEN [session EXCEPT ![s].status = "none", ![s].timers = 0,
                            ![s].pending = 0]
       ELSE [session EXCEPT ![s].timers = @ - 1]
  /\ UNCHANGED <<plan, asked, running, watching, history>>

Replay(s) == {seq \in 1..events[s].seq :
                /\ seq > reader[s].cursor
                /\ \E i \in 1..Len(events[s].buffer) :
                     events[s].buffer[i] = seq}

(* The ids that had left the buffer for good before they were asked for.   *)
Missed(s) == {seq \in 1..(events[s].seq - MaxEventBuffer) :
                seq > reader[s].cursor}

WatchLive(s) ==
  /\ There(s) /\ ~reader[s].on /\ reader[s].times < MaxWatches[s]
  /\ reader' = [reader EXCEPT ![s].times = @ + 1, ![s].on = TRUE,
       ![s].heard = @ \union Replay(s), ![s].lost = @ \union Missed(s),
       ![s].cursor = IF Replay(s) # {} THEN events[s].seq ELSE @]
  /\ UNCHANGED <<plan, asked, session, events, running, history>>

(* A stream of a finished session is ended with a made-up agent:done, whose*)
(* id is the next one.                                                     *)
Watch(s) ==
  /\ There(s) /\ ~reader[s].on /\ reader[s].times < MaxWatches[s]
  /\ LET final == session[s].status \in Final IN
     reader' = [reader EXCEPT ![s].times = @ + 1, ![s].on = ~final,
       ![s].heard = @ \union Replay(s), ![s].lost = @ \union Missed(s),
       ![s].madeUp = IF final THEN @ \union {events[s].seq + 1} ELSE @,
       ![s].cursor = IF final THEN events[s].seq + 1
                     ELSE IF Replay(s) # {} THEN events[s].seq ELSE @]
  /\ UNCHANGED <<plan, asked, session, events, running, history>>

Disconnect(s) ==
  /\ reader[s].on
  /\ reader' = [reader EXCEPT ![s].on = FALSE]
  /\ UNCHANGED <<plan, asked, session, events, running, history>>

-----------------------------------------------------------------------------
AgentInit ==
  /\ plan \in Limits
  /\ created \in Former
  /\ asked = {} /\ excused = {} /\ revived = {}
  /\ session = [s \in Agent |-> [status |-> "none", pending |-> 0,
                                 actions |-> 0, timers |-> 0]]
  /\ events = [s \in Agent |-> [seq |-> 0, buffer |-> <<>>]]
  /\ exec = [s \in Agent |-> NoExec]
  /\ reader = [s \in Agent |-> [on |-> FALSE, cursor |-> 0, heard |-> {},
                                lost |-> {}, madeUp |-> {}, times |-> 0]]
  /\ pauses = [s \in Agent |-> 0]
  /\ late = [s \in Agent |-> 0]
  /\ approved = [s \in Agent |-> [actions |-> {}, tools |-> {}]]

(* What the process, the model and the clock do by themselves.             *)
ExecutorStep(s) ==
  \/ Start(s) \/ Iterate(s) \/ Terminate(s) \/ Answer(s) \/ Fail(s)
  \/ UseTool(s) \/ RequestApproval(s) \/ ApprovalTimesOut(s)
  \/ ToolReturns(s) \/ EndIteration(s)

AgentNext ==
  \E s \in Agent :
    \/ ExecutorStep(s)
    \/ Ask(s) \/ Run(s) \/ Refuse(s)
    \/ \E r \in {"approve", "reject", "always_approve"} : Approve(s, r)
    \/ Stop(s) \/ Pause(s) \/ Resume(s)
    \/ Cleanup(s) \/ Watch(s) \/ Disconnect(s)

AgentSpec == AgentInit /\ [][AgentNext]_agentVars
AgentFairSpec ==
  /\ AgentSpec
  /\ \A s \in Agent : WF_agentVars(ExecutorStep(s)) /\ WF_agentVars(Cleanup(s))
=============================================================================
