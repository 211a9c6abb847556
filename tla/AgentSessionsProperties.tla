---------------------- MODULE AgentSessionsProperties -----------------------
(***************************************************************************)
(* What the agent sessions are meant to guarantee.                         *)
(***************************************************************************)
EXTENDS AgentSessions

-----------------------------------------------------------------------------
(* Holds of the code *)

Going(s) == exec[s].pc \notin {"none", "ended"}

PC == {"none", "scheduled", "loop", "llm", "tools", "using", "asking", "ended"}

Execution == [pc: PC, iteration: Nat, todo: Seq(STRING), action: Nat,
              hard: BOOLEAN, always: SUBSET STRING, failed: BOOLEAN]

Status == {"none", "paused"} \union ActiveStatus \union Final

Entry == [status: Status, pending: Nat, actions: Nat, timers: Nat]

Stream == [on: BOOLEAN, cursor: Nat, heard: SUBSET Nat, lost: SUBSET Nat,
           madeUp: SUBSET Nat, times: Nat]

Typed ==
  /\ plan \in Limits /\ asked \subseteq Agent
  /\ session \in [Agent -> Entry]
  /\ events \in [Agent -> [seq: Nat, buffer: Seq(Nat)]]
  /\ exec \in [Agent -> Execution] /\ reader \in [Agent -> Stream]
  /\ approved \in [Agent -> [actions: SUBSET Nat, tools: SUBSET STRING]]
  /\ late \in [Agent -> Nat] /\ pauses \in [Agent -> Nat]
  /\ excused \subseteq Agent /\ revived \subseteq Agent /\ created \subseteq Agent

(* Types; a final session that is still there has a timer that will remove *)
(* it, whether it was revived and stopped again in between or not.         *)
AgentTypeOK ==
  /\ Typed
  /\ \A s \in Agent :
       /\ exec[s].iteration <= MaxIterations[s]
       /\ Len(events[s].buffer) <= MaxEventBuffer
       /\ session[s].pending <= session[s].actions
       /\ session[s].status \in Final => session[s].timers > 0

(* A tool that is held back is used only after the user said yes to that   *)
(* very action, or "always" to that tool: not after a timeout, nor after a *)
(* yes to an earlier action.                                               *)
UsedWithConsent ==
  \A s \in Agent :
    exec[s].pc = "using" /\ Tool(s) \in Risky =>
      \/ exec[s].action \in approved[s].actions
      \/ exec[s].action = 0 /\ Tool(s) \in approved[s].tools

(* After a stop the run begins one tool at most: the one it was asking     *)
(* about.                                                                  *)
StopHolds == \A s \in Agent : late[s] <= 1

(* Runs that were neither paused nor stopped never exceed the plan, however*)
(* the requests interleave with one another and with the first steps.      *)
WithinPlan ==
  Cardinality({s \in Agent : Going(s)} \ excused) <= plan.concurrent

(* Types, and the plan's number of runs, whatever the executors do.        *)
AgentsSound == AgentTypeOK /\ WithinPlan

(* A stream that is open has heard every event of its session, but for     *)
(* those that left the buffer while it was away and those whose id a       *)
(* made-up agent:done had taken.                                           *)
ReaderHearsAll ==
  \A s \in Agent : reader[s].on =>
    1..events[s].seq \subseteq
      reader[s].heard \union reader[s].lost \union reader[s].madeUp

(* When a run has ended its session is final, and no stream of it is open  *)
(* any more, unless it was revived, it failed (no agent:done is sent) or   *)
(* it was removed before the run ended.                                    *)
EndSettles ==
  \A s \in Agent \ revived : exec[s].pc = "ended" /\ There(s) =>
    /\ session[s].status \in Final
    /\ reader[s].on => exec[s].failed

(* Every run ends: nobody need answer, stop or resume it.                  *)
RunEnds == \A s \in Agent : exec[s].pc = "scheduled" ~> exec[s].pc = "ended"

(* A session whose run has ended is forgotten in the end, unless revived.  *)
SessionForgotten ==
  \A s \in Agent : exec[s].pc = "ended" ~> ~There(s) \/ s \in revived

(* A run ends and its session is forgotten.                                *)
RunSettles == RunEnds /\ SessionForgotten

-----------------------------------------------------------------------------
(* The inductive strengthening of the invariants above *)

(* Nothing is known of a session before it runs, it is asked for once, and *)
(* one that goes on and was not excused counts as active.                  *)
FreshInv(s) ==
  /\ exec[s].pc = "none" => exec[s] = NoExec /\ ~There(s) /\ late[s] = 0
  /\ exec[s].pc # "none" => s \in created
  /\ s \in asked => s \notin created
  /\ Going(s) /\ s \notin excused => session[s].status \in ActiveStatus

(* There is a tool to use, and "always" was said to what goes unasked.     *)
ConsentInv(s) ==
  /\ exec[s].pc \in {"using", "asking"} => exec[s].todo # <<>>
  /\ exec[s].always \subseteq approved[s].tools

(* After its late tool a run comes to no other.                            *)
LateInv(s) ==
  late[s] # 0 =>
    exec[s].hard /\ exec[s].pc \in {"using", "tools", "loop", "ended"}

(* The invariants of one session and its run, all but the stream's.        *)
Own(s) ==
  /\ exec[s].iteration <= MaxIterations[s]
  /\ session[s].pending <= session[s].actions
  /\ session[s].status \in Final => session[s].timers > 0
  /\ FreshInv(s) /\ ConsentInv(s) /\ LateInv(s)
  /\ exec[s].pc = "using" /\ Tool(s) \in Risky =>
       \/ exec[s].action \in approved[s].actions
       \/ exec[s].action = 0 /\ Tool(s) \in approved[s].tools
  /\ late[s] <= 1
  /\ s \notin revived /\ exec[s].pc = "ended" /\ There(s) =>
       session[s].status \in Final /\ (reader[s].on => exec[s].failed)

(* The buffer holds the last ids.                                          *)
Window(e) ==
  /\ Len(e.buffer) = IF e.seq < MaxEventBuffer THEN e.seq ELSE MaxEventBuffer
  /\ \A n \in 1..Len(e.buffer) : e.buffer[n] = e.seq - Len(e.buffer) + n

Covered(rd) == rd.heard \union rd.lost \union rd.madeUp

(* A cursor claims no more than was heard, lost or made up; nor does a     *)
(* stream that is open.                                                    *)
Hear(s) ==
  /\ Window(events[s])
  /\ 1..reader[s].cursor \subseteq Covered(reader[s])
  /\ reader[s].on => 1..events[s].seq \subseteq Covered(reader[s])

AgentInv ==
  /\ Typed /\ \A s \in Agent : Own(s) /\ Hear(s)
  /\ IsFiniteSet(Created) /\ WithinPlan

-----------------------------------------------------------------------------
(* Said of the code, and refuted by it *)

(* "Stop all execution, emergency checkpoint, pause session"               *)
(* (src/src/routes/yuan-agent-router.ts:549): after a stop no tool begins. *)
StopsAllExecution == \A s \in Agent : late[s] = 0
=============================================================================
