----------------------------- MODULE ChatStream -----------------------------
(***************************************************************************)
(* A chat turn end to end: the controller opens a session and takes one of *)
(* its exits (src/src/control/chat-controller.ts), the execution engine    *)
(* streams and ends the turn (src/src/ai/execution/execution-engine.ts),   *)
(* the media path ends it from the background (execution-entry.ts), users  *)
(* abort or unlock it (routes/stream-abort.ts) and SSE readers come and go *)
(* (routes/stream-router.ts), all on the broker of StreamEngine.           *)
(*                                                                         *)
(* A run is cut at its awaits: what happens between two awaits is one      *)
(* action.                                                                 *)
(***************************************************************************)
EXTENDS StreamEngine

CONSTANTS
  Paths,      \* which of the optional behaviours below a model includes
  MaxTokens,  \* content publications per run
  MaxPokes    \* publications from outside the runs (unlock, title patches)

ASSUME BoundsAssumption == MaxTokens \in Nat /\ MaxPokes \in Nat

VARIABLES
  run,        \* the request and execution of each turn
  pokes       \* outside publications so far

runVars == <<run, pokes>>
vars == <<brokerVars, redisVars, reader, aborted, published, turns, runVars>>

Reason == {"completed", "aborted", "error"}

RunPC == {"idle", "registered", "direct", "direct_done", "media", "running",
          "finalizing", "finaled", "suggesting", "suggested", "remembered",
          "finish", "finish_done", "finish_clear", "ended", "dropped"}

-----------------------------------------------------------------------------

Goto(r, pc) == run' = [run EXCEPT ![r].pc = pc]

FinishWith(r, why) == run' = [run EXCEPT ![r].pc = "finish", ![r].why = why]

At(r, pcs) == run[r].pc \in pcs

(* What a step of a run leaves alone, register apart.                      *)
Frame == UNCHANGED <<reader, aborted, turns, pokes>>

(* A step that changes nothing in the broker.                              *)
Locally == Quiet /\ Frame

(* POST /chat: the session is opened before anything can fail.             *)
Register(r) ==
  /\ At(r, {"idle"})
  /\ RegisterSession(Home[r], r)
  /\ Goto(r, "registered")
  /\ UNCHANGED <<reader, pokes>>

(* The gate answers 429, or an exception reaches the catch-all.            *)
Reject(r) ==
  /\ "reject" \in Paths /\ At(r, {"registered"})
  /\ Goto(r, "dropped")
  /\ Locally

(* DECISION_BLOCKED and EMPTY_PROMPT.                                      *)
Block(r) ==
  /\ "block" \in Paths /\ At(r, {"registered"})
  /\ FinishWith(r, "error")
  /\ Locally

(* directResponse registers again, then publishes one token and a done.    *)
DirectRegister(r) ==
  /\ "direct" \in Paths /\ At(r, {"registered"})
  /\ RegisterSession(Home[r], r)
  /\ Goto(r, "direct")
  /\ UNCHANGED <<reader, pokes>>

DirectToken(r) ==
  /\ At(r, {"direct"})
  /\ PublishAt(Home[r], r, "token")
  /\ Goto(r, "direct_done")
  /\ Frame

DirectDone(r) ==
  /\ At(r, {"direct_done"})
  /\ PublishAt(Home[r], r, "done")
  /\ Goto(r, "ended")
  /\ Frame

(* IMAGE_GENERATION: its own registration follows the early one in the     *)
(* same turn of the event loop, over an empty session, so the two are one; *)
(* the media pipeline is left running.                                     *)
MediaRegister(r) ==
  /\ "media" \in Paths /\ At(r, {"idle"})
  /\ RegisterSession(Home[r], r)
  /\ Goto(r, "media")
  /\ UNCHANGED <<reader, pokes>>

(* IMAGE_ANALYSIS with an asset to make runs on the session it has.        *)
MediaAnalysis(r) ==
  /\ "media" \in Paths /\ At(r, {"registered"})
  /\ PublishAt(Home[r], r, "token")
  /\ Goto(r, "media")
  /\ Frame

(* The pipeline ends: finish, or, when analysis fails, only a warning.     *)
MediaEnds(r) ==
  /\ At(r, {"media"})
  /\ \/ \E why \in {"completed", "error"} : FinishWith(r, why)
     \/ Goto(r, "dropped")
  /\ Locally

(* ExecutionEngine.execute starts and attaches its AbortController.        *)
Attach(r) ==
  /\ At(r, {"registered"})
  /\ AttachExecution(Home[r], r)
  /\ Goto(r, "running")
  /\ Frame

(* An exception between the attachment and the try block.                  *)
PrologueThrow(r) ==
  /\ "throw" \in Paths /\ At(r, {"registered"})
  /\ AttachExecution(Home[r], r)
  /\ Goto(r, "dropped")
  /\ Frame

(* One piece of content: a stage of the planned execution before the       *)
(* engine starts, a piece of the answer, a stage of the media pipeline.    *)
(* The cadence delay and the translation call lie between the abort check  *)
(* and the publication.                                                    *)
Token(r) ==
  /\ At(r, {"registered", "running", "media"}) /\ run[r].sent < MaxTokens
  /\ PublishAt(Home[r], r, "token")
  /\ run' = [run EXCEPT ![r].sent = @ + 1]
  /\ Frame

ReasoningBlock(r) ==
  /\ "reason" \in Paths
  /\ At(r, {"running"}) /\ run[r].sent < MaxTokens
  /\ PublishReasoning(Home[r], r)
  /\ run' = [run EXCEPT ![r].sent = @ + 1]
  /\ Frame

(* The segments are over and the abort check behind them did not fire.     *)
SegmentsDone(r) ==
  /\ At(r, {"running"}) /\ r \notin aborted
  /\ Goto(r, "finalizing")
  /\ Locally

(* SeeAbort that forgets to finish.                                        *)
SeeAbortSilently(r) ==
  /\ At(r, {"running"}) /\ r \in aborted
  /\ Goto(r, "dropped")
  /\ Locally

(* EXEC_ABORTED, or the abort check behind the segments.                   *)
SeeAbort(r) ==
  /\ At(r, {"running"}) /\ r \in aborted
  /\ FinishWith(r, "aborted")
  /\ Locally

(* The provider closed the connection: "terminated".                       *)
Terminated(r) ==
  /\ "throw" \in Paths /\ At(r, {"running"})
  /\ FinishWith(r, "error")
  /\ Locally

(* Any other exception: done only if neither aborted nor flagged as done.  *)
ThrowWhileRunning(r) ==
  /\ "throw" \in Paths /\ At(r, {"running"})
  /\ IF r \in aborted
     THEN Quiet /\ Goto(r, "dropped")
     ELSE PublishDone(Home[r], r, "error") /\ Goto(r, "ended")
  /\ Frame

Final(r) ==
  /\ At(r, {"finalizing"})
  /\ PublishFinal(Home[r], r)
  /\ Goto(r, "finaled")
  /\ Frame

(* doneEmitted is set before FINAL, so a later exception ends in silence.  *)
ThrowWhileFinalizing(r) ==
  /\ "throw" \in Paths /\ At(r, {"finalizing", "finaled", "suggesting"})
  /\ Goto(r, "dropped")
  /\ Locally

(* emitSuggestions: a stage event, then the suggestion.                    *)
SuggestStage(r) ==
  /\ "post" \in Paths /\ At(r, {"finaled"})
  /\ PublishAt(Home[r], r, "token")
  /\ Goto(r, "suggesting")
  /\ Frame

SuggestItems(r) ==
  /\ At(r, {"suggesting"})
  /\ PublishAt(Home[r], r, "suggestion")
  /\ Goto(r, "suggested")
  /\ Frame

(* runMemoryPipeline reports what it saved.                                *)
Remember(r) ==
  /\ "post" \in Paths /\ At(r, {"finaled", "suggested"})
  /\ PublishAt(Home[r], r, "memory")
  /\ Goto(r, "remembered")
  /\ Frame

Complete(r) ==
  /\ At(r, {"finaled", "suggested", "remembered"})
  /\ PublishDone(Home[r], r, "completed")
  /\ Goto(r, "ended")
  /\ Frame

(* finish: FINAL first unless already there, then emitDone.  Some callers  *)
(* name their trace, the others leave it to the session they find.         *)
Finish(r) ==
  LET i == Home[r] IN
  /\ At(r, {"finish"})
  /\ IF ~Live(session[i])
     THEN Quiet /\ Goto(r, "ended")
     ELSE IF session[i].state = "FINAL"
     THEN EmitDone(i, run[r].why) /\ Goto(r, "finish_clear")
     ELSE /\ \E t \in {r, session[i].run} : PublishFinal(i, t)
          /\ Goto(r, "finish_done")
  /\ Frame

FinishDone(r) ==
  LET i == Home[r] IN
  /\ At(r, {"finish_done"})
  /\ EmitDone(i, run[r].why)
  /\ Goto(r, IF Live(session[i]) THEN "finish_clear" ELSE "ended")
  /\ Frame

FinishClear(r) ==
  /\ At(r, {"finish_clear"})
  /\ EmitDoneResumes(Home[r])
  /\ Goto(r, "ended")
  /\ Frame

-----------------------------------------------------------------------------
(* Actors beside the runs *)

(* POST /abort reaches one instance.                                       *)
UserAbort(i) ==
  /\ "abort" \in Paths
  /\ AbortedBy(i) \ aborted # {}
  /\ aborted' = aborted \cup AbortedBy(i)
  /\ UNCHANGED <<reader, turns, runVars>>
  /\ Quiet

(* POST /unlock and the title patch handler publish a stage or an activity *)
(* under a traceId of their own.                                           *)
Poke(i, r) ==
  /\ pokes < MaxPokes /\ session[i] # None /\ run[r].pc # "idle"
  /\ PublishAt(i, r, "token")
  /\ pokes' = pokes + 1
  /\ UNCHANGED <<reader, aborted, turns, run>>

RunStep(r) ==
  \/ Register(r) \/ Reject(r) \/ Block(r)
  \/ DirectRegister(r) \/ DirectToken(r) \/ DirectDone(r)
  \/ MediaRegister(r) \/ MediaAnalysis(r) \/ MediaEnds(r)
  \/ Attach(r) \/ PrologueThrow(r) \/ Token(r) \/ ReasoningBlock(r)
  \/ SegmentsDone(r) \/ SeeAbort(r) \/ Terminated(r) \/ ThrowWhileRunning(r)
  \/ Final(r) \/ ThrowWhileFinalizing(r) \/ SuggestStage(r) \/ SuggestItems(r)
  \/ Remember(r) \/ Complete(r)
  \/ Finish(r) \/ FinishDone(r) \/ FinishClear(r)

ReaderStep(s) ==
  \/ RedisSubscribes(s)
  \/ Yield(s)

Timer(i) ==
  \/ "reap" \in Paths /\ GrowOlder(i)
  \/ "reap" \in Paths /\ Reap(i)

EngineStep ==
  \/ \E s \in Subs : Subscribe(s) \/ ReaderStep(s)
  \/ \E s \in Subs : "redis" \in Paths /\ SubscribeFails(s)
  \/ \E i \in Inst : Deliver(i) \/ FlushEnds(i) \/ Timer(i)

(* Everything has happened.                                                *)
Idle ==
  /\ \A r \in Runs : At(r, {"ended", "dropped"})
  /\ \A s \in Subs : reader[s].pc \in {"live", "failed", "closed"}
  /\ UNCHANGED vars

Init ==
  /\ EngineInit
  /\ run = [r \in Runs |-> [pc |-> "idle", sent |-> 0, why |-> "error"]]
  /\ pokes = 0

Next ==
  \/ \E r \in Runs : RunStep(r)
  \/ EngineStep /\ UNCHANGED runVars
  \/ \E i \in Inst : UserAbort(i) \/ \E r \in Runs : Poke(i, r)
  \/ Idle

Spec == Init /\ [][Next]_vars

(* The event loop runs every pending continuation, Redis answers, and the  *)
(* provider stream ends (it has a 90 s limit).  Users, pokes, timers and   *)
(* the arrival of readers owe nothing.                                     *)
Fairness ==
  /\ \A r \in Runs : WF_vars(RunStep(r))
  /\ \A s \in Subs : WF_vars(ReaderStep(s) /\ UNCHANGED runVars)
  /\ \A i \in Inst : WF_vars(Deliver(i) /\ UNCHANGED runVars)

FairSpec == Spec /\ Fairness
=============================================================================
