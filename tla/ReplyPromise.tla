---------------------------- MODULE ReplyPromise ----------------------------
(***************************************************************************)
(* What the support auto-reply queue promises for one job, without workers,*)
(* locks or statements: a job is tried a bounded number of times, ends     *)
(* completed or dead, is answered at least once when it is completed, and  *)
(* is answered more than once only when something slipped.  SupportQueue   *)
(* implements it.                                                          *)
(***************************************************************************)
EXTENDS Naturals

CONSTANTS
  Job,
  MaxAttempts   \* support_auto_reply_jobs.max_attempts

VARIABLES
  phase,    \* absent, open, completed or dead
  tries,    \* how often each job was begun
  replies,  \* how many mails its recipient was sent
  slips     \* takeovers of a lapsed lock, and failures after the mail

promiseVars == <<phase, tries, replies, slips>>

PromiseInit ==
  /\ phase = [j \in Job |-> "absent"]
  /\ tries = [j \in Job |-> 0]
  /\ replies = [j \in Job |-> 0]
  /\ slips = [j \in Job |-> 0]

Submit(j) ==
  /\ phase[j] = "absent"
  /\ phase' = [phase EXCEPT ![j] = "open"]
  /\ UNCHANGED <<tries, replies, slips>>

Try(j) ==
  /\ phase[j] = "open"
  /\ tries[j] < MaxAttempts + slips[j]
  /\ tries' = [tries EXCEPT ![j] = @ + 1]
  /\ UNCHANGED <<phase, replies, slips>>

(* A try that takes the job from a holder which is late or gone.           *)
TakeOver(j) ==
  /\ phase[j] = "open"
  /\ tries' = [tries EXCEPT ![j] = @ + 1]
  /\ slips' = [slips EXCEPT ![j] = @ + 1]
  /\ UNCHANGED <<phase, replies>>

(* A try that fails although its mail is out.                              *)
Slip(j) ==
  /\ replies[j] > 0
  /\ slips' = [slips EXCEPT ![j] = @ + 1]
  /\ UNCHANGED <<phase, tries, replies>>

Reply(j) ==
  /\ replies[j] < tries[j]
  /\ replies[j] < 1 + slips[j]
  /\ replies' = [replies EXCEPT ![j] = @ + 1]
  /\ UNCHANGED <<phase, tries, slips>>

(* A job is settled once; only after a slip may a verdict be overturned,   *)
(* and even then each verdict needs its ground.                            *)
Settle(j, verdict) ==
  /\ phase[j] = "open" \/ slips[j] > 0
  /\ phase[j] # "absent"
  /\ verdict = "completed" => replies[j] > 0
  /\ verdict = "dead" => tries[j] >= MaxAttempts
  /\ phase' = [phase EXCEPT ![j] = verdict]
  /\ UNCHANGED <<tries, replies, slips>>

PromiseNext ==
  \E j \in Job :
    \/ Submit(j)
    \/ Try(j)
    \/ TakeOver(j)
    \/ Slip(j)
    \/ Reply(j)
    \/ \E verdict \in {"open", "completed", "dead"} : Settle(j, verdict)

PromiseSpec == PromiseInit /\ [][PromiseNext]_promiseVars
=============================================================================
