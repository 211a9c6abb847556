---------------------------- MODULE SupportQueue ----------------------------
(***************************************************************************)
(* Automatic replies to support tickets:                                   *)
(* src/src/support-ai/support-auto-reply-queue.ts (the job table), its     *)
(* worker src/src/workers/support-auto-reply-worker.ts, and the routes     *)
(* that post messages (routes/support-router.ts, support-inbound-router).  *)
(*                                                                         *)
(* Each SQL statement is an action of its own.  run_after only delays a    *)
(* claim, so a waiting job may be claimed at any time.                     *)
(***************************************************************************)
EXTENDS Integers, FiniteSets

CONSTANTS
  Worker,
  Ticket,
  Job,          \* rows the job table may grow to
  MaxAttempts,  \* max_attempts of a row
  MaxAsks,      \* bound: messages a user writes on a ticket
  MaxFaults,    \* bound: crashes, late workers and failed statements
  None

ASSUME SupportAssumption ==
  /\ MaxAttempts \in Nat \ {0} /\ MaxAsks \in Nat /\ MaxFaults \in Nat
  /\ None \notin Job \union Ticket
  /\ IsFiniteSet(Worker)

VARIABLES
  jobs,      \* the rows of support_auto_reply_jobs
  tickets,   \* the messages of each ticket and its status
  posting,   \* how far the request that posts a message is
  worker,    \* the job each worker process holds and how far it is
  sent,      \* mails that went out for each job
  overtaken, \* history: claims of a job from a lapsed lock
  botched,   \* history: tries of a job that failed after its mail
  missed,    \* history: tickets whose message no draft will have seen
  faults     \* how many faults there have been

supportVars ==
  <<jobs, tickets, posting, worker, sent, overtaken, botched, missed, faults>>
history == <<overtaken, botched, missed>>

-----------------------------------------------------------------------------
(* The job table *)

Open     == {"queued", "processing", "retry_wait"}
Terminal == {"completed", "dead"}
JobRow   == [ticket: Ticket \union {None},
             status: Open \union Terminal \union {"absent"},
             attempts: Nat,
             lapsed: BOOLEAN]     \* locked_at is two minutes old

NoRow  == [ticket |-> None, status |-> "absent", attempts |-> 0,
           lapsed |-> FALSE]
NewRow(t) == [ticket |-> t, status |-> "queued", attempts |-> 0,
              lapsed |-> FALSE]

OpenJobs(t) == {j \in Job : jobs[j].ticket = t /\ jobs[j].status \in Open}
Absent      == {j \in Job : jobs[j].status = "absent"}

Idle    == [pc |-> "idle", job |-> None, attempts |-> 0, seen |-> 0]
Holding(j) == {w \in Worker : worker[w].job = j}

(* The draft is made: what is written on the ticket now is not in it.      *)
PastDraft == {"drafted", "mailed", "recorded", "saved", "waiting"}
PastMail  == {"mailed", "recorded", "saved", "waiting"}
Overlooks(w, t) ==
  /\ worker[w].pc \in PastDraft
  /\ jobs[worker[w].job].ticket = t
  /\ worker[w].seen < tickets[t].asked

-----------------------------------------------------------------------------
(* A user's request: the message is stored, the ticket reopened, and the   *)
(* job enqueued, with a request of its own at a time on each ticket.       *)

Post(t) ==
  /\ posting[t] = "none" /\ tickets[t].asked < MaxAsks
  /\ tickets' = [tickets EXCEPT ![t].asked = @ + 1]
  /\ posting' = [posting EXCEPT ![t] = "stored"]
  /\ UNCHANGED <<jobs, worker, sent, history, faults>>

Reopen(t) ==
  /\ posting[t] = "stored"
  /\ tickets' = [tickets EXCEPT ![t].status = "open"]
  /\ posting' = [posting EXCEPT ![t] = "reopened"]
  /\ UNCHANGED <<jobs, worker, sent, history, faults>>

EnqueueRequeues(t) ==
  /\ posting[t] = "reopened"
  /\ posting' = [posting EXCEPT ![t] = "none"]
  /\ \/ /\ OpenJobs(t) = {}
        /\ \E j \in Absent : jobs' = [jobs EXCEPT ![j] = NewRow(t)]
     \/ \E j \in OpenJobs(t) : jobs' = [jobs EXCEPT ![j].status = "queued"]
  /\ missed' = IF OpenJobs(t) # {} /\ \E w \in Worker : Overlooks(w, t)
               THEN missed \union {t} ELSE missed
  /\ UNCHANGED <<tickets, worker, sent, overtaken, botched, faults>>

(* ON CONFLICT on the open job of the ticket: one that is processing stays *)
(* so, one that waits is queued again.                                     *)
Enqueue(t) ==
  /\ posting[t] = "reopened"
  /\ posting' = [posting EXCEPT ![t] = "none"]
  /\ \/ /\ OpenJobs(t) = {}
        /\ \E j \in Absent : jobs' = [jobs EXCEPT ![j] = NewRow(t)]
     \/ \E j \in OpenJobs(t) :
          jobs' = [jobs EXCEPT ![j].status =
                     IF @ = "processing" THEN @ ELSE "queued"]
  /\ missed' = IF OpenJobs(t) # {} /\ \E w \in Worker : Overlooks(w, t)
               THEN missed \union {t} ELSE missed
  /\ UNCHANGED <<tickets, worker, sent, overtaken, botched, faults>>

(* A failed enqueue is logged, or answered 500 after the commit.           *)
EnqueueFails(t) ==
  /\ posting[t] = "reopened" /\ faults < MaxFaults
  /\ posting' = [posting EXCEPT ![t] = "none"]
  /\ faults' = faults + 1
  /\ missed' = missed \union {t}
  /\ UNCHANGED <<jobs, tickets, worker, sent, overtaken, botched>>

-----------------------------------------------------------------------------
(* The worker: processOne *)

ClaimWaiting(w) ==
  /\ worker[w].pc = "idle"
  /\ \E j \in Job :
       /\ jobs[j].status \in {"queued", "retry_wait"}
       /\ jobs' = [jobs EXCEPT ![j].status = "processing",
                               ![j].attempts = @ + 1, ![j].lapsed = FALSE]
       /\ worker' = [worker EXCEPT ![w] =
            [pc |-> "claimed", job |-> j, attempts |-> jobs[j].attempts + 1,
             seen |-> 0]]
  /\ UNCHANGED <<tickets, posting, sent, history, faults>>

(* claimNextSupportAutoReplyJob: SKIP LOCKED gives a row to one claimer.   *)
Claim(w) ==
  /\ worker[w].pc = "idle"
  /\ \E j \in Job :
       /\ \/ jobs[j].status \in {"queued", "retry_wait"}
          \/ jobs[j].status = "processing" /\ jobs[j].lapsed
       /\ jobs' = [jobs EXCEPT ![j].status = "processing",
                               ![j].attempts = @ + 1, ![j].lapsed = FALSE]
       /\ worker' = [worker EXCEPT ![w] =
            [pc |-> "claimed", job |-> j, attempts |-> jobs[j].attempts + 1,
             seen |-> 0]]
       /\ overtaken' = IF jobs[j].status = "processing"
                       THEN [overtaken EXCEPT ![j] = @ + 1] ELSE overtaken
  /\ UNCHANGED <<tickets, posting, sent, botched, missed, faults>>

Goto(w, from, to) ==
  /\ worker[w].pc = from
  /\ worker' = [worker EXCEPT ![w].pc = to]

(* The ticket and its messages are read; the model drafts, or does not.    *)
Draft(w) ==
  /\ worker[w].pc = "claimed"
  /\ worker' = [worker EXCEPT ![w].pc = "drafted",
                  ![w].seen = tickets[jobs[worker[w].job].ticket].asked]
  /\ UNCHANGED <<jobs, tickets, posting, sent, history, faults>>

DraftFails(w) ==
  /\ Goto(w, "claimed", "failing")
  /\ UNCHANGED <<jobs, tickets, posting, sent, history, faults>>

Mail(w) ==
  /\ Goto(w, "drafted", "mailed")
  /\ sent' = [sent EXCEPT ![worker[w].job] = @ + 1]
  /\ UNCHANGED <<jobs, tickets, posting, history, faults>>

MailFails(w) ==
  /\ Goto(w, "drafted", "failing")
  /\ UNCHANGED <<jobs, tickets, posting, sent, history, faults>>

Record(w) ==
  /\ Goto(w, "mailed", "recorded")
  /\ UNCHANGED <<jobs, tickets, posting, sent, history, faults>>

SaveMessage(w) ==
  /\ Goto(w, "recorded", "saved")
  /\ LET t == jobs[worker[w].job].ticket IN
       tickets' = [tickets EXCEPT ![t].answered =
                     IF @ < worker[w].seen THEN worker[w].seen ELSE @]
  /\ UNCHANGED <<jobs, posting, sent, history, faults>>

SetWaiting(w) ==
  /\ Goto(w, "saved", "waiting")
  /\ tickets' = [tickets EXCEPT ![jobs[worker[w].job].ticket].status =
                   "waiting_user"]
  /\ UNCHANGED <<jobs, posting, sent, history, faults>>

CompleteEarly(w) ==
  /\ worker[w].pc = "recorded"
  /\ jobs' = [jobs EXCEPT ![worker[w].job].status = "completed"]
  /\ worker' = [worker EXCEPT ![w] = Idle]
  /\ UNCHANGED <<tickets, posting, sent, history, faults>>

(* Neither this nor Fail looks at locked_by.                               *)
Complete(w) ==
  /\ worker[w].pc = "waiting"
  /\ jobs' = [jobs EXCEPT ![worker[w].job].status = "completed"]
  /\ worker' = [worker EXCEPT ![w] = Idle]
  /\ UNCHANGED <<tickets, posting, sent, history, faults>>

(* A statement after the mail fails and lands in the catch clause.         *)
StatementFails(w) ==
  /\ worker[w].pc \in PastMail /\ faults < MaxFaults
  /\ worker' = [worker EXCEPT ![w].pc = "failing"]
  /\ botched' = [botched EXCEPT ![worker[w].job] = @ + 1]
  /\ faults' = faults + 1
  /\ UNCHANGED <<jobs, tickets, posting, sent, overtaken, missed>>

(* The verdict is drawn from the attempts the worker captured when it      *)
(* claimed.  Back to retry_wait is refused by the unique index when the    *)
(* ticket has another open job; the error is logged and the row kept.      *)
ExhaustedLater(n) == n > MaxAttempts

Exhausted(n) == n >= MaxAttempts

Fail(w) ==
  /\ worker[w].pc = "failing"
  /\ LET j == worker[w].job IN
       IF Exhausted(worker[w].attempts)
       THEN jobs' = [jobs EXCEPT ![j].status = "dead"]
       ELSE IF OpenJobs(jobs[j].ticket) \ {j} # {}
       THEN UNCHANGED jobs
       ELSE jobs' = [jobs EXCEPT ![j].status = "retry_wait"]
  /\ worker' = [worker EXCEPT ![w] = Idle]
  /\ UNCHANGED <<tickets, posting, sent, history, faults>>

(* The failure cannot be marked: the row stays processing.                 *)
MarkFails(w) ==
  /\ worker[w].pc = "failing" /\ faults < MaxFaults
  /\ worker' = [worker EXCEPT ![w] = Idle]
  /\ faults' = faults + 1
  /\ UNCHANGED <<jobs, tickets, posting, sent, history>>

(* The process dies and is started again with nothing in hand.             *)
Crash(w) ==
  /\ worker[w].pc # "idle" /\ faults < MaxFaults
  /\ worker' = [worker EXCEPT ![w] = Idle]
  /\ faults' = faults + 1
  /\ UNCHANGED <<jobs, tickets, posting, sent, history>>

(* Two minutes pass since the claim: its worker is gone, or it is slow.    *)
LapseAbandoned(j) ==
  /\ jobs[j].status = "processing" /\ ~jobs[j].lapsed
  /\ \A w \in Holding(j) : worker[w].attempts # jobs[j].attempts
  /\ jobs' = [jobs EXCEPT ![j].lapsed = TRUE]
  /\ UNCHANGED <<tickets, posting, worker, sent, history, faults>>

LapseHeld(j) ==
  /\ jobs[j].status = "processing" /\ ~jobs[j].lapsed /\ faults < MaxFaults
  /\ \E w \in Holding(j) : worker[w].attempts = jobs[j].attempts
  /\ jobs' = [jobs EXCEPT ![j].lapsed = TRUE]
  /\ faults' = faults + 1
  /\ UNCHANGED <<tickets, posting, worker, sent, history>>

-----------------------------------------------------------------------------
SupportInit ==
  /\ jobs = [j \in Job |-> NoRow]
  /\ tickets = [t \in Ticket |-> [asked |-> 0, answered |-> 0,
                                  status |-> "open"]]
  /\ posting = [t \in Ticket |-> "none"]
  /\ worker = [w \in Worker |-> Idle]
  /\ sent = [j \in Job |-> 0]
  /\ overtaken = [j \in Job |-> 0]
  /\ botched = [j \in Job |-> 0]
  /\ missed = {}
  /\ faults = 0

WorkerStep(w) ==
  \/ Claim(w) \/ Draft(w) \/ DraftFails(w) \/ Mail(w) \/ MailFails(w)
  \/ Record(w) \/ SaveMessage(w) \/ SetWaiting(w) \/ Complete(w)
  \/ StatementFails(w) \/ Fail(w) \/ MarkFails(w)

SupportNext ==
  \/ \E t \in Ticket : Post(t) \/ Reopen(t) \/ Enqueue(t) \/ EnqueueFails(t)
  \/ \E w \in Worker : WorkerStep(w) \/ Crash(w)
  \/ \E j \in Job : LapseAbandoned(j) \/ LapseHeld(j)

SupportSpec == SupportInit /\ [][SupportNext]_supportVars

(* The routes and the loop go on, and time passes; users need not write.   *)
SupportFairness ==
  /\ \A t \in Ticket : WF_supportVars(Reopen(t) \/ Enqueue(t))
  /\ \A w \in Worker : WF_supportVars(WorkerStep(w))
  /\ \A j \in Job : WF_supportVars(LapseAbandoned(j))

SupportFairSpec == SupportSpec /\ SupportFairness
=============================================================================
