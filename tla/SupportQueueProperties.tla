----------------------- MODULE SupportQueueProperties -----------------------
(***************************************************************************)
(* What the auto-reply queue is meant to do.                               *)
(***************************************************************************)
EXTENDS SupportQueue

WorkerPc == {"idle", "claimed", "failing"} \union PastDraft

(* Types; a ticket is not answered beyond what was asked, and a worker's   *)
(* attempt is one the row has counted.                                     *)
SupportTypeOK ==
  /\ jobs \in [Job -> JobRow]
  /\ tickets \in [Ticket -> [asked: 0..MaxAsks, answered: 0..MaxAsks,
                             status: {"open", "waiting_user"}]]
  /\ posting \in [Ticket -> {"none", "stored", "reopened"}]
  /\ worker \in [Worker -> [pc: WorkerPc, job: Job \union {None},
                            attempts: Nat, seen: 0..MaxAsks]]
  /\ sent \in [Job -> Nat]
  /\ overtaken \in [Job -> Nat] /\ botched \in [Job -> Nat]
  /\ missed \subseteq Ticket /\ faults \in 0..MaxFaults
  /\ \A t \in Ticket : tickets[t].answered <= tickets[t].asked
  /\ \A w \in Worker : worker[w].pc # "idle" =>
       /\ worker[w].job \in Job
       /\ worker[w].attempts <= jobs[worker[w].job].attempts

(* Two workers hold one job only as often as its lock was taken over: a    *)
(* message that comes while a job is processed does not hand it out again  *)
(* (enqueue's CASE), and a claim hides the row from the next one.          *)
HoldersExclusive ==
  \A j \in Job : Cardinality(Holding(j)) <= 1 + overtaken[j]

(* Types, and exclusive work, whatever crashes and lapses.                 *)
SupportSound == SupportTypeOK /\ HoldersExclusive

(* Once every job of a ticket is completed, its last message was answered, *)
(* unless it came when a draft that lacks it was already on its way: the   *)
(* job that enqueue found open is then the one that completes.             *)
FollowUpsAnswered ==
  \A t \in Ticket \ missed :
    /\ posting[t] = "none"
    /\ \A j \in Job : jobs[j].ticket = t => jobs[j].status = "completed"
    => tickets[t].answered = tickets[t].asked

(* The queue keeps the promise: bounded tries, no verdict without its      *)
(* ground, one mail and one more per slip at most, and a settled job is    *)
(* only reopened after a slip (complete and fail ignore locked_by).        *)
Promise == INSTANCE ReplyPromise WITH
  phase <- [j \in Job |-> IF jobs[j].status \in Open THEN "open"
                          ELSE jobs[j].status],
  tries <- [j \in Job |-> jobs[j].attempts],
  replies <- sent,
  slips <- [j \in Job |-> overtaken[j] + botched[j]]
ImplementsPromise == Promise!PromiseSpec

(* Every job is settled in the end, whatever crashed, lapsed or failed.    *)
JobSettles ==
  \A j \in Job :
    jobs[j].status \in Open ~> jobs[j].status \in Terminal
=============================================================================
