------------------------- MODULE SupportQueue_proofs -------------------------
(***************************************************************************)
(* The auto-reply queue implements ReplyPromise for any number of workers, *)
(* tickets, jobs, attempts and faults.                                     *)
(*                                                                         *)
(* QueueInv is the part of the invariant that looks at one worker or one   *)
(* row at a time.  CountInv weighs, for each job, those who hold it        *)
(* against what has slipped: however many workers were overtaken, each     *)
(* attempt below the limit gives the job back at most once.  AnswerInv     *)
(* says who will answer a ticket: a row of it that is not completed and    *)
(* whose holders, if past the draft, have seen all that was asked.         *)
(***************************************************************************)
EXTENDS SupportQueueProperties, FiniteSetTheorems, TLAPS

TicketState == [asked: 0..MaxAsks, answered: 0..MaxAsks,
                status: {"open", "waiting_user"}]
WorkerState == [pc: WorkerPc, job: Job \union {None}, attempts: Nat,
                seen: 0..MaxAsks]

IdleHoldsNothing == \A w \in Worker : worker[w].pc = "idle" <=> worker[w].job = None

RowHasTicket == \A j \in Job : jobs[j].status # "absent" => jobs[j].ticket \in Ticket

AbsentIsNew ==
  \A j \in Job : jobs[j].status = "absent" =>
    /\ jobs[j].attempts = 0 /\ sent[j] = 0
    /\ \A w \in Worker : worker[w].job # j

SeenWasAsked ==
  \A w \in Worker : worker[w].pc # "idle" =>
    /\ worker[w].seen <= tickets[jobs[worker[w].job].ticket].asked
    /\ worker[w].attempts # 0

AttemptsDiffer ==
  \A w, v \in Worker :
    /\ worker[w].pc # "idle" /\ worker[w].job = worker[v].job
    /\ worker[w].attempts = worker[v].attempts
    => w = v

MailedIsSent ==
  \A w \in Worker : worker[w].pc \in PastMail => sent[worker[w].job] > 0

QueueInv ==
  /\ SupportTypeOK
  /\ IdleHoldsNothing
  /\ RowHasTicket
  /\ AbsentIsNew
  /\ SeenWasAsked
  /\ AttemptsDiffer
  /\ MailedIsSent

-----------------------------------------------------------------------------
LEMMA IdleTyped ==
  /\ Idle \in WorkerState /\ Idle.pc = "idle" /\ Idle.job = None
  /\ Idle.pc \notin PastMail
  BY SupportAssumption DEF Idle, WorkerState, WorkerPc, PastMail

LEMMA QueueTypes ==
  ASSUME QueueInv
  PROVE  /\ jobs \in [Job -> JobRow] /\ worker \in [Worker -> WorkerState]
         /\ tickets \in [Ticket -> TicketState]
         /\ sent \in [Job -> Nat]
         /\ overtaken \in [Job -> Nat] /\ botched \in [Job -> Nat]
         /\ \A w \in Worker : worker[w].pc # "idle" =>
              /\ worker[w].job \in Job
              /\ worker[w].attempts <= jobs[worker[w].job].attempts
              /\ jobs[worker[w].job].status # "absent"
              /\ jobs[worker[w].job].ticket \in Ticket
  BY DEF QueueInv, SupportTypeOK, WorkerState, TicketState, AbsentIsNew,
         RowHasTicket

LEMMA QueueInitInv == SupportInit => QueueInv
<1>. SUFFICES ASSUME SupportInit  PROVE QueueInv
  OBVIOUS
<1>1. /\ jobs = [j \in Job |-> [ticket |-> None, status |-> "absent",
                                attempts |-> 0, lapsed |-> FALSE]]
      /\ tickets = [t \in Ticket |-> [asked |-> 0, answered |-> 0,
                                      status |-> "open"]]
      /\ posting = [t \in Ticket |-> "none"]
      /\ worker = [w \in Worker |-> Idle]
      /\ sent = [j \in Job |-> 0] /\ overtaken = [j \in Job |-> 0]
      /\ botched = [j \in Job |-> 0] /\ missed = {} /\ faults = 0
  BY DEF SupportInit, NoRow
<1>2. jobs \in [Job -> JobRow]
  BY <1>1 DEF JobRow
<1>3. tickets \in [Ticket -> TicketState]
  BY <1>1, SupportAssumption DEF TicketState
<1>4. worker \in [Worker -> WorkerState]
  BY <1>1, IdleTyped
<1>5. \A w \in Worker : worker[w].pc = "idle" /\ worker[w].job = None
  BY <1>1, IdleTyped
<1>6. \A t \in Ticket : tickets[t].answered = 0 /\ tickets[t].asked = 0
  BY <1>1
<1>7. \A j \in Job : jobs[j].status = "absent" /\ jobs[j].attempts = 0
  BY <1>1
<1>8. SupportTypeOK
  <2>1. /\ posting \in [Ticket -> {"none", "stored", "reopened"}]
        /\ sent \in [Job -> Nat] /\ overtaken \in [Job -> Nat]
        /\ botched \in [Job -> Nat] /\ missed \subseteq Ticket
    BY <1>1
  <2>2. faults \in 0..MaxFaults
    BY <1>1, SupportAssumption
  <2>3. \A t \in Ticket : tickets[t].answered <= tickets[t].asked
    BY <1>6
  <2>. QED
    BY <1>2, <1>3, <1>4, <1>5, <2>1, <2>2, <2>3
    DEF SupportTypeOK, WorkerState, TicketState
<1>9. IdleHoldsNothing /\ RowHasTicket /\ SeenWasAsked /\ AttemptsDiffer
  BY <1>5, <1>7
  DEF IdleHoldsNothing, RowHasTicket, SeenWasAsked, AttemptsDiffer
<1>10. AbsentIsNew
  BY <1>1, <1>5, <1>7, SupportAssumption DEF AbsentIsNew
<1>11. MailedIsSent
  BY <1>5 DEF MailedIsSent, PastMail
<1>. QED  BY <1>8, <1>9, <1>10, <1>11 DEF QueueInv

(* A step after which every row has the attempts and the ticket it had and *)
(* every worker is where it was or idle.                                   *)
LEMMA RowsKeptInv ==
  ASSUME QueueInv,
         jobs' \in [Job -> JobRow],
         \A j \in Job : /\ jobs'[j].attempts = jobs[j].attempts
                        /\ jobs'[j].ticket = jobs[j].ticket
                        /\ jobs'[j].status = "absent" <=> jobs[j].status = "absent",
         worker' \in [Worker -> WorkerState],
         \A w \in Worker : worker'[w] \in {worker[w], Idle},
         tickets' \in [Ticket -> TicketState],
         \A t \in Ticket : /\ tickets[t].asked <= tickets'[t].asked
                           /\ tickets'[t].answered <= tickets'[t].asked,
         posting' \in [Ticket -> {"none", "stored", "reopened"}],
         missed' \subseteq Ticket, faults' \in 0..MaxFaults,
         UNCHANGED <<sent, overtaken, botched>>
  PROVE  QueueInv'
<1>1. \A w \in Worker : worker'[w].pc # "idle" =>
        worker'[w] = worker[w] /\ worker[w].pc # "idle"
  BY IdleTyped
<1>2. SupportTypeOK'
  <2>1. \A w \in Worker : worker'[w].pc # "idle" =>
          /\ worker'[w].job \in Job
          /\ worker'[w].attempts <= jobs'[worker'[w].job].attempts
    BY <1>1, QueueTypes
  <2>. QED
    BY <2>1, QueueTypes DEF SupportTypeOK, WorkerState, TicketState
<1>3. IdleHoldsNothing'
  BY IdleTyped DEF QueueInv, IdleHoldsNothing
<1>4. RowHasTicket'
  BY DEF QueueInv, RowHasTicket
<1>5. AbsentIsNew'
  BY IdleTyped, SupportAssumption DEF QueueInv, AbsentIsNew
<1>6. SeenWasAsked'
  <2>. SUFFICES ASSUME NEW w \in Worker, worker'[w].pc # "idle"
                PROVE  /\ worker'[w].seen <= tickets'[jobs'[worker'[w].job].ticket].asked
                       /\ worker'[w].attempts # 0
    BY DEF SeenWasAsked
  <2>1. /\ worker'[w] = worker[w] /\ worker[w].job \in Job
        /\ jobs[worker[w].job].ticket \in Ticket
        /\ worker[w].seen <= tickets[jobs[worker[w].job].ticket].asked
        /\ worker[w].attempts # 0
    BY <1>1, QueueTypes DEF QueueInv, SeenWasAsked
  <2>2. /\ worker[w].seen \in Int
        /\ tickets[jobs[worker[w].job].ticket].asked \in Int
        /\ tickets'[jobs[worker[w].job].ticket].asked \in Int
    BY <2>1, QueueTypes DEF WorkerState, TicketState
  <2>. QED  BY <2>1, <2>2
<1>7. AttemptsDiffer'
  BY <1>1, IdleTyped, QueueTypes, SupportAssumption
  DEF QueueInv, AttemptsDiffer, IdleHoldsNothing
<1>8. MailedIsSent'
  BY IdleTyped DEF QueueInv, MailedIsSent
<1>. QED  BY <1>2, <1>3, <1>4, <1>5, <1>6, <1>7, <1>8 DEF QueueInv

(* A worker that holds a job goes on with it.                              *)
LEMMA WorkerGoesOnInv ==
  ASSUME QueueInv, NEW w \in Worker, worker[w].pc # "idle",
         NEW r \in WorkerState, r.pc # "idle",
         r.job = worker[w].job, r.attempts = worker[w].attempts,
         r.seen <= tickets[jobs[r.job].ticket].asked,
         worker' = [worker EXCEPT ![w] = r],
         tickets' \in [Ticket -> TicketState],
         \A t \in Ticket : /\ tickets'[t].asked = tickets[t].asked
                           /\ tickets'[t].answered <= tickets'[t].asked,
         sent' \in [Job -> Nat], \A j \in Job : sent[j] <= sent'[j],
         \A j \in Job : sent'[j] = sent[j] \/ j = r.job,
         r.pc \in PastMail => sent'[r.job] > 0,
         botched' \in [Job -> Nat], faults' \in 0..MaxFaults,
         UNCHANGED <<jobs, posting, overtaken, missed>>
  PROVE  QueueInv'
<1>1. /\ worker' \in [Worker -> WorkerState] /\ worker'[w] = r
      /\ \A v \in Worker \ {w} : worker'[v] = worker[v]
  BY QueueTypes
<1>2. \A v \in Worker : /\ worker'[v].job = worker[v].job
                        /\ worker'[v].attempts = worker[v].attempts
                        /\ worker'[v].pc = "idle" <=> worker[v].pc = "idle"
  BY <1>1
<1>3. SupportTypeOK'
  <2>1. \A v \in Worker : worker'[v].pc # "idle" =>
          /\ worker'[v].job \in Job
          /\ worker'[v].attempts <= jobs'[worker'[v].job].attempts
    BY <1>2, QueueTypes
  <2>. QED
    BY <1>1, <2>1 DEF QueueInv, SupportTypeOK, WorkerState, TicketState
<1>4. IdleHoldsNothing' /\ RowHasTicket'
  BY <1>2 DEF QueueInv, IdleHoldsNothing, RowHasTicket
<1>5. AbsentIsNew'
  <2>1. jobs[r.job].status # "absent"
    BY QueueTypes
  <2>. QED  BY <1>2, <2>1 DEF QueueInv, AbsentIsNew
<1>6. SeenWasAsked'
  <2>1. \A v \in Worker : worker[v].pc # "idle" =>
          jobs[worker[v].job].ticket \in Ticket
    BY QueueTypes
  <2>. QED  BY <1>1, <1>2, <2>1 DEF QueueInv, SeenWasAsked
<1>7. AttemptsDiffer'
  BY <1>2 DEF QueueInv, AttemptsDiffer
<1>8. MailedIsSent'
  <2>. SUFFICES ASSUME NEW v \in Worker \ {w}, worker'[v].pc \in PastMail
                PROVE  sent'[worker'[v].job] > 0
    BY <1>1 DEF MailedIsSent
  <2>1. worker'[v] = worker[v] /\ worker[v].pc # "idle"
    BY <1>1 DEF PastMail
  <2>2. worker[v].job \in Job /\ sent[worker[v].job] > 0
    BY <1>1, <2>1, QueueTypes DEF QueueInv, MailedIsSent
  <2>. QED  BY <2>1, <2>2, QueueTypes
<1>. QED  BY <1>3, <1>4, <1>5, <1>6, <1>7, <1>8 DEF QueueInv

-----------------------------------------------------------------------------
(* What a claim and a new row do, field by field.                          *)
LEMMA ClaimEffect ==
  ASSUME QueueInv, NEW w \in Worker, Claim(w)
  PROVE  \E j \in Job :
    /\ worker[w].pc = "idle"
    /\ jobs[j].status \in Open /\ jobs'[j].status = "processing"
    /\ jobs'[j].attempts = jobs[j].attempts + 1
    /\ jobs'[j].ticket = jobs[j].ticket /\ jobs' \in [Job -> JobRow]
    /\ \A i \in Job \ {j} : jobs'[i] = jobs[i]
    /\ worker' \in [Worker -> WorkerState]
    /\ worker'[w].pc = "claimed" /\ worker'[w].job = j
    /\ worker'[w].attempts = jobs[j].attempts + 1 /\ worker'[w].seen = 0
    /\ \A v \in Worker \ {w} : worker'[v] = worker[v]
    /\ overtaken' \in [Job -> Nat]
    /\ overtaken' = IF jobs[j].status = "processing"
                    THEN [overtaken EXCEPT ![j] = overtaken[j] + 1]
                    ELSE overtaken
    /\ UNCHANGED <<tickets, posting, sent, botched, missed, faults>>
<1>1. PICK j \in Job :
       /\ \/ jobs[j].status \in {"queued", "retry_wait"}
          \/ jobs[j].status = "processing" /\ jobs[j].lapsed
       /\ jobs' = [jobs EXCEPT ![j].status = "processing",
                               ![j].attempts = @ + 1, ![j].lapsed = FALSE]
       /\ worker' = [worker EXCEPT ![w] =
            [pc |-> "claimed", job |-> j, attempts |-> jobs[j].attempts + 1,
             seen |-> 0]]
       /\ overtaken' = IF jobs[j].status = "processing"
                       THEN [overtaken EXCEPT ![j] = @ + 1] ELSE overtaken
  BY DEF Claim
<1>2. jobs[j] \in JobRow /\ jobs[j].attempts \in Nat
  BY QueueTypes DEF JobRow
<1>3. jobs[j].status \in Open
  BY <1>1 DEF Open
<1>4. /\ jobs'[j].status = "processing" /\ jobs'[j].ticket = jobs[j].ticket
      /\ jobs'[j].attempts = jobs[j].attempts + 1
      /\ \A i \in Job \ {j} : jobs'[i] = jobs[i]
  BY <1>1, <1>2, QueueTypes DEF JobRow
<1>5. jobs' \in [Job -> JobRow]
  BY <1>1, <1>2, QueueTypes DEF JobRow, Open
<1>. DEFINE r == [pc |-> "claimed", job |-> j,
                  attempts |-> jobs[j].attempts + 1, seen |-> 0]
<1>6. /\ r \in WorkerState /\ r.pc = "claimed" /\ r.job = j
      /\ r.attempts = jobs[j].attempts + 1 /\ r.seen = 0
  BY <1>2, SupportAssumption DEF WorkerState, WorkerPc
<1>7. worker' = [worker EXCEPT ![w] = r]
  BY <1>1
<1>. HIDE DEF r
<1>8. /\ worker' \in [Worker -> WorkerState] /\ worker'[w] = r
      /\ \A v \in Worker \ {w} : worker'[v] = worker[v]
  BY <1>6, <1>7, QueueTypes
<1>9. /\ overtaken' \in [Job -> Nat]
      /\ overtaken' = IF jobs[j].status = "processing"
                      THEN [overtaken EXCEPT ![j] = overtaken[j] + 1]
                      ELSE overtaken
  BY <1>1, QueueTypes
<1>10. /\ worker[w].pc = "idle"
       /\ UNCHANGED <<tickets, posting, sent, botched, missed, faults>>
  BY DEF Claim
<1>. QED  BY <1>3, <1>4, <1>5, <1>6, <1>8, <1>9, <1>10

LEMMA ClaimInv ==
  ASSUME QueueInv, NEW w \in Worker, Claim(w)
  PROVE  QueueInv'
<1>1. PICK j \in Job :
    /\ worker[w].pc = "idle"
    /\ jobs[j].status \in Open /\ jobs'[j].status = "processing"
    /\ jobs'[j].attempts = jobs[j].attempts + 1
    /\ jobs'[j].ticket = jobs[j].ticket /\ jobs' \in [Job -> JobRow]
    /\ \A i \in Job \ {j} : jobs'[i] = jobs[i]
    /\ worker' \in [Worker -> WorkerState]
    /\ worker'[w].pc = "claimed" /\ worker'[w].job = j
    /\ worker'[w].attempts = jobs[j].attempts + 1 /\ worker'[w].seen = 0
    /\ \A v \in Worker \ {w} : worker'[v] = worker[v]
    /\ overtaken' \in [Job -> Nat]
    /\ UNCHANGED <<tickets, posting, sent, botched, missed, faults>>
  BY ClaimEffect
<1>2. jobs[j].attempts \in Nat /\ jobs[j].status # "absent"
      /\ jobs[j].ticket \in Ticket
  BY <1>1, QueueTypes DEF JobRow, Open, QueueInv, RowHasTicket
<1>3. \A v \in Worker \ {w} : worker[v].pc # "idle" =>
        /\ worker[v].job \in Job /\ worker[v].attempts \in Nat
        /\ worker[v].attempts <= jobs[worker[v].job].attempts
        /\ jobs[worker[v].job].attempts <= jobs'[worker[v].job].attempts
        /\ jobs'[worker[v].job].ticket = jobs[worker[v].job].ticket
  BY <1>1, <1>2, QueueTypes DEF WorkerState, JobRow
<1>4. SupportTypeOK'
  <2>1. \A v \in Worker : worker'[v].pc # "idle" =>
          /\ worker'[v].job \in Job
          /\ worker'[v].attempts <= jobs'[worker'[v].job].attempts
    <3>. SUFFICES ASSUME NEW v \in Worker, worker'[v].pc # "idle"
                  PROVE  /\ worker'[v].job \in Job
                         /\ worker'[v].attempts <= jobs'[worker'[v].job].attempts
      OBVIOUS
    <3>1. CASE v = w
      BY <1>1, <1>2, <3>1
    <3>2. CASE v # w
      <4>1. /\ worker'[v] = worker[v] /\ jobs[worker[v].job].attempts \in Nat
            /\ jobs'[worker[v].job].attempts \in Nat
        BY <1>1, <1>3, <3>2, QueueTypes DEF JobRow
      <4>. QED  BY <1>3, <3>2, <4>1
    <3>. QED  BY <3>1, <3>2
  <2>. QED
    BY <1>1, <2>1 DEF QueueInv, SupportTypeOK, WorkerState
<1>5. IdleHoldsNothing'
  BY <1>1, SupportAssumption DEF QueueInv, IdleHoldsNothing
<1>6. RowHasTicket'
  BY <1>1, <1>2 DEF QueueInv, RowHasTicket
<1>7. AbsentIsNew'
  BY <1>1, <1>2 DEF QueueInv, AbsentIsNew
<1>8. SeenWasAsked'
  <2>1. 0 <= tickets[jobs[j].ticket].asked
    BY <1>2, QueueTypes DEF TicketState
  <2>. QED  BY <1>1, <1>2, <1>3, <2>1 DEF QueueInv, SeenWasAsked
<1>9. AttemptsDiffer'
  <2>1. \A v \in Worker \ {w} : worker[v].job = j =>
          worker[v].attempts # jobs[j].attempts + 1
    BY <1>2, <1>3, SupportAssumption DEF QueueInv, IdleHoldsNothing
  <2>. QED  BY <1>1, <2>1 DEF QueueInv, AttemptsDiffer
<1>10. MailedIsSent'
  BY <1>1 DEF QueueInv, MailedIsSent, PastMail
<1>. QED  BY <1>4, <1>5, <1>6, <1>7, <1>8, <1>9, <1>10 DEF QueueInv

-----------------------------------------------------------------------------
(* A new row, or an open one queued again: what Enqueue does to the table. *)
LEMMA NewRowEffect ==
  ASSUME QueueInv, NEW t \in Ticket, NEW j \in Absent,
         jobs' = [jobs EXCEPT ![j] = NewRow(t)]
  PROVE  /\ j \in Job /\ jobs[j].status = "absent"
         /\ jobs' \in [Job -> JobRow]
         /\ jobs'[j].status = "queued" /\ jobs'[j].attempts = 0
         /\ jobs'[j].ticket = t
         /\ \A i \in Job \ {j} : jobs'[i] = jobs[i]
<1>1. j \in Job /\ jobs[j].status = "absent"
  BY DEF Absent
<1>. DEFINE r == [ticket |-> t, status |-> "queued", attempts |-> 0,
                  lapsed |-> FALSE]
<1>2. NewRow(t) = r
  BY DEF NewRow
<1>3. r \in JobRow /\ r.status = "queued" /\ r.attempts = 0 /\ r.ticket = t
  BY DEF JobRow, Open
<1>. HIDE DEF r
<1>. QED  BY <1>1, <1>2, <1>3, QueueTypes

LEMMA SetStatusEffect ==
  ASSUME QueueInv, NEW j \in Job, jobs[j].status # "absent",
         NEW s \in Open \union Terminal,
         jobs' = [jobs EXCEPT ![j].status = s]
  PROVE  /\ jobs' \in [Job -> JobRow] /\ jobs'[j].status = s
         /\ \A i \in Job :
              /\ jobs'[i].attempts = jobs[i].attempts
              /\ jobs'[i].ticket = jobs[i].ticket
              /\ jobs'[i].status = "absent" <=> jobs[i].status = "absent"
              /\ i # j => jobs'[i] = jobs[i]
<1>1. jobs[j] \in JobRow /\ s # "absent"
  BY QueueTypes DEF Open, Terminal
<1>2. jobs' \in [Job -> JobRow]
  BY <1>1, QueueTypes DEF JobRow
<1>3. /\ jobs'[j].status = s /\ jobs'[j].attempts = jobs[j].attempts
      /\ jobs'[j].ticket = jobs[j].ticket
  BY <1>1, QueueTypes DEF JobRow
<1>4. \A i \in Job \ {j} : jobs'[i] = jobs[i]
  BY QueueTypes
<1>. QED  BY <1>1, <1>2, <1>3, <1>4

(* A requeued row: an open status becomes processing or queued.            *)
LEMMA RequeueEffect ==
  ASSUME QueueInv, NEW t \in Ticket, NEW j \in OpenJobs(t),
         jobs' = [jobs EXCEPT ![j].status =
                    IF @ = "processing" THEN @ ELSE "queued"]
  PROVE  \E s \in {"processing", "queued"} :
           /\ j \in Job /\ jobs[j].status \in Open
           /\ s = "processing" <=> jobs[j].status = "processing"
           /\ jobs' = [jobs EXCEPT ![j].status = s]
<1>. DEFINE s == IF jobs[j].status = "processing" THEN "processing" ELSE "queued"
<1>1. j \in Job /\ jobs[j].status \in Open
  BY DEF OpenJobs
<1>2. jobs' = [jobs EXCEPT ![j].status = s]
  BY <1>1, QueueTypes
<1>. QED  BY <1>1, <1>2

LEMMA EnqueueInv ==
  ASSUME QueueInv, NEW t \in Ticket, Enqueue(t)
  PROVE  QueueInv'
<1>1. /\ posting' = [posting EXCEPT ![t] = "none"]
      /\ missed' \subseteq missed \union {t}
      /\ UNCHANGED <<tickets, worker, sent, overtaken, botched, faults>>
  BY DEF Enqueue
<1>2. /\ posting' \in [Ticket -> {"none", "stored", "reopened"}]
      /\ missed' \subseteq Ticket
  BY <1>1 DEF QueueInv, SupportTypeOK
<1>3. ASSUME NEW j \in Absent, jobs' = [jobs EXCEPT ![j] = NewRow(t)]
      PROVE  QueueInv'
  <2>1. /\ j \in Job /\ jobs[j].status = "absent"
        /\ jobs' \in [Job -> JobRow]
        /\ jobs'[j].status = "queued" /\ jobs'[j].attempts = 0
        /\ jobs'[j].ticket = t
        /\ \A i \in Job \ {j} : jobs'[i] = jobs[i]
    BY <1>3, NewRowEffect
  <2>2. \A w \in Worker : worker[w].job # j
    BY <2>1 DEF QueueInv, AbsentIsNew
  <2>3. \A w \in Worker : worker[w].pc # "idle" =>
          worker[w].job \in Job /\ jobs'[worker[w].job] = jobs[worker[w].job]
    BY <2>1, <2>2, QueueTypes
  <2>4. SupportTypeOK'
    BY <1>1, <1>2, <2>1, <2>3 DEF QueueInv, SupportTypeOK
  <2>5. IdleHoldsNothing' /\ MailedIsSent' /\ AttemptsDiffer'
    BY <1>1 DEF QueueInv, IdleHoldsNothing, MailedIsSent, AttemptsDiffer
  <2>6. RowHasTicket' /\ AbsentIsNew'
    BY <1>1, <2>1 DEF QueueInv, RowHasTicket, AbsentIsNew
  <2>7. SeenWasAsked'
    BY <1>1, <2>3 DEF QueueInv, SeenWasAsked
  <2>. QED  BY <2>4, <2>5, <2>6, <2>7 DEF QueueInv
<1>4. ASSUME NEW j \in OpenJobs(t),
             jobs' = [jobs EXCEPT ![j].status =
                        IF @ = "processing" THEN @ ELSE "queued"]
      PROVE  QueueInv'
  <2>1. PICK s \in {"processing", "queued"} :
          j \in Job /\ jobs[j].status \in Open
          /\ jobs' = [jobs EXCEPT ![j].status = s]
    BY <1>4, RequeueEffect
  <2>2. jobs[j].status # "absent" /\ s \in Open \union Terminal
    BY <2>1 DEF Open
  <2>3. /\ jobs' \in [Job -> JobRow]
        /\ \A i \in Job :
             /\ jobs'[i].attempts = jobs[i].attempts
             /\ jobs'[i].ticket = jobs[i].ticket
             /\ jobs'[i].status = "absent" <=> jobs[i].status = "absent"
    BY <2>1, <2>2, SetStatusEffect
  <2>4. /\ \A u \in Ticket : /\ tickets[u].asked <= tickets'[u].asked
                             /\ tickets'[u].answered <= tickets'[u].asked
        /\ tickets' \in [Ticket -> TicketState]
    BY <1>1, QueueTypes DEF QueueInv, SupportTypeOK, TicketState
  <2>5. /\ worker' \in [Worker -> WorkerState] /\ faults' \in 0..MaxFaults
        /\ \A w \in Worker : worker'[w] \in {worker[w], Idle}
    BY <1>1, QueueTypes DEF QueueInv, SupportTypeOK
  <2>. QED  BY <1>1, <1>2, <2>3, <2>4, <2>5, RowsKeptInv
<1>. QED  BY <1>3, <1>4 DEF Enqueue

LEMMA PostInv ==
  ASSUME QueueInv, NEW t \in Ticket, Post(t)
  PROVE  QueueInv'
<1>. DEFINE r == [tickets[t] EXCEPT !.asked = tickets[t].asked + 1]
<1>1. /\ tickets[t].asked < MaxAsks /\ tickets' = [tickets EXCEPT ![t] = r]
      /\ posting' = [posting EXCEPT ![t] = "stored"]
      /\ UNCHANGED <<jobs, worker, sent, history, faults>>
  BY DEF Post
<1>2. /\ tickets[t] \in TicketState /\ tickets[t].asked \in Nat
      /\ tickets[t].answered \in Nat /\ tickets[t].answered <= tickets[t].asked
  BY QueueTypes DEF TicketState, QueueInv, SupportTypeOK
<1>3. /\ r \in TicketState /\ r.asked = tickets[t].asked + 1
      /\ r.answered = tickets[t].answered
  BY <1>1, <1>2, SupportAssumption DEF TicketState
<1>. HIDE DEF r
<1>4. /\ tickets' \in [Ticket -> TicketState] /\ tickets'[t] = r
      /\ \A u \in Ticket \ {t} : tickets'[u] = tickets[u]
  BY <1>1, <1>3, QueueTypes
<1>5. \A u \in Ticket : /\ tickets[u].asked <= tickets'[u].asked
                        /\ tickets'[u].answered <= tickets'[u].asked
  <2>1. \A u \in Ticket : tickets[u].asked \in Nat
    BY QueueTypes DEF TicketState
  <2>. QED
    BY <1>2, <1>3, <1>4, <2>1 DEF QueueInv, SupportTypeOK
<1>6. /\ posting' \in [Ticket -> {"none", "stored", "reopened"}]
      /\ missed' \subseteq Ticket /\ faults' \in 0..MaxFaults
      /\ UNCHANGED <<overtaken, botched>>
  BY <1>1 DEF QueueInv, SupportTypeOK, history
<1>7. /\ jobs' \in [Job -> JobRow] /\ worker' \in [Worker -> WorkerState]
      /\ \A w \in Worker : worker'[w] \in {worker[w], Idle}
  BY <1>1, QueueTypes
<1>. QED  BY <1>1, <1>4, <1>5, <1>6, <1>7, RowsKeptInv

(* Neither a request that reopens its ticket or fails, nor the lapse of a  *)
(* lock, touches a worker, an attempt or a mail.                           *)
LEMMA ReopenInv ==
  ASSUME QueueInv, NEW t \in Ticket, Reopen(t) \/ EnqueueFails(t)
  PROVE  QueueInv'
<1>1. UNCHANGED <<jobs, worker, sent, overtaken, botched>>
  BY DEF Reopen, EnqueueFails, history
<1>2. /\ tickets' \in [Ticket -> TicketState]
      /\ \A u \in Ticket : /\ tickets'[u].asked = tickets[u].asked
                           /\ tickets'[u].answered = tickets[u].answered
  BY QueueTypes DEF Reopen, EnqueueFails, TicketState
<1>3. \A u \in Ticket : /\ tickets[u].asked <= tickets'[u].asked
                        /\ tickets'[u].answered <= tickets'[u].asked
  BY <1>2, QueueTypes DEF QueueInv, SupportTypeOK, TicketState
<1>4. /\ posting' \in [Ticket -> {"none", "stored", "reopened"}]
      /\ missed' \subseteq Ticket
  BY DEF Reopen, EnqueueFails, history, QueueInv, SupportTypeOK
<1>5. faults' \in 0..MaxFaults
  BY SupportAssumption DEF Reopen, EnqueueFails, QueueInv, SupportTypeOK
<1>6. /\ jobs' \in [Job -> JobRow] /\ worker' \in [Worker -> WorkerState]
      /\ \A w \in Worker : worker'[w] \in {worker[w], Idle}
  BY <1>1, QueueTypes
<1>. QED  BY <1>1, <1>2, <1>3, <1>4, <1>5, <1>6, RowsKeptInv

LEMMA LapseInv ==
  ASSUME QueueInv, NEW j \in Job, LapseAbandoned(j) \/ LapseHeld(j)
  PROVE  QueueInv'
<1>1. /\ jobs' = [jobs EXCEPT ![j].lapsed = TRUE]
      /\ UNCHANGED <<tickets, posting, worker, sent, overtaken, botched, missed>>
  BY DEF LapseAbandoned, LapseHeld, history
<1>2. /\ jobs' \in [Job -> JobRow]
      /\ \A i \in Job : /\ jobs'[i].attempts = jobs[i].attempts
                        /\ jobs'[i].ticket = jobs[i].ticket
                        /\ jobs'[i].status = jobs[i].status
  BY <1>1, QueueTypes DEF JobRow
<1>3. faults' \in 0..MaxFaults
  BY SupportAssumption DEF LapseAbandoned, LapseHeld, QueueInv, SupportTypeOK
<1>4. \A u \in Ticket : /\ tickets[u].asked <= tickets'[u].asked
                        /\ tickets'[u].answered <= tickets'[u].asked
  BY <1>1, QueueTypes DEF QueueInv, SupportTypeOK, TicketState
<1>5. /\ posting' \in [Ticket -> {"none", "stored", "reopened"}]
      /\ missed' \subseteq Ticket /\ tickets' \in [Ticket -> TicketState]
      /\ worker' \in [Worker -> WorkerState]
      /\ \A w \in Worker : worker'[w] \in {worker[w], Idle}
  BY <1>1, QueueTypes DEF QueueInv, SupportTypeOK
<1>. QED  BY <1>1, <1>2, <1>3, <1>4, <1>5, RowsKeptInv

-----------------------------------------------------------------------------
(* The steps of a worker from its claim to its verdict, by what they mean  *)
(* for the counts: r is the state the worker goes on in.                   *)
GoesOn(w, r) ==
  /\ worker[w].pc # "idle"
  /\ r \in WorkerState /\ r.pc # "idle"
  /\ r.job = worker[w].job /\ r.attempts = worker[w].attempts
  /\ r.seen <= tickets[jobs[r.job].ticket].asked
  /\ worker' = [worker EXCEPT ![w] = r]
  /\ UNCHANGED <<jobs, posting, overtaken, missed>>

StaysUnmailed(w, r) ==
  /\ worker[w].pc \in {"claimed", "drafted"} /\ r.pc \in {"drafted", "failing"}
  /\ UNCHANGED <<sent, botched>>
MailsNow(w, r) ==
  /\ worker[w].pc = "drafted" /\ r.pc = "mailed"
  /\ sent' = [sent EXCEPT ![r.job] = sent[r.job] + 1]
  /\ UNCHANGED botched
StaysMailed(w, r) ==
  /\ worker[w].pc \in PastMail /\ r.pc \in PastMail
  /\ UNCHANGED <<sent, botched>>
FailsMailed(w, r) ==
  /\ worker[w].pc \in PastMail /\ r.pc = "failing"
  /\ botched' = [botched EXCEPT ![r.job] = botched[r.job] + 1]
  /\ UNCHANGED sent

OnItsWay(w) ==
  \/ Draft(w) \/ DraftFails(w) \/ Mail(w) \/ MailFails(w)
  \/ Record(w) \/ SaveMessage(w) \/ SetWaiting(w) \/ StatementFails(w)

LEMMA NewPc ==
  ASSUME QueueInv, NEW w \in Worker, worker[w].pc # "idle",
         NEW x \in WorkerPc \ {"idle"},
         worker' = [worker EXCEPT ![w].pc = x],
         UNCHANGED <<jobs, posting, overtaken, missed>>
  PROVE  \E r : r.pc = x /\ GoesOn(w, r)
<1>. DEFINE r == [worker[w] EXCEPT !.pc = x]
<1>1. worker[w] \in WorkerState
  BY QueueTypes
<1>2. /\ r \in WorkerState /\ r.pc = x /\ r.job = worker[w].job
      /\ r.attempts = worker[w].attempts /\ r.seen = worker[w].seen
  BY <1>1 DEF WorkerState
<1>3. worker' = [worker EXCEPT ![w] = r]
  BY QueueTypes
<1>4. worker[w].seen <= tickets[jobs[worker[w].job].ticket].asked
  BY DEF QueueInv, SeenWasAsked
<1>. HIDE DEF r
<1>. QED  BY <1>2, <1>3, <1>4 DEF GoesOn

LEMMA DraftEffect ==
  ASSUME QueueInv, NEW w \in Worker, Draft(w)
  PROVE  \E r : GoesOn(w, r) /\ StaysUnmailed(w, r)
<1>. DEFINE t == jobs[worker[w].job].ticket
            r == [worker[w] EXCEPT !.pc = "drafted", !.seen = tickets[t].asked]
<1>1. /\ worker[w].pc = "claimed"
      /\ worker' = [worker EXCEPT ![w].pc = "drafted",
                                  ![w].seen = tickets[t].asked]
      /\ UNCHANGED <<jobs, tickets, posting, sent, history, faults>>
  BY DEF Draft
<1>2. worker[w] \in WorkerState /\ t \in Ticket /\ tickets[t].asked \in 0..MaxAsks
  BY <1>1, QueueTypes DEF TicketState
<1>3. /\ r \in WorkerState /\ r.pc = "drafted" /\ r.job = worker[w].job
      /\ r.attempts = worker[w].attempts /\ r.seen = tickets[t].asked
  BY <1>2 DEF WorkerState, WorkerPc, PastDraft
<1>4. worker' = [worker EXCEPT ![w] = r]
  BY <1>1, QueueTypes
<1>5. r.seen <= tickets[jobs[r.job].ticket].asked
  BY <1>2, <1>3
<1>. HIDE DEF r, t
<1>. QED  BY <1>1, <1>3, <1>4, <1>5 DEF GoesOn, StaysUnmailed, history

LEMMA OnItsWayEffect ==
  ASSUME QueueInv, NEW w \in Worker, OnItsWay(w)
  PROVE  \E r : /\ GoesOn(w, r)
                /\ \/ StaysUnmailed(w, r) \/ MailsNow(w, r)
                   \/ StaysMailed(w, r) \/ FailsMailed(w, r)
<1>1. CASE Draft(w)
  BY <1>1, DraftEffect
<1>2. CASE DraftFails(w) \/ MailFails(w)
  <2>1. PICK r : r.pc = "failing" /\ GoesOn(w, r)
    BY <1>2, NewPc DEF DraftFails, MailFails, Goto, history, WorkerPc
  <2>2. StaysUnmailed(w, r)
    BY <1>2, <2>1 DEF DraftFails, MailFails, Goto, history, StaysUnmailed
  <2>. QED  BY <2>1, <2>2
<1>3. CASE Mail(w)
  <2>1. PICK r : r.pc = "mailed" /\ GoesOn(w, r)
    BY <1>3, NewPc DEF Mail, Goto, history, WorkerPc, PastDraft
  <2>2. r.job = worker[w].job
    BY <2>1 DEF GoesOn
  <2>3. MailsNow(w, r)
    BY <1>3, <2>1, <2>2 DEF Mail, Goto, history, MailsNow
  <2>. QED  BY <2>1, <2>3
<1>4. CASE Record(w) \/ SaveMessage(w) \/ SetWaiting(w)
  <2>1. PICK x \in {"recorded", "saved", "waiting"} :
          /\ worker' = [worker EXCEPT ![w].pc = x]
          /\ worker[w].pc \in PastMail
          /\ UNCHANGED <<jobs, posting, sent, overtaken, botched, missed>>
    BY <1>4 DEF Record, SaveMessage, SetWaiting, Goto, history, PastMail
  <2>2. PICK r : r.pc = x /\ GoesOn(w, r)
    BY <2>1, NewPc DEF PastMail, WorkerPc, PastDraft
  <2>3. StaysMailed(w, r)
    BY <2>1, <2>2 DEF StaysMailed, PastMail
  <2>. QED  BY <2>2, <2>3
<1>5. CASE StatementFails(w)
  <2>1. /\ worker[w].pc \in PastMail
        /\ worker' = [worker EXCEPT ![w].pc = "failing"]
        /\ botched' = [botched EXCEPT ![worker[w].job] = botched[worker[w].job] + 1]
        /\ UNCHANGED <<jobs, posting, sent, overtaken, missed>>
    BY <1>5 DEF StatementFails
  <2>2. PICK r : r.pc = "failing" /\ GoesOn(w, r)
    BY <2>1, NewPc DEF PastMail, WorkerPc
  <2>3. r.job = worker[w].job
    BY <2>2 DEF GoesOn
  <2>4. FailsMailed(w, r)
    BY <2>1, <2>2, <2>3 DEF FailsMailed
  <2>. QED  BY <2>2, <2>4
<1>. QED  BY <1>1, <1>2, <1>3, <1>4, <1>5 DEF OnItsWay

LEMMA OnItsWayTickets ==
  ASSUME QueueInv, NEW w \in Worker, OnItsWay(w)
  PROVE  /\ tickets' \in [Ticket -> TicketState]
         /\ \A t \in Ticket : /\ tickets'[t].asked = tickets[t].asked
                              /\ tickets'[t].answered <= tickets'[t].asked
<1>1. \A t \in Ticket : tickets[t].answered <= tickets[t].asked
  BY DEF QueueInv, SupportTypeOK
<1>2. CASE SaveMessage(w)
  <2>. DEFINE t == jobs[worker[w].job].ticket
  <2>1. /\ worker[w].pc # "idle"
        /\ tickets' = [tickets EXCEPT ![t].answered =
                         IF @ < worker[w].seen THEN worker[w].seen ELSE @]
    BY <1>2 DEF SaveMessage, Goto
  <2>2. /\ t \in Ticket /\ tickets[t] \in TicketState
        /\ worker[w].seen \in 0..MaxAsks /\ worker[w].seen <= tickets[t].asked
    BY <2>1, QueueTypes DEF WorkerState, QueueInv, SeenWasAsked
  <2>. HIDE DEF t
  <2>. QED  BY <1>1, <2>1, <2>2, QueueTypes DEF TicketState
<1>3. CASE SetWaiting(w)
  <2>. DEFINE t == jobs[worker[w].job].ticket
  <2>1. tickets' = [tickets EXCEPT ![t].status = "waiting_user"]
    BY <1>3 DEF SetWaiting, Goto
  <2>. HIDE DEF t
  <2>. QED  BY <1>1, <2>1, QueueTypes DEF TicketState
<1>4. CASE UNCHANGED tickets
  BY <1>1, <1>4, QueueTypes
<1>. QED
  BY <1>2, <1>3, <1>4
  DEF OnItsWay, Draft, DraftFails, Mail, MailFails, Record, StatementFails

LEMMA OnItsWayInv ==
  ASSUME QueueInv, NEW w \in Worker, OnItsWay(w)
  PROVE  QueueInv'
<1>1. PICK r : /\ GoesOn(w, r)
               /\ \/ StaysUnmailed(w, r) \/ MailsNow(w, r)
                  \/ StaysMailed(w, r) \/ FailsMailed(w, r)
  BY OnItsWayEffect
<1>2. r.job \in Job
  BY <1>1, QueueTypes DEF GoesOn
<1>3. /\ sent' \in [Job -> Nat] /\ botched' \in [Job -> Nat]
      /\ \A j \in Job : sent[j] <= sent'[j]
      /\ \A j \in Job : sent'[j] = sent[j] \/ j = r.job
  BY <1>1, <1>2, QueueTypes DEF StaysUnmailed, MailsNow, StaysMailed, FailsMailed
<1>4. r.pc \in PastMail => sent'[r.job] > 0
  <2>1. CASE MailsNow(w, r)
    BY <1>2, <2>1, QueueTypes DEF MailsNow
  <2>2. CASE StaysMailed(w, r)
    BY <1>1, <2>2 DEF StaysMailed, GoesOn, QueueInv, MailedIsSent
  <2>3. CASE StaysUnmailed(w, r) \/ FailsMailed(w, r)
    BY <2>3 DEF StaysUnmailed, FailsMailed, PastMail
  <2>. QED  BY <1>1, <2>1, <2>2, <2>3
<1>5. faults' \in 0..MaxFaults
  BY SupportAssumption
  DEF QueueInv, SupportTypeOK, OnItsWay, Draft, DraftFails, Mail, MailFails,
      Record, SaveMessage, SetWaiting, StatementFails
<1>. QED
  BY <1>1, <1>2, <1>3, <1>4, <1>5, OnItsWayTickets, WorkerGoesOnInv DEF GoesOn

-----------------------------------------------------------------------------
(* The steps by which a worker lets go of its job: j is the job, s the     *)
(* status the row has afterwards.                                          *)
LetsGo(w, j, s) ==
  /\ worker[w].pc # "idle" /\ j = worker[w].job /\ j \in Job
  /\ jobs[j].status # "absent"
  /\ worker' = [worker EXCEPT ![w] = Idle]
  /\ s \in Open \union Terminal /\ jobs' = [jobs EXCEPT ![j].status = s]
  /\ UNCHANGED <<tickets, posting, sent, overtaken, botched, missed>>

GivesBack(w, j, s) ==
  /\ worker[w].pc = "failing" /\ s = "retry_wait"
  /\ worker[w].attempts < MaxAttempts

Ends(w) == Complete(w) \/ Fail(w) \/ MarkFails(w) \/ Crash(w)

LEMMA KeepsStatus ==
  ASSUME QueueInv, NEW j \in Job, UNCHANGED jobs
  PROVE  jobs' = [jobs EXCEPT ![j].status = jobs[j].status]
<1>1. jobs[j] \in JobRow
  BY QueueTypes
<1>2. [jobs[j] EXCEPT !.status = jobs[j].status] = jobs[j]
  BY <1>1 DEF JobRow
<1>3. [jobs EXCEPT ![j] = jobs[j]] = jobs
  BY QueueTypes
<1>. QED  BY <1>2, <1>3

LEMMA EndsEffect ==
  ASSUME QueueInv, NEW w \in Worker, Ends(w)
  PROVE  \E j, s : /\ LetsGo(w, j, s)
                   /\ \/ s = jobs[j].status
                      \/ GivesBack(w, j, s)
                      \/ s = "dead" /\ MaxAttempts <= jobs[j].attempts
                      \/ s = "completed" /\ sent[j] > 0
<1>. DEFINE j == worker[w].job
<1>1. /\ worker[w].pc # "idle" /\ worker' = [worker EXCEPT ![w] = Idle]
      /\ UNCHANGED <<tickets, posting, sent, overtaken, botched, missed>>
  BY DEF Ends, Complete, Fail, MarkFails, Crash, history
<1>2. /\ j \in Job /\ jobs[j].status # "absent" /\ jobs[j] \in JobRow
      /\ jobs[j].attempts \in Nat
      /\ worker[w].attempts \in Nat /\ worker[w].attempts <= jobs[j].attempts
  BY <1>1, QueueTypes DEF WorkerState, JobRow
<1>3. jobs[j].status \in Open \union Terminal
  BY <1>2 DEF JobRow
<1>. HIDE DEF j
<1>4. CASE UNCHANGED jobs
  <2>1. jobs' = [jobs EXCEPT ![j].status = jobs[j].status]
    BY <1>2, <1>4, KeepsStatus
  <2>. QED  BY <1>1, <1>2, <1>3, <2>1 DEF LetsGo, j
<1>5. CASE Complete(w)
  <2>1. /\ worker[w].pc = "waiting"
        /\ jobs' = [jobs EXCEPT ![j].status = "completed"]
    BY <1>5 DEF Complete, j
  <2>2. sent[j] > 0
    BY <2>1 DEF QueueInv, MailedIsSent, PastMail, j
  <2>. QED  BY <1>1, <1>2, <2>1, <2>2 DEF LetsGo, Terminal, j
<1>6. CASE Fail(w) /\ ~UNCHANGED jobs
  <2>1. /\ worker[w].pc = "failing"
        /\ \/ /\ Exhausted(worker[w].attempts)
              /\ jobs' = [jobs EXCEPT ![j].status = "dead"]
           \/ /\ ~Exhausted(worker[w].attempts)
              /\ jobs' = [jobs EXCEPT ![j].status = "retry_wait"]
    BY <1>6 DEF Fail, j
  <2>2. CASE /\ Exhausted(worker[w].attempts)
             /\ jobs' = [jobs EXCEPT ![j].status = "dead"]
    <3>1. MaxAttempts <= jobs[j].attempts
      BY <1>2, <2>2, SupportAssumption DEF Exhausted
    <3>. QED  BY <1>1, <1>2, <2>2, <3>1 DEF LetsGo, Terminal, j
  <2>3. CASE /\ ~Exhausted(worker[w].attempts)
             /\ jobs' = [jobs EXCEPT ![j].status = "retry_wait"]
    <3>1. worker[w].attempts < MaxAttempts
      BY <1>2, <2>3, SupportAssumption DEF Exhausted
    <3>. QED  BY <1>1, <1>2, <2>1, <2>3, <3>1 DEF LetsGo, GivesBack, Open, j
  <2>. QED  BY <2>1, <2>2, <2>3
<1>. QED  BY <1>4, <1>5, <1>6 DEF Ends, MarkFails, Crash

LEMMA EndsInv ==
  ASSUME QueueInv, NEW w \in Worker, Ends(w)
  PROVE  QueueInv'
<1>1. PICK j, s : LetsGo(w, j, s)
  BY EndsEffect
<1>2. /\ jobs' \in [Job -> JobRow]
      /\ \A i \in Job : /\ jobs'[i].attempts = jobs[i].attempts
                        /\ jobs'[i].ticket = jobs[i].ticket
                        /\ jobs'[i].status = "absent" <=> jobs[i].status = "absent"
  BY <1>1, SetStatusEffect DEF LetsGo
<1>3. /\ worker' \in [Worker -> WorkerState]
      /\ \A v \in Worker : worker'[v] \in {worker[v], Idle}
  BY <1>1, QueueTypes, IdleTyped DEF LetsGo
<1>4. \A u \in Ticket : /\ tickets[u].asked <= tickets'[u].asked
                        /\ tickets'[u].answered <= tickets'[u].asked
  BY <1>1, QueueTypes DEF LetsGo, QueueInv, SupportTypeOK, TicketState
<1>5. faults' \in 0..MaxFaults
  BY SupportAssumption
  DEF Ends, Complete, Fail, MarkFails, Crash, QueueInv, SupportTypeOK
<1>6. /\ posting' \in [Ticket -> {"none", "stored", "reopened"}]
      /\ missed' \subseteq Ticket /\ tickets' \in [Ticket -> TicketState]
      /\ UNCHANGED <<sent, overtaken, botched>>
  BY <1>1, QueueTypes DEF LetsGo, QueueInv, SupportTypeOK
<1>. QED  BY <1>2, <1>3, <1>4, <1>5, <1>6, RowsKeptInv

LEMMA QueueNextInv ==
  QueueInv /\ [SupportNext]_supportVars => QueueInv'
<1>. SUFFICES ASSUME QueueInv, [SupportNext]_supportVars
              PROVE  QueueInv'
  OBVIOUS
<1>1. ASSUME NEW t \in Ticket,
             Post(t) \/ Reopen(t) \/ Enqueue(t) \/ EnqueueFails(t)
      PROVE  QueueInv'
  BY <1>1, PostInv, ReopenInv, EnqueueInv
<1>2. ASSUME NEW w \in Worker, WorkerStep(w) \/ Crash(w)
      PROVE  QueueInv'
  BY <1>2, ClaimInv, OnItsWayInv, EndsInv DEF WorkerStep, OnItsWay, Ends
<1>3. ASSUME NEW j \in Job, LapseAbandoned(j) \/ LapseHeld(j)
      PROVE  QueueInv'
  BY <1>3, LapseInv
<1>4. CASE UNCHANGED supportVars
  BY <1>4
  DEF supportVars, QueueInv, SupportTypeOK, IdleHoldsNothing, RowHasTicket,
      AbsentIsNew, SeenWasAsked, AttemptsDiffer, MailedIsSent
<1>. QED  BY <1>1, <1>2, <1>3, <1>4 DEF SupportNext

-----------------------------------------------------------------------------
(* The counts of a job *)

Unmailed(j) ==  \* holders that may still mail, or failed before they did
  {w \in Holding(j) : worker[w].pc \in {"claimed", "drafted", "failing"}}
Unsent(j) == {w \in Holding(j) : worker[w].pc \in {"claimed", "drafted"}}
Spare(j) ==     \* attempts whose failure gives the job back
  {n \in 1..(MaxAttempts - 1) :
     n > jobs[j].attempts \/ \E w \in Holding(j) : worker[w].attempts = n}
Waiting(j)   == IF jobs[j].status \in {"queued", "retry_wait"} THEN 1 ELSE 0
Unclaimed(j) == IF jobs[j].status = "processing" THEN 0 ELSE 1

HoldersCounted(j) ==
  Cardinality(Holding(j)) + Unclaimed(j) <= 1 + overtaken[j]
MailsCounted(j) ==
  sent[j] + Cardinality(Unmailed(j)) + Waiting(j)
    <= 1 + overtaken[j] + botched[j]
MailsTried(j) == sent[j] + Cardinality(Unsent(j)) <= jobs[j].attempts
TriesCounted(j) ==
  jobs[j].attempts + Cardinality(Spare(j)) + Waiting(j)
    <= MaxAttempts + overtaken[j]

JobCounts(j) ==
  HoldersCounted(j) /\ MailsCounted(j) /\ MailsTried(j) /\ TriesCounted(j)
CountInv == \A j \in Job : JobCounts(j)

LEMMA CountTypes ==
  ASSUME QueueInv, NEW j \in Job
  PROVE  /\ IsFiniteSet(Holding(j)) /\ Cardinality(Holding(j)) \in Nat
         /\ IsFiniteSet(Unmailed(j)) /\ Cardinality(Unmailed(j)) \in Nat
         /\ IsFiniteSet(Unsent(j)) /\ Cardinality(Unsent(j)) \in Nat
         /\ IsFiniteSet(Spare(j)) /\ Cardinality(Spare(j)) \in Nat
         /\ Cardinality(Spare(j)) <= MaxAttempts - 1
         /\ Waiting(j) \in {0, 1} /\ Unclaimed(j) \in {0, 1}
         /\ jobs[j].attempts \in Nat /\ sent[j] \in Nat
         /\ overtaken[j] \in Nat /\ botched[j] \in Nat
         /\ MaxAttempts \in Nat
<1>1. /\ Holding(j) \subseteq Worker /\ Unmailed(j) \subseteq Worker
      /\ Unsent(j) \subseteq Worker /\ IsFiniteSet(Worker)
  BY SupportAssumption DEF Holding, Unmailed, Unsent
<1>2. /\ IsFiniteSet(Holding(j)) /\ IsFiniteSet(Unmailed(j))
      /\ IsFiniteSet(Unsent(j))
  BY <1>1, FS_Subset
<1>3. /\ Spare(j) \subseteq 1..(MaxAttempts - 1)
      /\ IsFiniteSet(1..(MaxAttempts - 1))
      /\ Cardinality(1..(MaxAttempts - 1)) = MaxAttempts - 1
  <2>1. MaxAttempts - 1 \in Nat
    BY SupportAssumption
  <2>. QED  BY <2>1, FS_Interval DEF Spare
<1>4. IsFiniteSet(Spare(j)) /\ Cardinality(Spare(j)) <= MaxAttempts - 1
  BY <1>3, FS_Subset
<1>5. /\ Cardinality(Holding(j)) \in Nat /\ Cardinality(Unmailed(j)) \in Nat
      /\ Cardinality(Unsent(j)) \in Nat /\ Cardinality(Spare(j)) \in Nat
  BY <1>2, <1>4, FS_CardinalityType
<1>. QED
  BY <1>2, <1>4, <1>5, QueueTypes, SupportAssumption
  DEF Waiting, Unclaimed, JobRow

(* A job whose holders leave and which is no more given back than before.  *)
LEMMA CountsShrink ==
  ASSUME QueueInv, QueueInv', NEW j \in Job, JobCounts(j),
         Holding(j)' \subseteq Holding(j), Unmailed(j)' \subseteq Unmailed(j),
         Unsent(j)' \subseteq Unsent(j), Spare(j)' \subseteq Spare(j),
         Waiting(j)' <= Waiting(j), Unclaimed(j)' <= Unclaimed(j),
         sent'[j] = sent[j], overtaken'[j] = overtaken[j],
         botched'[j] = botched[j], jobs'[j].attempts = jobs[j].attempts
  PROVE  JobCounts(j)'
<1>1. /\ Cardinality(Holding(j)') <= Cardinality(Holding(j))
      /\ Cardinality(Unmailed(j)') <= Cardinality(Unmailed(j))
      /\ Cardinality(Unsent(j)') <= Cardinality(Unsent(j))
      /\ Cardinality(Spare(j)') <= Cardinality(Spare(j))
  BY CountTypes, FS_Subset
<1>2. /\ Cardinality(Holding(j)') \in Nat /\ Cardinality(Unmailed(j)') \in Nat
      /\ Cardinality(Unsent(j)') \in Nat /\ Cardinality(Spare(j)') \in Nat
      /\ Waiting(j)' \in {0, 1} /\ Unclaimed(j)' \in {0, 1}
  BY CountTypes, FS_CardinalityType, FS_Subset DEF Waiting, Unclaimed
<1>. QED
  BY <1>1, <1>2, CountTypes
  DEF JobCounts, HoldersCounted, MailsCounted, MailsTried, TriesCounted

LEMMA CountInitInv == SupportInit => CountInv
<1>. SUFFICES ASSUME SupportInit, NEW j \in Job  PROVE JobCounts(j)
  BY DEF CountInv
<1>1. QueueInv
  BY QueueInitInv
<1>2. /\ jobs[j] = NoRow /\ sent[j] = 0 /\ overtaken[j] = 0 /\ botched[j] = 0
  BY DEF SupportInit
<1>3. jobs[j].status = "absent" /\ jobs[j].attempts = 0
  BY <1>2 DEF NoRow
<1>4. \A w \in Worker : worker[w].job # j
  BY <1>1, <1>3 DEF QueueInv, AbsentIsNew
<1>5. Holding(j) = {} /\ Unmailed(j) = {} /\ Unsent(j) = {}
  BY <1>4 DEF Holding, Unmailed, Unsent
<1>6. Waiting(j) = 0 /\ Unclaimed(j) = 1
  BY <1>3 DEF Waiting, Unclaimed
<1>. QED
  BY <1>1, <1>2, <1>3, <1>5, <1>6, CountTypes, FS_EmptySet
  DEF JobCounts, HoldersCounted, MailsCounted, MailsTried, TriesCounted

(* Steps that move no worker and leave the status and the attempts.        *)
LEMMA CountsStand ==
  ASSUME QueueInv, QueueInv', CountInv,
         \A j \in Job : /\ jobs'[j].attempts = jobs[j].attempts
                        /\ jobs'[j].status = jobs[j].status,
         UNCHANGED <<worker, sent, overtaken, botched>>
  PROVE  CountInv'
<1>. SUFFICES ASSUME NEW j \in Job  PROVE JobCounts(j)'
  BY DEF CountInv
<1>1. /\ Holding(j)' = Holding(j) /\ Unmailed(j)' = Unmailed(j)
      /\ Unsent(j)' = Unsent(j) /\ Spare(j)' = Spare(j)
      /\ Waiting(j)' = Waiting(j) /\ Unclaimed(j)' = Unclaimed(j)
  BY DEF Holding, Unmailed, Unsent, Spare, Waiting, Unclaimed
<1>2. JobCounts(j)
  BY DEF CountInv
<1>. QED  BY <1>1, <1>2, CountTypes, CountsShrink

LEMMA EnqueueCounts ==
  ASSUME QueueInv, QueueInv', CountInv, NEW t \in Ticket, Enqueue(t)
  PROVE  CountInv'
<1>1. UNCHANGED <<worker, sent, overtaken, botched>>
  BY DEF Enqueue
<1>2. ASSUME NEW j \in Absent, jobs' = [jobs EXCEPT ![j] = NewRow(t)],
             NEW i \in Job
      PROVE  JobCounts(i)'
  <2>1. /\ j \in Job /\ jobs[j].status = "absent"
        /\ jobs'[j].status = "queued" /\ jobs'[j].attempts = 0
        /\ \A k \in Job \ {j} : jobs'[k] = jobs[k]
    BY <1>2, NewRowEffect
  <2>2. CASE i = j
    <3>1. sent[j] = 0 /\ \A w \in Worker : worker'[w].job # j
      BY <1>1, <2>1 DEF QueueInv, AbsentIsNew
    <3>2. /\ Holding(j)' = {} /\ Unmailed(j)' = {} /\ Unsent(j)' = {}
          /\ Waiting(j)' = 1 /\ Unclaimed(j)' = 1
      BY <2>1, <3>1 DEF Holding, Unmailed, Unsent, Waiting, Unclaimed
    <3>3. /\ Cardinality(Spare(j)') \in Nat
          /\ Cardinality(Spare(j)') <= MaxAttempts - 1
      <4>1. /\ Spare(j)' \subseteq 1..(MaxAttempts - 1)
            /\ MaxAttempts - 1 \in Nat
        BY SupportAssumption DEF Spare
      <4>2. /\ IsFiniteSet(1..(MaxAttempts - 1))
            /\ Cardinality(1..(MaxAttempts - 1)) = MaxAttempts - 1
        BY <4>1, FS_Interval
      <4>. QED  BY <4>1, <4>2, FS_Subset, FS_CardinalityType
    <3>4. Cardinality({}) = 0
      BY FS_EmptySet
    <3>. QED
      BY <1>1, <2>1, <2>2, <3>1, <3>2, <3>3, <3>4, CountTypes
      DEF JobCounts, HoldersCounted, MailsCounted, MailsTried, TriesCounted
  <2>3. CASE i # j
    <3>1. jobs'[i] = jobs[i]
      BY <2>1, <2>3
    <3>2. /\ Holding(i)' = Holding(i) /\ Unmailed(i)' = Unmailed(i)
          /\ Unsent(i)' = Unsent(i) /\ Spare(i)' = Spare(i)
          /\ Waiting(i)' = Waiting(i) /\ Unclaimed(i)' = Unclaimed(i)
      BY <1>1, <3>1 DEF Holding, Unmailed, Unsent, Spare, Waiting, Unclaimed
    <3>. QED
      BY <1>1, <3>1, <3>2, CountTypes, CountsShrink DEF CountInv
  <2>. QED  BY <2>2, <2>3
<1>3. ASSUME NEW j \in OpenJobs(t),
             jobs' = [jobs EXCEPT ![j].status =
                        IF @ = "processing" THEN @ ELSE "queued"],
             NEW i \in Job
      PROVE  JobCounts(i)'
  <2>1. PICK s \in {"processing", "queued"} :
          /\ j \in Job /\ jobs[j].status \in Open
          /\ s = "processing" <=> jobs[j].status = "processing"
          /\ jobs' = [jobs EXCEPT ![j].status = s]
    BY <1>3, RequeueEffect
  <2>2. jobs[j].status # "absent" /\ s \in Open \union Terminal
    BY <2>1 DEF Open
  <2>3. /\ jobs'[j].status = s /\ jobs'[i].attempts = jobs[i].attempts
        /\ i # j => jobs'[i] = jobs[i]
    BY <2>1, <2>2, SetStatusEffect
  <2>4. Waiting(i)' = Waiting(i) /\ Unclaimed(i)' = Unclaimed(i)
    BY <2>1, <2>3 DEF Waiting, Unclaimed, Open
  <2>5. /\ Holding(i)' = Holding(i) /\ Unmailed(i)' = Unmailed(i)
        /\ Unsent(i)' = Unsent(i) /\ Spare(i)' = Spare(i)
    BY <1>1, <2>3 DEF Holding, Unmailed, Unsent, Spare
  <2>. QED
    BY <1>1, <2>3, <2>4, <2>5, CountTypes, CountsShrink DEF CountInv
<1>. QED  BY <1>2, <1>3 DEF Enqueue, CountInv

(* A claim gives the job one more holder, who may mail; from a waiting row *)
(* it uses the give-back up, from a lapsed lock it counts as overtaking.   *)
LEMMA ClaimCounts ==
  ASSUME QueueInv, QueueInv', CountInv, NEW w \in Worker, Claim(w)
  PROVE  CountInv'
<1>1. PICK j \in Job :
    /\ worker[w].pc = "idle"
    /\ jobs[j].status \in Open /\ jobs'[j].status = "processing"
    /\ jobs'[j].attempts = jobs[j].attempts + 1
    /\ \A i \in Job \ {j} : jobs'[i] = jobs[i]
    /\ worker'[w].pc = "claimed" /\ worker'[w].job = j
    /\ worker'[w].attempts = jobs[j].attempts + 1
    /\ \A v \in Worker \ {w} : worker'[v] = worker[v]
    /\ overtaken' = IF jobs[j].status = "processing"
                    THEN [overtaken EXCEPT ![j] = overtaken[j] + 1]
                    ELSE overtaken
    /\ UNCHANGED <<sent, botched>>
  BY ClaimEffect
<1>2. \A i \in Job : w \notin Holding(i)
  BY <1>1, SupportAssumption DEF Holding, QueueInv, IdleHoldsNothing
<1>3. /\ Holding(j)' = Holding(j) \union {w}
      /\ Unmailed(j)' = Unmailed(j) \union {w}
      /\ Unsent(j)' = Unsent(j) \union {w}
      /\ w \notin Unmailed(j) /\ w \notin Unsent(j)
  BY <1>1, <1>2 DEF Holding, Unmailed, Unsent
<1>4. Spare(j)' \subseteq Spare(j)
  <2>. SUFFICES ASSUME NEW n \in Spare(j)'  PROVE n \in Spare(j)
    OBVIOUS
  <2>1. n \in 1..(MaxAttempts - 1) /\ jobs[j].attempts \in Nat
    BY CountTypes DEF Spare
  <2>2. CASE n > jobs[j].attempts + 1
    BY <2>1, <2>2 DEF Spare
  <2>3. CASE \E v \in Holding(j)' : worker'[v].attempts = n
    <3>1. PICK v \in Holding(j)' : worker'[v].attempts = n
      BY <2>3
    <3>2. CASE v = w
      BY <1>1, <2>1, <3>1, <3>2 DEF Spare
    <3>3. CASE v # w
      BY <1>1, <1>3, <2>1, <3>1, <3>3 DEF Spare, Holding
    <3>. QED  BY <3>2, <3>3
  <2>. QED  BY <1>1, <2>2, <2>3 DEF Spare
<1>5. JobCounts(j)'
  <2>1. /\ Cardinality(Holding(j)') = Cardinality(Holding(j)) + 1
        /\ Cardinality(Unmailed(j)') = Cardinality(Unmailed(j)) + 1
        /\ Cardinality(Unsent(j)') = Cardinality(Unsent(j)) + 1
        /\ Cardinality(Spare(j)') <= Cardinality(Spare(j))
        /\ Cardinality(Spare(j)') \in Nat
    BY <1>2, <1>3, <1>4, CountTypes, FS_AddElement, FS_Subset, FS_CardinalityType
  <2>2. Waiting(j)' = 0 /\ Unclaimed(j)' = 0
    BY <1>1 DEF Waiting, Unclaimed
  <2>3. \/ /\ Waiting(j) = 1 /\ Unclaimed(j) = 1
           /\ overtaken'[j] = overtaken[j]
        \/ /\ Waiting(j) = 0 /\ Unclaimed(j) = 0
           /\ overtaken'[j] = overtaken[j] + 1
    BY <1>1, QueueTypes DEF Waiting, Unclaimed, Open
  <2>4. JobCounts(j) /\ sent'[j] = sent[j] /\ botched'[j] = botched[j]
    BY <1>1 DEF CountInv
  <2>. QED
    BY <1>1, <2>1, <2>2, <2>3, <2>4, CountTypes
    DEF JobCounts, HoldersCounted, MailsCounted, MailsTried, TriesCounted
<1>6. ASSUME NEW i \in Job \ {j}  PROVE JobCounts(i)'
  <2>1. jobs'[i] = jobs[i] /\ overtaken'[i] = overtaken[i]
    BY <1>1, QueueTypes
  <2>2. Holding(i)' = Holding(i)
    BY <1>1, <1>2 DEF Holding
  <2>3. \A v \in Holding(i) : worker'[v] = worker[v]
    BY <1>1, <1>2 DEF Holding
  <2>4. /\ Unmailed(i)' = Unmailed(i) /\ Unsent(i)' = Unsent(i)
        /\ Spare(i)' = Spare(i)
        /\ Waiting(i)' = Waiting(i) /\ Unclaimed(i)' = Unclaimed(i)
    BY <2>1, <2>2, <2>3 DEF Unmailed, Unsent, Spare, Waiting, Unclaimed
  <2>. QED
    BY <1>1, <2>1, <2>2, <2>4, CountTypes, CountsShrink DEF CountInv
<1>. QED  BY <1>5, <1>6 DEF CountInv

(* On its way a worker stays a holder; whether it may still mail changes.  *)
LEMMA OnItsWayCounts ==
  ASSUME QueueInv, QueueInv', CountInv, NEW w \in Worker, OnItsWay(w)
  PROVE  CountInv'
<1>1. PICK r : /\ GoesOn(w, r)
               /\ \/ StaysUnmailed(w, r) \/ MailsNow(w, r)
                  \/ StaysMailed(w, r) \/ FailsMailed(w, r)
  BY OnItsWayEffect
<1>. DEFINE j == r.job
<1>2. /\ worker[w].pc # "idle" /\ j \in Job /\ worker[w].job = j
      /\ r.attempts = worker[w].attempts
      /\ worker'[w] = r /\ \A v \in Worker \ {w} : worker'[v] = worker[v]
      /\ UNCHANGED <<jobs, overtaken>>
  BY <1>1, QueueTypes DEF GoesOn
<1>3. \A i \in Job : /\ Holding(i)' = Holding(i) /\ Spare(i)' = Spare(i)
                     /\ Waiting(i)' = Waiting(i) /\ Unclaimed(i)' = Unclaimed(i)
  <2>1. \A v \in Worker : /\ worker'[v].job = worker[v].job
                          /\ worker'[v].attempts = worker[v].attempts
    BY <1>2
  <2>. QED  BY <1>2, <2>1 DEF Holding, Spare, Waiting, Unclaimed
<1>4. ASSUME NEW i \in Job \ {j}  PROVE JobCounts(i)'
  <2>1. /\ Unmailed(i)' = Unmailed(i) /\ Unsent(i)' = Unsent(i)
    BY <1>2, <1>3 DEF Holding, Unmailed, Unsent
  <2>2. sent'[i] = sent[i] /\ botched'[i] = botched[i]
    BY <1>1, QueueTypes DEF StaysUnmailed, MailsNow, StaysMailed, FailsMailed
  <2>. QED
    BY <1>2, <1>3, <2>1, <2>2, CountTypes, CountsShrink DEF CountInv
<1>5. /\ w \in Unmailed(j) <=> worker[w].pc \in {"claimed", "drafted", "failing"}
      /\ w \in Unsent(j) <=> worker[w].pc \in {"claimed", "drafted"}
      /\ Unmailed(j)' = IF r.pc \in {"claimed", "drafted", "failing"}
                        THEN Unmailed(j) \union {w} ELSE Unmailed(j) \ {w}
      /\ Unsent(j)' = IF r.pc \in {"claimed", "drafted"}
                      THEN Unsent(j) \union {w} ELSE Unsent(j) \ {w}
  BY <1>2, <1>3 DEF Holding, Unmailed, Unsent
<1>6. JobCounts(j)
  BY <1>2 DEF CountInv
<1>. HIDE DEF j
<1>7. CASE StaysUnmailed(w, r) \/ StaysMailed(w, r)
  <2>1. Unmailed(j)' \subseteq Unmailed(j) /\ Unsent(j)' \subseteq Unsent(j)
    BY <1>5, <1>7 DEF StaysUnmailed, StaysMailed, PastMail
  <2>2. sent'[j] = sent[j] /\ botched'[j] = botched[j]
    BY <1>7 DEF StaysUnmailed, StaysMailed
  <2>. QED
    BY <1>2, <1>3, <1>4, <1>6, <2>1, <2>2, CountTypes, CountsShrink DEF CountInv
<1>8. CASE MailsNow(w, r)
  <2>1. /\ w \in Unmailed(j) /\ Unmailed(j)' = Unmailed(j) \ {w}
        /\ w \in Unsent(j) /\ Unsent(j)' = Unsent(j) \ {w}
    BY <1>5, <1>8 DEF MailsNow
  <2>2. /\ Cardinality(Unmailed(j)') = Cardinality(Unmailed(j)) - 1
        /\ Cardinality(Unsent(j)') = Cardinality(Unsent(j)) - 1
    <3>1. IsFiniteSet(Unmailed(j)) /\ IsFiniteSet(Unsent(j))
      BY <1>2, CountTypes
    <3>2. Cardinality(Unmailed(j) \ {w}) = Cardinality(Unmailed(j)) - 1
      BY <2>1, <3>1, FS_RemoveElement
    <3>3. Cardinality(Unsent(j) \ {w}) = Cardinality(Unsent(j)) - 1
      BY <2>1, <3>1, FS_RemoveElement
    <3>. QED  BY <2>1, <3>2, <3>3
  <2>3. sent'[j] = sent[j] + 1 /\ botched'[j] = botched[j]
    BY <1>2, <1>8, QueueTypes DEF MailsNow, j
  <2>4. JobCounts(j)'
    BY <1>2, <1>3, <1>6, <2>2, <2>3, CountTypes
    DEF JobCounts, HoldersCounted, MailsCounted, MailsTried, TriesCounted
  <2>. QED  BY <1>4, <2>4 DEF CountInv
<1>9. CASE FailsMailed(w, r)
  <2>1. /\ w \notin Unmailed(j) /\ Unmailed(j)' = Unmailed(j) \union {w}
        /\ Unsent(j)' = Unsent(j)
    BY <1>5, <1>9 DEF FailsMailed, PastMail
  <2>2. Cardinality(Unmailed(j)') = Cardinality(Unmailed(j)) + 1
    BY <1>2, <2>1, CountTypes, FS_AddElement
  <2>3. sent'[j] = sent[j] /\ botched'[j] = botched[j] + 1
    BY <1>2, <1>9, QueueTypes DEF FailsMailed, j
  <2>4. JobCounts(j)'
    BY <1>2, <1>3, <1>6, <2>1, <2>2, <2>3, CountTypes
    DEF JobCounts, HoldersCounted, MailsCounted, MailsTried, TriesCounted
  <2>. QED  BY <1>4, <2>4 DEF CountInv
<1>. QED  BY <1>1, <1>7, <1>8, <1>9

(* Whoever lets go is no longer counted; the attempt whose failure gives   *)
(* the job back is spent.                                                  *)
LEMMA EndsCounts ==
  ASSUME QueueInv, QueueInv', CountInv, NEW w \in Worker, Ends(w)
  PROVE  CountInv'
<1>1. PICK j, s : /\ LetsGo(w, j, s)
                  /\ \/ s = jobs[j].status \/ GivesBack(w, j, s)
                     \/ s \in {"dead", "completed"}
  BY EndsEffect
<1>2. /\ worker[w].pc # "idle" /\ j \in Job /\ j = worker[w].job
      /\ worker'[w] = Idle /\ \A v \in Worker \ {w} : worker'[v] = worker[v]
      /\ jobs'[j].status = s
      /\ \A i \in Job : jobs'[i].attempts = jobs[i].attempts
                        /\ (i # j => jobs'[i] = jobs[i])
      /\ UNCHANGED <<sent, overtaken, botched>>
  BY <1>1, SetStatusEffect, QueueTypes DEF LetsGo
<1>3. \A i \in Job : Holding(i)' = Holding(i) \ {w}
  BY <1>2, IdleTyped, SupportAssumption DEF Holding
<1>4. \A i \in Job : \A v \in Holding(i)' : worker'[v] = worker[v]
  BY <1>2, <1>3 DEF Holding
<1>5. \A i \in Job : /\ Unmailed(i)' = Unmailed(i) \ {w}
                     /\ Unsent(i)' = Unsent(i) \ {w}
                     /\ Spare(i)' \subseteq Spare(i)
  BY <1>2, <1>3, <1>4 DEF Unmailed, Unsent, Spare
<1>6. w \in Holding(j)
  BY <1>2 DEF Holding
<1>7. ASSUME NEW i \in Job \ {j}  PROVE JobCounts(i)'
  <2>1. Waiting(i)' = Waiting(i) /\ Unclaimed(i)' = Unclaimed(i)
    BY <1>2 DEF Waiting, Unclaimed
  <2>. QED
    BY <1>2, <1>3, <1>5, <2>1, CountTypes, CountsShrink DEF CountInv
<1>8. JobCounts(j)
  BY <1>2 DEF CountInv
<1>9. HoldersCounted(j)'
  <2>1. Cardinality(Holding(j)') = Cardinality(Holding(j)) - 1
    BY <1>2, <1>3, <1>6, CountTypes, FS_RemoveElement
  <2>2. Unclaimed(j)' \in {0, 1}
    BY DEF Unclaimed
  <2>3. s = jobs[j].status => Unclaimed(j)' = Unclaimed(j)
    BY <1>2 DEF Unclaimed
  <2>. QED
    BY <1>2, <1>8, <2>1, <2>2, CountTypes DEF JobCounts, HoldersCounted
<1>10. MailsTried(j)'
  <2>1. /\ Cardinality(Unsent(j)') <= Cardinality(Unsent(j))
        /\ Cardinality(Unsent(j)') \in Nat
    BY <1>2, <1>5, CountTypes, FS_Subset, FS_CardinalityType
  <2>. QED
    BY <1>2, <1>8, <2>1, CountTypes DEF JobCounts, MailsTried
<1>11. MailsCounted(j)' /\ TriesCounted(j)'
  <2>1. /\ Cardinality(Unmailed(j)') <= Cardinality(Unmailed(j))
        /\ Cardinality(Unmailed(j)') \in Nat
        /\ Cardinality(Spare(j)') <= Cardinality(Spare(j))
        /\ Cardinality(Spare(j)') \in Nat
    BY <1>2, <1>5, CountTypes, FS_Subset, FS_CardinalityType
  <2>2. CASE s = jobs[j].status \/ s \in {"dead", "completed"}
    <3>1. Waiting(j)' <= Waiting(j) /\ Waiting(j)' \in {0, 1}
      BY <1>2, <2>2 DEF Waiting
    <3>. QED
      BY <1>2, <1>8, <2>1, <3>1, CountTypes
      DEF JobCounts, MailsCounted, TriesCounted
  <2>3. CASE GivesBack(w, j, s)
    <3>. DEFINE n == worker[w].attempts
    <3>1. /\ worker[w].pc = "failing" /\ n < MaxAttempts /\ Waiting(j)' = 1
      BY <1>2, <2>3 DEF GivesBack, Waiting
    <3>2. w \in Unmailed(j)
      BY <1>6, <3>1 DEF Unmailed
    <3>3. n \in 1..(MaxAttempts - 1) /\ n <= jobs[j].attempts
      BY <1>2, <3>1, QueueTypes, SupportAssumption
      DEF WorkerState, QueueInv, SeenWasAsked
    <3>4. n \in Spare(j)
      BY <1>6, <3>3 DEF Spare
    <3>5. n \notin Spare(j)'
      <4>1. \A v \in Holding(j)' : worker'[v].attempts # n
        BY <1>2, <1>3, <1>4 DEF Holding, QueueInv, AttemptsDiffer
      <4>2. ~(n > jobs'[j].attempts)
        BY <1>2, <3>3, CountTypes
      <4>. QED  BY <4>1, <4>2 DEF Spare
    <3>6. Cardinality(Unmailed(j)') = Cardinality(Unmailed(j)) - 1
      BY <1>2, <1>5, <3>2, CountTypes, FS_RemoveElement
    <3>7. Cardinality(Spare(j)') <= Cardinality(Spare(j)) - 1
      <4>1. Spare(j)' \subseteq Spare(j) \ {n}
        BY <1>2, <1>5, <3>5
      <4>2. /\ IsFiniteSet(Spare(j) \ {n})
            /\ Cardinality(Spare(j) \ {n}) = Cardinality(Spare(j)) - 1
        BY <1>2, <3>4, CountTypes, FS_RemoveElement
      <4>. QED  BY <4>1, <4>2, FS_Subset
    <3>. QED
      BY <1>2, <1>8, <2>1, <3>1, <3>6, <3>7, CountTypes
      DEF JobCounts, MailsCounted, TriesCounted
  <2>. QED  BY <1>1, <2>2, <2>3
<1>. QED  BY <1>7, <1>9, <1>10, <1>11 DEF CountInv, JobCounts

LEMMA CountNextInv ==
  QueueInv /\ QueueInv' /\ CountInv /\ [SupportNext]_supportVars => CountInv'
<1>. SUFFICES ASSUME QueueInv, QueueInv', CountInv, [SupportNext]_supportVars
              PROVE  CountInv'
  OBVIOUS
<1>1. ASSUME NEW t \in Ticket,
             Post(t) \/ Reopen(t) \/ Enqueue(t) \/ EnqueueFails(t)
      PROVE  CountInv'
  <2>1. CASE Enqueue(t)
    BY <2>1, EnqueueCounts
  <2>2. CASE Post(t) \/ Reopen(t) \/ EnqueueFails(t)
    BY <2>2, CountsStand DEF Post, Reopen, EnqueueFails, history
  <2>. QED  BY <1>1, <2>1, <2>2
<1>2. ASSUME NEW w \in Worker, WorkerStep(w) \/ Crash(w)
      PROVE  CountInv'
  BY <1>2, ClaimCounts, OnItsWayCounts, EndsCounts DEF WorkerStep, OnItsWay, Ends
<1>3. ASSUME NEW j \in Job, LapseAbandoned(j) \/ LapseHeld(j)
      PROVE  CountInv'
  <2>1. /\ jobs' = [jobs EXCEPT ![j].lapsed = TRUE]
        /\ UNCHANGED <<worker, sent, overtaken, botched>>
    BY <1>3 DEF LapseAbandoned, LapseHeld, history
  <2>2. \A i \in Job : /\ jobs'[i].attempts = jobs[i].attempts
                       /\ jobs'[i].status = jobs[i].status
    BY <2>1, QueueTypes DEF JobRow
  <2>. QED  BY <2>1, <2>2, CountsStand
<1>4. CASE UNCHANGED supportVars
  BY <1>4, CountsStand DEF supportVars
<1>. QED  BY <1>1, <1>2, <1>3, <1>4 DEF SupportNext

LEMMA SupportInvariant == SupportSpec => [](QueueInv /\ CountInv)
<1>1. SupportInit => QueueInv /\ CountInv
  BY QueueInitInv, CountInitInv
<1>2. QueueInv /\ CountInv /\ [SupportNext]_supportVars => (QueueInv /\ CountInv)'
  BY QueueNextInv, CountNextInv
<1>. QED  BY <1>1, <1>2, PTL DEF SupportSpec

(* A job has never more holders than one and one more per takeover of a    *)
(* lapsed lock, whatever crashes, lapses and is asked meanwhile            *)
(* (claimNextSupportAutoReplyJob, enqueueSupportAutoReplyJob).             *)
THEOREM HoldersAreExclusive == SupportSpec => []SupportSound
<1>1. QueueInv /\ CountInv => SupportSound
  <2>. SUFFICES ASSUME QueueInv, CountInv, NEW j \in Job
                PROVE  Cardinality(Holding(j)) <= 1 + overtaken[j]
    BY DEF QueueInv, SupportSound, HoldersExclusive
  <2>. QED
    BY CountTypes DEF CountInv, JobCounts, HoldersCounted
<1>. QED  BY <1>1, SupportInvariant, PTL

-----------------------------------------------------------------------------
(* Follow-ups: a ticket with something unanswered on it has a row that is  *)
(* not completed and whose holders, once past the draft, saw all of it.    *)
Answers(j, t) ==
  /\ jobs[j].ticket = t /\ jobs[j].status \notin {"absent", "completed"}
  /\ \A w \in Worker : worker[w].job = j /\ worker[w].pc \in PastDraft =>
       worker[w].seen = tickets[t].asked

Unanswered(t) == posting[t] = "none" /\ tickets[t].answered # tickets[t].asked

AnswerComes ==
  \A t \in Ticket \ missed : Unanswered(t) => \E j \in Job : Answers(j, t)

SavedIsAnswered ==
  \A w \in Worker : worker[w].pc \in {"saved", "waiting"} =>
    worker[w].seen <= tickets[jobs[worker[w].job].ticket].answered

AnswerInv == AnswerComes /\ SavedIsAnswered

(* What the step of a worker or a lapse leaves of the rows, the tickets    *)
(* and the drafts: a row is completed by one who waits with it.            *)
RowsGoOn ==
  /\ \A j \in Job : jobs[j].status # "absent" =>
       /\ jobs'[j].ticket = jobs[j].ticket /\ jobs'[j].status # "absent"
       /\ \/ jobs'[j].status # "completed" \/ jobs[j].status = "completed"
          \/ \E w \in Worker : worker[w].job = j /\ worker[w].pc = "waiting"
TicketsGoOn ==
  \A t \in Ticket : /\ tickets'[t].asked = tickets[t].asked
                    /\ tickets[t].answered <= tickets'[t].answered
DraftsGoOn ==
  \A w \in Worker : worker'[w].pc \in PastDraft =>
    /\ worker[w].pc # "idle" /\ worker'[w].job = worker[w].job
    /\ \/ worker[w].pc \in PastDraft /\ worker'[w].seen = worker[w].seen
       \/ worker'[w].seen = tickets[jobs[worker[w].job].ticket].asked

LEMMA AnswerGoesOn ==
  ASSUME QueueInv, QueueInv', AnswerInv, RowsGoOn, TicketsGoOn, DraftsGoOn,
         NEW t \in Ticket, t \notin missed, posting[t] = "none",
         Unanswered(t)'
  PROVE  \E j \in Job : Answers(j, t)'
<1>1. /\ tickets[t].asked \in Nat /\ tickets[t].answered \in Nat
      /\ tickets'[t].answered \in Nat /\ tickets'[t].answered <= tickets'[t].asked
      /\ tickets'[t].asked = tickets[t].asked
      /\ tickets[t].answered <= tickets'[t].answered
      /\ tickets'[t].answered # tickets'[t].asked
  BY QueueTypes
  DEF TicketsGoOn, Unanswered, TicketState, QueueInv, SupportTypeOK
<1>2. PICK j \in Job : Answers(j, t)
  BY <1>1 DEF AnswerInv, AnswerComes, Unanswered
<1>3. jobs[j].ticket = t /\ jobs[j].status \notin {"absent", "completed"}
  BY <1>2 DEF Answers
<1>4. ASSUME NEW w \in Worker, worker[w].job = j, worker[w].pc = "waiting"
      PROVE  FALSE
  <2>1. worker[w].seen = tickets[t].asked
    BY <1>2, <1>4 DEF Answers, PastDraft
  <2>2. worker[w].seen <= tickets[t].answered
    BY <1>3, <1>4 DEF AnswerInv, SavedIsAnswered
  <2>. QED  BY <1>1, <2>1, <2>2
<1>5. /\ jobs'[j].ticket = t
      /\ jobs'[j].status \notin {"absent", "completed"}
  BY <1>3, <1>4 DEF RowsGoOn
<1>6. ASSUME NEW w \in Worker, worker'[w].job = j, worker'[w].pc \in PastDraft
      PROVE  worker'[w].seen = tickets'[t].asked
  BY <1>1, <1>2, <1>3, <1>6 DEF DraftsGoOn, Answers
<1>. QED  BY <1>5, <1>6 DEF Answers

LEMMA AnswersGoOn ==
  ASSUME QueueInv, QueueInv', AnswerInv, RowsGoOn, TicketsGoOn, DraftsGoOn,
         missed \subseteq missed',
         \A t \in Ticket : posting'[t] = "none" => posting[t] = "none" \/ t \in missed'
  PROVE  AnswerComes'
<1>. SUFFICES ASSUME NEW t \in Ticket, t \notin missed', Unanswered(t)'
              PROVE  \E j \in Job : Answers(j, t)'
  BY DEF AnswerComes
<1>1. posting[t] = "none" /\ t \notin missed
  BY DEF Unanswered
<1>. QED  BY <1>1, AnswerGoesOn

LEMMA SavedGoesOn ==
  ASSUME QueueInv, QueueInv', AnswerInv, RowsGoOn,
         \A t \in Ticket : tickets[t].answered <= tickets'[t].answered,
         \A w \in Worker : worker'[w].pc \in {"saved", "waiting"} =>
           worker[w].pc \in {"saved", "waiting"} /\ worker'[w].job = worker[w].job
             /\ worker'[w].seen = worker[w].seen
  PROVE  SavedIsAnswered'
<1>. SUFFICES ASSUME NEW w \in Worker, worker'[w].pc \in {"saved", "waiting"}
              PROVE  worker'[w].seen <= tickets'[jobs'[worker'[w].job].ticket].answered
  BY DEF SavedIsAnswered
<1>. DEFINE t == jobs[worker[w].job].ticket
<1>1. /\ worker[w].pc \in {"saved", "waiting"} /\ worker'[w].job = worker[w].job
      /\ worker'[w].seen = worker[w].seen
  OBVIOUS
<1>2. /\ worker[w].job \in Job /\ t \in Ticket
      /\ jobs[worker[w].job].status # "absent" /\ worker[w].seen \in Nat
  BY <1>1, QueueTypes DEF WorkerState
<1>3. worker[w].seen <= tickets[t].answered
  BY <1>1 DEF AnswerInv, SavedIsAnswered
<1>4. jobs'[worker'[w].job].ticket = t
  BY <1>1, <1>2 DEF RowsGoOn
<1>5. tickets[t].answered \in Nat /\ tickets'[t].answered \in Nat
  BY <1>2, QueueTypes DEF QueueInv, SupportTypeOK
<1>. HIDE DEF t
<1>6. tickets[t].answered <= tickets'[t].answered
  BY <1>2
<1>. QED  BY <1>1, <1>2, <1>3, <1>4, <1>5, <1>6

LEMMA PostAnswers ==
  ASSUME QueueInv, QueueInv', AnswerInv, NEW t \in Ticket,
         Post(t) \/ Reopen(t) \/ EnqueueFails(t)
  PROVE  AnswerInv'
<1>. /\ posting \in [Ticket -> {"none", "stored", "reopened"}]
     /\ tickets \in [Ticket -> TicketState]
  BY QueueTypes DEF QueueInv, SupportTypeOK
<1>1. /\ UNCHANGED <<jobs, worker>> /\ missed \subseteq missed'
      /\ posting'[t] = "none" => t \in missed'
      /\ \A u \in Ticket \ {t} : posting'[u] = posting[u] /\ tickets'[u] = tickets[u]
  <2>1. CASE Post(t)
    BY <2>1 DEF Post, history
  <2>2. CASE Reopen(t)
    BY <2>2 DEF Reopen, history
  <2>3. CASE EnqueueFails(t)
    BY <2>3 DEF EnqueueFails
  <2>. QED  BY <2>1, <2>2, <2>3
<1>2. \A u \in Ticket : tickets[u].answered = tickets'[u].answered
  BY DEF Post, Reopen, EnqueueFails, TicketState
<1>3. \A u \in Ticket : tickets[u].answered <= tickets'[u].answered
  BY <1>2, QueueTypes DEF TicketState
<1>4. SavedIsAnswered'
  BY <1>1, <1>3, SavedGoesOn DEF RowsGoOn
<1>5. ASSUME NEW u \in Ticket, u \notin missed', Unanswered(u)'
      PROVE  \E j \in Job : Answers(j, u)'
  <2>1. /\ u # t /\ u \notin missed /\ Unanswered(u) /\ tickets'[u] = tickets[u]
    BY <1>1, <1>5 DEF Unanswered
  <2>2. PICK j \in Job : Answers(j, u)
    BY <2>1 DEF AnswerInv, AnswerComes
  <2>3. Answers(j, u)'
    BY <1>1, <2>1, <2>2 DEF Answers
  <2>. QED  BY <2>3
<1>. QED  BY <1>4, <1>5 DEF AnswerInv, AnswerComes

LEMMA EnqueueAnswers ==
  ASSUME QueueInv, QueueInv', AnswerInv, NEW t \in Ticket, Enqueue(t)
  PROVE  AnswerInv'
<1>1. /\ UNCHANGED <<tickets, worker>> /\ missed \subseteq missed'
      /\ \A u \in Ticket \ {t} : posting'[u] = posting[u]
  BY DEF Enqueue, QueueInv, SupportTypeOK
<1>2. PICK j \in Job :
        /\ \/ jobs[j].status = "absent"
           \/ /\ jobs[j].status \in Open /\ jobs[j].ticket = t
              /\ \/ t \in missed'
                 \/ \A w \in Worker : ~Overlooks(w, t)
        /\ jobs'[j].status \in Open /\ jobs'[j].ticket = t
        /\ \A i \in Job \ {j} : jobs'[i] = jobs[i]
  <2>1. CASE OpenJobs(t) = {}
    <3>1. PICK j \in Absent : jobs' = [jobs EXCEPT ![j] = NewRow(t)]
      BY <2>1 DEF Enqueue
    <3>. QED  BY <3>1, NewRowEffect DEF Open
  <2>2. CASE OpenJobs(t) # {}
    <3>1. PICK j \in OpenJobs(t) :
            jobs' = [jobs EXCEPT ![j].status =
                       IF @ = "processing" THEN @ ELSE "queued"]
      BY <2>2 DEF Enqueue
    <3>2. t \in missed' \/ \A w \in Worker : ~Overlooks(w, t)
      BY <2>2 DEF Enqueue
    <3>3. PICK s \in {"processing", "queued"} :
            /\ j \in Job /\ jobs[j].status \in Open
            /\ jobs' = [jobs EXCEPT ![j].status = s]
      BY <3>1, RequeueEffect
    <3>4. /\ jobs[j].ticket = t /\ jobs[j].status # "absent"
          /\ s \in Open \union Terminal /\ s \in Open
      BY <3>1, <3>3 DEF OpenJobs, Open
    <3>5. /\ jobs'[j].status = s /\ jobs'[j].ticket = t
          /\ \A i \in Job \ {j} : jobs'[i] = jobs[i]
      BY <3>3, <3>4, SetStatusEffect
    <3>. QED  BY <3>2, <3>3, <3>4, <3>5
  <2>. QED  BY <2>1, <2>2
<1>3. jobs'[j].status \notin {"absent", "completed"}
  BY <1>2 DEF Open
<1>4. RowsGoOn
  BY <1>2, <1>3 DEF RowsGoOn, Open
<1>5. \A u \in Ticket : tickets[u].answered <= tickets'[u].answered
  BY <1>1, QueueTypes DEF TicketState
<1>6. SavedIsAnswered'
  BY <1>1, <1>4, <1>5, SavedGoesOn
<1>7. TicketsGoOn /\ DraftsGoOn
  BY <1>1, <1>5 DEF TicketsGoOn, DraftsGoOn, PastDraft
<1>8. ASSUME NEW u \in Ticket, u \notin missed', Unanswered(u)'
      PROVE  \E i \in Job : Answers(i, u)'
  <2>1. CASE u # t
    <3>1. posting[u] = "none" /\ u \notin missed
      BY <1>1, <1>8, <2>1 DEF Unanswered
    <3>. QED  BY <1>4, <1>7, <1>8, <3>1, AnswerGoesOn
  <2>2. CASE u = t
    <3>1. ASSUME NEW w \in Worker, worker'[w].job = j, worker'[w].pc \in PastDraft
          PROVE  worker'[w].seen = tickets'[t].asked
      <4>1. worker[w].job = j /\ worker[w].pc \in PastDraft /\ worker[w].pc # "idle"
        BY <1>1, <3>1 DEF PastDraft
      <4>2. jobs[j].status # "absent"
        BY <4>1, QueueTypes
      <4>3. ~Overlooks(w, t) /\ jobs[j].ticket = t
        BY <1>2, <1>8, <2>2, <4>2
      <4>4. ~(worker[w].seen < tickets[t].asked)
        BY <4>1, <4>3 DEF Overlooks
      <4>5. worker[w].seen <= tickets[t].asked
        BY <4>1, <4>3 DEF QueueInv, SeenWasAsked
      <4>6. worker[w].seen \in Int /\ tickets[t].asked \in Int
        BY QueueTypes DEF WorkerState, TicketState
      <4>7. worker[w].seen = tickets[t].asked
        BY <4>4, <4>5, <4>6
      <4>. QED  BY <1>1, <4>7
    <3>. QED  BY <1>2, <1>3, <2>2, <3>1 DEF Answers
  <2>. QED  BY <2>1, <2>2
<1>. QED  BY <1>6, <1>8 DEF AnswerInv, AnswerComes

LEMMA ClaimAnswers ==
  ASSUME QueueInv, QueueInv', AnswerInv, NEW w \in Worker, Claim(w)
  PROVE  AnswerInv'
<1>1. PICK j \in Job :
    /\ jobs[j].status \in Open /\ jobs'[j].status = "processing"
    /\ jobs'[j].ticket = jobs[j].ticket
    /\ \A i \in Job \ {j} : jobs'[i] = jobs[i]
    /\ worker'[w].pc = "claimed"
    /\ \A v \in Worker \ {w} : worker'[v] = worker[v]
    /\ UNCHANGED <<tickets, posting, missed>>
  BY ClaimEffect
<1>2. RowsGoOn
  BY <1>1 DEF RowsGoOn
<1>3. \A u \in Ticket : tickets[u].answered <= tickets'[u].answered
  BY <1>1, QueueTypes DEF TicketState
<1>4. TicketsGoOn
  BY <1>1, <1>3 DEF TicketsGoOn
<1>5. DraftsGoOn
  BY <1>1 DEF DraftsGoOn, PastDraft
<1>6. AnswerComes'
  BY <1>1, <1>2, <1>4, <1>5, AnswersGoOn
<1>7. \A v \in Worker : worker'[v].pc \in {"saved", "waiting"} =>
        worker'[v] = worker[v]
  BY <1>1
<1>8. SavedIsAnswered'
  BY <1>2, <1>3, <1>7, SavedGoesOn
<1>. QED  BY <1>6, <1>8 DEF AnswerInv

LEMMA OnItsWayAnswers ==
  ASSUME QueueInv, QueueInv', AnswerInv, NEW w \in Worker, OnItsWay(w)
  PROVE  AnswerInv'
<1>. DEFINE j == worker[w].job
            t == jobs[j].ticket
<1>1. PICK r : /\ GoesOn(w, r)
               /\ \/ StaysUnmailed(w, r) \/ MailsNow(w, r)
                  \/ StaysMailed(w, r) \/ FailsMailed(w, r)
  BY OnItsWayEffect
<1>2. /\ worker[w].pc # "idle" /\ j \in Job /\ t \in Ticket
      /\ worker[w] \in WorkerState /\ tickets[t] \in TicketState
      /\ UNCHANGED <<jobs, posting, missed>>
      /\ worker'[w] = r /\ r.job = j
      /\ \A v \in Worker \ {w} : worker'[v] = worker[v]
  BY <1>1, QueueTypes DEF GoesOn
<1>3. \/ worker'[w].pc = "failing"
      \/ worker[w].pc = "claimed" /\ worker'[w].pc = "drafted"
           /\ worker'[w].seen = tickets[t].asked
      \/ /\ worker[w].pc \in PastDraft /\ worker'[w].seen = worker[w].seen
         /\ \/ worker'[w].pc \in {"mailed", "recorded"}
            \/ worker[w].pc = "recorded" /\ worker'[w].pc = "saved"
               /\ worker[w].seen <= tickets'[t].answered
            \/ worker[w].pc = "saved" /\ worker'[w].pc = "waiting"
  <2>1. CASE Draft(w)
    BY <1>2, <2>1, QueueTypes DEF Draft, WorkerState
  <2>2. CASE DraftFails(w) \/ MailFails(w)
    BY <1>2, <2>2, QueueTypes DEF DraftFails, MailFails, Goto, WorkerState
  <2>3. CASE Mail(w)
    BY <1>2, <2>3, QueueTypes DEF Mail, Goto, WorkerState, PastDraft
  <2>4. CASE Record(w)
    BY <1>2, <2>4, QueueTypes DEF Record, Goto, WorkerState, PastDraft
  <2>5. CASE SaveMessage(w)
    <3>1. /\ worker[w].pc = "recorded" /\ worker' = [worker EXCEPT ![w].pc = "saved"]
          /\ tickets' = [tickets EXCEPT ![t].answered =
                           IF @ < worker[w].seen THEN worker[w].seen ELSE @]
      BY <2>5 DEF SaveMessage, Goto
    <3>. HIDE DEF t, j
    <3>2. /\ worker'[w].pc = "saved" /\ worker'[w].seen = worker[w].seen
      BY <1>2, <3>1, QueueTypes DEF WorkerState
    <3>3. worker[w].seen <= tickets'[t].answered
      BY <1>2, <3>1, QueueTypes DEF WorkerState, TicketState
    <3>. QED  BY <3>1, <3>2, <3>3 DEF PastDraft
  <2>6. CASE SetWaiting(w)
    BY <1>2, <2>6, QueueTypes DEF SetWaiting, Goto, WorkerState, PastDraft
  <2>7. CASE StatementFails(w)
    BY <1>2, <2>7, QueueTypes DEF StatementFails, WorkerState
  <2>. QED  BY <2>1, <2>2, <2>3, <2>4, <2>5, <2>6, <2>7 DEF OnItsWay
<1>. HIDE DEF t, j
<1>4. \A u \in Ticket : tickets[u].answered <= tickets'[u].answered
  <2>1. CASE SaveMessage(w)
    <3>1. tickets' = [tickets EXCEPT ![t].answered =
                        IF @ < worker[w].seen THEN worker[w].seen ELSE @]
      BY <2>1 DEF SaveMessage, Goto, t, j
    <3>. QED  BY <1>2, <3>1, QueueTypes DEF WorkerState, TicketState
  <2>2. CASE SetWaiting(w)
    <3>1. tickets' = [tickets EXCEPT ![t].status = "waiting_user"]
      BY <2>2 DEF SetWaiting, Goto, t, j
    <3>. QED  BY <1>2, <3>1, QueueTypes DEF TicketState
  <2>3. CASE UNCHANGED tickets
    BY <2>3, QueueTypes DEF TicketState
  <2>. QED
    BY <2>1, <2>2, <2>3
    DEF OnItsWay, Draft, DraftFails, Mail, MailFails, Record, StatementFails
<1>5. RowsGoOn
  BY <1>2 DEF RowsGoOn
<1>6. TicketsGoOn
  BY <1>4, OnItsWayTickets DEF TicketsGoOn
<1>7. DraftsGoOn
  <2>1. worker[w].job = j /\ tickets[jobs[worker[w].job].ticket].asked = tickets[t].asked
    BY DEF t, j
  <2>2. ASSUME NEW v \in Worker, worker'[v].pc \in PastDraft
        PROVE  /\ worker[v].pc # "idle" /\ worker'[v].job = worker[v].job
               /\ \/ worker[v].pc \in PastDraft /\ worker'[v].seen = worker[v].seen
                  \/ worker'[v].seen = tickets[jobs[worker[v].job].ticket].asked
    <3>1. CASE v = w
      BY <1>2, <1>3, <2>1, <2>2, <3>1 DEF PastDraft
    <3>2. CASE v # w
      BY <1>2, <2>2, <3>2 DEF PastDraft
    <3>. QED  BY <3>1, <3>2
  <2>. QED  BY <2>2 DEF DraftsGoOn
<1>8. AnswerComes'
  BY <1>2, <1>5, <1>6, <1>7, AnswersGoOn
<1>9. SavedIsAnswered'
  <2>. SUFFICES ASSUME NEW v \in Worker, worker'[v].pc \in {"saved", "waiting"}
                PROVE  worker'[v].seen <= tickets'[jobs'[worker'[v].job].ticket].answered
    BY DEF SavedIsAnswered
  <2>1. CASE v = w /\ worker'[w].pc = "saved"
    <3>1. worker'[w].seen <= tickets'[t].answered
      BY <1>3, <2>1
    <3>2. jobs'[worker'[w].job].ticket = t
      BY <1>2 DEF t
    <3>. QED  BY <2>1, <3>1, <3>2
  <2>2. CASE v # w \/ worker'[w].pc = "waiting"
    <3>1. /\ worker[v].pc \in {"saved", "waiting"} /\ worker'[v].job = worker[v].job
          /\ worker'[v].seen = worker[v].seen
      BY <1>2, <1>3, <2>2 DEF j
    <3>. DEFINE u == jobs[worker[v].job].ticket
    <3>2. /\ u \in Ticket /\ worker[v].seen \in Nat
          /\ jobs'[worker'[v].job].ticket = u
      BY <1>2, <3>1, QueueTypes DEF WorkerState
    <3>3. worker[v].seen <= tickets[u].answered
      BY <3>1 DEF AnswerInv, SavedIsAnswered
    <3>. HIDE DEF u
    <3>4. tickets[u].answered \in Nat /\ tickets'[u].answered \in Nat
      BY <3>2, QueueTypes, OnItsWayTickets DEF TicketState
    <3>. QED  BY <1>4, <3>1, <3>2, <3>3, <3>4
  <2>. QED  BY <2>1, <2>2
<1>. QED  BY <1>8, <1>9 DEF AnswerInv

LEMMA EndsAnswers ==
  ASSUME QueueInv, QueueInv', AnswerInv, NEW w \in Worker, Ends(w)
  PROVE  AnswerInv'
<1>1. /\ worker' = [worker EXCEPT ![w] = Idle]
      /\ UNCHANGED <<tickets, posting, missed>>
      /\ \/ UNCHANGED jobs
         \/ \E s \in {"dead", "retry_wait"} :
              jobs' = [jobs EXCEPT ![worker[w].job].status = s]
         \/ worker[w].pc = "waiting"
            /\ jobs' = [jobs EXCEPT ![worker[w].job].status = "completed"]
  BY DEF Ends, Complete, Fail, MarkFails, Crash, history
<1>2. \A v \in Worker : worker'[v] \in {worker[v], Idle}
  BY <1>1, QueueTypes
<1>3. \A j \in Job :
        /\ jobs'[j].ticket = jobs[j].ticket
        /\ \/ jobs'[j].status \in {jobs[j].status, "dead", "retry_wait"}
           \/ worker[w].pc = "waiting" /\ worker[w].job = j
              /\ jobs'[j].status = "completed"
  BY <1>1, QueueTypes DEF JobRow
<1>4. RowsGoOn
  <2>. SUFFICES ASSUME NEW j \in Job, jobs[j].status # "absent"
                PROVE  /\ jobs'[j].ticket = jobs[j].ticket /\ jobs'[j].status # "absent"
                       /\ \/ jobs'[j].status # "completed" \/ jobs[j].status = "completed"
                          \/ \E v \in Worker : worker[v].job = j /\ worker[v].pc = "waiting"
    BY DEF RowsGoOn
  <2>. QED  BY <1>3
<1>5. \A u \in Ticket : tickets[u].answered <= tickets'[u].answered
  BY <1>1, QueueTypes DEF TicketState
<1>6. TicketsGoOn
  BY <1>1, <1>5 DEF TicketsGoOn
<1>7. Idle.pc = "idle"
  BY IdleTyped
<1>8. DraftsGoOn
  BY <1>2, <1>7 DEF DraftsGoOn, PastDraft
<1>9. AnswerComes'
  BY <1>1, <1>4, <1>6, <1>8, AnswersGoOn
<1>10. SavedIsAnswered'
  BY <1>2, <1>4, <1>5, <1>7, SavedGoesOn
<1>. QED  BY <1>9, <1>10 DEF AnswerInv

LEMMA LapseAnswers ==
  ASSUME QueueInv, QueueInv', AnswerInv, NEW j \in Job,
         LapseAbandoned(j) \/ LapseHeld(j)
  PROVE  AnswerInv'
<1>1. /\ jobs' = [jobs EXCEPT ![j].lapsed = TRUE]
      /\ UNCHANGED <<tickets, posting, worker, missed>>
  BY DEF LapseAbandoned, LapseHeld, history
<1>2. \A i \in Job : /\ jobs'[i].ticket = jobs[i].ticket
                     /\ jobs'[i].status = jobs[i].status
  BY <1>1, QueueTypes DEF JobRow
<1>3. RowsGoOn
  BY <1>2 DEF RowsGoOn
<1>4. \A u \in Ticket : tickets[u].answered <= tickets'[u].answered
  BY <1>1, QueueTypes DEF TicketState
<1>5. TicketsGoOn /\ DraftsGoOn
  BY <1>1, <1>4 DEF TicketsGoOn, DraftsGoOn, PastDraft
<1>6. AnswerComes'
  BY <1>1, <1>3, <1>5, AnswersGoOn
<1>7. SavedIsAnswered'
  BY <1>1, <1>3, <1>4, SavedGoesOn
<1>. QED  BY <1>6, <1>7 DEF AnswerInv

LEMMA AnswerInitInv == SupportInit => AnswerInv
  BY DEF SupportInit, AnswerInv, AnswerComes, SavedIsAnswered, Unanswered, Idle

LEMMA AnswerNextInv ==
  QueueInv /\ QueueInv' /\ AnswerInv /\ [SupportNext]_supportVars => AnswerInv'
<1>. SUFFICES ASSUME QueueInv, QueueInv', AnswerInv, [SupportNext]_supportVars
              PROVE  AnswerInv'
  OBVIOUS
<1>1. ASSUME NEW t \in Ticket,
             Post(t) \/ Reopen(t) \/ Enqueue(t) \/ EnqueueFails(t)
      PROVE  AnswerInv'
  BY <1>1, PostAnswers, EnqueueAnswers
<1>2. ASSUME NEW w \in Worker, WorkerStep(w) \/ Crash(w)
      PROVE  AnswerInv'
  BY <1>2, ClaimAnswers, OnItsWayAnswers, EndsAnswers DEF WorkerStep, OnItsWay, Ends
<1>3. ASSUME NEW j \in Job, LapseAbandoned(j) \/ LapseHeld(j)
      PROVE  AnswerInv'
  BY <1>3, LapseAnswers
<1>4. CASE UNCHANGED supportVars
  BY <1>4
  DEF supportVars, AnswerInv, AnswerComes, SavedIsAnswered, Unanswered, Answers
<1>. QED  BY <1>1, <1>2, <1>3, <1>4 DEF SupportNext

(* Once every job of a ticket is completed its last message was answered,  *)
(* whichever workers were overtaken, failed or came back late, unless the  *)
(* message found a draft without it already under way (enqueue's ON        *)
(* CONFLICT leaves the processing row as it is).                           *)
THEOREM FollowUpsAreAnswered == SupportSpec => []FollowUpsAnswered
<1>1. QueueInv /\ AnswerInv => FollowUpsAnswered
  <2>. SUFFICES ASSUME QueueInv, AnswerInv, NEW t \in Ticket \ missed,
                       posting[t] = "none",
                       \A j \in Job : jobs[j].ticket = t => jobs[j].status = "completed"
                PROVE  tickets[t].answered = tickets[t].asked
    BY DEF FollowUpsAnswered
  <2>. QED  BY DEF AnswerInv, AnswerComes, Unanswered, Answers
<1>2. SupportInit => AnswerInv
  BY AnswerInitInv
<1>3. QueueInv /\ QueueInv' /\ AnswerInv /\ [SupportNext]_supportVars => AnswerInv'
  BY AnswerNextInv
<1>. QED  BY <1>1, <1>2, <1>3, SupportInvariant, PTL DEF SupportSpec

-----------------------------------------------------------------------------
(* The refinement: what the promise sees of a state.                       *)

PhaseBar == [j \in Job |-> IF jobs[j].status \in Open THEN "open"
                           ELSE jobs[j].status]
TriesBar == [j \in Job |-> jobs[j].attempts]
SlipsBar == [j \in Job |-> overtaken[j] + botched[j]]

PromiseStutters == UNCHANGED <<PhaseBar, TriesBar, sent, SlipsBar>>

LEMMA StatusKeptStutters ==
  ASSUME \A j \in Job : /\ jobs'[j].attempts = jobs[j].attempts
                        /\ jobs'[j].status = jobs[j].status,
         UNCHANGED <<sent, overtaken, botched>>
  PROVE  PromiseStutters
  BY DEF PromiseStutters, PhaseBar, TriesBar, SlipsBar

LEMMA EnqueuePromised ==
  ASSUME QueueInv, NEW t \in Ticket, Enqueue(t)
  PROVE  Promise!PromiseNext \/ PromiseStutters
<1>1. UNCHANGED <<sent, overtaken, botched>>
  BY DEF Enqueue
<1>2. ASSUME NEW j \in Absent, jobs' = [jobs EXCEPT ![j] = NewRow(t)]
      PROVE  Promise!Submit(j)
  <2>1. /\ j \in Job /\ jobs[j].status = "absent" /\ jobs[j].attempts = 0
        /\ jobs'[j].status = "queued" /\ jobs'[j].attempts = 0
        /\ \A i \in Job \ {j} : jobs'[i] = jobs[i]
    BY <1>2, NewRowEffect DEF QueueInv, AbsentIsNew
  <2>2. PhaseBar[j] = "absent" /\ PhaseBar' = [PhaseBar EXCEPT ![j] = "open"]
    BY <2>1 DEF PhaseBar, Open
  <2>3. UNCHANGED <<TriesBar, SlipsBar>>
    BY <1>1, <2>1 DEF TriesBar, SlipsBar
  <2>. QED
    BY <1>1, <2>2, <2>3 DEF Promise!Submit, PhaseBar, TriesBar, SlipsBar
<1>3. ASSUME NEW j \in OpenJobs(t),
             jobs' = [jobs EXCEPT ![j].status =
                        IF @ = "processing" THEN @ ELSE "queued"]
      PROVE  PromiseStutters
  <2>1. PICK s \in {"processing", "queued"} :
          /\ j \in Job /\ jobs[j].status \in Open
          /\ jobs' = [jobs EXCEPT ![j].status = s]
    BY <1>3, RequeueEffect
  <2>2. jobs[j].status # "absent" /\ s \in Open
    BY <2>1 DEF Open
  <2>3. /\ jobs'[j].status = s
        /\ \A i \in Job : /\ jobs'[i].attempts = jobs[i].attempts
                          /\ (i # j => jobs'[i] = jobs[i])
    BY <2>1, <2>2, SetStatusEffect
  <2>4. PhaseBar' = PhaseBar
    BY <2>1, <2>2, <2>3 DEF PhaseBar
  <2>. QED
    BY <1>1, <2>3, <2>4 DEF PromiseStutters, TriesBar, SlipsBar
<1>. QED  BY <1>2, <1>3 DEF Enqueue, Promise!PromiseNext, Absent

(* From a waiting row a claim is a try, which the count of the tries       *)
(* allows; from a lapsed lock it is a takeover.                            *)
LEMMA ClaimPromised ==
  ASSUME QueueInv, CountInv, NEW w \in Worker, Claim(w)
  PROVE  Promise!PromiseNext
<1>1. PICK j \in Job :
    /\ jobs[j].status \in Open /\ jobs'[j].status = "processing"
    /\ jobs'[j].attempts = jobs[j].attempts + 1
    /\ \A i \in Job \ {j} : jobs'[i] = jobs[i]
    /\ overtaken' = IF jobs[j].status = "processing"
                    THEN [overtaken EXCEPT ![j] = overtaken[j] + 1]
                    ELSE overtaken
    /\ UNCHANGED <<sent, botched>>
  BY ClaimEffect
<1>2. PhaseBar[j] = "open" /\ PhaseBar' = PhaseBar
  BY <1>1 DEF PhaseBar, Open
<1>3. TriesBar' = [TriesBar EXCEPT ![j] = TriesBar[j] + 1]
  BY <1>1 DEF TriesBar
<1>4. CASE jobs[j].status = "processing"
  <2>1. SlipsBar' = [SlipsBar EXCEPT ![j] = SlipsBar[j] + 1]
    <3>1. \A i \in Job : /\ overtaken'[i] = IF i = j THEN overtaken[i] + 1
                                            ELSE overtaken[i]
                         /\ botched'[i] = botched[i]
                         /\ overtaken[i] \in Nat /\ botched[i] \in Nat
      BY <1>1, <1>4, QueueTypes
    <3>2. \A i \in Job : overtaken'[i] + botched'[i] =
            IF i = j THEN (overtaken[i] + botched[i]) + 1
            ELSE overtaken[i] + botched[i]
      BY <3>1
    <3>. QED  BY <3>2 DEF SlipsBar
  <2>2. Promise!TakeOver(j)
    BY <1>1, <1>2, <1>3, <2>1
    DEF Promise!TakeOver, PhaseBar, TriesBar, SlipsBar
  <2>. QED  BY <2>2 DEF Promise!PromiseNext
<1>5. CASE jobs[j].status # "processing"
  <2>1. Waiting(j) = 1
    BY <1>1, <1>5 DEF Waiting, Open
  <2>2. jobs[j].attempts < MaxAttempts + (overtaken[j] + botched[j])
    BY <2>1, CountTypes DEF CountInv, JobCounts, TriesCounted
  <2>3. UNCHANGED SlipsBar
    BY <1>1, <1>5 DEF SlipsBar
  <2>4. Promise!Try(j)
    BY <1>1, <1>2, <1>3, <2>2, <2>3
    DEF Promise!Try, PhaseBar, TriesBar, SlipsBar
  <2>. QED  BY <2>4 DEF Promise!PromiseNext
<1>. QED  BY <1>4, <1>5

LEMMA OnItsWayPromised ==
  ASSUME QueueInv, CountInv, NEW w \in Worker, OnItsWay(w)
  PROVE  Promise!PromiseNext \/ PromiseStutters
<1>1. PICK r : /\ GoesOn(w, r)
               /\ \/ StaysUnmailed(w, r) \/ MailsNow(w, r)
                  \/ StaysMailed(w, r) \/ FailsMailed(w, r)
  BY OnItsWayEffect
<1>. DEFINE j == r.job
<1>2. /\ worker[w].pc # "idle" /\ j \in Job /\ worker[w].job = j
      /\ UNCHANGED <<jobs, overtaken>>
  BY <1>1, QueueTypes DEF GoesOn
<1>3. UNCHANGED <<PhaseBar, TriesBar>>
  BY <1>2 DEF PhaseBar, TriesBar
<1>4. CASE StaysUnmailed(w, r) \/ StaysMailed(w, r)
  BY <1>2, <1>3, <1>4
  DEF StaysUnmailed, StaysMailed, PromiseStutters, SlipsBar
<1>5. CASE MailsNow(w, r)
  <2>1. w \in Unmailed(j) /\ w \in Unsent(j)
    BY <1>2, <1>5 DEF MailsNow, Unmailed, Unsent, Holding
  <2>2. Cardinality(Unmailed(j)) # 0 /\ Cardinality(Unsent(j)) # 0
    BY <1>2, <2>1, CountTypes, FS_EmptySet
  <2>3. sent[j] < jobs[j].attempts /\ sent[j] < 1 + (overtaken[j] + botched[j])
    BY <1>2, <2>2, CountTypes DEF CountInv, JobCounts, MailsTried, MailsCounted
  <2>4. sent' = [sent EXCEPT ![j] = sent[j] + 1] /\ UNCHANGED SlipsBar
    BY <1>2, <1>5 DEF MailsNow, SlipsBar
  <2>. HIDE DEF j
  <2>5. Promise!Reply(j)
    BY <1>2, <1>3, <2>3, <2>4 DEF Promise!Reply, PhaseBar, TriesBar, SlipsBar
  <2>. QED  BY <1>2, <2>5 DEF Promise!PromiseNext
<1>6. CASE FailsMailed(w, r)
  <2>1. sent[j] > 0
    BY <1>2, <1>6 DEF FailsMailed, QueueInv, MailedIsSent
  <2>2. SlipsBar' = [SlipsBar EXCEPT ![j] = SlipsBar[j] + 1] /\ UNCHANGED sent
    BY <1>2, <1>6, QueueTypes DEF FailsMailed, SlipsBar
  <2>. HIDE DEF j
  <2>3. Promise!Slip(j)
    BY <1>2, <1>3, <2>1, <2>2 DEF Promise!Slip, PhaseBar, TriesBar, SlipsBar
  <2>. QED  BY <1>2, <2>3 DEF Promise!PromiseNext
<1>. QED  BY <1>1, <1>4, <1>5, <1>6

(* A verdict on a job that is no more processing comes from a holder that  *)
(* was overtaken.                                                          *)
LEMMA EndsPromised ==
  ASSUME QueueInv, CountInv, NEW w \in Worker, Ends(w)
  PROVE  Promise!PromiseNext \/ PromiseStutters
<1>1. PICK j, s : /\ LetsGo(w, j, s)
                  /\ \/ s = jobs[j].status
                     \/ GivesBack(w, j, s)
                     \/ s = "dead" /\ MaxAttempts <= jobs[j].attempts
                     \/ s = "completed" /\ sent[j] > 0
  BY EndsEffect
<1>2. /\ j \in Job /\ jobs[j].status # "absent" /\ jobs'[j].status = s
      /\ \A i \in Job : /\ jobs'[i].attempts = jobs[i].attempts
                        /\ (i # j => jobs'[i] = jobs[i])
      /\ UNCHANGED <<sent, overtaken, botched>>
  BY <1>1, SetStatusEffect DEF LetsGo
<1>3. jobs[j].status = "processing" \/ overtaken[j] + botched[j] > 0
  <2>1. w \in Holding(j)
    BY <1>1 DEF LetsGo, Holding
  <2>2. Cardinality(Holding(j)) # 0
    BY <1>2, <2>1, CountTypes, FS_EmptySet
  <2>3. HoldersCounted(j)
    BY <1>2 DEF CountInv, JobCounts
  <2>. QED
    BY <1>2, <2>2, <2>3, CountTypes DEF HoldersCounted, Unclaimed
<1>4. CASE s = jobs[j].status
  BY <1>2, <1>4, StatusKeptStutters
<1>5. CASE GivesBack(w, j, s) \/ s \in Terminal
  <2>. DEFINE verdict == IF s \in Open THEN "open" ELSE s
  <2>1. /\ s \in {"retry_wait", "completed", "dead"}
        /\ verdict \in {"open", "completed", "dead"}
    BY <1>5 DEF GivesBack, Terminal, Open
  <2>2. PhaseBar' = [PhaseBar EXCEPT ![j] = verdict]
    BY <1>2 DEF PhaseBar
  <2>3. PhaseBar[j] # "absent" /\ (PhaseBar[j] = "open" \/ SlipsBar[j] > 0)
    BY <1>2, <1>3 DEF PhaseBar, SlipsBar, Open
  <2>4. CASE s = jobs[j].status
    BY <1>4, <2>4
  <2>5. CASE s # jobs[j].status
    <3>1. /\ verdict = "completed" => sent[j] > 0
          /\ verdict = "dead" => TriesBar[j] >= MaxAttempts
      BY <1>1, <1>2, <2>1, <2>5, CountTypes DEF TriesBar, GivesBack, Open
    <3>2. UNCHANGED <<TriesBar, SlipsBar>>
      BY <1>2 DEF TriesBar, SlipsBar
    <3>. HIDE DEF verdict
    <3>3. Promise!Settle(j, verdict)
      BY <1>2, <2>2, <2>3, <3>1, <3>2
      DEF Promise!Settle, PhaseBar, TriesBar, SlipsBar
    <3>. QED  BY <1>2, <2>1, <3>3 DEF Promise!PromiseNext
  <2>. QED  BY <2>4, <2>5
<1>. QED  BY <1>1, <1>4, <1>5 DEF Terminal

LEMMA StepPromised ==
  ASSUME QueueInv, CountInv, [SupportNext]_supportVars
  PROVE  Promise!PromiseNext \/ PromiseStutters
<1>1. ASSUME NEW t \in Ticket,
             Post(t) \/ Reopen(t) \/ Enqueue(t) \/ EnqueueFails(t)
      PROVE  Promise!PromiseNext \/ PromiseStutters
  <2>1. CASE Enqueue(t)
    BY <2>1, EnqueuePromised
  <2>2. CASE Post(t) \/ Reopen(t) \/ EnqueueFails(t)
    BY <2>2, StatusKeptStutters DEF Post, Reopen, EnqueueFails, history
  <2>. QED  BY <1>1, <2>1, <2>2
<1>2. ASSUME NEW w \in Worker, WorkerStep(w) \/ Crash(w)
      PROVE  Promise!PromiseNext \/ PromiseStutters
  BY <1>2, ClaimPromised, OnItsWayPromised, EndsPromised
  DEF WorkerStep, OnItsWay, Ends
<1>3. ASSUME NEW j \in Job, LapseAbandoned(j) \/ LapseHeld(j)
      PROVE  PromiseStutters
  <2>1. /\ jobs' = [jobs EXCEPT ![j].lapsed = TRUE]
        /\ UNCHANGED <<sent, overtaken, botched>>
    BY <1>3 DEF LapseAbandoned, LapseHeld, history
  <2>2. \A i \in Job : /\ jobs'[i].attempts = jobs[i].attempts
                       /\ jobs'[i].status = jobs[i].status
    BY <2>1, QueueTypes DEF JobRow
  <2>. QED  BY <2>1, <2>2, StatusKeptStutters
<1>4. CASE UNCHANGED supportVars
  BY <1>4, StatusKeptStutters DEF supportVars
<1>. QED  BY <1>1, <1>2, <1>3, <1>4 DEF SupportNext

LEMMA InitPromised == SupportInit => Promise!PromiseInit
<1>. SUFFICES ASSUME SupportInit  PROVE Promise!PromiseInit
  OBVIOUS
<1>1. /\ PhaseBar = [j \in Job |-> "absent"] /\ TriesBar = [j \in Job |-> 0]
      /\ SlipsBar = [j \in Job |-> 0]
  BY DEF SupportInit, NoRow, PhaseBar, TriesBar, SlipsBar, Open
<1>2. sent = [j \in Job |-> 0]
  BY DEF SupportInit
<1>. QED  BY <1>1, <1>2 DEF Promise!PromiseInit, PhaseBar, TriesBar, SlipsBar

(* The queue keeps the promise of ReplyPromise: tries are bounded, a job   *)
(* is completed only if its mail went out and dead only after the last     *)
(* attempt, and there is one mail, and one more per slip at most.          *)
THEOREM QueueKeepsPromise == SupportSpec => ImplementsPromise
<1>1. QueueInv /\ CountInv /\ [SupportNext]_supportVars =>
        [Promise!PromiseNext]_<<PhaseBar, TriesBar, sent, SlipsBar>>
  BY StepPromised DEF PromiseStutters
<1>2. QueueInv /\ CountInv /\ [SupportNext]_supportVars =>
        [Promise!PromiseNext]_Promise!promiseVars
  BY <1>1 DEF Promise!promiseVars, PhaseBar, TriesBar, SlipsBar
<1>. QED
  BY <1>2, InitPromised, SupportInvariant, PTL
  DEF SupportSpec, ImplementsPromise, Promise!PromiseSpec
=============================================================================
