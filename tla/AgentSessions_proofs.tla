------------------------ MODULE AgentSessions_proofs -------------------------
(***************************************************************************)
(* The agent sessions, for any number of sessions, tools, iterations,      *)
(* streams and events, and a buffer of any size.                           *)
(*                                                                         *)
(* AgentInv is inductive.  Beside the properties it says that nothing is   *)
(* known of a session before it runs and that it is asked for once; that   *)
(* a run that goes on and was not excused is one the manager counts; that  *)
(* there is a tool to use, and "always" was said to what goes unasked;     *)
(* that a run comes to no tool after its late one; and that the buffer is  *)
(* the window of the last ids, and a cursor claims no more than was heard, *)
(* lost or made up.  Own(s) is the part about one session and its run,     *)
(* Hear(s) the part about its stream; a step of s changes neither for      *)
(* anybody else.                                                           *)
(***************************************************************************)
EXTENDS AgentSessionsProperties, FiniteSetTheorems, SequenceTheorems, TLAPS

-----------------------------------------------------------------------------
(* What a step of s leaves of the others *)

OnlyExec(s) ==
  /\ exec' \in [Agent -> Execution]
  /\ \A a \in Agent : a # s => exec'[a] = exec[a]

OnlySession(s) ==
  /\ session' \in [Agent -> Entry]
  /\ \A a \in Agent : a # s => session'[a] = session[a]

OnlyStream(s) ==
  /\ events' \in [Agent -> [seq: Nat, buffer: Seq(Nat)]]
  /\ reader' \in [Agent -> Stream]
  /\ \A a \in Agent : a # s => reader'[a] = reader[a] /\ events'[a] = events[a]

LEMMA OthersKept ==
  ASSUME NEW s \in Agent, NEW a \in Agent, a # s, Own(a),
         OnlyExec(s), OnlySession(s), OnlyStream(s),
         approved'[a] = approved[a], late'[a] = late[a],
         excused \subseteq excused', revived \subseteq revived', created \subseteq created',
         a \in asked' => a \in asked, a \in created' => a \in created
  PROVE  Own(a)'
<1>1. exec'[a] = exec[a] /\ session'[a] = session[a] /\ reader'[a] = reader[a]
  BY DEF OnlyExec, OnlySession, OnlyStream
<1>. QED  BY <1>1 DEF Own, FreshInv, ConsentInv, LateInv, Going, There, Tool

-----------------------------------------------------------------------------
(* The ways in which an execution, a session and a stream change *)

LEMMA ExecMoves ==
  ASSUME Typed, NEW s \in Agent, NEW p \in PC, exec' = [exec EXCEPT ![s].pc = p]
  PROVE  /\ OnlyExec(s) /\ exec'[s].pc = p
         /\ exec'[s].iteration = exec[s].iteration /\ exec'[s].todo = exec[s].todo
         /\ exec'[s].action = exec[s].action /\ exec'[s].hard = exec[s].hard
         /\ exec'[s].always = exec[s].always /\ exec'[s].failed = exec[s].failed
<1>1. exec \in [Agent -> Execution]
  BY DEF Typed
<1>. QED  BY <1>1 DEF OnlyExec, Execution, PC

LEMMA ExecIterates ==
  ASSUME Typed, NEW s \in Agent, NEW p \in PC, NEW n \in Nat,
         exec' = [exec EXCEPT ![s].pc = p, ![s].iteration = n]
  PROVE  /\ OnlyExec(s) /\ exec'[s].pc = p /\ exec'[s].iteration = n
         /\ exec'[s].todo = exec[s].todo
         /\ exec'[s].action = exec[s].action /\ exec'[s].hard = exec[s].hard
         /\ exec'[s].always = exec[s].always /\ exec'[s].failed = exec[s].failed
<1>1. exec \in [Agent -> Execution]
  BY DEF Typed
<1>. QED  BY <1>1 DEF OnlyExec, Execution, PC

LEMMA ExecTurns ==
  ASSUME Typed, NEW s \in Agent, NEW p \in PC, NEW t \in Seq(STRING),
         exec' = [exec EXCEPT ![s].pc = p, ![s].todo = t]
  PROVE  /\ OnlyExec(s) /\ exec'[s].pc = p /\ exec'[s].todo = t
         /\ exec'[s].iteration = exec[s].iteration
         /\ exec'[s].action = exec[s].action /\ exec'[s].hard = exec[s].hard
         /\ exec'[s].always = exec[s].always /\ exec'[s].failed = exec[s].failed
<1>1. exec \in [Agent -> Execution]
  BY DEF Typed
<1>. QED  BY <1>1 DEF OnlyExec, Execution, PC

LEMMA ExecActs ==
  ASSUME Typed, NEW s \in Agent, NEW p \in PC, NEW k \in Nat,
         exec' = [exec EXCEPT ![s].pc = p, ![s].action = k]
  PROVE  /\ OnlyExec(s) /\ exec'[s].pc = p /\ exec'[s].action = k
         /\ exec'[s].iteration = exec[s].iteration /\ exec'[s].todo = exec[s].todo
         /\ exec'[s].hard = exec[s].hard
         /\ exec'[s].always = exec[s].always /\ exec'[s].failed = exec[s].failed
<1>1. exec \in [Agent -> Execution]
  BY DEF Typed
<1>. QED  BY <1>1 DEF OnlyExec, Execution, PC

LEMMA ExecFails ==
  ASSUME Typed, NEW s \in Agent,
         exec' = [exec EXCEPT ![s].pc = "ended", ![s].failed = TRUE]
  PROVE  /\ OnlyExec(s) /\ exec'[s].pc = "ended" /\ exec'[s].failed = TRUE
         /\ exec'[s].iteration = exec[s].iteration /\ exec'[s].todo = exec[s].todo
         /\ exec'[s].action = exec[s].action /\ exec'[s].hard = exec[s].hard
         /\ exec'[s].always = exec[s].always
<1>1. exec \in [Agent -> Execution]
  BY DEF Typed
<1>. QED  BY <1>1 DEF OnlyExec, Execution, PC

LEMMA ExecTrusts ==
  ASSUME Typed, NEW s \in Agent, NEW A \in SUBSET STRING,
         exec' = [exec EXCEPT ![s].pc = "using", ![s].always = A]
  PROVE  /\ OnlyExec(s) /\ exec'[s].pc = "using" /\ exec'[s].always = A
         /\ exec'[s].iteration = exec[s].iteration /\ exec'[s].todo = exec[s].todo
         /\ exec'[s].action = exec[s].action /\ exec'[s].hard = exec[s].hard
         /\ exec'[s].failed = exec[s].failed
<1>1. exec \in [Agent -> Execution]
  BY DEF Typed
<1>. QED  BY <1>1 DEF OnlyExec, Execution, PC

LEMMA ExecStops ==
  ASSUME Typed, NEW s \in Agent, exec' = [exec EXCEPT ![s].hard = TRUE]
  PROVE  /\ OnlyExec(s) /\ exec'[s].hard /\ exec'[s].pc = exec[s].pc
         /\ exec'[s].iteration = exec[s].iteration /\ exec'[s].todo = exec[s].todo
         /\ exec'[s].action = exec[s].action
         /\ exec'[s].always = exec[s].always /\ exec'[s].failed = exec[s].failed
<1>1. exec \in [Agent -> Execution]
  BY DEF Typed
<1>. QED  BY <1>1 DEF OnlyExec, Execution, PC

LEMMA ExecStays ==
  ASSUME Typed, NEW s \in Agent, exec' = exec
  PROVE  OnlyExec(s)
  BY DEF OnlyExec, Typed

LEMMA SessionMoves ==
  ASSUME Typed, NEW s \in Agent, NEW st \in Status, NEW n \in Nat,
         session' = [session EXCEPT ![s].status = st, ![s].timers = n]
  PROVE  /\ OnlySession(s) /\ session'[s].status = st /\ session'[s].timers = n
         /\ session'[s].pending = session[s].pending
         /\ session'[s].actions = session[s].actions
<1>1. session \in [Agent -> Entry]
  BY DEF Typed
<1>. QED  BY <1>1 DEF OnlySession, Entry

LEMMA SessionAsks ==
  ASSUME Typed, NEW s \in Agent, NEW k \in Nat,
         session' = [session EXCEPT ![s].status = "waiting_approval",
                       ![s].actions = k, ![s].pending = k]
  PROVE  /\ OnlySession(s) /\ session'[s].status = "waiting_approval"
         /\ session'[s].timers = session[s].timers
         /\ session'[s].pending = k /\ session'[s].actions = k
<1>1. session \in [Agent -> Entry] /\ "waiting_approval" \in Status
  BY DEF Typed, Status, ActiveStatus
<1>. QED  BY <1>1 DEF OnlySession, Entry

LEMMA SessionAnswered ==
  ASSUME Typed, NEW s \in Agent, NEW st \in Status,
         session' = [session EXCEPT ![s].status = st, ![s].pending = 0]
  PROVE  /\ OnlySession(s) /\ session'[s].status = st
         /\ session'[s].timers = session[s].timers
         /\ session'[s].pending = 0 /\ session'[s].actions = session[s].actions
<1>1. session \in [Agent -> Entry]
  BY DEF Typed
<1>. QED  BY <1>1 DEF OnlySession, Entry

LEMMA SessionStays ==
  ASSUME Typed, NEW s \in Agent, session' = session
  PROVE  OnlySession(s)
  BY DEF OnlySession, Typed

LEMMA StreamStays ==
  ASSUME Typed, NEW s \in Agent, UNCHANGED watching
  PROVE  OnlyStream(s)
  BY DEF OnlyStream, Typed, watching

LEMMA TailType ==
  ASSUME NEW S, NEW t \in Seq(S), t # <<>>
  PROVE  Tail(t) \in Seq(S) /\ Head(t) \in S
  BY HeadTailProperties

StreamSays(s, on, n, h) ==
  /\ reader' \in [Agent -> Stream]
  /\ \A a \in Agent : a # s => reader'[a] = reader[a]
  /\ reader'[s].on = on /\ reader'[s].cursor = n /\ reader'[s].heard = h
  /\ reader'[s].lost = reader[s].lost /\ reader'[s].madeUp = reader[s].madeUp

LEMMA StreamHears ==
  ASSUME reader \in [Agent -> Stream], NEW s \in Agent,
         NEW on \in BOOLEAN, NEW n \in Nat, NEW h \in SUBSET Nat,
         reader' = [reader EXCEPT ![s].on = on, ![s].cursor = n, ![s].heard = h]
  PROVE  StreamSays(s, on, n, h)
  BY DEF StreamSays, Stream

LEMMA EmitDoes ==
  ASSUME Typed, NEW s \in Agent, NEW done \in BOOLEAN, Emit(s, done)
  PROVE  /\ OnlyStream(s)
         /\ events'[s].seq = events[s].seq + 1
         /\ events'[s].buffer =
              IF Len(Append(events[s].buffer, events[s].seq + 1)) > MaxEventBuffer
              THEN Tail(Append(events[s].buffer, events[s].seq + 1))
              ELSE Append(events[s].buffer, events[s].seq + 1)
         /\ reader'[s].on = (reader[s].on /\ ~done)
         /\ reader[s].on => /\ reader'[s].cursor = events[s].seq + 1
                            /\ reader'[s].heard = reader[s].heard \union {events[s].seq + 1}
                            /\ reader'[s].lost = reader[s].lost
                            /\ reader'[s].madeUp = reader[s].madeUp
         /\ ~reader[s].on => reader'[s] = reader[s]
<1>. DEFINE seq == events[s].seq + 1
            all == Append(events[s].buffer, seq)
            cut == IF Len(all) > MaxEventBuffer THEN Tail(all) ELSE all
<1>1. /\ events \in [Agent -> [seq: Nat, buffer: Seq(Nat)]]
      /\ reader \in [Agent -> Stream]
  BY DEF Typed
<1>2. seq \in Nat /\ all \in Seq(Nat) /\ cut \in Seq(Nat)
  <2>1. seq \in Nat /\ events[s].buffer \in Seq(Nat)
    BY <1>1
  <2>. HIDE DEF seq
  <2>2. all \in Seq(Nat) /\ all # <<>>
    BY <2>1, AppendProperties
  <2>3. Tail(all) \in Seq(Nat)
    BY <2>2, TailType
  <2>. QED  BY <2>1, <2>2, <2>3
<1>3. events' = [events EXCEPT ![s] = [seq |-> seq, buffer |-> cut]]
  BY <1>1 DEF Emit
<1>4. reader' = IF ~reader[s].on THEN reader
                ELSE [reader EXCEPT ![s].on = ~done, ![s].cursor = seq,
                                    ![s].heard = @ \union {seq}]
  BY DEF Emit
<1>. HIDE DEF seq, cut
<1>5. /\ events' \in [Agent -> [seq: Nat, buffer: Seq(Nat)]]
      /\ events'[s].seq = seq /\ events'[s].buffer = cut
      /\ \A a \in Agent : a # s => events'[a] = events[a]
  BY <1>1, <1>2, <1>3
<1>6. /\ reader' \in [Agent -> Stream]
      /\ \A a \in Agent : a # s => reader'[a] = reader[a]
      /\ reader'[s].on = (reader[s].on /\ ~done)
      /\ reader[s].on => /\ reader'[s].cursor = seq
                         /\ reader'[s].heard = reader[s].heard \union {seq}
                         /\ reader'[s].lost = reader[s].lost
                         /\ reader'[s].madeUp = reader[s].madeUp
      /\ ~reader[s].on => reader'[s] = reader[s]
  <2>1. CASE reader[s].on
    <3>. DEFINE h == reader[s].heard \union {seq}
    <3>1. reader' = [reader EXCEPT ![s].on = ~done, ![s].cursor = seq, ![s].heard = h]
      BY <1>4, <2>1
    <3>a. reader[s] \in Stream
      BY <1>1
    <3>b. reader[s].heard \in SUBSET Nat
      BY <3>a DEF Stream
    <3>2. h \in SUBSET Nat /\ (~done) \in BOOLEAN
      BY <1>2, <3>b
    <3>. HIDE DEF h
    <3>3. StreamSays(s, ~done, seq, h)
      BY <1>1, <1>2, <3>1, <3>2, StreamHears
    <3>. QED  BY <1>1, <2>1, <3>3 DEF StreamSays, h
  <2>2. CASE ~reader[s].on
    <3>1. reader' = reader /\ reader[s].on \in BOOLEAN
      BY <1>1, <1>4, <2>2 DEF Stream
    <3>. QED  BY <1>1, <2>2, <3>1
  <2>. QED  BY <2>1, <2>2
<1>. QED  BY <1>5, <1>6 DEF OnlyStream, seq, cut

LEMMA EmitIfThereDoes ==
  ASSUME Typed, NEW s \in Agent, NEW done \in BOOLEAN, EmitIfThere(s, done)
  PROVE  /\ OnlyStream(s)
         /\ reader'[s].on => reader[s].on
         /\ There(s) /\ done => ~reader'[s].on
  BY EmitDoes, StreamStays DEF EmitIfThere, watching

LEMMA UpdateDoes ==
  ASSUME Typed, NEW s \in Agent, NEW st \in Status \ {"none"}, NEW done \in BOOLEAN,
         UpdateStatus(s, st, done)
  PROVE  /\ OnlyStream(s) /\ OnlySession(s)
         /\ reader'[s].on => reader[s].on
         /\ There(s) /\ done => ~reader'[s].on
         /\ There(s) => /\ session'[s].status = st
                        /\ session'[s].timers = session[s].timers + (IF st \in Final THEN 1 ELSE 0)
                        /\ session'[s].pending = session[s].pending
                        /\ session'[s].actions = session[s].actions
         /\ ~There(s) => session'[s] = session[s]
         /\ There(s)' = There(s)
<1>1. /\ OnlyStream(s)
      /\ reader'[s].on => reader[s].on
      /\ There(s) /\ done => ~reader'[s].on
  BY EmitIfThereDoes DEF UpdateStatus
<1>2. CASE There(s)
  <2>1. session[s].timers \in Nat /\ session[s].timers + 1 \in Nat
    BY DEF Typed, Entry
  <2>. DEFINE n == IF st \in Final THEN session[s].timers + 1 ELSE session[s].timers
  <2>2. session' = [session EXCEPT ![s].status = st, ![s].timers = n]
    BY <1>2 DEF UpdateStatus
  <2>3. n \in Nat
    BY <2>1
  <2>4. /\ OnlySession(s) /\ session'[s].status = st /\ session'[s].timers = n
        /\ session'[s].pending = session[s].pending
        /\ session'[s].actions = session[s].actions
    <3>. HIDE DEF n
    <3>. QED  BY <2>2, <2>3, SessionMoves
  <2>5. n = session[s].timers + (IF st \in Final THEN 1 ELSE 0)
    BY <2>1
  <2>. QED  BY <1>1, <1>2, <2>4, <2>5 DEF There
<1>3. CASE ~There(s)
  <2>1. session' = session
    BY <1>3 DEF UpdateStatus
  <2>. QED  BY <1>1, <1>3, <2>1, SessionStays DEF There
<1>. QED  BY <1>2, <1>3
-----------------------------------------------------------------------------
(* A step of s keeps the invariant of every session if it keeps that of s *)

Frame(s) ==
  /\ OnlyExec(s) /\ OnlySession(s) /\ OnlyStream(s)
  /\ plan' = plan /\ asked' \subseteq Agent /\ pauses' \in [Agent -> Nat]
  /\ approved' \in [Agent -> [actions: SUBSET Nat, tools: SUBSET STRING]]
  /\ late' \in [Agent -> Nat]
  /\ excused' \subseteq Agent /\ revived' \subseteq Agent /\ created' \subseteq Agent
  /\ excused \subseteq excused' /\ revived \subseteq revived' /\ created \subseteq created'
  /\ \A a \in Agent : a # s =>
       /\ approved'[a] = approved[a] /\ late'[a] = late[a]
       /\ a \in asked' => a \in asked
       /\ a \in created' => a \in created

Shrinks(s) == (There(s)' => There(s)) /\ (Going(s)' => Going(s))

(* What an executor's step leaves alone. *)
Quiet == UNCHANGED <<plan, asked, approved, late, history>>

LEMMA FrameKeeps ==
  ASSUME Typed, NEW s \in Agent, \A a \in Agent : Own(a), Frame(s), Own(s)'
  PROVE  Typed' /\ \A a \in Agent : Own(a)'
<1>1. Typed'
  BY DEF Frame, Typed, OnlyExec, OnlySession, OnlyStream
<1>2. ASSUME NEW a \in Agent PROVE Own(a)'
  <2>1. CASE a = s
    BY <2>1
  <2>2. CASE a # s
    BY <2>2, OthersKept DEF Frame
  <2>. QED  BY <2>1, <2>2
<1>. QED  BY <1>1, <1>2

LEMMA QuietFrame ==
  ASSUME Typed, NEW s \in Agent, OnlyExec(s), OnlySession(s), OnlyStream(s), Quiet
  PROVE  Frame(s)
  BY DEF Frame, Quiet, Typed, history

(* The new values of the execution and the session of s, given its type.   *)
LEMMA TypesOfOne ==
  ASSUME Typed, NEW s \in Agent
  PROVE  /\ exec[s] \in Execution /\ session[s] \in Entry /\ reader[s] \in Stream
         /\ exec[s].pc \in PC /\ exec[s].iteration \in Nat
         /\ exec[s].todo \in Seq(STRING) /\ exec[s].action \in Nat
         /\ exec[s].hard \in BOOLEAN /\ exec[s].always \in SUBSET STRING
         /\ exec[s].failed \in BOOLEAN
         /\ session[s].status \in Status /\ session[s].pending \in Nat
         /\ session[s].actions \in Nat /\ session[s].timers \in Nat
<1>1. /\ exec[s] \in Execution /\ session[s] \in Entry /\ reader[s] \in Stream
  BY DEF Typed
<1>. QED  BY <1>1 DEF Execution, Entry, PC

-----------------------------------------------------------------------------
(* The executor's steps *)

LEMMA StartKeeps ==
  ASSUME Typed, NEW s \in Agent, Own(s), Start(s)
  PROVE  Frame(s) /\ Own(s)' /\ Shrinks(s)
<1>1. /\ exec[s].pc = "scheduled" /\ UpdateStatus(s, "running", FALSE) /\ Quiet
      /\ exec' = [exec EXCEPT ![s].pc = "loop"]
  BY DEF Start, At, Goto, Quiet
<1>2. /\ OnlyExec(s) /\ exec'[s].pc = "loop"
      /\ exec'[s].iteration = exec[s].iteration /\ exec'[s].todo = exec[s].todo
      /\ exec'[s].action = exec[s].action /\ exec'[s].hard = exec[s].hard
      /\ exec'[s].always = exec[s].always /\ exec'[s].failed = exec[s].failed
  <2>1. "loop" \in PC
    BY DEF PC
  <2>. QED  BY <1>1, <2>1, ExecMoves
<1>3. "running" \in Status \ {"none"} /\ "running" \notin Final /\ FALSE \in BOOLEAN
  BY DEF Status, ActiveStatus, Final
<1>4. /\ OnlyStream(s) /\ OnlySession(s)
      /\ reader'[s].on => reader[s].on
      /\ There(s) => session'[s].status = "running" /\ session'[s].pending = session[s].pending
                     /\ session'[s].actions = session[s].actions
      /\ ~There(s) => session'[s] = session[s]
      /\ There(s)' = There(s)
  BY <1>1, <1>3, UpdateDoes
<1>5. Frame(s)
  BY <1>1, <1>2, <1>4, QuietFrame
<1>6. Own(s)'
  BY <1>1, <1>2, <1>3, <1>4
    DEF Own, FreshInv, ConsentInv, LateInv, Going, There, Quiet, history, ActiveStatus
<1>. QED  BY <1>1, <1>2, <1>4, <1>5, <1>6 DEF Shrinks, Going

LEMMA FinishKeeps ==
  ASSUME Typed, NEW s \in Agent, Own(s), Finish(s), Quiet, Going(s)
  PROVE  Frame(s) /\ Own(s)' /\ Shrinks(s)
<1>. DEFINE st == IF exec[s].hard THEN "stopped" ELSE "completed"
<1>1. UpdateStatus(s, st, TRUE) /\ exec' = [exec EXCEPT ![s].pc = "ended"]
  BY DEF Finish, Goto
<1>2. /\ OnlyExec(s) /\ exec'[s].pc = "ended"
      /\ exec'[s].iteration = exec[s].iteration /\ exec'[s].todo = exec[s].todo
      /\ exec'[s].action = exec[s].action /\ exec'[s].hard = exec[s].hard
      /\ exec'[s].always = exec[s].always /\ exec'[s].failed = exec[s].failed
  <2>1. "ended" \in PC
    BY DEF PC
  <2>. QED  BY <1>1, <2>1, ExecMoves
<1>3. st \in Status \ {"none"} /\ st \in Final
  BY DEF Status, ActiveStatus, Final
<1>. HIDE DEF st
<1>4. /\ OnlyStream(s) /\ OnlySession(s)
      /\ There(s) => /\ ~reader'[s].on
                     /\ session'[s].status = st /\ session'[s].pending = session[s].pending
                     /\ session'[s].actions = session[s].actions
                     /\ session'[s].timers = session[s].timers + 1
      /\ ~There(s) => session'[s] = session[s]
      /\ There(s)' = There(s)
  BY <1>1, <1>3, UpdateDoes
<1>5. Frame(s)
  BY <1>2, <1>4, QuietFrame
<1>6. Own(s)'
  <2>1. session[s].timers \in Nat
    BY TypesOfOne
  <2>. QED  BY <1>2, <1>3, <1>4, <2>1
    DEF Own, FreshInv, ConsentInv, LateInv, Going, There, Quiet, history, ActiveStatus
<1>. QED  BY <1>2, <1>4, <1>5, <1>6 DEF Shrinks, Going

LEMMA TerminateKeeps ==
  ASSUME Typed, NEW s \in Agent, Own(s), Terminate(s)
  PROVE  Frame(s) /\ Own(s)' /\ Shrinks(s)
<1>1. Finish(s) /\ Quiet /\ Going(s)
  BY DEF Terminate, Quiet, At, Going
<1>. QED  BY <1>1, FinishKeeps

LEMMA IterateKeeps ==
  ASSUME AgentAssumption, Typed, NEW s \in Agent, Own(s), Iterate(s)
  PROVE  Frame(s) /\ Own(s)' /\ Shrinks(s)
<1>. DEFINE n == exec[s].iteration + 1
<1>1. /\ exec[s].pc = "loop" /\ ~exec[s].hard /\ EmitIfThere(s, FALSE) /\ Quiet
      /\ exec[s].iteration < MaxIterations[s] /\ session' = session
  BY DEF Iterate, At, Quiet
<1>2. exec' = [exec EXCEPT ![s].pc = "llm", ![s].iteration = n]
  BY DEF Iterate
<1>3. n \in Nat /\ n <= MaxIterations[s]
  BY <1>1, TypesOfOne DEF AgentAssumption
<1>. HIDE DEF n
<1>4. /\ OnlyExec(s) /\ exec'[s].pc = "llm" /\ exec'[s].iteration = n
      /\ exec'[s].todo = exec[s].todo
      /\ exec'[s].action = exec[s].action /\ exec'[s].hard = exec[s].hard
      /\ exec'[s].always = exec[s].always /\ exec'[s].failed = exec[s].failed
  <2>1. "llm" \in PC
    BY DEF PC
  <2>. QED  BY <1>2, <1>3, <2>1, ExecIterates
<1>5. OnlyStream(s) /\ (reader'[s].on => reader[s].on)
  BY <1>1, EmitIfThereDoes
<1>6. Frame(s)
  BY <1>1, <1>4, <1>5, SessionStays, QuietFrame
<1>7. Own(s)'
  BY <1>1, <1>3, <1>4, <1>5 DEF Own, FreshInv, ConsentInv, LateInv, Going, There, Quiet, history
<1>. QED  BY <1>1, <1>4, <1>6, <1>7 DEF Shrinks, Going, There

LEMMA AnswerKeeps ==
  ASSUME AgentAssumption, Typed, NEW s \in Agent, Own(s), Answer(s)
  PROVE  Frame(s) /\ Own(s)' /\ Shrinks(s)
<1>1. exec[s].pc = "llm" /\ Quiet
  BY DEF Answer, At, Quiet
<1>2. PICK tools \in Replies[s] :
        IF tools = <<>> THEN Finish(s)
        ELSE /\ exec' = [exec EXCEPT ![s].pc = "tools", ![s].todo = tools]
             /\ EmitIfThere(s, FALSE)
             /\ UNCHANGED session
  BY DEF Answer
<1>3. CASE tools = <<>>
  BY <1>1, <1>2, <1>3, FinishKeeps DEF Going
<1>4. CASE tools # <<>>
  <2>1. tools \in Seq(STRING) /\ "tools" \in PC
    BY DEF AgentAssumption, PC
  <2>2. /\ OnlyExec(s) /\ exec'[s].pc = "tools" /\ exec'[s].todo = tools
        /\ exec'[s].iteration = exec[s].iteration
        /\ exec'[s].action = exec[s].action /\ exec'[s].hard = exec[s].hard
        /\ exec'[s].always = exec[s].always /\ exec'[s].failed = exec[s].failed
    BY <1>2, <1>4, <2>1, ExecTurns
  <2>3. OnlyStream(s) /\ (reader'[s].on => reader[s].on) /\ session' = session
    BY <1>2, <1>4, EmitIfThereDoes
  <2>4. Frame(s)
    BY <1>1, <2>2, <2>3, SessionStays, QuietFrame
  <2>5. Own(s)'
    BY <1>1, <2>2, <2>3 DEF Own, FreshInv, ConsentInv, LateInv, Going, There, Quiet, history
  <2>. QED  BY <1>1, <2>2, <2>3, <2>4, <2>5 DEF Shrinks, Going, There
<1>. QED  BY <1>3, <1>4

LEMMA FailKeeps ==
  ASSUME Typed, NEW s \in Agent, Own(s), Fail(s)
  PROVE  Frame(s) /\ Own(s)' /\ Shrinks(s)
<1>1. /\ exec[s].pc = "llm" /\ UpdateStatus(s, "failed", FALSE) /\ Quiet
      /\ exec' = [exec EXCEPT ![s].pc = "ended", ![s].failed = TRUE]
  BY DEF Fail, At, Quiet
<1>2. /\ OnlyExec(s) /\ exec'[s].pc = "ended" /\ exec'[s].failed = TRUE
      /\ exec'[s].iteration = exec[s].iteration /\ exec'[s].todo = exec[s].todo
      /\ exec'[s].action = exec[s].action /\ exec'[s].hard = exec[s].hard
      /\ exec'[s].always = exec[s].always
  BY <1>1, ExecFails
<1>3. "failed" \in Status \ {"none"} /\ "failed" \in Final
  BY DEF Status, ActiveStatus, Final
<1>4. /\ OnlyStream(s) /\ OnlySession(s)
      /\ There(s) => /\ session'[s].status = "failed"
                     /\ session'[s].pending = session[s].pending
                     /\ session'[s].actions = session[s].actions
                     /\ session'[s].timers = session[s].timers + 1
      /\ ~There(s) => session'[s] = session[s]
      /\ There(s)' = There(s)
  BY <1>1, <1>3, UpdateDoes
<1>5. Frame(s)
  BY <1>1, <1>2, <1>4, QuietFrame
<1>6. Own(s)'
  <2>1. session[s].timers \in Nat
    BY TypesOfOne
  <2>2. reader'[s].on => exec'[s].failed
    BY <1>2, Zenon
  <2>3. session'[s].status \in Final => session'[s].timers > 0
    BY <1>3, <1>4, <2>1 DEF Own, FreshInv, ConsentInv, LateInv, There
  <2>4. There(s)' => session'[s].status \in Final
    BY <1>3, <1>4 DEF There
  <2>. QED  BY <1>1, <1>2, <1>4, <2>2, <2>3, <2>4
    DEF Own, FreshInv, ConsentInv, LateInv, Going, There, Quiet, history, ActiveStatus
<1>. QED  BY <1>1, <1>2, <1>4, <1>5, <1>6 DEF Shrinks, Going

(* A tool is done with, or passed over.                                    *)
LEMMA SkipKeeps ==
  ASSUME Typed, NEW s \in Agent, Own(s), Quiet, EmitIfThere(s, FALSE), session' = session,
         exec' = Skip(s), exec[s].pc \in {"tools", "using", "asking"}, exec[s].todo # <<>>
  PROVE  Frame(s) /\ Own(s)' /\ Shrinks(s)
<1>. DEFINE t == Tail(exec[s].todo)
<1>1. exec' = [exec EXCEPT ![s].pc = "tools", ![s].todo = t]
  BY DEF Skip
<1>2. t \in Seq(STRING) /\ "tools" \in PC
  <2>1. exec[s].todo \in Seq(STRING)
    BY TypesOfOne
  <2>. QED  BY <2>1, TailType DEF PC
<1>. HIDE DEF t
<1>3. /\ OnlyExec(s) /\ exec'[s].pc = "tools" /\ exec'[s].todo = t
      /\ exec'[s].iteration = exec[s].iteration
      /\ exec'[s].action = exec[s].action /\ exec'[s].hard = exec[s].hard
      /\ exec'[s].always = exec[s].always /\ exec'[s].failed = exec[s].failed
  BY <1>1, <1>2, ExecTurns
<1>4. OnlyStream(s) /\ (reader'[s].on => reader[s].on)
  BY EmitIfThereDoes
<1>5. Frame(s)
  BY <1>3, <1>4, SessionStays, QuietFrame
<1>6. Own(s)'
  BY <1>3, <1>4 DEF Own, FreshInv, ConsentInv, LateInv, Going, There, Quiet, history
<1>. QED  BY <1>3, <1>4, <1>5, <1>6 DEF Shrinks, Going, There

LEMMA ApprovalTimesOutKeeps ==
  ASSUME Typed, NEW s \in Agent, Own(s), ApprovalTimesOut(s)
  PROVE  Frame(s) /\ Own(s)' /\ Shrinks(s)
  BY SkipKeeps DEF ApprovalTimesOut, At, Quiet, Own, FreshInv, ConsentInv, LateInv

LEMMA ToolReturnsKeeps ==
  ASSUME Typed, NEW s \in Agent, Own(s), ToolReturns(s)
  PROVE  Frame(s) /\ Own(s)' /\ Shrinks(s)
  BY SkipKeeps DEF ToolReturns, At, Quiet, Own, FreshInv, ConsentInv, LateInv

LEMMA EndIterationKeeps ==
  ASSUME Typed, NEW s \in Agent, Own(s), EndIteration(s)
  PROVE  Frame(s) /\ Own(s)' /\ Shrinks(s)
<1>1. /\ exec[s].pc = "tools" /\ EmitIfThere(s, FALSE) /\ Quiet /\ session' = session
      /\ exec' = [exec EXCEPT ![s].pc = "loop", ![s].todo = <<>>]
  BY DEF EndIteration, At, Quiet
<1>2. <<>> \in Seq(STRING) /\ "loop" \in PC
  BY DEF PC
<1>3. /\ OnlyExec(s) /\ exec'[s].pc = "loop" /\ exec'[s].todo = <<>>
      /\ exec'[s].iteration = exec[s].iteration
      /\ exec'[s].action = exec[s].action /\ exec'[s].hard = exec[s].hard
      /\ exec'[s].always = exec[s].always /\ exec'[s].failed = exec[s].failed
  BY <1>1, <1>2, ExecTurns
<1>4. OnlyStream(s) /\ (reader'[s].on => reader[s].on)
  BY <1>1, EmitIfThereDoes
<1>5. Frame(s)
  BY <1>1, <1>3, <1>4, SessionStays, QuietFrame
<1>6. Own(s)'
  BY <1>1, <1>3, <1>4 DEF Own, FreshInv, ConsentInv, LateInv, Going, There, Quiet, history
<1>. QED  BY <1>1, <1>3, <1>4, <1>5, <1>6 DEF Shrinks, Going, There

(* A tool that is not held back was said "always" to, or is harmless; it   *)
(* does not begin after a stop.                                            *)
LEMMA UseToolKeeps ==
  ASSUME Typed, NEW s \in Agent, Own(s), UseTool(s)
  PROVE  Frame(s) /\ Own(s)' /\ Shrinks(s)
<1>1. /\ exec[s].pc = "tools" /\ exec[s].todo # <<>> /\ ~exec[s].hard /\ ~Held(s)
      /\ EmitIfThere(s, FALSE) /\ session' = session
      /\ exec' = [exec EXCEPT ![s].pc = "using", ![s].action = 0]
      /\ UNCHANGED <<plan, asked, approved, history>>
  BY DEF UseTool, At
<1>2. late' = late
  <2>1. late' = [late EXCEPT ![s] = late[s]]
    BY <1>1 DEF UseTool, Begin
  <2>. QED  BY <2>1 DEF Typed
<1>3. /\ OnlyExec(s) /\ exec'[s].pc = "using" /\ exec'[s].action = 0
      /\ exec'[s].iteration = exec[s].iteration /\ exec'[s].todo = exec[s].todo
      /\ exec'[s].hard = exec[s].hard
      /\ exec'[s].always = exec[s].always /\ exec'[s].failed = exec[s].failed
  <2>1. "using" \in PC /\ 0 \in Nat
    BY DEF PC
  <2>. QED  BY <1>1, <2>1, ExecActs
<1>4. OnlyStream(s) /\ (reader'[s].on => reader[s].on)
  BY <1>1, EmitIfThereDoes
<1>5. Quiet
  BY <1>1, <1>2 DEF Quiet
<1>6. Frame(s)
  BY <1>1, <1>3, <1>4, <1>5, SessionStays, QuietFrame
<1>7. Tool(s)' \in Risky => exec'[s].action = 0 /\ Tool(s)' \in approved[s].tools
  BY <1>1, <1>3 DEF Tool, Held, Own, FreshInv, ConsentInv, LateInv
<1>8. Own(s)'
  BY <1>1, <1>3, <1>4, <1>5, <1>7
    DEF Own, FreshInv, ConsentInv, LateInv, Going, There, Quiet, history
<1>. QED  BY <1>1, <1>3, <1>6, <1>8 DEF Shrinks, Going, There

LEMMA RequestApprovalKeeps ==
  ASSUME Typed, NEW s \in Agent, Own(s), RequestApproval(s)
  PROVE  Frame(s) /\ Own(s)' /\ Shrinks(s)
<1>1. /\ exec[s].pc = "tools" /\ exec[s].todo # <<>> /\ ~exec[s].hard
      /\ EmitIfThere(s, FALSE) /\ Quiet
  BY DEF RequestApproval, At, Quiet
<1>2. CASE There(s)
  <2>. DEFINE k == session[s].actions + 1
  <2>1. /\ exec' = [exec EXCEPT ![s].pc = "asking", ![s].action = k]
        /\ session' = [session EXCEPT ![s].status = "waiting_approval",
                         ![s].actions = k, ![s].pending = k]
    BY <1>2 DEF RequestApproval
  <2>2. /\ k \in Nat /\ "asking" \in PC /\ "waiting_approval" \in Status
        /\ "waiting_approval" \in ActiveStatus /\ "waiting_approval" \notin Final
    BY TypesOfOne DEF PC, Status, ActiveStatus, Final
  <2>. HIDE DEF k
  <2>3. /\ OnlyExec(s) /\ exec'[s].pc = "asking" /\ exec'[s].action = k
        /\ exec'[s].iteration = exec[s].iteration /\ exec'[s].todo = exec[s].todo
        /\ exec'[s].hard = exec[s].hard
        /\ exec'[s].always = exec[s].always /\ exec'[s].failed = exec[s].failed
    BY <2>1, <2>2, ExecActs
  <2>4. /\ OnlySession(s) /\ session'[s].status = "waiting_approval"
        /\ session'[s].timers = session[s].timers
        /\ session'[s].pending = k /\ session'[s].actions = k
    <3>1. session' = [session EXCEPT ![s].status = "waiting_approval",
                        ![s].actions = k, ![s].pending = k]
      BY <2>1
    <3>2. k \in Nat /\ "waiting_approval" \in Status
      BY <2>2
    <3>. QED  BY <3>1, <3>2, SessionAsks
  <2>5. OnlyStream(s) /\ (reader'[s].on => reader[s].on)
    BY <1>1, EmitIfThereDoes
  <2>6. Frame(s)
    BY <1>1, <2>3, <2>4, <2>5, QuietFrame
  <2>7. late[s] = 0
    BY <1>1 DEF Own, FreshInv, ConsentInv, LateInv
  <2>8. Own(s)'
    BY <1>1, <2>2, <2>3, <2>4, <2>5, <2>7
      DEF Own, FreshInv, ConsentInv, LateInv, Going, There, Quiet, history
  <2>. QED  BY <1>1, <1>2, <2>3, <2>6, <2>8 DEF Shrinks, Going
<1>3. CASE ~There(s)
  BY <1>1, <1>3, SkipKeeps DEF RequestApproval
<1>. QED  BY <1>2, <1>3

LEMMA ExecutorKeeps ==
  ASSUME AgentAssumption, Typed, NEW s \in Agent, Own(s), ExecutorStep(s)
  PROVE  Frame(s) /\ Own(s)' /\ Shrinks(s)
  BY StartKeeps, IterateKeeps, TerminateKeeps, AnswerKeeps, FailKeeps, UseToolKeeps,
     RequestApprovalKeeps, ApprovalTimesOutKeeps, ToolReturnsKeeps, EndIterationKeeps
  DEF ExecutorStep
-----------------------------------------------------------------------------
(* The user's requests, and the clock *)

LEMMA AskKeeps ==
  ASSUME Typed, NEW s \in Agent, Own(s), Ask(s)
  PROVE  Frame(s) /\ Own(s)' /\ Shrinks(s)
<1>1. /\ s \notin created /\ asked' = asked \union {s}
      /\ UNCHANGED <<plan, session, exec, approved, late, events, reader>>
      /\ UNCHANGED <<pauses, excused, revived, created>>
  BY DEF Ask, running, watching, history
<1>2. OnlyExec(s) /\ OnlySession(s) /\ OnlyStream(s)
  BY <1>1, ExecStays, SessionStays, StreamStays DEF watching
<1>3. Frame(s)
  BY <1>1, <1>2 DEF Frame, Typed
<1>. QED  BY <1>1, <1>3 DEF Own, FreshInv, ConsentInv, LateInv, Shrinks, Going, There, Tool

LEMMA RefuseKeeps ==
  ASSUME Typed, NEW s \in Agent, Own(s), Refuse(s)
  PROVE  Frame(s) /\ Own(s)' /\ Shrinks(s)
<1>1. /\ asked' = asked \ {s}
      /\ UNCHANGED <<plan, session, exec, approved, late, events, reader>>
      /\ UNCHANGED <<pauses, excused, revived, created>>
  BY DEF Refuse, running, watching, history
<1>2. OnlyExec(s) /\ OnlySession(s) /\ OnlyStream(s)
  BY <1>1, ExecStays, SessionStays, StreamStays DEF watching
<1>3. Frame(s)
  BY <1>1, <1>2 DEF Frame, Typed
<1>. QED  BY <1>1, <1>3 DEF Own, FreshInv, ConsentInv, LateInv, Shrinks, Going, There, Tool

LEMMA SessionTurns ==
  ASSUME Typed, NEW s \in Agent, NEW st \in Status,
         session' = [session EXCEPT ![s].status = st]
  PROVE  /\ OnlySession(s) /\ session'[s].status = st
         /\ session'[s].timers = session[s].timers
         /\ session'[s].pending = session[s].pending
         /\ session'[s].actions = session[s].actions
<1>1. session \in [Agent -> Entry]
  BY DEF Typed
<1>. QED  BY <1>1 DEF OnlySession, Entry

LEMMA RunKeeps ==
  ASSUME Typed, NEW s \in Agent, Own(s), Run(s)
  PROVE  Frame(s) /\ Own(s)'
<1>1. /\ s \in asked /\ asked' = asked \ {s} /\ created' = created \union {s}
      /\ session' = [session EXCEPT ![s].status = "initializing"]
      /\ exec' = [exec EXCEPT ![s].pc = "scheduled"]
      /\ UNCHANGED <<plan, approved, late, watching, pauses, excused, revived>>
  BY DEF Run
<1>2. /\ "initializing" \in Status /\ "initializing" \in ActiveStatus
      /\ "initializing" \notin Final /\ "scheduled" \in PC
  BY DEF Status, ActiveStatus, Final, PC
<1>3. /\ OnlyExec(s) /\ exec'[s].pc = "scheduled"
      /\ exec'[s].iteration = exec[s].iteration /\ exec'[s].todo = exec[s].todo
      /\ exec'[s].action = exec[s].action /\ exec'[s].hard = exec[s].hard
      /\ exec'[s].always = exec[s].always /\ exec'[s].failed = exec[s].failed
  BY <1>1, <1>2, ExecMoves
<1>4. /\ OnlySession(s) /\ session'[s].status = "initializing"
      /\ session'[s].timers = session[s].timers
      /\ session'[s].pending = session[s].pending
      /\ session'[s].actions = session[s].actions
  BY <1>1, <1>2, SessionTurns
<1>5. OnlyStream(s) /\ reader' = reader
  BY <1>1, StreamStays DEF watching
<1>6. exec[s].pc = "none" /\ late[s] = 0
  BY <1>1 DEF Own, FreshInv, ConsentInv, LateInv
<1>7. Frame(s)
  BY <1>1, <1>3, <1>4, <1>5 DEF Frame, Typed
<1>8. Own(s)'
  BY <1>1, <1>2, <1>3, <1>4, <1>5, <1>6 DEF Own, FreshInv, ConsentInv, LateInv, Going, There
<1>. QED  BY <1>7, <1>8

LEMMA ApprovedGrows ==
  ASSUME Typed, NEW s \in Agent, NEW A \in SUBSET Nat, NEW T \in SUBSET STRING,
         approved' = [approved EXCEPT ![s].actions = A, ![s].tools = T]
  PROVE  /\ approved' \in [Agent -> [actions: SUBSET Nat, tools: SUBSET STRING]]
         /\ \A a \in Agent : a # s => approved'[a] = approved[a]
         /\ approved'[s].actions = A /\ approved'[s].tools = T
<1>1. approved \in [Agent -> [actions: SUBSET Nat, tools: SUBSET STRING]]
  BY DEF Typed
<1>. QED  BY <1>1

LEMMA StopKeeps ==
  ASSUME Typed, NEW s \in Agent, Own(s), Stop(s)
  PROVE  Frame(s) /\ Own(s)' /\ Shrinks(s)
<1>1. /\ There(s) /\ UpdateStatus(s, "stopped", FALSE) /\ excused' = excused \union {s}
      /\ exec' = [exec EXCEPT ![s].hard = TRUE]
      /\ UNCHANGED <<plan, asked, approved, late, pauses, revived, created>>
  BY DEF Stop
<1>2. /\ OnlyExec(s) /\ exec'[s].hard = TRUE /\ exec'[s].pc = exec[s].pc
      /\ exec'[s].iteration = exec[s].iteration /\ exec'[s].todo = exec[s].todo
      /\ exec'[s].action = exec[s].action
      /\ exec'[s].always = exec[s].always /\ exec'[s].failed = exec[s].failed
  BY <1>1, ExecStops
<1>3. "stopped" \in Status \ {"none"} /\ "stopped" \in Final
  BY DEF Status, ActiveStatus, Final
<1>4. /\ OnlyStream(s) /\ OnlySession(s)
      /\ reader'[s].on => reader[s].on
      /\ session'[s].status = "stopped"
      /\ session'[s].pending = session[s].pending
      /\ session'[s].actions = session[s].actions
      /\ session'[s].timers = session[s].timers + 1
      /\ There(s)' = There(s)
  BY <1>1, <1>3, UpdateDoes
<1>5. Frame(s)
  BY <1>1, <1>2, <1>4 DEF Frame, Typed
<1>6. Own(s)'
  <2>1. session'[s].timers > 0
    BY <1>4, TypesOfOne
  <2>2. exec[s].pc # "none"
    BY <1>1 DEF Own, FreshInv, ConsentInv, LateInv
  <2>3. late[s] # 0 => exec'[s].hard
    BY <1>2, Zenon
  <2>. QED  BY <1>1, <1>2, <1>3, <1>4, <2>1, <2>2, <2>3
    DEF Own, FreshInv, ConsentInv, LateInv, Going, There, Tool
<1>. QED  BY <1>1, <1>2, <1>4, <1>5, <1>6 DEF Shrinks, Going

LEMMA PauseKeeps ==
  ASSUME Typed, NEW s \in Agent, Own(s), Pause(s)
  PROVE  Frame(s) /\ Own(s)' /\ Shrinks(s)
<1>1. /\ There(s) /\ UpdateStatus(s, "paused", FALSE) /\ excused' = excused \union {s}
      /\ pauses' = [pauses EXCEPT ![s] = pauses[s] + 1]
      /\ revived' = IF exec[s].pc = "ended" THEN revived \union {s} ELSE revived
      /\ UNCHANGED <<plan, asked, exec, approved, late, created>>
  BY DEF Pause, At, running
<1>2. OnlyExec(s)
  BY <1>1, ExecStays
<1>3. "paused" \in Status \ {"none"} /\ "paused" \notin Final
  BY DEF Status, ActiveStatus, Final
<1>4. /\ OnlyStream(s) /\ OnlySession(s)
      /\ reader'[s].on => reader[s].on
      /\ session'[s].status = "paused"
      /\ session'[s].pending = session[s].pending
      /\ session'[s].actions = session[s].actions
      /\ There(s)' = There(s)
  BY <1>1, <1>3, UpdateDoes
<1>5. pauses' \in [Agent -> Nat]
  BY <1>1 DEF Typed
<1>6. Frame(s)
  BY <1>1, <1>2, <1>4, <1>5 DEF Frame, Typed
<1>7. Own(s)'
  BY <1>1, <1>3, <1>4 DEF Own, FreshInv, ConsentInv, LateInv, Going, There, Tool
<1>. QED  BY <1>1, <1>4, <1>6, <1>7 DEF Shrinks, Going

LEMMA ResumeKeeps ==
  ASSUME Typed, NEW s \in Agent, Own(s), Resume(s)
  PROVE  Frame(s) /\ Own(s)' /\ Shrinks(s)
<1>1. /\ There(s) /\ session[s].status = "paused" /\ UpdateStatus(s, "running", FALSE)
      /\ UNCHANGED <<plan, asked, exec, approved, late, history>>
  BY DEF Resume, running
<1>2. OnlyExec(s) /\ Quiet
  BY <1>1, ExecStays DEF Quiet
<1>3. /\ "running" \in Status \ {"none"} /\ "running" \notin Final
      /\ "running" \in ActiveStatus /\ "paused" \notin Final
  BY DEF Status, ActiveStatus, Final
<1>4. /\ OnlyStream(s) /\ OnlySession(s)
      /\ reader'[s].on => reader[s].on
      /\ session'[s].status = "running"
      /\ session'[s].pending = session[s].pending
      /\ session'[s].actions = session[s].actions
      /\ There(s)' = There(s)
  BY <1>1, <1>3, UpdateDoes
<1>5. Frame(s)
  BY <1>1, <1>2, <1>4, QuietFrame
<1>6. Own(s)'
  BY <1>1, <1>3, <1>4 DEF Own, FreshInv, ConsentInv, LateInv, Going, There, Tool, history
<1>. QED  BY <1>1, <1>4, <1>5, <1>6 DEF Shrinks, Going
(* Whoever waits for this very action goes on; nobody else hears of it.    *)
LEMMA ApproveKeeps ==
  ASSUME Typed, NEW s \in Agent, NEW r \in {"approve", "reject", "always_approve"},
         Own(s), Approve(s, r)
  PROVE  Frame(s) /\ Own(s)' /\ Shrinks(s)
<1>. DEFINE action == session[s].pending
            yes == r # "reject"
            always == r = "always_approve"
            heard == At(s, "asking") /\ exec[s].action = action
            A == approved[s].actions \union {action}
            T == IF heard /\ always THEN approved[s].tools \union {Tool(s)}
                 ELSE approved[s].tools
            L == IF always THEN exec[s].always \union {Tool(s)} ELSE exec[s].always
            n == IF exec[s].hard THEN late[s] + 1 ELSE late[s]
<1>1. /\ There(s) /\ Emit(s, FALSE)
      /\ session' = [session EXCEPT ![s].status = "running", ![s].pending = 0]
      /\ revived' = IF exec[s].pc = "ended" THEN revived \union {s} ELSE revived
      /\ UNCHANGED <<plan, asked, pauses, excused, created>>
  BY DEF Approve, At
<1>2. exec' = IF ~heard THEN exec
              ELSE IF ~yes THEN Skip(s)
              ELSE [exec EXCEPT ![s].pc = "using", ![s].always = L]
  BY DEF Approve
<1>3. late' = IF heard /\ yes THEN [late EXCEPT ![s] = n] ELSE late
  BY DEF Approve
<1>4. approved' = IF ~yes THEN approved
                  ELSE [approved EXCEPT ![s].actions = A, ![s].tools = T]
  BY DEF Approve
<1>5. heard => /\ exec[s].pc = "asking" /\ exec[s].todo # <<>> /\ late[s] = 0
               /\ exec[s].action = action
  BY DEF At, Own, FreshInv, ConsentInv, LateInv
<1>6. /\ action \in Nat /\ approved[s].actions \in SUBSET Nat
      /\ approved[s].tools \in SUBSET STRING /\ exec[s].always \in SUBSET STRING
      /\ late[s] \in Nat
  <2>1. approved[s] \in [actions: SUBSET Nat, tools: SUBSET STRING]
    BY DEF Typed
  <2>2. late[s] \in Nat
    BY DEF Typed
  <2>. QED  BY <2>1, <2>2, TypesOfOne
<1>7. heard => Tool(s) \in STRING
  <2>1. exec[s].todo \in Seq(STRING)
    BY TypesOfOne
  <2>. QED  BY <1>5, <2>1, TailType DEF Tool
<1>8. A \in SUBSET Nat /\ T \in SUBSET STRING /\ n \in Nat
  BY <1>6, <1>7
<1>9. heard => L \in SUBSET STRING
  BY <1>6, <1>7
<1>10. heard /\ yes => (exec'[s].todo = exec[s].todo => Tool(s)' = Tool(s))
  BY DEF Tool
<1>. HIDE DEF A, T, L, n, heard, action
<1>11. /\ OnlySession(s) /\ session'[s].status = "running"
       /\ session'[s].timers = session[s].timers
       /\ session'[s].pending = 0 /\ session'[s].actions = session[s].actions
  <2>1. "running" \in Status
    BY DEF Status, ActiveStatus
  <2>. QED  BY <1>1, <2>1, SessionAnswered
<1>12. OnlyStream(s) /\ (reader'[s].on => reader[s].on)
  BY <1>1, EmitDoes
<1>13. /\ approved' \in [Agent -> [actions: SUBSET Nat, tools: SUBSET STRING]]
       /\ \A a \in Agent : a # s => approved'[a] = approved[a]
       /\ yes => approved'[s].actions = A /\ approved'[s].tools = T
       /\ ~yes => approved' = approved
  <2>1. CASE yes
    BY <1>4, <1>8, <2>1, ApprovedGrows
  <2>2. CASE ~yes
    BY <1>4, <2>2 DEF Typed
  <2>. QED  BY <2>1, <2>2
<1>14. /\ late' \in [Agent -> Nat]
       /\ \A a \in Agent : a # s => late'[a] = late[a]
       /\ late'[s] = IF heard /\ yes THEN n ELSE late[s]
  BY <1>3, <1>8 DEF Typed
<1>15. approved[s].tools \subseteq T /\ approved[s].actions \subseteq A /\ action \in A
  BY DEF A, T
<1>16. "running" \notin Final /\ "running" \in ActiveStatus
  BY DEF Final, ActiveStatus
<1>17. session'[s].pending <= session'[s].actions
  BY <1>11, TypesOfOne
<1>18. exec[s].pc # "none" /\ (exec[s].pc # "none" => s \in created)
  BY <1>1 DEF Own, FreshInv, ConsentInv, LateInv
<1>19. CASE heard /\ yes
  <2>1. "using" \in PC
    BY DEF PC
  <2>2. /\ OnlyExec(s) /\ exec'[s].pc = "using" /\ exec'[s].always = L
        /\ exec'[s].iteration = exec[s].iteration /\ exec'[s].todo = exec[s].todo
        /\ exec'[s].action = exec[s].action /\ exec'[s].hard = exec[s].hard
        /\ exec'[s].failed = exec[s].failed
    BY <1>2, <1>9, <1>19, ExecTrusts
  <2>3. L \subseteq T
    BY <1>19 DEF L, T, Own, FreshInv, ConsentInv, LateInv
  <2>4. Frame(s)
    BY <1>1, <1>11, <1>12, <1>13, <1>14, <2>2 DEF Frame, Typed
  <2>5. exec'[s].action \in approved'[s].actions
    BY <1>5, <1>13, <1>15, <1>19, <2>2
  <2>6. late'[s] <= 1 /\ (late'[s] # 0 => exec'[s].hard)
    BY <1>5, <1>14, <1>19, <2>2 DEF n
  <2>7. Own(s)'
    BY <1>1, <1>5, <1>11, <1>12, <1>13, <1>16, <1>17, <1>18, <1>19, <2>2, <2>3, <2>5, <2>6
    DEF Own, FreshInv, ConsentInv, LateInv, Going, There
  <2>. QED  BY <1>1, <1>5, <1>19, <2>2, <2>4, <2>7 DEF Shrinks, Going
<1>20. CASE heard /\ ~yes
  <2>. DEFINE t == Tail(exec[s].todo)
  <2>1. t \in Seq(STRING) /\ "tools" \in PC
    <3>1. exec[s].todo \in Seq(STRING)
      BY TypesOfOne
    <3>. QED  BY <1>5, <1>20, <3>1, TailType DEF PC
  <2>2. exec' = [exec EXCEPT ![s].pc = "tools", ![s].todo = t]
    BY <1>2, <1>20 DEF Skip
  <2>. HIDE DEF t
  <2>3. /\ OnlyExec(s) /\ exec'[s].pc = "tools"
        /\ exec'[s].always = exec[s].always
        /\ exec'[s].iteration = exec[s].iteration
        /\ exec'[s].hard = exec[s].hard /\ exec'[s].failed = exec[s].failed
    BY <2>1, <2>2, ExecTurns
  <2>4. late'[s] = 0 /\ approved' = approved
    BY <1>5, <1>13, <1>14, <1>20
  <2>5. Frame(s)
    BY <1>1, <1>11, <1>12, <1>13, <1>14, <2>3 DEF Frame, Typed
  <2>6. Own(s)'
    BY <1>1, <1>5, <1>11, <1>12, <1>16, <1>17, <1>18, <1>20, <2>3, <2>4
      DEF Own, FreshInv, ConsentInv, LateInv, Going, There
  <2>. QED  BY <1>1, <1>5, <1>20, <2>3, <2>5, <2>6 DEF Shrinks, Going
<1>21. CASE ~heard
  <2>1. exec' = exec /\ late'[s] = late[s]
    BY <1>2, <1>14, <1>21
  <2>2. OnlyExec(s)
    BY <2>1, ExecStays
  <2>3. Frame(s)
    BY <1>1, <1>11, <1>12, <1>13, <1>14, <2>2 DEF Frame, Typed
  <2>4. approved[s].tools \subseteq approved'[s].tools /\ approved[s].actions \subseteq approved'[s].actions
    BY <1>13, <1>15
  <2>5. Own(s)'
    BY <1>1, <1>11, <1>12, <1>16, <1>17, <1>18, <2>1, <2>4
      DEF Own, FreshInv, ConsentInv, LateInv, Going, There, Tool
  <2>. QED  BY <1>1, <2>1, <2>3, <2>5 DEF Shrinks, Going
<1>. QED  BY <1>19, <1>20, <1>21

LEMMA SessionForgets ==
  ASSUME Typed, NEW s \in Agent,
         session' = [session EXCEPT ![s].status = "none", ![s].timers = 0, ![s].pending = 0]
  PROVE  /\ OnlySession(s) /\ session'[s].status = "none" /\ session'[s].pending = 0
         /\ session'[s].actions = session[s].actions
<1>1. session \in [Agent -> Entry] /\ "none" \in Status
  BY DEF Typed, Status
<1>. QED  BY <1>1 DEF OnlySession, Entry

LEMMA SessionTicks ==
  ASSUME Typed, NEW s \in Agent, NEW n \in Nat, session' = [session EXCEPT ![s].timers = n]
  PROVE  /\ OnlySession(s) /\ session'[s].status = session[s].status
         /\ session'[s].pending = session[s].pending
         /\ session'[s].actions = session[s].actions
<1>1. session \in [Agent -> Entry]
  BY DEF Typed
<1>. QED  BY <1>1 DEF OnlySession, Entry

(* A session is forgotten only when it is final.                           *)
LEMMA CleanupKeeps ==
  ASSUME Typed, NEW s \in Agent, Own(s), Cleanup(s)
  PROVE  Frame(s) /\ Own(s)' /\ Shrinks(s)
<1>1. /\ session[s].timers > 0 /\ Quiet /\ exec' = exec /\ UNCHANGED watching
  BY DEF Cleanup, Quiet, running
<1>2. "none" \notin Final /\ ActiveStatus \cap Final = {}
  BY DEF Final, ActiveStatus
<1>3. CASE session[s].status \in Final
  <2>1. /\ OnlySession(s) /\ session'[s].status = "none" /\ session'[s].pending = 0
        /\ session'[s].actions = session[s].actions
    BY <1>3, SessionForgets DEF Cleanup
  <2>2. Frame(s)
    BY <1>1, <2>1, ExecStays, StreamStays, QuietFrame
  <2>3. session'[s].pending <= session'[s].actions
    BY <2>1, TypesOfOne
  <2>4. Own(s)'
    BY <1>1, <1>2, <1>3, <2>1, <2>3
      DEF Own, FreshInv, ConsentInv, LateInv, Going, There, Tool, Quiet, history, watching
  <2>. QED  BY <1>1, <2>1, <2>2, <2>4 DEF Shrinks, Going, There
<1>4. CASE session[s].status \notin Final
  <2>. DEFINE n == session[s].timers - 1
  <2>1. session' = [session EXCEPT ![s].timers = n]
    BY <1>4 DEF Cleanup
  <2>2. n \in Nat
    BY <1>1, TypesOfOne
  <2>. HIDE DEF n
  <2>3. /\ OnlySession(s) /\ session'[s].status = session[s].status
        /\ session'[s].pending = session[s].pending
        /\ session'[s].actions = session[s].actions
    BY <2>1, <2>2, SessionTicks
  <2>4. Frame(s)
    BY <1>1, <2>3, ExecStays, StreamStays, QuietFrame
  <2>5. Own(s)'
    BY <1>1, <1>4, <2>3
      DEF Own, FreshInv, ConsentInv, LateInv, Going, There, Tool, Quiet, history, watching
  <2>. QED  BY <1>1, <2>3, <2>4, <2>5 DEF Shrinks, Going, There
<1>. QED  BY <1>3, <1>4

LEMMA DisconnectDoes ==
  ASSUME Typed, NEW s \in Agent, Disconnect(s)
  PROVE  /\ OnlyStream(s) /\ events' = events /\ reader'[s].on = FALSE
         /\ reader'[s].cursor = reader[s].cursor /\ Covered(reader'[s]) = Covered(reader[s])
<1>1. reader' = [reader EXCEPT ![s].on = FALSE] /\ events' = events
  BY DEF Disconnect
<1>2. reader \in [Agent -> Stream] /\ events \in [Agent -> [seq: Nat, buffer: Seq(Nat)]]
  BY DEF Typed
<1>. QED  BY <1>1, <1>2 DEF OnlyStream, Stream, Covered

LEMMA WatchDoes ==
  ASSUME AgentAssumption, Typed, NEW s \in Agent, Watch(s)
  PROVE  /\ OnlyStream(s) /\ events' = events
         /\ reader'[s].on = (session[s].status \notin Final)
         /\ reader'[s].cursor = IF session[s].status \in Final THEN events[s].seq + 1
                                ELSE IF Replay(s) # {} THEN events[s].seq ELSE reader[s].cursor
         /\ reader'[s].heard = reader[s].heard \union Replay(s)
         /\ reader'[s].lost = reader[s].lost \union Missed(s)
         /\ reader'[s].madeUp = IF session[s].status \in Final
                                THEN reader[s].madeUp \union {events[s].seq + 1}
                                ELSE reader[s].madeUp
<1>. DEFINE final == session[s].status \in Final
            seq == events[s].seq
            h == reader[s].heard \union Replay(s)
            l == reader[s].lost \union Missed(s)
            m == IF final THEN reader[s].madeUp \union {seq + 1} ELSE reader[s].madeUp
            c == IF final THEN seq + 1 ELSE IF Replay(s) # {} THEN seq ELSE reader[s].cursor
            k == reader[s].times + 1
<1>1. /\ events' = events
      /\ reader' = [reader EXCEPT ![s].times = k, ![s].on = ~final, ![s].heard = h,
                      ![s].lost = l, ![s].madeUp = m, ![s].cursor = c]
  BY DEF Watch
<1>2. /\ reader \in [Agent -> Stream] /\ reader[s] \in Stream
      /\ events \in [Agent -> [seq: Nat, buffer: Seq(Nat)]] /\ seq \in Nat
  BY DEF Typed
<1>3. h \in SUBSET Nat /\ l \in SUBSET Nat
  <2>1. Replay(s) \subseteq Nat
    BY <1>2 DEF Replay
  <2>2. Missed(s) \subseteq Nat
    <3>1. MaxEventBuffer \in Nat
      BY DEF AgentAssumption
    <3>. QED  BY <1>2, <3>1 DEF Missed
  <2>3. reader[s].heard \in SUBSET Nat /\ reader[s].lost \in SUBSET Nat
    BY <1>2 DEF Stream
  <2>. QED  BY <2>1, <2>2, <2>3
<1>4. m \in SUBSET Nat /\ c \in Nat /\ k \in Nat
  <2>1. reader[s].madeUp \in SUBSET Nat /\ reader[s].cursor \in Nat /\ reader[s].times \in Nat
    BY <1>2 DEF Stream
  <2>. QED  BY <1>2, <2>1
<1>5. (~final) \in BOOLEAN
  OBVIOUS
<1>. HIDE DEF h, l, m, c, k, final
<1>6. /\ reader' \in [Agent -> Stream]
      /\ reader'[s].on = ~final /\ reader'[s].heard = h /\ reader'[s].lost = l
      /\ reader'[s].madeUp = m /\ reader'[s].cursor = c
      /\ \A a \in Agent : a # s => reader'[a] = reader[a]
  BY <1>1, <1>2, <1>3, <1>4, <1>5 DEF Stream
<1>7. OnlyStream(s)
  BY <1>1, <1>2, <1>6 DEF OnlyStream
<1>. QED  BY <1>1, <1>6, <1>7 DEF h, l, m, c, final

LEMMA WatchKeeps ==
  ASSUME AgentAssumption, Typed, NEW s \in Agent, Own(s), Watch(s)
  PROVE  Frame(s) /\ Own(s)' /\ Shrinks(s)
<1>1. /\ There(s) /\ UNCHANGED <<plan, asked, session, events, exec, approved, late, history>>
  BY DEF Watch, running
<1>2. OnlyStream(s) /\ reader'[s].on = (session[s].status \notin Final)
  BY WatchDoes
<1>3. Frame(s)
  BY <1>1, <1>2, ExecStays, SessionStays, QuietFrame DEF Quiet
<1>4. Own(s)'
  BY <1>1, <1>2 DEF Own, FreshInv, ConsentInv, LateInv, Going, There, Tool, history
<1>. QED  BY <1>1, <1>3, <1>4 DEF Shrinks, Going, There

LEMMA DisconnectKeeps ==
  ASSUME Typed, NEW s \in Agent, Own(s), Disconnect(s)
  PROVE  Frame(s) /\ Own(s)' /\ Shrinks(s)
<1>1. UNCHANGED <<plan, asked, session, events, exec, approved, late, history>>
  BY DEF Disconnect, running
<1>2. OnlyStream(s) /\ reader'[s].on = FALSE
  BY DisconnectDoes
<1>3. Frame(s)
  BY <1>1, <1>2, ExecStays, SessionStays, QuietFrame DEF Quiet
<1>4. Own(s)'
  BY <1>1, <1>2 DEF Own, FreshInv, ConsentInv, LateInv, Going, There, Tool, history
<1>. QED  BY <1>1, <1>3, <1>4 DEF Shrinks, Going, There
-----------------------------------------------------------------------------
(* The stream: only an event, Watch and Disconnect touch it *)

StreamStep(s) ==
  \/ UNCHANGED watching
  \/ \E done \in BOOLEAN : Emit(s, done)
  \/ Watch(s)
  \/ Disconnect(s)

(* The window moves by one.                                                *)
LEMMA WindowMoves ==
  ASSUME AgentAssumption, NEW q \in Nat, NEW b \in Seq(Nat), NEW e, NEW d,
         e.seq = q, e.buffer = b, Window(e), d.seq = q + 1,
         d.buffer = IF Len(Append(b, q + 1)) > MaxEventBuffer
                    THEN Tail(Append(b, q + 1)) ELSE Append(b, q + 1)
  PROVE  Window(d)
<1>. DEFINE all == Append(b, q + 1)
            cut == Tail(all)
            l == Len(b)
<1>1. MaxEventBuffer \in Nat /\ MaxEventBuffer > 0
  BY DEF AgentAssumption
<1>2. /\ all \in Seq(Nat) /\ Len(all) = l + 1 /\ l \in Nat
      /\ \A n \in 1..l : all[n] = b[n]
      /\ all[l + 1] = q + 1
  BY AppendProperties, LenProperties
<1>3. /\ l = IF q < MaxEventBuffer THEN q ELSE MaxEventBuffer
      /\ \A n \in 1..l : b[n] = q - l + n
  BY DEF Window
<1>4. /\ Len(cut) = l
      /\ \A n \in 1..l : cut[n] = all[n + 1]
  <2>1. all # <<>>
    <3>. HIDE DEF all, l
    <3>1. Len(all) # 0
      BY <1>2
    <3>. QED  BY <3>1, EmptySeq
  <2>. HIDE DEF all
  <2>2. /\ Len(cut) = Len(all) - 1
        /\ \A n \in 1..(Len(all) - 1) : cut[n] = all[n + 1]
    BY <1>2, <2>1, HeadTailProperties
  <2>3. Len(all) - 1 = l
    BY <1>2
  <2>. QED  BY <2>2, <2>3
<1>5. d.buffer = IF l + 1 > MaxEventBuffer THEN cut ELSE all
  BY <1>2
<1>. HIDE DEF all, cut, l
<1>6. \A n \in 1..(l + 1) : all[n] = (q + 1) - (l + 1) + n
  <2>1. l \in Nat /\ all[l + 1] = q + 1 /\ \A n \in 1..l : all[n] = b[n]
    BY <1>2
  <2>2. \A n \in 1..l : b[n] = q - l + n
    BY <1>3
  <2>3. ASSUME NEW n \in 1..(l + 1)
        PROVE  all[n] = (q + 1) - (l + 1) + n
    <3>1. n \in 1..l \/ n = l + 1
      BY <2>1
    <3>2. (q + 1) - (l + 1) + n = q - l + n /\ q - l + (l + 1) = q + 1
      BY <2>1
    <3>. QED  BY <2>1, <2>2, <3>1, <3>2
  <2>. QED  BY <2>3
<1>7. \A n \in 1..l : cut[n] = (q + 1) - l + n
  <2>1. l \in Nat
    BY <1>2
  <2>2. ASSUME NEW n \in 1..l
        PROVE  cut[n] = (q + 1) - l + n
    <3>1. n + 1 \in 1..(l + 1) /\ (q + 1) - (l + 1) + (n + 1) = (q + 1) - l + n
      BY <2>1
    <3>. QED  BY <1>4, <1>6, <3>1
  <2>. QED  BY <2>2
<1>8. CASE q < MaxEventBuffer
  <2>1. d.buffer = all /\ Len(d.buffer) = q + 1 /\ l = q
    <3>1. l = q
      BY <1>3, <1>8
    <3>2. ~(q + 1 > MaxEventBuffer)
      BY <1>1, <1>8
    <3>3. d.buffer = all
      BY <1>5, <3>1, <3>2
    <3>. QED  BY <1>2, <3>1, <3>3
  <2>2. q + 1 = IF q + 1 < MaxEventBuffer THEN q + 1 ELSE MaxEventBuffer
    BY <1>1, <1>8
  <2>. QED  BY <1>6, <2>1, <2>2 DEF Window
<1>9. CASE ~(q < MaxEventBuffer)
  <2>1. d.buffer = cut /\ Len(d.buffer) = l /\ l = MaxEventBuffer
    <3>1. l = MaxEventBuffer
      BY <1>3, <1>9
    <3>2. l + 1 > MaxEventBuffer
      BY <1>1, <3>1
    <3>3. d.buffer = cut
      BY <1>5, <3>2
    <3>. QED  BY <1>4, <3>1, <3>3
  <2>2. l = IF q + 1 < MaxEventBuffer THEN q + 1 ELSE MaxEventBuffer
    BY <1>1, <1>9, <2>1
  <2>. QED  BY <1>7, <2>1, <2>2 DEF Window
<1>. QED  BY <1>8, <1>9

LEMMA EmitHears ==
  ASSUME AgentAssumption, Typed, NEW s \in Agent, Hear(s), NEW done \in BOOLEAN, Emit(s, done)
  PROVE  Hear(s)'
<1>. DEFINE q == events[s].seq
            b == events[s].buffer
<1>1. q \in Nat /\ b \in Seq(Nat)
  BY DEF Typed
<1>2. /\ events'[s].seq = q + 1
      /\ events'[s].buffer = IF Len(Append(b, q + 1)) > MaxEventBuffer
                             THEN Tail(Append(b, q + 1)) ELSE Append(b, q + 1)
  BY EmitDoes
<1>3. Window(events'[s])
  <2>1. Window(events[s])
    BY DEF Hear
  <2>. QED  BY <1>1, <1>2, <2>1, WindowMoves
<1>4. CASE reader[s].on
  <2>1. reader'[s].cursor = q + 1 /\ Covered(reader'[s]) = Covered(reader[s]) \union {q + 1}
    BY <1>4, EmitDoes DEF Covered
  <2>2. 1..(q + 1) \subseteq Covered(reader[s]) \union {q + 1}
    BY <1>1, <1>4 DEF Hear
  <2>. QED  BY <1>2, <1>3, <2>1, <2>2 DEF Hear
<1>5. CASE ~reader[s].on
  <2>1. reader'[s] = reader[s]
    BY <1>5, EmitDoes
  <2>. QED  BY <1>3, <1>5, <2>1 DEF Hear
<1>. QED  BY <1>4, <1>5

(* What a new stream is not sent had left the buffer, or was behind its    *)
(* cursor.                                                                 *)
LEMMA ReplayCovers ==
  ASSUME AgentAssumption, Typed, NEW s \in Agent, Hear(s)
  PROVE  1..events[s].seq \subseteq Covered(reader[s]) \union Replay(s) \union Missed(s)
<1>. DEFINE q == events[s].seq
            b == events[s].buffer
            c == reader[s].cursor
<1>1. q \in Nat /\ b \in Seq(Nat) /\ c \in Nat
  BY DEF Typed, Stream
<1>2. MaxEventBuffer \in Nat /\ MaxEventBuffer > 0
  BY DEF AgentAssumption
<1>3. /\ Len(b) = IF q < MaxEventBuffer THEN q ELSE MaxEventBuffer
      /\ \A n \in 1..Len(b) : b[n] = q - Len(b) + n
      /\ 1..c \subseteq Covered(reader[s])
  BY DEF Hear, Window
<1>4. Len(b) \in Nat
  BY <1>1, LenProperties
<1>5. ASSUME NEW n \in 1..q, n \notin Covered(reader[s])
      PROVE  n \in Replay(s) \union Missed(s)
  <2>. DEFINE l == Len(b)
  <2>1. n > c
    <3>. HIDE DEF c, q
    <3>1. n \notin 1..c /\ n \in 1..q
      BY <1>3, <1>5
    <3>. QED  BY <1>1, <3>1
  <2>2. CASE n <= q - MaxEventBuffer
    BY <1>1, <1>2, <2>1, <2>2 DEF Missed
  <2>3. CASE n > q - MaxEventBuffer
    <3>. DEFINE i == n - (q - l)
    <3>1. i \in 1..l /\ q - l + i = n
      <4>. HIDE DEF l, q
      <4>1. l = (IF q < MaxEventBuffer THEN q ELSE MaxEventBuffer) /\ l \in Nat
        BY <1>3, <1>4 DEF l
      <4>2. n \in 1..q
        BY <1>5
      <4>. QED  BY <1>1, <1>2, <2>3, <4>1, <4>2
    <3>. HIDE DEF i
    <3>2. b[i] = n
      BY <1>3, <3>1
    <3>. QED  BY <2>1, <3>1, <3>2 DEF Replay
  <2>. QED  BY <1>1, <1>2, <2>2, <2>3
<1>. QED  BY <1>5

LEMMA WatchHears ==
  ASSUME AgentAssumption, Typed, NEW s \in Agent, Hear(s), Watch(s)
  PROVE  Hear(s)'
<1>. DEFINE q == events[s].seq
<1>1. events' = events /\ q \in Nat
  BY WatchDoes DEF Typed
<1>2. /\ Covered(reader[s]) \subseteq Covered(reader'[s])
      /\ Replay(s) \union Missed(s) \subseteq Covered(reader'[s])
  BY WatchDoes DEF Covered
<1>3. 1..q \subseteq Covered(reader'[s])
  BY <1>2, ReplayCovers
<1>4. 1..reader'[s].cursor \subseteq Covered(reader'[s])
  <2>1. CASE session[s].status \in Final
    <3>1. reader'[s].cursor = q + 1 /\ q + 1 \in Covered(reader'[s])
      BY <2>1, WatchDoes DEF Covered
    <3>. QED  BY <1>1, <1>3, <3>1
  <2>2. CASE session[s].status \notin Final
    <3>1. reader'[s].cursor = IF Replay(s) # {} THEN q ELSE reader[s].cursor
      BY <2>2, WatchDoes
    <3>. QED  BY <1>2, <1>3, <3>1 DEF Hear
  <2>. QED  BY <2>1, <2>2
<1>. QED  BY <1>1, <1>3, <1>4 DEF Hear

LEMMA StreamKeeps ==
  ASSUME AgentAssumption, Typed, NEW s \in Agent, \A a \in Agent : Hear(a),
         OnlyStream(s), StreamStep(s)
  PROVE  \A a \in Agent : Hear(a)'
<1>1. Hear(s)'
  <2>1. CASE UNCHANGED watching
    BY <2>1 DEF Hear, watching
  <2>2. CASE Disconnect(s)
    <3>1. /\ events' = events /\ reader'[s].on = FALSE
          /\ reader'[s].cursor = reader[s].cursor
          /\ Covered(reader'[s]) = Covered(reader[s])
      BY <2>2, DisconnectDoes
    <3>. QED  BY <3>1 DEF Hear
  <2>. QED  BY <2>1, <2>2, EmitHears, WatchHears DEF StreamStep
<1>2. \A a \in Agent : a # s => reader'[a] = reader[a] /\ events'[a] = events[a]
  BY DEF OnlyStream
<1>. QED  BY <1>1, <1>2 DEF Hear

(* Whatever the step, its stream part is one of these.                     *)
LEMMA StreamPart ==
  ASSUME NEW s \in Agent,
         \/ ExecutorStep(s) \/ Ask(s) \/ Run(s) \/ Refuse(s)
         \/ \E r \in {"approve", "reject", "always_approve"} : Approve(s, r)
         \/ Stop(s) \/ Pause(s) \/ Resume(s)
         \/ Cleanup(s) \/ Watch(s) \/ Disconnect(s)
  PROVE  StreamStep(s)
<1>1. ASSUME NEW done \in BOOLEAN, EmitIfThere(s, done)
      PROVE  StreamStep(s)
  BY <1>1 DEF EmitIfThere, StreamStep
<1>2. ASSUME NEW st, NEW done \in BOOLEAN, UpdateStatus(s, st, done)
      PROVE  StreamStep(s)
  BY <1>1, <1>2 DEF UpdateStatus
<1>3. ASSUME UNCHANGED watching
      PROVE  StreamStep(s)
  BY <1>3 DEF StreamStep
<1>4. TRUE \in BOOLEAN /\ FALSE \in BOOLEAN
  OBVIOUS
<1>5. CASE ExecutorStep(s)
  <2>1. CASE Start(s) \/ Fail(s)
    BY <1>2, <1>4, <2>1 DEF Start, Fail
  <2>2. CASE Terminate(s)
    BY <1>2, <1>4, <2>2 DEF Terminate, Finish
  <2>3. CASE Answer(s)
    BY <1>1, <1>2, <1>4, <2>3 DEF Answer, Finish
  <2>4. CASE Iterate(s) \/ UseTool(s) \/ RequestApproval(s) \/ ApprovalTimesOut(s)
             \/ ToolReturns(s) \/ EndIteration(s)
    BY <1>1, <1>4, <2>4
    DEF Iterate, UseTool, RequestApproval, ApprovalTimesOut, ToolReturns, EndIteration
  <2>. QED  BY <1>5, <2>1, <2>2, <2>3, <2>4 DEF ExecutorStep
<1>6. CASE Ask(s) \/ Run(s) \/ Refuse(s) \/ Cleanup(s)
  BY <1>3, <1>6 DEF Ask, Run, Refuse, Cleanup
<1>7. CASE Stop(s) \/ Pause(s) \/ Resume(s)
  BY <1>2, <1>4, <1>7 DEF Stop, Pause, Resume
<1>8. CASE \E r \in {"approve", "reject", "always_approve"} : Approve(s, r)
  BY <1>4, <1>8 DEF Approve, StreamStep
<1>9. CASE Watch(s) \/ Disconnect(s)
  BY <1>9 DEF StreamStep
<1>. QED  BY <1>5, <1>6, <1>7, <1>8, <1>9

-----------------------------------------------------------------------------
(* The plan's number of runs *)

Counted == {s \in Agent : Going(s)} \ excused

LEMMA CountedAreActive ==
  ASSUME \A s \in Agent : Own(s), IsFiniteSet(Created)
  PROVE  /\ Counted \subseteq Active
         /\ IsFiniteSet(Active) /\ IsFiniteSet(Counted)
<1>1. Counted \subseteq Active
  BY DEF Counted, Active, Own, FreshInv
<1>2. Active \subseteq Created
  BY DEF Active, Created, There, ActiveStatus
<1>. QED  BY <1>1, <1>2, FS_Subset

LEMMA ShrinkingCounts ==
  ASSUME AgentAssumption, Typed, NEW s \in Agent, \A a \in Agent : Own(a),
         IsFiniteSet(Created), WithinPlan, Frame(s), Shrinks(s)
  PROVE  IsFiniteSet(Created)' /\ WithinPlan'
<1>1. \A a \in Agent : (There(a)' => There(a)) /\ (Going(a)' => Going(a))
  <2>. SUFFICES ASSUME NEW a \in Agent
                PROVE  (There(a)' => There(a)) /\ (Going(a)' => Going(a))
    OBVIOUS
  <2>1. CASE a = s
    BY <2>1 DEF Shrinks
  <2>2. CASE a # s
    BY <2>2 DEF Frame, OnlyExec, OnlySession, There, Going
  <2>. QED  BY <2>1, <2>2
<1>2. Created' \subseteq Created
  BY <1>1 DEF Created
<1>3. Counted' \subseteq Counted
  BY <1>1 DEF Counted, Frame
<1>4. IsFiniteSet(Counted)
  BY CountedAreActive
<1>5. Cardinality(Counted') <= Cardinality(Counted) /\ IsFiniteSet(Counted')
  BY <1>3, <1>4, FS_Subset
<1>6. Cardinality(Counted) \in Nat /\ Cardinality(Counted') \in Nat
  BY <1>4, <1>5, FS_CardinalityType
<1>7. Cardinality(Counted) <= plan.concurrent /\ plan' = plan /\ plan.concurrent \in Nat
  BY DEF WithinPlan, Counted, Frame, Typed, AgentAssumption
<1>8. Cardinality(Counted') <= plan'.concurrent
  BY <1>5, <1>6, <1>7
<1>9. IsFiniteSet(Created')
  BY <1>2, FS_Subset
<1>. QED  BY <1>8, <1>9 DEF WithinPlan, Counted

(* A run is counted with those the manager found active.                   *)
LEMMA RunCounts ==
  ASSUME AgentAssumption, Typed, NEW s \in Agent, \A a \in Agent : Own(a),
         IsFiniteSet(Created), WithinPlan, Frame(s), Run(s)
  PROVE  IsFiniteSet(Created)' /\ WithinPlan'
<1>1. \A a \in Agent : a # s => (There(a)' => There(a)) /\ (Going(a)' => Going(a))
  BY DEF Frame, OnlyExec, OnlySession, There, Going
<1>2. Created' \subseteq Created \union {s} /\ Counted' \subseteq Active \union {s}
  BY <1>1, CountedAreActive DEF Created, Counted, Frame
<1>3. IsFiniteSet(Active \union {s}) /\ IsFiniteSet(Created \union {s})
  BY CountedAreActive, FS_AddElement
<1>4. IsFiniteSet(Created') /\ IsFiniteSet(Counted')
      /\ Cardinality(Counted') <= Cardinality(Active \union {s})
  BY <1>2, <1>3, FS_Subset
<1>5. Cardinality(Active \union {s}) <= Cardinality(Active) + 1
  <2>1. Cardinality(Active) \in Nat
    BY CountedAreActive, FS_CardinalityType
  <2>2. \/ Cardinality(Active \union {s}) = Cardinality(Active)
        \/ Cardinality(Active \union {s}) = Cardinality(Active) + 1
    BY CountedAreActive, FS_AddElement
  <2>. QED  BY <2>1, <2>2
<1>6. Cardinality(Active) < plan.concurrent /\ plan' = plan /\ plan.concurrent \in Nat
  BY DEF Run, Typed, AgentAssumption
<1>7. /\ Cardinality(Active) \in Nat /\ Cardinality(Active \union {s}) \in Nat
      /\ Cardinality(Counted') \in Nat
  BY <1>3, <1>4, CountedAreActive, FS_CardinalityType
<1>8. Cardinality(Counted') <= plan'.concurrent
  BY <1>4, <1>5, <1>6, <1>7
<1>. QED  BY <1>4, <1>8 DEF WithinPlan, Counted

-----------------------------------------------------------------------------
(* The invariant *)

LEMMA InvHolds ==
  ASSUME AgentAssumption, AgentInit
  PROVE  AgentInv
<1>1. /\ plan \in Limits /\ created \subseteq Agent
      /\ asked = {} /\ excused = {} /\ revived = {}
      /\ session = [s \in Agent |-> [status |-> "none", pending |-> 0,
                                     actions |-> 0, timers |-> 0]]
      /\ events = [s \in Agent |-> [seq |-> 0, buffer |-> <<>>]]
      /\ exec = [s \in Agent |-> NoExec]
      /\ reader = [s \in Agent |-> [on |-> FALSE, cursor |-> 0, heard |-> {},
                                    lost |-> {}, madeUp |-> {}, times |-> 0]]
      /\ pauses = [s \in Agent |-> 0] /\ late = [s \in Agent |-> 0]
      /\ approved = [s \in Agent |-> [actions |-> {}, tools |-> {}]]
  BY DEF AgentInit, AgentAssumption
<1>2. NoExec \in Execution
  BY DEF NoExec, Execution, PC
<1>3. [status |-> "none", pending |-> 0, actions |-> 0, timers |-> 0] \in Entry
  BY DEF Entry, Status
<1>4. [on |-> FALSE, cursor |-> 0, heard |-> {}, lost |-> {}, madeUp |-> {}, times |-> 0] \in Stream
  BY DEF Stream
<1>5. Typed
  BY <1>1, <1>2, <1>3, <1>4 DEF Typed
<1>6. ASSUME NEW s \in Agent PROVE Own(s) /\ Hear(s)
  <2>1. /\ exec[s] = NoExec /\ session[s].status = "none" /\ late[s] = 0 /\ s \notin asked
        /\ session[s].pending = 0 /\ session[s].actions = 0
    BY <1>1
  <2>2. /\ exec[s].pc = "none" /\ exec[s].iteration = 0 /\ exec[s].always = {}
    BY <2>1 DEF NoExec
  <2>3. MaxIterations[s] \in Nat /\ MaxEventBuffer \in Nat \ {0}
    BY DEF AgentAssumption
  <2>4. Own(s)
    BY <2>1, <2>2, <2>3 DEF Own, FreshInv, ConsentInv, LateInv, Going, There, Final
  <2>5. /\ events[s].seq = 0 /\ events[s].buffer = <<>>
        /\ reader[s].cursor = 0 /\ reader[s].on = FALSE
    BY <1>1
  <2>. QED  BY <2>3, <2>4, <2>5 DEF Hear, Window
<1>7. Created = {} /\ Counted = {}
  BY <1>1 DEF Created, There, Counted, Going, NoExec
<1>8. IsFiniteSet(Created) /\ WithinPlan
  <2>1. plan.concurrent \in Nat
    BY <1>1 DEF AgentAssumption
  <2>2. Cardinality({}) = 0 /\ IsFiniteSet({}) /\ 0 <= plan.concurrent
    BY <2>1, FS_EmptySet
  <2>. QED  BY <1>7, <2>2, Zenon DEF WithinPlan, Counted
<1>. QED  BY <1>5, <1>6, <1>8 DEF AgentInv

LEMMA InvKept ==
  ASSUME AgentAssumption, AgentInv, [AgentNext]_agentVars
  PROVE  AgentInv'
<1>1. CASE UNCHANGED agentVars
  BY <1>1 DEF AgentInv, agentVars, running, watching, history, Typed, Own, FreshInv,
     ConsentInv, LateInv, Hear, Going, There, Tool, Created, WithinPlan
<1>2. ASSUME NEW s \in Agent,
             \/ ExecutorStep(s)
             \/ Ask(s) \/ Run(s) \/ Refuse(s)
             \/ \E r \in {"approve", "reject", "always_approve"} : Approve(s, r)
             \/ Stop(s) \/ Pause(s) \/ Resume(s)
             \/ Cleanup(s) \/ Watch(s) \/ Disconnect(s)
      PROVE  AgentInv'
  <2>1. /\ Typed /\ (\A a \in Agent : Own(a)) /\ (\A a \in Agent : Hear(a))
        /\ IsFiniteSet(Created) /\ WithinPlan
    BY DEF AgentInv
  <2>2. Frame(s) /\ Own(s)' /\ (Shrinks(s) \/ Run(s))
    BY <1>2, <2>1, ExecutorKeeps, AskKeeps, RunKeeps, RefuseKeeps, ApproveKeeps, StopKeeps,
       PauseKeeps, ResumeKeeps, CleanupKeeps, WatchKeeps, DisconnectKeeps
  <2>3. Typed' /\ \A a \in Agent : Own(a)'
    BY <2>1, <2>2, FrameKeeps
  <2>4. StreamStep(s) /\ OnlyStream(s)
    BY <1>2, <2>2, StreamPart DEF Frame
  <2>5. \A a \in Agent : Hear(a)'
    BY <2>1, <2>4, StreamKeeps
  <2>6. IsFiniteSet(Created)' /\ WithinPlan'
    BY <2>1, <2>2, ShrinkingCounts, RunCounts
  <2>. QED  BY <2>3, <2>5, <2>6 DEF AgentInv
<1>. QED  BY <1>1, <1>2 DEF AgentNext

(* The inductive invariant holds in every reachable state: types, what each*)
(* session and each stream is in, and the plan's number of runs.           *)
THEOREM AgentInvariant == AgentSpec => []AgentInv
<1>1. AgentInit => AgentInv
  BY AgentAssumption, InvHolds
<1>2. AgentInv /\ [AgentNext]_agentVars => AgentInv'
  BY AgentAssumption, InvKept
<1>. QED  BY <1>1, <1>2, PTL DEF AgentSpec

(* Types, and never more runs that were neither paused nor stopped than the*)
(* plan allows, for any number of sessions and of requests racing with one *)
(* another and with the first steps.                                       *)
THEOREM RunsAreWithinPlan == AgentSpec => []AgentsSound
<1>1. AgentInv => AgentsSound
  <2>. SUFFICES ASSUME AgentInv PROVE AgentsSound
    OBVIOUS
  <2>1. ASSUME NEW s \in Agent PROVE Len(events[s].buffer) <= MaxEventBuffer
    <3>1. Window(events[s]) /\ events[s].seq \in Nat
      BY DEF AgentInv, Hear, Typed
    <3>. QED  BY <3>1, AgentAssumption DEF Window, AgentAssumption
  <2>. QED  BY <2>1 DEF AgentInv, AgentsSound, AgentTypeOK, Own
<1>. QED  BY <1>1, AgentInvariant, PTL

(* A tool that is held back is used only with a yes to that very action or *)
(* an "always" to that tool, whatever approvals come late or twice.        *)
THEOREM ToolsAreConsented == AgentSpec => []UsedWithConsent
<1>1. AgentInv => UsedWithConsent
  BY DEF AgentInv, Own, UsedWithConsent
<1>. QED  BY <1>1, AgentInvariant, PTL

(* After a stop a run begins at most the one tool it was asking about.     *)
THEOREM StopsHold == AgentSpec => []StopHolds
<1>1. AgentInv => StopHolds
  BY DEF AgentInv, Own, StopHolds
<1>. QED  BY <1>1, AgentInvariant, PTL

(* An open stream has heard every event of its session but those that left *)
(* the buffer while it was away and those whose id a made-up agent:done    *)
(* took, for any size of the buffer and any number of reconnections.       *)
THEOREM ReadersHearAll == AgentSpec => []ReaderHearsAll
<1>1. AgentInv => ReaderHearsAll
  BY DEF AgentInv, Hear, Covered, ReaderHearsAll
<1>. QED  BY <1>1, AgentInvariant, PTL

(* When a run ended its session is final and its stream closed, unless it  *)
(* was revived, failed or was forgotten before.                            *)
THEOREM EndsSettle == AgentSpec => []EndSettles
<1>1. AgentInv => EndSettles
  BY DEF AgentInv, Own, EndSettles
<1>. QED  BY <1>1, AgentInvariant, PTL
=============================================================================
