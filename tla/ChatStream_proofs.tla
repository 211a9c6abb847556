------------------------- MODULE ChatStream_proofs -------------------------
(***************************************************************************)
(* Safety of the stream broker for any number of instances, turns and      *)
(* readers.  BrokerInv is inductive: each broker operation keeps it (first *)
(* three general lemmas, then one lemma per operation), and every action   *)
(* of ChatStream is made of these operations.                              *)
(***************************************************************************)
EXTENDS ChatStreamProperties, WellFoundedInduction, SequenceTheorems, TLAPS

(* What every step does: it keeps the invariant and ends no silence.       *)
Safe == BrokerInv' /\ SilentStep /\ DoneStep

-----------------------------------------------------------------------------
(* Three ways of changing the sessions *)

(* Events of the session's turn, numbered from its next id on, may be      *)
(* added to the buffer and published.                                      *)
LEMMA EmitSafe ==
  ASSUME BrokerInv, NEW i \in Inst, session[i] # None,
         NEW s \in Session, s.turn = session[i].turn,
         s.next >= session[i].next,
         session[i].state \in Done => s.state \in Done,
         NEW es \in Seq(Event),
         \A n \in DOMAIN es :
           /\ es[n].turn = s.turn
           /\ es[n].id >= session[i].next /\ es[n].id < s.next
           /\ session[i].state \in Done => es[n].kind = "done",
         \A m, n \in DOMAIN es : es[m].id = es[n].id => m = n,
         Emit(i, s, es), suggested' \in [Inst -> SUBSET Runs],
         UNCHANGED <<aborted, turns>>
  PROVE  Safe
<1>. USE DEF BrokerInv
<1>0. s # None
  BY NoneAssumption
<1>1. /\ session' = [session EXCEPT ![i] = s]
      /\ session' \in [Inst -> Session \cup {None}]
  BY DEF Emit, BrokerTypeOK
<1>2. /\ buffer' = [buffer EXCEPT ![i] = @ \o es]
      /\ buffer[i] \o es \in Seq(Event)
      /\ buffer' \in [Inst -> Seq(Event)]
  BY ConcatProperties DEF Emit, BrokerTypeOK
<1>3. inbox' \in [Inst -> Seq(Event \cup Ack)]
  <2>1. es \in Seq(Event \cup Ack)
    BY SeqMonotonic
  <2>2. \A j \in Inst : inbox[j] \o es \in Seq(Event \cup Ack)
    BY <2>1, ConcatProperties DEF BrokerTypeOK
  <2>. QED  BY <2>2 DEF Emit, BrokerTypeOK
<1>4. /\ published' = published \cup {es[n] : n \in DOMAIN es}
      /\ published' \in SUBSET Event
  BY LenProperties DEF Emit, BrokerTypeOK
<1>5. BrokerTypeOK'
  BY <1>1, <1>2, <1>3, <1>4 DEF BrokerTypeOK, Emit
<1>6. ReplayIsCurrent'
  <2>. SUFFICES ASSUME NEW j \in Inst, NEW n \in DOMAIN buffer'[j]
                PROVE  /\ session'[j] # None
                       /\ buffer'[j][n].turn = session'[j].turn
                       /\ buffer'[j][n].id < session'[j].next
    BY DEF ReplayIsCurrent
  <2>1. CASE j # i
    BY <2>1, <1>1, <1>2 DEF ReplayIsCurrent, BrokerTypeOK
  <2>2. CASE j = i
    <3>0. session[i] \in Session
      BY DEF BrokerTypeOK
    <3>1. session'[j] = s /\ buffer'[j] = buffer[i] \o es
      BY <2>2, <1>1, <1>2 DEF BrokerTypeOK
    <3>2. \/ n \in DOMAIN buffer[i] /\ buffer'[j][n] = buffer[i][n]
          \/ \E m \in DOMAIN es : buffer'[j][n] = es[m]
      BY <3>1, LenProperties, ConcatProperties DEF BrokerTypeOK
    <3>3. CASE n \in DOMAIN buffer[i] /\ buffer'[j][n] = buffer[i][n]
      <4>1. buffer[i][n] \in Event
        BY <3>3, LenProperties DEF BrokerTypeOK
      <4>2. buffer[i][n].id \in Nat /\ session[i].next \in Nat /\ s.next \in Nat
        BY <4>1, <3>0 DEF Event, Session
      <4>3. buffer[i][n].turn = session[i].turn /\ buffer[i][n].id < session[i].next
        BY <3>3 DEF ReplayIsCurrent
      <4>. QED  BY <1>0, <3>1, <3>3, <4>2, <4>3
    <3>4. CASE \E m \in DOMAIN es : buffer'[j][n] = es[m]
      BY <1>0, <3>1, <3>4
    <3>. QED  BY <3>2, <3>3, <3>4
  <2>. QED  BY <2>1, <2>2
<1>7. IdsIdentify'
  <2>. SUFFICES ASSUME NEW d \in published', NEW e \in published',
                       d.turn = e.turn, d.id = e.id
                PROVE  d = e
    BY DEF IdsIdentify
  <2>0. /\ session[i] \in Session
        /\ d \in Event /\ e \in Event
        /\ d.id \in Nat /\ e.id \in Nat /\ session[i].next \in Nat
    BY <1>4 DEF BrokerTypeOK, Event, Session
  <2>1. CASE d \in published /\ e \in published
    BY <2>1 DEF IdsIdentify
  <2>2. CASE d \in published /\ \E n \in DOMAIN es : e = es[n]
    BY <2>0, <2>2 DEF IdsBelowNext
  <2>3. CASE e \in published /\ \E n \in DOMAIN es : d = es[n]
    BY <2>0, <2>3 DEF IdsBelowNext
  <2>4. CASE \E m, n \in DOMAIN es : d = es[m] /\ e = es[n]
    BY <2>4
  <2>. QED  BY <1>4, <2>1, <2>2, <2>3, <2>4
<1>8. OneSessionPerTurn'
  BY <1>0, <1>1 DEF OneSessionPerTurn, BrokerTypeOK
<1>9. IdsBelowNext'
  <2>. SUFFICES ASSUME NEW e \in published'
                PROVE  /\ e.turn <= turns
                       /\ \A j \in Inst :
                            session'[j] # None /\ session'[j].turn = e.turn
                              => e.id < session'[j].next
    BY DEF IdsBelowNext
  <2>0. session[i] \in Session /\ session[i].next \in Nat /\ s.next \in Nat
    BY DEF BrokerTypeOK, Session
  <2>1. CASE e \in published
    <3>1. e.id \in Nat
      BY <2>1 DEF BrokerTypeOK, Event
    <3>. QED  BY <2>0, <2>1, <3>1, <1>1 DEF IdsBelowNext, BrokerTypeOK
  <2>2. CASE \E n \in DOMAIN es : e = es[n]
    BY <2>2, <1>0, <1>1 DEF OneSessionPerTurn, BrokerTypeOK
  <2>. QED  BY <1>4, <2>1, <2>2
<1>10. SilentStep
  BY <1>4 DEF SilentStep, OneSessionPerTurn
<1>11. DoneStep
  BY <1>1 DEF DoneStep, BrokerTypeOK
<1>. QED  BY <1>5, <1>6, <1>7, <1>8, <1>9, <1>10, <1>11 DEF Safe

(* Nothing is published: each session is gone with its buffer, or is the   *)
(* same turn, no less done and no less numbered, with its buffer or none.  *)
LEMMA SilentSafe ==
  ASSUME BrokerInv, BrokerTypeOK', UNCHANGED <<published, turns>>,
         \A i \in Inst :
           \/ session'[i] = None /\ buffer'[i] = <<>>
           \/ /\ session[i] # None /\ session'[i] # None
              /\ session'[i].turn = session[i].turn
              /\ session'[i].next >= session[i].next
              /\ session[i].state \in Done => session'[i].state \in Done
              /\ buffer'[i] \in {buffer[i], <<>>}
  PROVE  Safe
<1>. USE DEF BrokerInv
<1>0. \A i \in Inst :
        /\ session[i] # None => session[i].next \in Nat
        /\ session'[i] # None => session'[i].next \in Nat
  BY DEF BrokerTypeOK, Session
<1>1. ReplayIsCurrent'
  <2>. SUFFICES ASSUME NEW i \in Inst, NEW n \in DOMAIN buffer'[i]
                PROVE  /\ session'[i] # None
                       /\ buffer'[i][n].turn = session'[i].turn
                       /\ buffer'[i][n].id < session'[i].next
    BY DEF ReplayIsCurrent
  <2>1. buffer'[i] # <<>>
    OBVIOUS
  <2>2. buffer'[i] = buffer[i] /\ buffer[i][n] \in Event
    BY <2>1, LenProperties DEF BrokerTypeOK
  <2>3. buffer[i][n].id \in Nat
    BY <2>2 DEF Event
  <2>. QED  BY <1>0, <2>1, <2>2, <2>3 DEF ReplayIsCurrent
<1>2. IdsIdentify'
  BY DEF IdsIdentify
<1>3. OneSessionPerTurn'
  BY DEF OneSessionPerTurn
<1>4. IdsBelowNext'
  <2>. SUFFICES ASSUME NEW e \in published, NEW i \in Inst,
                       session'[i] # None, session'[i].turn = e.turn
                PROVE  e.id < session'[i].next
    BY DEF IdsBelowNext
  <2>1. e.id \in Nat
    BY DEF BrokerTypeOK, Event
  <2>. QED  BY <1>0, <2>1 DEF IdsBelowNext
<1>5. SilentStep
  BY DEF SilentStep
<1>6. DoneStep
  BY DEF DoneStep
<1>. QED  BY <1>1, <1>2, <1>3, <1>4, <1>5, <1>6 DEF Safe

(* A new turn: no session has its number and nothing was published in it.  *)
LEMMA RegisterSafe ==
  ASSUME BrokerInv, NEW i \in Inst, NEW r \in Runs, RegisterSession(i, r)
  PROVE  Safe
<1>. USE DEF BrokerInv
<1>0. turns \in Nat /\ turns' = turns + 1
  BY DEF BrokerTypeOK, RegisterSession
<1>1. NewSession(r) \in Session /\ NewSession(r) # None
  <2>1. NewSession(r) \in Session
    BY <1>0 DEF NewSession, Session, State
  <2>. QED  BY <2>1, NoneAssumption
<1>2. /\ session' = [session EXCEPT ![i] = NewSession(r)]
      /\ buffer' = [buffer EXCEPT ![i] = <<>>]
      /\ session' \in [Inst -> Session \cup {None}]
      /\ buffer' \in [Inst -> Seq(Event)]
      /\ UNCHANGED <<members, mapped, suggested, redisVars, published>>
  BY <1>1 DEF RegisterSession, BrokerTypeOK
<1>3. aborted' \in SUBSET Runs
  BY DEF RegisterSession, AbortedBy, Live, Session, BrokerTypeOK
<1>4. BrokerTypeOK'
  BY <1>0, <1>2, <1>3 DEF BrokerTypeOK, redisVars
<1>5. ReplayIsCurrent'
  BY <1>2 DEF ReplayIsCurrent, BrokerTypeOK
<1>6. IdsIdentify'
  BY <1>2 DEF IdsIdentify
<1>7. NewSession(r).turn = turns + 1 /\ NewSession(r).next = 1
  BY DEF NewSession
<1>8. \A j \in Inst : session[j] # None => session[j].turn \in Nat
  BY DEF BrokerTypeOK, Session
<1>9. OneSessionPerTurn'
  BY <1>0, <1>1, <1>2, <1>7, <1>8 DEF OneSessionPerTurn, BrokerTypeOK
<1>10. IdsBelowNext'
  <2>1. \A e \in published : e.turn \in Nat /\ e.turn <= turns
    BY DEF BrokerTypeOK, Event, IdsBelowNext
  <2>. QED
    BY <1>0, <1>2, <1>7, <2>1 DEF IdsBelowNext, BrokerTypeOK
<1>11. SilentStep
  BY <1>2 DEF SilentStep
<1>12. DoneStep
  BY <1>0, <1>2, <1>7 DEF DoneStep, BrokerTypeOK
<1>. QED  BY <1>4, <1>5, <1>6, <1>9, <1>10, <1>11, <1>12 DEF Safe

-----------------------------------------------------------------------------
(* The operations of the producer *)

LEMMA AdvancedSession ==
  ASSUME NEW s \in Session, NEW n \in Nat, NEW x \in State
  PROVE  [s EXCEPT !.next = @ + n, !.state = x] \in Session
<1>. DEFINE m == s.next + n
<1>1. m \in Nat
  BY DEF Session
<1>. HIDE DEF m
<1>2. [s EXCEPT !.next = m, !.state = x] \in Session
  BY <1>1 DEF Session
<1>. QED  BY <1>2 DEF m

LEMMA NothingToReplay ==
  ASSUME BrokerInv, NEW i \in Inst, session[i] = None
  PROVE  buffer[i] = <<>>
<1>. SUFFICES ASSUME buffer[i] # <<>> PROVE FALSE
  OBVIOUS
<1>1. 1 \in DOMAIN buffer[i]
  BY EmptySeq, LenProperties DEF BrokerInv, BrokerTypeOK
<1>. QED  BY <1>1 DEF BrokerInv, ReplayIsCurrent

LEMMA QuietSafe ==
  ASSUME BrokerInv, Quiet, UNCHANGED <<aborted, turns>>
  PROVE  Safe
<1>1. BrokerTypeOK'
  BY DEF Quiet, BrokerInv, BrokerTypeOK, brokerVars, redisVars
<1>2. \A i \in Inst : session[i] = None => buffer[i] = <<>>
  BY NothingToReplay
<1>3. \A i \in Inst : session[i] # None => session[i].next \in Nat
  BY DEF BrokerInv, BrokerTypeOK, Session
<1>. QED
  BY <1>1, <1>2, <1>3, SilentSafe DEF Quiet, brokerVars

(* publish, given a session whose state the caller may have advanced.      *)
LEMMA PublishSafe ==
  ASSUME BrokerInv, NEW i \in Inst, NEW r \in Runs, NEW k \in Kind,
         session[i] # None, NEW s \in Session,
         s.turn = session[i].turn, s.next = session[i].next,
         session[i].state \in Done => s.state \in Done,
         Publish(i, s, r, k), UNCHANGED <<aborted, turns>>
  PROVE  Safe
<1>0. /\ s.next \in Nat /\ s.turn \in Nat /\ s.state \in State
      /\ \A j \in Inst : session[j] # None => session[j].next \in Nat
  BY DEF Session, BrokerInv, BrokerTypeOK
<1>1. CASE Passes(i, s, r, k)
  <2>. DEFINE t == [s EXCEPT !.next = @ + 1, !.state = Started(s)]
              e == EventOf(s, r, k, s.next)
  <2>1. /\ t \in Session /\ t.turn = s.turn /\ t.next = s.next + 1
        /\ s.state \in Done => t.state \in Done
    <3>1. Started(s) \in State /\ (s.state \in Done => Started(s) \in Done)
      BY <1>0 DEF Started, State, Done
    <3>2. t \in Session
      BY <1>0, <3>1, AdvancedSession
    <3>3. t.turn = s.turn /\ t.next = s.next + 1 /\ t.state = Started(s)
      BY DEF Session
    <3>. QED  BY <3>1, <3>2, <3>3
  <2>2. e \in Event /\ e.turn = s.turn /\ e.id = s.next /\ e.kind = k
    BY <1>0 DEF EventOf, Event
  <2>3. <<e>> \in Seq(Event) /\ DOMAIN <<e>> = {1} /\ <<e>>[1] = e
    BY <2>2
  <2>4. s.state \in Done => k = "done"
    BY <1>1 DEF Passes
  <2>5. Emit(i, t, <<e>>)
    BY <1>1 DEF Publish
  <2>6. suggested' \in [Inst -> SUBSET Runs]
    <3>1. \/ suggested' = suggested
          \/ suggested' = [suggested EXCEPT ![i] = @ \cup {r}]
      BY <1>1 DEF Publish
    <3>2. suggested \in [Inst -> SUBSET Runs]
      BY DEF BrokerInv, BrokerTypeOK
    <3>. QED  BY <3>1, <3>2
  <2>. HIDE DEF t, e
  <2>7. \A n \in DOMAIN <<e>> :
          /\ <<e>>[n].turn = t.turn
          /\ <<e>>[n].id >= session[i].next /\ <<e>>[n].id < t.next
          /\ session[i].state \in Done => <<e>>[n].kind = "done"
    BY <1>0, <2>1, <2>2, <2>3, <2>4
  <2>8. \A m, n \in DOMAIN <<e>> : <<e>>[m].id = <<e>>[n].id => m = n
    BY <2>3
  <2>9. t.next >= session[i].next /\ t.turn = session[i].turn
    BY <1>0, <2>1
  <2>. QED  BY <2>1, <2>3, <2>5, <2>6, <2>7, <2>8, <2>9, EmitSafe
<1>2. CASE ~Passes(i, s, r, k)
  <2>. DEFINE t == [s EXCEPT !.next = @ + 1]
  <2>1. /\ t \in Session /\ t.turn = s.turn /\ t.next = s.next + 1
        /\ t.state = s.state
    BY <1>0 DEF Session
  <2>2. session' = [session EXCEPT ![i] = t]
    BY <1>2 DEF Publish
  <2>3. UNCHANGED <<buffer, members, mapped, suggested, listening, inbox, published>>
    BY <1>2 DEF Publish, redisVars
  <2>. HIDE DEF t
  <2>4. t # None
    BY <2>1, NoneAssumption
  <2>5. BrokerTypeOK'
    BY <2>1, <2>2, <2>3 DEF BrokerInv, BrokerTypeOK
  <2>6. \A j \in Inst : session[j] = None => buffer[j] = <<>>
    BY NothingToReplay
  <2>7. \A j \in Inst :
          \/ session'[j] = None /\ buffer'[j] = <<>>
          \/ /\ session[j] # None /\ session'[j] # None
             /\ session'[j].turn = session[j].turn
             /\ session'[j].next >= session[j].next
             /\ session[j].state \in Done => session'[j].state \in Done
             /\ buffer'[j] \in {buffer[j], <<>>}
    BY <1>0, <2>1, <2>2, <2>3, <2>4, <2>6 DEF BrokerInv, BrokerTypeOK
  <2>. QED  BY <2>3, <2>5, <2>7, SilentSafe
<1>. QED  BY <1>1, <1>2

LEMMA PublishAtSafe ==
  ASSUME BrokerInv, NEW i \in Inst, NEW r \in Runs, NEW k \in Kind,
         PublishAt(i, r, k), UNCHANGED <<aborted, turns>>
  PROVE  Safe
<1>1. CASE session[i] = None
  BY <1>1, QuietSafe DEF PublishAt
<1>2. CASE session[i] # None
  <2>1. session[i] \in Session
    BY <1>2 DEF BrokerInv, BrokerTypeOK
  <2>. QED  BY <1>2, <2>1, PublishSafe DEF PublishAt
<1>. QED  BY <1>1, <1>2

(* The block and, before it, the activity that is numbered after it.       *)
LEMMA PublishReasoningSafe ==
  ASSUME BrokerInv, NEW i \in Inst, NEW r \in Runs,
         PublishReasoning(i, r), UNCHANGED <<aborted, turns>>
  PROVE  Safe
<1>. DEFINE s == session[i]
            n == s.next
            block == EventOf(s, r, "block", n)
            activity == EventOf(s, r, "activity", n + 1)
<1>1. CASE s = None
  BY <1>1, QuietSafe DEF PublishReasoning
<1>2. CASE s # None /\ ~Passes(i, s, r, "block")
  <2>1. s \in Session
    BY <1>2 DEF BrokerInv, BrokerTypeOK
  <2>2. Publish(i, s, r, "block") /\ "block" \in Kind
    BY <1>2 DEF PublishReasoning, Kind
  <2>. QED  BY <1>2, <2>1, <2>2, PublishSafe
<1>3. CASE s # None /\ Passes(i, s, r, "block")
  <2>1. /\ s \in Session /\ n \in Nat /\ s.turn \in Nat
        /\ suggested \in [Inst -> SUBSET Runs]
    BY <1>3 DEF BrokerInv, BrokerTypeOK, Session
  <2>2. s.state \notin Done
    BY <1>3 DEF Passes
  <2>3. /\ block \in Event /\ block.turn = s.turn /\ block.id = n
        /\ activity \in Event /\ activity.turn = s.turn /\ activity.id = n + 1
    BY <2>1 DEF EventOf, Event, Kind
  <2>4. CASE s.flushing
    <3>. DEFINE t == [s EXCEPT !.next = n + 1, !.state = "STREAMING"]
    <3>1. t \in Session /\ t.turn = s.turn /\ t.next = n + 1
      <4>1. t \in Session
        BY <2>1, AdvancedSession DEF State
      <4>. QED  BY <2>1, <4>1 DEF Session
    <3>2. Emit(i, t, <<block>>) /\ UNCHANGED suggested
      BY <1>3, <2>4 DEF PublishReasoning
    <3>. HIDE DEF t, block, activity
    <3>3. /\ <<block>> \in Seq(Event)
          /\ DOMAIN <<block>> = {1} /\ <<block>>[1] = block
      BY <2>3
    <3>4. \A m \in DOMAIN <<block>> :
            /\ <<block>>[m].turn = t.turn
            /\ <<block>>[m].id >= s.next /\ <<block>>[m].id < t.next
      BY <2>1, <2>3, <3>1, <3>3
    <3>5. /\ \A m, q \in DOMAIN <<block>> : <<block>>[m].id = <<block>>[q].id => m = q
          /\ t.next >= s.next
      BY <2>1, <3>1, <3>3
    <3>. QED
      BY <1>3, <2>1, <2>2, <3>1, <3>2, <3>3, <3>4, <3>5, EmitSafe
  <2>5. CASE ~s.flushing
    <3>. DEFINE t == [s EXCEPT !.next = n + 2, !.state = "STREAMING",
                               !.flushing = TRUE]
                es == <<activity, block>>
    <3>1. t \in Session /\ t.turn = s.turn /\ t.next = n + 2
      <4>. DEFINE u == [s EXCEPT !.next = n + 2, !.state = "STREAMING"]
      <4>1. u \in Session
        BY <2>1, AdvancedSession DEF State
      <4>2. [u EXCEPT !.flushing = TRUE] \in Session
        <5>. HIDE DEF u
        <5>. QED  BY <4>1 DEF Session
      <4>3. t = [u EXCEPT !.flushing = TRUE]
        BY <2>1 DEF Session
      <4>. QED  BY <2>1, <4>2, <4>3 DEF Session
    <3>2. Emit(i, t, es) /\ UNCHANGED suggested
      BY <1>3, <2>5 DEF PublishReasoning
    <3>. HIDE DEF t, block, activity
    <3>3. /\ es \in Seq(Event)
          /\ DOMAIN es = {1, 2} /\ es[1] = activity /\ es[2] = block
      BY <2>3
    <3>. HIDE DEF es
    <3>4. /\ \A m \in DOMAIN es :
               /\ es[m].turn = t.turn
               /\ es[m].id >= s.next /\ es[m].id < t.next
          /\ \A m, q \in DOMAIN es : es[m].id = es[q].id => m = q
          /\ t.next >= s.next
      BY <2>1, <2>3, <3>1, <3>3
    <3>. QED
      BY <1>3, <2>1, <2>2, <3>1, <3>2, <3>3, <3>4, EmitSafe
  <2>. QED  BY <2>4, <2>5
<1>. QED  BY <1>1, <1>2, <1>3

LEMMA PublishFinalSafe ==
  ASSUME BrokerInv, NEW i \in Inst, NEW r \in Runs,
         PublishFinal(i, r), UNCHANGED <<aborted, turns>>
  PROVE  Safe
<1>1. CASE ~Live(session[i])
  BY <1>1, QuietSafe DEF PublishFinal
<1>2. CASE Live(session[i])
  <2>. DEFINE t == [session[i] EXCEPT !.state = "FINAL"]
  <2>1. session[i] # None /\ session[i].state \notin Done /\ session[i] \in Session
    BY <1>2 DEF Live, BrokerInv, BrokerTypeOK
  <2>2. t \in Session /\ t.turn = session[i].turn /\ t.next = session[i].next
    BY <2>1 DEF Session, State
  <2>3. Publish(i, t, r, "final") /\ "final" \in Kind
    BY <1>2 DEF PublishFinal, Kind
  <2>. HIDE DEF t
  <2>. QED  BY <2>1, <2>2, <2>3, PublishSafe
<1>. QED  BY <1>1, <1>2

LEMMA PublishDoneSafe ==
  ASSUME BrokerInv, NEW i \in Inst, NEW r \in Runs, NEW reason \in Reason,
         PublishDone(i, r, reason), UNCHANGED <<aborted, turns>>
  PROVE  Safe
<1>1. CASE session[i] = None
  BY <1>1, QuietSafe DEF PublishDone
<1>2. CASE session[i] # None
  <2>. DEFINE t == [session[i] EXCEPT !.state = DoneState(reason)]
  <2>1. session[i] \in Session
    BY <1>2 DEF BrokerInv, BrokerTypeOK
  <2>2. DoneState(reason) \in Done
    BY DEF DoneState, Done, Reason
  <2>3. /\ t \in Session /\ t.turn = session[i].turn
        /\ t.next = session[i].next /\ t.state \in Done
    BY <2>1, <2>2 DEF Session, State
  <2>4. Publish(i, t, r, "done") /\ "done" \in Kind
    BY <1>2 DEF PublishDone, Kind
  <2>. HIDE DEF t
  <2>. QED  BY <1>2, <2>3, <2>4, PublishSafe
<1>. QED  BY <1>1, <1>2

LEMMA EmitDoneSafe ==
  ASSUME BrokerInv, NEW i \in Inst, NEW reason \in Reason,
         EmitDone(i, reason), UNCHANGED <<aborted, turns>>
  PROVE  Safe
<1>1. CASE ~Live(session[i])
  BY <1>1, QuietSafe DEF EmitDone
<1>2. CASE Live(session[i])
  <2>1. session[i].run \in Runs
    BY <1>2 DEF Live, BrokerInv, BrokerTypeOK, Session
  <2>. QED  BY <1>2, <2>1, PublishDoneSafe DEF EmitDone
<1>. QED  BY <1>1, <1>2

-----------------------------------------------------------------------------
(* The operations on sessions, buffers and readers that publish nothing *)

(* The sessions stay; buffers may be emptied.                              *)
LEMMA SessionsStaySafe ==
  ASSUME BrokerInv, BrokerTypeOK', UNCHANGED <<session, published, turns>>,
         \A i \in Inst : buffer'[i] \in {buffer[i], <<>>}
  PROVE  Safe
<1>1. \A i \in Inst : session[i] = None => buffer'[i] = <<>>
  BY NothingToReplay
<1>2. \A i \in Inst : session[i] # None => session[i].next \in Nat
  BY DEF BrokerInv, BrokerTypeOK, Session
<1>. QED  BY <1>1, <1>2, SilentSafe

LEMMA EmitDoneResumesSafe ==
  ASSUME BrokerInv, NEW i \in Inst, EmitDoneResumes(i),
         UNCHANGED <<aborted, turns>>
  PROVE  Safe
<1>1. /\ buffer' = [buffer EXCEPT ![i] = <<>>]
      /\ UNCHANGED <<session, members, mapped, suggested, listening, inbox,
                     published, aborted, turns>>
  BY DEF EmitDoneResumes, redisVars
<1>2. BrokerTypeOK'
  BY <1>1 DEF BrokerInv, BrokerTypeOK
<1>3. \A j \in Inst : buffer'[j] \in {buffer[j], <<>>}
  BY <1>1 DEF BrokerInv, BrokerTypeOK
<1>. QED  BY <1>1, <1>2, <1>3, SessionsStaySafe

(* One session changes in a part that the invariant does not look at.      *)
LEMMA TouchSafe ==
  ASSUME BrokerInv, NEW i \in Inst, session[i] # None, NEW s \in Session,
         s.turn = session[i].turn, s.next = session[i].next,
         s.state = session[i].state,
         session' = [session EXCEPT ![i] = s],
         UNCHANGED <<buffer, members, mapped, suggested, listening, inbox,
                     aborted, published, turns>>
  PROVE  Safe
<1>1. s # None
  BY NoneAssumption
<1>2. BrokerTypeOK'
  BY DEF BrokerInv, BrokerTypeOK
<1>3. \A j \in Inst : session[j] = None => buffer[j] = <<>>
  BY NothingToReplay
<1>4. \A j \in Inst : session[j] # None => session[j].next \in Nat
  BY DEF BrokerInv, BrokerTypeOK, Session
<1>5. \A j \in Inst : session'[j] = IF j = i THEN s ELSE session[j]
  BY DEF BrokerInv, BrokerTypeOK
<1>. QED  BY <1>1, <1>2, <1>3, <1>4, <1>5, SilentSafe

LEMMA AttachExecutionSafe ==
  ASSUME BrokerInv, NEW i \in Inst, NEW r \in Runs, AttachExecution(i, r),
         UNCHANGED <<aborted, turns>>
  PROVE  Safe
<1>1. CASE session[i] = None
  <2>1. Quiet
    BY <1>1 DEF AttachExecution, Quiet, brokerVars, redisVars
  <2>. QED  BY <2>1, QuietSafe
<1>2. CASE session[i] # None
  <2>. DEFINE s == [session[i] EXCEPT !.executor = r]
  <2>0. session[i] \in Session
    BY <1>2 DEF BrokerInv, BrokerTypeOK
  <2>1. /\ s \in Session /\ s.turn = session[i].turn
        /\ s.next = session[i].next /\ s.state = session[i].state
    BY <2>0 DEF Session
  <2>2. session' = [session EXCEPT ![i] = s]
    BY <1>2 DEF AttachExecution
  <2>3. UNCHANGED <<buffer, members, mapped, suggested, listening, inbox,
                    published>>
    BY DEF AttachExecution, redisVars
  <2>. HIDE DEF s
  <2>. QED  BY <1>2, <2>1, <2>2, <2>3, TouchSafe
<1>. QED  BY <1>1, <1>2

LEMMA FlushEndsSafe ==
  ASSUME BrokerInv, NEW i \in Inst, FlushEnds(i)
  PROVE  Safe
<1>. DEFINE s == [session[i] EXCEPT !.flushing = FALSE]
<1>0. session[i] # None /\ session[i] \in Session
  BY DEF FlushEnds, BrokerInv, BrokerTypeOK
<1>1. /\ s \in Session /\ s.turn = session[i].turn
      /\ s.next = session[i].next /\ s.state = session[i].state
  BY <1>0 DEF Session
<1>2. session' = [session EXCEPT ![i] = s]
  BY DEF FlushEnds
<1>3. UNCHANGED <<buffer, members, mapped, suggested, listening, inbox,
                  aborted, published, turns>>
  BY DEF FlushEnds, redisVars
<1>. HIDE DEF s
<1>. QED  BY <1>0, <1>1, <1>2, <1>3, TouchSafe

LEMMA GrowOlderSafe ==
  ASSUME BrokerInv, NEW i \in Inst, GrowOlder(i)
  PROVE  Safe
<1>. DEFINE s == [session[i] EXCEPT !.age = @ + 1]
<1>0. session[i] # None /\ session[i].age < 2 /\ session[i] \in Session
  BY DEF GrowOlder, BrokerInv, BrokerTypeOK
<1>1. /\ s \in Session /\ s.turn = session[i].turn
      /\ s.next = session[i].next /\ s.state = session[i].state
  BY <1>0 DEF Session
<1>2. session' = [session EXCEPT ![i] = s]
  BY DEF GrowOlder
<1>3. UNCHANGED <<buffer, members, mapped, suggested, listening, inbox,
                  aborted, published, turns>>
  BY DEF GrowOlder, redisVars
<1>. HIDE DEF s
<1>. QED  BY <1>0, <1>1, <1>2, <1>3, TouchSafe

(* A thread is forgotten on one instance, whatever happens to its readers. *)
LEMMA ForgetSafe ==
  ASSUME BrokerInv, NEW i \in Inst, Forget(i),
         members' \in [Inst -> SUBSET Subs],
         suggested' \in [Inst -> SUBSET Runs],
         UNCHANGED <<inbox, aborted, published, turns>>
  PROVE  Safe
<1>1. BrokerTypeOK'
  BY EmptySeq DEF Forget, BrokerInv, BrokerTypeOK
<1>2. \A j \in Inst : session[j] = None => buffer[j] = <<>>
  BY NothingToReplay
<1>3. \A j \in Inst : session[j] # None => session[j].next \in Nat
  BY DEF BrokerInv, BrokerTypeOK, Session
<1>4. \A j \in Inst :
        IF j = i THEN session'[j] = None /\ buffer'[j] = <<>>
        ELSE session'[j] = session[j] /\ buffer'[j] = buffer[j]
  BY DEF Forget, BrokerInv, BrokerTypeOK
<1>. QED  BY <1>1, <1>2, <1>3, <1>4, SilentSafe

LEMMA ReapSafe ==
  ASSUME BrokerInv, NEW i \in Inst, Reap(i)
  PROVE  Safe
<1>1. members' \in [Inst -> SUBSET Subs] /\ suggested' \in [Inst -> SUBSET Runs]
  BY DEF Reap, BrokerInv, BrokerTypeOK
<1>. QED  BY <1>1, ForgetSafe DEF Reap

LEMMA YieldSafe ==
  ASSUME BrokerInv, NEW s \in Subs, Yield(s)
  PROVE  Safe
<1>. DEFINE i == Home[s]
            rest == members[i] \ {s}
<1>0. /\ i \in Inst /\ rest \in SUBSET Subs
      /\ members \in [Inst -> SUBSET Subs] /\ suggested \in [Inst -> SUBSET Runs]
  BY HomeAssumption DEF BrokerInv, BrokerTypeOK
<1>1. UNCHANGED <<inbox, aborted, published, turns>>
  BY DEF Yield
<1>2. CASE rest = {} /\ ~Live(session[i])
  <2>1. /\ Forget(i) /\ members' = [members EXCEPT ![i] = {}]
        /\ suggested' = [suggested EXCEPT ![i] = {}]
    BY <1>2 DEF Yield, Leave
  <2>. QED  BY <1>0, <1>1, <2>1, ForgetSafe
<1>3. CASE ~(rest = {} /\ ~Live(session[i]))
  <2>1. /\ members' = [members EXCEPT ![i] = rest]
        /\ UNCHANGED <<session, buffer, mapped, suggested, listening>>
    BY <1>3 DEF Yield, Leave
  <2>2. members' \in [Inst -> SUBSET Subs]
    BY <1>0, <2>1
  <2>3. BrokerTypeOK'
    BY <1>1, <2>1, <2>2 DEF BrokerInv, BrokerTypeOK
  <2>. QED  BY <1>1, <2>1, <2>3, SessionsStaySafe
<1>. QED  BY <1>2, <1>3

LEMMA SubscribeSafe ==
  ASSUME BrokerInv, NEW s \in Subs, Subscribe(s)
  PROVE  Safe
<1>1. /\ members' = [members EXCEPT ![Home[s]] = @ \cup {s}]
      /\ UNCHANGED <<session, buffer, mapped, suggested, listening, inbox,
                     aborted, published, turns>>
  BY DEF Subscribe, redisVars
<1>2. members \in [Inst -> SUBSET Subs] /\ Home[s] \in Inst
  BY HomeAssumption DEF BrokerInv, BrokerTypeOK
<1>3. members' \in [Inst -> SUBSET Subs]
  BY <1>1, <1>2
<1>4. BrokerTypeOK'
  BY <1>1, <1>3 DEF BrokerInv, BrokerTypeOK
<1>. QED  BY <1>1, <1>4, SessionsStaySafe

LEMMA RedisSubscribesSafe ==
  ASSUME BrokerInv, NEW s \in Subs, RedisSubscribes(s)
  PROVE  Safe
<1>. DEFINE i == Home[s]
<1>0. /\ i \in Inst /\ inbox \in [Inst -> Seq(Event \cup Ack)]
      /\ listening \in SUBSET Inst
  BY HomeAssumption DEF BrokerInv, BrokerTypeOK
<1>1. UNCHANGED <<session, buffer, members, mapped, suggested, aborted,
                  published, turns>>
  BY DEF RedisSubscribes, brokerVars
<1>2. PICK n \in {1, 2} : inbox' = [inbox EXCEPT ![i] = Append(@, [ack |-> n, sub |-> s])]
  BY DEF RedisSubscribes
<1>3. [ack |-> n, sub |-> s] \in Event \cup Ack
  BY DEF Ack
<1>4. Append(inbox[i], [ack |-> n, sub |-> s]) \in Seq(Event \cup Ack)
  BY <1>0, <1>3, AppendProperties
<1>5. inbox' \in [Inst -> Seq(Event \cup Ack)]
  BY <1>0, <1>2, <1>4
<1>6. listening' \in SUBSET Inst
  BY <1>0 DEF RedisSubscribes
<1>7. BrokerTypeOK'
  BY <1>1, <1>5, <1>6 DEF BrokerInv, BrokerTypeOK
<1>. QED  BY <1>1, <1>7, SessionsStaySafe

LEMMA DeliverSafe ==
  ASSUME BrokerInv, NEW i \in Inst, Deliver(i)
  PROVE  Safe
<1>0. inbox \in [Inst -> Seq(Event \cup Ack)] /\ mapped \in [Inst -> BOOLEAN]
  BY DEF BrokerInv, BrokerTypeOK
<1>1. /\ inbox[i] # <<>>
      /\ UNCHANGED <<session, buffer, members, suggested, listening, aborted,
                     published, turns>>
  BY DEF Deliver
<1>2. /\ inbox' = [inbox EXCEPT ![i] = Tail(@)]
      /\ mapped' = mapped \/ mapped' = [mapped EXCEPT ![i] = TRUE]
  BY DEF Deliver, HandleAck, HandleEvent
<1>3. Tail(inbox[i]) \in Seq(Event \cup Ack)
  BY <1>0, <1>1, HeadTailProperties
<1>4. inbox' \in [Inst -> Seq(Event \cup Ack)] /\ mapped' \in [Inst -> BOOLEAN]
  BY <1>0, <1>2, <1>3
<1>5. BrokerTypeOK'
  BY <1>1, <1>4 DEF BrokerInv, BrokerTypeOK
<1>. QED  BY <1>1, <1>5, SessionsStaySafe

LEMMA UserAbortSafe ==
  ASSUME BrokerInv, NEW i \in Inst, UserAbort(i)
  PROVE  Safe
<1>1. /\ aborted' = aborted \cup AbortedBy(i)
      /\ UNCHANGED <<session, buffer, members, mapped, suggested, listening,
                     inbox, published, turns>>
  BY DEF UserAbort, Quiet, brokerVars, redisVars
<1>2. AbortedBy(i) \in SUBSET Runs
  BY DEF AbortedBy, Live, Session, BrokerInv, BrokerTypeOK
<1>3. BrokerTypeOK'
  BY <1>1, <1>2 DEF BrokerInv, BrokerTypeOK
<1>. QED  BY <1>1, <1>3, SessionsStaySafe

-----------------------------------------------------------------------------
(* The actions *)

(* A step of a run leaves the broker alone, or is one operation on it.     *)
LEMMA LocallySafe ==
  ASSUME BrokerInv, Locally
  PROVE  Safe
BY QuietSafe DEF Locally, Frame

LEMMA RunStepSafe ==
  ASSUME BrokerInv, RunTypeOK, NEW r \in Runs, RunStep(r)
  PROVE  Safe
<1>. DEFINE i == Home[r]
<1>0. i \in Inst
  BY HomeAssumption
<1>1. CASE Register(r)
  BY <1>0, <1>1, RegisterSafe DEF Register
<1>2. CASE DirectRegister(r)
  BY <1>0, <1>2, RegisterSafe DEF DirectRegister
<1>3. CASE MediaRegister(r)
  BY <1>0, <1>3, RegisterSafe DEF MediaRegister
<1>4. CASE Reject(r) \/ Block(r) \/ MediaEnds(r) \/ SegmentsDone(r)
             \/ SeeAbort(r) \/ Terminated(r) \/ ThrowWhileFinalizing(r)
  BY <1>4, LocallySafe
     DEF Reject, Block, MediaEnds, SegmentsDone, SeeAbort, Terminated,
         ThrowWhileFinalizing
<1>5. CASE DirectToken(r) \/ MediaAnalysis(r) \/ Token(r) \/ SuggestStage(r)
  <2>1. PublishAt(i, r, "token") /\ Frame
    BY <1>5 DEF DirectToken, MediaAnalysis, Token, SuggestStage
  <2>. QED  BY <1>0, <2>1, PublishAtSafe DEF Frame, Kind
<1>6. CASE DirectDone(r)
  BY <1>0, <1>6, PublishAtSafe DEF DirectDone, Frame, Kind
<1>7. CASE SuggestItems(r)
  BY <1>0, <1>7, PublishAtSafe DEF SuggestItems, Frame, Kind
<1>8. CASE Remember(r)
  BY <1>0, <1>8, PublishAtSafe DEF Remember, Frame, Kind
<1>9. CASE Attach(r) \/ PrologueThrow(r)
  <2>1. AttachExecution(i, r) /\ Frame
    BY <1>9 DEF Attach, PrologueThrow
  <2>. QED  BY <1>0, <2>1, AttachExecutionSafe DEF Frame
<1>10. CASE ReasoningBlock(r)
  BY <1>0, <1>10, PublishReasoningSafe DEF ReasoningBlock, Frame
<1>11. CASE ThrowWhileRunning(r)
  <2>1. CASE r \in aborted
    BY <1>11, <2>1, QuietSafe DEF ThrowWhileRunning, Frame
  <2>2. CASE r \notin aborted
    BY <1>0, <1>11, <2>2, PublishDoneSafe DEF ThrowWhileRunning, Frame, Reason
  <2>. QED  BY <2>1, <2>2
<1>12. CASE Final(r)
  BY <1>0, <1>12, PublishFinalSafe DEF Final, Frame
<1>13. CASE Complete(r)
  BY <1>0, <1>13, PublishDoneSafe DEF Complete, Frame, Reason
<1>14. CASE Finish(r)
  <2>0. run[r].why \in Reason
    BY DEF RunTypeOK
  <2>1. CASE ~Live(session[i])
    BY <1>14, <2>1, QuietSafe DEF Finish, Frame
  <2>2. CASE Live(session[i]) /\ session[i].state = "FINAL"
    BY <1>0, <1>14, <2>0, <2>2, EmitDoneSafe DEF Finish, Frame
  <2>3. CASE Live(session[i]) /\ session[i].state # "FINAL"
    <3>1. session[i].run \in Runs
      BY <1>0, <2>3 DEF Live, BrokerInv, BrokerTypeOK, Session
    <3>2. /\ \E t \in {r, session[i].run} : PublishFinal(i, t)
          /\ Frame
      BY <1>14, <2>3 DEF Finish
    <3>. QED  BY <1>0, <3>1, <3>2, PublishFinalSafe DEF Frame
  <2>. QED  BY <2>1, <2>2, <2>3
<1>15. CASE FinishDone(r)
  <2>1. run[r].why \in Reason
    BY DEF RunTypeOK
  <2>. QED  BY <1>0, <1>15, <2>1, EmitDoneSafe DEF FinishDone, Frame
<1>16. CASE FinishClear(r)
  BY <1>0, <1>16, EmitDoneResumesSafe DEF FinishClear, Frame
<1>. QED
  BY <1>1, <1>2, <1>3, <1>4, <1>5, <1>6, <1>7, <1>8, <1>9, <1>10, <1>11,
     <1>12, <1>13, <1>14, <1>15, <1>16 DEF RunStep

LEMMA EngineStepSafe ==
  ASSUME BrokerInv, EngineStep
  PROVE  Safe
<1>1. ASSUME NEW s \in Subs, SubscribeFails(s) PROVE Safe
  <2>1. UNCHANGED <<session, buffer, members, mapped, suggested, listening,
                    inbox, aborted, published, turns>>
    BY <1>1 DEF SubscribeFails, brokerVars, redisVars
  <2>2. BrokerTypeOK'
    BY <2>1 DEF BrokerInv, BrokerTypeOK
  <2>. QED  BY <2>1, <2>2, SessionsStaySafe
<1>2. ASSUME NEW s \in Subs, Subscribe(s) \/ ReaderStep(s) PROVE Safe
  BY <1>2, SubscribeSafe, RedisSubscribesSafe, YieldSafe DEF ReaderStep
<1>3. ASSUME NEW i \in Inst, Deliver(i) \/ FlushEnds(i) \/ Timer(i) PROVE Safe
  BY <1>3, DeliverSafe, FlushEndsSafe, GrowOlderSafe, ReapSafe DEF Timer
<1>. QED  BY <1>1, <1>2, <1>3 DEF EngineStep

LEMMA NextSafe ==
  ASSUME BrokerInv, RunTypeOK, [Next]_vars
  PROVE  Safe
<1>1. ASSUME NEW r \in Runs, RunStep(r) PROVE Safe
  BY <1>1, RunStepSafe
<1>2. CASE EngineStep
  BY <1>2, EngineStepSafe
<1>3. ASSUME NEW i \in Inst, UserAbort(i) PROVE Safe
  BY <1>3, UserAbortSafe
<1>4. ASSUME NEW i \in Inst, NEW r \in Runs, Poke(i, r) PROVE Safe
  BY <1>4, PublishAtSafe DEF Poke, Kind
<1>5. CASE UNCHANGED vars
  BY <1>5, QuietSafe DEF vars, Quiet
<1>. QED  BY <1>1, <1>2, <1>3, <1>4, <1>5 DEF Next, Idle

(* Every run keeps its type.                                               *)
LEMMA RunTypesKept ==
  ASSUME RunTypeOK, [Next]_vars
  PROVE  RunTypeOK'
<1>. USE BoundsAssumption
<1>1. ASSUME NEW r \in Runs, RunStep(r) PROVE RunTypeOK'
  <2>1. pokes' = pokes
    BY <1>1 DEF RunStep, Register, Reject, Block, DirectRegister, DirectToken,
         DirectDone, MediaRegister, MediaAnalysis, MediaEnds, Attach,
         PrologueThrow, Token, ReasoningBlock, SegmentsDone, SeeAbort,
         Terminated, ThrowWhileRunning, Final, ThrowWhileFinalizing,
         SuggestStage, SuggestItems, Remember, Complete, Finish, FinishDone,
         FinishClear, Locally, Frame
  <2>2. \/ \E pc \in RunPC : Goto(r, pc)
        \/ \E why \in Reason : FinishWith(r, why)
        \/ run[r].sent < MaxTokens /\ run' = [run EXCEPT ![r].sent = @ + 1]
    BY <1>1 DEF RunStep, Register, Reject, Block, DirectRegister, DirectToken,
         DirectDone, MediaRegister, MediaAnalysis, MediaEnds, Attach,
         PrologueThrow, Token, ReasoningBlock, SegmentsDone, SeeAbort,
         Terminated, ThrowWhileRunning, Final, ThrowWhileFinalizing,
         SuggestStage, SuggestItems, Remember, Complete, Finish, FinishDone,
         FinishClear, RunPC, Reason
  <2>3. CASE \E pc \in RunPC : Goto(r, pc)
    BY <2>1, <2>3 DEF Goto, RunTypeOK
  <2>4. CASE \E why \in Reason : FinishWith(r, why)
    BY <2>1, <2>4 DEF FinishWith, RunTypeOK, RunPC
  <2>5. CASE run[r].sent < MaxTokens /\ run' = [run EXCEPT ![r].sent = @ + 1]
    BY <2>1, <2>5 DEF RunTypeOK
  <2>. QED  BY <2>2, <2>3, <2>4, <2>5
<1>2. ASSUME NEW i \in Inst, UserAbort(i) PROVE RunTypeOK'
  BY <1>2 DEF UserAbort, RunTypeOK, runVars
<1>3. ASSUME NEW i \in Inst, NEW r \in Runs, Poke(i, r) PROVE RunTypeOK'
  BY <1>3 DEF Poke, RunTypeOK
<1>4. CASE UNCHANGED runVars
  BY <1>4 DEF RunTypeOK, runVars
<1>. QED  BY <1>1, <1>2, <1>3, <1>4 DEF Next, Idle, vars, runVars

-----------------------------------------------------------------------------
(* The theorems *)

LEMMA InitSafe ==
  ASSUME Init
  PROVE  BrokerInv /\ RunTypeOK
<1>1. BrokerTypeOK
  BY EmptySeq DEF Init, EngineInit, BrokerTypeOK
<1>2. ReplayIsCurrent /\ IdsIdentify /\ OneSessionPerTurn /\ IdsBelowNext
  BY DEF Init, EngineInit, ReplayIsCurrent, IdsIdentify, OneSessionPerTurn,
         IdsBelowNext
<1>3. RunTypeOK
  BY BoundsAssumption DEF Init, RunTypeOK, RunPC, Reason
<1>. QED  BY <1>1, <1>2, <1>3 DEF BrokerInv

(* The invariant holds for ever and every step is safe.                    *)
THEOREM BrokerSafety ==
  Spec => /\ [](BrokerInv /\ RunTypeOK)
          /\ [][SilentStep /\ DoneStep]_vars
<1>1. Init => BrokerInv /\ RunTypeOK
  BY InitSafe
<1>2. BrokerInv /\ RunTypeOK /\ [Next]_vars
        => (BrokerInv /\ RunTypeOK)' /\ SilentStep /\ DoneStep
  BY NextSafe, RunTypesKept DEF Safe
<1>. QED  BY <1>1, <1>2, PTL DEF Spec

(* Types: everything but the readers' queues keeps its type.               *)
THEOREM TypesHold == Spec => [](BrokerTypeOK /\ RunTypeOK)
<1>1. BrokerInv => BrokerTypeOK
  BY DEF BrokerInv
<1>. QED  BY <1>1, BrokerSafety, PTL

(* The replay buffer holds the current turn only: register, the reaper,    *)
(* the last reader's cleanup and emitDone's late clearing never leave or   *)
(* bring back an event of another turn.                                    *)
THEOREM ReplayStaysCurrent == Spec => []ReplayIsCurrent
<1>1. BrokerInv => ReplayIsCurrent
  BY DEF BrokerInv
<1>. QED  BY <1>1, BrokerSafety, PTL

(* publish never gives an id twice in a turn, on any number of instances.  *)
THEOREM IdsAlwaysIdentify == Spec => []IdsIdentify
<1>1. BrokerInv => IdsIdentify
  BY DEF BrokerInv
<1>. QED  BY <1>1, BrokerSafety, PTL

(* After DONE a turn publishes nothing but dones.                          *)
THEOREM DoneSilences == Spec => SilenceAfterDone
BY BrokerSafety, PTL DEF SilenceAfterDone

(* A DONE session is replaced or removed, never reopened.                  *)
THEOREM DoneLasts == Spec => DoneIsForGood
BY BrokerSafety, PTL DEF DoneIsForGood

-----------------------------------------------------------------------------
(* The replay loop and a reader's queue *)

LEMMA LeastNumber ==
  ASSUME NEW T \in SUBSET Nat, T # {}
  PROVE  \E m \in T : \A n \in T : m <= n
<1>. DEFINE R == {p \in Nat \X Nat : p[1] < p[2]}
<1>1. IsWellFoundedOn(R, Nat)
  BY NatLessThanWellFounded DEF OpToRel
<1>2. \A n, m \in Nat : n < m => <<n, m>> \in R
  OBVIOUS
<1>. HIDE DEF R
<1>3. \E m \in T : \A n \in T : <<n, m>> \notin R
  BY <1>1, WFMin
<1>4. \A n, m \in T : <<n, m>> \notin R => m <= n
  BY <1>2
<1>. QED  BY <1>3, <1>4

LEMMA ReplayLoopDef ==
  ASSUME NEW rd, NEW es, Len(es) \in Nat
  PROVE  /\ ReplayLoop(rd, es)[0] = rd
         /\ \A n \in 1..Len(es) :
              ReplayLoop(rd, es)[n] = Enqueue(ReplayLoop(rd, es)[n - 1], es[n])
<1>. DEFINE Loop(f, n) == 
              f = [k \in 0..n |-> IF k = 0 THEN rd ELSE Enqueue(f[k - 1], es[k])]
            Undefined == {n \in Nat : ~\E f : Loop(f, n)}
<1>1. Undefined = {}
  <2>. SUFFICES ASSUME Undefined # {} PROVE FALSE
    OBVIOUS
  <2>1. PICK m \in Undefined : \A n \in Undefined : m <= n
    BY LeastNumber
  <2>2. m # 0
    <3>1. Loop([k \in 0..0 |-> rd], 0)
      OBVIOUS
    <3>. QED BY <3>1
  <2>3. m - 1 \in Nat /\ m - 1 \notin Undefined
    BY <2>1, <2>2
  <2>4. PICK f : Loop(f, m - 1)
    BY <2>3
  <2>. DEFINE g == [k \in 0..m |-> IF k = m THEN Enqueue(f[m - 1], es[m]) ELSE f[k]]
  <2>5. Loop(g, m)
    <3>1. \A k \in 0..m : g[k] = IF k = 0 THEN rd ELSE Enqueue(g[k - 1], es[k])
      <4>. SUFFICES ASSUME NEW k \in 0..m
                    PROVE g[k] = IF k = 0 THEN rd ELSE Enqueue(g[k - 1], es[k])
        OBVIOUS
      <4>1. CASE k = m 
        BY <4>1, <2>2, <2>3
      <4>2. CASE k # m 
        <5>1. k \in 0..(m-1) /\ g[k] = f[k] /\ (k # 0 => g[k-1] = f[k-1])
          BY <4>2, <2>3
        <5>. QED BY <5>1, <2>4
      <4>. QED BY <4>1, <4>2
    <3>. QED BY <3>1
  <2>. QED BY <2>5
<1>2. PICK f : Loop(f, Len(es))
  BY <1>1
<1>3. Loop(ReplayLoop(rd, es), Len(es))
  BY <1>2 DEF ReplayLoop
<1>. HIDE DEF Undefined
<1>. DEFINE g == ReplayLoop(rd, es)
<1>4. Loop(g, Len(es))
  BY <1>3
<1>. HIDE DEF g
<1>5. /\ g[0] = rd
      /\ \A n \in 1..Len(es) : g[n] = Enqueue(g[n - 1], es[n])
  BY <1>4
<1>. QED BY <1>5 DEF g

InOrder(rd) ==
  \A m, n \in DOMAIN rd.heard : m < n => rd.heard[m].id < rd.heard[n].id

Tidy(rd) == rd \in Reader /\ InOrder(rd) /\ Cursor(rd)

(* The same reader, further on.                                            *)
Further(rd, rx) ==
  /\ rx.pc = rd.pc /\ rx.cold = rd.cold /\ rx.since = rd.since

LEMMA EnqueueTidy ==
  ASSUME NEW rd, Tidy(rd), NEW e \in Event
  PROVE  Tidy(Enqueue(rd, e)) /\ Further(rd, Enqueue(rd, e))
<1>1. CASE ~(e.id > rd.last)
  BY <1>1 DEF Enqueue, Further
<1>2. CASE e.id > rd.last
  <2>. DEFINE rx == [rd EXCEPT !.heard = Append(@, e), !.last = e.id]
  <2>0. rd.heard \in Seq(Event) /\ rd.last \in Nat /\ e.id \in Nat
    BY DEF Tidy, Reader, Event
  <2>1. Append(rd.heard, e) \in Seq(Event)
    BY <2>0, AppendProperties
  <2>2. rx \in Reader /\ rx.heard = Append(rd.heard, e) /\ rx.last = e.id
    BY <2>0, <2>1 DEF Tidy, Reader
  <2>3. Further(rd, rx)
    BY DEF Tidy, Reader, Further
  <2>. HIDE DEF rx
  <2>4. /\ Len(rx.heard) = Len(rd.heard) + 1 /\ Len(rd.heard) \in Nat
        /\ rx.heard # <<>>
        /\ DOMAIN rx.heard = 1..Len(rd.heard) + 1
        /\ DOMAIN rd.heard = 1..Len(rd.heard)
        /\ \A n \in 1..Len(rd.heard) : rx.heard[n] = rd.heard[n]
        /\ rx.heard[Len(rd.heard) + 1] = e
    BY <2>0, <2>1, <2>2, AppendProperties, LenProperties
  <2>5. \A n \in 1..Len(rd.heard) : rd.heard[n].id \in Nat /\ rd.heard[n].id <= rd.last
    <3>1. \A n \in 1..Len(rd.heard) : rd.heard[n] \in Event
      BY <2>0, ElementOfSeq
    <3>. QED  BY <2>4, <3>1 DEF Tidy, Cursor, Event
  <2>6. Cursor(rx)
    BY <1>2, <2>0, <2>2, <2>4, <2>5 DEF Cursor
  <2>7. InOrder(rx)
    <3>. SUFFICES ASSUME NEW m \in DOMAIN rx.heard, NEW n \in DOMAIN rx.heard, m < n
                  PROVE  rx.heard[m].id < rx.heard[n].id
      BY DEF InOrder
    <3>1. CASE n \in 1..Len(rd.heard)
      BY <2>4, <3>1 DEF Tidy, InOrder
    <3>2. CASE n = Len(rd.heard) + 1
      BY <1>2, <2>0, <2>4, <2>5, <3>2
    <3>. QED  BY <2>4, <3>1, <3>2
  <2>. QED  BY <1>2, <2>2, <2>3, <2>6, <2>7 DEF Enqueue, Tidy, rx
<1>. QED  BY <1>1, <1>2

LEMMA ReplayTidy ==
  ASSUME NEW rd, Tidy(rd), NEW es \in Seq(Event), NEW n \in 0..Len(es)
  PROVE  Tidy(ReplayLoop(rd, es)[n]) /\ Further(rd, ReplayLoop(rd, es)[n])
<1>. DEFINE g == ReplayLoop(rd, es)
            Bad == {k \in 0..Len(es) : ~(Tidy(g[k]) /\ Further(rd, g[k]))}
<1>0. Len(es) \in Nat
  BY LenProperties
<1>1. g[0] = rd /\ \A k \in 1..Len(es) : g[k] = Enqueue(g[k - 1], es[k])
  BY <1>0, ReplayLoopDef
<1>. HIDE DEF g
<1>9. Bad \in SUBSET Nat
  BY <1>0
<1>2. Bad = {}
  <2>. SUFFICES ASSUME Bad # {} PROVE FALSE
    OBVIOUS
  <2>1. PICK m \in Bad : \A k \in Bad : m <= k
    <3>. HIDE DEF Bad
    <3>. QED  BY <1>9, LeastNumber
  <2>2. m # 0
    BY <1>1 DEF Further
  <2>3. m \in 1..Len(es) /\ m - 1 \in 0..Len(es) /\ m - 1 \notin Bad
    BY <1>0, <2>1, <2>2
  <2>4. Tidy(g[m - 1]) /\ Further(rd, g[m - 1]) /\ es[m] \in Event
    BY <2>3, ElementOfSeq
  <2>5. Tidy(g[m]) /\ Further(g[m - 1], g[m])
    BY <1>1, <2>3, <2>4, EnqueueTidy
  <2>. QED  BY <2>1, <2>4, <2>5 DEF Further
<1>. QED  BY <1>2 DEF g

LEMMA ReplayedTidy ==
  ASSUME NEW rd, Tidy(rd), NEW es \in Seq(Event), turns \in Nat
  PROVE  /\ Tidy(Replayed(rd, es))
         /\ Replayed(rd, es).pc = "live" /\ Replayed(rd, es).since = turns
         /\ Replayed(rd, es).cold = rd.cold
         /\ Replayed(rd, es).heard = ReplayLoop(rd, es)[Len(es)].heard
         /\ Replayed(rd, es).last = ReplayLoop(rd, es)[Len(es)].last
<1>. DEFINE rx == ReplayLoop(rd, es)[Len(es)]
<1>1. Tidy(rx) /\ Further(rd, rx)
  BY ReplayTidy, LenProperties
<1>2. Replayed(rd, es) = [rx EXCEPT !.pc = "live", !.since = turns]
  BY DEF Replayed
<1>. HIDE DEF rx
<1>3. [rx EXCEPT !.pc = "live", !.since = turns] \in Reader
  BY <1>1 DEF Tidy, Reader
<1>4. /\ Replayed(rd, es) \in Reader
      /\ Replayed(rd, es).pc = "live" /\ Replayed(rd, es).since = turns
      /\ Replayed(rd, es).cold = rd.cold
      /\ Replayed(rd, es).heard = rx.heard
      /\ Replayed(rd, es).last = rx.last
  BY <1>1, <1>2, <1>3 DEF Tidy, Reader, Further
<1>. QED  BY <1>1, <1>4 DEF Tidy, InOrder, Cursor, rx

(* A reader that goes to another pc.                                       *)
LEMMA MovedTidy ==
  ASSUME NEW rd, Tidy(rd), NEW rx \in Reader, rx.heard = rd.heard, rx.last = rd.last
  PROVE  Tidy(rx)
BY DEF Tidy, InOrder, Cursor

-----------------------------------------------------------------------------
(* StreamSound: what a reader heard is in order *)

LEMMA Messages ==
  ASSUME NEW m \in Event \cup Ack
  PROVE  IF IsAck(m) THEN m \in Ack ELSE m \in Event
<1>1. CASE m \in Event
  BY <1>1 DEF Event, IsAck
<1>2. CASE m \in Ack
  BY <1>2 DEF Ack, IsAck
<1>. QED  BY <1>1, <1>2

LEMMA TidyIsInv ==
  ASSUME reader' \in [Subs -> Reader], \A s \in Subs : Tidy(reader'[s])
  PROVE  ReaderInv'
BY DEF ReaderInv, ReaderTypeOK, HeardInOrder, Tidy, InOrder

LEMMA InvIsTidy ==
  ASSUME ReaderInv
  PROVE  reader \in [Subs -> Reader] /\ \A s \in Subs : Tidy(reader[s])
BY DEF ReaderInv, ReaderTypeOK, HeardInOrder, Tidy, InOrder

(* One reader goes to another pc and keeps its queue.                      *)
LEMMA OneMovesTidy ==
  ASSUME ReaderInv, NEW s \in Subs, NEW rx \in Reader,
         rx.heard = reader[s].heard, rx.last = reader[s].last,
         reader' = [reader EXCEPT ![s] = rx]
  PROVE  ReaderInv'
<1>1. Tidy(rx)
  BY InvIsTidy, MovedTidy
<1>. QED  BY <1>1, InvIsTidy, TidyIsInv

LEMMA OneReplaysTidy ==
  ASSUME BrokerInv, ReaderInv, NEW s \in Subs, NEW i \in Inst,
         reader' = [reader EXCEPT ![s] = Replayed(@, buffer[i])]
  PROVE  ReaderInv'
<1>1. buffer[i] \in Seq(Event) /\ turns \in Nat
  BY DEF BrokerInv, BrokerTypeOK
<1>2. Tidy(Replayed(reader[s], buffer[i]))
  BY <1>1, InvIsTidy, ReplayedTidy
<1>3. Replayed(reader[s], buffer[i]) \in Reader
  BY <1>2 DEF Tidy
<1>. QED  BY <1>2, <1>3, InvIsTidy, TidyIsInv

LEMMA DeliverTidy ==
  ASSUME BrokerInv, ReaderInv, NEW i \in Inst, Deliver(i)
  PROVE  ReaderInv'
<1>. DEFINE m == Head(inbox[i])
<1>1. m \in Event \cup Ack
  BY HeadTailProperties DEF Deliver, BrokerInv, BrokerTypeOK
<1>2. IF IsAck(m) THEN HandleAck(i, m) ELSE HandleEvent(i, m)
  BY DEF Deliver, IsAck
<1>. HIDE DEF m
<1>3. CASE IsAck(m)
  <2>1. m.sub \in Subs
    BY <1>1, <1>3, Messages DEF Ack
  <2>2. CASE m.ack = 1
    <3>1. reader' = [reader EXCEPT ![m.sub] = [reader[m.sub] EXCEPT !.pc = "patching"]]
      BY <1>2, <1>3, <2>2 DEF HandleAck
    <3>2. reader[m.sub] \in Reader
      BY <2>1, InvIsTidy
    <3>3. /\ [reader[m.sub] EXCEPT !.pc = "patching"] \in Reader
          /\ [reader[m.sub] EXCEPT !.pc = "patching"].heard = reader[m.sub].heard
          /\ [reader[m.sub] EXCEPT !.pc = "patching"].last = reader[m.sub].last
      BY <3>2 DEF Reader
    <3>. QED  BY <2>1, <3>1, <3>3, OneMovesTidy
  <2>3. CASE m.ack # 1
    BY <1>2, <1>3, <2>1, <2>3, OneReplaysTidy DEF HandleAck
  <2>. QED  BY <2>2, <2>3
<1>4. CASE ~IsAck(m)
  <2>1. m \in Event
    BY <1>1, <1>4, Messages
  <2>2. reader' = [s \in Subs |-> IF mapped[i] /\ s \in members[i]
                                  THEN Enqueue(reader[s], m) ELSE reader[s]]
    BY <1>2, <1>4 DEF HandleEvent
  <2>3. \A s \in Subs : Tidy(reader[s]) /\ Tidy(Enqueue(reader[s], m))
    BY <2>1, InvIsTidy, EnqueueTidy
  <2>4. \A s \in Subs : reader'[s] \in {Enqueue(reader[s], m), reader[s]}
    BY <2>2
  <2>5. \A s \in Subs : Tidy(reader'[s])
    BY <2>3, <2>4
  <2>6. \A s \in Subs : reader'[s] \in Reader
    BY <2>5 DEF Tidy
  <2>7. reader' \in [Subs -> Reader]
    BY <2>2, <2>6
  <2>. QED  BY <2>5, <2>7, TidyIsInv
<1>. QED  BY <1>3, <1>4

LEMMA EngineStepTidy ==
  ASSUME BrokerInv, ReaderInv, EngineStep
  PROVE  ReaderInv'
<1>0. \A s \in Subs : reader[s] \in Reader
  BY InvIsTidy
<1>1. ASSUME NEW s \in Subs, NEW p \in {"connect", "acked", "patched", "failed", "closed"},
             NEW b \in BOOLEAN,
             reader' = [reader EXCEPT ![s] = [@ EXCEPT !.pc = p, !.cold = b]]
      PROVE  ReaderInv'
  <2>. DEFINE rx == [reader[s] EXCEPT !.pc = p, !.cold = b]
  <2>1. rx \in Reader /\ rx.heard = reader[s].heard /\ rx.last = reader[s].last
    BY <1>0 DEF Reader
  <2>2. reader' = [reader EXCEPT ![s] = rx]
    BY <1>1
  <2>. HIDE DEF rx
  <2>. QED  BY <2>1, <2>2, OneMovesTidy
<1>2. ASSUME NEW s \in Subs, NEW p \in {"acked", "patched", "failed", "closed"},
             reader' = [reader EXCEPT ![s].pc = p]
      PROVE  ReaderInv'
  <2>. DEFINE rx == [reader[s] EXCEPT !.pc = p]
  <2>1. rx \in Reader /\ rx.heard = reader[s].heard /\ rx.last = reader[s].last
    BY <1>0 DEF Reader
  <2>2. reader' = [reader EXCEPT ![s] = rx]
    BY <1>2
  <2>. HIDE DEF rx
  <2>. QED  BY <2>1, <2>2, OneMovesTidy
<1>3. ASSUME NEW s \in Subs, Subscribe(s) PROVE ReaderInv'
  <2>1. Home[s] \in Inst
    BY HomeAssumption
  <2>2. CASE mapped[Home[s]]
    BY <1>3, <2>1, <2>2, OneReplaysTidy DEF Subscribe
  <2>3. CASE ~mapped[Home[s]]
    BY <1>1, <1>3, <2>3 DEF Subscribe
  <2>. QED  BY <2>2, <2>3
<1>4. ASSUME NEW s \in Subs, RedisSubscribes(s) PROVE ReaderInv'
  BY <1>2, <1>4 DEF RedisSubscribes
<1>5. ASSUME NEW s \in Subs, SubscribeFails(s) PROVE ReaderInv'
  BY <1>2, <1>5 DEF SubscribeFails
<1>6. ASSUME NEW s \in Subs, Yield(s) PROVE ReaderInv'
  BY <1>2, <1>6 DEF Yield
<1>7. CASE reader' = reader
  BY <1>7, InvIsTidy, TidyIsInv
<1>8. ASSUME NEW i \in Inst, FlushEnds(i) \/ Timer(i) PROVE reader' = reader
  BY <1>8 DEF FlushEnds, Timer, GrowOlder, Reap
<1>. QED
  BY <1>3, <1>4, <1>5, <1>6, <1>7, <1>8, DeliverTidy DEF EngineStep, ReaderStep

(* A run never touches a reader.                                           *)
LEMMA RunsLeaveReaders ==
  ASSUME [Next]_vars
  PROVE  EngineStep \/ reader' = reader
<1>1. ASSUME NEW r \in Runs, RunStep(r) PROVE reader' = reader
  BY <1>1 DEF RunStep, Register, Reject, Block, DirectRegister, DirectToken,
         DirectDone, MediaRegister, MediaAnalysis, MediaEnds, Attach,
         PrologueThrow, Token, ReasoningBlock, SegmentsDone, SeeAbort,
         Terminated, ThrowWhileRunning, Final, ThrowWhileFinalizing,
         SuggestStage, SuggestItems, Remember, Complete, Finish, FinishDone,
         FinishClear, Locally, Frame
<1>2. ASSUME NEW i \in Inst, UserAbort(i) PROVE reader' = reader
  BY <1>2 DEF UserAbort
<1>3. ASSUME NEW i \in Inst, NEW r \in Runs, Poke(i, r) PROVE reader' = reader
  BY <1>3 DEF Poke
<1>. QED  BY <1>1, <1>2, <1>3 DEF Next, Idle, vars

LEMMA ReadersTidy ==
  ASSUME BrokerInv, ReaderInv, [Next]_vars
  PROVE  ReaderInv'
BY RunsLeaveReaders, EngineStepTidy, InvIsTidy, TidyIsInv

LEMMA InitTidy ==
  ASSUME Init
  PROVE  ReaderInv
<1>1. NewReader \in Reader
  BY EmptySeq DEF NewReader, Reader
<1>2. \A s \in Subs : reader[s] = NewReader
  BY DEF Init, EngineInit
<1>3. reader \in [Subs -> Reader]
  BY <1>1 DEF Init, EngineInit
<1>4. InOrder(NewReader) /\ Cursor(NewReader)
  BY DEF NewReader, InOrder, Cursor
<1>. QED
  BY <1>2, <1>3, <1>4 DEF ReaderInv, ReaderTypeOK, HeardInOrder, InOrder

(* StreamSound, whatever the paths: types, ids, replay and what was heard. *)
THEOREM StreamIsSound == Spec => []StreamSound
<1>1. Init => ReaderInv
  BY InitTidy
<1>2. (BrokerInv /\ RunTypeOK) /\ ReaderInv /\ [Next]_vars => ReaderInv'
  BY ReadersTidy
<1>3. BrokerInv /\ RunTypeOK /\ ReaderInv => StreamSound
  BY DEF BrokerInv, ReaderInv, StreamSound, TypeOK
<1>. QED  BY <1>1, <1>2, <1>3, BrokerSafety, PTL DEF Spec

-----------------------------------------------------------------------------
(* The kinds of steps there are *)

SameTurns ==
  \A i \in Inst :
    IF session[i] = None THEN session'[i] = None
    ELSE /\ session'[i] # None /\ session'[i].turn = session[i].turn
         /\ session'[i].next >= session[i].next

(* Nothing is published, and no reader is concerned.                       *)
Keeping ==
  /\ SameTurns
  /\ UNCHANGED <<members, mapped, listening, inbox, reader, published, turns>>
  /\ \/ UNCHANGED buffer
     \/ \E r \in Runs : FinishClear(r)

(* Events of the session's turn are published, in the order of their ids.  *)
Fresh(i, s, es) ==
  /\ session[i] # None
  /\ s.turn = session[i].turn /\ s.next >= session[i].next
  /\ \A n \in DOMAIN es :
       es[n].turn = s.turn /\ es[n].id >= session[i].next /\ es[n].id < s.next
  /\ \A m, n \in DOMAIN es : m < n => Ordered(es[m], es[n])

Emitting ==
  /\ \E i \in Inst, s \in Session, es \in Seq(Event) : Fresh(i, s, es) /\ Emit(i, s, es)
  /\ UNCHANGED <<reader, aborted, turns>>

Registering ==
  \E r \in Runs : RegisterSession(Home[r], r) /\ UNCHANGED reader

Moving ==
  \/ \E s \in Subs : Subscribe(s) \/ RedisSubscribes(s) \/ SubscribeFails(s) \/ Yield(s)
  \/ \E i \in Inst : Deliver(i)

LEMMA QuietKeeps ==
  ASSUME BrokerInv, Quiet, UNCHANGED <<reader, turns>>
  PROVE  Keeping
<1>1. \A i \in Inst : session[i] # None => session[i].next \in Nat
  BY DEF BrokerInv, BrokerTypeOK, Session
<1>. QED  BY <1>1 DEF Quiet, brokerVars, redisVars, Keeping, SameTurns

LEMMA TouchKeeps ==
  ASSUME BrokerInv, NEW i \in Inst, session[i] # None, NEW s \in Session,
         s.turn = session[i].turn, s.next >= session[i].next,
         session' = [session EXCEPT ![i] = s],
         UNCHANGED <<buffer, members, mapped, listening, inbox, published,
                     reader, turns>>
  PROVE  Keeping
<1>1. s # None
  BY NoneAssumption
<1>2. \A j \in Inst : session[j] # None => session[j].next \in Nat
  BY DEF BrokerInv, BrokerTypeOK, Session
<1>3. \A j \in Inst : session'[j] = IF j = i THEN s ELSE session[j]
  BY DEF BrokerInv, BrokerTypeOK
<1>. QED  BY <1>1, <1>2, <1>3 DEF Keeping, SameTurns

LEMMA PublishKind ==
  ASSUME BrokerInv, NEW i \in Inst, NEW r \in Runs, NEW k \in Kind,
         session[i] # None, NEW s \in Session,
         s.turn = session[i].turn, s.next = session[i].next,
         Publish(i, s, r, k), UNCHANGED <<reader, aborted, turns>>
  PROVE  Emitting \/ Keeping
<1>0. s.next \in Nat /\ s.turn \in Nat /\ s.state \in State
  BY DEF Session
<1>1. CASE Passes(i, s, r, k)
  <2>. DEFINE t == [s EXCEPT !.next = @ + 1, !.state = Started(s)]
              e == EventOf(s, r, k, s.next)
  <2>1. t \in Session /\ t.turn = s.turn /\ t.next = s.next + 1
    <3>1. Started(s) \in State
      BY <1>0 DEF Started, State
    <3>2. t \in Session
      BY <1>0, <3>1, AdvancedSession
    <3>. QED  BY <3>2 DEF Session
  <2>2. e \in Event /\ e.turn = s.turn /\ e.id = s.next
    BY <1>0 DEF EventOf, Event
  <2>3. Emit(i, t, <<e>>)
    BY <1>1 DEF Publish
  <2>. HIDE DEF t, e
  <2>4. <<e>> \in Seq(Event) /\ DOMAIN <<e>> = {1} /\ <<e>>[1] = e
    BY <2>2
  <2>. DEFINE es == <<e>>
  <2>5. es \in Seq(Event) /\ DOMAIN es = {1} /\ es[1] = e /\ Emit(i, t, es)
    BY <2>3, <2>4
  <2>. HIDE DEF es
  <2>6. Fresh(i, t, es)
    BY <1>0, <2>1, <2>2, <2>5 DEF Fresh
  <2>. QED  BY <2>1, <2>5, <2>6 DEF Emitting
<1>2. CASE ~Passes(i, s, r, k)
  <2>. DEFINE t == [s EXCEPT !.next = @ + 1]
  <2>1. t \in Session /\ t.turn = s.turn /\ t.next = s.next + 1
    BY <1>0 DEF Session
  <2>2. /\ session' = [session EXCEPT ![i] = t]
        /\ UNCHANGED <<buffer, members, mapped, listening, inbox, published>>
    BY <1>2 DEF Publish, redisVars
  <2>. HIDE DEF t
  <2>3. t.turn = session[i].turn /\ t.next >= session[i].next
    BY <1>0, <2>1
  <2>. QED  BY <2>1, <2>2, <2>3, TouchKeeps
<1>. QED  BY <1>1, <1>2

LEMMA PublishAtKind ==
  ASSUME BrokerInv, NEW i \in Inst, NEW r \in Runs, NEW k \in Kind,
         PublishAt(i, r, k), UNCHANGED <<reader, aborted, turns>>
  PROVE  Emitting \/ Keeping
<1>1. CASE session[i] = None
  BY <1>1, QuietKeeps DEF PublishAt
<1>2. CASE session[i] # None
  <2>1. session[i] \in Session
    BY <1>2 DEF BrokerInv, BrokerTypeOK
  <2>. QED  BY <1>2, <2>1, PublishKind DEF PublishAt
<1>. QED  BY <1>1, <1>2

LEMMA PublishReasoningKind ==
  ASSUME BrokerInv, NEW i \in Inst, NEW r \in Runs,
         PublishReasoning(i, r), UNCHANGED <<reader, aborted, turns>>
  PROVE  Emitting \/ Keeping
<1>. DEFINE s == session[i]
            n == s.next
            block == EventOf(s, r, "block", n)
            activity == EventOf(s, r, "activity", n + 1)
<1>1. CASE s = None
  BY <1>1, QuietKeeps DEF PublishReasoning
<1>2. CASE s # None /\ ~Passes(i, s, r, "block")
  <2>1. s \in Session
    BY <1>2 DEF BrokerInv, BrokerTypeOK
  <2>2. Publish(i, s, r, "block") /\ "block" \in Kind
    BY <1>2 DEF PublishReasoning, Kind
  <2>. QED  BY <1>2, <2>1, <2>2, PublishKind
<1>3. CASE s # None /\ Passes(i, s, r, "block")
  <2>1. s \in Session /\ n \in Nat /\ s.turn \in Nat
    BY <1>3 DEF BrokerInv, BrokerTypeOK, Session
  <2>3. /\ block \in Event /\ block.turn = s.turn /\ block.id = n /\ block.kind = "block"
        /\ activity \in Event /\ activity.turn = s.turn /\ activity.id = n + 1
    BY <2>1 DEF EventOf, Event, Kind
  <2>4. CASE s.flushing
    <3>. DEFINE t == [s EXCEPT !.next = n + 1, !.state = "STREAMING"]
                es == <<block>>
    <3>1. t \in Session /\ t.turn = s.turn /\ t.next = n + 1
      <4>1. t \in Session
        BY <2>1, AdvancedSession DEF State
      <4>. QED  BY <2>1, <4>1 DEF Session
    <3>2. Emit(i, t, es)
      BY <1>3, <2>4 DEF PublishReasoning
    <3>. HIDE DEF t, block, activity
    <3>3. es \in Seq(Event) /\ DOMAIN es = {1} /\ es[1] = block
      BY <2>3
    <3>. HIDE DEF es
    <3>4. Fresh(i, t, es)
      BY <1>3, <2>1, <2>3, <3>1, <3>3 DEF Fresh
    <3>. QED  BY <3>1, <3>2, <3>3, <3>4 DEF Emitting
  <2>5. CASE ~s.flushing
    <3>. DEFINE t == [s EXCEPT !.next = n + 2, !.state = "STREAMING",
                               !.flushing = TRUE]
                es == <<activity, block>>
    <3>1. t \in Session /\ t.turn = s.turn /\ t.next = n + 2
      <4>. DEFINE u == [s EXCEPT !.next = n + 2, !.state = "STREAMING"]
      <4>1. u \in Session
        BY <2>1, AdvancedSession DEF State
      <4>2. [u EXCEPT !.flushing = TRUE] \in Session
        <5>. HIDE DEF u
        <5>. QED  BY <4>1 DEF Session
      <4>3. t = [u EXCEPT !.flushing = TRUE]
        BY <2>1 DEF Session
      <4>. QED  BY <2>1, <4>2, <4>3 DEF Session
    <3>2. Emit(i, t, es)
      BY <1>3, <2>5 DEF PublishReasoning
    <3>. HIDE DEF t, block, activity
    <3>3. /\ es \in Seq(Event)
          /\ DOMAIN es = {1, 2} /\ es[1] = activity /\ es[2] = block
      BY <2>3
    <3>. HIDE DEF es
    <3>4. \A m, q \in DOMAIN es : m < q => Ordered(es[m], es[q])
      BY <2>3, <3>3 DEF Ordered
    <3>5. Fresh(i, t, es)
      BY <1>3, <2>1, <2>3, <3>1, <3>3, <3>4 DEF Fresh
    <3>. QED  BY <3>1, <3>2, <3>3, <3>5 DEF Emitting
  <2>. QED  BY <2>4, <2>5
<1>. QED  BY <1>1, <1>2, <1>3

(* PublishFinal, PublishDone and EmitDone, which set the state first.      *)
LEMMA EndingKind ==
  ASSUME BrokerInv, NEW i \in Inst, NEW r \in Runs,
         NEW reason \in Reason,
         \/ PublishFinal(i, r) \/ PublishDone(i, r, reason) \/ EmitDone(i, reason),
         UNCHANGED <<reader, aborted, turns>>
  PROVE  Emitting \/ Keeping
<1>1. CASE Quiet
  BY <1>1, QuietKeeps
<1>2. CASE ~Quiet
  <2>1. session[i] # None /\ session[i] \in Session
    BY <1>2 DEF PublishFinal, PublishDone, EmitDone, Live, BrokerInv, BrokerTypeOK
  <2>2. \E x \in {"FINAL"} \cup Done, k \in {"final", "done"}, q \in Runs :
          Publish(i, [session[i] EXCEPT !.state = x], q, k)
    <3>1. DoneState(reason) \in Done /\ session[i].run \in Runs
      BY <2>1 DEF DoneState, Done, Reason, Session
    <3>. QED  BY <1>2, <3>1 DEF PublishFinal, PublishDone, EmitDone
  <2>3. PICK x \in {"FINAL"} \cup Done, k \in {"final", "done"}, q \in Runs :
          Publish(i, [session[i] EXCEPT !.state = x], q, k)
    BY <2>2
  <2>. DEFINE t == [session[i] EXCEPT !.state = x]
  <2>4. t \in Session /\ t.turn = session[i].turn /\ t.next = session[i].next
    BY <2>1 DEF Session, State
  <2>5. Publish(i, t, q, k) /\ k \in Kind
    BY <2>3 DEF Kind
  <2>. HIDE DEF t
  <2>. QED  BY <2>1, <2>4, <2>5, PublishKind
<1>. QED  BY <1>1, <1>2

LEMMA RunStepKind ==
  ASSUME BrokerInv, RunTypeOK, NEW r \in Runs, RunStep(r)
  PROVE  Emitting \/ Keeping \/ Registering
<1>. DEFINE i == Home[r]
<1>0. i \in Inst
  BY HomeAssumption
<1>1. CASE Register(r) \/ DirectRegister(r) \/ MediaRegister(r)
  BY <1>1 DEF Register, DirectRegister, MediaRegister, Registering
<1>2. CASE Reject(r) \/ Block(r) \/ MediaEnds(r) \/ SegmentsDone(r)
             \/ SeeAbort(r) \/ Terminated(r) \/ ThrowWhileFinalizing(r)
  BY <1>2, QuietKeeps
     DEF Reject, Block, MediaEnds, SegmentsDone, SeeAbort, Terminated,
         ThrowWhileFinalizing, Locally, Frame
<1>3. CASE \/ DirectToken(r) \/ MediaAnalysis(r) \/ Token(r) \/ SuggestStage(r)
           \/ DirectDone(r) \/ SuggestItems(r) \/ Remember(r)
  <2>1. Frame /\ \E k \in {"token", "done", "suggestion", "memory"} : PublishAt(i, r, k)
    BY <1>3 DEF DirectToken, MediaAnalysis, Token, SuggestStage, DirectDone,
                SuggestItems, Remember
  <2>. QED  BY <1>0, <2>1, PublishAtKind DEF Frame, Kind
<1>4. CASE Attach(r) \/ PrologueThrow(r)
  <2>1. AttachExecution(i, r) /\ Frame
    BY <1>4 DEF Attach, PrologueThrow
  <2>2. CASE session[i] = None
    BY <2>1, <2>2, QuietKeeps
       DEF AttachExecution, Frame, Quiet, brokerVars, redisVars
  <2>3. CASE session[i] # None
    <3>. DEFINE s == [session[i] EXCEPT !.executor = r]
    <3>1. session[i] \in Session
      BY <1>0, <2>3 DEF BrokerInv, BrokerTypeOK
    <3>2. s \in Session /\ s.turn = session[i].turn /\ s.next = session[i].next
          /\ session[i].next \in Nat
      BY <3>1 DEF Session
    <3>3. /\ session' = [session EXCEPT ![i] = s]
          /\ UNCHANGED <<buffer, members, mapped, listening, inbox, published,
                         reader, turns>>
      BY <2>1, <2>3 DEF AttachExecution, redisVars, Frame
    <3>. HIDE DEF s
    <3>4. s.next >= session[i].next
      BY <3>2
    <3>. QED  BY <1>0, <2>3, <3>2, <3>3, <3>4, TouchKeeps
  <2>. QED  BY <2>2, <2>3
<1>5. CASE ReasoningBlock(r)
  BY <1>0, <1>5, PublishReasoningKind DEF ReasoningBlock, Frame
<1>6. CASE ThrowWhileRunning(r)
  <2>1. CASE r \in aborted
    BY <1>6, <2>1, QuietKeeps DEF ThrowWhileRunning, Frame
  <2>2. CASE r \notin aborted
    BY <1>0, <1>6, <2>2, EndingKind DEF ThrowWhileRunning, Frame, Reason
  <2>. QED  BY <2>1, <2>2
<1>7. CASE Final(r) \/ Complete(r)
  BY <1>0, <1>7, EndingKind DEF Final, Complete, Frame, Reason
<1>8. CASE Finish(r)
  <2>0. run[r].why \in Reason
    BY DEF RunTypeOK
  <2>1. CASE ~Live(session[i])
    BY <1>8, <2>1, QuietKeeps DEF Finish, Frame
  <2>2. CASE Live(session[i])
    <3>1. session[i].run \in Runs
      BY <1>0, <2>2 DEF Live, BrokerInv, BrokerTypeOK, Session
    <3>2. Frame /\ (EmitDone(i, run[r].why) \/ \E t \in Runs : PublishFinal(i, t))
      BY <1>8, <2>2, <3>1 DEF Finish
    <3>. QED  BY <1>0, <2>0, <3>2, EndingKind DEF Frame
  <2>. QED  BY <2>1, <2>2
<1>9. CASE FinishDone(r)
  <2>1. run[r].why \in Reason
    BY DEF RunTypeOK
  <2>. QED  BY <1>0, <1>9, <2>1, EndingKind DEF FinishDone, Frame
<1>10. CASE FinishClear(r)
  <2>1. \A j \in Inst : session[j] # None => session[j].next \in Nat
    BY DEF BrokerInv, BrokerTypeOK, Session
  <2>2. UNCHANGED <<session, members, mapped, listening, inbox, reader,
                    published, turns>>
    BY <1>10 DEF FinishClear, EmitDoneResumes, redisVars, Frame
  <2>3. SameTurns
    BY <2>1, <2>2 DEF SameTurns
  <2>. QED  BY <1>10, <2>2, <2>3 DEF Keeping
<1>. QED
  BY <1>1, <1>2, <1>3, <1>4, <1>5, <1>6, <1>7, <1>8, <1>9, <1>10 DEF RunStep

(* Every step is of one of four kinds, or reaps.                           *)
LEMMA StepKinds ==
  ASSUME BrokerInv, RunTypeOK, [Next]_vars, "reap" \notin Paths
  PROVE  Emitting \/ Keeping \/ Registering \/ Moving
<1>1. ASSUME NEW i \in Inst, UserAbort(i) PROVE Keeping
  BY <1>1, QuietKeeps DEF UserAbort
<1>2. ASSUME NEW i \in Inst, NEW r \in Runs, Poke(i, r) PROVE Emitting \/ Keeping
  BY <1>2, PublishAtKind DEF Poke, Kind
<1>3. CASE UNCHANGED vars
  BY <1>3, QuietKeeps DEF vars, Quiet
<1>4. ASSUME NEW i \in Inst, FlushEnds(i) PROVE Keeping
  <2>. DEFINE s == [session[i] EXCEPT !.flushing = FALSE]
  <2>0. session[i] # None /\ session[i] \in Session
    BY <1>4 DEF FlushEnds, BrokerInv, BrokerTypeOK
  <2>1. s \in Session /\ s.turn = session[i].turn /\ s.next = session[i].next
        /\ session[i].next \in Nat
    BY <2>0 DEF Session
  <2>2. /\ session' = [session EXCEPT ![i] = s]
        /\ UNCHANGED <<buffer, members, mapped, listening, inbox, published,
                       reader, turns>>
    BY <1>4 DEF FlushEnds, redisVars
  <2>. HIDE DEF s
  <2>3. s.next >= session[i].next
    BY <2>1
  <2>. QED  BY <2>0, <2>1, <2>2, <2>3, TouchKeeps
<1>5. CASE EngineStep
  BY <1>4, <1>5 DEF EngineStep, ReaderStep, Timer, Moving
<1>. QED  BY <1>1, <1>2, <1>3, <1>5, RunStepKind DEF Next, Idle

-----------------------------------------------------------------------------
(* ReaderReachable: members, channels and replies *)

(* The items of two sequences put together.                                *)
LEMMA ConcatSplit ==
  ASSUME NEW T, NEW a \in Seq(T), NEW b \in Seq(T), NEW c, c = a \o b
  PROVE  /\ c \in Seq(T)
         /\ DOMAIN a \subseteq DOMAIN c
         /\ \A n \in DOMAIN a : c[n] = a[n]
         /\ \A n \in DOMAIN c \ DOMAIN a :
              n > Len(a) /\ n - Len(a) \in DOMAIN b /\ c[n] = b[n - Len(a)]
         /\ \A k \in DOMAIN b : k + Len(a) \in DOMAIN c /\ c[k + Len(a)] = b[k]
<1>. DEFINE p == Len(a)
            q == Len(b)
<1>1. p \in Nat /\ q \in Nat /\ DOMAIN a = 1..p /\ DOMAIN b = 1..q
  BY LenProperties
<1>2. /\ c \in Seq(T) /\ Len(c) = p + q
      /\ \A n \in 1..p + q : c[n] = IF n <= p THEN a[n] ELSE b[n - p]
  BY ConcatProperties
<1>3. DOMAIN c = 1..p + q
  BY <1>2, LenProperties
<1>. HIDE DEF p, q
<1>4. DOMAIN a \subseteq DOMAIN c /\ \A n \in DOMAIN a : c[n] = a[n]
  BY <1>1, <1>2, <1>3
<1>5. \A n \in DOMAIN c \ DOMAIN a :
        n > p /\ n - p \in DOMAIN b /\ c[n] = b[n - p]
  BY <1>1, <1>2, <1>3
<1>6. \A k \in DOMAIN b : k + p \in DOMAIN c /\ c[k + p] = b[k]
  <2>. SUFFICES ASSUME NEW k \in DOMAIN b
                PROVE  k + p \in DOMAIN c /\ c[k + p] = b[k]
    OBVIOUS
  <2>1. k \in 1..q /\ k + p \in 1..p + q /\ ~(k + p <= p) /\ (k + p) - p = k
    BY <1>1
  <2>. QED  BY <1>2, <1>3, <2>1
<1>. QED  BY <1>2, <1>4, <1>5, <1>6 DEF p

(* What an inbox can become.                                               *)
LEMMA InboxGrows ==
  ASSUME BrokerInv, NEW i \in Inst, NEW s \in Session, NEW es \in Seq(Event), Emit(i, s, es),
         NEW j \in Inst
  PROVE  /\ inbox[j] \in Seq(Event \cup Ack) /\ inbox'[j] \in Seq(Event \cup Ack)
         /\ DOMAIN inbox[j] \subseteq DOMAIN inbox'[j]
         /\ \A n \in DOMAIN inbox[j] : inbox'[j][n] = inbox[j][n]
         /\ \A n \in DOMAIN inbox'[j] \ DOMAIN inbox[j] :
              /\ n > Len(inbox[j]) /\ j \in listening
              /\ n - Len(inbox[j]) \in DOMAIN es
              /\ inbox'[j][n] = es[n - Len(inbox[j])]
         /\ j \in listening =>
              \A k \in DOMAIN es : /\ k + Len(inbox[j]) \in DOMAIN inbox'[j]
                                   /\ inbox'[j][k + Len(inbox[j])] = es[k]
<1>1. inbox[j] \in Seq(Event \cup Ack) /\ es \in Seq(Event \cup Ack)
  BY SeqMonotonic DEF BrokerInv, BrokerTypeOK
<1>2. inbox'[j] = IF j \in listening THEN inbox[j] \o es ELSE inbox[j]
  BY DEF Emit
<1>3. /\ Len(inbox[j]) \in Nat /\ DOMAIN inbox[j] = 1..Len(inbox[j])
      /\ Len(es) \in Nat /\ DOMAIN es = 1..Len(es)
  BY <1>1, LenProperties
<1>4. CASE j \in listening
  BY <1>1, <1>2, <1>4, ConcatSplit
<1>5. CASE j \notin listening
  BY <1>1, <1>2, <1>5
<1>. QED  BY <1>4, <1>5

LEMMA InboxShrinks ==
  ASSUME BrokerInv, NEW i \in Inst, Deliver(i)
  PROVE  /\ \A j \in Inst : j # i => inbox'[j] = inbox[j]
         /\ 1 \in DOMAIN inbox[i] /\ Head(inbox[i]) = inbox[i][1]
         /\ inbox'[i] \in Seq(Event \cup Ack)
         /\ \A n \in DOMAIN inbox'[i] :
              n + 1 \in DOMAIN inbox[i] /\ inbox'[i][n] = inbox[i][n + 1]
         /\ \A n \in DOMAIN inbox[i] :
              n = 1 \/ (n - 1 \in DOMAIN inbox'[i] /\ inbox'[i][n - 1] = inbox[i][n])
<1>1. /\ inbox[i] \in Seq(Event \cup Ack) /\ inbox[i] # <<>>
      /\ inbox' = [inbox EXCEPT ![i] = Tail(@)]
      /\ inbox \in [Inst -> Seq(Event \cup Ack)]
  BY DEF Deliver, HandleAck, HandleEvent, BrokerInv, BrokerTypeOK
<1>2. inbox'[i] = Tail(inbox[i]) /\ \A j \in Inst : j # i => inbox'[j] = inbox[j]
  BY <1>1
<1>3. /\ inbox'[i] \in Seq(Event \cup Ack)
      /\ Len(inbox'[i]) = Len(inbox[i]) - 1
      /\ \A n \in 1..Len(inbox'[i]) : inbox'[i][n] = inbox[i][n + 1]
      /\ Len(inbox[i]) \in Nat \ {0}
  BY <1>1, <1>2, HeadTailProperties, EmptySeq
<1>4. DOMAIN inbox[i] = 1..Len(inbox[i]) /\ DOMAIN inbox'[i] = 1..Len(inbox'[i])
  BY <1>1, <1>3, LenProperties
<1>5. Head(inbox[i]) = inbox[i][1]
  BY <1>1
<1>. QED  BY <1>2, <1>3, <1>4, <1>5

LEMMA EmitChannel ==
  ASSUME BrokerInv, ChannelInv, Emitting
  PROVE  ChannelInv'
<1>1. PICK i \in Inst, s \in Session, es \in Seq(Event) : Emit(i, s, es)
  BY DEF Emitting
<1>2. UNCHANGED <<members, mapped, listening, reader>>
  BY <1>1 DEF Emitting, Emit
<1>3. JoinedInv' /\ MembersInv'
  BY <1>2 DEF ChannelInv, JoinedInv, MembersInv
<1>4. ASSUME NEW j \in Inst, NEW n \in DOMAIN inbox'[j], IsAck(inbox'[j][n])
      PROVE  n \in DOMAIN inbox[j] /\ inbox'[j][n] = inbox[j][n]
  <2>1. CASE n \in DOMAIN inbox[j]
    BY <1>1, <2>1, InboxGrows
  <2>2. CASE n \notin DOMAIN inbox[j]
    <3>1. n - Len(inbox[j]) \in DOMAIN es /\ inbox'[j][n] = es[n - Len(inbox[j])]
      BY <1>1, <2>2, InboxGrows
    <3>2. inbox'[j][n] \in Event
      BY <3>1, ElementOfSeq, LenProperties
    <3>. QED  BY <1>4, <3>2 DEF Event, IsAck
  <2>. QED  BY <2>1, <2>2
<1>5. AckInv'
  BY <1>2, <1>4 DEF ChannelInv, AckInv
<1>. QED  BY <1>3, <1>5 DEF ChannelInv

LEMMA StillChannel ==
  ASSUME ChannelInv, UNCHANGED <<members, mapped, listening, inbox, reader>>
  PROVE  ChannelInv'
BY DEF ChannelInv, JoinedInv, MembersInv, AckInv

LEMMA SubscribeChannel ==
  ASSUME BrokerInv, ReaderInv, ChannelInv, NEW s \in Subs, Subscribe(s)
  PROVE  ChannelInv'
<1>. DEFINE i == Home[s]
<1>0. i \in Inst
  BY HomeAssumption
<1>1. /\ members' = [members EXCEPT ![i] = @ \cup {s}]
      /\ UNCHANGED <<mapped, listening, inbox>>
      /\ reader[s].pc = "idle"
  BY DEF Subscribe, redisVars
<1>2. /\ reader'[s].pc = IF mapped[i] THEN "live" ELSE "connect"
      /\ \A x \in Subs : x # s => reader'[x] = reader[x]
  <2>1. \A x \in Subs : x # s => reader'[x] = reader[x]
    BY InvIsTidy DEF Subscribe
  <2>2. CASE mapped[i]
    <3>1. reader'[s] = Replayed(reader[s], buffer[i])
      BY <2>2, InvIsTidy DEF Subscribe
    <3>2. buffer[i] \in Seq(Event) /\ turns \in Nat
      BY <1>0 DEF BrokerInv, BrokerTypeOK
    <3>3. Tidy(reader[s])
      BY InvIsTidy
    <3>. QED  BY <2>1, <2>2, <3>1, <3>2, <3>3, ReplayedTidy
  <2>3. CASE ~mapped[i]
    <3>1. reader'[s] = [reader[s] EXCEPT !.pc = "connect", !.cold = TRUE]
      BY <2>3, InvIsTidy DEF Subscribe
    <3>2. reader[s] \in Reader
      BY InvIsTidy
    <3>. QED  BY <2>1, <2>3, <3>1, <3>2 DEF Reader
  <2>. QED  BY <2>2, <2>3
<1>3. members[i] \subseteq Subs /\ members \in [Inst -> SUBSET Subs]
  BY <1>0 DEF BrokerInv, BrokerTypeOK
<1>4. JoinedInv'
  BY <1>0, <1>1, <1>2, <1>3, HomeAssumption
     DEF ChannelInv, JoinedInv, MembersInv, Joined, Connected, Routed
<1>5. MembersInv'
  BY <1>0, <1>1, <1>2, <1>3 DEF ChannelInv, MembersInv
<1>6. \A j \in Inst : \A n \in DOMAIN inbox[j] : IsAck(inbox[j][n]) =>
         inbox[j][n].sub # s /\ inbox[j][n].sub \in Subs
  <2>. SUFFICES ASSUME NEW j \in Inst, NEW n \in DOMAIN inbox[j], IsAck(inbox[j][n])
                PROVE  inbox[j][n].sub # s /\ inbox[j][n].sub \in Subs
    OBVIOUS
  <2>1. inbox[j][n] \in Event \cup Ack
    BY ElementOfSeq, LenProperties DEF BrokerInv, BrokerTypeOK
  <2>2. inbox[j][n].sub \in Subs
    BY <2>1, Messages DEF Ack
  <2>. QED  BY <1>1, <2>2 DEF ChannelInv, AckInv
<1>7. AckInv'
  BY <1>1, <1>2, <1>6 DEF ChannelInv, AckInv
<1>. QED  BY <1>4, <1>5, <1>7 DEF ChannelInv

LEMMA OneReader ==
  ASSUME ReaderInv, NEW s \in Subs, NEW p, p \in {"acked", "patching", "patched", "failed", "closed"},
         reader' = [reader EXCEPT ![s].pc = p]
  PROVE  /\ reader'[s].pc = p /\ reader'[s].heard = reader[s].heard
         /\ reader'[s].last = reader[s].last /\ reader'[s].since = reader[s].since
         /\ reader'[s].cold = reader[s].cold
         /\ \A x \in Subs : x # s => reader'[x] = reader[x]
<1>1. reader[s] \in Reader /\ reader \in [Subs -> Reader]
  BY InvIsTidy
<1>2. reader'[s] = [reader[s] EXCEPT !.pc = p]
  BY <1>1
<1>. QED  BY <1>1, <1>2 DEF Reader

(* Where the acks are: readers that expect one, on the instance.           *)
LEMMA AckKnown ==
  ASSUME BrokerInv, ChannelInv, NEW j \in Inst, NEW n \in DOMAIN inbox[j], IsAck(inbox[j][n])
  PROVE  /\ inbox[j][n] \in Ack /\ inbox[j][n].sub \in Subs
         /\ Home[inbox[j][n].sub] = j /\ inbox[j][n].sub \in members[j]
         /\ reader[inbox[j][n].sub].pc = IF inbox[j][n].ack = 1 THEN "acked" ELSE "patched"
<1>1. inbox[j][n] \in Event \cup Ack
  BY ElementOfSeq, LenProperties DEF BrokerInv, BrokerTypeOK
<1>2. inbox[j][n] \in Ack /\ inbox[j][n].sub \in Subs
  BY <1>1, Messages DEF Ack
<1>. QED  BY <1>2 DEF ChannelInv, AckInv, JoinedInv, Joined

LEMMA RedisChannel ==
  ASSUME BrokerInv, ReaderInv, ChannelInv, NEW s \in Subs, RedisSubscribes(s)
  PROVE  ChannelInv'
<1>. DEFINE i == Home[s]
<1>0. i \in Inst /\ inbox[i] \in Seq(Event \cup Ack) /\ inbox \in [Inst -> Seq(Event \cup Ack)]
  BY HomeAssumption DEF BrokerInv, BrokerTypeOK
<1>1. PICK n \in {1, 2} :
        /\ reader[s].pc = IF n = 1 THEN "connect" ELSE "patching"
        /\ reader' = [reader EXCEPT ![s].pc = IF n = 1 THEN "acked" ELSE "patched"]
        /\ listening' = IF n = 1 THEN listening \cup {i} ELSE listening
        /\ inbox' = [inbox EXCEPT ![i] = Append(@, [ack |-> n, sub |-> s])]
  BY DEF RedisSubscribes
<1>2. UNCHANGED <<members, mapped>>
  BY DEF RedisSubscribes, brokerVars
<1>. DEFINE p == IF n = 1 THEN "acked" ELSE "patched"
<1>3. reader'[s].pc = p /\ \A x \in Subs : x # s => reader'[x] = reader[x]
  BY <1>1, OneReader
<1>4. JoinedInv'
  BY <1>1, <1>2, <1>3 DEF ChannelInv, JoinedInv, Joined, Connected, Routed
<1>5. MembersInv'
  <2>1. \A j \in Inst : members[j] \subseteq Subs
    BY DEF BrokerInv, BrokerTypeOK
  <2>. QED  BY <1>1, <1>2, <1>3, <2>1 DEF ChannelInv, MembersInv
<1>. DEFINE a == [ack |-> n, sub |-> s]
<1>6. a \in Event \cup Ack /\ IsAck(a) /\ a.sub = s /\ a.ack = n
  BY <1>1 DEF Ack, IsAck
<1>. HIDE DEF a
<1>7. /\ \A j \in Inst : j # i => inbox'[j] = inbox[j]
      /\ inbox'[i] = Append(inbox[i], a)
  BY <1>0, <1>1 DEF a
<1>8. /\ Len(inbox[i]) \in Nat /\ DOMAIN inbox[i] = 1..Len(inbox[i])
      /\ DOMAIN inbox'[i] = 1..Len(inbox[i]) + 1
      /\ \A m \in 1..Len(inbox[i]) : inbox'[i][m] = inbox[i][m]
      /\ inbox'[i][Len(inbox[i]) + 1] = a
  BY <1>0, <1>6, <1>7, AppendProperties, LenProperties
<1>9. \A j \in Inst : \A m \in DOMAIN inbox[j] : IsAck(inbox[j][m]) =>
        inbox[j][m].sub # s /\ inbox[j][m].sub \in Subs
  BY <1>1, AckKnown
<1>10. \A j \in Inst : \A m \in DOMAIN inbox'[j] :
        \/ m \in DOMAIN inbox[j] /\ inbox'[j][m] = inbox[j][m]
        \/ j = i /\ m = Len(inbox[i]) + 1 /\ inbox'[j][m] = a
  <2>1. ASSUME NEW j \in Inst, NEW m \in DOMAIN inbox'[j], j # i
        PROVE  m \in DOMAIN inbox[j] /\ inbox'[j][m] = inbox[j][m]
    BY <1>7, <2>1
  <2>2. ASSUME NEW m \in DOMAIN inbox'[i]
        PROVE  \/ m \in DOMAIN inbox[i] /\ inbox'[i][m] = inbox[i][m]
               \/ m = Len(inbox[i]) + 1 /\ inbox'[i][m] = a
    <3>1. m \in 1..Len(inbox[i]) \/ m = Len(inbox[i]) + 1
      BY <1>8
    <3>. QED  BY <1>8, <3>1
  <2>. QED  BY <2>1, <2>2
<1>11. ASSUME NEW j \in Inst, NEW m \in DOMAIN inbox'[j], IsAck(inbox'[j][m])
       PROVE  /\ Home[inbox'[j][m].sub] = j
              /\ reader'[inbox'[j][m].sub].pc =
                   IF inbox'[j][m].ack = 1 THEN "acked" ELSE "patched"
  <2>1. CASE m \in DOMAIN inbox[j] /\ inbox'[j][m] = inbox[j][m]
    BY <1>3, <1>9, <1>11, <2>1 DEF ChannelInv, AckInv
  <2>2. CASE j = i /\ inbox'[j][m] = a
    BY <1>3, <1>6, <2>2
  <2>. QED  BY <1>10, <2>1, <2>2
<1>12. ASSUME NEW j \in Inst, NEW m \in DOMAIN inbox'[j], NEW k \in DOMAIN inbox'[j],
              m # k, IsAck(inbox'[j][m]), IsAck(inbox'[j][k])
       PROVE  inbox'[j][m].sub # inbox'[j][k].sub
  BY <1>6, <1>9, <1>10, <1>12 DEF ChannelInv, AckInv
<1>13. AckInv'
  BY <1>11, <1>12 DEF AckInv
<1>. QED  BY <1>4, <1>5, <1>13 DEF ChannelInv

LEMMA FailsChannel ==
  ASSUME BrokerInv, ReaderInv, ChannelInv, NEW s \in Subs, SubscribeFails(s)
  PROVE  ChannelInv'
<1>1. UNCHANGED <<members, mapped, listening, inbox>> /\ reader[s].pc = "connect"
  BY DEF SubscribeFails, brokerVars, redisVars
<1>2. reader'[s].pc = "failed" /\ \A x \in Subs : x # s => reader'[x] = reader[x]
  BY OneReader DEF SubscribeFails
<1>3. JoinedInv'
  BY <1>1, <1>2 DEF ChannelInv, JoinedInv, Joined, Connected, Routed
<1>4. MembersInv'
  <2>1. \A j \in Inst : members[j] \subseteq Subs
    BY DEF BrokerInv, BrokerTypeOK
  <2>. QED  BY <1>1, <1>2, <2>1 DEF ChannelInv, MembersInv
<1>5. \A j \in Inst : \A m \in DOMAIN inbox[j] : IsAck(inbox[j][m]) =>
        inbox[j][m].sub # s /\ inbox[j][m].sub \in Subs
  BY <1>1, AckKnown
<1>6. AckInv'
  BY <1>1, <1>2, <1>5 DEF ChannelInv, AckInv
<1>. QED  BY <1>3, <1>4, <1>6 DEF ChannelInv

LEMMA YieldChannel ==
  ASSUME BrokerInv, ReaderInv, ChannelInv, NEW s \in Subs, Yield(s)
  PROVE  ChannelInv'
<1>. DEFINE i == Home[s]
            rest == members[i] \ {s}
<1>0. /\ i \in Inst /\ members \in [Inst -> SUBSET Subs]
      /\ mapped \in [Inst -> BOOLEAN] /\ listening \in SUBSET Inst
  BY HomeAssumption DEF BrokerInv, BrokerTypeOK
<1>1. reader[s].pc = "live" /\ inbox' = inbox
  BY DEF Yield
<1>2. reader'[s].pc = "closed" /\ \A x \in Subs : x # s => reader'[x] = reader[x]
  BY OneReader DEF Yield
<1>3. members' = [members EXCEPT ![i] = rest]
  BY DEF Yield, Leave
<1>4. \/ UNCHANGED <<mapped, listening>>
      \/ /\ rest = {} /\ mapped' = [mapped EXCEPT ![i] = FALSE]
         /\ listening' = listening \ {i}
  BY DEF Yield, Leave, Forget
<1>5. JoinedInv'
  <2>. SUFFICES ASSUME NEW x \in Subs
                PROVE  /\ reader'[x].pc \in Joined => x \in members'[Home[x]]
                       /\ reader'[x].pc \in Connected => Home[x] \in listening'
                       /\ reader'[x].pc \in Routed => mapped'[Home[x]]
                       /\ reader'[x].pc = "idle" => reader'[x] = NewReader
    BY DEF JoinedInv
  <2>0. Home[x] \in Inst
    BY HomeAssumption
  <2>1. CASE x = s
    BY <1>2, <2>1 DEF Joined, Connected, Routed
  <2>2. CASE x # s /\ reader[x].pc \notin Joined
    BY <1>2, <2>2 DEF ChannelInv, JoinedInv, Joined, Connected, Routed
  <2>3. CASE x # s /\ reader[x].pc \in Joined
    <3>1. x \in members[Home[x]]
      BY <2>3 DEF ChannelInv, JoinedInv
    <3>2. Home[x] = i => x \in rest
      BY <2>3, <3>1
    <3>3. x \in members'[Home[x]]
      BY <1>0, <1>3, <2>0, <3>1, <3>2
    <3>4. Home[x] \in listening => Home[x] \in listening'
      BY <1>4, <3>2
    <3>5. mapped[Home[x]] => mapped'[Home[x]]
      BY <1>0, <1>4, <2>0, <3>2
    <3>. QED  BY <1>2, <2>3, <3>3, <3>4, <3>5 DEF ChannelInv, JoinedInv
  <2>. QED  BY <2>1, <2>2, <2>3
<1>6. MembersInv'
  BY <1>0, <1>2, <1>3, <1>4 DEF ChannelInv, MembersInv
<1>7. \A j \in Inst : \A m \in DOMAIN inbox[j] : IsAck(inbox[j][m]) =>
        inbox[j][m].sub # s /\ inbox[j][m].sub \in Subs
  BY <1>1, AckKnown
<1>8. AckInv'
  BY <1>1, <1>2, <1>7 DEF ChannelInv, AckInv
<1>. QED  BY <1>5, <1>6, <1>8 DEF ChannelInv

(* What a message does to the readers.                                     *)
LEMMA DeliverEffect ==
  ASSUME BrokerInv, ReaderInv, NEW i \in Inst, Deliver(i)
  PROVE  /\ Head(inbox[i]) \in Event \cup Ack
         /\ UNCHANGED <<session, buffer, members, listening, published, turns, aborted>>
         /\ IF IsAck(Head(inbox[i]))
            THEN LET s == Head(inbox[i]).sub IN
                 /\ s \in Subs
                 /\ \A x \in Subs : x # s => reader'[x] = reader[x]
                 /\ IF Head(inbox[i]).ack = 1
                    THEN /\ reader' = [reader EXCEPT ![s].pc = "patching"]
                         /\ mapped' = [mapped EXCEPT ![i] = TRUE]
                    ELSE /\ reader'[s] = Replayed(reader[s], buffer[i])
                         /\ mapped' = mapped
            ELSE /\ mapped' = mapped
                 /\ \A x \in Subs :
                      reader'[x] = IF mapped[i] /\ x \in members[i]
                                   THEN Enqueue(reader[x], Head(inbox[i])) ELSE reader[x]
<1>. DEFINE m == Head(inbox[i])
<1>1. m \in Event \cup Ack
  BY HeadTailProperties DEF Deliver, BrokerInv, BrokerTypeOK
<1>2. IF IsAck(m) THEN HandleAck(i, m) ELSE HandleEvent(i, m)
  BY DEF Deliver, IsAck
<1>3. UNCHANGED <<session, buffer, members, listening, published, turns, aborted>>
  BY DEF Deliver
<1>. HIDE DEF m
<1>4. reader \in [Subs -> Reader]
  BY InvIsTidy
<1>5. CASE IsAck(m)
  <2>1. m.sub \in Subs
    BY <1>1, <1>5, Messages DEF Ack
  <2>2. HandleAck(i, m)
    BY <1>2, <1>5
  <2>3. CASE m.ack = 1
    BY <1>1, <1>3, <1>4, <1>5, <2>1, <2>2, <2>3 DEF HandleAck, m
  <2>4. CASE m.ack # 1
    BY <1>1, <1>3, <1>4, <1>5, <2>1, <2>2, <2>4 DEF HandleAck, m
  <2>. QED  BY <2>3, <2>4
<1>6. CASE ~IsAck(m)
  BY <1>1, <1>2, <1>3, <1>6 DEF HandleEvent, m
<1>. QED  BY <1>5, <1>6

LEMMA DeliverChannel ==
  ASSUME BrokerInv, ReaderInv, ChannelInv, NEW i \in Inst, Deliver(i)
  PROVE  ChannelInv'
<1>. DEFINE m == Head(inbox[i])
<1>0. /\ members \in [Inst -> SUBSET Subs] /\ mapped \in [Inst -> BOOLEAN]
      /\ UNCHANGED <<members, listening>> /\ m \in Event \cup Ack
  BY DeliverEffect DEF BrokerInv, BrokerTypeOK
<1>1. \A j \in Inst : \A n \in DOMAIN inbox'[j] :
        \E k \in DOMAIN inbox[j] : /\ inbox'[j][n] = inbox[j][k]
                                   /\ k = (IF j = i THEN n + 1 ELSE n)
                                   /\ n \in Nat
  <2>1. \A j \in Inst : DOMAIN inbox'[j] \subseteq Nat
    <3>1. \A j \in Inst : inbox'[j] \in Seq(Event \cup Ack)
      BY InboxShrinks DEF BrokerInv, BrokerTypeOK
    <3>. QED  BY <3>1, LenProperties
  <2>. QED  BY <2>1, InboxShrinks
<1>2. CASE IsAck(m)
  <2>. DEFINE s == m.sub
  <2>0. 1 \in DOMAIN inbox[i] /\ inbox[i][1] = m
    BY InboxShrinks
  <2>1. /\ s \in Subs /\ Home[s] = i /\ s \in members[i]
        /\ reader[s].pc = IF m.ack = 1 THEN "acked" ELSE "patched"
    BY <1>2, <2>0, AckKnown
  <2>2. /\ \A x \in Subs : x # s => reader'[x] = reader[x]
        /\ reader'[s].pc = IF m.ack = 1 THEN "patching" ELSE "live"
        /\ mapped' = IF m.ack = 1 THEN [mapped EXCEPT ![i] = TRUE] ELSE mapped
    <3>1. CASE m.ack = 1
      <4>1. /\ reader' = [reader EXCEPT ![s].pc = "patching"]
            /\ mapped' = [mapped EXCEPT ![i] = TRUE]
        BY <1>2, <3>1, DeliverEffect
      <4>. QED  BY <2>1, <3>1, <4>1, OneReader
    <3>2. CASE m.ack # 1
      <4>1. /\ reader'[s] = Replayed(reader[s], buffer[i]) /\ mapped' = mapped
            /\ \A x \in Subs : x # s => reader'[x] = reader[x]
        BY <1>2, <3>2, DeliverEffect
      <4>2. Tidy(reader[s]) /\ buffer[i] \in Seq(Event) /\ turns \in Nat
        BY <2>1, InvIsTidy DEF BrokerInv, BrokerTypeOK
      <4>. QED  BY <3>2, <4>1, <4>2, ReplayedTidy
    <3>. QED  BY <3>1, <3>2
  <2>3. s \in Subs => reader[s].pc \in Connected /\ (m.ack # 1 => reader[s].pc \in Routed)
    BY <2>1 DEF Connected, Routed, Joined
  <2>4. i \in listening /\ (m.ack # 1 => mapped[i])
    BY <2>1, <2>3 DEF ChannelInv, JoinedInv
  <2>5. JoinedInv'
    <3>. SUFFICES ASSUME NEW x \in Subs
                  PROVE  /\ reader'[x].pc \in Joined => x \in members[Home[x]]
                         /\ reader'[x].pc \in Connected => Home[x] \in listening
                         /\ reader'[x].pc \in Routed => mapped'[Home[x]]
                         /\ reader'[x].pc = "idle" => reader'[x] = NewReader
      BY <1>0 DEF JoinedInv
    <3>0. Home[x] \in Inst
      BY HomeAssumption
    <3>1. CASE x = s
      BY <1>0, <2>1, <2>2, <2>4, <3>0, <3>1
    <3>2. CASE x # s
      BY <1>0, <2>2, <3>0, <3>2 DEF ChannelInv, JoinedInv
    <3>. QED  BY <3>1, <3>2
  <2>6. MembersInv'
    <3>1. \A j \in Inst : members[j] \subseteq Subs
      BY <1>0
    <3>2. \A j \in Inst : mapped'[j] => j \in listening
      BY <1>0, <2>2, <2>4 DEF ChannelInv, MembersInv
    <3>3. \A j \in Inst : \A x \in members[j] :
            Home[x] = j /\ reader'[x].pc \notin {"idle", "closed"}
      BY <2>1, <2>2, <3>1 DEF ChannelInv, MembersInv
    <3>. QED  BY <1>0, <3>2, <3>3 DEF MembersInv
  <2>7. \A j \in Inst : \A k \in DOMAIN inbox[j] :
          IsAck(inbox[j][k]) /\ ~(j = i /\ k = 1) => inbox[j][k].sub # s /\ inbox[j][k].sub \in Subs
    BY <1>2, <2>0, <2>1, AckKnown DEF ChannelInv, AckInv
  <2>8. AckInv'
    <3>1. ASSUME NEW j \in Inst, NEW n \in DOMAIN inbox'[j], IsAck(inbox'[j][n])
          PROVE  /\ Home[inbox'[j][n].sub] = j
                 /\ reader'[inbox'[j][n].sub].pc =
                      IF inbox'[j][n].ack = 1 THEN "acked" ELSE "patched"
      <4>1. PICK k \in DOMAIN inbox[j] : /\ inbox'[j][n] = inbox[j][k] /\ n \in Nat
                                         /\ k = (IF j = i THEN n + 1 ELSE n)
        BY <1>1
      <4>2. ~(j = i /\ k = 1)
        <5>1. n # 0
          <6>1. inbox'[j] \in Seq(Event \cup Ack)
            BY InboxShrinks DEF BrokerInv, BrokerTypeOK
          <6>. QED  BY <6>1, LenProperties
        <5>. QED  BY <4>1, <5>1
      <4>3. inbox[j][k].sub # s /\ inbox[j][k].sub \in Subs
        BY <2>7, <3>1, <4>1, <4>2
      <4>. QED  BY <2>2, <3>1, <4>1, <4>3 DEF ChannelInv, AckInv
    <3>2. ASSUME NEW j \in Inst, NEW m1 \in DOMAIN inbox'[j], NEW m2 \in DOMAIN inbox'[j],
                 m1 # m2, IsAck(inbox'[j][m1]), IsAck(inbox'[j][m2])
          PROVE  inbox'[j][m1].sub # inbox'[j][m2].sub
      BY <1>1, <3>2 DEF ChannelInv, AckInv
    <3>. QED  BY <3>1, <3>2 DEF AckInv
  <2>. QED  BY <2>5, <2>6, <2>8 DEF ChannelInv
<1>3. CASE ~IsAck(m)
  <2>0. m \in Event
    BY <1>0, <1>3, Messages
  <2>1. mapped' = mapped /\ \A x \in Subs :
          \/ reader'[x] = reader[x]
          \/ x \in members[i] /\ reader'[x] = Enqueue(reader[x], m)
    BY <1>3, DeliverEffect
  <2>2. \A x \in Subs : Further(reader[x], Enqueue(reader[x], m))
    BY <2>0, InvIsTidy, EnqueueTidy
  <2>9. /\ \A x \in Subs : reader'[x].pc = reader[x].pc
        /\ \A x \in Subs : reader[x].pc = "idle" => reader'[x] = reader[x]
    BY <2>1, <2>2 DEF Further, ChannelInv, MembersInv
  <2>. HIDE DEF m
  <2>8. UNCHANGED <<members, listening, mapped>>
    BY <1>0, <2>1
  <2>4. JoinedInv'
    <3>. SUFFICES ASSUME NEW x \in Subs
                  PROVE  /\ reader'[x].pc \in Joined => x \in members[Home[x]]
                         /\ reader'[x].pc \in Connected => Home[x] \in listening
                         /\ reader'[x].pc \in Routed => mapped[Home[x]]
                         /\ reader'[x].pc = "idle" => reader'[x] = NewReader
      BY <2>8 DEF JoinedInv
    <3>. QED  BY <2>9 DEF ChannelInv, JoinedInv
  <2>7. MembersInv'
    <3>1. \A j \in Inst : members[j] \subseteq Subs
      BY <1>0
    <3>2. \A j \in Inst : \A x \in members[j] :
            Home[x] = j /\ reader'[x].pc \notin {"idle", "closed"}
      BY <2>9, <3>1 DEF ChannelInv, MembersInv
    <3>3. \A j \in Inst : mapped[j] => j \in listening
      BY DEF ChannelInv, MembersInv
    <3>. QED  BY <2>8, <3>2, <3>3 DEF MembersInv
  <2>5. \A j \in Inst : \A k \in DOMAIN inbox[j] : IsAck(inbox[j][k]) => inbox[j][k].sub \in Subs
    BY AckKnown
  <2>6. AckInv'
    <3>1. ASSUME NEW j \in Inst, NEW n \in DOMAIN inbox'[j], IsAck(inbox'[j][n])
          PROVE  /\ Home[inbox'[j][n].sub] = j
                 /\ reader'[inbox'[j][n].sub].pc =
                      IF inbox'[j][n].ack = 1 THEN "acked" ELSE "patched"
      <4>1. PICK k \in DOMAIN inbox[j] : inbox'[j][n] = inbox[j][k]
        BY <1>1
      <4>2. inbox[j][k].sub \in Subs
        BY <2>5, <3>1, <4>1
      <4>. QED  BY <2>9, <3>1, <4>1, <4>2 DEF ChannelInv, AckInv
    <3>2. ASSUME NEW j \in Inst, NEW m1 \in DOMAIN inbox'[j], NEW m2 \in DOMAIN inbox'[j],
                 m1 # m2, IsAck(inbox'[j][m1]), IsAck(inbox'[j][m2])
          PROVE  inbox'[j][m1].sub # inbox'[j][m2].sub
      BY <1>1, <3>2 DEF ChannelInv, AckInv
    <3>. QED  BY <3>1, <3>2 DEF AckInv
  <2>. QED  BY <2>4, <2>6, <2>7 DEF ChannelInv
<1>. QED  BY <1>2, <1>3

LEMMA ChannelsKept ==
  ASSUME BrokerInv, RunTypeOK, ReaderInv, ChannelInv, "reap" \notin Paths, [Next]_vars
  PROVE  ChannelInv'
<1>1. CASE Keeping
  BY <1>1, StillChannel DEF Keeping
<1>2. CASE Registering
  BY <1>2, StillChannel DEF Registering, RegisterSession, redisVars
<1>3. CASE Moving
  BY <1>3, SubscribeChannel, RedisChannel, FailsChannel, YieldChannel, DeliverChannel DEF Moving
<1>. QED  BY <1>1, <1>2, <1>3, EmitChannel, StepKinds

LEMMA InitChannel ==
  ASSUME Init
  PROVE  ChannelInv
BY DEF Init, EngineInit, ChannelInv, JoinedInv, MembersInv, AckInv, NewReader,
       Joined, Connected, Routed

LEMMA SafeForever == Spec => [](BrokerInv /\ RunTypeOK /\ ReaderInv)
<1>1. Init => ReaderInv
  BY InitTidy
<1>2. (BrokerInv /\ RunTypeOK) /\ ReaderInv /\ [Next]_vars => ReaderInv'
  BY ReadersTidy
<1>. QED  BY <1>1, <1>2, BrokerSafety, PTL DEF Spec

THEOREM ReadersAreReachable ==
  ASSUME "reap" \notin Paths
  PROVE  Spec => []ReaderReachable
<1>1. Init => ChannelInv
  BY InitChannel
<1>2. BrokerInv /\ RunTypeOK /\ ReaderInv /\ ChannelInv /\ [Next]_vars => ChannelInv'
  BY ChannelsKept
<1>3. ChannelInv => ReaderReachable
  BY DEF ChannelInv, JoinedInv, ReaderReachable, Joined, Connected, Routed
<1>. QED  BY <1>1, <1>2, <1>3, SafeForever, PTL DEF Spec

-----------------------------------------------------------------------------
(* What a step does to the readers and the inboxes *)

(* What one event and a replay do to what was heard.                       *)
LEMMA EnqueueHears ==
  ASSUME NEW rd, Tidy(rd), NEW e \in Event
  PROVE  /\ ToSet(rd.heard) \subseteq ToSet(Enqueue(rd, e).heard)
         /\ ToSet(Enqueue(rd, e).heard) \subseteq ToSet(rd.heard) \cup {e}
         /\ IF e.id > rd.last
            THEN e \in ToSet(Enqueue(rd, e).heard) /\ Enqueue(rd, e).last = e.id
            ELSE Enqueue(rd, e) = rd
<1>1. CASE ~(e.id > rd.last)
  BY <1>1 DEF Enqueue
<1>2. CASE e.id > rd.last
  <2>. DEFINE a == rd.heard
              b == Enqueue(rd, e).heard
  <2>1. a \in Seq(Event) /\ b = Append(a, e) /\ Enqueue(rd, e).last = e.id
    BY <1>2 DEF Tidy, Reader, Enqueue
  <2>. HIDE DEF a, b
  <2>2. /\ DOMAIN b = 1..Len(a) + 1 /\ DOMAIN a = 1..Len(a) /\ Len(a) \in Nat
        /\ \A n \in 1..Len(a) : b[n] = a[n]
        /\ b[Len(a) + 1] = e
    BY <2>1, AppendProperties, LenProperties
  <2>3. ToSet(a) \subseteq ToSet(b) /\ ToSet(b) \subseteq ToSet(a) \cup {e} /\ e \in ToSet(b)
    BY <2>2 DEF ToSet
  <2>. QED  BY <1>2, <2>1, <2>3 DEF a, b
<1>. QED  BY <1>1, <1>2

LEMMA ReplayHears ==
  ASSUME NEW rd, Tidy(rd), NEW es \in Seq(Event), NEW n \in 0..Len(es)
  PROVE  /\ ToSet(rd.heard) \subseteq ToSet(ReplayLoop(rd, es)[n].heard)
         /\ ToSet(ReplayLoop(rd, es)[n].heard) \subseteq
              ToSet(rd.heard) \cup {es[k] : k \in 1..n}
<1>. DEFINE g == ReplayLoop(rd, es)
            Heard(k) == /\ ToSet(rd.heard) \subseteq ToSet(g[k].heard)
                        /\ ToSet(g[k].heard) \subseteq
                             ToSet(rd.heard) \cup {es[j] : j \in 1..k}
            Bad == {k \in 0..Len(es) : ~Heard(k)}
<1>0. Len(es) \in Nat
  BY LenProperties
<1>1. g[0] = rd /\ \A k \in 1..Len(es) : g[k] = Enqueue(g[k - 1], es[k])
  BY <1>0, ReplayLoopDef
<1>2. \A k \in 0..Len(es) : Tidy(g[k])
  BY ReplayTidy
<1>. HIDE DEF g
<1>3. Bad \in SUBSET Nat
  BY <1>0
<1>4. Bad = {}
  <2>. SUFFICES ASSUME Bad # {} PROVE FALSE
    OBVIOUS
  <2>1. PICK m \in Bad : \A k \in Bad : m <= k
    <3>. HIDE DEF Bad
    <3>. QED  BY <1>3, LeastNumber
  <2>2. m # 0
    BY <1>1
  <2>3. m \in 1..Len(es) /\ m - 1 \in 0..Len(es) /\ m - 1 \notin Bad
    BY <1>0, <2>1, <2>2
  <2>4. Heard(m - 1) /\ es[m] \in Event /\ Tidy(g[m - 1])
    BY <1>2, <2>3, ElementOfSeq
  <2>5. /\ ToSet(g[m - 1].heard) \subseteq ToSet(g[m].heard)
        /\ ToSet(g[m].heard) \subseteq ToSet(g[m - 1].heard) \cup {es[m]}
    <3>1. g[m] = Enqueue(g[m - 1], es[m])
      BY <1>1, <2>3
    <3>. DEFINE old == g[m - 1]
                ev == es[m]
    <3>2. g[m] = Enqueue(old, ev) /\ Tidy(old) /\ ev \in Event
      BY <2>4, <3>1
    <3>. HIDE DEF old, ev
    <3>3. /\ ToSet(old.heard) \subseteq ToSet(Enqueue(old, ev).heard)
          /\ ToSet(Enqueue(old, ev).heard) \subseteq ToSet(old.heard) \cup {ev}
      BY <3>2, EnqueueHears
    <3>. QED  BY <3>2, <3>3 DEF old, ev
  <2>6. {es[j] : j \in 1..m - 1} \cup {es[m]} = {es[j] : j \in 1..m}
    BY <2>3
  <2>. HIDE DEF Bad
  <2>7. Heard(m)
    BY <2>4, <2>5, <2>6
  <2>. QED  BY <2>1, <2>7 DEF Bad
<1>. QED  BY <1>4 DEF g

LEMMA ReplayedHears ==
  ASSUME NEW rd, Tidy(rd), NEW es \in Seq(Event), turns \in Nat
  PROVE  /\ ToSet(rd.heard) \subseteq ToSet(Replayed(rd, es).heard)
         /\ ToSet(Replayed(rd, es).heard) \subseteq ToSet(rd.heard) \cup ToSet(es)
<1>1. DOMAIN es = 1..Len(es) /\ Len(es) \in 0..Len(es)
  BY LenProperties
<1>2. {es[k] : k \in 1..Len(es)} = ToSet(es)
  BY <1>1 DEF ToSet
<1>. DEFINE n == Len(es)
<1>3. n \in 0..Len(es)
  BY <1>1
<1>. HIDE DEF n
<1>4. /\ ToSet(rd.heard) \subseteq ToSet(ReplayLoop(rd, es)[n].heard)
      /\ ToSet(ReplayLoop(rd, es)[n].heard) \subseteq
           ToSet(rd.heard) \cup {es[k] : k \in 1..n}
  BY <1>3, ReplayHears
<1>5. Replayed(rd, es).heard = ReplayLoop(rd, es)[n].heard
  BY ReplayedTidy DEF n
<1>. QED  BY <1>2, <1>4, <1>5 DEF n

-----------------------------------------------------------------------------
(* What a step of a reader or of Redis leaves alone.                       *)
LEMMA MovingFrame ==
  ASSUME BrokerInv, Moving
  PROVE  /\ UNCHANGED <<published, turns>>
         /\ \A i \in Inst : session'[i] \in {session[i], None}
         /\ \A i \in Inst : buffer'[i] \in {buffer[i], <<>>}
         /\ \A i \in Inst : session'[i] # None => buffer'[i] = buffer[i]
<1>0. /\ session \in [Inst -> Session \cup {None}]
      /\ buffer \in [Inst -> Seq(Event)]
  BY DEF BrokerInv, BrokerTypeOK
<1>1. ASSUME NEW s \in Subs, Subscribe(s) \/ RedisSubscribes(s) \/ SubscribeFails(s)
      PROVE  UNCHANGED <<session, buffer, published, turns>>
  BY <1>1 DEF Subscribe, RedisSubscribes, SubscribeFails, brokerVars, redisVars
<1>2. ASSUME NEW i \in Inst, Deliver(i)
      PROVE  UNCHANGED <<session, buffer, published, turns>>
  BY <1>2 DEF Deliver
<1>3. ASSUME NEW s \in Subs, Yield(s)
      PROVE  /\ UNCHANGED <<published, turns>>
             /\ \A i \in Inst : session'[i] \in {session[i], None}
             /\ \A i \in Inst : buffer'[i] \in {buffer[i], <<>>}
             /\ \A i \in Inst : session'[i] # None => buffer'[i] = buffer[i]
  BY <1>0, <1>3 DEF Yield, Leave, Forget
<1>. QED  BY <1>1, <1>2, <1>3 DEF Moving

(* An inbox after such a step: the messages it had, in their order, less   *)
(* its head or with a reply at its end.                                    *)
LEMMA MovingInbox ==
  ASSUME BrokerInv, Moving, NEW j \in Inst
  PROVE  /\ \A n \in DOMAIN inbox'[j] : ~IsAck(inbox'[j][n]) =>
              \E k \in DOMAIN inbox[j] : inbox[j][k] = inbox'[j][n]
         /\ \A m, n \in DOMAIN inbox'[j] :
              m < n /\ ~IsAck(inbox'[j][m]) /\ ~IsAck(inbox'[j][n]) =>
                \E k, q \in DOMAIN inbox[j] :
                  k < q /\ inbox[j][k] = inbox'[j][m] /\ inbox[j][q] = inbox'[j][n]
<1>0. /\ inbox \in [Inst -> Seq(Event \cup Ack)] /\ inbox[j] \in Seq(Event \cup Ack)
      /\ DOMAIN inbox[j] \subseteq Nat
  BY LenProperties DEF BrokerInv, BrokerTypeOK
<1>1. CASE inbox'[j] = inbox[j]
  BY <1>1
<1>2. ASSUME NEW i \in Inst, Deliver(i), inbox'[j] # inbox[j]
      PROVE  /\ DOMAIN inbox'[j] \subseteq Nat
             /\ \A n \in DOMAIN inbox'[j] :
                  n + 1 \in DOMAIN inbox[j] /\ inbox[j][n + 1] = inbox'[j][n]
  <2>1. i = j /\ inbox'[j] \in Seq(Event \cup Ack)
    BY <1>2, InboxShrinks
  <2>. QED  BY <1>2, <2>1, InboxShrinks, LenProperties
<1>3. ASSUME NEW s \in Subs, RedisSubscribes(s), inbox'[j] # inbox[j]
      PROVE  \A n \in DOMAIN inbox'[j] : ~IsAck(inbox'[j][n]) =>
               n \in DOMAIN inbox[j] /\ inbox[j][n] = inbox'[j][n]
  <2>1. PICK k \in {1, 2} : inbox' = [inbox EXCEPT ![Home[s]] = Append(@, [ack |-> k, sub |-> s])]
    BY <1>3 DEF RedisSubscribes
  <2>. DEFINE a == [ack |-> k, sub |-> s]
  <2>2. a \in Event \cup Ack /\ IsAck(a)
    BY DEF Ack, IsAck
  <2>3. inbox'[j] = Append(inbox[j], a)
    BY <1>0, <1>3, <2>1
  <2>. HIDE DEF a
  <2>4. /\ DOMAIN inbox[j] = 1..Len(inbox[j]) /\ Len(inbox[j]) \in Nat
        /\ DOMAIN inbox'[j] = 1..Len(inbox[j]) + 1
        /\ \A m \in 1..Len(inbox[j]) : inbox'[j][m] = inbox[j][m]
        /\ inbox'[j][Len(inbox[j]) + 1] = a
    BY <1>0, <2>2, <2>3, AppendProperties, LenProperties
  <2>. QED  BY <2>2, <2>4
<1>4. ASSUME NEW s \in Subs, Subscribe(s) \/ SubscribeFails(s) \/ Yield(s)
      PROVE  inbox' = inbox
  BY <1>4 DEF Subscribe, SubscribeFails, Yield, redisVars
<1>5. CASE \E i \in Inst : Deliver(i)
  <2>1. CASE inbox'[j] # inbox[j]
    <3>1. /\ DOMAIN inbox'[j] \subseteq Nat
          /\ \A n \in DOMAIN inbox'[j] :
               n + 1 \in DOMAIN inbox[j] /\ inbox[j][n + 1] = inbox'[j][n]
      BY <1>2, <1>5, <2>1
    <3>2. \A m, n \in DOMAIN inbox'[j] : m < n => m + 1 < n + 1
      BY <3>1
    <3>. QED  BY <3>1, <3>2
  <2>. QED  BY <1>1, <2>1
<1>. QED  BY <1>0, <1>1, <1>3, <1>4, <1>5 DEF Moving

(* What a reader has become after a step: unchanged, moved on, handed the  *)
(* head of its instance's inbox, or caught up with the buffer.             *)
Replays(s) ==
  /\ reader[s].pc \in {"idle", "patched"}
  /\ reader'[s] = Replayed(reader[s], buffer[Home[s]])

Hears(s) ==
  /\ Deliver(Home[s]) /\ ~IsAck(Head(inbox[Home[s]])) /\ s \in members[Home[s]]
  /\ reader'[s] = Enqueue(reader[s], Head(inbox[Home[s]]))

Shifts(s) ==
  /\ reader'[s].heard = reader[s].heard /\ reader'[s].last = reader[s].last
  /\ reader'[s].since = reader[s].since
  /\ IF reader'[s].pc = "connect" THEN reader'[s].cold
     ELSE /\ reader'[s].cold = reader[s].cold /\ reader[s].pc \notin {"idle", "closed"}
          /\ reader[s].pc = "live" => reader'[s].pc = "closed"
  /\ reader'[s].pc # "live"
  /\ reader'[s].pc = "closed" => reader[s].pc = "live"

LEMMA MovingReader ==
  ASSUME BrokerInv, ReaderInv, ChannelInv, Moving, NEW x \in Subs
  PROVE  reader'[x] = reader[x] \/ Replays(x) \/ Hears(x) \/ Shifts(x)
<1>0. reader \in [Subs -> Reader] /\ reader[x] \in Reader /\ Home[x] \in Inst
  BY InvIsTidy, HomeAssumption
<1>1. ASSUME NEW s \in Subs, NEW p, p \in {"acked", "patching", "patched", "failed"},
             reader[s].pc \in Joined \ {"live"}, reader' = [reader EXCEPT ![s].pc = p]
      PROVE  reader'[x] = reader[x] \/ Shifts(x)
  BY <1>1, OneReader DEF Shifts, Joined
<1>2. ASSUME NEW s \in Subs, Subscribe(s)
      PROVE  reader'[x] = reader[x] \/ Replays(x) \/ Shifts(x)
  <2>1. CASE x # s
    BY <1>0, <1>2, <2>1 DEF Subscribe
  <2>2. CASE x = s /\ mapped[Home[x]]
    BY <1>0, <1>2, <2>2 DEF Subscribe, Replays
  <2>3. CASE x = s /\ ~mapped[Home[x]]
    <3>1. reader'[x] = [reader[x] EXCEPT !.pc = "connect", !.cold = TRUE]
      BY <1>0, <1>2, <2>3 DEF Subscribe
    <3>. QED  BY <1>0, <3>1 DEF Shifts, Reader
  <2>. QED  BY <2>1, <2>2, <2>3
<1>3. ASSUME NEW s \in Subs, RedisSubscribes(s)
      PROVE  reader'[x] = reader[x] \/ Shifts(x)
  BY <1>1, <1>3 DEF RedisSubscribes, Joined
<1>4. ASSUME NEW s \in Subs, SubscribeFails(s)
      PROVE  reader'[x] = reader[x] \/ Shifts(x)
  BY <1>1, <1>4 DEF SubscribeFails, Joined
<1>5. ASSUME NEW s \in Subs, Yield(s)
      PROVE  reader'[x] = reader[x] \/ Shifts(x)
  BY <1>5, OneReader DEF Yield, Shifts
<1>6. ASSUME NEW i \in Inst, Deliver(i)
      PROVE  reader'[x] = reader[x] \/ Replays(x) \/ Hears(x) \/ Shifts(x)
  <2>1. CASE IsAck(Head(inbox[i]))
    <3>1. Head(inbox[i]) = inbox[i][1] /\ 1 \in DOMAIN inbox[i]
      BY <1>6, InboxShrinks
    <3>2. Home[Head(inbox[i]).sub] = i /\ Head(inbox[i]).sub \in Subs
      BY <2>1, <3>1, AckKnown
    <3>3. CASE x # Head(inbox[i]).sub
      BY <1>6, <2>1, <3>3, DeliverEffect
    <3>4. CASE x = Head(inbox[i]).sub /\ Head(inbox[i]).ack = 1
      <4>1. reader' = [reader EXCEPT ![x].pc = "patching"]
        BY <1>6, <2>1, <3>4, DeliverEffect
      <4>2. reader[x].pc = "acked"
        BY <2>1, <3>1, <3>4, AckKnown
      <4>. QED  BY <1>1, <4>1, <4>2 DEF Joined
    <3>5. CASE x = Head(inbox[i]).sub /\ Head(inbox[i]).ack # 1
      <4>1. reader[x].pc = "patched"
        BY <2>1, <3>1, <3>5, AckKnown
      <4>. QED  BY <1>6, <2>1, <3>2, <3>5, <4>1, DeliverEffect DEF Replays
    <3>. QED  BY <3>3, <3>4, <3>5
  <2>2. CASE ~IsAck(Head(inbox[i]))
    <3>1. CASE mapped[i] /\ x \in members[i]
      <4>1. reader'[x] = Enqueue(reader[x], Head(inbox[i]))
        BY <1>6, <2>2, <3>1, DeliverEffect
      <4>2. Home[x] = i
        BY <3>1 DEF ChannelInv, MembersInv
      <4>. QED  BY <1>6, <2>2, <3>1, <4>1, <4>2 DEF Hears
    <3>2. CASE ~(mapped[i] /\ x \in members[i])
      BY <1>6, <2>2, <3>2, DeliverEffect
    <3>. QED  BY <3>1, <3>2
  <2>. QED  BY <2>1, <2>2
<1>. QED  BY <1>2, <1>3, <1>4, <1>5, <1>6 DEF Moving

(* The same for what a reader has heard.                                   *)
LEMMA MovingHears ==
  ASSUME BrokerInv, ReaderInv, ChannelInv, Moving, NEW x \in Subs
  PROVE  /\ ToSet(reader[x].heard) \subseteq ToSet(reader'[x].heard)
         /\ ToSet(reader'[x].heard) \subseteq ToSet(reader[x].heard)
              \cup ToSet(buffer[Home[x]])
              \cup (IF Hears(x) THEN {Head(inbox[Home[x]])} ELSE {})
         /\ reader'[x].since \in {reader[x].since, turns}
<1>0. Tidy(reader[x]) /\ buffer[Home[x]] \in Seq(Event) /\ turns \in Nat
  BY InvIsTidy, HomeAssumption DEF BrokerInv, BrokerTypeOK
<1>1. CASE reader'[x] = reader[x] \/ Shifts(x)
  BY <1>1 DEF Shifts
<1>2. CASE Replays(x)
  <2>. DEFINE rd == reader[x]
              es == buffer[Home[x]]
  <2>1. Tidy(rd) /\ es \in Seq(Event) /\ reader'[x] = Replayed(rd, es)
    BY <1>0, <1>2 DEF Replays
  <2>. HIDE DEF rd, es
  <2>2. /\ ToSet(rd.heard) \subseteq ToSet(reader'[x].heard)
        /\ ToSet(reader'[x].heard) \subseteq ToSet(rd.heard) \cup ToSet(es)
        /\ reader'[x].since = turns
    <3>1. /\ ToSet(rd.heard) \subseteq ToSet(Replayed(rd, es).heard)
          /\ ToSet(Replayed(rd, es).heard) \subseteq ToSet(rd.heard) \cup ToSet(es)
      BY <1>0, <2>1, ReplayedHears
    <3>2. Replayed(rd, es).since = turns
      BY <1>0, <2>1, ReplayedTidy
    <3>. QED  BY <2>1, <3>1, <3>2
  <2>. QED  BY <2>2 DEF rd, es
<1>3. CASE Hears(x)
  <2>1. Head(inbox[Home[x]]) \in Event
    BY <1>3, HomeAssumption, DeliverEffect, Messages DEF Hears
  <2>2. Further(reader[x], reader'[x])
    BY <1>0, <1>3, <2>1, EnqueueTidy DEF Hears
  <2>3. /\ ToSet(reader[x].heard) \subseteq ToSet(reader'[x].heard)
        /\ ToSet(reader'[x].heard) \subseteq ToSet(reader[x].heard) \cup {Head(inbox[Home[x]])}
    BY <1>0, <1>3, <2>1, EnqueueHears DEF Hears
  <2>. QED  BY <1>3, <2>2, <2>3 DEF Further
<1>. QED  BY <1>1, <1>2, <1>3, MovingReader

-----------------------------------------------------------------------------
(* CountInv, OriginInv and OrderInv *)

(* A published event is older than the events now published in its turn.   *)
LEMMA FreshIds ==
  ASSUME BrokerInv, NEW i \in Inst, NEW s \in Session, NEW es \in Seq(Event),
         Fresh(i, s, es), NEW e \in published, NEW n \in DOMAIN es, e.turn = s.turn
  PROVE  e.id < es[n].id
<1>1. es[n] \in Event /\ e \in Event /\ session[i] \in Session
  BY LenProperties, ElementOfSeq DEF Fresh, BrokerInv, BrokerTypeOK
<1>2. e.id < session[i].next /\ es[n].id >= session[i].next
  BY DEF Fresh, BrokerInv, IdsBelowNext
<1>. QED  BY <1>1, <1>2 DEF Event, Session

LEMMA EmitEffect ==
  ASSUME BrokerInv, NEW i \in Inst, NEW s \in Session, NEW es \in Seq(Event),
         Fresh(i, s, es), Emit(i, s, es)
  PROVE  /\ \A j \in Inst : session'[j] = IF j = i THEN s ELSE session[j]
         /\ \A j \in Inst : buffer'[j] = IF j = i THEN buffer[j] \o es ELSE buffer[j]
         /\ published' = published \cup {es[n] : n \in DOMAIN es}
         /\ UNCHANGED <<members, mapped, listening>>
         /\ s # None
BY NoneAssumption DEF Emit, BrokerInv, BrokerTypeOK

LEMMA CountKept ==
  ASSUME BrokerInv, BrokerInv', ReaderInv, ChannelInv, CountInv,
         Emitting \/ Keeping \/ Registering \/ Moving
  PROVE  CountInv'
<1>0. /\ turns \in Nat /\ \A j \in Inst : session[j] # None => session[j] \in Session
      /\ published \subseteq Event /\ \A x \in Subs : reader[x] \in Reader
  BY InvIsTidy DEF BrokerInv, BrokerTypeOK
<1>1. CASE Emitting
  <2>1. PICK i \in Inst, s \in Session, es \in Seq(Event) : Fresh(i, s, es) /\ Emit(i, s, es)
    BY <1>1 DEF Emitting
  <2>2. session[i] # None /\ session[i] \in Session /\ session[i].turn >= 1 /\ session[i].next >= 1
    BY <1>0, <2>1 DEF Fresh, CountInv
  <2>3. s.turn >= 1 /\ s.next >= 1
    BY <2>1, <2>2 DEF Fresh, Session
  <2>4. \A n \in DOMAIN es : es[n].turn >= 1 /\ es[n].id >= 1
    <3>1. \A n \in DOMAIN es : es[n] \in Event
      BY LenProperties, ElementOfSeq
    <3>. QED  BY <2>1, <2>2, <2>3, <3>1 DEF Fresh, Session, Event
  <2>5. UNCHANGED <<reader, turns>>
    BY <1>1 DEF Emitting
  <2>. QED  BY <2>1, <2>3, <2>4, <2>5, EmitEffect DEF CountInv
<1>2. CASE Keeping
  <2>1. \A j \in Inst : session'[j] # None =>
           /\ session[j] # None /\ session'[j].turn = session[j].turn
           /\ session'[j].next >= session[j].next
    BY <1>2 DEF Keeping, SameTurns
  <2>2. \A j \in Inst : session'[j] # None => session'[j] \in Session
    BY DEF BrokerInv, BrokerTypeOK
  <2>. QED  BY <1>0, <1>2, <2>1, <2>2 DEF CountInv, Keeping, Session
<1>3. CASE Registering
  <2>1. PICK r \in Runs : RegisterSession(Home[r], r)
    BY <1>3 DEF Registering
  <2>2. \A j \in Inst : session'[j] = IF j = Home[r] THEN NewSession(r) ELSE session[j]
    BY <2>1 DEF RegisterSession, BrokerInv, BrokerTypeOK
  <2>3. NewSession(r).turn = turns + 1 /\ NewSession(r).next = 1
    BY DEF NewSession
  <2>4. turns' = turns + 1 /\ published' = published /\ reader' = reader
    BY <1>3, <2>1 DEF Registering, RegisterSession
  <2>. QED  BY <1>0, <2>2, <2>3, <2>4 DEF CountInv, Reader
<1>4. CASE Moving
  <2>1. \A x \in Subs : reader'[x].since \in {reader[x].since, turns}
    BY <1>4, MovingHears
  <2>. QED  BY <1>0, <1>4, <2>1, MovingFrame DEF CountInv
<1>. QED  BY <1>1, <1>2, <1>3, <1>4

LEMMA OriginKept ==
  ASSUME BrokerInv, ReaderInv, ChannelInv, OriginInv, Emitting \/ Keeping \/ Registering \/ Moving
  PROVE  OriginInv'
<1>0. buffer \in [Inst -> Seq(Event)] /\ ToSet(<<>>) = {}
  BY DEF BrokerInv, BrokerTypeOK, ToSet
<1>1. CASE Emitting
  <2>1. PICK i \in Inst, s \in Session, es \in Seq(Event) : Fresh(i, s, es) /\ Emit(i, s, es)
    BY <1>1 DEF Emitting
  <2>2. published' = published \cup {es[n] : n \in DOMAIN es}
    BY <2>1, EmitEffect
  <2>3. ASSUME NEW j \in Inst PROVE ToSet(buffer'[j]) \subseteq published'
    <3>1. CASE j # i
      BY <2>1, <2>2, <3>1, EmitEffect DEF OriginInv
    <3>2. CASE j = i
      <4>1. buffer[j] \in Seq(Event) /\ buffer'[j] = buffer[j] \o es
        BY <1>0, <2>1, <3>2, EmitEffect
      <4>2. \A n \in DOMAIN buffer'[j] :
              buffer'[j][n] \in ToSet(buffer[j]) \cup {es[m] : m \in DOMAIN es}
        BY <4>1, ConcatSplit DEF ToSet
      <4>. QED  BY <2>2, <4>2 DEF OriginInv, ToSet
    <3>. QED  BY <3>1, <3>2
  <2>4. ASSUME NEW j \in Inst, NEW n \in DOMAIN inbox'[j], ~IsAck(inbox'[j][n])
        PROVE  inbox'[j][n] \in published'
    BY <2>1, <2>2, <2>4, InboxGrows DEF OriginInv
  <2>5. reader' = reader
    BY <1>1 DEF Emitting
  <2>. QED  BY <2>2, <2>3, <2>4, <2>5 DEF OriginInv
<1>2. CASE Keeping
  <2>1. \A j \in Inst : buffer'[j] \in {buffer[j], <<>>}
    BY <1>0, <1>2 DEF Keeping, FinishClear, EmitDoneResumes
  <2>. QED  BY <1>0, <1>2, <2>1 DEF OriginInv, Keeping
<1>3. CASE Registering
  <2>1. /\ \A j \in Inst : buffer'[j] \in {buffer[j], <<>>}
        /\ inbox' = inbox /\ published' = published /\ reader' = reader
    BY <1>0, <1>3 DEF Registering, RegisterSession, redisVars
  <2>. QED  BY <1>0, <2>1 DEF OriginInv
<1>4. CASE Moving
  <2>1. published' = published /\ \A j \in Inst : buffer'[j] \in {buffer[j], <<>>}
    BY <1>4, MovingFrame
  <2>2. ASSUME NEW j \in Inst, NEW n \in DOMAIN inbox'[j], ~IsAck(inbox'[j][n])
        PROVE  inbox'[j][n] \in published
    <3>1. \E k \in DOMAIN inbox[j] : inbox[j][k] = inbox'[j][n]
      BY <1>4, <2>2, MovingInbox
    <3>. QED  BY <2>2, <3>1 DEF OriginInv
  <2>3. ASSUME NEW x \in Subs PROVE ToSet(reader'[x].heard) \subseteq published
    <3>1. Hears(x) => Head(inbox[Home[x]]) \in published
      <4>1. Hears(x) => Home[x] \in Inst /\ 1 \in DOMAIN inbox[Home[x]]
                        /\ Head(inbox[Home[x]]) = inbox[Home[x]][1]
        BY HomeAssumption, InboxShrinks DEF Hears
      <4>. QED  BY <4>1 DEF OriginInv, Hears
    <3>. QED  BY <1>4, <3>1, HomeAssumption, MovingHears DEF OriginInv
  <2>. QED  BY <1>0, <2>1, <2>2, <2>3 DEF OriginInv
<1>. QED  BY <1>1, <1>2, <1>3, <1>4

LEMMA OrderKept ==
  ASSUME BrokerInv, OriginInv, OrderInv, Emitting \/ Keeping \/ Registering \/ Moving
  PROVE  OrderInv'
<1>0. buffer \in [Inst -> Seq(Event)] /\ DOMAIN <<>> = {}
  BY DEF BrokerInv, BrokerTypeOK
<1>1. CASE Emitting
  <2>1. PICK i \in Inst, s \in Session, es \in Seq(Event) : Fresh(i, s, es) /\ Emit(i, s, es)
    BY <1>1 DEF Emitting
  <2>2. \A e \in published : \A n \in DOMAIN es : Ordered(e, es[n])
    BY <2>1, FreshIds DEF Ordered, Fresh
  <2>0. \A n \in DOMAIN es : n \in Nat /\ es[n] \in Event
    BY LenProperties, ElementOfSeq
  <2>3. ASSUME NEW j \in Inst, NEW m \in DOMAIN buffer'[j], NEW n \in DOMAIN buffer'[j], m < n
        PROVE  Ordered(buffer'[j][m], buffer'[j][n])
    <3>1. CASE j # i
      BY <2>1, <2>3, <3>1, EmitEffect DEF OrderInv
    <3>2. CASE j = i
      <4>. DEFINE b == buffer[j]
                  c == buffer'[j]
                  p == Len(b)
      <4>1. b \in Seq(Event) /\ c = b \o es /\ ToSet(b) \subseteq published
        BY <1>0, <2>1, <3>2, EmitEffect DEF OriginInv
      <4>. HIDE DEF b, c, p
      <4>2. /\ p \in Nat /\ DOMAIN b = 1..p
            /\ \A k \in DOMAIN b : c[k] = b[k]
            /\ \A k \in DOMAIN c \ DOMAIN b :
                  k > p /\ k - p \in DOMAIN es /\ c[k] = es[k - p]
        BY <4>1, ConcatSplit, LenProperties DEF p
      <4>3. m \in DOMAIN c /\ n \in DOMAIN c /\ m \in Nat /\ n \in Nat
        <5>1. c \in Seq(Event)
          BY <4>1, ConcatSplit
        <5>. QED  BY <5>1, LenProperties DEF c
      <4>4. CASE n \in DOMAIN b
        <5>1. m \in DOMAIN b
          BY <2>3, <4>2, <4>3, <4>4
        <5>. QED  BY <2>3, <4>2, <4>4, <5>1 DEF OrderInv, b, c
      <4>5. CASE n \notin DOMAIN b /\ m \in DOMAIN b
        BY <2>2, <4>1, <4>2, <4>3, <4>5 DEF ToSet, c
      <4>6. CASE n \notin DOMAIN b /\ m \notin DOMAIN b
        <5>1. m - p < n - p
          BY <2>3, <4>2, <4>3
        <5>. QED  BY <2>1, <4>2, <4>3, <4>6, <5>1 DEF Fresh, c
      <4>. QED  BY <4>4, <4>5, <4>6
    <3>. QED  BY <3>1, <3>2
  <2>4. ASSUME NEW j \in Inst, NEW m \in DOMAIN inbox'[j], NEW n \in DOMAIN inbox'[j], m < n,
               ~IsAck(inbox'[j][m]), ~IsAck(inbox'[j][n])
        PROVE  Ordered(inbox'[j][m], inbox'[j][n])
    <3>. DEFINE b == inbox[j]
                c == inbox'[j]
                p == Len(b)
    <3>1. /\ b \in Seq(Event \cup Ack) /\ c \in Seq(Event \cup Ack)
          /\ \A k \in DOMAIN b : c[k] = b[k]
          /\ \A k \in DOMAIN c \ DOMAIN b :
                k > p /\ k - p \in DOMAIN es /\ c[k] = es[k - p]
      BY <2>1, InboxGrows
    <3>2. \A k \in DOMAIN b : ~IsAck(b[k]) => b[k] \in published
      BY DEF OriginInv
    <3>3. \A k, q \in DOMAIN b : k < q /\ ~IsAck(b[k]) /\ ~IsAck(b[q]) => Ordered(b[k], b[q])
      BY DEF OrderInv
    <3>. HIDE DEF b, c, p
    <3>4. /\ p \in Nat /\ DOMAIN b = 1..p
          /\ m \in DOMAIN c /\ n \in DOMAIN c /\ m \in Nat /\ n \in Nat
          /\ ~IsAck(c[m]) /\ ~IsAck(c[n])
      <4>1. DOMAIN c \subseteq Nat /\ p \in Nat /\ DOMAIN b = 1..p
        BY <3>1, LenProperties DEF p
      <4>. QED  BY <2>4, <4>1 DEF c
    <3>5. CASE n \in DOMAIN b
      <4>1. m \in DOMAIN b
        BY <2>4, <3>1, <3>4, <3>5
      <4>. QED  BY <2>4, <3>1, <3>3, <3>4, <3>5, <4>1 DEF c
    <3>6. CASE n \notin DOMAIN b /\ m \in DOMAIN b
      BY <2>2, <3>1, <3>2, <3>4, <3>6 DEF c
    <3>7. CASE n \notin DOMAIN b /\ m \notin DOMAIN b
      <4>1. m - p < n - p
        BY <2>4, <3>4
      <4>. QED  BY <2>1, <3>1, <3>4, <3>7, <4>1 DEF Fresh, c
    <3>. QED  BY <3>5, <3>6, <3>7
  <2>. QED  BY <2>3, <2>4 DEF OrderInv
<1>2. CASE Keeping
  <2>1. \A j \in Inst : buffer'[j] \in {buffer[j], <<>>}
    BY <1>0, <1>2 DEF Keeping, FinishClear, EmitDoneResumes
  <2>. QED  BY <1>0, <1>2, <2>1 DEF OrderInv, Keeping
<1>3. CASE Registering
  <2>1. inbox' = inbox /\ \A j \in Inst : buffer'[j] \in {buffer[j], <<>>}
    BY <1>0, <1>3 DEF Registering, RegisterSession, redisVars
  <2>. QED  BY <1>0, <2>1 DEF OrderInv
<1>4. CASE Moving
  <2>1. \A j \in Inst : buffer'[j] \in {buffer[j], <<>>}
    BY <1>4, MovingFrame
  <2>2. ASSUME NEW j \in Inst, NEW m \in DOMAIN inbox'[j], NEW n \in DOMAIN inbox'[j], m < n,
               ~IsAck(inbox'[j][m]), ~IsAck(inbox'[j][n])
        PROVE  Ordered(inbox'[j][m], inbox'[j][n])
    BY <1>4, <2>2, MovingInbox DEF OrderInv
  <2>. QED  BY <1>0, <2>1, <2>2 DEF OrderInv
<1>. QED  BY <1>1, <1>2, <1>3, <1>4

(* What a live reader still has in its inbox it keeps, but for the head    *)
(* that it is handed.                                                      *)
LEMMA InboxKept ==
  ASSUME BrokerInv, Moving, NEW j \in Inst, NEW e \in Event, e \in ToSet(inbox[j])
  PROVE  e \in ToSet(inbox'[j]) \/ (Deliver(j) /\ e = Head(inbox[j]))
<1>0. /\ inbox \in [Inst -> Seq(Event \cup Ack)] /\ inbox[j] \in Seq(Event \cup Ack)
  BY DEF BrokerInv, BrokerTypeOK
<1>1. CASE inbox'[j] = inbox[j]
  BY <1>1
<1>2. ASSUME NEW i \in Inst, Deliver(i), inbox'[j] # inbox[j]
      PROVE  e \in ToSet(inbox'[j]) \/ (Deliver(j) /\ e = Head(inbox[j]))
  <2>1. i = j
    BY <1>2, InboxShrinks
  <2>. QED  BY <1>2, <2>1, InboxShrinks DEF ToSet
<1>3. ASSUME NEW s \in Subs, RedisSubscribes(s), inbox'[j] # inbox[j]
      PROVE  e \in ToSet(inbox'[j])
  <2>1. PICK k \in {1, 2} : inbox' = [inbox EXCEPT ![Home[s]] = Append(@, [ack |-> k, sub |-> s])]
    BY <1>3 DEF RedisSubscribes
  <2>. DEFINE a == [ack |-> k, sub |-> s]
  <2>2. a \in Event \cup Ack
    BY DEF Ack
  <2>3. inbox'[j] = Append(inbox[j], a)
    BY <1>0, <1>3, <2>1
  <2>. HIDE DEF a
  <2>4. /\ DOMAIN inbox[j] = 1..Len(inbox[j]) /\ Len(inbox[j]) \in Nat
        /\ DOMAIN inbox'[j] = 1..Len(inbox[j]) + 1
        /\ \A m \in 1..Len(inbox[j]) : inbox'[j][m] = inbox[j][m]
    BY <1>0, <2>2, <2>3, AppendProperties, LenProperties
  <2>. QED  BY <2>4 DEF ToSet
<1>4. ASSUME NEW s \in Subs, Subscribe(s) \/ SubscribeFails(s) \/ Yield(s)
      PROVE  inbox' = inbox
  BY <1>4 DEF Subscribe, SubscribeFails, Yield, redisVars
<1>. QED  BY <1>1, <1>2, <1>3, <1>4 DEF Moving

-----------------------------------------------------------------------------
(* PresentReaderMissesNothing *)

LEMMA HeardIds ==
  ASSUME ReaderInv, NEW s \in Subs
  PROVE  /\ \A d \in ToSet(reader[s].heard) : d.id <= reader[s].last
         /\ reader[s].heard = <<>> => reader[s].last = 0
         /\ reader[s].heard # <<>> =>
              \E d \in ToSet(reader[s].heard) : d.id = reader[s].last
<1>1. /\ Cursor(reader[s]) /\ reader[s].heard \in Seq(Event)
  BY InvIsTidy DEF Tidy, Reader
<1>2. reader[s].heard # <<>> => Len(reader[s].heard) \in DOMAIN reader[s].heard
  BY <1>1, EmptySeq, LenProperties
<1>. QED  BY <1>1, <1>2 DEF Cursor, ToSet

(* A published event stays ahead of a reader of one turn.                  *)
LEMMA EmitFollows ==
  ASSUME BrokerInv, ReaderInv, ChannelInv, CountInv, OriginInv, Emitting,
         NEW s \in Subs, NEW t, HeardOnly(s, t), Follows(s, t)
  PROVE  Follows(s, t)'
<1>1. PICK i \in Inst, ss \in Session, es \in Seq(Event) : Fresh(i, ss, es) /\ Emit(i, ss, es)
  BY DEF Emitting
<1>2. published' = published \cup {es[n] : n \in DOMAIN es} /\ reader' = reader
  BY <1>1, EmitEffect DEF Emitting
<1>0. Home[s] \in Inst
  BY HomeAssumption
<1>3. ASSUME NEW e \in published, e.turn = t, e.kind # "block"
      PROVE  \/ e \in ToSet(reader'[s].heard)
             \/ /\ e.id > reader'[s].last
                /\ reader'[s].pc = "live" => e \in ToSet(inbox'[Home[s]])
  <2>1. ToSet(inbox[Home[s]]) \subseteq ToSet(inbox'[Home[s]])
    BY <1>0, <1>1, InboxGrows DEF ToSet
  <2>. QED  BY <1>2, <1>3, <2>1 DEF Follows
<1>4. ASSUME NEW n \in DOMAIN es, es[n].turn = t
      PROVE  /\ es[n].id > reader'[s].last
             /\ reader'[s].pc = "live" => es[n] \in ToSet(inbox'[Home[s]])
  <2>1. es[n] \in Event /\ es[n].id >= 1 /\ es[n].turn = ss.turn
    <3>1. es[n] \in Event /\ session[i] \in Session
      BY <1>1, LenProperties, ElementOfSeq DEF Fresh, BrokerInv, BrokerTypeOK
    <3>. QED  BY <1>1, <3>1 DEF Fresh, CountInv, Event, Session
  <2>2. \A d \in ToSet(reader[s].heard) : d.id < es[n].id
    BY <1>1, <1>4, <2>1, FreshIds DEF HeardOnly, OriginInv
  <2>3. reader[s].last < es[n].id
    BY <2>1, <2>2, HeardIds DEF Event
  <2>4. reader[s].pc = "live" => Home[s] \in listening
    BY DEF ChannelInv, JoinedInv, Connected, Joined
  <2>5. reader[s].last \in Nat
    BY InvIsTidy DEF Reader
  <2>6. Home[s] \in listening => es[n] \in ToSet(inbox'[Home[s]])
    <3>1. Home[s] \in listening =>
             /\ n + Len(inbox[Home[s]]) \in DOMAIN inbox'[Home[s]]
             /\ inbox'[Home[s]][n + Len(inbox[Home[s]])] = es[n]
      BY <1>0, <1>1, InboxGrows
    <3>. QED  BY <3>1 DEF ToSet
  <2>. QED  BY <1>2, <2>1, <2>3, <2>4, <2>5, <2>6 DEF Event
<1>. QED  BY <1>2, <1>3, <1>4 DEF Follows

(* Unless it replays, a reader in the room keeps up with its turn.         *)
LEMMA MovingFollows ==
  ASSUME BrokerInv, ReaderInv, ChannelInv, OriginInv, OrderInv, Moving,
         NEW s \in Subs, ~Replays(s), NEW t,
         reader'[s].pc \in {"live", "closed"}, HeardOnly(s, t)',
         HeardOnly(s, t) => Follows(s, t)
  PROVE  Follows(s, t)'
<1>0. /\ Home[s] \in Inst /\ published' = published /\ published \subseteq Event
      /\ reader[s].last \in Nat /\ Tidy(reader[s])
  BY HomeAssumption, MovingFrame, InvIsTidy DEF BrokerInv, BrokerTypeOK, Reader
<1>1. ToSet(reader[s].heard) \subseteq ToSet(reader'[s].heard)
  BY MovingHears
<1>2. HeardOnly(s, t) /\ Follows(s, t)
  BY <1>1 DEF HeardOnly
<1>. SUFFICES ASSUME NEW e \in published, e.turn = t, e.kind # "block",
                     e \notin ToSet(reader'[s].heard)
              PROVE  /\ e.id > reader'[s].last
                     /\ reader'[s].pc = "live" => e \in ToSet(inbox'[Home[s]])
  BY <1>0 DEF Follows
<1>3. /\ e \in Event /\ e.id > reader[s].last
      /\ reader[s].pc = "live" => e \in ToSet(inbox[Home[s]])
  BY <1>0, <1>1, <1>2 DEF Follows
<1>4. CASE Hears(s)
  <2>. DEFINE m == Head(inbox[Home[s]])
  <2>1. m \in Event /\ inbox[Home[s]][1] = m /\ 1 \in DOMAIN inbox[Home[s]] /\ ~IsAck(m)
    BY <1>0, <1>4, DeliverEffect, InboxShrinks, Messages DEF Hears
  <2>2. reader'[s] = Enqueue(reader[s], m)
    BY <1>4 DEF Hears
  <2>. HIDE DEF m
  <2>3. reader'[s].pc = reader[s].pc
    BY <1>0, <2>1, <2>2, EnqueueTidy DEF Further
  <2>4. e # m
    BY <1>0, <1>3, <2>1, <2>2, EnqueueHears
  <2>5. CASE m.id > reader[s].last
    <3>1. m \in ToSet(reader'[s].heard) /\ reader'[s].last = m.id
      BY <1>0, <2>1, <2>2, <2>5, EnqueueHears
    <3>2. m.turn = t
      BY <3>1 DEF HeardOnly
    <3>3. reader[s].pc = "live"
      <4>1. reader[s].pc # "closed"
        BY <1>0, <1>4 DEF Hears, ChannelInv, MembersInv
      <4>. QED  BY <2>3, <4>1
    <3>4. PICK n \in DOMAIN inbox[Home[s]] : inbox[Home[s]][n] = e
      BY <1>3, <3>3 DEF ToSet
    <3>5. n > 1 /\ ~IsAck(e)
      <4>1. inbox[Home[s]] \in Seq(Event \cup Ack)
        BY <1>0 DEF BrokerInv, BrokerTypeOK
      <4>2. n \in Nat /\ n >= 1
        BY <4>1, LenProperties
      <4>3. n # 1
        BY <2>1, <2>4, <3>4
      <4>. QED  BY <1>3, <4>2, <4>3 DEF Event, IsAck
    <3>6. Ordered(m, e)
      BY <1>0, <2>1, <3>4, <3>5 DEF OrderInv
    <3>7. m.id < e.id
      BY <3>2, <3>6 DEF Ordered
    <3>8. e \in ToSet(inbox'[Home[s]])
      BY <1>0, <1>3, <2>4, <3>3, InboxKept DEF m
    <3>. QED  BY <1>3, <2>1, <3>1, <3>7, <3>8 DEF Event
  <2>6. CASE ~(m.id > reader[s].last)
    <3>1. reader'[s] = reader[s]
      BY <1>0, <2>1, <2>2, <2>6, EnqueueHears
    <3>2. reader[s].pc = "live" => e \in ToSet(inbox'[Home[s]])
      BY <1>0, <1>3, <2>4, InboxKept DEF m
    <3>. QED  BY <1>3, <3>1, <3>2
  <2>. QED  BY <2>5, <2>6
<1>5. CASE ~Hears(s)
  <2>1. /\ reader'[s].last = reader[s].last /\ reader'[s].heard = reader[s].heard
        /\ reader'[s].pc = "live" => reader'[s] = reader[s]
    BY <1>5, MovingReader DEF Shifts
  <2>2. CASE reader'[s].pc = "live"
    <3>1. /\ reader[s].pc = "live" /\ mapped[Home[s]] /\ s \in members[Home[s]]
      BY <2>1, <2>2 DEF ChannelInv, JoinedInv, Joined, Routed, Connected
    <3>2. ~(Deliver(Home[s]) /\ e = Head(inbox[Home[s]]))
      <4>. SUFFICES ASSUME Deliver(Home[s]), e = Head(inbox[Home[s]]) PROVE FALSE
        OBVIOUS
      <4>1. ~IsAck(Head(inbox[Home[s]]))
        BY <1>3 DEF Event, IsAck
      <4>2. reader'[s] = Enqueue(reader[s], Head(inbox[Home[s]]))
        BY <1>0, <3>1, <4>1, DeliverEffect
      <4>. QED  BY <1>5, <3>1, <4>1, <4>2 DEF Hears
    <3>. QED  BY <1>0, <1>3, <2>1, <3>1, <3>2, InboxKept
  <2>3. CASE reader'[s].pc # "live"
    BY <1>3, <2>1, <2>3
  <2>. QED  BY <2>2, <2>3
<1>. QED  BY <1>4, <1>5

LEMMA MovingStays ==
  ASSUME BrokerInv, ReaderInv, ChannelInv, Moving, NEW s \in Subs, ~Replays(s),
         reader'[s].pc \in {"live", "closed"}
  PROVE  /\ reader[s].pc \in {"live", "closed"}
         /\ reader'[s].since = reader[s].since
         /\ reader'[s].cold = reader[s].cold
<1>1. CASE Hears(s)
  <2>1. Head(inbox[Home[s]]) \in Event /\ Tidy(reader[s])
    BY <1>1, HomeAssumption, InvIsTidy, DeliverEffect, Messages DEF Hears
  <2>. QED  BY <1>1, <2>1, EnqueueTidy DEF Hears, Further
<1>2. CASE reader'[s] = reader[s] \/ Shifts(s)
  BY <1>2 DEF Shifts
<1>. QED  BY <1>1, <1>2, MovingReader

LEMMA PresentKept ==
  ASSUME BrokerInv, DeliveryInv, Emitting \/ Keeping \/ Registering \/ Moving
  PROVE  PresentInv'
<1>. USE DEF DeliveryInv
<1>0. turns \in Nat /\ published \subseteq Event /\ \A s \in Subs : reader[s] \in Reader
  BY InvIsTidy DEF BrokerInv, BrokerTypeOK
<1>. SUFFICES ASSUME NEW s \in Subs, NEW t \in 1..turns',
                     reader'[s].pc \in {"live", "closed"}, reader'[s].since < t,
                     HeardOnly(s, t)'
              PROVE  Follows(s, t)'
  BY DEF PresentInv
<1>1. CASE Emitting
  <2>1. UNCHANGED <<reader, turns>>
    BY <1>1 DEF Emitting
  <2>2. HeardOnly(s, t) /\ Follows(s, t)
    BY <2>1 DEF HeardOnly, PresentInv
  <2>. QED  BY <1>1, <2>2, EmitFollows
<1>2. CASE Keeping
  <2>1. UNCHANGED <<inbox, reader, published, turns>>
    BY <1>2 DEF Keeping
  <2>2. HeardOnly(s, t) /\ Follows(s, t)
    BY <2>1 DEF HeardOnly, PresentInv
  <2>. QED  BY <2>1, <2>2 DEF Follows
<1>3. CASE Registering
  <2>1. UNCHANGED <<inbox, reader, published>> /\ turns' = turns + 1
    BY <1>3 DEF Registering, RegisterSession, redisVars
  <2>2. CASE t \in 1..turns
    <3>1. HeardOnly(s, t) /\ Follows(s, t)
      BY <2>1, <2>2 DEF HeardOnly, PresentInv
    <3>. QED  BY <2>1, <3>1 DEF Follows
  <2>3. CASE t \notin 1..turns
    <3>1. \A e \in published : e.turn # t
      BY <1>0, <2>1, <2>3 DEF BrokerInv, IdsBelowNext, Event
    <3>. QED  BY <2>1, <3>1 DEF Follows
  <2>. QED  BY <2>2, <2>3
<1>4. CASE Moving
  <2>1. turns' = turns
    BY <1>4, MovingFrame
  <2>2. ~Replays(s)
    <3>1. Replays(s) => reader'[s].since = turns
      BY <1>0, HomeAssumption, InvIsTidy, ReplayedTidy DEF Replays, BrokerInv, BrokerTypeOK
    <3>. QED  BY <1>0, <2>1, <3>1
  <2>3. reader[s].pc \in {"live", "closed"} /\ reader'[s].since = reader[s].since
    BY <1>4, <2>2, MovingStays
  <2>4. HeardOnly(s, t) => Follows(s, t)
    BY <2>1, <2>3 DEF PresentInv
  <2>. QED  BY <1>4, <2>2, <2>4, MovingFollows
<1>. QED  BY <1>1, <1>2, <1>3, <1>4

LEMMA DeliveryKept ==
  ASSUME BrokerInv, RunTypeOK, DeliveryInv, "reap" \notin Paths, [Next]_vars
  PROVE  DeliveryInv'
<1>. USE DEF DeliveryInv
<1>1. Emitting \/ Keeping \/ Registering \/ Moving
  BY StepKinds
<1>2. BrokerInv'
  BY NextSafe DEF Safe
<1>3. ReaderInv' /\ ChannelInv'
  BY ReadersTidy, ChannelsKept
<1>4. CountInv'
  BY <1>1, <1>2, CountKept
<1>5. OriginInv' /\ OrderInv'
  BY <1>1, OriginKept, OrderKept
<1>6. PresentInv'
  BY <1>1, PresentKept
<1>. QED  BY <1>3, <1>4, <1>5, <1>6

LEMMA InitDelivery ==
  ASSUME Init
  PROVE  DeliveryInv
<1>1. /\ \A i \in Inst : session[i] = None /\ buffer[i] = <<>> /\ inbox[i] = <<>>
      /\ \A s \in Subs : reader[s] = NewReader
      /\ turns = 0 /\ published = {}
  BY DEF Init, EngineInit
<1>2. DOMAIN <<>> = {} /\ ToSet(<<>>) = {}
  BY DEF ToSet
<1>3. CountInv /\ OriginInv /\ OrderInv /\ PresentInv
  BY <1>1, <1>2 DEF CountInv, OriginInv, OrderInv, PresentInv, NewReader
<1>. QED  BY <1>3, InitTidy, InitChannel DEF DeliveryInv

(* What a reader follows it does not miss.                                 *)
LEMMA FollowedNotMissed ==
  ASSUME BrokerInv, ReaderInv, NEW s \in Subs, NEW e \in published, Follows(s, e.turn)
  PROVE  ~Missed(s, e)
<1>. SUFFICES ASSUME Missed(s, e) PROVE FALSE
  OBVIOUS
<1>1. PICK d \in ToSet(reader[s].heard) : d.turn = e.turn /\ d.id > e.id
  BY DEF Missed
<1>2. e.id > reader[s].last
  BY DEF Missed, Follows
<1>3. d.id <= reader[s].last /\ reader[s].last \in Nat
  BY <1>1, HeardIds, InvIsTidy DEF Reader
<1>4. d \in Event /\ e \in Event
  <2>1. reader[s].heard \in Seq(Event)
    BY InvIsTidy DEF Reader
  <2>. QED  BY <1>1, <2>1, LenProperties, ElementOfSeq DEF ToSet, BrokerInv, BrokerTypeOK
<1>. QED  BY <1>1, <1>2, <1>3, <1>4 DEF Event

(* Without the reaper, a reader that was there when a turn began misses    *)
(* nothing of it, however many turns, instances and readers there are and  *)
(* however the turn ends.                                                  *)
THEOREM PresentReadersMissNothing ==
  ASSUME "reap" \notin Paths
  PROVE  Spec => []PresentReaderMissesNothing
<1>1. Init => DeliveryInv
  BY InitDelivery
<1>2. (BrokerInv /\ RunTypeOK) /\ DeliveryInv /\ [Next]_vars => DeliveryInv'
  BY DeliveryKept
<1>3. BrokerInv /\ RunTypeOK /\ DeliveryInv => PresentReaderMissesNothing
  <2>. SUFFICES ASSUME BrokerInv, DeliveryInv, NEW s \in Subs, NEW e \in published,
                       reader[s].pc \in {"live", "closed"}, reader[s].since < e.turn,
                       HeardOnly(s, e.turn)
                PROVE  ~Missed(s, e)
    BY DEF PresentReaderMissesNothing
  <2>1. e.turn \in 1..turns
    <3>1. e \in Event /\ turns \in Nat
      BY DEF BrokerInv, BrokerTypeOK
    <3>. QED  BY <3>1 DEF BrokerInv, IdsBelowNext, DeliveryInv, CountInv, Event
  <2>2. Follows(s, e.turn)
    BY <2>1 DEF DeliveryInv, PresentInv
  <2>. QED  BY <2>2, FollowedNotMissed DEF DeliveryInv
<1>. QED  BY <1>1, <1>2, <1>3, BrokerSafety, PTL DEF Spec

-----------------------------------------------------------------------------
(* A replay in full; turns that end by publishDone *)

(* A replay of ordered events to a new reader skips none but the blocks.   *)
LEMMA ReplayHearsAll ==
  ASSUME NEW rd, Tidy(rd), rd.heard = <<>>, NEW es \in Seq(Event),
         \A k \in DOMAIN es : es[k].id >= 1,
         \A m, n \in DOMAIN es : m < n /\ es[n].kind # "block" => es[m].id < es[n].id,
         NEW k \in DOMAIN es, es[k].kind # "block"
  PROVE  es[k] \in ToSet(ReplayLoop(rd, es)[Len(es)].heard)
<1>. DEFINE g == ReplayLoop(rd, es)
            Bad == {n \in k..Len(es) : es[k] \notin ToSet(g[n].heard)}
<1>0. /\ Len(es) \in Nat /\ DOMAIN es = 1..Len(es) /\ k \in 1..Len(es)
      /\ \A n \in 1..Len(es) : es[n] \in Event
  BY LenProperties, ElementOfSeq
<1>1. \A n \in 1..Len(es) : g[n] = Enqueue(g[n - 1], es[n])
  BY <1>0, ReplayLoopDef
<1>2. \A n \in 0..Len(es) : Tidy(g[n])
  BY ReplayTidy
<1>3. \A n \in 0..Len(es) : ToSet(g[n].heard) \subseteq {es[j] : j \in 1..n}
  <2>. SUFFICES ASSUME NEW n \in 0..Len(es)
                PROVE  ToSet(g[n].heard) \subseteq {es[j] : j \in 1..n}
    OBVIOUS
  <2>1. ToSet(rd.heard) = {}
    BY DEF ToSet
  <2>2. ToSet(g[n].heard) \subseteq ToSet(rd.heard) \cup {es[j] : j \in 1..n}
    BY ReplayHears
  <2>. QED  BY <2>1, <2>2
<1>. HIDE DEF g
<1>4. es[k] \in ToSet(g[k].heard)
  <2>. DEFINE old == g[k - 1]
              ev == es[k]
  <2>1. /\ Tidy(old) /\ ev \in Event /\ g[k] = Enqueue(old, ev)
        /\ ToSet(old.heard) \subseteq {es[j] : j \in 1..k - 1}
    <3>1. k - 1 \in 0..Len(es)
      BY <1>0
    <3>2. Tidy(g[k - 1]) /\ ToSet(g[k - 1].heard) \subseteq {es[j] : j \in 1..k - 1}
      BY <1>2, <1>3, <3>1
    <3>3. es[k] \in Event /\ g[k] = Enqueue(g[k - 1], es[k])
      BY <1>0, <1>1
    <3>. QED  BY <3>2, <3>3
  <2>2. \A d \in ToSet(old.heard) : d.id < ev.id
    BY <1>0, <2>1
  <2>3. ev.id >= 1
    BY <1>0
  <2>. HIDE DEF old, ev
  <2>4. old.heard = <<>> \/ old.heard[Len(old.heard)] \in ToSet(old.heard)
    <3>1. old.heard \in Seq(Event)
      BY <2>1 DEF Tidy, Reader
    <3>. QED  BY <3>1, EmptySeq, LenProperties DEF ToSet
  <2>5. ev.id > old.last
    <3>1. old.heard = <<>> => old.last = 0
      BY <2>1 DEF Tidy, Cursor
    <3>2. old.heard # <<>> => old.last = old.heard[Len(old.heard)].id
      BY <2>1 DEF Tidy, Cursor
    <3>3. ev.id \in Nat
      BY <2>1 DEF Event
    <3>. QED  BY <2>2, <2>3, <2>4, <3>1, <3>2, <3>3
  <2>6. ev \in ToSet(Enqueue(old, ev).heard)
    BY <2>1, <2>5, EnqueueHears
  <2>. QED  BY <2>1, <2>6 DEF ev
<1>5. Bad \in SUBSET Nat
  BY <1>0
<1>6. Bad = {}
  <2>. SUFFICES ASSUME Bad # {} PROVE FALSE
    OBVIOUS
  <2>1. PICK m \in Bad : \A n \in Bad : m <= n
    <3>. HIDE DEF Bad
    <3>. QED  BY <1>5, LeastNumber
  <2>2. m # k /\ m \in k..Len(es)
    BY <1>4
  <2>3. m \in 1..Len(es) /\ m - 1 \in 0..Len(es) /\ m - 1 \in k..Len(es) /\ m - 1 \notin Bad
    BY <1>0, <2>1, <2>2
  <2>4. es[k] \in ToSet(g[m - 1].heard) /\ Tidy(g[m - 1]) /\ es[m] \in Event
    BY <1>0, <1>2, <2>3
  <2>. DEFINE old == g[m - 1]
              ev == es[m]
  <2>5. g[m] = Enqueue(old, ev) /\ Tidy(old) /\ ev \in Event
    BY <1>1, <2>3, <2>4
  <2>. HIDE DEF old, ev
  <2>6. ToSet(old.heard) \subseteq ToSet(g[m].heard)
    BY <2>5, EnqueueHears
  <2>7. es[k] \in ToSet(g[m].heard)
    BY <2>4, <2>6 DEF old
  <2>. QED  BY <2>7
<1>. QED  BY <1>0, <1>6 DEF g

-----------------------------------------------------------------------------
(* No abort is taken back.                                                 *)
LEMMA AbortedGrows ==
  ASSUME [Next]_vars
  PROVE  aborted \subseteq aborted'
<1>1. ASSUME NEW r \in Runs, RunStep(r) PROVE aborted \subseteq aborted'
  BY <1>1 DEF RunStep, Register, Reject, Block, DirectRegister, DirectToken,
         DirectDone, MediaRegister, MediaAnalysis, MediaEnds, Attach,
         PrologueThrow, Token, ReasoningBlock, SegmentsDone, SeeAbort,
         Terminated, ThrowWhileRunning, Final, ThrowWhileFinalizing,
         SuggestStage, SuggestItems, Remember, Complete, Finish, FinishDone,
         FinishClear, Locally, Frame, RegisterSession
<1>2. ASSUME EngineStep PROVE aborted' = aborted
  BY <1>2 DEF EngineStep, ReaderStep, Timer, Subscribe, RedisSubscribes,
         SubscribeFails, Yield, Deliver, FlushEnds, GrowOlder, Reap
<1>3. ASSUME NEW i \in Inst, UserAbort(i) PROVE aborted \subseteq aborted'
  BY <1>3 DEF UserAbort
<1>4. ASSUME NEW i \in Inst, NEW r \in Runs, Poke(i, r) PROVE aborted' = aborted
  BY <1>4 DEF Poke
<1>. QED  BY <1>1, <1>2, <1>3, <1>4 DEF Next, Idle, vars

(* No run comes near finish without an abort, a refusal or an exception.   *)
LEMMA NeverFinishes ==
  ASSUME RunTypeOK, aborted = {}, Unfinished, [Next]_vars,
         Paths \cap {"block", "media", "throw"} = {}
  PROVE  Unfinished'
<1>1. CASE UNCHANGED run
  BY <1>1 DEF Unfinished, At
<1>2. ASSUME NEW r \in Runs, RunStep(r)
      PROVE  \E p \in {"registered", "dropped", "direct", "direct_done", "ended", "running",
                       "finalizing", "finaled", "suggesting", "suggested", "remembered"} :
               Goto(r, p) \/ run' = [run EXCEPT ![r].sent = @ + 1]
  BY <1>2 DEF Unfinished, At, RunStep, Register, Reject, Block, DirectRegister, DirectToken,
         DirectDone, MediaRegister, MediaAnalysis, MediaEnds, Attach,
         PrologueThrow, Token, ReasoningBlock, SegmentsDone, SeeAbort,
         Terminated, ThrowWhileRunning, Final, ThrowWhileFinalizing,
         SuggestStage, SuggestItems, Remember, Complete, Finish, FinishDone,
         FinishClear
<1>3. ASSUME NEW r \in Runs, RunStep(r) PROVE Unfinished'
  <2>1. \A q \in Runs : q # r => run'[q] = run[q]
    BY <1>2, <1>3 DEF Goto, RunTypeOK
  <2>2. run'[r].pc \notin {"media", "finish", "finish_done", "finish_clear"}
    <3>1. PICK p \in {"registered", "dropped", "direct", "direct_done", "ended", "running",
                       "finalizing", "finaled", "suggesting", "suggested", "remembered"} :
               Goto(r, p) \/ run' = [run EXCEPT ![r].sent = @ + 1]
      BY <1>2, <1>3
    <3>2. CASE Goto(r, p)
      <4>1. run'[r].pc = p
        BY <3>2 DEF Goto, RunTypeOK
      <4>. QED  BY <4>1
    <3>3. CASE run' = [run EXCEPT ![r].sent = @ + 1]
      <4>1. run'[r].pc = run[r].pc
        BY <3>3 DEF RunTypeOK
      <4>. QED  BY <4>1 DEF Unfinished, At
    <3>. QED  BY <3>1, <3>2, <3>3
  <2>. QED  BY <2>1, <2>2 DEF Unfinished, At
<1>. QED
  BY <1>1, <1>3 DEF Next, Idle, vars, runVars, UserAbort, Poke

-----------------------------------------------------------------------------
(* AllBuffered, OneServer and ColdInv *)

LEMMA AllBufferedKept ==
  ASSUME BrokerInv, Unfinished, AllBuffered, Emitting \/ Keeping \/ Registering \/ Moving
  PROVE  AllBuffered'
<1>0. buffer \in [Inst -> Seq(Event)] /\ turns \in Nat /\ published \subseteq Event
  BY DEF BrokerInv, BrokerTypeOK
<1>1. CASE Emitting
  <2>1. PICK i \in Inst, s \in Session, es \in Seq(Event) : Fresh(i, s, es) /\ Emit(i, s, es)
    BY <1>1 DEF Emitting
  <2>. SUFFICES ASSUME NEW j \in Inst, session'[j] # None,
                       NEW e \in published', e.turn = session'[j].turn
                PROVE  e \in ToSet(buffer'[j])
    BY DEF AllBuffered
  <2>2. /\ session'[j] = IF j = i THEN s ELSE session[j]
        /\ buffer'[j] = IF j = i THEN buffer[j] \o es ELSE buffer[j]
        /\ published' = published \cup {es[n] : n \in DOMAIN es}
    BY <2>1, EmitEffect
  <2>3. session[j] # None /\ session'[j].turn = session[j].turn
    BY <2>1, <2>2 DEF Fresh
  <2>4. ToSet(buffer[j]) \subseteq ToSet(buffer'[j])
    <3>1. buffer[j] \in Seq(Event) /\ (buffer'[j] = buffer[j] \/ buffer'[j] = buffer[j] \o es)
      BY <1>0, <2>2
    <3>2. /\ DOMAIN buffer[j] \subseteq DOMAIN buffer'[j]
          /\ \A n \in DOMAIN buffer[j] : buffer'[j][n] = buffer[j][n]
      <4>1. CASE buffer'[j] = buffer[j]
        BY <4>1
      <4>2. CASE buffer'[j] = buffer[j] \o es
        BY <3>1, <4>2, ConcatSplit
      <4>. QED  BY <3>1, <4>1, <4>2
    <3>. QED  BY <3>2 DEF ToSet
  <2>5. CASE e \in published
    BY <2>3, <2>4, <2>5 DEF AllBuffered
  <2>6. CASE e \notin published
    <3>1. PICK n \in DOMAIN es : e = es[n]
      BY <2>2, <2>6
    <3>2. j = i
      BY <2>1, <2>3, <3>1 DEF Fresh, BrokerInv, OneSessionPerTurn
    <3>3. buffer'[j] = buffer[j] \o es /\ buffer[j] \in Seq(Event)
      BY <1>0, <2>2, <3>2
    <3>4. n + Len(buffer[j]) \in DOMAIN buffer'[j] /\ buffer'[j][n + Len(buffer[j])] = es[n]
      BY <3>3, ConcatSplit
    <3>. QED  BY <3>1, <3>4 DEF ToSet
  <2>. QED  BY <2>5, <2>6
<1>2. CASE Keeping
  <2>1. buffer' = buffer /\ published' = published
    BY <1>2 DEF Keeping, Unfinished, At, FinishClear
  <2>2. \A j \in Inst : session'[j] # None =>
          session[j] # None /\ session'[j].turn = session[j].turn
    BY <1>2 DEF Keeping, SameTurns
  <2>. QED  BY <2>1, <2>2 DEF AllBuffered
<1>3. CASE Registering
  <2>1. PICK r \in Runs : RegisterSession(Home[r], r)
    BY <1>3 DEF Registering
  <2>2. /\ \A j \in Inst : j # Home[r] => session'[j] = session[j] /\ buffer'[j] = buffer[j]
        /\ session'[Home[r]] = NewSession(r) /\ published' = published
    BY <2>1, HomeAssumption DEF RegisterSession, BrokerInv, BrokerTypeOK
  <2>3. \A e \in published : e.turn # NewSession(r).turn
    BY <1>0 DEF BrokerInv, IdsBelowNext, NewSession, Event
  <2>. QED  BY <2>2, <2>3 DEF AllBuffered
<1>4. CASE Moving
  <2>1. /\ published' = published
        /\ \A j \in Inst : session'[j] # None =>
             session'[j] = session[j] /\ buffer'[j] = buffer[j]
    BY <1>4, MovingFrame
  <2>. QED  BY <2>1 DEF AllBuffered
<1>. QED  BY <1>1, <1>2, <1>3, <1>4

LEMMA SettledKept ==
  ASSUME BrokerInv, ReaderInv, ChannelInv, Moving, NEW i \in Inst, session'[i] = None,
         session[i] = None => Settled(i)
  PROVE  Settled(i)'
<1>0. /\ inbox \in [Inst -> Seq(Event \cup Ack)] /\ inbox[i] \in Seq(Event \cup Ack)
      /\ DOMAIN inbox[i] \subseteq Nat
      /\ mapped \in [Inst -> BOOLEAN] /\ session \in [Inst -> Session \cup {None}]
  BY LenProperties DEF BrokerInv, BrokerTypeOK
<1>1. CASE UNCHANGED <<session, mapped, inbox>>
  BY <1>1 DEF Settled
<1>2. ASSUME NEW s \in Subs, RedisSubscribes(s) PROVE Settled(i)'
  <2>1. PICK k \in {1, 2} : inbox' = [inbox EXCEPT ![Home[s]] = Append(@, [ack |-> k, sub |-> s])]
    BY <1>2 DEF RedisSubscribes
  <2>2. mapped' = mapped /\ session' = session
    BY <1>2 DEF RedisSubscribes, brokerVars
  <2>3. CASE inbox'[i] = inbox[i]
    BY <2>2, <2>3 DEF Settled
  <2>4. CASE inbox'[i] # inbox[i]
    <3>. DEFINE a == [ack |-> k, sub |-> s]
    <3>1. a \in Event \cup Ack /\ IsAck(a)
      BY DEF Ack, IsAck
    <3>2. inbox'[i] = Append(inbox[i], a)
      BY <1>0, <2>1, <2>4
    <3>. HIDE DEF a
    <3>3. /\ DOMAIN inbox[i] = 1..Len(inbox[i]) /\ Len(inbox[i]) \in Nat
          /\ DOMAIN inbox'[i] = 1..Len(inbox[i]) + 1
          /\ \A m \in 1..Len(inbox[i]) : inbox'[i][m] = inbox[i][m]
          /\ inbox'[i][Len(inbox[i]) + 1] = a
      BY <1>0, <3>1, <3>2, AppendProperties, LenProperties
    <3>4. session[i] = None /\ Settled(i)
      BY <2>2
    <3>5. mapped'[i] => \A n \in DOMAIN inbox'[i] : IsAck(inbox'[i][n])
      BY <2>2, <3>1, <3>3, <3>4 DEF Settled
    <3>6. ASSUME NEW m \in DOMAIN inbox'[i], NEW n \in DOMAIN inbox'[i],
                 m < n, IsAck(inbox'[i][m])
          PROVE  IsAck(inbox'[i][n])
      <4>1. CASE n = Len(inbox[i]) + 1
        BY <3>1, <3>3, <4>1
      <4>2. CASE n \in 1..Len(inbox[i])
        <5>1. m \in 1..Len(inbox[i])
          BY <3>3, <3>6, <4>2
        <5>. QED  BY <3>3, <3>4, <3>6, <4>2, <5>1 DEF Settled
      <4>. QED  BY <3>3, <4>1, <4>2
    <3>. QED  BY <3>5, <3>6 DEF Settled
  <2>. QED  BY <2>3, <2>4
<1>3. ASSUME NEW s \in Subs, Yield(s) PROVE Settled(i)'
  <2>1. inbox' = inbox /\ reader[s].pc = "live"
    BY <1>3 DEF Yield
  <2>2. CASE session[i] = None
    <3>1. mapped'[i] => mapped[i]
      BY <1>0, <1>3 DEF Yield, Leave, Forget
    <3>. QED  BY <2>1, <2>2, <3>1 DEF Settled
  <2>3. CASE session[i] # None
    <3>1. i = Home[s] /\ members[i] \ {s} = {} /\ ~mapped'[i]
      BY <1>0, <1>3, <2>3, HomeAssumption DEF Yield, Leave, Forget
    <3>2. \A n \in DOMAIN inbox[i] : ~IsAck(inbox[i][n])
      <4>. SUFFICES ASSUME NEW n \in DOMAIN inbox[i], IsAck(inbox[i][n]) PROVE FALSE
        OBVIOUS
      <4>1. inbox[i][n].sub = s
        BY <3>1, AckKnown
      <4>. QED  BY <2>1, <4>1, AckKnown
    <3>. QED  BY <2>1, <3>1, <3>2 DEF Settled
  <2>. QED  BY <2>2, <2>3
<1>4. ASSUME NEW j \in Inst, Deliver(j) PROVE Settled(i)'
  <2>1. session[i] = None /\ Settled(i)
    BY <1>4 DEF Deliver
  <2>2. CASE j # i
    <3>1. inbox'[i] = inbox[i]
      BY <1>4, <2>2, InboxShrinks
    <3>2. mapped'[i] = mapped[i]
      BY <1>0, <1>4, <2>2 DEF Deliver, HandleAck, HandleEvent
    <3>. QED  BY <2>1, <3>1, <3>2 DEF Settled
  <2>3. CASE j = i
    <3>1. /\ 1 \in DOMAIN inbox[i] /\ Head(inbox[i]) = inbox[i][1]
          /\ \A n \in DOMAIN inbox'[i] :
               n + 1 \in DOMAIN inbox[i] /\ inbox'[i][n] = inbox[i][n + 1]
      BY <1>4, <2>3, InboxShrinks
    <3>2. \A n \in DOMAIN inbox'[i] : n \in Nat /\ n >= 1
      <4>1. inbox'[i] \in Seq(Event \cup Ack)
        BY <1>4, <2>3, InboxShrinks
      <4>. QED  BY <4>1, LenProperties
    <3>3. mapped'[i] => mapped[i] \/ IsAck(Head(inbox[i]))
      BY <1>4, <2>3, DeliverEffect
    <3>4. \A n \in DOMAIN inbox'[i] : mapped'[i] => IsAck(inbox'[i][n])
      <4>. SUFFICES ASSUME NEW n \in DOMAIN inbox'[i], mapped'[i] PROVE IsAck(inbox'[i][n])
        OBVIOUS
      <4>1. 1 < n + 1 /\ n + 1 \in DOMAIN inbox[i] /\ inbox'[i][n] = inbox[i][n + 1]
        BY <3>1, <3>2
      <4>. QED  BY <2>1, <3>1, <3>3, <4>1 DEF Settled
    <3>5. \A m, n \in DOMAIN inbox'[i] :
            m < n /\ IsAck(inbox'[i][m]) => IsAck(inbox'[i][n])
      <4>. SUFFICES ASSUME NEW m \in DOMAIN inbox'[i], NEW n \in DOMAIN inbox'[i],
                           m < n, IsAck(inbox'[i][m])
                    PROVE  IsAck(inbox'[i][n])
        OBVIOUS
      <4>1. m + 1 < n + 1
        BY <3>2
      <4>. QED  BY <2>1, <3>1, <4>1 DEF Settled
    <3>. QED  BY <3>4, <3>5 DEF Settled
  <2>. QED  BY <2>2, <2>3
<1>5. ASSUME NEW s \in Subs, Subscribe(s) \/ SubscribeFails(s) PROVE Settled(i)'
  <2>1. UNCHANGED <<session, mapped, inbox>>
    BY <1>5 DEF Subscribe, SubscribeFails, brokerVars, redisVars
  <2>. QED  BY <1>1, <2>1
<1>. QED  BY <1>2, <1>3, <1>4, <1>5 DEF Moving

LEMMA OneServerKept ==
  ASSUME BrokerInv, ReaderInv, ChannelInv, OneServer,
         Emitting \/ Keeping \/ Registering \/ Moving
  PROVE  OneServer'
<1>. SUFFICES ASSUME NEW i \in Inst, \A r \in Runs : Home[r] = i
              PROVE  /\ session'[i] # None => session'[i].turn = turns'
                     /\ \A j \in Inst \ {i} : session'[j] = None
                     /\ session'[i] = None => Settled(i)'
  BY DEF OneServer
<1>0. /\ session[i] # None => session[i].turn = turns
      /\ \A j \in Inst \ {i} : session[j] = None
      /\ session[i] = None => Settled(i)
  BY DEF OneServer
<1>1. CASE Emitting
  <2>1. PICK k \in Inst, s \in Session, es \in Seq(Event) : Fresh(k, s, es) /\ Emit(k, s, es)
    BY <1>1 DEF Emitting
  <2>2. k = i
    BY <1>0, <2>1 DEF Fresh
  <2>3. /\ session'[i] = s /\ s # None /\ s.turn = session[i].turn /\ session[i] # None
        /\ \A j \in Inst \ {i} : session'[j] = session[j]
        /\ turns' = turns
    BY <1>1, <2>1, <2>2, EmitEffect DEF Fresh, Emitting
  <2>. QED  BY <1>0, <2>3
<1>2. CASE Keeping
  <2>1. \A j \in Inst : IF session[j] = None THEN session'[j] = None
                        ELSE session'[j] # None /\ session'[j].turn = session[j].turn
    BY <1>2 DEF Keeping, SameTurns
  <2>2. UNCHANGED <<turns, mapped, inbox>>
    BY <1>2 DEF Keeping
  <2>3. Settled(i) => Settled(i)'
    BY <2>2 DEF Settled
  <2>. QED  BY <1>0, <2>1, <2>2, <2>3
<1>3. CASE Registering
  <2>1. PICK r \in Runs : RegisterSession(Home[r], r)
    BY <1>3 DEF Registering
  <2>2. Home[r] = i
    OBVIOUS
  <2>3. /\ session'[i] = NewSession(r) /\ turns' = turns + 1
        /\ \A j \in Inst \ {i} : session'[j] = session[j]
    BY <2>1, <2>2 DEF RegisterSession, BrokerInv, BrokerTypeOK
  <2>4. NewSession(r) # None /\ NewSession(r).turn = turns + 1
    <3>1. NewSession(r) \in Session
      BY DEF NewSession, Session, State, BrokerInv, BrokerTypeOK
    <3>. QED  BY <3>1, NoneAssumption DEF NewSession
  <2>. QED  BY <1>0, <2>3, <2>4
<1>4. CASE Moving
  <2>1. turns' = turns /\ \A j \in Inst : session'[j] \in {session[j], None}
    BY <1>4, MovingFrame
  <2>2. session'[i] = None => Settled(i)'
    BY <1>0, <1>4, SettledKept
  <2>. QED  BY <1>0, <2>1, <2>2
<1>. QED  BY <1>1, <1>2, <1>3, <1>4

LEMMA ColdKept ==
  ASSUME BrokerInv, ReaderInv, ChannelInv, ColdInv,
         Emitting \/ Keeping \/ Registering \/ Moving
  PROVE  ColdInv'
<1>1. CASE reader' = reader
  BY <1>1 DEF ColdInv
<1>2. CASE Moving
  <2>. SUFFICES ASSUME NEW s \in Subs, reader'[s].pc \notin {"idle", "live", "closed"}
                PROVE  reader'[s].cold
    BY DEF ColdInv
  <2>1. CASE reader'[s] = reader[s]
    BY <2>1 DEF ColdInv
  <2>2. CASE Replays(s)
    <3>1. Tidy(reader[s]) /\ buffer[Home[s]] \in Seq(Event) /\ turns \in Nat
      BY InvIsTidy, HomeAssumption DEF BrokerInv, BrokerTypeOK
    <3>. QED  BY <2>2, <3>1, ReplayedTidy DEF Replays
  <2>3. CASE Hears(s)
    <3>1. Head(inbox[Home[s]]) \in Event /\ Tidy(reader[s])
      BY <2>3, HomeAssumption, InvIsTidy, DeliverEffect, Messages DEF Hears
    <3>. QED  BY <2>3, <3>1, EnqueueTidy DEF Hears, Further, ColdInv
  <2>4. CASE Shifts(s)
    BY <2>4 DEF Shifts, ColdInv
  <2>. QED  BY <1>2, <2>1, <2>2, <2>3, <2>4, MovingReader
<1>. QED  BY <1>1, <1>2 DEF Emitting, Keeping, Registering

-----------------------------------------------------------------------------
(* WarmReaderMissesNothing *)

(* A reader that joins a mapped channel: it hears the turn so far, or the  *)
(* turn is past and nothing of it is left.                                 *)
LEMMA JoinsWarm ==
  ASSUME BrokerInv, DeliveryInv, AllBuffered, OneServer, Moving,
         NEW s \in Subs, Local(s), Replays(s), reader[s].pc = "idle",
         UNCHANGED <<session, inbox, mapped>>, mapped[Home[s]], NEW t, t = turns
  PROVE  Follows(s, t)' \/ GoneFor(s, t)'
<1>. DEFINE i == Home[s]
            es == buffer[i]
            rd == reader[s]
<1>. USE DEF DeliveryInv
<1>0. /\ i \in Inst /\ es \in Seq(Event) /\ turns \in Nat /\ Tidy(rd)
      /\ turns' = turns /\ published' = published
  BY HomeAssumption, InvIsTidy, MovingFrame DEF BrokerInv, BrokerTypeOK
<1>1. rd.heard = <<>>
  BY DEF ChannelInv, JoinedInv, NewReader
<1>2. /\ session[i] # None => session[i].turn = turns
      /\ session[i] = None => Settled(i)
  BY <1>0 DEF OneServer, Local
<1>3. reader'[s].heard = ReplayLoop(rd, es)[Len(es)].heard
  BY <1>0, ReplayedTidy DEF Replays
<1>4. CASE session[i] # None
  <2>1. ASSUME NEW k \in DOMAIN es, es[k].kind # "block"
        PROVE  es[k] \in ToSet(reader'[s].heard)
    <3>1. \A n \in DOMAIN es : es[n].turn = turns /\ es[n].id >= 1
      BY <1>0, <1>2, <1>4 DEF BrokerInv, ReplayIsCurrent, OriginInv, CountInv, ToSet
    <3>2. \A m, n \in DOMAIN es : m < n /\ es[n].kind # "block" => es[m].id < es[n].id
      BY <1>0, <3>1 DEF OrderInv, Ordered
    <3>. HIDE DEF es, rd
    <3>. QED  BY <1>0, <1>1, <1>3, <2>1, <3>1, <3>2, ReplayHearsAll
  <2>2. \A e \in published : e.turn = turns => e \in ToSet(es)
    BY <1>0, <1>2, <1>4 DEF AllBuffered
  <2>3. Follows(s, t)'
    BY <1>0, <2>1, <2>2 DEF Follows, ToSet
  <2>. QED  BY <2>3
<1>5. CASE session[i] = None
  <2>1. es = <<>>
    <3>1. DOMAIN es = {}
      BY <1>0, <1>5 DEF BrokerInv, ReplayIsCurrent
    <3>2. es \in Seq(Event)
      BY <1>0
    <3>. HIDE DEF es
    <3>3. Len(es) = 0
      BY <3>1, <3>2, LenProperties
    <3>. QED  BY <3>2, <3>3, EmptySeq
  <2>2. reader'[s].heard = <<>>
    <3>1. Len(es) = 0
      BY <2>1
    <3>2. ReplayLoop(rd, es)[0] = rd
      BY <3>1, ReplayLoopDef
    <3>. QED  BY <1>1, <1>3, <3>1, <3>2
  <2>3. \A n \in DOMAIN inbox[i] : IsAck(inbox[i][n])
    BY <1>2, <1>5 DEF Settled
  <2>4. GoneFor(s, t)'
    BY <1>5, <2>2, <2>3 DEF GoneFor
  <2>. QED  BY <2>4
<1>. QED  BY <1>4, <1>5

(* What is gone for a reader stays gone.                                   *)
LEMMA EmitGone ==
  ASSUME BrokerInv, OneServer, Emitting, NEW s \in Subs, Local(s), NEW t, GoneFor(s, t)
  PROVE  GoneFor(s, t)'
<1>1. PICK i \in Inst, ss \in Session, es \in Seq(Event) : Fresh(i, ss, es) /\ Emit(i, ss, es)
  BY DEF Emitting
<1>0. Home[s] \in Inst /\ reader' = reader
  BY HomeAssumption DEF Emitting
<1>2. i = Home[s]
  BY <1>0, <1>1 DEF OneServer, Local, Fresh
<1>3. session'[i] = ss /\ ss.turn # t
  BY <1>1, <1>2, EmitEffect DEF Fresh, GoneFor
<1>4. \A n \in DOMAIN inbox'[i] : ~IsAck(inbox'[i][n]) => inbox'[i][n].turn # t
  <2>. SUFFICES ASSUME NEW n \in DOMAIN inbox'[i], ~IsAck(inbox'[i][n])
                PROVE  inbox'[i][n].turn # t
    OBVIOUS
  <2>1. CASE n \in DOMAIN inbox[i]
    <3>1. inbox'[i][n] = inbox[i][n]
      BY <1>1, <2>1, InboxGrows
    <3>. QED  BY <1>2, <2>1, <3>1 DEF GoneFor
  <2>2. CASE n \notin DOMAIN inbox[i]
    <3>1. n - Len(inbox[i]) \in DOMAIN es /\ inbox'[i][n] = es[n - Len(inbox[i])]
      BY <1>1, <2>2, InboxGrows
    <3>. QED  BY <1>1, <1>3, <3>1 DEF Fresh
  <2>. QED  BY <2>1, <2>2
<1>. QED  BY <1>0, <1>2, <1>3, <1>4 DEF GoneFor

LEMMA MovingGone ==
  ASSUME BrokerInv, DeliveryInv, Moving, NEW s \in Subs, ~Replays(s),
         NEW t, GoneFor(s, t), HeardOnly(s, t)'
  PROVE  GoneFor(s, t)'
<1>. USE DEF DeliveryInv
<1>0. Home[s] \in Inst /\ session'[Home[s]] \in {session[Home[s]], None}
  BY HomeAssumption, MovingFrame
<1>1. \A n \in DOMAIN inbox'[Home[s]] :
        ~IsAck(inbox'[Home[s]][n]) => inbox'[Home[s]][n].turn # t
  BY <1>0, MovingInbox DEF GoneFor
<1>2. reader'[s].heard = <<>>
  <2>1. CASE Hears(s)
    <3>. DEFINE m == Head(inbox[Home[s]])
    <3>1. m \in Event /\ inbox[Home[s]][1] = m /\ 1 \in DOMAIN inbox[Home[s]] /\ ~IsAck(m)
      BY <1>0, <2>1, DeliverEffect, InboxShrinks, Messages DEF Hears
    <3>2. m.turn # t /\ m.id >= 1
      BY <1>0, <3>1 DEF GoneFor, OriginInv, CountInv
    <3>3. reader[s].last = 0 /\ Tidy(reader[s])
      BY HeardIds, InvIsTidy DEF GoneFor
    <3>4. reader'[s] = Enqueue(reader[s], m)
      BY <2>1 DEF Hears
    <3>. HIDE DEF m
    <3>5. m \in ToSet(reader'[s].heard)
      <4>1. m.id > reader[s].last
        BY <3>1, <3>2, <3>3 DEF Event
      <4>. QED  BY <3>1, <3>3, <3>4, <4>1, EnqueueHears
    <3>. QED  BY <3>2, <3>5 DEF HeardOnly
  <2>2. CASE reader'[s] = reader[s] \/ Shifts(s)
    BY <2>2 DEF Shifts, GoneFor
  <2>. QED  BY <2>1, <2>2, MovingReader
<1>. QED  BY <1>0, <1>1, <1>2 DEF GoneFor

LEMMA WarmKept ==
  ASSUME BrokerInv, DeliveryInv, AllBuffered, OneServer, ColdInv, WarmInv,
         Emitting \/ Keeping \/ Registering \/ Moving
  PROVE  WarmInv'
<1>. USE DEF DeliveryInv
<1>0. turns \in Nat /\ published \subseteq Event /\ \A s \in Subs : reader[s] \in Reader
  BY InvIsTidy DEF BrokerInv, BrokerTypeOK
<1>1. ASSUME NEW s \in Subs, reader'[s].pc \in {"live", "closed"}, ~reader'[s].cold, Local(s),
             NEW t \in 0..turns', reader'[s].since = t, HeardOnly(s, t)'
      PROVE  Follows(s, t)' \/ GoneFor(s, t)'
  <2>0. Home[s] \in Inst
    BY HomeAssumption
  <2>1. ASSUME reader' = reader PROVE HeardOnly(s, t) /\ (Follows(s, t) \/ GoneFor(s, t))
    <3>1. t \in 0..turns /\ HeardOnly(s, t)
      BY <1>0, <1>1, <2>1 DEF CountInv, HeardOnly
    <3>. QED  BY <1>1, <2>1, <3>1 DEF WarmInv
  <2>2. CASE Emitting
    <3>1. HeardOnly(s, t) /\ (Follows(s, t) \/ GoneFor(s, t))
      BY <2>1, <2>2 DEF Emitting
    <3>. QED  BY <1>1, <2>2, <3>1, EmitFollows, EmitGone
  <2>3. CASE Keeping
    <3>1. UNCHANGED <<inbox, reader, published>>
      BY <2>3 DEF Keeping
    <3>2. \/ session[Home[s]] = None /\ session'[Home[s]] = None
          \/ session[Home[s]] # None /\ session'[Home[s]].turn = session[Home[s]].turn
      BY <2>0, <2>3 DEF Keeping, SameTurns
    <3>3. Follows(s, t) => Follows(s, t)'
      BY <3>1 DEF Follows
    <3>4. GoneFor(s, t) => GoneFor(s, t)'
      BY <3>1, <3>2 DEF GoneFor
    <3>. QED  BY <2>1, <3>1, <3>3, <3>4
  <2>4. CASE Registering
    <3>1. UNCHANGED <<inbox, reader, published>>
      BY <2>4 DEF Registering, RegisterSession, redisVars
    <3>2. session'[Home[s]].turn = turns + 1 /\ t # turns + 1
      <4>1. PICK r \in Runs : RegisterSession(Home[r], r)
        BY <2>4 DEF Registering
      <4>2. session'[Home[s]] = NewSession(r)
        BY <1>1, <2>0, <4>1 DEF RegisterSession, Local, BrokerInv, BrokerTypeOK
      <4>3. t <= turns /\ t \in Nat
        BY <1>0, <1>1, <3>1 DEF CountInv, Reader
      <4>. QED  BY <1>0, <4>2, <4>3 DEF NewSession
    <3>3. Follows(s, t) => Follows(s, t)'
      BY <3>1 DEF Follows
    <3>4. GoneFor(s, t) => GoneFor(s, t)'
      BY <3>1, <3>2 DEF GoneFor
    <3>. QED  BY <2>1, <3>1, <3>3, <3>4
  <2>5. CASE Moving /\ Replays(s)
    <3>1. reader'[s].since = turns /\ reader'[s].cold = reader[s].cold
      <4>1. Tidy(reader[s]) /\ buffer[Home[s]] \in Seq(Event)
        BY <2>0, InvIsTidy DEF BrokerInv, BrokerTypeOK
      <4>. QED  BY <1>0, <2>5, <4>1, ReplayedTidy DEF Replays
    <3>2. reader[s].pc = "idle"
      BY <1>1, <2>5, <3>1 DEF ColdInv, Replays
    <3>3. reader[s] # reader'[s]
      BY <1>1, <3>2
    <3>4. Subscribe(s)
      <4>1. ASSUME NEW x \in Subs, Subscribe(x) PROVE x = s
        BY <1>0, <3>3, <4>1, InvIsTidy DEF Subscribe
      <4>2. ASSUME NEW x \in Subs, NEW p, reader' = [reader EXCEPT ![x].pc = p],
                   reader[x].pc # "idle"
            PROVE  FALSE
        BY <3>2, <3>3, <4>2, InvIsTidy
      <4>3. ASSUME NEW x \in Subs, RedisSubscribes(x) \/ SubscribeFails(x) \/ Yield(x)
            PROVE  FALSE
        BY <4>2, <4>3 DEF RedisSubscribes, SubscribeFails, Yield
      <4>4. ASSUME NEW i \in Inst, Deliver(i) PROVE FALSE
        <5>1. CASE IsAck(Head(inbox[i]))
          <6>1. Head(inbox[i]) = inbox[i][1] /\ 1 \in DOMAIN inbox[i]
            BY <4>4, InboxShrinks
          <6>2. reader[Head(inbox[i]).sub].pc # "idle"
            BY <5>1, <6>1, AckKnown
          <6>. QED  BY <3>2, <3>3, <4>4, <5>1, <6>2, DeliverEffect
        <5>2. CASE ~IsAck(Head(inbox[i]))
          <6>1. s \notin members[i]
            BY <3>2 DEF ChannelInv, MembersInv
          <6>. QED  BY <3>3, <4>4, <5>2, <6>1, DeliverEffect
        <5>. QED  BY <5>1, <5>2
      <4>. QED  BY <2>5, <4>1, <4>3, <4>4 DEF Moving
    <3>5. UNCHANGED <<session, inbox, mapped>> /\ mapped[Home[s]]
      <4>1. reader'[s].pc # "connect"
        BY <1>1
      <4>. QED  BY <1>0, <3>4, <4>1, InvIsTidy DEF Subscribe, redisVars, Reader
    <3>. QED  BY <1>1, <2>5, <3>1, <3>2, <3>5, JoinsWarm
  <2>6. CASE Moving /\ ~Replays(s)
    <3>1. /\ reader[s].pc \in {"live", "closed"}
          /\ reader'[s].since = reader[s].since /\ reader'[s].cold = reader[s].cold
      BY <1>1, <2>6, MovingStays
    <3>2. HeardOnly(s, t)
      BY <1>1, <2>6, MovingHears DEF HeardOnly
    <3>3. Follows(s, t) \/ GoneFor(s, t)
      <4>1. t \in 0..turns
        BY <1>1, <2>6, MovingFrame
      <4>. QED  BY <1>1, <3>1, <3>2, <4>1 DEF WarmInv
    <3>. QED  BY <1>1, <2>6, <3>3, MovingFollows, MovingGone
  <2>. QED  BY <2>2, <2>3, <2>4, <2>5, <2>6
<1>. QED  BY <1>1 DEF WarmInv, Local

LEMMA UnfinishedKept ==
  ASSUME BrokerInv, RunTypeOK, DeliveryInv, UnfinishedInv,
         Paths \cap {"reap", "block", "media", "throw"} = {}, [Next]_vars
  PROVE  UnfinishedInv'
<1>. SUFFICES ASSUME aborted' = {}
              PROVE  (Unfinished /\ AllBuffered /\ OneServer /\ ColdInv /\ WarmInv)'
  BY DEF UnfinishedInv
<1>1. aborted = {}
  BY AbortedGrows
<1>2. Unfinished /\ AllBuffered /\ OneServer /\ ColdInv /\ WarmInv
  BY <1>1 DEF UnfinishedInv
<1>3. Emitting \/ Keeping \/ Registering \/ Moving
  BY StepKinds
<1>4. Unfinished'
  BY <1>1, <1>2, NeverFinishes
<1>5. ReaderInv /\ ChannelInv
  BY DEF DeliveryInv
<1>6. AllBuffered' /\ OneServer' /\ ColdInv'
  BY <1>2, <1>3, <1>5, AllBufferedKept, OneServerKept, ColdKept
<1>7. WarmInv'
  BY <1>2, <1>3, WarmKept
<1>. QED  BY <1>4, <1>6, <1>7

LEMMA InitUnfinished ==
  ASSUME Init
  PROVE  UnfinishedInv
<1>1. /\ \A i \in Inst : session[i] = None /\ inbox[i] = <<>> /\ ~mapped[i]
      /\ \A s \in Subs : reader[s].pc = "idle"
      /\ \A r \in Runs : run[r].pc = "idle"
  BY DEF Init, EngineInit, NewReader
<1>2. Unfinished /\ ColdInv /\ WarmInv
  BY <1>1 DEF Unfinished, At, ColdInv, WarmInv
<1>3. AllBuffered /\ OneServer
  BY <1>1 DEF AllBuffered, OneServer, Settled
<1>. QED  BY <1>2, <1>3 DEF UnfinishedInv

(* Where turns end by publishDone, a reader that joins a channel its       *)
(* instance is subscribed to, in the middle of a turn of that instance,    *)
(* misses nothing between the replayed buffer and the messages in flight.  *)
THEOREM WarmReadersMissNothing ==
  ASSUME Paths \cap {"reap", "block", "media", "throw"} = {}
  PROVE  Spec => []WarmReaderMissesNothing
<1>1. Init => DeliveryInv /\ UnfinishedInv
  BY InitDelivery, InitUnfinished
<1>2. (BrokerInv /\ RunTypeOK) /\ DeliveryInv /\ UnfinishedInv /\ [Next]_vars
        => DeliveryInv' /\ UnfinishedInv'
  BY DeliveryKept, UnfinishedKept
<1>3. BrokerInv /\ RunTypeOK /\ DeliveryInv /\ UnfinishedInv => WarmReaderMissesNothing
  <2>. SUFFICES ASSUME BrokerInv, DeliveryInv, UnfinishedInv, aborted = {},
                       NEW s \in Subs, NEW e \in published, ~reader[s].cold, Local(s),
                       reader[s].since <= e.turn, HeardOnly(s, e.turn), Missed(s, e)
                PROVE  FALSE
    BY DEF WarmReaderMissesNothing
  <2>1. ReaderInv /\ reader[s].since \in Nat /\ e \in Event /\ turns \in Nat
    BY InvIsTidy DEF DeliveryInv, BrokerInv, BrokerTypeOK, Reader
  <2>2. reader[s].heard # <<>>
    BY DEF Missed, ToSet
  <2>3. reader[s].pc \in {"live", "closed"}
    <3>1. reader[s].pc # "idle"
      BY <2>2 DEF DeliveryInv, ChannelInv, JoinedInv, NewReader
    <3>. QED  BY <3>1 DEF UnfinishedInv, ColdInv
  <2>4. e.turn \in 1..turns
    BY <2>1 DEF BrokerInv, IdsBelowNext, DeliveryInv, CountInv, Event
  <2>5. CASE reader[s].since < e.turn
    <3>1. Follows(s, e.turn)
      BY <2>3, <2>4, <2>5 DEF DeliveryInv, PresentInv
    <3>. QED  BY <2>1, <3>1, FollowedNotMissed
  <2>6. CASE reader[s].since = e.turn
    <3>1. Follows(s, e.turn) \/ GoneFor(s, e.turn)
      BY <2>1, <2>3, <2>4, <2>6 DEF UnfinishedInv, WarmInv
    <3>2. ~GoneFor(s, e.turn)
      BY <2>2 DEF GoneFor
    <3>. QED  BY <2>1, <3>1, <3>2, FollowedNotMissed
  <2>. QED  BY <2>1, <2>4, <2>5, <2>6
<1>. QED  BY <1>1, <1>2, <1>3, BrokerSafety, PTL DEF Spec
=============================================================================
