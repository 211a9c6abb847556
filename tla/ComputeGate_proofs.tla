------------------------- MODULE ComputeGate_proofs -------------------------
(***************************************************************************)
(* The leases of the compute gate for any number of requests, threads,     *)
(* users, workspaces and instances, any capacities and any number of       *)
(* expiries.  GateInv is inductive: an acquisition adds one lease, a       *)
(* release removes one, an expiry clears one counter, and every other      *)
(* command only moves a request on.  QueueInv follows a request through    *)
(* the queue to its grant, and the pools follow from the leases.           *)
(***************************************************************************)
EXTENDS ComputeGateProperties, FiniteSetTheorems, SequenceTheorems,
        WellFoundedInduction, TLAPS

(* Where a request may hold a lease.                                       *)
Holding == {"running", "vanished", "released", "signalling", "done"}

-----------------------------------------------------------------------------
(* Tickets and policy *)

LEMMA TicketTypes ==
  ASSUME NEW r \in Req
  PROVE  /\ threadOf(r) \in Thread /\ userOf(r) \in User
         /\ workspaceOf(r) \in Workspace
         /\ Ticket[r].planTier \in PlanTier
         /\ Ticket[r].computeTier \in ComputeTier
  BY GateAssumption DEF GateTicket, threadOf, userOf, workspaceOf

LEMMA PolicyTypes ==
  /\ \A p \in PlanTier : MaxUserConcurrency[p] \in Nat
  /\ \A p \in PlanTier : PriorityWeight[p] \in 1..10
  /\ \A t \in ComputeTier : BaseWeight[t] \in 1..6
  BY DEF PlanTier, ComputeTier, MaxUserConcurrency, PriorityWeight, BaseWeight

LEMMA WeightType ==
  ASSUME NEW r \in Req
  PROVE  computeWeight(r) \in Nat
<1>1. /\ PriorityWeight[Ticket[r].planTier] \in 1..10
      /\ BaseWeight[Ticket[r].computeTier] \in 1..6
  BY TicketTypes, PolicyTypes
<1>2. \A m \in 1..6, n \in 1..10 : (m + n - 1) \div n \in Nat
  OBVIOUS
<1>. QED  BY <1>1, <1>2 DEF computeWeight

(* What the counters count is finite, whoever it belongs to.               *)
LEMMA LeasesFinite ==
  ASSUME IsFiniteSet(leases)
  PROVE  /\ \A u : /\ IsFiniteSet(LeasesOfUser(u))
                   /\ Cardinality(LeasesOfUser(u)) \in Nat
         /\ \A w : /\ IsFiniteSet(LeasesOfWorkspace(w))
                   /\ Cardinality(LeasesOfWorkspace(w)) \in Nat
         /\ \A u, p : /\ IsFiniteSet(LeasesOnPlan(u, p))
                      /\ Cardinality(LeasesOnPlan(u, p)) \in Nat
                      /\ Cardinality(LeasesOnPlan(u, p)) <= Cardinality(LeasesOfUser(u))
<1>1. \A u : IsFiniteSet(LeasesOfUser(u))
  BY FS_Subset DEF LeasesOfUser
<1>2. \A w : IsFiniteSet(LeasesOfWorkspace(w))
  BY FS_Subset DEF LeasesOfWorkspace
<1>3. \A u, p : /\ IsFiniteSet(LeasesOnPlan(u, p))
                /\ Cardinality(LeasesOnPlan(u, p)) <= Cardinality(LeasesOfUser(u))
  <2>1. \A u, p : LeasesOnPlan(u, p) \in SUBSET LeasesOfUser(u)
    BY DEF LeasesOnPlan
  <2>. QED  BY <1>1, <2>1, FS_Subset
<1>. QED  BY <1>1, <1>2, <1>3, FS_CardinalityType

-----------------------------------------------------------------------------
(* The initial state *)

LEMMA InitHolds == GateInit => GateInv
<1>. SUFFICES ASSUME GateInit PROVE GateInv
  OBVIOUS
<1>1. CounterTypeOK
  BY DEF GateInit, CounterTypeOK, PCLabel
<1>2. IsFiniteSet(leases)
  BY FS_EmptySet DEF GateInit
<1>3. LeasesHeld
  BY DEF GateInit, LeasesHeld
<1>4. /\ \A u : Cardinality(LeasesOfUser(u)) = 0
      /\ \A w : Cardinality(LeasesOfWorkspace(w)) = 0
      /\ \A u, p : Cardinality(LeasesOnPlan(u, p)) = 0
  <2>1. /\ \A u : LeasesOfUser(u) = {}
        /\ \A w : LeasesOfWorkspace(w) = {}
        /\ \A u, p : LeasesOnPlan(u, p) = {}
    BY DEF GateInit, LeasesOfUser, LeasesOfWorkspace, LeasesOnPlan
  <2>. QED  BY <2>1, FS_EmptySet
<1>5. UserCeiling
  BY <1>4, PolicyTypes DEF GateInit, UserCeiling, Admitted, At
<1>6. CountersMatchLeases
  BY <1>4 DEF GateInit, CountersMatchLeases
<1>. QED  BY <1>1, <1>2, <1>3, <1>5, <1>6 DEF GateInv

-----------------------------------------------------------------------------
(* The four kinds of steps *)

(* A request moves on, holding what it held: into execution only without   *)
(* a lease of its own making, and never back to where it may acquire.      *)
LEMMA MoveKeeps ==
  ASSUME GateInv, UNCHANGED <<counters, lapsed>>, pc' \in [Req -> PCLabel],
         \A r \in Req :
           /\ pc'[r] \in {"running", "vanished"}
                => pc[r] \in {"running", "vanished"} \/ Downgraded(r)
           /\ pc[r] \in Holding => pc'[r] \in Holding
  PROVE  GateInv'
<1>. USE DEF GateInv, counters
<1>1. CounterTypeOK'
  BY DEF CounterTypeOK
<1>2. LeasesHeld'
  <2>1. \A l \in leases : l.trace \in Req
    BY DEF CounterTypeOK
  <2>. QED  BY <2>1 DEF LeasesHeld, At, Holding
<1>3. \A u, p : LeasesOnPlan(u, p)' = LeasesOnPlan(u, p)
  BY DEF LeasesOnPlan, LeasesOfUser
<1>4. UserCeiling'
  BY <1>3 DEF UserCeiling, Admitted, At
<1>5. CountersMatchLeases'
  BY DEF CountersMatchLeases, LeasesOfUser, LeasesOfWorkspace
<1>. QED  BY <1>1, <1>2, <1>4, <1>5

(* A counter expires: the key's owner joins lapsed.                        *)
LEMMA LapseKeeps ==
  ASSUME GateInv, Lapse
  PROVE  GateInv'
<1>. USE DEF GateInv
<1>1. CounterTypeOK'
  BY DEF CounterTypeOK, Lapse
<1>2. LeasesHeld'
  <2>1. \A l \in leases : l.trace \in Req /\ threadOf(l.trace) \in Thread
    BY TicketTypes DEF CounterTypeOK
  <2>2. \A t \in Thread : t \notin lapsed' => t \notin lapsed /\ active'[t] = active[t]
    BY DEF Lapse, CounterTypeOK
  <2>. QED  BY <2>1, <2>2 DEF LeasesHeld, Lapse, At
<1>3. \A u, p : LeasesOnPlan(u, p)' = LeasesOnPlan(u, p)
  BY DEF LeasesOnPlan, LeasesOfUser, Lapse
<1>4. UserCeiling'
  BY <1>3 DEF UserCeiling, Admitted, At, Lapse
<1>5. CountersMatchLeases'
  <2>1. /\ \A u : LeasesOfUser(u)' = LeasesOfUser(u)
        /\ \A w : LeasesOfWorkspace(w)' = LeasesOfWorkspace(w)
    BY DEF LeasesOfUser, LeasesOfWorkspace, Lapse
  <2>2. \A u \in User :
          /\ users'[u] \in {users[u], 0}
          /\ u \notin lapsed' => u \notin lapsed /\ users'[u] = users[u]
    BY DEF Lapse, CounterTypeOK
  <2>3. \A w \in Workspace :
          /\ workspaces'[w] \in {workspaces[w], 0}
          /\ w \notin lapsed' => w \notin lapsed /\ workspaces'[w] = workspaces[w]
    BY DEF Lapse, CounterTypeOK
  <2>. QED  BY <2>1, <2>2, <2>3, LeasesFinite DEF CountersMatchLeases
<1>6. IsFiniteSet(leases)'
  BY DEF Lapse
<1>. QED  BY <1>1, <1>2, <1>4, <1>5, <1>6

(* An admitted request takes its lease and the key of its thread.          *)
LEMMA TakeKeeps ==
  ASSUME GateInv, NEW r \in Req, pc[r] \in {"idle", "granted"}, Admits(r), Take(r),
         Goto(r, "running"), UNCHANGED lapsed
  PROVE  GateInv'
<1>. USE DEF GateInv
<1>1. PICK p \in PoolsFor(r) :
        /\ active' = [active EXCEPT ![threadOf(r)] = r]
        /\ users' = [users EXCEPT ![userOf(r)] = @ + 1]
        /\ workspaces' = [workspaces EXCEPT ![workspaceOf(r)] = @ + 1]
        /\ weight' = [weight EXCEPT ![p] = @ + computeWeight(r)]
        /\ expiring' = expiring \cup {p}
        /\ leases' = leases \cup {Lease(r, p)}
  BY DEF Take
<1>2. /\ p \in Pool
      /\ Lease(r, p) \in [trace: Req, pool: Pool]
      /\ Lease(r, p).trace = r
  BY DEF PoolsFor, Pool, Lease
<1>3. /\ threadOf(r) \in Thread /\ userOf(r) \in User /\ workspaceOf(r) \in Workspace
      /\ Ticket[r].planTier \in PlanTier
  BY TicketTypes
<1>4. /\ pc' = [pc EXCEPT ![r] = "running"]
      /\ pc' \in [Req -> PCLabel]
  BY DEF Goto, CounterTypeOK, PCLabel
<1>5. \A l \in leases : l.trace \in Req /\ l.trace # r
  BY DEF LeasesHeld, At, CounterTypeOK
<1>6. CounterTypeOK'
  <2>1. weight' \in [Pool -> Nat]
    BY <1>1, <1>2, WeightType DEF CounterTypeOK
  <2>2. active' \in [Thread -> Req \cup {None}]
    BY <1>1 DEF CounterTypeOK
  <2>3. users' \in [User -> Nat] /\ workspaces' \in [Workspace -> Nat]
    BY <1>1, <1>3 DEF CounterTypeOK
  <2>4. expiring' \in SUBSET Pool /\ leases' \in SUBSET [trace: Req, pool: Pool]
    BY <1>1, <1>2 DEF CounterTypeOK
  <2>. QED  BY <1>4, <2>1, <2>2, <2>3, <2>4 DEF CounterTypeOK
<1>7. IsFiniteSet(leases')
  BY <1>1, FS_AddElement
<1>8. LeasesHeld'
  <2>1. \A l, m \in leases' : l.trace = m.trace => l = m
    BY <1>1, <1>2, <1>5 DEF LeasesHeld
  <2>2. ASSUME NEW l \in leases'
        PROVE  /\ pc'[l.trace] \in Holding
               /\ threadOf(l.trace) \notin lapsed' => active'[threadOf(l.trace)] = l.trace
    <3>1. CASE l = Lease(r, p)
      BY <3>1, <1>1, <1>2, <1>3, <1>4 DEF CounterTypeOK, Holding
    <3>2. CASE l \in leases
      <4>1. /\ pc[l.trace] \in Holding
            /\ threadOf(l.trace) \notin lapsed => active[threadOf(l.trace)] = l.trace
        BY <3>2 DEF LeasesHeld, At, Holding
      <4>2. active[threadOf(r)] \in {None, r}
        BY DEF Admits
      <4>3. threadOf(l.trace) \notin lapsed => threadOf(l.trace) # threadOf(r)
        BY <3>2, <1>5, <4>1, <4>2, GateAssumption
      <4>. QED  BY <3>2, <1>1, <1>4, <1>5, <4>1, <4>3, TicketTypes DEF CounterTypeOK
    <3>. QED  BY <3>1, <3>2, <1>1
  <2>. QED  BY <2>1, <2>2 DEF LeasesHeld, At, Holding
<1>9. /\ \A u : LeasesOfUser(u)' = IF u = userOf(r) THEN LeasesOfUser(u) \cup {Lease(r, p)}
                                   ELSE LeasesOfUser(u)
      /\ \A w : LeasesOfWorkspace(w)' =
                  IF w = workspaceOf(r) THEN LeasesOfWorkspace(w) \cup {Lease(r, p)}
                  ELSE LeasesOfWorkspace(w)
      /\ \A u, q : LeasesOnPlan(u, q)' =
                     IF u = userOf(r) /\ q = Ticket[r].planTier
                     THEN LeasesOnPlan(u, q) \cup {Lease(r, p)} ELSE LeasesOnPlan(u, q)
  <2>1. \A u : LeasesOfUser(u)' = IF u = userOf(r) THEN LeasesOfUser(u) \cup {Lease(r, p)}
                                  ELSE LeasesOfUser(u)
    BY <1>1, <1>2 DEF LeasesOfUser
  <2>2. \A w : LeasesOfWorkspace(w)' =
                 IF w = workspaceOf(r) THEN LeasesOfWorkspace(w) \cup {Lease(r, p)}
                 ELSE LeasesOfWorkspace(w)
    BY <1>1, <1>2 DEF LeasesOfWorkspace
  <2>3. \A u, q : LeasesOnPlan(u, q)' =
                    IF u = userOf(r) /\ q = Ticket[r].planTier
                    THEN LeasesOnPlan(u, q) \cup {Lease(r, p)} ELSE LeasesOnPlan(u, q)
    BY <2>1, <1>2 DEF LeasesOnPlan
  <2>. QED  BY <2>1, <2>2, <2>3
<1>10. \A u, w, q :
         /\ Cardinality(LeasesOfUser(u))' =
              Cardinality(LeasesOfUser(u)) + (IF u = userOf(r) THEN 1 ELSE 0)
         /\ Cardinality(LeasesOfWorkspace(w))' =
              Cardinality(LeasesOfWorkspace(w)) + (IF w = workspaceOf(r) THEN 1 ELSE 0)
         /\ Cardinality(LeasesOnPlan(u, q))' =
              Cardinality(LeasesOnPlan(u, q))
                + (IF u = userOf(r) /\ q = Ticket[r].planTier THEN 1 ELSE 0)
  <2>1. \A u, w, q : /\ Lease(r, p) \notin LeasesOfUser(u)
                     /\ Lease(r, p) \notin LeasesOfWorkspace(w)
                     /\ Lease(r, p) \notin LeasesOnPlan(u, q)
    BY <1>2, <1>5 DEF LeasesOfUser, LeasesOfWorkspace, LeasesOnPlan
  <2>2. \A S : IsFiniteSet(S) /\ Lease(r, p) \notin S
                => Cardinality(S \cup {Lease(r, p)}) = Cardinality(S) + 1
    BY FS_AddElement
  <2>3. \A u : Cardinality(LeasesOfUser(u)') =
                 Cardinality(LeasesOfUser(u)) + (IF u = userOf(r) THEN 1 ELSE 0)
    BY <1>9, <2>1, <2>2, LeasesFinite
  <2>4. \A w : Cardinality(LeasesOfWorkspace(w)') =
                 Cardinality(LeasesOfWorkspace(w)) + (IF w = workspaceOf(r) THEN 1 ELSE 0)
    BY <1>9, <2>1, <2>2, LeasesFinite
  <2>5. \A u, q : Cardinality(LeasesOnPlan(u, q)') =
                    Cardinality(LeasesOnPlan(u, q))
                      + (IF u = userOf(r) /\ q = Ticket[r].planTier THEN 1 ELSE 0)
    BY <1>9, <2>1, <2>2, LeasesFinite
  <2>. QED  BY <2>3, <2>4, <2>5
<1>11. UserCeiling'
  <2>1. \A q \in Req : Admitted(q)' => \E l \in leases' : l.trace = q
    <3>1. \A q \in Req : Admitted(q)' => q = r \/ Admitted(q)
      BY <1>4 DEF Admitted, At, CounterTypeOK
    <3>. QED  BY <3>1, <1>1, <1>2 DEF UserCeiling
  <2>2. ASSUME NEW u \in User \ lapsed', NEW q \in PlanTier
        PROVE  Cardinality(LeasesOnPlan(u, q))' <= MaxUserConcurrency[q]
    <3>1. CASE u = userOf(r) /\ q = Ticket[r].planTier
      <4>1. users[u] = Cardinality(LeasesOfUser(u)) /\ users[u] < MaxUserConcurrency[q]
        BY <3>1 DEF CountersMatchLeases, Admits
      <4>. QED  BY <3>1, <4>1, <1>10, LeasesFinite, PolicyTypes
    <3>2. CASE ~(u = userOf(r) /\ q = Ticket[r].planTier)
      BY <3>2, <1>9 DEF UserCeiling
    <3>. QED  BY <3>1, <3>2
  <2>. QED  BY <2>1, <2>2 DEF UserCeiling
<1>12. CountersMatchLeases'
  <2>1. ASSUME NEW u \in User
        PROVE  /\ users'[u] <= Cardinality(LeasesOfUser(u))'
               /\ u \notin lapsed' => users'[u] = Cardinality(LeasesOfUser(u))'
    <3>1. users'[u] = users[u] + (IF u = userOf(r) THEN 1 ELSE 0) /\ users[u] \in Nat
      BY <1>1 DEF CounterTypeOK
    <3>. QED  BY <3>1, <1>10, LeasesFinite DEF CountersMatchLeases
  <2>2. ASSUME NEW w \in Workspace
        PROVE  /\ workspaces'[w] <= Cardinality(LeasesOfWorkspace(w))'
               /\ w \notin lapsed' => workspaces'[w] = Cardinality(LeasesOfWorkspace(w))'
    <3>1. /\ workspaces'[w] = workspaces[w] + (IF w = workspaceOf(r) THEN 1 ELSE 0)
          /\ workspaces[w] \in Nat
      BY <1>1 DEF CounterTypeOK
    <3>. QED  BY <3>1, <1>10, LeasesFinite DEF CountersMatchLeases
  <2>. QED  BY <2>1, <2>2 DEF CountersMatchLeases
<1>. QED  BY <1>6, <1>7, <1>8, <1>11, <1>12

(* A release that finds its lease takes the lease's share off every        *)
(* counter; one that does not find it changes none.                        *)
LEMMA DropKeeps ==
  ASSUME GateInv, NEW r \in Req, pc[r] = "running", Drop(r),
         Goto(r, "released"), UNCHANGED lapsed
  PROVE  GateInv'
<1>. USE DEF GateInv
<1>. DEFINE p == GuessedPool(r)
<1>0. /\ pc' = [pc EXCEPT ![r] = "released"]
      /\ pc' \in [Req -> PCLabel]
  BY DEF Goto, CounterTypeOK, PCLabel
<1>1. CASE Lease(r, p) \notin leases
  <2>1. UNCHANGED counters
    BY <1>1 DEF Drop
  <2>2. \A q \in Req :
          /\ pc'[q] \in {"running", "vanished"} => pc[q] \in {"running", "vanished"}
          /\ pc[q] \in Holding => pc'[q] \in Holding
    BY <1>0 DEF CounterTypeOK, Holding
  <2>. QED  BY <1>0, <2>1, <2>2, MoveKeeps
<1>2. CASE Lease(r, p) \in leases
  <2>1. /\ leases' = leases \ {Lease(r, p)}
        /\ active' = [active EXCEPT ![threadOf(r)] = None]
        /\ users' = [users EXCEPT ![userOf(r)] = Minus(@, 1)]
        /\ workspaces' = [workspaces EXCEPT ![workspaceOf(r)] = Minus(@, 1)]
        /\ weight' = [weight EXCEPT ![p] = Minus(@, computeWeight(r))]
        /\ expiring' = expiring \ {p}
    BY <1>2 DEF Drop
  <2>2. /\ threadOf(r) \in Thread /\ userOf(r) \in User /\ workspaceOf(r) \in Workspace
        /\ p \in Pool /\ Lease(r, p).trace = r
    BY TicketTypes DEF GuessedPool, Pool, Lease
  <2>. HIDE DEF p
  <2>3. \A l \in leases' : l \in leases /\ l.trace \in Req /\ l.trace # r
    BY <1>2, <2>1, <2>2 DEF LeasesHeld, CounterTypeOK
  <2>4. CounterTypeOK'
    <3>1. \A m, n \in Nat : Minus(m, n) \in Nat
      BY DEF Minus
    <3>2. weight' \in [Pool -> Nat]
      BY <2>1, <3>1, WeightType DEF CounterTypeOK
    <3>3. users' \in [User -> Nat] /\ workspaces' \in [Workspace -> Nat]
      BY <2>1, <3>1 DEF CounterTypeOK
    <3>4. active' \in [Thread -> Req \cup {None}]
      BY <2>1 DEF CounterTypeOK
    <3>. QED  BY <1>0, <2>1, <3>2, <3>3, <3>4 DEF CounterTypeOK
  <2>5. IsFiniteSet(leases')
    BY <2>1, FS_RemoveElement
  <2>6. LeasesHeld'
    <3>1. \A l, m \in leases' : l.trace = m.trace => l = m
      BY <2>3 DEF LeasesHeld
    <3>2. ASSUME NEW l \in leases'
          PROVE  /\ pc'[l.trace] \in Holding
                 /\ threadOf(l.trace) \notin lapsed' => active'[threadOf(l.trace)] = l.trace
      <4>1. /\ pc[l.trace] \in Holding
            /\ threadOf(l.trace) \notin lapsed => active[threadOf(l.trace)] = l.trace
        BY <2>3 DEF LeasesHeld, At, Holding
      <4>2. threadOf(r) \notin lapsed => active[threadOf(r)] = r
        BY <1>2, <2>2 DEF LeasesHeld
      <4>3. threadOf(l.trace) \notin lapsed => threadOf(l.trace) # threadOf(r)
        BY <2>3, <4>1, <4>2
      <4>. QED  BY <1>0, <2>1, <2>3, <4>1, <4>3, TicketTypes DEF CounterTypeOK
    <3>. QED  BY <3>1, <3>2 DEF LeasesHeld, At, Holding
  <2>7. /\ \A u : LeasesOfUser(u)' = IF u = userOf(r) THEN LeasesOfUser(u) \ {Lease(r, p)}
                                     ELSE LeasesOfUser(u)
        /\ \A w : LeasesOfWorkspace(w)' =
                    IF w = workspaceOf(r) THEN LeasesOfWorkspace(w) \ {Lease(r, p)}
                    ELSE LeasesOfWorkspace(w)
    BY <2>1, <2>2 DEF LeasesOfUser, LeasesOfWorkspace
  <2>8. /\ \A u \in User : Cardinality(LeasesOfUser(u)') =
             Cardinality(LeasesOfUser(u)) - (IF u = userOf(r) THEN 1 ELSE 0)
        /\ \A w \in Workspace : Cardinality(LeasesOfWorkspace(w)') =
             Cardinality(LeasesOfWorkspace(w)) - (IF w = workspaceOf(r) THEN 1 ELSE 0)
    <3>1. \A S : IsFiniteSet(S) /\ Lease(r, p) \in S
                   => Cardinality(S \ {Lease(r, p)}) = Cardinality(S) - 1
      BY FS_RemoveElement
    <3>2. /\ Lease(r, p) \in LeasesOfUser(userOf(r))
          /\ Lease(r, p) \in LeasesOfWorkspace(workspaceOf(r))
      BY <1>2, <2>2 DEF LeasesOfUser, LeasesOfWorkspace
    <3>3. \A u \in User : Cardinality(LeasesOfUser(u)') =
            Cardinality(LeasesOfUser(u)) - (IF u = userOf(r) THEN 1 ELSE 0)
      BY <2>7, <3>1, <3>2, LeasesFinite
    <3>4. \A w \in Workspace : Cardinality(LeasesOfWorkspace(w)') =
            Cardinality(LeasesOfWorkspace(w)) - (IF w = workspaceOf(r) THEN 1 ELSE 0)
      BY <2>7, <3>1, <3>2, LeasesFinite
    <3>. QED  BY <3>3, <3>4
  <2>9. UserCeiling'
    <3>1. \A q \in Req : Admitted(q)' => \E l \in leases' : l.trace = q
      <4>1. \A q \in Req : Admitted(q)' => q # r /\ Admitted(q)
        BY <1>0 DEF Admitted, At, CounterTypeOK
      <4>. QED  BY <4>1, <2>1, <2>2 DEF UserCeiling
    <3>2. ASSUME NEW u \in User \ lapsed', NEW q \in PlanTier
          PROVE  Cardinality(LeasesOnPlan(u, q))' <= MaxUserConcurrency[q]
      <4>1. LeasesOnPlan(u, q)' \in SUBSET LeasesOnPlan(u, q)
        BY <2>7 DEF LeasesOnPlan
      <4>2. /\ Cardinality(LeasesOnPlan(u, q)') <= Cardinality(LeasesOnPlan(u, q))
            /\ Cardinality(LeasesOnPlan(u, q)') \in Nat
        BY <4>1, LeasesFinite, FS_Subset, FS_CardinalityType
      <4>3. Cardinality(LeasesOnPlan(u, q)) <= MaxUserConcurrency[q]
        BY DEF UserCeiling
      <4>. QED  BY <4>2, <4>3, LeasesFinite, PolicyTypes
    <3>. QED  BY <3>1, <3>2 DEF UserCeiling
  <2>10. CountersMatchLeases'
    <3>0. \A m \in Nat : Minus(m, 1) = IF m >= 1 THEN m - 1 ELSE 0
      BY DEF Minus
    <3>1. ASSUME NEW u \in User
          PROVE  /\ users'[u] <= Cardinality(LeasesOfUser(u))'
                 /\ u \notin lapsed' => users'[u] = Cardinality(LeasesOfUser(u))'
      <4>1. /\ users'[u] = IF u = userOf(r) THEN Minus(users[u], 1) ELSE users[u]
            /\ users[u] \in Nat
        BY <2>1 DEF CounterTypeOK
      <4>2. u = userOf(r) => Cardinality(LeasesOfUser(u)) >= 1
        <5>1. LeasesOfUser(userOf(r)) # {}
          BY <1>2, <2>2 DEF LeasesOfUser
        <5>. QED  BY <5>1, LeasesFinite, FS_EmptySet
      <4>. QED  BY <4>1, <4>2, <3>0, <2>8, LeasesFinite DEF CountersMatchLeases
    <3>2. ASSUME NEW w \in Workspace
          PROVE  /\ workspaces'[w] <= Cardinality(LeasesOfWorkspace(w))'
                 /\ w \notin lapsed' => workspaces'[w] = Cardinality(LeasesOfWorkspace(w))'
      <4>1. /\ workspaces'[w] =
                 IF w = workspaceOf(r) THEN Minus(workspaces[w], 1) ELSE workspaces[w]
            /\ workspaces[w] \in Nat
        BY <2>1 DEF CounterTypeOK
      <4>2. w = workspaceOf(r) => Cardinality(LeasesOfWorkspace(w)) >= 1
        <5>1. LeasesOfWorkspace(workspaceOf(r)) # {}
          BY <1>2, <2>2 DEF LeasesOfWorkspace
        <5>. QED  BY <5>1, LeasesFinite, FS_EmptySet
      <4>. QED  BY <4>1, <4>2, <3>0, <2>8, LeasesFinite DEF CountersMatchLeases
    <3>. QED  BY <3>1, <3>2 DEF CountersMatchLeases
  <2>. QED  BY <2>4, <2>5, <2>6, <2>9, <2>10
<1>. QED  BY <1>1, <1>2

-----------------------------------------------------------------------------
(* Each action is a step of one of the four kinds *)

LEMMA StepKeeps == GateInv /\ [GateNext]_gateVars => GateInv'
<1>. SUFFICES ASSUME GateInv, [GateNext]_gateVars PROVE GateInv'
  OBVIOUS
<1>0. pc \in [Req -> PCLabel]
  BY DEF GateInv, CounterTypeOK
<1>1. ASSUME NEW r \in Req, Bypass(r)
      PROVE  GateInv'
  BY <1>0, <1>1, MoveKeeps DEF Bypass, Goto, At, PCLabel, Holding
<1>2. ASSUME NEW r \in Req, TryAcquire(r)
      PROVE  GateInv'
  <2>1. pc[r] \in {"idle", "granted"}
    BY <1>2 DEF TryAcquire, At
  <2>2. CASE Admits(r)
    BY <1>2, <2>1, <2>2, TakeKeeps DEF TryAcquire
  <2>3. CASE ~Admits(r)
    BY <1>0, <1>2, <2>3, MoveKeeps DEF TryAcquire, Goto, At, PCLabel, Holding
  <2>. QED  BY <2>2, <2>3
<1>3. ASSUME NEW r \in Req, Enqueue(r)
      PROVE  GateInv'
  BY <1>0, <1>3, MoveKeeps DEF Enqueue, Goto, At, PCLabel, Holding
<1>4. ASSUME NEW r \in Req, Wait(r)
      PROVE  GateInv'
  BY <1>0, <1>4, MoveKeeps DEF Wait, Goto, At, PCLabel, Holding
<1>5. ASSUME NEW r \in Req, TimeOut(r)
      PROVE  GateInv'
  BY <1>0, <1>5, MoveKeeps DEF TimeOut, Goto, At, PCLabel, Holding
<1>6. ASSUME NEW r \in Req, LeaveQueue(r)
      PROVE  GateInv'
  BY <1>0, <1>6, MoveKeeps DEF LeaveQueue, Goto, At, PCLabel, Holding
<1>7. ASSUME NEW r \in Req, AcquireAgain(r)
      PROVE  GateInv'
  <2>1. pc[r] \in {"idle", "granted"}
    BY <1>7 DEF AcquireAgain, At
  <2>2. CASE Admits(r)
    BY <1>7, <2>1, <2>2, TakeKeeps DEF AcquireAgain
  <2>3. CASE ~Admits(r)
    BY <1>0, <1>7, <2>3, MoveKeeps DEF AcquireAgain, Goto, At, PCLabel, Holding
  <2>. QED  BY <2>2, <2>3
<1>8. ASSUME NEW r \in Req, Release(r)
      PROVE  GateInv'
  BY <1>8, DropKeeps DEF Release, At
<1>9. ASSUME NEW r \in Req, Pop(r)
      PROVE  GateInv'
  <2>1. \E l \in {"done", "signalling"} : pc' = [pc EXCEPT ![r] = l]
    BY <1>9 DEF Pop, Goto
  <2>2. pc[r] = "released" /\ UNCHANGED <<counters, lapsed>>
    BY <1>9 DEF Pop, At
  <2>. QED  BY <1>0, <2>1, <2>2, MoveKeeps DEF PCLabel, Holding
<1>10. ASSUME NEW r \in Req, Signal(r)
       PROVE  GateInv'
  <2>1. pc[r] = "signalling" /\ UNCHANGED <<counters, lapsed>>
    BY <1>10 DEF Signal, At
  <2>2. CASE At(popped[r], {"waiting"})
    <3>1. pc' = [pc EXCEPT ![r] = "done", ![popped[r]] = "granted"]
      BY <1>10, <2>2 DEF Signal
    <3>. QED  BY <1>0, <2>1, <2>2, <3>1, MoveKeeps DEF At, PCLabel, Holding
  <2>3. CASE ~At(popped[r], {"waiting"})
    BY <1>0, <1>10, <2>1, <2>3, MoveKeeps DEF Signal, Goto, PCLabel, Holding
  <2>. QED  BY <2>2, <2>3
<1>11. ASSUME NEW r \in Req, Vanish(r)
       PROVE  GateInv'
  BY <1>0, <1>11, MoveKeeps DEF Vanish, Goto, At, PCLabel, Holding
<1>12. ASSUME NEW r \in Req, GrantLapses(r)
       PROVE  GateInv'
  BY <1>0, <1>12, MoveKeeps DEF GrantLapses
<1>13. CASE Lapse
  BY <1>13, LapseKeeps
<1>14. CASE UNCHANGED gateVars
  BY <1>0, <1>14, MoveKeeps DEF gateVars
<1>. QED
  BY <1>1, <1>2, <1>3, <1>4, <1>5, <1>6, <1>7, <1>8, <1>9, <1>10, <1>11, <1>12,
     <1>13, <1>14 DEF GateNext, Progress, GateIdle

(* GateInv is an invariant of the gate, whatever expires.                  *)
THEOREM LeasesSound == GateSpec => []GateInv
  BY InitHolds, StepKeeps, PTL DEF GateSpec

-----------------------------------------------------------------------------
(* What follows from it *)

LEMMA InvExcludes == GateInv => ThreadExclusive
<1>. SUFFICES ASSUME GateInv, NEW q \in Req, NEW r \in Req,
                     Admitted(q), Admitted(r),
                     threadOf(q) = threadOf(r), threadOf(r) \notin lapsed
              PROVE  q = r
  BY DEF ThreadExclusive
<1>1. PICK l \in leases : l.trace = q
  BY DEF GateInv, UserCeiling
<1>2. PICK m \in leases : m.trace = r
  BY DEF GateInv, UserCeiling
<1>. QED  BY <1>1, <1>2 DEF GateInv, LeasesHeld

(* No two admitted turns run on one thread whose key has not expired: the  *)
(* DEL of a release never removes the key of another trace.                *)
THEOREM ThreadsAreExclusive == GateSpec => []ThreadExclusive
  BY LeasesSound, InvExcludes, PTL

(* No user whose counter has not expired has more leases on a plan than    *)
(* the plan allows, and every admitted turn has a lease.                   *)
THEOREM CeilingsHold == GateSpec => []UserCeiling
<1>1. GateInv => UserCeiling
  BY DEF GateInv
<1>. QED  BY <1>1, LeasesSound, PTL

(* The counters of users and workspaces never exceed their leases, and are *)
(* exact until they expire.                                                *)
THEOREM CountersAreExact == GateSpec => []CountersMatchLeases
<1>1. GateInv => CountersMatchLeases
  BY DEF GateInv
<1>. QED  BY <1>1, LeasesSound, PTL
-----------------------------------------------------------------------------
(* Queues: an insertion, a removal and the pop of the oldest entry         *)

(* Nobody is in s twice.                                                   *)
Once(s) == \A m, n \in DOMAIN s : m # n => s[m] # s[n]

(* A set of numbers has a least one, since < is well-founded on Nat.       *)
LEMMA LeastNumber ==
  ASSUME NEW T \in SUBSET Nat, T # {}
  PROVE  \E m \in T : \A n \in T : m <= n
<1>. DEFINE R == {p \in Nat \X Nat : p[1] < p[2]}
<1>1. IsWellFoundedOn(R, Nat)
  BY NatLessThanWellFounded DEF OpToRel
<1>2. \A n, m \in Nat : n < m => <<n, m>> \in R
  OBVIOUS
<1>. HIDE DEF R
<1>3. \E m \in T : \A n \in T : <<n, m>> \notin R
  BY <1>1, WFMin
<1>4. \A n, m \in T : <<n, m>> \notin R => m <= n
  BY <1>2
<1>. QED  BY <1>3, <1>4

LEMMA InsertOnce ==
  ASSUME NEW S, NEW s \in Seq(S), NEW n \in 1..Len(s) + 1, NEW e \in S,
         NEW t, t = InsertAt(s, n, e)
  PROVE  /\ t \in Seq(S)
         /\ \A k \in DOMAIN t : t[k] = e \/ \E j \in DOMAIN s : t[k] = s[j]
         /\ Once(s) /\ (\A j \in DOMAIN s : s[j] # e) => Once(t)
<1>. DEFINE u == SubSeq(s, 1, n - 1)
            v == SubSeq(s, n, Len(s))
<1>0. Len(s) \in Nat /\ DOMAIN s = 1..Len(s) /\ (\A j \in 1..Len(s) : s[j] \in S)
  BY LenProperties, ElementOfSeq
<1>1. /\ u \in Seq(S) /\ Len(u) = n - 1
      /\ \A k \in 1..n - 1 : u[k] = s[k]
  BY <1>0, SubSeqProperties
<1>2. /\ v \in Seq(S) /\ Len(v) = Len(s) - n + 1
      /\ \A k \in 1..Len(s) - n + 1 : v[k] = s[n + k - 1]
  BY <1>0, SubSeqProperties
<1>. HIDE DEF u, v
<1>3. /\ <<e>> \in Seq(S) /\ Len(<<e>>) = 1 /\ <<e>>[1] = e
  OBVIOUS
<1>4. /\ u \o <<e>> \in Seq(S) /\ Len(u \o <<e>>) = n
      /\ \A k \in 1..n : (u \o <<e>>)[k] = IF k < n THEN s[k] ELSE e
  <2>1. /\ u \o <<e>> \in Seq(S) /\ Len(u \o <<e>>) = n - 1 + 1
        /\ \A k \in 1..n - 1 + 1 : (u \o <<e>>)[k] = IF k <= n - 1 THEN u[k] ELSE <<e>>[k - (n - 1)]
    BY <1>1, <1>3, ConcatProperties
  <2>. QED  BY <2>1, <1>1, <1>3
<1>5. t = (u \o <<e>>) \o v
  BY DEF InsertAt, u, v
<1>6. /\ t \in Seq(S) /\ Len(t) = Len(s) + 1
      /\ \A k \in 1..Len(s) + 1 :
           t[k] = IF k < n THEN s[k] ELSE IF k = n THEN e ELSE s[k - 1]
  <2>. DEFINE h == u \o <<e>>
  <2>0. h \in Seq(S) /\ Len(h) = n
    BY <1>4
  <2>. HIDE DEF h
  <2>1. /\ h \o v \in Seq(S) /\ Len(h \o v) = n + (Len(s) - n + 1)
        /\ \A k \in 1..n + (Len(s) - n + 1) :
             (h \o v)[k] = IF k <= n THEN h[k] ELSE v[k - n]
    <3>1. /\ h \o v \in Seq(S) /\ Len(h \o v) = Len(h) + Len(v)
          /\ \A k \in 1..Len(h) + Len(v) :
               (h \o v)[k] = IF k <= Len(h) THEN h[k] ELSE v[k - Len(h)]
      BY <2>0, <1>2, ConcatProperties
    <3>. QED  BY <2>0, <1>2, <3>1
  <2>2. \A k \in 1..n : h[k] = IF k < n THEN s[k] ELSE e
    BY <1>4 DEF h
  <2>3. t = h \o v
    BY <1>5 DEF h
  <2>. HIDE DEF h
  <2>4. n + (Len(s) - n + 1) = Len(s) + 1
    BY <1>0
  <2>5. ASSUME NEW k \in 1..Len(s) + 1
        PROVE  t[k] = IF k < n THEN s[k] ELSE IF k = n THEN e ELSE s[k - 1]
    <3>1. CASE k <= n
      BY <3>1, <1>0, <2>1, <2>2, <2>3, <2>4
    <3>2. CASE k > n
      <4>1. t[k] = v[k - n] /\ k - n \in 1..Len(s) - n + 1
        BY <3>2, <1>0, <2>1, <2>3, <2>4
      <4>2. v[k - n] = s[n + (k - n) - 1] /\ n + (k - n) - 1 = k - 1
        BY <4>1, <1>0, <1>2
      <4>. QED  BY <3>2, <4>1, <4>2
    <3>. QED  BY <3>1, <3>2, <1>0
  <2>. QED  BY <2>1, <2>3, <2>4, <2>5
<1>7. DOMAIN t = 1..Len(s) + 1
  BY <1>6, LenProperties
<1>8. ASSUME NEW k \in DOMAIN t
      PROVE  t[k] = e \/ \E j \in DOMAIN s : t[k] = s[j]
  <2>1. CASE k < n
    BY <2>1, <1>0, <1>6, <1>7
  <2>2. CASE k >= n
    BY <2>2, <1>0, <1>6, <1>7
  <2>. QED  BY <2>1, <2>2, <1>7
<1>9. ASSUME Once(s), \A j \in DOMAIN s : s[j] # e
      PROVE  Once(t)
  <2>. SUFFICES ASSUME NEW k \in 1..Len(s) + 1, NEW m \in 1..Len(s) + 1, k < m
                PROVE  t[k] # t[m]
    <3>1. \A k, m \in 1..Len(s) + 1 : k # m => k < m \/ m < k
      BY <1>0
    <3>. QED  BY <1>7, <3>1 DEF Once
  <2>1. \A i, j \in 1..Len(s) : i # j => s[i] # s[j]
    BY <1>0, <1>9 DEF Once
  <2>2. CASE m < n
    BY <2>1, <2>2, <1>0, <1>6
  <2>3. CASE m = n
    <3>1. t[m] = e /\ t[k] = s[k] /\ k \in 1..Len(s)
      BY <2>3, <1>0, <1>6
    <3>. QED  BY <3>1, <1>0, <1>9
  <2>4. CASE m > n
    <3>1. t[m] = s[m - 1] /\ m - 1 \in 1..Len(s)
      BY <2>4, <1>0, <1>6
    <3>2. CASE k = n
      BY <3>1, <3>2, <1>0, <1>6, <1>9
    <3>3. CASE k < n
      <4>1. t[k] = s[k] /\ k \in 1..Len(s) /\ k # m - 1
        BY <2>4, <3>3, <1>0, <1>6
      <4>. QED  BY <3>1, <4>1, <2>1
    <3>4. CASE k > n
      <4>1. t[k] = s[k - 1] /\ k - 1 \in 1..Len(s) /\ k - 1 # m - 1
        BY <2>4, <3>4, <1>0, <1>6
      <4>. QED  BY <3>1, <4>1, <2>1
    <3>. QED  BY <3>2, <3>3, <3>4
  <2>. QED  BY <2>2, <2>3, <2>4
<1>. QED  BY <1>6, <1>8, <1>9

LEMMA RemoveAtOnce ==
  ASSUME NEW S, NEW s \in Seq(S), NEW n \in 1..Len(s), NEW t, t = RemoveAt(s, n)
  PROVE  /\ t \in Seq(S)
         /\ \A k \in DOMAIN t : \E j \in DOMAIN s \ {n} : t[k] = s[j]
         /\ Once(s) => Once(t)
<1>. DEFINE u == SubSeq(s, 1, n - 1)
            v == SubSeq(s, n + 1, Len(s))
<1>0. Len(s) \in Nat /\ DOMAIN s = 1..Len(s) /\ (\A j \in 1..Len(s) : s[j] \in S)
  BY LenProperties, ElementOfSeq
<1>1. /\ u \in Seq(S) /\ Len(u) = n - 1
      /\ \A k \in 1..n - 1 : u[k] = s[k]
  BY <1>0, SubSeqProperties
<1>2. /\ v \in Seq(S) /\ Len(v) = Len(s) - n
      /\ \A k \in 1..Len(s) - n : v[k] = s[n + k]
  <2>1. /\ v \in Seq(S)
        /\ Len(v) = IF n + 1 <= Len(s) THEN Len(s) - (n + 1) + 1 ELSE 0
        /\ \A k \in 1..Len(s) - (n + 1) + 1 : v[k] = s[(n + 1) + k - 1]
    <3>1. n + 1 \in Int /\ Len(s) \in Int /\ (\A j \in n + 1..Len(s) : s[j] \in S)
      BY <1>0
    <3>. QED  BY <3>1, SubSeqProperties
  <2>2. \A k \in 1..Len(s) - n : v[k] = s[n + k]
    <3>1. \A k \in 1..Len(s) - n : (n + 1) + k - 1 = n + k /\ k \in 1..Len(s) - (n + 1) + 1
      BY <1>0
    <3>. QED  BY <2>1, <3>1
  <2>3. Len(v) = Len(s) - n
    <3>1. \A l \in Nat : \A m \in 1..l :
            (IF m + 1 <= l THEN l - (m + 1) + 1 ELSE 0) = l - m
      OBVIOUS
    <3>. QED  BY <1>0, <2>1, <3>1, Zenon
  <2>. QED  BY <2>1, <2>2, <2>3
<1>. HIDE DEF u, v
<1>3. t = u \o v
  BY DEF RemoveAt, u, v
<1>4. /\ t \in Seq(S) /\ Len(t) = Len(s) - 1
      /\ \A k \in 1..Len(s) - 1 : t[k] = IF k <= n - 1 THEN u[k] ELSE v[k - (n - 1)]
  <2>1. /\ t \in Seq(S) /\ Len(t) = (n - 1) + (Len(s) - n)
        /\ \A k \in 1..(n - 1) + (Len(s) - n) : t[k] = IF k <= n - 1 THEN u[k] ELSE v[k - (n - 1)]
    <3>1. /\ t \in Seq(S) /\ Len(t) = Len(u) + Len(v)
          /\ \A k \in 1..Len(u) + Len(v) :
               t[k] = IF k <= Len(u) THEN u[k] ELSE v[k - Len(u)]
      BY <1>1, <1>2, <1>3, ConcatProperties
    <3>. QED  BY <1>1, <1>2, <3>1
  <2>2. (n - 1) + (Len(s) - n) = Len(s) - 1
    BY <1>0
  <2>. QED  BY <2>1, <2>2
<1>5. \A k \in 1..Len(s) - 1 : t[k] = IF k < n THEN s[k] ELSE s[k + 1]
  <2>. SUFFICES ASSUME NEW k \in 1..Len(s) - 1
                PROVE  t[k] = IF k < n THEN s[k] ELSE s[k + 1]
    OBVIOUS
  <2>1. CASE k < n
    BY <2>1, <1>0, <1>1, <1>4
  <2>2. CASE k >= n
    <3>1. t[k] = v[k - (n - 1)] /\ k - (n - 1) \in 1..Len(s) - n
      BY <2>2, <1>0, <1>4
    <3>2. v[k - (n - 1)] = s[n + (k - (n - 1))] /\ n + (k - (n - 1)) = k + 1
      BY <3>1, <1>0, <1>2
    <3>. QED  BY <2>2, <3>1, <3>2
  <2>. QED  BY <2>1, <2>2
<1>6. DOMAIN t = 1..Len(s) - 1
  BY <1>4, LenProperties
<1>7. ASSUME NEW k \in DOMAIN t
      PROVE  \E j \in DOMAIN s \ {n} : t[k] = s[j]
  <2>1. CASE k < n
    BY <2>1, <1>0, <1>5, <1>6
  <2>2. CASE k >= n
    <3>1. k + 1 \in DOMAIN s \ {n} /\ t[k] = s[k + 1]
      BY <2>2, <1>0, <1>5, <1>6
    <3>. QED  BY <3>1
  <2>. QED  BY <2>1, <2>2, <1>6
<1>8. ASSUME Once(s)
      PROVE  Once(t)
  <2>. SUFFICES ASSUME NEW k \in 1..Len(s) - 1, NEW m \in 1..Len(s) - 1, k # m
                PROVE  t[k] # t[m]
    BY <1>6 DEF Once
  <2>. DEFINE at(x) == IF x < n THEN x ELSE x + 1
  <2>1. /\ t[k] = s[at(k)] /\ t[m] = s[at(m)]
        /\ at(k) \in DOMAIN s /\ at(m) \in DOMAIN s /\ at(k) # at(m)
    BY <1>0, <1>5
  <2>. QED  BY <2>1, <1>8 DEF Once
<1>. QED  BY <1>4, <1>7, <1>8

(* ZREM: what was in the queue once is in it no more.                      *)
LEMMA RemoveOnce ==
  ASSUME NEW S, NEW s \in Seq(S), NEW e, NEW t, t = RemoveFirst(s, e)
  PROVE  /\ t \in Seq(S)
         /\ \A k \in DOMAIN t : \E j \in DOMAIN s : t[k] = s[j]
         /\ Once(s) => Once(t) /\ \A k \in DOMAIN t : t[k] # e
<1>0. Len(s) \in Nat /\ DOMAIN s = 1..Len(s)
  BY LenProperties
<1>1. CASE \E i \in 1..Len(s) : s[i] = e
  <2>. DEFINE I == {i \in 1..Len(s) : s[i] = e}
              n == Min(I)
  <2>1. n \in I
    <3>1. I \in SUBSET Nat /\ I # {}
      BY <1>1
    <3>. HIDE DEF I
    <3>2. \E m \in I : \A i \in I : m <= i
      BY <3>1, LeastNumber
    <3>. QED  BY <3>2 DEF Min
  <2>2. t = RemoveAt(s, n)
    <3>1. SelectInSeq(s, LAMBDA x : x = e) = n
      BY <1>1 DEF SelectInSeq
    <3>. QED  BY <1>1, <3>1 DEF RemoveFirst
  <2>. HIDE DEF n
  <2>3. n \in 1..Len(s) /\ s[n] = e
    BY <2>1
  <2>4. /\ t \in Seq(S)
        /\ \A k \in DOMAIN t : \E j \in DOMAIN s \ {n} : t[k] = s[j]
        /\ Once(s) => Once(t)
    BY <2>2, <2>3, RemoveAtOnce
  <2>. QED  BY <2>3, <2>4, <1>0 DEF Once
<1>2. CASE ~\E i \in 1..Len(s) : s[i] = e
  <2>1. t = s
    BY <1>2 DEF RemoveFirst
  <2>. QED  BY <1>0, <1>2, <2>1
<1>. QED  BY <1>1, <1>2

(* ZPOPMIN.                                                                *)
LEMMA TailOnce ==
  ASSUME NEW S, NEW s \in Seq(S), s # <<>>, NEW t, t = Tail(s), Once(s)
  PROVE  /\ t \in Seq(S) /\ Once(t)
         /\ 1 \in DOMAIN s /\ Head(s) = s[1]
         /\ \A k \in DOMAIN t : t[k] # Head(s) /\ \E j \in DOMAIN s : t[k] = s[j]
<1>1. /\ t \in Seq(S) /\ Len(t) = Len(s) - 1
      /\ \A k \in 1..Len(s) - 1 : t[k] = s[k + 1]
  BY HeadTailProperties
<1>2. /\ DOMAIN t = 1..Len(s) - 1 /\ DOMAIN s = 1..Len(s)
      /\ Len(s) \in Nat \ {0}
  BY <1>1, LenProperties, EmptySeq
<1>3. Head(s) = s[1]
  OBVIOUS
<1>. QED  BY <1>1, <1>2, <1>3 DEF Once

-----------------------------------------------------------------------------
(* The queue, the grants and whom a release took from the queue            *)

Waiting == {"queued", "waiting", "timedout"}

LEMMA QueueParts ==
  ASSUME QueueInv
  PROVE  /\ pc \in [Req -> PCLabel] /\ grants \in SUBSET Req
         /\ queue \in [Workspace -> Seq(Req)]
         /\ popped \in [Req -> Req \cup {None}]
         /\ \A w \in Workspace : \A n \in DOMAIN queue[w] :
              /\ queue[w][n] \in Req /\ workspaceOf(queue[w][n]) = w
              /\ pc[queue[w][n]] \in Waiting
              /\ queue[w][n] \notin grants
         /\ \A w \in Workspace : Once(queue[w])
         /\ \A r \in Req :
              /\ pc[r] \in {"idle", "refused"} => r \notin grants
              /\ pc[r] = "signalling" \/ popped[r] # None => Popped(r)
<1>1. \A w \in Workspace : \A n \in DOMAIN queue[w] : queue[w][n] \in Req
  <2>. SUFFICES ASSUME NEW w \in Workspace, NEW n \in DOMAIN queue[w]
                PROVE  queue[w][n] \in Req
    OBVIOUS
  <2>1. queue[w] \in Seq(Req)
    BY DEF QueueInv, GateTypeOK
  <2>. QED  BY <2>1, LenProperties, ElementOfSeq
<1>. QED
  BY <1>1 DEF QueueInv, GateTypeOK, CounterTypeOK, QueueHoldsWaiters, Once, At, Waiting

LEMMA QueueWhole ==
  ASSUME CounterTypeOK', grants' \in SUBSET Req, queue' \in [Workspace -> Seq(Req)],
         popped' \in [Req -> Req \cup {None}],
         \A w \in Workspace : \A n \in DOMAIN queue'[w] :
           /\ workspaceOf(queue'[w][n]) = w
           /\ pc'[queue'[w][n]] \in Waiting
           /\ queue'[w][n] \notin grants',
         \A w \in Workspace : Once(queue'[w]),
         \A r \in Req :
           /\ pc'[r] \in {"idle", "refused"} => r \notin grants'
           /\ pc'[r] = "signalling" \/ popped'[r] # None => Popped(r)'
  PROVE  QueueInv'
  BY DEF QueueInv, GateTypeOK, QueueHoldsWaiters, Once, At, Waiting

(* A request moves on and touches neither queue nor grants: it goes on     *)
(* waiting, or it never was.                                               *)
LEMMA PassKeeps ==
  ASSUME QueueInv, CounterTypeOK', UNCHANGED <<queue, popped>>,
         grants' \in SUBSET grants,
         \A q \in Req :
           /\ pc[q] \in Waiting => pc'[q] \in Waiting
           /\ pc[q] = "denied" => pc'[q] = "denied"
           /\ pc'[q] \in {"idle", "refused"} => pc[q] \in {"idle", "refused"}
           /\ pc'[q] = "signalling" <=> pc[q] = "signalling"
  PROVE  QueueInv'
<1>1. \A r \in Req :
        /\ pc'[r] \in {"idle", "refused"} => r \notin grants'
        /\ pc'[r] = "signalling" \/ popped'[r] # None => Popped(r)'
  <2>. SUFFICES ASSUME NEW r \in Req
                PROVE  /\ pc'[r] \in {"idle", "refused"} => r \notin grants'
                       /\ pc'[r] = "signalling" \/ popped'[r] # None => Popped(r)'
    OBVIOUS
  <2>1. pc'[r] \in {"idle", "refused"} => r \notin grants'
    BY QueueParts
  <2>2. ASSUME pc'[r] = "signalling" \/ popped'[r] # None
        PROVE  Popped(r)'
    <3>1. Popped(r)
      BY <2>2, QueueParts
    <3>. QED  BY <3>1 DEF Popped, At, Waiting
  <2>. QED  BY <2>1, <2>2
<1>2. \A w \in Workspace : \A n \in DOMAIN queue'[w] :
        /\ workspaceOf(queue'[w][n]) = w
        /\ pc'[queue'[w][n]] \in Waiting
        /\ queue'[w][n] \notin grants'
  BY QueueParts
<1>. QED
  BY <1>1, <1>2, QueueParts, QueueWhole

LEMMA WaitKeeps ==
  ASSUME QueueInv, CounterTypeOK', NEW r \in Req, Wait(r)
  PROVE  QueueInv'
<1>0. /\ pc[r] = "queued" /\ UNCHANGED <<queue, popped>> /\ grants' = grants \ {r}
      /\ pc' = [pc EXCEPT ![r] = IF r \in grants THEN "granted" ELSE "waiting"]
      /\ pc \in [Req -> PCLabel]
  BY QueueParts DEF Wait, At, Goto
<1>1. CASE r \notin grants
  <2>1. \A q \in Req :
           /\ pc[q] \in Waiting => pc'[q] \in Waiting
           /\ pc[q] = "denied" => pc'[q] = "denied"
           /\ pc'[q] \in {"idle", "refused"} => pc[q] \in {"idle", "refused"}
           /\ pc'[q] = "signalling" <=> pc[q] = "signalling"
    BY <1>0, <1>1 DEF Waiting
  <2>. QED  BY <1>0, <2>1, PassKeeps
<1>2. CASE r \in grants
  <2>1. /\ pc'[r] = "granted"
        /\ \A q \in Req : q # r => pc'[q] = pc[q]
    BY <1>0, <1>2
  <2>2. \A q \in Req :
          /\ pc'[q] \in {"idle", "refused"} => q \notin grants'
          /\ pc'[q] = "signalling" \/ popped'[q] # None => Popped(q)'
    <3>. SUFFICES ASSUME NEW q \in Req
                  PROVE  /\ pc'[q] \in {"idle", "refused"} => q \notin grants'
                         /\ pc'[q] = "signalling" \/ popped'[q] # None => Popped(q)'
      OBVIOUS
    <3>1. pc'[q] \in {"idle", "refused"} => q \notin grants'
      BY <1>0, <2>1, QueueParts
    <3>2. ASSUME pc'[q] = "signalling" \/ popped'[q] # None
          PROVE  Popped(q)'
      <4>1. Popped(q)
        BY <3>2, <1>0, <2>1, QueueParts
      <4>2. popped[q] # r /\ popped[q] \in Req /\ pc'[q] = pc[q]
        BY <4>1, <1>0, <1>2, <2>1 DEF Popped
      <4>. QED  BY <4>1, <4>2, <1>0, <2>1 DEF Popped, At
    <3>. QED  BY <3>1, <3>2
  <2>3. \A w \in Workspace : \A n \in DOMAIN queue'[w] :
          /\ workspaceOf(queue'[w][n]) = w
          /\ pc'[queue'[w][n]] \in Waiting
          /\ queue'[w][n] \notin grants'
    <3>1. \A w \in Workspace : \A n \in DOMAIN queue[w] : queue[w][n] # r
      BY <1>2, QueueParts
    <3>. QED  BY <3>1, <1>0, <2>1, QueueParts
  <2>. QED  BY <1>0, <2>2, <2>3, QueueParts, QueueWhole
<1>. QED  BY <1>1, <1>2

LEMMA EnqueueKeeps ==
  ASSUME QueueInv, CounterTypeOK', NEW r \in Req, Enqueue(r)
  PROVE  QueueInv'
<1>. DEFINE u == workspaceOf(r)
<1>0. /\ pc[r] = "refused" /\ UNCHANGED <<grants, popped>>
      /\ pc' = [pc EXCEPT ![r] = "queued"]
      /\ pc \in [Req -> PCLabel] /\ r \notin grants
      /\ u \in Workspace /\ queue[u] \in Seq(Req)
  BY QueueParts, GateAssumption DEF Enqueue, At, Goto, workspaceOf, GateTicket
<1>1. PICK k \in 1..Len(queue[u]) + 1 :
        queue' = [queue EXCEPT ![u] = InsertAt(queue[u], k, r)]
  BY DEF Enqueue
<1>. HIDE DEF u
<1>2. /\ queue'[u] = InsertAt(queue[u], k, r)
      /\ \A w \in Workspace : w # u => queue'[w] = queue[w]
      /\ DOMAIN queue' = Workspace
      /\ queue' = [w \in Workspace |-> IF w = u THEN queue'[u] ELSE queue[w]]
  BY <1>0, <1>1, QueueParts
<1>3. \A w \in Workspace : \A n \in DOMAIN queue[w] : queue[w][n] # r
  BY <1>0, QueueParts DEF Waiting
<1>4. /\ queue'[u] \in Seq(Req)
      /\ \A n \in DOMAIN queue'[u] :
           queue'[u][n] = r \/ \E j \in DOMAIN queue[u] : queue'[u][n] = queue[u][j]
      /\ Once(queue'[u])
  <2>1. Once(queue[u]) /\ \A j \in DOMAIN queue[u] : queue[u][j] # r
    BY <1>0, <1>3, QueueParts
  <2>. QED  BY <1>0, <1>2, <2>1, InsertOnce
<1>5. queue' \in [Workspace -> Seq(Req)]
  BY <1>2, <1>4, QueueParts
<1>6. \A w \in Workspace : \A n \in DOMAIN queue'[w] :
        \/ w = u /\ queue'[w][n] = r
        \/ \E j \in DOMAIN queue[w] : queue'[w][n] = queue[w][j]
  BY <1>2, <1>4
<1>7. \A w \in Workspace : \A n \in DOMAIN queue'[w] :
        /\ workspaceOf(queue'[w][n]) = w
        /\ pc'[queue'[w][n]] \in Waiting
        /\ queue'[w][n] \notin grants'
  <2>. SUFFICES ASSUME NEW w \in Workspace, NEW n \in DOMAIN queue'[w]
                PROVE  /\ workspaceOf(queue'[w][n]) = w
                       /\ pc'[queue'[w][n]] \in Waiting
                       /\ queue'[w][n] \notin grants'
    OBVIOUS
  <2>1. CASE w = u /\ queue'[w][n] = r
    BY <2>1, <1>0 DEF Waiting, u
  <2>2. ASSUME NEW j \in DOMAIN queue[w], queue'[w][n] = queue[w][j]
        PROVE  /\ workspaceOf(queue'[w][n]) = w
               /\ pc'[queue'[w][n]] \in Waiting
               /\ queue'[w][n] \notin grants'
    BY <2>2, <1>0, <1>3, QueueParts
  <2>. QED  BY <2>1, <2>2, <1>6
<1>8. \A w \in Workspace : Once(queue'[w])
  BY <1>2, <1>4, QueueParts
<1>9. \A q \in Req :
        /\ pc'[q] \in {"idle", "refused"} => q \notin grants'
        /\ pc'[q] = "signalling" \/ popped'[q] # None => Popped(q)'
  <2>. SUFFICES ASSUME NEW q \in Req
                PROVE  /\ pc'[q] \in {"idle", "refused"} => q \notin grants'
                       /\ pc'[q] = "signalling" \/ popped'[q] # None => Popped(q)'
    OBVIOUS
  <2>1. pc'[q] \in {"idle", "refused"} => q \notin grants'
    BY <1>0, QueueParts
  <2>2. ASSUME pc'[q] = "signalling" \/ popped'[q] # None
        PROVE  Popped(q)'
    <3>1. Popped(q)
      BY <2>2, <1>0, QueueParts
    <3>2. popped[q] # r /\ popped[q] \in Req /\ pc'[q] = pc[q]
      BY <3>1, <1>0 DEF Popped, At
    <3>3. \A w \in Workspace : \A n \in DOMAIN queue'[w] : queue'[w][n] # popped[q]
      BY <1>6, <3>1, <3>2 DEF Popped
    <3>. QED  BY <3>1, <3>2, <3>3, <1>0 DEF Popped, At
  <2>. QED  BY <2>1, <2>2
<1>. QED  BY <1>0, <1>5, <1>7, <1>8, <1>9, QueueParts, QueueWhole

(* A queue that loses entries keeps the rest sound.                        *)
LEMMA ShrinkKeeps ==
  ASSUME QueueInv, queue' \in [Workspace -> Seq(Req)],
         \A w \in Workspace :
           /\ Once(queue'[w])
           /\ \A n \in DOMAIN queue'[w] :
                \E j \in DOMAIN queue[w] : queue'[w][n] = queue[w][j],
         NEW r \in Req, UNCHANGED grants,
         \A w \in Workspace : \A n \in DOMAIN queue'[w] : queue'[w][n] # r,
         \A q \in Req : q # r => pc'[q] = pc[q]
  PROVE  /\ \A w \in Workspace : \A n \in DOMAIN queue'[w] :
              /\ workspaceOf(queue'[w][n]) = w
              /\ pc'[queue'[w][n]] \in Waiting
              /\ queue'[w][n] \notin grants'
         /\ \A w \in Workspace : Once(queue'[w])
<1>. SUFFICES ASSUME NEW w \in Workspace, NEW n \in DOMAIN queue'[w]
              PROVE  /\ workspaceOf(queue'[w][n]) = w
                     /\ pc'[queue'[w][n]] \in Waiting
                     /\ queue'[w][n] \notin grants'
  OBVIOUS
<1>1. PICK j \in DOMAIN queue[w] : queue'[w][n] = queue[w][j]
  OBVIOUS
<1>. QED  BY <1>1, QueueParts

LEMMA LeaveQueueKeeps ==
  ASSUME QueueInv, CounterTypeOK', NEW r \in Req, LeaveQueue(r)
  PROVE  QueueInv'
<1>. DEFINE u == workspaceOf(r)
<1>0. /\ pc[r] = "timedout" /\ UNCHANGED <<grants, popped>>
      /\ pc' = [pc EXCEPT ![r] = "denied"]
      /\ pc \in [Req -> PCLabel]
      /\ u \in Workspace /\ queue[u] \in Seq(Req)
      /\ queue' = [queue EXCEPT ![u] = RemoveFirst(queue[u], r)]
  BY QueueParts, GateAssumption DEF LeaveQueue, At, Goto, workspaceOf, GateTicket
<1>1. \A w \in Workspace : w # u => \A n \in DOMAIN queue[w] : queue[w][n] # r
  BY QueueParts
<1>. HIDE DEF u
<1>2. /\ queue'[u] = RemoveFirst(queue[u], r)
      /\ \A w \in Workspace : w # u => queue'[w] = queue[w]
      /\ queue' = [w \in Workspace |-> IF w = u THEN queue'[u] ELSE queue[w]]
  BY <1>0, QueueParts
<1>3. /\ queue'[u] \in Seq(Req) /\ Once(queue'[u])
      /\ \A n \in DOMAIN queue'[u] : queue'[u][n] # r
      /\ \A n \in DOMAIN queue'[u] : \E j \in DOMAIN queue[u] : queue'[u][n] = queue[u][j]
  <2>1. Once(queue[u])
    BY <1>0, QueueParts
  <2>. QED  BY <1>0, <1>2, <2>1, RemoveOnce
<1>4. queue' \in [Workspace -> Seq(Req)]
  BY <1>2, <1>3, QueueParts
<1>5. \A w \in Workspace :
        /\ Once(queue'[w])
        /\ \A n \in DOMAIN queue'[w] :
             /\ queue'[w][n] # r
             /\ \E j \in DOMAIN queue[w] : queue'[w][n] = queue[w][j]
  BY <1>1, <1>2, <1>3, QueueParts
<1>6. \A q \in Req : q # r => pc'[q] = pc[q]
  BY <1>0
<1>7. \A q \in Req :
        /\ pc'[q] \in {"idle", "refused"} => q \notin grants'
        /\ pc'[q] = "signalling" \/ popped'[q] # None => Popped(q)'
  <2>. SUFFICES ASSUME NEW q \in Req
                PROVE  /\ pc'[q] \in {"idle", "refused"} => q \notin grants'
                       /\ pc'[q] = "signalling" \/ popped'[q] # None => Popped(q)'
    OBVIOUS
  <2>1. pc'[q] \in {"idle", "refused"} => q \notin grants'
    BY <1>0, QueueParts
  <2>2. ASSUME pc'[q] = "signalling" \/ popped'[q] # None
        PROVE  Popped(q)'
    <3>1. Popped(q)
      BY <2>2, <1>0, QueueParts
    <3>2. \A w \in Workspace : \A n \in DOMAIN queue'[w] : queue'[w][n] # popped[q]
      BY <1>5, <3>1 DEF Popped
    <3>3. q # r /\ popped[q] \in Req
      BY <3>1, <1>0 DEF Popped
    <3>. QED  BY <3>1, <3>2, <3>3, <1>0 DEF Popped, At
  <2>. QED  BY <2>1, <2>2
<1>. QED
  BY <1>0, <1>4, <1>5, <1>6, <1>7, ShrinkKeeps, QueueParts, QueueWhole

LEMMA PopKeeps ==
  ASSUME QueueInv, CounterTypeOK', NEW r \in Req, Pop(r)
  PROVE  QueueInv'
<1>. DEFINE u == workspaceOf(r)
            h == Head(queue[u])
<1>0. /\ pc[r] = "released" /\ UNCHANGED grants
      /\ pc \in [Req -> PCLabel] /\ popped \in [Req -> Req \cup {None}]
      /\ u \in Workspace /\ queue[u] \in Seq(Req)
  BY QueueParts, GateAssumption DEF Pop, At, Goto, workspaceOf, GateTicket
<1>1. CASE queue[u] = <<>>
  <2>1. pc' = [pc EXCEPT ![r] = "done"] /\ UNCHANGED <<queue, popped>>
    BY <1>1 DEF Pop, Goto
  <2>2. \A q \in Req :
           /\ pc[q] \in Waiting => pc'[q] \in Waiting
           /\ pc[q] = "denied" => pc'[q] = "denied"
           /\ pc'[q] \in {"idle", "refused"} => pc[q] \in {"idle", "refused"}
           /\ pc'[q] = "signalling" <=> pc[q] = "signalling"
    BY <1>0, <2>1 DEF Waiting
  <2>. QED  BY <1>0, <2>1, <2>2, PassKeeps
<1>2. CASE queue[u] # <<>>
  <2>1. /\ pc' = [pc EXCEPT ![r] = "signalling"]
        /\ queue' = [queue EXCEPT ![u] = Tail(queue[u])]
        /\ popped' = [popped EXCEPT ![r] = h]
    BY <1>2 DEF Pop, Goto
  <2>2. /\ h \in Req /\ pc[h] \in Waiting /\ h \notin grants /\ workspaceOf(h) = u
        /\ \E j \in DOMAIN queue[u] : queue[u][j] = h
        /\ Tail(queue[u]) \in Seq(Req) /\ Once(Tail(queue[u]))
        /\ \A n \in DOMAIN Tail(queue[u]) :
             /\ Tail(queue[u])[n] # h
             /\ \E j \in DOMAIN queue[u] : Tail(queue[u])[n] = queue[u][j]
    <3>1. Once(queue[u])
      BY <1>0, QueueParts
    <3>. DEFINE s == queue[u]
                t == Tail(s)
    <3>0. s \in Seq(Req) /\ s # <<>> /\ Once(s)
      BY <1>0, <1>2, <3>1
    <3>. HIDE DEF s
    <3>2. /\ t \in Seq(Req) /\ Once(t)
          /\ 1 \in DOMAIN s /\ Head(s) = s[1]
          /\ \A n \in DOMAIN t : t[n] # Head(s) /\ \E j \in DOMAIN s : t[n] = s[j]
      BY <3>0, TailOnce
    <3>. USE DEF s
    <3>. HIDE DEF u
    <3>. QED  BY <1>0, <3>2, QueueParts
  <2>. HIDE DEF u, h
  <2>3. /\ queue'[u] = Tail(queue[u])
        /\ \A w \in Workspace : w # u => queue'[w] = queue[w]
        /\ queue' = [w \in Workspace |-> IF w = u THEN queue'[u] ELSE queue[w]]
    BY <1>0, <2>1, QueueParts
  <2>4. queue' \in [Workspace -> Seq(Req)]
    BY <2>2, <2>3, QueueParts
  <2>5. \A w \in Workspace :
          /\ Once(queue'[w])
          /\ \A n \in DOMAIN queue'[w] :
               /\ queue'[w][n] # h
               /\ \E j \in DOMAIN queue[w] : queue'[w][n] = queue[w][j]
    <3>1. \A w \in Workspace : w # u => \A n \in DOMAIN queue[w] : queue[w][n] # h
      BY <2>2, QueueParts
    <3>2. \A w \in Workspace : w # u => Once(queue[w])
      BY QueueParts
    <3>. SUFFICES ASSUME NEW w \in Workspace
                  PROVE  /\ Once(queue'[w])
                         /\ \A n \in DOMAIN queue'[w] :
                              /\ queue'[w][n] # h
                              /\ \E j \in DOMAIN queue[w] : queue'[w][n] = queue[w][j]
      OBVIOUS
    <3>3. CASE w = u
      <4>1. queue'[w] = Tail(queue[u]) /\ queue[w] = queue[u]
        BY <2>3, <3>3
      <4>. DEFINE t == Tail(queue[u])
                  s == queue[u]
      <4>2. /\ Once(t)
            /\ \A n \in DOMAIN t : t[n] # h /\ \E j \in DOMAIN s : t[n] = s[j]
        BY <2>2
      <4>3. queue'[w] = t /\ queue[w] = s
        BY <4>1
      <4>. HIDE DEF t, s
      <4>. QED  BY <4>2, <4>3
    <3>4. CASE w # u
      <4>1. queue'[w] = queue[w]
        BY <2>3, <3>4
      <4>. QED  BY <3>1, <3>2, <3>4, <4>1
    <3>. QED  BY <3>3, <3>4
  <2>6. /\ \A q \in Req : q # r => pc'[q] = pc[q] /\ popped'[q] = popped[q]
        /\ pc'[r] = "signalling" /\ popped'[r] = h /\ popped' \in [Req -> Req \cup {None}]
    BY <1>0, <2>1, <2>2
  <2>7. \A w \in Workspace : \A n \in DOMAIN queue'[w] :
          /\ workspaceOf(queue'[w][n]) = w
          /\ pc'[queue'[w][n]] \in Waiting
          /\ queue'[w][n] \notin grants'
    <3>. SUFFICES ASSUME NEW w \in Workspace, NEW n \in DOMAIN queue'[w]
                  PROVE  /\ workspaceOf(queue'[w][n]) = w
                         /\ pc'[queue'[w][n]] \in Waiting
                         /\ queue'[w][n] \notin grants'
      OBVIOUS
    <3>1. PICK j \in DOMAIN queue[w] : queue'[w][n] = queue[w][j]
      BY <2>5
    <3>2. /\ queue[w][j] \in Req /\ workspaceOf(queue[w][j]) = w
          /\ pc[queue[w][j]] \in Waiting /\ queue[w][j] \notin grants
      BY QueueParts
    <3>. QED  BY <3>1, <3>2, <1>0, <2>6 DEF Waiting
  <2>8. \A s \in Req : popped[s] # h
    <3>. SUFFICES ASSUME NEW s \in Req, popped[s] = h PROVE FALSE
      OBVIOUS
    <3>1. Popped(s)
      BY <2>2, QueueParts, GateAssumption
    <3>. QED  BY <1>0, <2>2, <3>1 DEF Popped
  <2>9. \A q \in Req :
          /\ pc'[q] \in {"idle", "refused"} => q \notin grants'
          /\ pc'[q] = "signalling" \/ popped'[q] # None => Popped(q)'
    <3>. SUFFICES ASSUME NEW q \in Req
                  PROVE  /\ pc'[q] \in {"idle", "refused"} => q \notin grants'
                         /\ pc'[q] = "signalling" \/ popped'[q] # None => Popped(q)'
      OBVIOUS
    <3>1. pc'[q] \in {"idle", "refused"} => q \notin grants'
      BY <1>0, <2>6, QueueParts
    <3>2. CASE q = r
      <4>1. h # r /\ pc'[h] \in Waiting
        BY <1>0, <2>2, <2>6 DEF Waiting
      <4>2. \A w \in Workspace : \A n \in DOMAIN queue'[w] : queue'[w][n] # h
        BY <2>5
      <4>3. \A s \in Req : popped'[s] = h => s = r
        BY <2>6, <2>8
      <4>4. Popped(q)'
        BY <3>2, <4>1, <4>2, <4>3, <1>0, <2>2, <2>6 DEF Popped, At, Waiting
      <4>. QED  BY <3>1, <4>4
    <3>3. ASSUME q # r, pc'[q] = "signalling" \/ popped'[q] # None
          PROVE  Popped(q)'
      <4>1. Popped(q)
        BY <3>3, <2>6, QueueParts
      <4>2. /\ popped'[q] = popped[q] /\ pc'[q] = "signalling" /\ popped[q] \in Req
            /\ popped[q] # h /\ popped[q] # r
            /\ pc'[popped[q]] = pc[popped[q]]
        BY <3>3, <4>1, <1>0, <2>6, <2>8 DEF Popped, At
      <4>3. \A w \in Workspace : \A n \in DOMAIN queue'[w] : queue'[w][n] # popped[q]
        BY <4>1, <2>5 DEF Popped
      <4>4. \A s \in Req : popped'[s] = popped[q] => s = q
        BY <4>1, <4>2, <2>6 DEF Popped
      <4>. QED  BY <4>1, <4>2, <4>3, <4>4, <1>0 DEF Popped, At
    <3>. QED  BY <3>1, <3>2, <3>3
  <2>10. \A w \in Workspace : Once(queue'[w])
    BY <2>5
  <2>. QED  BY <1>0, <2>4, <2>6, <2>7, <2>9, <2>10, QueueParts, QueueWhole
<1>. QED  BY <1>1, <1>2

LEMMA SignalKeeps ==
  ASSUME QueueInv, CounterTypeOK', NEW r \in Req, Signal(r)
  PROVE  QueueInv'
<1>. DEFINE h == popped[r]
<1>0. /\ pc[r] = "signalling" /\ UNCHANGED queue
      /\ pc \in [Req -> PCLabel] /\ popped \in [Req -> Req \cup {None}]
      /\ popped' = [popped EXCEPT ![r] = None]
      /\ None \notin Req
  BY QueueParts, GateAssumption DEF Signal, At
<1>1. /\ h \in Req /\ pc[h] \in Waiting \cup {"denied"} /\ h \notin grants
      /\ \A w \in Workspace : \A n \in DOMAIN queue[w] : queue[w][n] # h
      /\ \A s \in Req : popped[s] = h => s = r
  <2>1. Popped(r)
    BY <1>0, QueueParts
  <2>. QED  BY <2>1 DEF Popped, At, Waiting
<1>2. \/ pc[h] = "waiting" /\ grants' = grants
         /\ pc' = [pc EXCEPT ![r] = "done", ![h] = "granted"]
      \/ pc[h] # "waiting" /\ grants' = grants \cup {h}
         /\ pc' = [pc EXCEPT ![r] = "done"]
  BY DEF Signal, At, Goto
<1>. HIDE DEF h
<1>3. /\ h # r /\ grants' \in SUBSET Req /\ grants' \subseteq grants \cup {h}
      /\ pc'[r] = "done" /\ pc'[h] \in Waiting \cup {"denied", "granted"}
      /\ \A q \in Req : q # r /\ q # h => pc'[q] = pc[q]
      /\ popped' \in [Req -> Req \cup {None}] /\ popped'[r] = None
      /\ \A q \in Req : q # r => popped'[q] = popped[q]
  <2>1. h # r
    BY <1>0, <1>1 DEF Waiting
  <2>2. grants \in SUBSET Req
    BY QueueParts
  <2>3. CASE pc[h] = "waiting"
    BY <2>1, <2>2, <2>3, <1>0, <1>1, <1>2
  <2>4. CASE pc[h] # "waiting"
    BY <2>1, <2>2, <2>4, <1>0, <1>1, <1>2
  <2>. QED  BY <2>3, <2>4
<1>4. \A w \in Workspace : \A n \in DOMAIN queue'[w] :
        /\ workspaceOf(queue'[w][n]) = w
        /\ pc'[queue'[w][n]] \in Waiting
        /\ queue'[w][n] \notin grants'
  <2>. SUFFICES ASSUME NEW w \in Workspace, NEW n \in DOMAIN queue[w]
                PROVE  /\ workspaceOf(queue[w][n]) = w
                       /\ pc'[queue[w][n]] \in Waiting
                       /\ queue[w][n] \notin grants'
    BY <1>0
  <2>1. /\ queue[w][n] \in Req /\ workspaceOf(queue[w][n]) = w
        /\ pc[queue[w][n]] \in Waiting /\ queue[w][n] \notin grants
    BY QueueParts
  <2>2. queue[w][n] # h /\ queue[w][n] # r
    BY <2>1, <1>0, <1>1 DEF Waiting
  <2>. QED  BY <2>1, <2>2, <1>3
<1>5. \A q \in Req :
        /\ pc'[q] \in {"idle", "refused"} => q \notin grants'
        /\ pc'[q] = "signalling" \/ popped'[q] # None => Popped(q)'
  <2>. SUFFICES ASSUME NEW q \in Req
                PROVE  /\ pc'[q] \in {"idle", "refused"} => q \notin grants'
                       /\ pc'[q] = "signalling" \/ popped'[q] # None => Popped(q)'
    OBVIOUS
  <2>1. pc'[q] \in {"idle", "refused"} => q \notin grants'
    BY <1>3, QueueParts DEF Waiting
  <2>2. ASSUME pc'[q] = "signalling" \/ popped'[q] # None
        PROVE  Popped(q)'
    <3>1. q # r
      BY <2>2, <1>3
    <3>2. Popped(q)
      BY <2>2, <3>1, <1>0, <1>1, <1>3, QueueParts DEF Waiting
    <3>3. /\ popped'[q] = popped[q] /\ popped[q] \in Req /\ popped[q] # h
          /\ pc[q] = "signalling" /\ q # h
      BY <3>1, <3>2, <1>1, <1>3 DEF Popped, Waiting
    <3>4. popped[q] # r /\ pc'[popped[q]] = pc[popped[q]] /\ pc'[q] = "signalling"
      BY <3>1, <3>2, <3>3, <1>0, <1>3 DEF Popped, At
    <3>5. \A s \in Req : popped'[s] = popped[q] => s = q
      BY <3>2, <3>3, <1>0, <1>3 DEF Popped
    <3>. QED  BY <3>2, <3>3, <3>4, <3>5, <1>0, <1>3 DEF Popped, At
  <2>. QED  BY <2>1, <2>2
<1>. QED  BY <1>0, <1>3, <1>4, <1>5, QueueParts, QueueWhole
(* Every step keeps the queue sound.                                       *)
LEMMA QueueStep ==
  ASSUME QueueInv, CounterTypeOK', [GateNext]_gateVars
  PROVE  QueueInv'
<1>0. pc \in [Req -> PCLabel]
  BY QueueParts
<1>. DEFINE Passes(q) ==
       /\ pc[q] \in Waiting => pc'[q] \in Waiting
       /\ pc[q] = "denied" => pc'[q] = "denied"
       /\ pc'[q] \in {"idle", "refused"} => pc[q] \in {"idle", "refused"}
       /\ pc'[q] = "signalling" <=> pc[q] = "signalling"
<1>1. ASSUME UNCHANGED <<queue, popped>>, grants' \in SUBSET grants, \A q \in Req : Passes(q)
      PROVE  QueueInv'
  BY <1>1, PassKeeps
<1>2. ASSUME UNCHANGED <<queue, grants, popped>>, NEW r \in Req,
             \/ pc[r] = "idle" /\ Goto(r, "running")
             \/ pc[r] = "idle" /\ Goto(r, "refused")
             \/ pc[r] = "waiting" /\ Goto(r, "timedout")
             \/ pc[r] = "granted" /\ Goto(r, "running")
             \/ pc[r] = "granted" /\ Goto(r, "denied")
             \/ pc[r] = "running" /\ Goto(r, "released")
             \/ pc[r] = "running" /\ Goto(r, "vanished")
      PROVE  QueueInv'
  <2>1. \A q \in Req : Passes(q)
    BY <1>0, <1>2 DEF Goto, Waiting
  <2>. QED  BY <1>1, <1>2, <2>1
<1>. HIDE DEF Passes
<1>3. ASSUME NEW r \in Req,
             Bypass(r) \/ TryAcquire(r) \/ TimeOut(r) \/ AcquireAgain(r) \/ Release(r) \/ Vanish(r)
      PROVE  QueueInv'
  <2>1. UNCHANGED <<queue, grants, popped>>
    BY <1>3 DEF Bypass, TryAcquire, TimeOut, AcquireAgain, Release, Vanish
  <2>2. \/ pc[r] = "idle" /\ Goto(r, "running")
        \/ pc[r] = "idle" /\ Goto(r, "refused")
        \/ pc[r] = "waiting" /\ Goto(r, "timedout")
        \/ pc[r] = "granted" /\ Goto(r, "running")
        \/ pc[r] = "granted" /\ Goto(r, "denied")
        \/ pc[r] = "running" /\ Goto(r, "released")
        \/ pc[r] = "running" /\ Goto(r, "vanished")
    BY <1>3 DEF Bypass, TryAcquire, TimeOut, AcquireAgain, Release, Vanish, At
  <2>. QED  BY <1>2, <2>1, <2>2
<1>4. ASSUME UNCHANGED <<queue, popped, pc>>, grants' \in SUBSET grants
      PROVE  QueueInv'
  <2>1. \A q \in Req : Passes(q)
    BY <1>4 DEF Passes
  <2>. QED  BY <1>1, <1>4, <2>1
<1>5. CASE Lapse \/ UNCHANGED gateVars \/ \E r \in Req : GrantLapses(r)
  <2>1. UNCHANGED <<queue, popped, pc>> /\ grants' \in SUBSET grants
    BY <1>5 DEF Lapse, GrantLapses, gateVars
  <2>. QED  BY <1>4, <2>1
<1>. QED
  BY <1>3, <1>5, WaitKeeps, EnqueueKeeps, LeaveQueueKeeps, PopKeeps, SignalKeeps
  DEF GateNext, Progress, GateIdle

-----------------------------------------------------------------------------
(* The weights of the two pools                                            *)

LEMMA WeightBound ==
  ASSUME NEW r \in Req
  PROVE  computeWeight(r) \in 0..15
<1>1. /\ PriorityWeight[Ticket[r].planTier] \in 1..10
      /\ BaseWeight[Ticket[r].computeTier] \in 1..6
  BY TicketTypes, PolicyTypes
<1>2. \A m \in 1..6, n \in 1..10 : (m + n - 1) \div n \in 0..15
  OBVIOUS
<1>. QED  BY <1>1, <1>2 DEF computeWeight

LEMMA UnitsFinite ==
  ASSUME CounterTypeOK, IsFiniteSet(leases), NEW p \in Pool
  PROVE  IsFiniteSet(Units(p)) /\ Cardinality(Units(p)) \in Nat
<1>1. IsFiniteSet(LeasesOfPool(p)) /\ \A l \in LeasesOfPool(p) : l.trace \in Req
  BY FS_Subset DEF LeasesOfPool, CounterTypeOK
<1>2. \A l \in LeasesOfPool(p) : 1..computeWeight(l.trace) \subseteq 1..15
  BY <1>1, WeightBound
<1>3. Units(p) \subseteq LeasesOfPool(p) \X (1..15)
  BY <1>2 DEF Units
<1>4. IsFiniteSet(1..15)
  <2>1. 1 \in Int /\ 15 \in Int
    OBVIOUS
  <2>. QED  BY <2>1, FS_Interval, Zenon
<1>5. IsFiniteSet(LeasesOfPool(p) \X (1..15))
  BY <1>1, <1>4, FS_Product
<1>6. IsFiniteSet(Units(p))
  BY <1>3, <1>5, FS_Subset
<1>. QED  BY <1>6, FS_CardinalityType

(* A lease occupies as many units as it weighs, and none of another's.     *)
LEMMA UnitsOfLease ==
  ASSUME NEW l, NEW n \in Nat, NEW S, IsFiniteSet(S), \A x \in S : x[1] # l
  PROVE  Cardinality(S \cup ({l} \X (1..n))) = Cardinality(S) + n
<1>. DEFINE b == {l} \X (1..n)
<1>1. IsFiniteSet(b) /\ Cardinality(b) = n
  <2>1. IsFiniteSet({l}) /\ Cardinality({l}) = 1
    BY FS_Singleton
  <2>2. IsFiniteSet(1..n) /\ Cardinality(1..n) = n
    BY FS_Interval
  <2>3. IsFiniteSet(b) /\ Cardinality(b) = Cardinality({l}) * Cardinality(1..n)
    BY <2>1, <2>2, FS_Product
  <2>. QED  BY <2>1, <2>2, <2>3
<1>2. S \cap b = {}
  OBVIOUS
<1>3. Cardinality(S \cup b) = Cardinality(S) + Cardinality(b) - Cardinality(S \cap b)
  BY <1>1, FS_Union
<1>4. Cardinality(S \cap b) = 0 /\ Cardinality(S) \in Nat
  BY <1>2, FS_EmptySet, FS_CardinalityType
<1>. QED  BY <1>1, <1>3, <1>4

(* A lease is new to its pool: a request has one (GateInv).                *)
LEMMA TakePools ==
  ASSUME GateInv, PoolsMatchLeases, NEW r \in Req, pc[r] \in {"idle", "granted"},
         Take(r), UNCHANGED lapsed
  PROVE  PoolsMatchLeases'
<1>. USE DEF GateInv
<1>1. PICK p \in PoolsFor(r) :
        /\ weight' = [weight EXCEPT ![p] = @ + computeWeight(r)]
        /\ leases' = leases \cup {Lease(r, p)}
  BY DEF Take
<1>2. /\ p \in Pool /\ Fits(r, p)
      /\ Lease(r, p).trace = r /\ Lease(r, p).pool = p
  BY DEF PoolsFor, Pool, Lease
<1>3. \A l \in leases : l.trace \in Req /\ l.trace # r
  BY DEF LeasesHeld, At, CounterTypeOK
<1>4. computeWeight(r) \in Nat
  BY WeightType
<1>5. /\ Units(p)' = Units(p) \cup ({Lease(r, p)} \X (1..computeWeight(r)))
      /\ \A q \in Pool : q # p => Units(q)' = Units(q)
  <2>1. /\ LeasesOfPool(p)' = LeasesOfPool(p) \cup {Lease(r, p)}
        /\ \A q \in Pool : q # p => LeasesOfPool(q)' = LeasesOfPool(q)
    BY <1>1, <1>2 DEF LeasesOfPool
  <2>. QED  BY <2>1, <1>2 DEF Units
<1>6. Cardinality(Units(p)') = Cardinality(Units(p)) + computeWeight(r)
  <2>1. IsFiniteSet(Units(p))
    BY <1>2, UnitsFinite
  <2>2. \A x \in Units(p) : x[1] # Lease(r, p)
    BY <1>2, <1>3 DEF Units, LeasesOfPool
  <2>. DEFINE S == Units(p)
              l == Lease(r, p)
              n == computeWeight(r)
  <2>3. n \in Nat /\ IsFiniteSet(S) /\ (\A x \in S : x[1] # l)
    BY <1>4, <2>1, <2>2
  <2>4. Units(p)' = S \cup ({l} \X (1..n))
    BY <1>5
  <2>. HIDE DEF S, l, n
  <2>5. Cardinality(S \cup ({l} \X (1..n))) = Cardinality(S) + n
    BY <2>3, UnitsOfLease
  <2>. QED  BY <2>4, <2>5 DEF S, n
<1>7. weight \in [Pool -> Nat]
  BY DEF CounterTypeOK
<1>. SUFFICES ASSUME NEW q \in Pool
              PROVE  /\ weight'[q] <= Cardinality(Units(q)')
                     /\ q \notin lapsed' =>
                          /\ weight'[q] = Cardinality(Units(q)')
                          /\ Cardinality(Units(q)') <=
                               IF q = "shared" THEN SharedCap ELSE ReservedCap
  BY DEF PoolsMatchLeases
<1>8. /\ weight[q] <= Cardinality(Units(q))
      /\ q \notin lapsed =>
           /\ weight[q] = Cardinality(Units(q))
           /\ Cardinality(Units(q)) <= IF q = "shared" THEN SharedCap ELSE ReservedCap
  BY DEF PoolsMatchLeases
<1>9. CASE q # p
  <2>1. weight'[q] = weight[q] /\ Units(q)' = Units(q)
    BY <1>1, <1>5, <1>7, <1>9
  <2>. QED  BY <1>8, <2>1
<1>10. CASE q = p
  <2>1. weight'[q] = weight[q] + computeWeight(r) /\ weight[q] \in Nat
    BY <1>1, <1>2, <1>7, <1>10
  <2>2. weight[q] + computeWeight(r) <= IF q = "shared" THEN SharedCap ELSE ReservedCap
    BY <1>2, <1>10 DEF Fits, Pool
  <2>3. Cardinality(Units(q)) \in Nat
    BY UnitsFinite
  <2>. QED  BY <1>4, <1>6, <1>8, <1>10, <2>1, <2>2, <2>3
<1>. QED  BY <1>9, <1>10

LEMMA DropPools ==
  ASSUME GateInv, PoolsMatchLeases, NEW r \in Req, Drop(r), UNCHANGED lapsed
  PROVE  PoolsMatchLeases'
<1>. USE DEF GateInv
<1>. DEFINE p == GuessedPool(r)
<1>1. CASE Lease(r, p) \notin leases
  <2>1. UNCHANGED <<weight, leases>>
    BY <1>1 DEF Drop, counters
  <2>. QED  BY <2>1 DEF PoolsMatchLeases, Units, LeasesOfPool
<1>2. CASE Lease(r, p) \in leases
  <2>1. /\ weight' = [weight EXCEPT ![p] = Minus(@, computeWeight(r))]
        /\ leases' = leases \ {Lease(r, p)}
    BY <1>2 DEF Drop
  <2>2. p \in Pool /\ Lease(r, p).trace = r /\ Lease(r, p).pool = p
    BY DEF GuessedPool, Pool, Lease
  <2>. HIDE DEF p
  <2>3. computeWeight(r) \in Nat
    BY WeightType
  <2>4. /\ Units(p) = Units(p)' \cup ({Lease(r, p)} \X (1..computeWeight(r)))
        /\ \A q \in Pool : q # p => Units(q)' = Units(q)
        /\ \A x \in Units(p)' : x[1] # Lease(r, p)
    <3>1. /\ LeasesOfPool(p) = LeasesOfPool(p)' \cup {Lease(r, p)}
          /\ Lease(r, p) \notin LeasesOfPool(p)'
          /\ \A q \in Pool : q # p => LeasesOfPool(q)' = LeasesOfPool(q)
      BY <1>2, <2>1, <2>2 DEF LeasesOfPool
    <3>. QED  BY <3>1, <2>2 DEF Units
  <2>5. Cardinality(Units(p)) = Cardinality(Units(p)') + computeWeight(r)
    <3>1. IsFiniteSet(Units(p)')
      <4>1. Units(p)' \subseteq Units(p) /\ IsFiniteSet(Units(p))
        BY <2>2, <2>4, UnitsFinite
      <4>. QED  BY <4>1, FS_Subset
    <3>. DEFINE S == Units(p)'
                l == Lease(r, p)
                n == computeWeight(r)
    <3>2. n \in Nat /\ IsFiniteSet(S) /\ (\A x \in S : x[1] # l)
      BY <2>3, <2>4, <3>1
    <3>3. Units(p) = S \cup ({l} \X (1..n))
      BY <2>4
    <3>. HIDE DEF S, l, n
    <3>4. Cardinality(S \cup ({l} \X (1..n))) = Cardinality(S) + n
      BY <3>2, UnitsOfLease
    <3>. QED  BY <3>3, <3>4 DEF S, n
  <2>6. Cardinality(Units(p)') \in Nat
    <3>1. Units(p)' \subseteq Units(p) /\ IsFiniteSet(Units(p))
      BY <2>2, <2>4, UnitsFinite
    <3>. QED  BY <3>1, FS_Subset, FS_CardinalityType
  <2>7. weight \in [Pool -> Nat]
    BY DEF CounterTypeOK
  <2>. SUFFICES ASSUME NEW q \in Pool
                PROVE  /\ weight'[q] <= Cardinality(Units(q)')
                       /\ q \notin lapsed' =>
                            /\ weight'[q] = Cardinality(Units(q)')
                            /\ Cardinality(Units(q)') <=
                                 IF q = "shared" THEN SharedCap ELSE ReservedCap
    BY DEF PoolsMatchLeases
  <2>8. /\ weight[q] <= Cardinality(Units(q))
        /\ q \notin lapsed =>
             /\ weight[q] = Cardinality(Units(q))
             /\ Cardinality(Units(q)) <= IF q = "shared" THEN SharedCap ELSE ReservedCap
    BY DEF PoolsMatchLeases
  <2>9. CASE q # p
    <3>1. weight'[q] = weight[q] /\ Units(q)' = Units(q)
      BY <2>1, <2>4, <2>7, <2>9
    <3>. QED  BY <2>8, <3>1
  <2>10. CASE q = p
    <3>1. weight'[q] = Minus(weight[q], computeWeight(r)) /\ weight[q] \in Nat
      BY <2>1, <2>2, <2>7, <2>10
    <3>2. SharedCap \in Nat /\ ReservedCap \in Nat
      BY GateAssumption
    <3>. QED  BY <2>3, <2>5, <2>6, <2>8, <2>10, <3>1, <3>2 DEF Minus
  <2>. QED  BY <2>9, <2>10
<1>. QED  BY <1>1, <1>2

LEMMA LapsePools ==
  ASSUME GateInv, PoolsMatchLeases, Lapse
  PROVE  PoolsMatchLeases'
<1>1. \A q \in Pool :
        /\ weight'[q] \in {weight[q], 0}
        /\ q \notin lapsed' => q \notin lapsed /\ weight'[q] = weight[q]
  BY DEF Lapse, GateInv, CounterTypeOK
<1>2. \A q \in Pool : Units(q)' = Units(q)
  BY DEF Units, LeasesOfPool, Lapse
<1>3. \A q \in Pool : Cardinality(Units(q)) \in Nat
  BY UnitsFinite DEF GateInv
<1>. SUFFICES ASSUME NEW q \in Pool
              PROVE  /\ weight'[q] <= Cardinality(Units(q)')
                     /\ q \notin lapsed' =>
                          /\ weight'[q] = Cardinality(Units(q)')
                          /\ Cardinality(Units(q)') <=
                               IF q = "shared" THEN SharedCap ELSE ReservedCap
  BY DEF PoolsMatchLeases
<1>4. /\ weight[q] <= Cardinality(Units(q))
      /\ q \notin lapsed =>
           /\ weight[q] = Cardinality(Units(q))
           /\ Cardinality(Units(q)) <= IF q = "shared" THEN SharedCap ELSE ReservedCap
  BY DEF PoolsMatchLeases
<1>. QED  BY <1>1, <1>2, <1>3, <1>4

LEMMA PoolStep ==
  ASSUME GateInv, PoolsMatchLeases, [GateNext]_gateVars
  PROVE  PoolsMatchLeases'
<1>1. ASSUME UNCHANGED <<weight, leases, lapsed>>
      PROVE  PoolsMatchLeases'
  BY <1>1 DEF PoolsMatchLeases, Units, LeasesOfPool
<1>2. ASSUME NEW r \in Req, TryAcquire(r) \/ AcquireAgain(r)
      PROVE  PoolsMatchLeases'
  <2>1. pc[r] \in {"idle", "granted"} /\ UNCHANGED lapsed
    BY <1>2 DEF TryAcquire, AcquireAgain, At
  <2>2. Take(r) \/ UNCHANGED <<weight, leases>>
    BY <1>2 DEF TryAcquire, AcquireAgain, counters
  <2>. QED  BY <1>1, <2>1, <2>2, TakePools
<1>3. ASSUME NEW r \in Req, Release(r)
      PROVE  PoolsMatchLeases'
  BY <1>3, DropPools DEF Release
<1>4. ASSUME NEW r \in Req,
             \/ Bypass(r) \/ Enqueue(r) \/ Wait(r) \/ TimeOut(r) \/ LeaveQueue(r)
             \/ Pop(r) \/ Signal(r) \/ Vanish(r) \/ GrantLapses(r)
      PROVE  PoolsMatchLeases'
  <2>1. UNCHANGED <<weight, leases, lapsed>>
    BY <1>4 DEF Bypass, Enqueue, Wait, TimeOut, LeaveQueue, Pop, Signal, Vanish,
                GrantLapses, counters
  <2>. QED  BY <1>1, <2>1
<1>5. CASE UNCHANGED gateVars
  BY <1>1, <1>5 DEF gateVars, counters
<1>. QED
  BY <1>2, <1>3, <1>4, <1>5, LapsePools DEF GateNext, Progress, GateIdle

LEMMA SoundInit == GateInit => QueueInv /\ PoolsMatchLeases
<1>. SUFFICES ASSUME GateInit PROVE QueueInv /\ PoolsMatchLeases
  OBVIOUS
<1>1. QueueInv
  <2>1. GateTypeOK
    BY DEF GateInit, GateTypeOK, CounterTypeOK, PCLabel
  <2>. QED  BY <2>1 DEF GateInit, QueueInv, QueueHoldsWaiters
<1>2. PoolsMatchLeases
  <2>1. \A p \in Pool : Units(p) = {}
    BY DEF GateInit, Units, LeasesOfPool
  <2>2. Cardinality({}) = 0
    BY FS_EmptySet
  <2>3. /\ \A p \in Pool : weight[p] = 0
        /\ SharedCap \in Nat /\ ReservedCap \in Nat
    BY GateAssumption DEF GateInit
  <2>. QED  BY <2>1, <2>2, <2>3 DEF PoolsMatchLeases
<1>. QED  BY <1>1, <1>2

LEMMA GateInductive ==
  /\ GateInit => GateInv /\ QueueInv /\ PoolsMatchLeases
  /\ GateInv /\ QueueInv /\ PoolsMatchLeases /\ [GateNext]_gateVars
       => (GateInv /\ QueueInv /\ PoolsMatchLeases)'
<1>1. GateInit => GateInv /\ QueueInv /\ PoolsMatchLeases
  BY InitHolds, SoundInit
<1>2. ASSUME GateInv, QueueInv, PoolsMatchLeases, [GateNext]_gateVars
      PROVE  (GateInv /\ QueueInv /\ PoolsMatchLeases)'
  <2>1. GateInv'
    BY <1>2, StepKeeps
  <2>2. CounterTypeOK'
    BY <2>1 DEF GateInv
  <2>. QED  BY <1>2, <2>1, <2>2, QueueStep, PoolStep
<1>. QED  BY <1>1, <1>2

(* Types hold, the weights account for the pools' leases within their      *)
(* capacity, and no release wastes its grant on a request that is not      *)
(* waiting, whatever is acquired, released, timed out or expires.          *)
THEOREM GateIsSound == GateSpec => []GateSound
<1>1. GateInv /\ QueueInv /\ PoolsMatchLeases => GateSound
  BY DEF QueueInv, GateSound
<1>. QED  BY <1>1, GateInductive, PTL DEF GateSpec
=============================================================================
