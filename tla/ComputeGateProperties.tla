----------------------- MODULE ComputeGateProperties -----------------------
(***************************************************************************)
(* What is expected of the compute gate.                                   *)
(***************************************************************************)
EXTENDS ComputeGate

PCLabel == {"idle", "refused", "queued", "waiting", "timedout", "granted",
            "running", "released", "signalling", "done", "denied", "vanished"}

CounterTypeOK ==
  /\ active \in [Thread -> Req \cup {None}]
  /\ users \in [User -> Nat]
  /\ workspaces \in [Workspace -> Nat]
  /\ weight \in [Pool -> Nat]
  /\ expiring \in SUBSET Pool
  /\ leases \in SUBSET [trace: Req, pool: Pool]
  /\ pc \in [Req -> PCLabel]
  /\ lapsed \in SUBSET (Thread \cup User \cup Workspace \cup Pool)

(* Every variable has its type; the counters never go below zero.          *)
GateTypeOK ==
  /\ CounterTypeOK
  /\ queue \in [Workspace -> Seq(Req)]
  /\ grants \in SUBSET Req
  /\ popped \in [Req -> Req \cup {None}]

-----------------------------------------------------------------------------
(* Holds of the code *)

LeasesOfUser(u) == {l \in leases : userOf(l.trace) = u}
LeasesOfWorkspace(w) == {l \in leases : workspaceOf(l.trace) = w}
LeasesOfPool(p) == {l \in leases : l.pool = p}

Admitted(r) == At(r, {"running", "vanished"}) /\ ~Downgraded(r)

(* Two admitted turns never run on one thread, as long as the thread's key *)
(* did not expire under one of them, although release deletes that key     *)
(* without looking whose it is.                                            *)
ThreadExclusive ==
  \A q, r \in Req :
    /\ Admitted(q) /\ Admitted(r)
    /\ threadOf(q) = threadOf(r) /\ threadOf(r) \notin lapsed
    => q = r

(* A user never has more leases on a plan than the plan allows, and no     *)
(* admitted turn is without one, unless the user's counter expired: no     *)
(* interleaving of acquire, a grant's second acquire and release exceeds   *)
(* the ceiling.                                                            *)
LeasesOnPlan(u, p) == {l \in LeasesOfUser(u) : Ticket[l.trace].planTier = p}

UserCeiling ==
  /\ \A r \in Req : Admitted(r) => \E l \in leases : l.trace = r
  /\ \A u \in User \ lapsed : \A p \in PlanTier :
       Cardinality(LeasesOnPlan(u, p)) <= MaxUserConcurrency[p]

(* The counters account for the leases: exactly while nothing expired, and *)
(* never for more than the leases afterwards, so an expiry can only let    *)
(* more turns in, never lock a user out.                                   *)
CountersMatchLeases ==
  /\ \A u \in User :
       /\ users[u] <= Cardinality(LeasesOfUser(u))
       /\ u \notin lapsed => users[u] = Cardinality(LeasesOfUser(u))
  /\ \A w \in Workspace :
       /\ workspaces[w] <= Cardinality(LeasesOfWorkspace(w))
       /\ w \notin lapsed => workspaces[w] = Cardinality(LeasesOfWorkspace(w))

(* The same for the two pools, which also keep within their capacity: a    *)
(* lease occupies one unit of its pool for each point of its weight.       *)
Units(p) == UNION {{l} \X (1..computeWeight(l.trace)) : l \in LeasesOfPool(p)}

PoolsMatchLeases ==
  \A p \in Pool :
    LET used == Cardinality(Units(p))
    IN  /\ weight[p] <= used
        /\ p \notin lapsed =>
             weight[p] = used /\ used <= IF p = "shared" THEN SharedCap ELSE ReservedCap

(* The queue holds nobody twice and nobody who is not about to take the    *)
(* grant or to leave, so a release never wastes its one grant on a request *)
(* that was denied; a request holds a place or a grant, not both.          *)
QueueHoldsWaiters ==
  \A w \in Workspace : \A m, n \in DOMAIN queue[w] :
    /\ At(queue[w][n], {"queued", "waiting", "timedout"})
    /\ queue[w][n] \notin grants
    /\ m # n => queue[w][m] # queue[w][n]

(* The gate's keys are sound: types, the pools' weights and the queue, in  *)
(* whatever order acquisitions, releases, timeouts and expiries come.      *)
GateSound == GateTypeOK /\ PoolsMatchLeases /\ QueueHoldsWaiters

(* Every request that was refused is answered in the end, although waiting *)
(* requests block the connection that others need.                         *)
RefusedIsAnswered ==
  \A r \in Req : At(r, {"refused"}) ~> At(r, {"running", "denied"})

-----------------------------------------------------------------------------
(* The inductive strengthening of the three properties above about leases: *)
(* a request has at most one lease, only once it was admitted, and holds   *)
(* the key of its thread as long as that did not expire.                   *)

LeasesHeld ==
  /\ \A l, m \in leases : l.trace = m.trace => l = m
  /\ \A l \in leases :
       /\ At(l.trace, {"running", "vanished", "released", "signalling", "done"})
       /\ threadOf(l.trace) \notin lapsed => active[threadOf(l.trace)] = l.trace

GateInv ==
  /\ CounterTypeOK
  /\ IsFiniteSet(leases)
  /\ LeasesHeld
  /\ UserCeiling
  /\ CountersMatchLeases

(* The inductive strengthening of QueueHoldsWaiters: a request enters the  *)
(* queue of its own workspace once; whom a release took from the queue is  *)
(* in no queue, has no grant yet, and is not signalled by two releases.    *)

Popped(r) ==
  LET q == popped[r] IN
  /\ pc[r] = "signalling" /\ q \in Req
  /\ At(q, {"queued", "waiting", "timedout", "denied"})
  /\ q \notin grants
  /\ \A w \in Workspace : \A n \in DOMAIN queue[w] : queue[w][n] # q
  /\ \A s \in Req : popped[s] = q => s = r

QueueInv ==
  /\ GateTypeOK
  /\ QueueHoldsWaiters
  /\ \A w \in Workspace : \A n \in DOMAIN queue[w] : workspaceOf(queue[w][n]) = w
  /\ \A r \in Req :
       /\ At(r, {"idle", "refused"}) => r \notin grants
       /\ pc[r] = "signalling" \/ popped[r] # None => Popped(r)

-----------------------------------------------------------------------------
(* Said of the code, and refuted by it *)

(* "brpop blocks - use duplicate connection to avoid blocking pub client"  *)
(* (compute-gate.ts:327): a request that waits does not block the pub      *)
(* client, over which running turns publish their events.                  *)
PubNotBlocked ==
  \A r \in Req : At(r, {"running"}) => ~Blocked(Connection(r))

(* "Final safety net" (execution-engine.ts:468), on the release in the     *)
(* finally block: an execution that is over holds no lease.                *)
LeaseReturned ==
  \A r \in Req : At(r, {"done"}) => \A l \in leases : l.trace # r
=============================================================================
