---------------------------- MODULE ComputeGate ----------------------------
(***************************************************************************)
(* The admission gate in front of an execution:                            *)
(* src/src/ai/compute/compute-gate.ts, acquired by the controller and      *)
(* released by ExecutionEngine.execute's finally block.                    *)
(*                                                                         *)
(* All of its state is in Redis, where a script, a MULTI or a command is   *)
(* atomic, so a request is cut into its Redis commands.  They travel on    *)
(* the one connection (redisPub) of the request's instance, which Redis    *)
(* serves in order: behind a BRPOP that waits, nothing moves.              *)
(***************************************************************************)
EXTENDS Integers, FiniteSets, SequencesExt

CONSTANTS
  Req,            \* requests, each with its traceId
  Thread, User, Workspace,
  Inst,           \* PM2 instances, each with its redisPub connection
  Ticket,         \* the GateTicket of each request
  SharedCap,      \* SHARED_CAPACITY_WEIGHT
  ReservedCap,    \* ENTERPRISE_RESERVED_WEIGHT
  MaxLapses,      \* how many keys may outlive ACQUIRE_TTL_MS
  None

ComputeTier == {"FAST", "NORMAL", "DEEP"}
PlanTier    == {"free", "pro", "business", "enterprise", "max"}
Pool        == {"shared", "reserved"}

GateTicket == [threadId: Thread, userId: User, workspaceId: Workspace,
               computeTier: ComputeTier, planTier: PlanTier, instance: Inst]

ASSUME GateAssumption ==
  /\ Ticket \in [Req -> GateTicket]
  /\ SharedCap \in Nat /\ ReservedCap \in Nat /\ MaxLapses \in Nat
  /\ None \notin Req

VARIABLES
  active,     \* the thread keys: the trace that holds the thread
  users,      \* the user keys: how many leases a user has
  workspaces, \* the workspace keys
  weight,     \* the weight keys of the two pools
  expiring,   \* pools whose weight key has a time to live
  leases,     \* the leases set
  queue,      \* the wait queue of each workspace, oldest first
  grants,     \* traces with a grant in their list
  pc,         \* where each request is
  popped,     \* whom each releasing request took from the queue
  lapsed      \* history: the keys that expired with something in them

counters == <<active, users, workspaces, weight, expiring, leases>>
gateVars == <<counters, queue, grants, pc, popped, lapsed>>

-----------------------------------------------------------------------------
(* Policy *)

MaxUserConcurrency ==
  [free |-> 1, pro |-> 3, business |-> 6, enterprise |-> 12, max |-> 20]
MaxWorkspaceConcurrency ==
  [free |-> 2, pro |-> 6, business |-> 20, enterprise |-> 50, max |-> 100]
PriorityWeight ==
  [free |-> 1, pro |-> 2, business |-> 3, enterprise |-> 6, max |-> 10]
BaseWeight == [FAST |-> 1, NORMAL |-> 3, DEEP |-> 6]

(* Math.ceil(base / priority)                                              *)
computeWeight(r) ==
  LET p == PriorityWeight[Ticket[r].planTier]
  IN  (BaseWeight[Ticket[r].computeTier] + p - 1) \div p

Premium(r) == Ticket[r].planTier \in {"enterprise", "max"}

(* A plan without DEEP is let through as NORMAL, past the counters.        *)
Downgraded(r) == Ticket[r].computeTier = "DEEP" /\ Ticket[r].planTier = "free"

-----------------------------------------------------------------------------
(* ACQUIRE_LUA *)

threadOf(r)    == Ticket[r].threadId
userOf(r)      == Ticket[r].userId
workspaceOf(r) == Ticket[r].workspaceId

Fits(r, p) ==
  weight[p] + computeWeight(r) <= IF p = "reserved" THEN ReservedCap ELSE SharedCap

(* Pools that do not look at their capacity.                               *)
AnyPool(r) == {IF Premium(r) THEN "reserved" ELSE "shared"}

(* Enterprise and max overflow from the reserved pool into the shared one. *)
PoolsFor(r) ==
  IF Premium(r) /\ Fits(r, "reserved") THEN {"reserved"}
  ELSE IF Fits(r, "shared") THEN {"shared"} ELSE {}

(* Admits without the thread check, and with limits off by one.            *)
AdmitsOnBusyThread(r) ==
  /\ users[userOf(r)] < MaxUserConcurrency[Ticket[r].planTier]
  /\ workspaces[workspaceOf(r)] < MaxWorkspaceConcurrency[Ticket[r].planTier]
  /\ PoolsFor(r) # {}

AdmitsOneMore(r) ==
  /\ active[threadOf(r)] \in {None, r}
  /\ users[userOf(r)] <= MaxUserConcurrency[Ticket[r].planTier]
  /\ workspaces[workspaceOf(r)] <= MaxWorkspaceConcurrency[Ticket[r].planTier]
  /\ PoolsFor(r) # {}

Admits(r) ==
  /\ active[threadOf(r)] \in {None, r}
  /\ users[userOf(r)] < MaxUserConcurrency[Ticket[r].planTier]
  /\ workspaces[workspaceOf(r)] < MaxWorkspaceConcurrency[Ticket[r].planTier]
  /\ PoolsFor(r) # {}

Lease(r, p) == [trace |-> r, pool |-> p]

Take(r) ==
  \E p \in PoolsFor(r) :
    /\ active' = [active EXCEPT ![threadOf(r)] = r]
    /\ users' = [users EXCEPT ![userOf(r)] = @ + 1]
    /\ workspaces' = [workspaces EXCEPT ![workspaceOf(r)] = @ + 1]
    /\ weight' = [weight EXCEPT ![p] = @ + computeWeight(r)]
    /\ expiring' = expiring \cup {p}
    /\ leases' = leases \cup {Lease(r, p)}

-----------------------------------------------------------------------------
(* RELEASE_LUA *)

Minus(m, n) == IF m >= n THEN m - n ELSE 0

(* The caller does not know which pool it was given; it goes by the plan.  *)
GuessedPool(r) == IF Premium(r) THEN "reserved" ELSE "shared"

(* Drop that does not ask for a lease.                                     *)
DropUnseen(r) ==
  LET p == GuessedPool(r)
  IN  /\ leases' = leases \ {Lease(r, p)}
      /\ active' = [active EXCEPT ![threadOf(r)] = None]
      /\ users' = [users EXCEPT ![userOf(r)] = Minus(@, 1)]
      /\ workspaces' = [workspaces EXCEPT ![workspaceOf(r)] = Minus(@, 1)]
      /\ weight' = [weight EXCEPT ![p] = Minus(@, computeWeight(r))]
      /\ expiring' = expiring \ {p}

(* The thread key is deleted whoever holds it.  SET gives the weight key   *)
(* back without a time to live.                                            *)
Drop(r) ==
  LET p == GuessedPool(r)
  IN  IF Lease(r, p) \notin leases THEN UNCHANGED counters
      ELSE /\ leases' = leases \ {Lease(r, p)}
           /\ active' = [active EXCEPT ![threadOf(r)] = None]
           /\ users' = [users EXCEPT ![userOf(r)] = Minus(@, 1)]
           /\ workspaces' = [workspaces EXCEPT ![workspaceOf(r)] = Minus(@, 1)]
           /\ weight' = [weight EXCEPT ![p] = Minus(@, computeWeight(r))]
           /\ expiring' = expiring \ {p}

-----------------------------------------------------------------------------
(* ComputeGate.acquire *)

At(r, pcs) == pc[r] \in pcs

Goto(r, l) == pc' = [pc EXCEPT ![r] = l]

Connection(r) == Ticket[r].instance

Blocked(i) == \E q \in Req : pc[q] = "waiting" /\ Connection(q) = i

Command(r) == ~Blocked(Connection(r))

Bypass(r) ==
  /\ At(r, {"idle"}) /\ Downgraded(r)
  /\ Goto(r, "running")
  /\ UNCHANGED <<counters, queue, grants, popped, lapsed>>

TryAcquire(r) ==
  /\ At(r, {"idle"}) /\ ~Downgraded(r) /\ Command(r)
  /\ IF Admits(r) THEN Take(r) /\ Goto(r, "running")
     ELSE Goto(r, "refused") /\ UNCHANGED counters
  /\ UNCHANGED <<queue, grants, popped, lapsed>>

(* The score is the time at which the command was issued, perhaps behind a *)
(* blocked connection, so a later arrival may be the older entry.          *)
Enqueue(r) ==
  /\ At(r, {"refused"}) /\ Command(r)
  /\ \E n \in 1..Len(queue[workspaceOf(r)]) + 1 :
       queue' = [queue EXCEPT ![workspaceOf(r)] = InsertAt(@, n, r)]
  /\ Goto(r, "queued")
  /\ UNCHANGED <<counters, grants, popped, lapsed>>

(* BRPOP finds a grant, or blocks its connection.                          *)
Wait(r) ==
  /\ At(r, {"queued"}) /\ Command(r)
  /\ Goto(r, IF r \in grants THEN "granted" ELSE "waiting")
  /\ grants' = grants \ {r}
  /\ UNCHANGED <<counters, queue, popped, lapsed>>

(* A timeout after which the BRPOP is simply repeated.                     *)
WaitAgain(r) ==
  /\ At(r, {"waiting"})
  /\ Goto(r, "queued")
  /\ UNCHANGED <<counters, queue, grants, popped, lapsed>>

TimeOut(r) ==
  /\ At(r, {"waiting"})
  /\ Goto(r, "timedout")
  /\ UNCHANGED <<counters, queue, grants, popped, lapsed>>

LeaveQueue(r) ==
  /\ At(r, {"timedout"}) /\ Command(r)
  /\ queue' = [queue EXCEPT ![workspaceOf(r)] = RemoveFirst(@, r)]
  /\ Goto(r, "denied")
  /\ UNCHANGED <<counters, grants, popped, lapsed>>

(* A grant is only a signal: the script runs again, once.                  *)
AcquireAgain(r) ==
  /\ At(r, {"granted"}) /\ Command(r)
  /\ IF Admits(r) THEN Take(r) /\ Goto(r, "running")
     ELSE Goto(r, "denied") /\ UNCHANGED counters
  /\ UNCHANGED <<queue, grants, popped, lapsed>>

-----------------------------------------------------------------------------
(* ComputeGate.release, and the requests that never come to it *)

Release(r) ==
  /\ At(r, {"running"}) /\ Command(r)
  /\ Drop(r)
  /\ Goto(r, "released")
  /\ UNCHANGED <<queue, grants, popped, lapsed>>

(* ZPOPMIN on the workspace's queue, then LPUSH for the trace it held.  A  *)
(* BRPOP that is waiting is served with the LPUSH.                         *)
Pop(r) ==
  LET w == workspaceOf(r) IN
  /\ At(r, {"released"}) /\ Command(r)
  /\ IF queue[w] = <<>>
     THEN Goto(r, "done") /\ UNCHANGED <<queue, popped>>
     ELSE /\ Goto(r, "signalling")
          /\ queue' = [queue EXCEPT ![w] = Tail(@)]
          /\ popped' = [popped EXCEPT ![r] = Head(queue[w])]
  /\ UNCHANGED <<counters, grants, lapsed>>

Signal(r) ==
  LET q == popped[r] IN
  /\ At(r, {"signalling"}) /\ Command(r)
  /\ IF At(q, {"waiting"})
     THEN pc' = [pc EXCEPT ![r] = "done", ![q] = "granted"] /\ UNCHANGED grants
     ELSE Goto(r, "done") /\ grants' = grants \cup {q}
  /\ popped' = [popped EXCEPT ![r] = None]
  /\ UNCHANGED <<counters, queue, lapsed>>

(* An image-only turn is not executed and so not released, and neither is  *)
(* a turn whose process dies.                                              *)
Vanish(r) ==
  /\ At(r, {"running"})
  /\ Goto(r, "vanished")
  /\ UNCHANGED <<counters, queue, grants, popped, lapsed>>

(* GRANT_TTL_MS, in seconds, passes before the BRPOP gets through.         *)
GrantLapses(r) ==
  /\ r \in grants
  /\ grants' = grants \ {r}
  /\ UNCHANGED <<counters, queue, pc, popped, lapsed>>

(* ACQUIRE_TTL_MS passes since the key was last given its time to live;    *)
(* nothing prolongs it while a turn runs.                                  *)
Lapse ==
  /\ Cardinality(lapsed) < MaxLapses
  /\ \/ \E t \in Thread :
          /\ active[t] # None
          /\ active' = [active EXCEPT ![t] = None]
          /\ lapsed' = lapsed \cup {t}
          /\ UNCHANGED <<users, workspaces, weight, expiring>>
     \/ \E u \in User :
          /\ users[u] > 0
          /\ users' = [users EXCEPT ![u] = 0]
          /\ lapsed' = lapsed \cup {u}
          /\ UNCHANGED <<active, workspaces, weight, expiring>>
     \/ \E w \in Workspace :
          /\ workspaces[w] > 0
          /\ workspaces' = [workspaces EXCEPT ![w] = 0]
          /\ lapsed' = lapsed \cup {w}
          /\ UNCHANGED <<active, users, weight, expiring>>
     \/ \E p \in expiring :
          /\ weight[p] > 0
          /\ weight' = [weight EXCEPT ![p] = 0]
          /\ expiring' = expiring \ {p}
          /\ lapsed' = lapsed \cup {p}
          /\ UNCHANGED <<active, users, workspaces>>
  /\ UNCHANGED <<leases, queue, grants, pc, popped>>

-----------------------------------------------------------------------------

Over == {"done", "denied", "vanished"}

GateInit ==
  /\ active = [t \in Thread |-> None]
  /\ users = [u \in User |-> 0]
  /\ workspaces = [w \in Workspace |-> 0]
  /\ weight = [p \in Pool |-> 0]
  /\ expiring = {}
  /\ leases = {}
  /\ queue = [w \in Workspace |-> <<>>]
  /\ grants = {}
  /\ pc = [r \in Req |-> "idle"]
  /\ popped = [r \in Req |-> None]
  /\ lapsed = {}

Progress(r) ==
  \/ Enqueue(r) \/ Wait(r) \/ TimeOut(r) \/ LeaveQueue(r) \/ AcquireAgain(r)
  \/ Release(r) \/ Pop(r) \/ Signal(r)

GateIdle == (\A r \in Req : At(r, Over)) /\ UNCHANGED gateVars

GateNext ==
  \/ \E r \in Req : Bypass(r) \/ TryAcquire(r) \/ Progress(r) \/ Vanish(r) \/ GrantLapses(r)
  \/ Lapse
  \/ GateIdle

(* A reply of Redis is acted upon, a BRPOP has its timeout, an execution   *)
(* ends (ChatStream: TurnEnds).  Nobody owes a request, a lapse or a crash. *)
GateSpec == GateInit /\ [][GateNext]_gateVars
GateFairSpec == GateSpec /\ \A r \in Req : WF_gateVars(Progress(r))
=============================================================================
