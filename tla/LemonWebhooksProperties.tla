----------------------- MODULE LemonWebhooksProperties -----------------------
(***************************************************************************)
(* What credits, subscriptions and plan tiers are meant to do.             *)
(***************************************************************************)
EXTENDS LemonWebhooks

CallPc == {"idle", "look", "balance", "check", "pre", "upsert", "insert",
           "apply", "invalidate", "done"}

(* Types, and a lock belongs to a transaction that is about to insert.     *)
WebhookTypeOK ==
  /\ hasRow \subseteq User /\ balance \in [User -> Nat]
  /\ \A u \in User : \A row \in Rows(u) : row \in LedgerRow
  /\ pc \in [Proc -> CallPc] /\ txn \in [Proc -> Mutation]
  /\ \A u \in User : holder[u] # None =>
       pc[holder[u]] = "insert" /\ txn[holder[u]].user = u
  /\ lost \subseteq Proc /\ early \subseteq Proc /\ excused \subseteq Proc /\ drifted \subseteq User
  /\ faults \in 0..MaxFaults

-----------------------------------------------------------------------------
(* Holds of the code *)

(* The ledger is a chain: every row's balance is the one before plus its   *)
(* amount, and the account holds the last one, whatever ran at once.       *)
Previous(u, i) == IF i = 1 THEN 0 ELSE ledger[u][i - 1].after
LedgerChain ==
  \A u \in User :
    /\ \A i \in 1..Len(ledger[u]) :
         ledger[u][i].after = Previous(u, i) + ledger[u][i].amount
    /\ balance[u] = Previous(u, Len(ledger[u]) + 1)

(* An order grants its credits once, also when it is delivered under two   *)
(* event ids at the same time.                                             *)
Booking(type, o) ==
  UNION {{u} \X {i \in 1..Len(ledger[u]) :
                   ledger[u][i].type = type /\ ledger[u][i].order = o} :
         u \in User}
GrantedOnce == \A o \in Order : Cardinality(Booking("purchase", o)) <= 1

(* A refund that is delivered twice at once takes the credits back once.   *)
RefundedOnce == \A o \in Order : Cardinality(Booking("refund", o)) <= 1

(* Types, and every order booked once in each direction.                   *)
BooksSound == WebhookTypeOK /\ GrantedOnce /\ RefundedOnce

(* An order whose deliveries are all answered has been granted, unless the *)
(* dispatch of one was lost after the event was recorded.                  *)
Settled(event, o) ==
  /\ \E p \in Proc : call[p].event = event /\ call[p].order = o
  /\ \A p \in Proc : call[p].event = event /\ call[p].order = o =>
       pc[p] = "done" /\ p \notin lost
AcknowledgedIsGranted ==
  \A o \in Order : Settled("order_created", o) => Booked("purchase", o)

(* A refund that is answered has taken credits back, unless none were      *)
(* left, it came before the purchase, or a consumption came in between.    *)
RefundClawsBack ==
  \A o \in Order :
    /\ Settled("order_refunded", o)
    /\ \A p \in Proc : call[p].order = o => p \notin early \union excused
    => Booked("refund", o)

(* What is acknowledged to the shop is in the ledger, in both directions.  *)
AnsweredIsBooked == AcknowledgedIsGranted /\ RefundClawsBack

(* When every delivery of a subscription's events is answered, its row     *)
(* says what the newest of them says: none is missing, also after a        *)
(* process that died behind its UPDATE, and no delivery again, at once or  *)
(* long after, has taken the row back.  Excepted are an event whose        *)
(* dispatch was lost before its UPDATE, and a subscription with an event   *)
(* that first came after a later one: nothing in the code compares times.  *)
EventOf(p, s) == call[p].event \in SubEvent /\ call[p].sub = s
Newest(s) ==
  CHOOSE p \in Proc :
    EventOf(p, s) /\ \A q \in Proc : EventOf(q, s) => call[q].seq <= call[p].seq
AllApplied(s) ==
  \A p \in Proc : EventOf(p, s) =>
    pc[p] = "done" /\ (p \in lost => call[p].seq \in applied[s].seen)
TableFollowsLastEvent ==
  \A s \in Sub :
    (\E p \in Proc : EventOf(p, s)) /\ AllApplied(s) /\ ~applied[s].overtaken =>
      subs[s].status = NewStatus(call[Newest(s)])

(* A cached tier is the tier of the table: it is stale only while the      *)
(* webhook is about to delete the key, after a look-up that overlapped the *)
(* change, a DEL that failed, or the end of a grace period.                *)
TierFresh ==
  \A u \in User \ drifted :
    /\ tierKey[u] # None
    /\ \A p \in Proc : pc[p] = "invalidate" => call[p].user # u
    => tierKey[u] \in Tiers(u)

-----------------------------------------------------------------------------
(* The inductive strengthenings of these *)

(* No two rows of the ledger book the same order in the same direction.    *)
BooksOrder(type, o, u, i) ==
  ledger[u][i].type = type /\ ledger[u][i].order = o
BookedOnce(type, o) ==
  \A u, v \in User : \A i \in DOMAIN ledger[u], j \in DOMAIN ledger[v] :
    BooksOrder(type, o, u, i) /\ BooksOrder(type, o, v, j) => u = v /\ i = j

(* What a call wants where it is; who has a balance has a row.             *)
Wants(p) ==
  \/ call[p].event = "order_created" /\ txn[p].type = "purchase" /\ txn[p].amount >= 0
  \/ call[p].event = "order_refunded" /\ txn[p].type = "refund" /\ txn[p].user \in hasRow
  \/ call[p].event = "consume" /\ txn[p].type = "consume"
PathAt(p) ==
  /\ pc[p] \in {"look", "balance"} =>
       call[p].event = "order_refunded" /\ txn[p].type = "refund" /\ txn[p].amount >= 0
  /\ InTransaction(p) => Wants(p)
  /\ pc[p] \in {"apply", "invalidate"} => call[p].event \in SubEvent
  /\ Busy(p) /\ IsWebhook(p) => txn[p].order = call[p].order
PathInv ==
  /\ \A u \in User : balance[u] # 0 => u \in hasRow
  /\ \A p \in Proc : PathAt(p)

(* Every event that is recorded has one delivery that carries it out.      *)
Outcome(p) ==
  /\ call[p].event = "order_created" => Booked("purchase", call[p].order)
  /\ call[p].event = "order_refunded" =>
       Booked("refund", call[p].order) \/ p \in early \union excused
CarriedBy(p) == Busy(p) \/ p \in lost \/ (pc[p] = "done" /\ Outcome(p))
EventInv ==
  /\ \A p \in Proc : IsWebhook(p) /\ pc[p] # "idle" => call[p].key \in events
  /\ \A p, q \in Proc :
       /\ Busy(p) /\ IsWebhook(p) /\ Busy(q) /\ IsWebhook(q)
       /\ call[p].key = call[q].key
       => p = q
  /\ \A k \in events : \E p \in Proc : IsWebhook(p) /\ call[p].key = k /\ CarriedBy(p)

(* No unique index guards a refund: what keeps it from being booked twice  *)
(* is that all deliveries of the refund of an order have one event id.     *)
OneEventPerRefund ==
  \A c \in Calls : \A p, q \in Proc :
    /\ c[p].event = "order_refunded" /\ c[q].event = "order_refunded"
    /\ c[p].order = c[q].order
    => c[p].key = c[q].key

(* An order that has been refunded is refunded by no delivery any more.    *)
RefundInv ==
  \A p \in Proc :
    call[p].event = "order_refunded" /\ Booked("refund", call[p].order) =>
      call[p].key \in events /\ ~Busy(p)

(* A row is of the user of its events.                                     *)
Tier   == {"free"} \union {c[p].tier : c \in Calls, p \in Proc}
Status == {"none"} \union
          UNION {{NewStatus(c[p]) : p \in {q \in Proc : c[q].event \in SubEvent}} : c \in Calls}
Subscription == [user: User \union {None}, tier: Tier, status: Status, overdue: BOOLEAN]
TableInv ==
  /\ subs \in [Sub -> Subscription]
  /\ \A s \in Sub : subs[s].user # None =>
       \A p \in Proc : EventOf(p, s) => call[p].user = subs[s].user

(* An event that is recorded is applied, about to be, or lost, and is not  *)
(* applied again; a row says what the newest applied event says.           *)
Awaited(p) ==
  \E q \in Proc : /\ IsWebhook(q) /\ call[q].key = call[p].key
                  /\ pc[q] = "apply" \/ q \in lost
RowFollows(s) ==
  \E p \in Proc : /\ EventOf(p, s) /\ \A n \in applied[s].seen : n <= call[p].seq
                  /\ subs[s].user # None /\ subs[s].status = NewStatus(call[p])
AppliedInv ==
  /\ applied \in [Sub -> [seen: SUBSET Nat, overtaken: BOOLEAN]]
  /\ \A s \in Sub :
       /\ \A p \in Proc : EventOf(p, s) =>
            /\ call[p].seq \in applied[s].seen => call[p].key \in events /\ pc[p] # "apply"
            /\ call[p].key \in events => call[p].seq \in applied[s].seen \/ Awaited(p)
       /\ ~applied[s].overtaken /\ 1 \in applied[s].seen => RowFollows(s)

(* What a request has found is right until the webhook changes the row.    *)
Request == [user: User \union {None}, tier: Tier, old: BOOLEAN]
TierInv ==
  /\ DOMAIN tierKey = User
  /\ resolver \in [Resolver -> Request]
  /\ \A r \in Resolver, u \in User :
       resolver[r].user = u /\ ~resolver[r].old => resolver[r].tier \in Tiers(u)
  /\ TierFresh

WebhookInv ==
  /\ WebhookTypeOK /\ PathInv /\ EventInv /\ RefundInv
  /\ TableInv /\ AppliedInv /\ TierInv
  /\ \A o \in Order : BookedOnce("purchase", o) /\ BookedOnce("refund", o)

-----------------------------------------------------------------------------
(* Said of the code, and refuted by it *)

(* webhook-handler.ts:371 "If current balance < originalCents, clamp to 0  *)
(* (user already spent some of it": a refund takes what is left.           *)
RefundTakesTheRest ==
  \A o \in Order :
    /\ Settled("order_refunded", o)
    /\ \A p \in Proc : call[p].order = o => p \notin early
    => Booked("refund", o) \/ \A u \in User : balance[u] = 0
=============================================================================
