---------------------------- MODULE LemonWebhooks ----------------------------
(***************************************************************************)
(* LemonSqueezy webhooks and the plan tier they decide:                    *)
(* src/src/billing/lemonsqueezy/webhook-handler.ts, subscription-repo.ts,  *)
(* and src/src/middleware/resolve-plan-tier.ts with its Redis cache.       *)
(* Orders and turns paid with credits go through CreditLedger.             *)
(***************************************************************************)
EXTENDS CreditLedger

CONSTANTS
  Sub,        \* LemonSqueezy subscriptions
  Resolver,   \* requests that resolve a plan tier
  Calls,      \* the sets of calls a behaviour may begin with
  MaxFaults   \* bound: failed dispatches, crashes and failed DELs

ASSUME WebhookAssumption == MaxFaults \in Nat /\ None \notin Sub

ASSUME CallAssumption ==
  \A c \in Calls : \A p \in Proc :
    c[p].user \in User /\ c[p].order \in Order \union {None} /\ c[p].amount \in Nat

VARIABLES
  call,     \* what each call is about; fixed
  events,   \* ls_event_ids in billing_events
  subs,     \* the rows of billing_subscriptions
  tierKey,  \* plan_tier:user:<id> in Redis
  resolver, \* requests between their look-up and the SET
  lost,     \* history: calls recorded or begun, and not carried out
  early,    \* history: refunds that came before their purchase
  excused,  \* history: refunds that found nothing, or less than they read
  applied,  \* history: per subscription, the events that changed its row,
            \* by their place in LemonSqueezy's order, and whether one came
            \* to it for the first time after a later one
  drifted,  \* history: users whose key may be older than the table
  faults

subVars     == <<subs, applied>>
tierVars    == <<tierKey, resolver, drifted>>
webhookVars == <<ledgerVars, call, events, subVars, tierVars, lost, early,
                 excused, faults>>

-----------------------------------------------------------------------------
(* Events *)

Upserting == {"subscription_created", "subscription_updated",
              "subscription_resumed", "subscription_unpaused"}
Verdict ==
  [subscription_cancelled       |-> "cancelled",
   subscription_expired         |-> "expired",
   subscription_payment_success |-> "active",
   subscription_payment_failed  |-> "past_due",
   subscription_paused          |-> "paused",
   subscription_payment_refunded |-> "refunded"]
SubEvent   == Upserting \union DOMAIN Verdict
OrderEvent == {"order_created", "order_refunded"}
Webhook    == SubEvent \union OrderEvent

NewStatus(c) == IF c.event \in Upserting THEN c.status ELSE Verdict[c.event]

(* What LemonSqueezy delivers: an id names one event, and an event of a    *)
(* subscription has one.  A subscription is of one user and begins with an *)
(* event that carries all of it, and each of its events says the same      *)
(* however often it is delivered.                                          *)
ASSUME ShopAssumption ==
  \A c \in Calls : \A p, q \in Proc :
    /\ {c[p].event, c[q].event} \subseteq Webhook /\ c[p].key = c[q].key =>
         c[p].event = c[q].event /\ c[p].order = c[q].order
    /\ c[p].event \in SubEvent =>
         /\ c[p].sub \in Sub /\ c[p].seq \in Nat
         /\ c[p].seq = 1 => c[p].event \in Upserting
         /\ \E r \in Proc : c[r].event \in SubEvent /\ c[r].sub = c[p].sub /\ c[r].seq = 1
    /\ {c[p].event, c[q].event} \subseteq SubEvent /\ c[p].key = c[q].key =>
         c[p].sub = c[q].sub /\ c[p].seq = c[q].seq
    /\ {c[p].event, c[q].event} \subseteq SubEvent /\ c[p].sub = c[q].sub =>
         /\ c[p].user = c[q].user
         /\ c[p].seq = c[q].seq =>
              c[p].key = c[q].key /\ NewStatus(c[p]) = NewStatus(c[q])

IsWebhook(p) == call[p].event \in Webhook

(* insertEventIdempotent, then dispatchEvent.  A failure to record is a    *)
(* 500 with nothing done, and LemonSqueezy delivers again.                 *)
FirstStep(c) ==
  IF c.event = "order_created" THEN "check"
  ELSE IF c.event = "order_refunded" THEN "look" ELSE "apply"

Ordered(c) ==
  [type |-> IF c.event = "order_refunded" THEN "refund" ELSE "purchase",
   user |-> c.user, order |-> c.order, amount |-> c.amount, after |-> 0]

Unfinished(p) == \E q \in lost : call[q].key = call[p].key

ReceiveRetried(p) ==
  /\ pc[p] = "idle" /\ IsWebhook(p)
  /\ IF call[p].key \in events /\ ~Unfinished(p)
     THEN /\ pc' = [pc EXCEPT ![p] = "done"]
          /\ UNCHANGED <<events, txn>>
     ELSE /\ events' = events \union {call[p].key}
          /\ pc' = [pc EXCEPT ![p] = FirstStep(call[p])]
          /\ txn' = [txn EXCEPT ![p] = Ordered(call[p])]
  /\ UNCHANGED <<accounts, holder, call, subVars, tierVars, lost, early,
                 excused, faults>>

Receive(p) ==
  /\ pc[p] = "idle" /\ IsWebhook(p)
  /\ IF call[p].key \in events
     THEN /\ pc' = [pc EXCEPT ![p] = "done"]
          /\ UNCHANGED <<events, txn>>
     ELSE /\ events' = events \union {call[p].key}
          /\ pc' = [pc EXCEPT ![p] = FirstStep(call[p])]
          /\ txn' = [txn EXCEPT ![p] = Ordered(call[p])]
  /\ UNCHANGED <<accounts, holder, call, subVars, tierVars, lost, early,
                 excused, faults>>

(* recordUsage of a turn that runs on credits.                             *)
Consume(p) ==
  /\ pc[p] = "idle" /\ call[p].event = "consume"
  /\ Begin(p, [type |-> "consume", user |-> call[p].user, order |-> None,
               amount |-> -call[p].amount, after |-> 0])
  /\ UNCHANGED <<call, events, subVars, tierVars, lost, early, excused,
                 faults>>

(* order_refunded: the purchase, then the balance, then the clawback.      *)
LookForPurchase(p) ==
  /\ pc[p] = "look"
  /\ IF Booked("purchase", txn[p].order)
     THEN /\ pc' = [pc EXCEPT ![p] = "balance"]
          /\ UNCHANGED early
     ELSE /\ pc' = [pc EXCEPT ![p] = "done"]
          /\ early' = early \union {p}
  /\ UNCHANGED <<accounts, holder, txn, call, events, subVars, tierVars,
                 lost, excused, faults>>

Clawback(p) == IF balance[txn[p].user] < txn[p].amount
               THEN balance[txn[p].user] ELSE txn[p].amount

ReadBalance(p) ==
  /\ pc[p] = "balance"
  /\ IF Clawback(p) = 0
     THEN /\ pc' = [pc EXCEPT ![p] = "done"]
          /\ excused' = excused \union {p}
          /\ UNCHANGED txn
     ELSE /\ pc' = [pc EXCEPT ![p] = "check"]
          /\ txn' = [txn EXCEPT ![p].amount = -Clawback(p)]
          /\ UNCHANGED excused
  /\ UNCHANGED <<accounts, holder, call, events, subVars, tierVars, lost,
                 early, faults>>

(* A clawback that finds less than it read is refused as insufficient.     *)
Mutate(p) ==
  /\ LedgerStep(p)
  /\ excused' = IF pc[p] = "upsert" /\ txn[p].type = "refund"
                   /\ pc'[p] = "done"
                THEN excused \union {p} ELSE excused
  /\ UNCHANGED <<call, events, subVars, tierVars, lost, early, faults>>

-----------------------------------------------------------------------------
(* Subscriptions: upsertSubscription, or updateStatus, which matches no    *)
(* row of a subscription that was not created yet.                         *)

NoSub == [user |-> None, tier |-> "free", status |-> "none",
          overdue |-> FALSE]

Renews(c) == c.event \in Upserting \union {"subscription_payment_success"}

ApplyRow(c) ==
  IF c.event \in Upserting
  THEN [user |-> c.user, tier |-> c.tier, status |-> c.status,
        overdue |-> FALSE]
  ELSE IF subs[c.sub] = NoSub THEN NoSub
  ELSE [subs[c.sub] EXCEPT !.status = NewStatus(c),
                           !.overdue = IF Renews(c) THEN FALSE ELSE @]

Apply(p) ==
  /\ pc[p] = "apply"
  /\ LET c == call[p] IN
     /\ subs' = [subs EXCEPT ![c.sub] = ApplyRow(c)]
     /\ applied' = [applied EXCEPT ![c.sub] =
          [seen |-> @.seen \union {c.seq},
           overtaken |-> @.overtaken \/ (c.seq \notin @.seen
                                         /\ \E n \in @.seen : n > c.seq)]]
     /\ resolver' = [r \in Resolver |->
          IF resolver[r].user = c.user THEN [resolver[r] EXCEPT !.old = TRUE]
          ELSE resolver[r]]
  /\ pc' = [pc EXCEPT ![p] = "invalidate"]
  /\ UNCHANGED <<accounts, holder, txn, call, events, tierKey, drifted, lost,
                 early, excused, faults>>

Uncached(u) == [tierKey EXCEPT ![u] = None]

InvalidateUpserts(p) ==
  /\ pc[p] = "invalidate"
  /\ tierKey' = IF call[p].event \in Upserting THEN Uncached(call[p].user)
                ELSE tierKey
  /\ drifted' = drifted \ {call[p].user}
  /\ pc' = [pc EXCEPT ![p] = "done"]
  /\ UNCHANGED <<accounts, holder, txn, call, events, subVars, resolver,
                 lost, early, excused, faults>>

Invalidate(p) ==
  /\ pc[p] = "invalidate"
  /\ tierKey' = Uncached(call[p].user)
  /\ drifted' = drifted \ {call[p].user}
  /\ pc' = [pc EXCEPT ![p] = "done"]
  /\ UNCHANGED <<accounts, holder, txn, call, events, subVars, resolver,
                 lost, early, excused, faults>>

InvalidateFails(p) ==
  /\ pc[p] = "invalidate" /\ faults < MaxFaults
  /\ drifted' = drifted \union {call[p].user}
  /\ pc' = [pc EXCEPT ![p] = "done"]
  /\ faults' = faults + 1
  /\ UNCHANGED <<accounts, holder, txn, call, events, subVars, tierKey,
                 resolver, lost, early, excused>>

-----------------------------------------------------------------------------
(* Faults: a statement of the dispatch fails, which is answered 200 all    *)
(* the same; or the process dies, and LemonSqueezy delivers again.         *)

Busy(p) == pc[p] \notin {"idle", "done"}

DispatchFails(p) ==
  /\ Busy(p) /\ pc[p] # "invalidate" /\ faults < MaxFaults
  /\ Rollback(p)
  /\ pc' = [pc EXCEPT ![p] = "done"]
  /\ lost' = lost \union {p}
  /\ faults' = faults + 1
  /\ UNCHANGED <<txn, call, events, subVars, tierVars, early, excused>>

Die(p) ==
  /\ Busy(p) /\ faults < MaxFaults
  /\ Rollback(p)
  /\ pc' = [pc EXCEPT ![p] = IF IsWebhook(p) THEN "idle" ELSE "done"]
  /\ lost' = lost \union {p}
  /\ drifted' = IF pc[p] = "invalidate"
                THEN drifted \union {call[p].user} ELSE drifted
  /\ faults' = faults + 1
  /\ UNCHANGED <<txn, call, events, subVars, tierKey, resolver, early,
                 excused>>

-----------------------------------------------------------------------------
(* The plan tier of a request: findActiveByUser, the grace of a past_due   *)
(* subscription, and a SET that nobody waits for.                          *)

Rank(status) == CASE status = "active" -> 0 [] status = "trialing" -> 1
                  [] status = "past_due" -> 2 [] OTHER -> 3
Candidates(u) == {s \in Sub : subs[s].user = u /\ Rank(subs[s].status) < 3}
Found(u) == {s \in Candidates(u) : \A t \in Candidates(u) :
               Rank(subs[s].status) <= Rank(subs[t].status)}
TierOf(s) == IF subs[s].status = "past_due" /\ subs[s].overdue
             THEN "free" ELSE subs[s].tier
Tiers(u)  == IF Found(u) = {} THEN {"free"} ELSE {TierOf(s) : s \in Found(u)}

Resting == [user |-> None, tier |-> "free", old |-> FALSE]

(* A request that finds the key changes nothing.                           *)
LookUp(r) ==
  /\ resolver[r].user = None
  /\ \E u \in User : \E tier \in Tiers(u) :
       /\ tierKey[u] = None
       /\ resolver' = [resolver EXCEPT ![r] =
            [user |-> u, tier |-> tier, old |-> FALSE]]
  /\ UNCHANGED <<ledgerVars, call, events, subVars, tierKey, drifted, lost,
                 early, excused, faults>>

SetKey(r) ==
  /\ resolver[r].user # None
  /\ LET u == resolver[r].user IN
     /\ tierKey' = [tierKey EXCEPT ![u] = resolver[r].tier]
     /\ drifted' = IF resolver[r].old THEN drifted \union {u} ELSE drifted \ {u}
  /\ resolver' = [resolver EXCEPT ![r] = Resting]
  /\ UNCHANGED <<ledgerVars, call, events, subVars, lost, early, excused,
                 faults>>

KeyExpires(u) ==
  /\ tierKey[u] # None
  /\ tierKey' = Uncached(u)
  /\ drifted' = drifted \ {u}
  /\ UNCHANGED <<ledgerVars, call, events, subVars, resolver, lost, early,
                 excused, faults>>

(* Three days after the end of the period.                                 *)
GraceEnds(s) ==
  /\ subs[s].user # None /\ ~subs[s].overdue
  /\ subs' = [subs EXCEPT ![s].overdue = TRUE]
  /\ drifted' = IF subs[s].status = "past_due"
                THEN drifted \union {subs[s].user} ELSE drifted
  /\ resolver' = [r \in Resolver |->
       IF resolver[r].user = subs[s].user
       THEN [resolver[r] EXCEPT !.old = TRUE] ELSE resolver[r]]
  /\ UNCHANGED <<ledgerVars, call, events, applied, tierKey, lost, early,
                 excused, faults>>

-----------------------------------------------------------------------------
WebhookInit ==
  /\ LedgerInit
  /\ call \in Calls
  /\ events = {}
  /\ subs = [s \in Sub |-> NoSub]
  /\ applied = [s \in Sub |-> [seen |-> {}, overtaken |-> FALSE]]
  /\ tierKey = [u \in User |-> None]
  /\ resolver = [r \in Resolver |-> Resting]
  /\ lost = {} /\ early = {} /\ excused = {} /\ drifted = {}
  /\ faults = 0

CallStep(p) ==
  \/ Receive(p) \/ Consume(p) \/ LookForPurchase(p) \/ ReadBalance(p)
  \/ Mutate(p) \/ Apply(p) \/ Invalidate(p) \/ InvalidateFails(p)
  \/ DispatchFails(p)

WebhookNext ==
  \/ \E p \in Proc : CallStep(p) \/ Die(p)
  \/ \E r \in Resolver : LookUp(r) \/ SetKey(r)
  \/ \E u \in User : KeyExpires(u)
  \/ \E s \in Sub : GraceEnds(s)

WebhookSpec == WebhookInit /\ [][WebhookNext]_webhookVars
=============================================================================
