----------------------------- MODULE MCBilling -----------------------------
(***************************************************************************)
(* Instances of LemonWebhooks and UsageMetering for TLC.  They share only  *)
(* a balance, which UsageMetering takes as a number: a behaviour is one of *)
(* the webhooks or one of the turns, and the other part stands still.      *)
(***************************************************************************)
EXTENDS LemonWebhooksProperties, UsageMeteringProperties

CONSTANTS p1, p2, p3, p4, u1, o1, o2, s1, s2

orders(event, o, key, amount) ==
  [event |-> event, key |-> key, user |-> u1, order |-> o, amount |-> amount,
   sub |-> s1, tier |-> "free", status |-> "none", seq |-> 0]
subscription(event, s, seq, tier, status) ==
  [event |-> event, key |-> <<event, s, seq>>, user |-> u1, order |-> o1,
   amount |-> 0, sub |-> s, tier |-> tier, status |-> status, seq |-> seq]

four(a, b, c, d) ==
  [p \in Proc |-> CASE p = p1 -> a [] p = p2 -> b [] p = p3 -> c
                    [] p = p4 -> d]

(* One order under two event ids, its refund, and a turn that spends.      *)
TwoKeys ==
  four(orders("order_created", o1, "k1", 2),
       orders("order_created", o1, "k2", 2),
       orders("order_refunded", o1, "k3", 2),
       orders("consume", None, "k4", 1))

(* Two orders; the refund of the first is delivered twice.                 *)
TwiceRefunded ==
  four(orders("order_created", o1, "k1", 2),
       orders("order_created", o2, "k2", 2),
       orders("order_refunded", o1, "k3", 2),
       orders("order_refunded", o1, "k3", 2))

(* A subscription that fails to be paid and is cancelled, and a redelivery.*)
Cancelled ==
  four(subscription("subscription_created", s1, 1, "pro", "active"),
       subscription("subscription_payment_failed", s1, 2, "pro", "none"),
       subscription("subscription_cancelled", s1, 3, "pro", "none"),
       subscription("subscription_payment_failed", s1, 2, "pro", "none"))

(* A subscription that a better one replaces.                              *)
Upgraded ==
  four(subscription("subscription_created", s1, 1, "pro", "active"),
       subscription("subscription_created", s2, 1, "max", "trialing"),
       subscription("subscription_expired", s1, 2, "pro", "none"),
       subscription("subscription_payment_success", s2, 2, "max", "none"))

CONSTANTS free, pro

limits(a, b) == [p \in Plan |-> IF p = free THEN a ELSE b]
Messages    == limits(1, 2)
SessionCost == limits(0, 3)
Weekly      == limits(2, 0)
Tokens      == limits(4, 0)

Scenarios == {TwoKeys, TwiceRefunded, Cancelled, Upgraded}
SpentMeanwhile == {TwoKeys}

VARIABLE part  \* which part moves

BillingInit ==
  /\ part \in {"webhooks", "turns"}
  /\ WebhookInit /\ UsageInit
  /\ part = "webhooks" => plan = free
  /\ part = "turns" => call = TwoKeys

BillingNext ==
  \/ part = "webhooks" /\ WebhookNext /\ UNCHANGED <<usageVars, part>>
  \/ part = "turns" /\ UsageNext /\ UNCHANGED <<webhookVars, part>>

BillingSpec ==
  BillingInit /\ [][BillingNext]_<<webhookVars, usageVars, part>>
=============================================================================
