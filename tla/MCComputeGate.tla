--------------------------- MODULE MCComputeGate ---------------------------
(***************************************************************************)
(* Instances of ComputeGate for TLC.                                       *)
(***************************************************************************)
EXTENDS ComputeGateProperties

CONSTANTS i1, i2, t1, t2, u1, u2, w1, w2

ticket(t, u, w, tier, plan, i) ==
  [threadId |-> t, userId |-> u, workspaceId |-> w, computeTier |-> tier,
   planTier |-> plan, instance |-> i]

CONSTANTS a, b, c, d

(* a and b are turns of one free user on two threads, c is his DEEP turn,  *)
(* d an enterprise turn on the thread of b.                                *)
Mixed ==
  [r \in Req |->
     CASE r = a -> ticket(t1, u1, w1, "FAST", "free", i1)
       [] r = b -> ticket(t2, u1, w1, "NORMAL", "free", i2)
       [] r = c -> ticket(t1, u1, w1, "DEEP", "free", i2)
       [] r = d -> ticket(t2, u2, w1, "DEEP", "enterprise", i1)]

(* Two enterprise turns of two users and a free one.                       *)
Overflow ==
  [r \in Req |->
     CASE r = a -> ticket(t1, u1, w1, "FAST", "enterprise", i1)
       [] r = b -> ticket(t2, u2, w1, "FAST", "max", i2)
       [] r = c -> ticket(t1, u1, w2, "FAST", "free", i2)
       [] r = d -> ticket(t2, u2, w2, "NORMAL", "pro", i1)]
=============================================================================
