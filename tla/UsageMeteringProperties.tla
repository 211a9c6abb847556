----------------------- MODULE UsageMeteringProperties -----------------------
(***************************************************************************)
(* What the usage gate and its counters are meant to do.                   *)
(***************************************************************************)
EXTENDS UsageMetering

TurnPc == {"idle", "session", "fresh", "caps", "weekly", "tokens", "spend",
           "credits", "running", "debit", "count", "spending", "week"}

Turn == [pc: TurnPc, tier: Plan \union {Missing}, msgs: Nat, cents: Nat,
         onCredits: BOOLEAN, cost: Nat]

(* Types; only a turn on credits is debited, only another one counted.     *)
UsageTypeOK ==
  /\ plan \in Plan /\ session \in Session \union {Missing}
  /\ weekly \in Nat /\ spend \in Nat /\ logged \in Nat /\ credits \in Nat
  /\ turn \in [Slot -> Turn]
  /\ {begun, skipped, unpaid, pastCap, failures} \subseteq Nat
  /\ \A t \in Slot :
       /\ turn[t].pc = "debit" => turn[t].onCredits
       /\ turn[t].pc \in {"count", "spending", "week"} => ~turn[t].onCredits

Dearest == CHOOSE c \in Cost : \A d \in Cost : d <= c

(* A window holds at most one turn of every slot beyond its cap, and one   *)
(* more for each check or write of a fresh window that failed, however     *)
(* gate, recorder, expiry and a change of plan interleave: HINCRBY loses   *)
(* nothing, and a snapshot is no older than the turns in progress.         *)
SessionOverrun ==
  \A p \in Plan :
    session # Missing /\ session.tier = p /\ MessageCap[p] > 0 =>
      session.msgs <= MessageCap[p] - 1 + Cardinality(Slot) + skipped

(* The month's spend goes beyond the user's cap by the turns in progress   *)
(* when it was reached, and by no turn that began later.                   *)
SpendOverrun ==
  SpendCap > 0 =>
    spend <= SpendCap - 1 + (Cardinality(Slot) + skipped) * Dearest

(* Types, and caps that are overrun by the turns let in together at most.  *)
MetersSound == UsageTypeOK /\ SessionOverrun /\ SpendOverrun

-----------------------------------------------------------------------------
(* The inductive strengthening of MetersSound: the turns that may still    *)
(* count themselves, in the window or in the month, are within the bound   *)
(* already.                                                                *)

Admitted(t) ==
  \/ turn[t].pc = "count"
  \/ turn[t].pc = "running" /\ ~turn[t].onCredits

Counting(t) ==
  \/ Admitted(t) \/ turn[t].pc \in {"weekly", "tokens", "spend"}
  \/ turn[t].pc = "caps" /\ ~Reached(turn[t].msgs, MessageCap[turn[t].tier])

Paying(t) == Admitted(t) \/ turn[t].pc = "spending"

WindowInv ==
  \A p \in Plan :
    session # Missing /\ session.tier = p /\ MessageCap[p] > 0 =>
      session.msgs + Cardinality({t \in Slot : Counting(t)})
        <= MessageCap[p] - 1 + Cardinality(Slot) + skipped

MonthInv ==
  SpendCap > 0 =>
    spend + Cardinality({t \in Slot : Paying(t)}) * Dearest
      <= SpendCap - 1 + (Cardinality(Slot) + skipped) * Dearest

UsageInv ==
  /\ UsageTypeOK /\ WindowInv /\ MonthInv
  /\ \A t \in Slot : turn[t].pc \in {"count", "spending"} => turn[t].cost \in Cost

-----------------------------------------------------------------------------
(* Said of the code, and refuted by it *)

(* usage-gate.ts:13 "known race: the gate reads session state then the     *)
(* runtime increments on stream end", and 16 "so this is at most one extra *)
(* message at the boundary per window".                                    *)
OneExtraMessage ==
  \A p \in Plan :
    session # Missing /\ session.tier = p /\ MessageCap[p] > 0 =>
      session.msgs <= MessageCap[p] + 1

(* usage-gate.ts:114 "Monthly spend cap blocks are NEVER bypassed": no     *)
(* turn is admitted on credits when the month's spend is at the cap.       *)
SpendCapNeverBypassed == pastCap = 0

(* usage-recorder.ts:123 "Credits-bypass path: debit the ledger": a turn   *)
(* that runs on credits is paid with credits.                              *)
CreditsArePaid == unpaid = 0
=============================================================================
