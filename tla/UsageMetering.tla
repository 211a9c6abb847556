---------------------------- MODULE UsageMetering ----------------------------
(***************************************************************************)
(* What a user's chat turns may use: the gate in front of a turn           *)
(* (src/src/ai/billing/usage-gate.ts, called by control/chat-controller.ts *)
(* and middleware/check-usage-gate.ts), the meters behind it             *)
(* (usage-session-tracker.ts, usage-weekly-tracker.ts) and the recorder    *)
(* that runs when a turn is over (usage-recorder.ts).                      *)
(*                                                                         *)
(* One user; every Redis command or SQL statement is an action.  Tokens    *)
(* are counted as the cents they cost, and a debit of the credits is one   *)
(* step: CreditLedger shows that the ledger keeps the balance.             *)
(***************************************************************************)
EXTENDS Integers, FiniteSets

CONSTANTS
  Slot,        \* turns that can be in progress at once
  Plan,        \* plan tiers; PLAN_CONFIGS gives each its limits
  MessageCap, SessionCostCap, \* per session window, by plan; 0 is none
  WeeklyCap,   \* messages of a week, by plan; 0 is none
  TokenCap,    \* tokens of a day or month, by plan; 0 is none
  SpendCap,    \* user_billing_cap.monthly_cap_usd in cents; 0 is none
  Cost,        \* what a turn may turn out to cost
  Credits,     \* prepaid cents at the start
  MaxTurns,    \* bound: turns begun
  MaxMisses,   \* bound: checks and records that fail
  Missing

ASSUME UsageAssumption ==
  /\ MessageCap \in [Plan -> Nat] /\ SessionCostCap \in [Plan -> Nat]
  /\ WeeklyCap \in [Plan -> Nat] /\ TokenCap \in [Plan -> Nat]
  /\ SpendCap \in Nat /\ Cost \subseteq Nat
  /\ \E c \in Cost : \A d \in Cost : d <= c
  /\ IsFiniteSet(Slot)
  /\ Credits \in Nat /\ MaxTurns \in Nat /\ MaxMisses \in Nat
  /\ Missing \notin Plan

VARIABLES
  plan,    \* the user's plan tier
  session, \* usage:session:user:<id>, or Missing
  weekly,  \* messages of this week's bucket
  spend,   \* usage:spend:user:<id>:<month>
  logged,  \* cost in workspace_usage_log
  credits, \* balance_usd_cents
  turn,    \* each turn: where it is and what it has read
  begun,   \* turns begun
  skipped, \* history: checks that failed open, and fresh hashes not written
  unpaid,  \* history: turns run on credits that were not debited
  pastCap, \* history: turns admitted with the month's spend at its cap
  failures \* records that failed

meters  == <<session, weekly, spend, logged, credits>>
usageVars == <<plan, meters, turn, begun, skipped, unpaid, pastCap,
               failures>>

-----------------------------------------------------------------------------
(* windowStart is missing when a HINCRBY created the hash; such a hash has *)
(* no time to live either.                                                 *)
Session == [started: BOOLEAN, tier: Plan \union {Missing}, msgs: Nat, cents: Nat]
Fresh(tier) == [started |-> TRUE, tier |-> tier, msgs |-> 0, cents |-> 0]
Orphan == [started |-> FALSE, tier |-> Missing, msgs |-> 0, cents |-> 0]

NoTurn == [pc |-> "idle", tier |-> Missing, msgs |-> 0, cents |-> 0,
           onCredits |-> FALSE, cost |-> 0]

Usable(s, tier) == s # Missing /\ s.started /\ s.tier = tier
Reached(used, cap) == cap > 0 /\ used >= cap

Move(t, from, to) ==
  /\ turn[t].pc = from
  /\ turn' = [turn EXCEPT ![t] = IF to = "idle" THEN NoTurn
                                 ELSE [@ EXCEPT !.pc = to]]

-----------------------------------------------------------------------------
(* checkUsage.  The middleware and the controller run the same checks; the *)
(* answer of the second one is what the turn carries.                      *)

StartTurn(t) ==
  /\ turn[t].pc = "idle" /\ begun < MaxTurns
  /\ turn' = [turn EXCEPT ![t] = [NoTurn EXCEPT !.pc = "session",
                                               !.tier = plan]]
  /\ begun' = begun + 1
  /\ UNCHANGED <<plan, meters, skipped, unpaid, pastCap, failures>>

(* getOrInitSession reads; a missing, expired or other-tier hash is        *)
(* written afresh by a second command.                                     *)
ReadSession(t) ==
  /\ turn[t].pc = "session"
  /\ turn' = [turn EXCEPT ![t] =
       IF Usable(session, @.tier)
       THEN [@ EXCEPT !.pc = "caps", !.msgs = session.msgs,
                      !.cents = session.cents]
       ELSE [@ EXCEPT !.pc = "fresh"]]
  /\ UNCHANGED <<plan, meters, begun, skipped, unpaid, pastCap, failures>>

(* An HGETALL that throws counts as a missing hash, and wipes it.          *)
SessionReadFails(t) ==
  /\ skipped + failures < MaxMisses
  /\ Move(t, "session", "fresh")
  /\ skipped' = skipped + 1
  /\ UNCHANGED <<plan, meters, begun, unpaid, pastCap, failures>>

WriteFresh(t) ==
  /\ Move(t, "fresh", "caps")
  /\ session' = Fresh(turn[t].tier)
  /\ UNCHANGED <<plan, weekly, spend, logged, credits, begun, skipped,
                 unpaid, pastCap, failures>>

(* A write that throws is swallowed: the old hash stays, and the turn goes *)
(* on with the state that is not there and will count itself in the old.   *)
WriteFreshFails(t) ==
  /\ skipped + failures < MaxMisses
  /\ Move(t, "fresh", "caps")
  /\ skipped' = skipped + 1
  /\ UNCHANGED <<plan, meters, begun, unpaid, pastCap, failures>>

OverSession(t) ==
  \/ Reached(turn[t].msgs, MessageCap[turn[t].tier])
  \/ Reached(turn[t].cents, SessionCostCap[turn[t].tier])

SessionCaps(t) ==
  /\ turn[t].pc = "caps"
  /\ turn' = [turn EXCEPT ![t] =
       [@ EXCEPT !.pc = IF OverSession(t) THEN "credits" ELSE "weekly",
                 !.msgs = 0, !.cents = 0]]
  /\ UNCHANGED <<plan, meters, begun, skipped, unpaid, pastCap, failures>>

WeeklyCheck(t) ==
  /\ Move(t, "weekly", IF Reached(weekly, WeeklyCap[turn[t].tier])
                       THEN "credits" ELSE "tokens")
  /\ UNCHANGED <<plan, meters, begun, skipped, unpaid, pastCap, failures>>

TokenCheck(t) ==
  /\ Move(t, "tokens", IF Reached(logged, TokenCap[turn[t].tier])
                       THEN "idle" ELSE "spend")
  /\ UNCHANGED <<plan, meters, begun, skipped, unpaid, pastCap, failures>>

OverSpendLate == SpendCap > 0 /\ spend > SpendCap
OverSpend == Reached(spend, SpendCap)

SpendCheck(t) ==
  /\ Move(t, "spend", IF OverSpend THEN "idle" ELSE "running")
  /\ UNCHANGED <<plan, meters, begun, skipped, unpaid, pastCap, failures>>

(* tryCreditsBypass: the callers estimate 0, so one cent is enough.  It    *)
(* answers for the whole gate: what comes after it is not asked.           *)
CreditsBypass(t) ==
  /\ turn[t].pc = "credits"
  /\ turn' = [turn EXCEPT ![t] =
       IF credits >= 1 THEN [@ EXCEPT !.pc = "running", !.onCredits = TRUE]
       ELSE NoTurn]
  /\ pastCap' = IF credits >= 1 /\ OverSpend
                THEN pastCap + 1 ELSE pastCap
  /\ UNCHANGED <<plan, meters, begun, skipped, unpaid, failures>>

(* A check that throws is skipped; without a balance there is no bypass.   *)
NextCheck ==
  [session |-> "weekly", weekly |-> "tokens", tokens |-> "spend",
   spend |-> "running", credits |-> "idle"]
FailOpen(t) ==
  /\ turn[t].pc \in DOMAIN NextCheck /\ skipped + failures < MaxMisses
  /\ Move(t, turn[t].pc, NextCheck[turn[t].pc])
  /\ skipped' = skipped + 1
  /\ UNCHANGED <<plan, meters, begun, unpaid, pastCap, failures>>

-----------------------------------------------------------------------------
(* The turn ends; one that is aborted is not recorded.                     *)

Abort(t) ==
  /\ turn[t].pc = "running"
  /\ turn' = [turn EXCEPT ![t] = NoTurn]
  /\ UNCHANGED <<plan, meters, begun, skipped, unpaid, pastCap, failures>>

(* recordUsage: the log, if it knows the workspace and the INSERT works,   *)
(* then the credits or the three meters.                                   *)
Log(t) ==
  /\ turn[t].pc = "running"
  /\ \E c \in Cost :
       /\ turn' = [turn EXCEPT ![t].cost = c,
                     ![t].pc = IF turn[t].onCredits THEN "debit"
                               ELSE "count"]
       /\ \/ logged' = logged + c /\ UNCHANGED failures
          \/ /\ skipped + failures < MaxMisses /\ failures' = failures + 1
             /\ UNCHANGED logged
  /\ UNCHANGED <<plan, session, weekly, spend, credits, begun, skipped,
                 unpaid, pastCap>>

(* A debit beyond the balance is refused as a whole, and no one looks.     *)
Debit(t) ==
  /\ turn[t].pc = "debit"
  /\ IF turn[t].cost <= credits
     THEN credits' = credits - turn[t].cost /\ UNCHANGED unpaid
     ELSE unpaid' = unpaid + 1 /\ UNCHANGED credits
  /\ turn' = [turn EXCEPT ![t] = NoTurn]
  /\ UNCHANGED <<plan, session, weekly, spend, logged, begun, skipped,
                 pastCap, failures>>

IncrementSession(t) ==
  /\ Move(t, "count", "spending")
  /\ LET s == IF session = Missing THEN Orphan ELSE session IN
       session' = [s EXCEPT !.msgs = @ + 1, !.cents = @ + turn[t].cost]
  /\ UNCHANGED <<plan, weekly, spend, logged, credits, begun, skipped,
                 unpaid, pastCap, failures>>

IncrementSpend(t) ==
  /\ Move(t, "spending", "week")
  /\ spend' = spend + turn[t].cost
  /\ UNCHANGED <<plan, session, weekly, logged, credits, begun, skipped,
                 unpaid, pastCap, failures>>

IncrementWeekly(t) ==
  /\ turn[t].pc = "week"
  /\ turn' = [turn EXCEPT ![t] = NoTurn]
  /\ weekly' = weekly + 1
  /\ UNCHANGED <<plan, session, spend, logged, credits, begun, skipped,
                 unpaid, pastCap, failures>>

(* Each record fails on its own and the next one is tried.                 *)
NextRecord ==
  [debit |-> "idle", count |-> "spending", spending |-> "week",
   week |-> "idle"]
RecordFails(t) ==
  /\ turn[t].pc \in DOMAIN NextRecord /\ skipped + failures < MaxMisses
  /\ Move(t, turn[t].pc, NextRecord[turn[t].pc])
  /\ failures' = failures + 1
  /\ UNCHANGED <<plan, meters, begun, skipped, unpaid, pastCap>>

-----------------------------------------------------------------------------
(* Time and the subscription                                               *)

SessionExpires ==
  /\ session # Missing /\ session.started
  /\ session' = Missing
  /\ UNCHANGED <<plan, weekly, spend, logged, credits, turn, begun, skipped,
                 unpaid, pastCap, failures>>

WeekRolls ==
  /\ weekly > 0
  /\ weekly' = 0
  /\ UNCHANGED <<plan, session, spend, logged, credits, turn, begun, skipped,
                 unpaid, pastCap, failures>>

(* The day or the month, with the month's spend key.                       *)
MonthRolls ==
  /\ logged + spend > 0
  /\ logged' = 0 /\ spend' = 0
  /\ UNCHANGED <<plan, session, weekly, credits, turn, begun, skipped,
                 unpaid, pastCap, failures>>

PlanChanges ==
  /\ begun < MaxTurns
  /\ \E p \in Plan \ {plan} : plan' = p
  /\ UNCHANGED <<meters, turn, begun, skipped, unpaid, pastCap, failures>>

-----------------------------------------------------------------------------
UsageInit ==
  /\ plan \in Plan
  /\ session = Missing
  /\ weekly = 0 /\ spend = 0 /\ logged = 0
  /\ credits = Credits
  /\ turn = [t \in Slot |-> NoTurn]
  /\ begun = 0 /\ skipped = 0 /\ unpaid = 0 /\ pastCap = 0 /\ failures = 0

TurnStep(t) ==
  \/ StartTurn(t) \/ ReadSession(t) \/ SessionReadFails(t) \/ WriteFresh(t)
  \/ WriteFreshFails(t) \/ SessionCaps(t) \/ WeeklyCheck(t) \/ TokenCheck(t) \/ SpendCheck(t) \/ CreditsBypass(t)
  \/ FailOpen(t) \/ Abort(t) \/ Log(t) \/ Debit(t) \/ IncrementSession(t)
  \/ IncrementSpend(t) \/ IncrementWeekly(t) \/ RecordFails(t)

UsageNext ==
  \/ \E t \in Slot : TurnStep(t)
  \/ SessionExpires \/ WeekRolls \/ MonthRolls \/ PlanChanges

UsageSpec == UsageInit /\ [][UsageNext]_usageVars
=============================================================================
