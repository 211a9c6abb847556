---------------------------- MODULE CreditLedger ----------------------------
(***************************************************************************)
(* Prepaid credits: applyCreditMutation of                                 *)
(* src/src/billing/lemonsqueezy/credit-grant.ts over the tables            *)
(* user_credits and user_credit_ledger.                                    *)
(*                                                                         *)
(* Several callers run the transaction at once.  It is cut into its        *)
(* statements; what it writes is seen by others when it commits, and the   *)
(* row that the UPSERT touched is locked from then on.                     *)
(***************************************************************************)
EXTENDS Integers, Sequences, FiniteSets

CONSTANTS
  Proc,   \* calls in progress: webhook deliveries and finished turns
  User,
  Order,  \* LemonSqueezy orders
  None

ASSUME LedgerAssumption ==
  None \notin User \union Order \union Proc /\ User # {}

VARIABLES
  hasRow,  \* users with a row in user_credits
  balance, \* balance_usd_cents, 0 without a row
  ledger,  \* the ledger rows of each user, oldest first
  holder,  \* the transaction that holds the lock on a user's row
  pc,      \* where each call is
  txn      \* the mutation each call wants, and its new balance

accounts   == <<hasRow, balance, ledger>>
ledgerVars == <<accounts, holder, pc, txn>>

-----------------------------------------------------------------------------
MutationType == {"purchase", "refund", "consume"}
LedgerRow == [type: MutationType, amount: Int, after: Nat,
              order: Order \union {None}]
Mutation  == [type: MutationType, user: User, order: Order \union {None},
              amount: Int, after: Nat]

Rows(u) == {ledger[u][i] : i \in 1..Len(ledger[u])}
Booked(type, o) ==
  \E u \in User : \E row \in Rows(u) : row.type = type /\ row.order = o

Begin(p, m) ==
  /\ pc' = [pc EXCEPT ![p] = "check"]
  /\ txn' = [txn EXCEPT ![p] = m]
  /\ UNCHANGED <<accounts, holder>>

Leave(p) ==
  /\ pc' = [pc EXCEPT ![p] = "done"]
  /\ UNCHANGED <<accounts, holder, txn>>

(* The look for the same order; a consumption has no order and passes.     *)
CheckDuplicate(p) ==
  /\ pc[p] = "check"
  /\ IF txn[p].type # "consume" /\ Booked(txn[p].type, txn[p].order)
     THEN Leave(p)
     ELSE /\ pc' = [pc EXCEPT ![p] = "pre"]
          /\ UNCHANGED <<accounts, holder, txn>>

CheckRowAlways(p) ==
  /\ pc[p] = "pre"
  /\ IF txn[p].user \notin hasRow
     THEN Leave(p)
     ELSE /\ pc' = [pc EXCEPT ![p] = "upsert"]
          /\ UNCHANGED <<accounts, holder, txn>>

(* A debit of a user without a row is refused here.                        *)
CheckRow(p) ==
  /\ pc[p] = "pre"
  /\ IF txn[p].amount < 0 /\ txn[p].user \notin hasRow
     THEN Leave(p)
     ELSE /\ pc' = [pc EXCEPT ![p] = "upsert"]
          /\ UNCHANGED <<accounts, holder, txn>>

UpsertUnlocked(p) ==
  /\ pc[p] = "upsert"
  /\ LET u == txn[p].user
         after == balance[u] + txn[p].amount IN
       IF after < 0
       THEN Leave(p)
       ELSE /\ txn' = [txn EXCEPT ![p].after = after]
            /\ pc' = [pc EXCEPT ![p] = "insert"]
            /\ UNCHANGED <<accounts, holder>>

(* Waits for the row lock, then adds to the value it finds; a balance      *)
(* below zero matches no row and the transaction is rolled back.           *)
Upsert(p) ==
  /\ pc[p] = "upsert"
  /\ holder[txn[p].user] = None
  /\ LET u == txn[p].user
         after == balance[u] + txn[p].amount IN
       IF after < 0
       THEN Leave(p)
       ELSE /\ holder' = [holder EXCEPT ![u] = p]
            /\ txn' = [txn EXCEPT ![p].after = after]
            /\ pc' = [pc EXCEPT ![p] = "insert"]
            /\ UNCHANGED accounts

Unlocked(p) == [u \in User |-> IF holder[u] = p THEN None ELSE holder[u]]

CommitUnindexed(p) ==
  /\ pc[p] = "insert"
  /\ pc' = [pc EXCEPT ![p] = "done"]
  /\ holder' = Unlocked(p)
  /\ LET m == txn[p] IN
     /\ ledger' = [ledger EXCEPT ![m.user] =
          Append(@, [type |-> m.type, amount |-> m.amount,
                     after |-> m.after, order |-> m.order])]
     /\ balance' = [balance EXCEPT ![m.user] = m.after]
     /\ hasRow' = hasRow \union {m.user}
  /\ UNCHANGED txn

(* The ledger row and COMMIT; the unique index refuses a second purchase   *)
(* of an order, which throws and rolls back.  Refunds have no such index.  *)
InsertAndCommit(p) ==
  /\ pc[p] = "insert"
  /\ pc' = [pc EXCEPT ![p] = "done"]
  /\ holder' = Unlocked(p)
  /\ LET m == txn[p] IN
     IF m.type = "purchase" /\ Booked("purchase", m.order)
     THEN UNCHANGED accounts
     ELSE /\ ledger' = [ledger EXCEPT ![m.user] =
               Append(@, [type |-> m.type, amount |-> m.amount,
                          after |-> m.after, order |-> m.order])]
          /\ balance' = [balance EXCEPT ![m.user] = m.after]
          /\ hasRow' = hasRow \union {m.user}
  /\ UNCHANGED txn

LedgerStep(p) ==
  CheckDuplicate(p) \/ CheckRow(p) \/ Upsert(p) \/ InsertAndCommit(p)

InTransaction(p) == pc[p] \in {"check", "pre", "upsert", "insert"}

(* ROLLBACK, by the catch clause or by the connection's end.               *)
KeepLock(p) == UNCHANGED <<accounts, holder>>

Rollback(p) ==
  /\ holder' = Unlocked(p)
  /\ UNCHANGED accounts

NoMutation == [type |-> "consume", user |-> CHOOSE u \in User : TRUE,
               order |-> None, amount |-> 0, after |-> 0]

LedgerInit ==
  /\ hasRow = {}
  /\ balance = [u \in User |-> 0]
  /\ ledger = [u \in User |-> <<>>]
  /\ holder = [u \in User |-> None]
  /\ pc = [p \in Proc |-> "idle"]
  /\ txn = [p \in Proc |-> NoMutation]
=============================================================================
