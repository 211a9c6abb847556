--------------------------- MODULE Billing_proofs ----------------------------
(***************************************************************************)
(* The ledger, the webhooks and the meters for any number of users, orders *)
(* and calls, whichever of them are webhooks, fail or die.                 *)
(*                                                                         *)
(* The ledger.  LedgerInv is inductive: beside LedgerChain it says that    *)
(* the transactions about to insert are those that hold the lock of their  *)
(* user's row, and that the balance each has computed is still right.      *)
(*                                                                         *)
(* The webhooks.  PathInv says what a call wants where it is; EventInv,    *)
(* that every recorded event has one delivery which carries it out, is     *)
(* lost, or has had its outcome; RefundInv, that a refunded order has no   *)
(* refund on its way.  TableInv and TierInv are about the rows of the      *)
(* subscriptions and about what requests have read from them; AppliedInv,  *)
(* that a recorded event changes its row once and that a row says what the *)
(* newest event to change it said.                                         *)
(*                                                                         *)
(* The meters.  UsageInv counts the turns that may still count themselves  *)
(* as if they had: what a turn does then never raises the sum, and a sum   *)
(* within the bound bounds the meter.                                      *)
(***************************************************************************)
EXTENDS LemonWebhooksProperties, UsageMeteringProperties, FiniteSetTheorems,
        TLAPS

CallsTyped ==
  \A p \in Proc : /\ call[p].user \in User
                  /\ call[p].order \in Order \union {None}
                  /\ call[p].amount \in Nat

LedgerTypes ==
  /\ pc \in [Proc -> CallPc] /\ txn \in [Proc -> Mutation]
  /\ holder \in [User -> Proc \union {None}]
  /\ balance \in [User -> Nat] /\ ledger \in [User -> Seq(LedgerRow)]

HolderInserts ==
  \A u \in User : holder[u] # None =>
    pc[holder[u]] = "insert" /\ txn[holder[u]].user = u

InserterHolds ==
  \A p \in Proc : pc[p] = "insert" =>
    /\ holder[txn[p].user] = p
    /\ txn[p].after = balance[txn[p].user] + txn[p].amount

LedgerInv ==
  /\ CallsTyped
  /\ LedgerTypes
  /\ HolderInserts
  /\ InserterHolds
  /\ LedgerChain

-----------------------------------------------------------------------------
LEMMA NoMutationTyped == NoMutation \in Mutation
<1>. DEFINE u == CHOOSE v \in User : TRUE
<1>1. u \in User
  BY LedgerAssumption
<1>. HIDE DEF u
<1>2. [type |-> "consume", user |-> u, order |-> None, amount |-> 0, after |-> 0]
        \in Mutation
  BY <1>1 DEF Mutation, MutationType
<1>. QED  BY <1>2 DEF NoMutation, u

LEMMA LedgerInitInv ==
  ASSUME WebhookInit
  PROVE  LedgerInv
<1>1. /\ balance = [u \in User |-> 0] /\ ledger = [u \in User |-> <<>>]
      /\ holder = [u \in User |-> None]
      /\ pc = [p \in Proc |-> "idle"] /\ txn = [p \in Proc |-> NoMutation]
  BY DEF WebhookInit, LedgerInit
<1>2. CallsTyped
  BY CallAssumption DEF WebhookInit, CallsTyped
<1>3. LedgerTypes
  BY <1>1, NoMutationTyped DEF LedgerTypes, CallPc
<1>4. HolderInserts /\ InserterHolds
  BY <1>1 DEF HolderInserts, InserterHolds
<1>5. LedgerChain
  BY <1>1 DEF LedgerChain, Previous
<1>. QED  BY <1>2, <1>3, <1>4, <1>5 DEF LedgerInv

-----------------------------------------------------------------------------
(* A call that neither was about to insert nor comes to it, and touches no *)
(* lock, disturbs no transaction.                                          *)
LEMMA CallMovesInv ==
  ASSUME LedgerInv, NEW p \in Proc, pc[p] # "insert",
         NEW x \in CallPc \ {"insert"}, NEW m \in Mutation,
         pc' = [pc EXCEPT ![p] = x], txn' = [txn EXCEPT ![p] = m],
         UNCHANGED <<accounts, holder, call>>
  PROVE  LedgerInv'
<1>1. /\ pc' \in [Proc -> CallPc] /\ txn' \in [Proc -> Mutation]
      /\ pc'[p] = x /\ \A q \in Proc \ {p} : pc'[q] = pc[q] /\ txn'[q] = txn[q]
  BY DEF LedgerInv, LedgerTypes
<1>2. UNCHANGED <<balance, ledger, holder, call>>
  BY DEF accounts
<1>3. LedgerTypes' /\ CallsTyped'
  BY <1>1, <1>2 DEF LedgerInv, LedgerTypes, CallsTyped
<1>4. HolderInserts'
  BY <1>1, <1>2 DEF LedgerInv, LedgerTypes, HolderInserts
<1>5. InserterHolds'
  BY <1>1, <1>2 DEF LedgerInv, InserterHolds
<1>6. LedgerChain'
  BY <1>2 DEF LedgerInv, LedgerChain, Previous
<1>. QED  BY <1>3, <1>4, <1>5, <1>6 DEF LedgerInv

LEMMA CallMovesOnInv ==
  ASSUME LedgerInv, NEW p \in Proc, pc[p] # "insert",
         NEW x \in CallPc \ {"insert"},
         pc' = [pc EXCEPT ![p] = x], UNCHANGED <<accounts, holder, txn, call>>
  PROVE  LedgerInv'
<1>1. txn' = [txn EXCEPT ![p] = txn[p]] /\ txn[p] \in Mutation
  BY DEF LedgerInv, LedgerTypes
<1>. QED  BY <1>1, CallMovesInv

(* A transaction that ends without a trace gives its lock back.            *)
LEMMA RollbackInv ==
  ASSUME LedgerInv, NEW p \in Proc, NEW x \in CallPc \ {"insert"},
         pc' = [pc EXCEPT ![p] = x], holder' = Unlocked(p),
         UNCHANGED <<accounts, txn, call>>
  PROVE  LedgerInv'
<1>1. /\ pc' \in [Proc -> CallPc] /\ pc'[p] = x
      /\ \A q \in Proc \ {p} : pc'[q] = pc[q]
  BY DEF LedgerInv, LedgerTypes
<1>2. UNCHANGED <<balance, ledger, txn, call>>
  BY DEF accounts
<1>3. /\ holder' \in [User -> Proc \union {None}]
      /\ \A u \in User : holder'[u] = IF holder[u] = p THEN None ELSE holder[u]
  BY DEF LedgerInv, LedgerTypes, Unlocked
<1>4. LedgerTypes' /\ CallsTyped'
  BY <1>1, <1>2, <1>3 DEF LedgerInv, LedgerTypes, CallsTyped
<1>5. HolderInserts'
  BY <1>1, <1>2, <1>3 DEF LedgerInv, LedgerTypes, HolderInserts
<1>6. InserterHolds'
  <2>. SUFFICES ASSUME NEW q \in Proc, pc'[q] = "insert"
                PROVE  /\ holder'[txn'[q].user] = q
                       /\ txn'[q].after = balance'[txn'[q].user] + txn'[q].amount
    BY DEF InserterHolds
  <2>1. q # p /\ pc[q] = "insert"
    BY <1>1
  <2>2. txn[q].user \in User
    BY DEF LedgerInv, LedgerTypes, Mutation
  <2>. QED  BY <1>2, <1>3, <2>1, <2>2 DEF LedgerInv, InserterHolds
<1>7. LedgerChain'
  BY <1>2 DEF LedgerInv, LedgerChain, Previous
<1>. QED  BY <1>4, <1>5, <1>6, <1>7 DEF LedgerInv

LEMMA LedgerStands ==
  ASSUME LedgerInv, UNCHANGED <<ledgerVars, call>>
  PROVE  LedgerInv'
<1>1. UNCHANGED <<balance, ledger, holder, pc, txn, call>>
  BY DEF ledgerVars, accounts
<1>. QED
  BY <1>1 DEF LedgerInv, CallsTyped, LedgerTypes, HolderInserts, InserterHolds,
              LedgerChain, Previous

-----------------------------------------------------------------------------
LEMMA ReceiveInv ==
  ASSUME LedgerInv, NEW p \in Proc, Receive(p)
  PROVE  LedgerInv'
<1>1. pc[p] = "idle" /\ UNCHANGED <<accounts, holder, call>>
  BY DEF Receive
<1>2. CASE pc' = [pc EXCEPT ![p] = "done"] /\ UNCHANGED txn
  BY <1>1, <1>2, CallMovesOnInv DEF CallPc
<1>3. CASE /\ pc' = [pc EXCEPT ![p] = FirstStep(call[p])]
           /\ txn' = [txn EXCEPT ![p] = Ordered(call[p])]
  <2>1. Ordered(call[p]) \in Mutation
    BY DEF LedgerInv, CallsTyped, Ordered, Mutation, MutationType
  <2>2. FirstStep(call[p]) \in CallPc \ {"insert"}
    BY DEF FirstStep, CallPc
  <2>. QED  BY <1>1, <1>3, <2>1, <2>2, CallMovesInv
<1>. QED  BY <1>2, <1>3 DEF Receive

LEMMA ConsumeInv ==
  ASSUME LedgerInv, NEW p \in Proc, Consume(p)
  PROVE  LedgerInv'
<1>. DEFINE m == [type |-> "consume", user |-> call[p].user, order |-> None,
                  amount |-> -call[p].amount, after |-> 0]
<1>1. /\ pc[p] = "idle" /\ pc' = [pc EXCEPT ![p] = "check"]
      /\ txn' = [txn EXCEPT ![p] = m] /\ UNCHANGED <<accounts, holder, call>>
  BY DEF Consume, Begin
<1>2. m \in Mutation
  BY DEF LedgerInv, CallsTyped, Mutation, MutationType
<1>. HIDE DEF m
<1>. QED  BY <1>1, <1>2, CallMovesInv DEF CallPc

LEMMA ReadBalanceInv ==
  ASSUME LedgerInv, NEW p \in Proc, ReadBalance(p)
  PROVE  LedgerInv'
<1>1. pc[p] = "balance" /\ UNCHANGED <<accounts, holder, call>>
  BY DEF ReadBalance
<1>2. CASE pc' = [pc EXCEPT ![p] = "done"] /\ UNCHANGED txn
  BY <1>1, <1>2, CallMovesOnInv DEF CallPc
<1>3. CASE /\ pc' = [pc EXCEPT ![p] = "check"]
           /\ txn' = [txn EXCEPT ![p].amount = -Clawback(p)]
  <2>. DEFINE m == [txn[p] EXCEPT !.amount = -Clawback(p)]
  <2>1. txn' = [txn EXCEPT ![p] = m]
    BY <1>3
  <2>2. txn[p] \in Mutation /\ txn[p].user \in User /\ txn[p].amount \in Int
    BY DEF LedgerInv, LedgerTypes, Mutation
  <2>3. -Clawback(p) \in Int
    BY <2>2 DEF Clawback, LedgerInv, LedgerTypes
  <2>4. m \in Mutation
    BY <2>2, <2>3 DEF Mutation
  <2>. HIDE DEF m
  <2>. QED  BY <1>1, <1>3, <2>1, <2>4, CallMovesInv DEF CallPc
<1>. QED  BY <1>2, <1>3 DEF ReadBalance

-----------------------------------------------------------------------------
(* The transaction that gets the row lock computes from the balance that   *)
(* stays until it commits.                                                 *)
LEMMA UpsertInv ==
  ASSUME LedgerInv, NEW p \in Proc, Upsert(p), UNCHANGED call
  PROVE  LedgerInv'
<1>. DEFINE u == txn[p].user
            after == balance[u] + txn[p].amount
<1>1. pc[p] = "upsert" /\ holder[u] = None
  BY DEF Upsert
<1>2. txn[p] \in Mutation /\ u \in User /\ txn[p].amount \in Int
      /\ balance[u] \in Nat
  BY DEF LedgerInv, LedgerTypes, Mutation
<1>3. CASE Leave(p)
  BY <1>1, <1>3, CallMovesOnInv DEF Leave, CallPc
<1>4. CASE /\ after >= 0
           /\ holder' = [holder EXCEPT ![u] = p]
           /\ txn' = [txn EXCEPT ![p].after = after]
           /\ pc' = [pc EXCEPT ![p] = "insert"]
           /\ UNCHANGED accounts
  <2>. DEFINE m == [txn[p] EXCEPT !.after = after]
  <2>1. after \in Nat
    BY <1>2, <1>4
  <2>2. /\ m \in Mutation /\ m.user = u /\ m.amount = txn[p].amount
        /\ m.after = after
    BY <1>2, <2>1 DEF Mutation
  <2>3. txn' = [txn EXCEPT ![p] = m]
    BY <1>4
  <2>. HIDE DEF m
  <2>4. /\ txn' \in [Proc -> Mutation] /\ txn'[p] = m
        /\ \A q \in Proc \ {p} : txn'[q] = txn[q]
    BY <2>2, <2>3 DEF LedgerInv, LedgerTypes
  <2>5. /\ pc' \in [Proc -> CallPc] /\ pc'[p] = "insert"
        /\ \A q \in Proc \ {p} : pc'[q] = pc[q]
    BY <1>4 DEF LedgerInv, LedgerTypes, CallPc
  <2>6. /\ holder' \in [User -> Proc \union {None}] /\ holder'[u] = p
        /\ \A v \in User \ {u} : holder'[v] = holder[v]
    BY <1>2, <1>4 DEF LedgerInv, LedgerTypes
  <2>7. UNCHANGED <<balance, ledger, call>>
    BY <1>4 DEF accounts
  <2>8. LedgerTypes' /\ CallsTyped'
    BY <2>4, <2>5, <2>6, <2>7 DEF LedgerInv, LedgerTypes, CallsTyped
  <2>9. HolderInserts'
    <3>. SUFFICES ASSUME NEW v \in User, holder'[v] # None
                  PROVE  pc'[holder'[v]] = "insert" /\ txn'[holder'[v]].user = v
      BY DEF HolderInserts
    <3>1. CASE v = u
      BY <2>2, <2>4, <2>5, <2>6, <3>1
    <3>2. CASE v # u
      <4>1. holder'[v] = holder[v] /\ holder[v] \in Proc
        BY <2>6, <3>2 DEF LedgerInv, LedgerTypes
      <4>2. pc[holder[v]] = "insert" /\ txn[holder[v]].user = v
        BY <4>1 DEF LedgerInv, HolderInserts
      <4>3. holder[v] # p
        BY <1>1, <4>2
      <4>. QED  BY <2>4, <2>5, <4>1, <4>2, <4>3
    <3>. QED  BY <3>1, <3>2
  <2>10. InserterHolds'
    <3>. SUFFICES ASSUME NEW q \in Proc, pc'[q] = "insert"
                  PROVE  /\ holder'[txn'[q].user] = q
                         /\ txn'[q].after = balance'[txn'[q].user] + txn'[q].amount
      BY DEF InserterHolds
    <3>1. CASE q = p
      BY <1>2, <2>2, <2>4, <2>6, <2>7, <3>1
    <3>2. CASE q # p
      <4>1. pc[q] = "insert" /\ txn'[q] = txn[q] /\ txn[q].user \in User
        BY <2>4, <2>5, <3>2 DEF LedgerInv, LedgerTypes, Mutation
      <4>2. holder[txn[q].user] = q
            /\ txn[q].after = balance[txn[q].user] + txn[q].amount
        BY <4>1 DEF LedgerInv, InserterHolds
      <4>3. txn[q].user # u
        BY <1>1, <4>2, LedgerAssumption
      <4>. QED  BY <2>6, <2>7, <4>1, <4>2, <4>3
    <3>. QED  BY <3>1, <3>2
  <2>11. LedgerChain'
    BY <2>7 DEF LedgerInv, LedgerChain, Previous
  <2>. QED  BY <2>8, <2>9, <2>10, <2>11 DEF LedgerInv
<1>. QED  BY <1>2, <1>3, <1>4 DEF Upsert

(* The row that is inserted continues the chain of its user.               *)
LEMMA AppendChains ==
  ASSUME LedgerInv, NEW u \in User, NEW row \in LedgerRow,
         row.after = balance[u] + row.amount,
         ledger' = [ledger EXCEPT ![u] = Append(ledger[u], row)],
         balance' = [balance EXCEPT ![u] = row.after]
  PROVE  LedgerChain'
<1>1. ledger[u] \in Seq(LedgerRow) /\ Len(ledger[u]) \in Nat
  BY DEF LedgerInv, LedgerTypes
<1>2. /\ ledger'[u] = Append(ledger[u], row) /\ balance'[u] = row.after
      /\ \A v \in User \ {u} : ledger'[v] = ledger[v] /\ balance'[v] = balance[v]
  BY DEF LedgerInv, LedgerTypes
<1>3. /\ Len(ledger'[u]) = Len(ledger[u]) + 1
      /\ ledger'[u][Len(ledger[u]) + 1] = row
      /\ \A i \in 1..Len(ledger[u]) : ledger'[u][i] = ledger[u][i]
  BY <1>1, <1>2
<1>4. \A i \in 1..(Len(ledger[u]) + 1) :
        ledger'[u][i].after = (IF i = 1 THEN 0 ELSE ledger'[u][i - 1].after)
                              + ledger'[u][i].amount
  <2>. SUFFICES ASSUME NEW i \in 1..(Len(ledger[u]) + 1)
                PROVE  ledger'[u][i].after =
                         (IF i = 1 THEN 0 ELSE ledger'[u][i - 1].after)
                         + ledger'[u][i].amount
    OBVIOUS
  <2>1. CASE i \in 1..Len(ledger[u])
    <3>1. ledger[u][i].after = (IF i = 1 THEN 0 ELSE ledger[u][i - 1].after)
                               + ledger[u][i].amount
      BY <2>1 DEF LedgerInv, LedgerChain, Previous
    <3>2. i # 1 => i - 1 \in 1..Len(ledger[u])
      BY <1>1, <2>1
    <3>. QED  BY <1>3, <2>1, <3>1, <3>2
  <2>2. CASE i = Len(ledger[u]) + 1
    <3>1. balance[u] = IF i = 1 THEN 0 ELSE ledger[u][i - 1].after
      BY <2>2 DEF LedgerInv, LedgerChain, Previous
    <3>2. i # 1 => i - 1 \in 1..Len(ledger[u])
      BY <1>1, <2>2
    <3>. QED  BY <1>3, <2>2, <3>1, <3>2
  <2>. QED  BY <1>1, <2>1, <2>2
<1>5. balance'[u] = IF Len(ledger'[u]) + 1 = 1 THEN 0
                    ELSE ledger'[u][Len(ledger'[u]) + 1 - 1].after
  BY <1>1, <1>2, <1>3
<1>6. \A v \in User \ {u} :
        /\ \A i \in 1..Len(ledger'[v]) :
             ledger'[v][i].after = (IF i = 1 THEN 0 ELSE ledger'[v][i - 1].after)
                                   + ledger'[v][i].amount
        /\ balance'[v] = IF Len(ledger'[v]) + 1 = 1 THEN 0
                         ELSE ledger'[v][Len(ledger'[v]) + 1 - 1].after
  BY <1>2 DEF LedgerInv, LedgerChain, Previous
<1>7. \A i \in 1..Len(ledger'[u]) :
        ledger'[u][i].after = (IF i = 1 THEN 0 ELSE ledger'[u][i - 1].after)
                              + ledger'[u][i].amount
  BY <1>3, <1>4
<1>8. \A v \in User :
        /\ \A i \in 1..Len(ledger'[v]) :
             ledger'[v][i].after = (IF i = 1 THEN 0 ELSE ledger'[v][i - 1].after)
                                   + ledger'[v][i].amount
        /\ balance'[v] = IF Len(ledger'[v]) + 1 = 1 THEN 0
                         ELSE ledger'[v][Len(ledger'[v]) + 1 - 1].after
  <2>. DEFINE Chain(v) ==
         /\ \A i \in 1..Len(ledger'[v]) :
              ledger'[v][i].after = (IF i = 1 THEN 0 ELSE ledger'[v][i - 1].after)
                                    + ledger'[v][i].amount
         /\ balance'[v] = IF Len(ledger'[v]) + 1 = 1 THEN 0
                          ELSE ledger'[v][Len(ledger'[v]) + 1 - 1].after
  <2>1. Chain(u)
    BY <1>5, <1>7
  <2>2. \A v \in User \ {u} : Chain(v)
    BY <1>6
  <2>. HIDE DEF Chain
  <2>3. \A v \in User : Chain(v)
    BY <2>1, <2>2
  <2>. QED  BY <2>3 DEF Chain
<1>. QED  BY <1>8 DEF LedgerChain, Previous

LEMMA InsertAndCommitInv ==
  ASSUME LedgerInv, NEW p \in Proc, InsertAndCommit(p), UNCHANGED call
  PROVE  LedgerInv'
<1>. DEFINE u == txn[p].user
            row == [type |-> txn[p].type, amount |-> txn[p].amount,
                    after |-> txn[p].after, order |-> txn[p].order]
<1>1. /\ pc[p] = "insert" /\ pc' = [pc EXCEPT ![p] = "done"]
      /\ holder' = Unlocked(p) /\ UNCHANGED txn
  BY DEF InsertAndCommit
<1>2. CASE UNCHANGED accounts
  BY <1>1, <1>2, RollbackInv DEF CallPc
<1>3. CASE /\ ledger' = [ledger EXCEPT ![u] = Append(ledger[u], row)]
           /\ balance' = [balance EXCEPT ![u] = txn[p].after]
  <2>1. u \in User /\ row \in LedgerRow /\ row.after = txn[p].after
        /\ row.amount = txn[p].amount /\ txn[p].after \in Nat
    BY DEF LedgerInv, LedgerTypes, Mutation, LedgerRow
  <2>2. holder[u] = p /\ txn[p].after = balance[u] + txn[p].amount
    BY <1>1 DEF LedgerInv, InserterHolds
  <2>. HIDE DEF u, row
  <2>3. LedgerChain'
    BY <1>3, <2>1, <2>2, AppendChains
  <2>4. /\ ledger' \in [User -> Seq(LedgerRow)] /\ balance' \in [User -> Nat]
        /\ \A v \in User \ {u} : balance'[v] = balance[v]
    BY <1>3, <2>1 DEF LedgerInv, LedgerTypes
  <2>5. /\ pc' \in [Proc -> CallPc] /\ pc'[p] = "done"
        /\ \A q \in Proc \ {p} : pc'[q] = pc[q]
    BY <1>1 DEF LedgerInv, LedgerTypes, CallPc
  <2>6. /\ holder' \in [User -> Proc \union {None}]
        /\ \A v \in User : holder'[v] = IF holder[v] = p THEN None ELSE holder[v]
    BY <1>1 DEF LedgerInv, LedgerTypes, Unlocked
  <2>7. LedgerTypes' /\ CallsTyped'
    BY <1>1, <2>4, <2>5, <2>6 DEF LedgerInv, LedgerTypes, CallsTyped
  <2>8. HolderInserts'
    BY <1>1, <2>5, <2>6 DEF LedgerInv, LedgerTypes, HolderInserts
  <2>9. InserterHolds'
    <3>. SUFFICES ASSUME NEW q \in Proc, pc'[q] = "insert"
                  PROVE  /\ holder'[txn'[q].user] = q
                         /\ txn'[q].after = balance'[txn'[q].user] + txn'[q].amount
      BY DEF InserterHolds
    <3>1. q # p /\ pc[q] = "insert" /\ txn'[q] = txn[q]
      BY <1>1, <2>5
    <3>2. /\ txn[q].user \in User /\ holder[txn[q].user] = q
          /\ txn[q].after = balance[txn[q].user] + txn[q].amount
      BY <3>1 DEF LedgerInv, LedgerTypes, Mutation, InserterHolds
    <3>3. txn[q].user # u
      BY <2>2, <3>1, <3>2
    <3>. QED  BY <2>4, <2>6, <3>1, <3>2, <3>3
  <2>. QED  BY <2>3, <2>7, <2>8, <2>9 DEF LedgerInv
<1>. QED  BY <1>2, <1>3 DEF InsertAndCommit

LEMMA MutateInv ==
  ASSUME LedgerInv, NEW p \in Proc, Mutate(p)
  PROVE  LedgerInv'
<1>1. UNCHANGED call
  BY DEF Mutate
<1>2. CASE CheckDuplicate(p) \/ CheckRow(p)
  BY <1>1, <1>2, CallMovesOnInv DEF CheckDuplicate, CheckRow, Leave, CallPc
<1>. QED
  BY <1>1, <1>2, UpsertInv, InsertAndCommitInv DEF Mutate, LedgerStep

-----------------------------------------------------------------------------
LEMMA OtherCallStepsInv ==
  ASSUME LedgerInv, NEW p \in Proc,
         \/ LookForPurchase(p) \/ Apply(p) \/ Invalidate(p) \/ InvalidateFails(p)
  PROVE  LedgerInv'
<1>1. CASE LookForPurchase(p)
  BY <1>1, CallMovesOnInv DEF LookForPurchase, CallPc
<1>2. CASE Apply(p)
  BY <1>2, CallMovesOnInv DEF Apply, CallPc
<1>3. CASE Invalidate(p)
  BY <1>3, CallMovesOnInv DEF Invalidate, CallPc
<1>4. CASE InvalidateFails(p)
  BY <1>4, CallMovesOnInv DEF InvalidateFails, CallPc
<1>. QED  BY <1>1, <1>2, <1>3, <1>4

LEMMA FaultsInv ==
  ASSUME LedgerInv, NEW p \in Proc, DispatchFails(p) \/ Die(p)
  PROVE  LedgerInv'
<1>1. CASE DispatchFails(p)
  BY <1>1, RollbackInv DEF DispatchFails, Rollback, CallPc
<1>2. CASE Die(p)
  <2>1. (IF IsWebhook(p) THEN "idle" ELSE "done") \in CallPc \ {"insert"}
    BY DEF CallPc
  <2>. QED  BY <1>2, <2>1, RollbackInv DEF Die, Rollback
<1>. QED  BY <1>1, <1>2

LEMMA LedgerNextInv ==
  LedgerInv /\ [WebhookNext]_webhookVars => LedgerInv'
<1>. SUFFICES ASSUME LedgerInv, [WebhookNext]_webhookVars
              PROVE  LedgerInv'
  OBVIOUS
<1>1. ASSUME NEW p \in Proc, CallStep(p) \/ Die(p)
      PROVE  LedgerInv'
  BY <1>1, ReceiveInv, ConsumeInv, ReadBalanceInv, MutateInv, OtherCallStepsInv,
     FaultsInv
  DEF CallStep
<1>2. ASSUME NEW r \in Resolver, LookUp(r) \/ SetKey(r)
      PROVE  LedgerInv'
  BY <1>2, LedgerStands DEF LookUp, SetKey
<1>3. ASSUME NEW u \in User, KeyExpires(u)
      PROVE  LedgerInv'
  BY <1>3, LedgerStands DEF KeyExpires
<1>4. ASSUME NEW s \in Sub, GraceEnds(s)
      PROVE  LedgerInv'
  BY <1>4, LedgerStands DEF GraceEnds
<1>5. CASE UNCHANGED webhookVars
  BY <1>5, LedgerStands DEF webhookVars
<1>. QED  BY <1>1, <1>2, <1>3, <1>4, <1>5 DEF WebhookNext

(* Whatever deliveries and turns run at once, fail and are repeated, each  *)
(* ledger row continues the one before it and the account holds the last   *)
(* balance: credit-grant.ts loses no update and books none from a balance  *)
(* that another transaction has changed.                                   *)
THEOREM LedgerIsAChain == WebhookSpec => []LedgerChain
<1>1. WebhookInit => LedgerInv
  BY LedgerInitInv
<1>2. LedgerInv => LedgerChain
  BY DEF LedgerInv
<1>. QED  BY <1>1, <1>2, LedgerNextInv, PTL DEF WebhookSpec

-----------------------------------------------------------------------------
Known == LedgerInv /\ call \in Calls

(* A step of call p leaves the other calls where they are.                 *)
OnlyCall(p) ==
  /\ \A q \in Proc : q # p => pc'[q] = pc[q] /\ txn'[q] = txn[q]
  /\ UNCHANGED call

LEMMA CallStepsAlone ==
  ASSUME Known, NEW p \in Proc, CallStep(p) \/ Die(p)
  PROVE  OnlyCall(p)
<1>1. /\ pc \in [Proc -> CallPc] /\ txn \in [Proc -> Mutation]
  BY DEF Known, LedgerInv, LedgerTypes
<1>2. CASE Receive(p) \/ Consume(p) \/ LookForPurchase(p) \/ ReadBalance(p)
  BY <1>1, <1>2 DEF Receive, Consume, LookForPurchase, ReadBalance, Begin, OnlyCall
<1>3. CASE Mutate(p)
  BY <1>1, <1>3
  DEF Mutate, LedgerStep, CheckDuplicate, CheckRow, Upsert, InsertAndCommit, Leave, OnlyCall
<1>4. CASE Apply(p) \/ Invalidate(p) \/ InvalidateFails(p)
  BY <1>1, <1>4 DEF Apply, Invalidate, InvalidateFails, OnlyCall
<1>5. CASE DispatchFails(p) \/ Die(p)
  BY <1>1, <1>5 DEF DispatchFails, Die, OnlyCall
<1>. QED  BY <1>2, <1>3, <1>4, <1>5 DEF CallStep

-----------------------------------------------------------------------------
(* What the ledger has booked *)

LEMMA BookedByRow ==
  ASSUME NEW type, NEW o
  PROVE  /\ Booked(type, o) <=>
              \E u \in User : \E i \in 1..Len(ledger[u]) : BooksOrder(type, o, u, i)
         /\ Booked(type, o)' <=>
              \E u \in User : \E i \in 1..Len(ledger'[u]) : BooksOrder(type, o, u, i)'
  BY DEF Booked, Rows, BooksOrder

LEMMA RowAdded ==
  ASSUME LedgerInv, NEW u \in User, NEW row \in LedgerRow,
         ledger' = [ledger EXCEPT ![u] = Append(ledger[u], row)]
  PROVE  /\ \A v \in User : v # u => ledger'[v] = ledger[v]
         /\ Len(ledger[u]) \in Nat /\ Len(ledger'[u]) = Len(ledger[u]) + 1
         /\ DOMAIN ledger[u] = 1..Len(ledger[u])
         /\ DOMAIN ledger'[u] = 1..Len(ledger'[u])
         /\ ledger'[u][Len(ledger[u]) + 1] = row
         /\ \A i \in 1..Len(ledger[u]) : ledger'[u][i] = ledger[u][i]
<1>1. ledger[u] \in Seq(LedgerRow) /\ u \in DOMAIN ledger
  BY DEF LedgerInv, LedgerTypes
<1>2. ledger'[u] = Append(ledger[u], row) /\ \A v \in User : v # u => ledger'[v] = ledger[v]
  BY <1>1 DEF LedgerInv, LedgerTypes
<1>. QED  BY <1>1, <1>2

LEMMA RowBooks ==
  ASSUME LedgerInv, NEW u \in User, NEW row \in LedgerRow,
         ledger' = [ledger EXCEPT ![u] = Append(ledger[u], row)],
         NEW type, NEW o
  PROVE  Booked(type, o)' <=> Booked(type, o) \/ (row.type = type /\ row.order = o)
<1>1. Booked(type, o) => Booked(type, o)'
  BY RowAdded, BookedByRow DEF BooksOrder
<1>2. row.type = type /\ row.order = o => Booked(type, o)'
  <2>1. Len(ledger[u]) + 1 \in 1..Len(ledger'[u])
    <3>1. Len(ledger[u]) \in Nat /\ Len(ledger'[u]) = Len(ledger[u]) + 1
      BY RowAdded
    <3>. QED  BY <3>1
  <2>. QED  BY <2>1, RowAdded, BookedByRow DEF BooksOrder
<1>3. ASSUME Booked(type, o)'
      PROVE  Booked(type, o) \/ (row.type = type /\ row.order = o)
  <2>. PICK v \in User : \E i \in 1..Len(ledger'[v]) : BooksOrder(type, o, v, i)'
    BY <1>3, BookedByRow
  <2>1. PICK i \in 1..Len(ledger'[v]) : BooksOrder(type, o, v, i)'
    OBVIOUS
  <2>2. CASE v = u /\ i = Len(ledger[u]) + 1
    BY <2>1, <2>2, RowAdded DEF BooksOrder
  <2>3. CASE v = u /\ i # Len(ledger[u]) + 1
    <3>1. i \in 1..Len(ledger[u])
      BY <2>3, RowAdded
    <3>. QED  BY <2>1, <2>3, <3>1, RowAdded, BookedByRow DEF BooksOrder
  <2>4. CASE v # u
    BY <2>1, <2>4, RowAdded, BookedByRow DEF BooksOrder
  <2>. QED  BY <2>2, <2>3, <2>4
<1>. QED  BY <1>1, <1>2, <1>3

LEMMA RowBooksOnce ==
  ASSUME LedgerInv, NEW u \in User, NEW row \in LedgerRow,
         ledger' = [ledger EXCEPT ![u] = Append(ledger[u], row)],
         NEW type, NEW o, BookedOnce(type, o),
         row.type = type /\ row.order = o => ~Booked(type, o)
  PROVE  BookedOnce(type, o)'
<1>. SUFFICES ASSUME NEW v \in User, NEW w \in User,
                     NEW i \in DOMAIN ledger'[v], NEW j \in DOMAIN ledger'[w],
                     BooksOrder(type, o, v, i)', BooksOrder(type, o, w, j)'
              PROVE  v = w /\ i = j
  BY DEF BookedOnce
<1>1. \A x \in User : /\ DOMAIN ledger[x] = 1..Len(ledger[x])
                      /\ x # u => ledger'[x] = ledger[x]
  BY RowAdded DEF LedgerInv, LedgerTypes
<1>. DEFINE last == Len(ledger[u]) + 1
            New(x, k) == x = u /\ k = last
<1>2. ASSUME NEW x \in User, NEW k \in DOMAIN ledger'[x], BooksOrder(type, o, x, k)'
      PROVE  \/ New(x, k) /\ row.type = type /\ row.order = o
             \/ k \in DOMAIN ledger[x] /\ BooksOrder(type, o, x, k)
  <2>1. CASE x # u
    BY <1>1, <1>2, <2>1 DEF BooksOrder
  <2>2. CASE x = u /\ k = last
    BY <1>2, <2>2, RowAdded DEF BooksOrder
  <2>3. CASE x = u /\ k # last
    <3>1. k \in 1..Len(ledger[u])
      BY <1>2, <2>3, RowAdded
    <3>. QED  BY <1>1, <1>2, <2>3, <3>1, RowAdded DEF BooksOrder
  <2>. QED  BY <2>1, <2>2, <2>3
<1>3. (\E x \in User : \E k \in DOMAIN ledger[x] : BooksOrder(type, o, x, k)) => Booked(type, o)
  BY <1>1, BookedByRow
<1>4. CASE row.type = type /\ row.order = o
  <2>1. New(v, i) /\ New(w, j)
    BY <1>2, <1>3, <1>4
  <2>. QED  BY <2>1
<1>5. CASE ~(row.type = type /\ row.order = o)
  BY <1>2, <1>5 DEF BookedOnce
<1>. QED  BY <1>4, <1>5

LEMMA OnceIsOne ==
  ASSUME LedgerInv, NEW type, NEW o, BookedOnce(type, o)
  PROVE  Cardinality(Booking(type, o)) <= 1
<1>1. \A x \in User : DOMAIN ledger[x] = 1..Len(ledger[x])
  BY DEF LedgerInv, LedgerTypes
<1>2. \A a, b \in Booking(type, o) : a = b
  <2>. SUFFICES ASSUME NEW a \in Booking(type, o), NEW b \in Booking(type, o)
                PROVE  a = b
    OBVIOUS
  <2>. PICK u \in User : \E i \in 1..Len(ledger[u]) : a = <<u, i>> /\ BooksOrder(type, o, u, i)
    BY DEF Booking, BooksOrder
  <2>1. PICK i \in 1..Len(ledger[u]) : a = <<u, i>> /\ BooksOrder(type, o, u, i)
    OBVIOUS
  <2>. PICK v \in User : \E j \in 1..Len(ledger[v]) : b = <<v, j>> /\ BooksOrder(type, o, v, j)
    BY DEF Booking, BooksOrder
  <2>2. PICK j \in 1..Len(ledger[v]) : b = <<v, j>> /\ BooksOrder(type, o, v, j)
    OBVIOUS
  <2>3. u = v /\ i = j
    BY <1>1, <2>1, <2>2 DEF BookedOnce
  <2>. QED  BY <2>1, <2>2, <2>3
<1>3. CASE Booking(type, o) = {}
  BY <1>3, FS_EmptySet
<1>4. CASE \E a \in Booking(type, o) : TRUE
  <2>1. PICK a \in Booking(type, o) : TRUE
    BY <1>4
  <2>2. Booking(type, o) = {a}
    BY <1>2, <2>1
  <2>. QED  BY <2>2, FS_Singleton
<1>. QED  BY <1>3, <1>4

-----------------------------------------------------------------------------
(* A step inserts a row of the transaction that has the lock, or none.     *)

Row(p) == [type |-> txn[p].type, amount |-> txn[p].amount,
           after |-> txn[p].after, order |-> txn[p].order]
Books(p) ==
  /\ pc[p] = "insert" /\ ~(txn[p].type = "purchase" /\ Booked("purchase", txn[p].order))
  /\ ledger' = [ledger EXCEPT ![txn[p].user] = Append(ledger[txn[p].user], Row(p))]
  /\ balance' = [balance EXCEPT ![txn[p].user] = txn[p].after]
  /\ hasRow' = hasRow \union {txn[p].user}

LEMMA InsertBooks ==
  ASSUME NEW p \in Proc, InsertAndCommit(p)
  PROVE  /\ pc[p] = "insert" /\ pc' = [pc EXCEPT ![p] = "done"] /\ UNCHANGED txn
         /\ \/ Books(p)
            \/ txn[p].type = "purchase" /\ Booked("purchase", txn[p].order) /\ UNCHANGED accounts
  BY DEF InsertAndCommit, Books, Row

LEMMA CallStepBooks ==
  ASSUME NEW p \in Proc, CallStep(p) \/ Die(p)
  PROVE  Books(p) \/ UNCHANGED accounts
<1>1. CASE Mutate(p)
  BY <1>1, InsertBooks DEF Mutate, LedgerStep, CheckDuplicate, CheckRow, Upsert, Leave
<1>. QED
  BY <1>1 DEF CallStep, Receive, Consume, Begin, LookForPurchase, ReadBalance, Apply, Invalidate,
              InvalidateFails, DispatchFails, Rollback, Die

LEMMA RowTyped ==
  ASSUME LedgerInv, NEW p \in Proc
  PROVE  /\ txn[p].user \in User /\ txn[p].after \in Nat /\ txn[p].amount \in Int
         /\ txn[p].type \in MutationType /\ txn[p].order \in Order \union {None}
         /\ Row(p) \in LedgerRow /\ Row(p).type = txn[p].type /\ Row(p).order = txn[p].order
<1>1. txn[p] \in Mutation
  BY DEF LedgerInv, LedgerTypes
<1>. QED  BY <1>1 DEF Row, Mutation, LedgerRow

LEMMA BookingGrows ==
  ASSUME LedgerInv, NEW p \in Proc, Books(p) \/ UNCHANGED accounts, NEW type, NEW o
  PROVE  /\ Booked(type, o) => Booked(type, o)'
         /\ Books(p) => (Booked(type, o)' <=> Booked(type, o) \/ (txn[p].type = type /\ txn[p].order = o))
         /\ UNCHANGED accounts => (Booked(type, o)' <=> Booked(type, o))
<1>1. CASE Books(p)
  <2>1. Booked(type, o)' <=> Booked(type, o) \/ (Row(p).type = type /\ Row(p).order = o)
    BY <1>1, RowTyped, RowBooks DEF Books
  <2>2. Booked(type, o)' <=> Booked(type, o) \/ (txn[p].type = type /\ txn[p].order = o)
    BY <2>1, RowTyped
  <2>3. UNCHANGED accounts => (Booked(type, o)' <=> Booked(type, o))
    BY DEF accounts, Booked, Rows
  <2>. QED  BY <2>2, <2>3
<1>2. CASE UNCHANGED accounts /\ ~Books(p)
  BY <1>2 DEF accounts, Booked, Rows
<1>. QED  BY <1>1, <1>2

-----------------------------------------------------------------------------
(* PathInv *)

LEMMA PathKept ==
  ASSUME Known, PathInv, NEW p \in Proc, OnlyCall(p), Books(p) \/ UNCHANGED accounts, PathAt(p)'
  PROVE  PathInv'
<1>1. hasRow \subseteq hasRow' /\ \A u \in User : balance'[u] # 0 => u \in hasRow'
  <2>1. CASE Books(p)
    <3>1. balance' = [balance EXCEPT ![txn[p].user] = txn[p].after]
          /\ hasRow' = hasRow \union {txn[p].user} /\ DOMAIN balance = User
      BY <2>1 DEF Books, Known, LedgerInv, LedgerTypes
    <3>. QED  BY <3>1 DEF PathInv
  <2>2. CASE UNCHANGED accounts
    BY <2>2 DEF accounts, PathInv
  <2>. QED  BY <2>1, <2>2
<1>2. ASSUME NEW q \in Proc, q # p
      PROVE  PathAt(q)'
  <2>1. PathAt(q) /\ pc'[q] = pc[q] /\ txn'[q] = txn[q] /\ call' = call
    BY <1>2 DEF PathInv, OnlyCall
  <2>2. InTransaction(q)' => Wants(q)'
    BY <1>1, <2>1 DEF PathAt, InTransaction, Wants
  <2>. QED  BY <2>1, <2>2 DEF PathAt, Busy, IsWebhook
<1>. QED  BY <1>1, <1>2 DEF PathInv

LEMMA ReceivePath ==
  ASSUME Known, PathInv, NEW p \in Proc, Receive(p) \/ Consume(p)
  PROVE  PathAt(p)'
<1>1. /\ pc \in [Proc -> CallPc] /\ txn \in [Proc -> Mutation]
      /\ call[p].amount \in Nat /\ PathAt(p)
  BY DEF Known, LedgerInv, LedgerTypes, CallsTyped, PathInv
<1>2. CASE Receive(p) /\ pc'[p] = "done"
  BY <1>2 DEF PathAt, InTransaction, Busy
<1>3. CASE Receive(p) /\ pc'[p] # "done"
  <2>1. /\ call' = call /\ IsWebhook(p) /\ pc'[p] = FirstStep(call[p])
        /\ txn'[p] = Ordered(call[p])
    BY <1>1, <1>3 DEF Receive
  <2>2. txn'[p].order = call[p].order /\ txn'[p].amount = call[p].amount
    BY <2>1 DEF Ordered
  <2>3. CASE call[p].event = "order_created"
    <3>1. pc'[p] = "check" /\ txn'[p].type = "purchase"
      BY <2>1, <2>3 DEF FirstStep, Ordered
    <3>. QED  BY <1>1, <2>1, <2>2, <2>3, <3>1 DEF PathAt, Wants
  <2>4. CASE call[p].event = "order_refunded"
    <3>1. pc'[p] = "look" /\ txn'[p].type = "refund"
      BY <2>1, <2>4 DEF FirstStep, Ordered
    <3>. QED  BY <1>1, <2>1, <2>2, <2>4, <3>1 DEF PathAt, InTransaction
  <2>5. CASE call[p].event \notin OrderEvent
    <3>1. pc'[p] = "apply" /\ call[p].event \in SubEvent
      BY <2>1, <2>5 DEF FirstStep, OrderEvent, IsWebhook, Webhook
    <3>. QED  BY <2>1, <2>2, <3>1 DEF PathAt, InTransaction
  <2>. QED  BY <2>3, <2>4, <2>5 DEF OrderEvent
<1>4. CASE Consume(p)
  <2>1. /\ call' = call /\ call[p].event = "consume" /\ pc'[p] = "check"
        /\ txn'[p].type = "consume"
    BY <1>1, <1>4 DEF Consume, Begin
  <2>2. ~IsWebhook(p)
    BY <2>1 DEF IsWebhook, Webhook, SubEvent, Upserting, Verdict, OrderEvent
  <2>. QED  BY <2>1, <2>2 DEF PathAt, Wants, IsWebhook
<1>. QED  BY <1>2, <1>3, <1>4

LEMMA RefundPath ==
  ASSUME Known, PathInv, NEW p \in Proc, LookForPurchase(p) \/ ReadBalance(p)
  PROVE  PathAt(p)'
<1>1. /\ pc \in [Proc -> CallPc] /\ txn \in [Proc -> Mutation] /\ balance \in [User -> Nat]
      /\ PathAt(p) /\ txn[p].user \in User /\ txn[p].amount \in Int /\ txn[p] \in Mutation
  BY RowTyped DEF Known, LedgerInv, LedgerTypes, PathInv
<1>2. call' = call /\ hasRow' = hasRow
  BY DEF LookForPurchase, ReadBalance, accounts
<1>3. CASE pc'[p] = "done"
  BY <1>3 DEF PathAt, InTransaction, Busy
<1>4. CASE LookForPurchase(p) /\ pc'[p] # "done"
  <2>1. pc[p] = "look" /\ pc'[p] = "balance" /\ txn' = txn
    BY <1>1, <1>4 DEF LookForPurchase
  <2>. QED  BY <1>1, <1>2, <2>1 DEF PathAt, Busy, IsWebhook, InTransaction
<1>5. CASE ReadBalance(p) /\ pc'[p] # "done"
  <2>1. /\ pc[p] = "balance" /\ pc'[p] = "check" /\ Clawback(p) # 0
        /\ txn'[p] = [txn[p] EXCEPT !.amount = -Clawback(p)]
    BY <1>1, <1>5 DEF ReadBalance
  <2>2. txn'[p].type = txn[p].type /\ txn'[p].user = txn[p].user /\ txn'[p].order = txn[p].order
    BY <1>1, <2>1 DEF Mutation
  <2>3. call[p].event = "order_refunded" /\ txn[p].type = "refund" /\ txn[p].amount >= 0
    BY <1>1, <2>1 DEF PathAt
  <2>4. balance[txn[p].user] # 0
    BY <1>1, <2>1, <2>3 DEF Clawback
  <2>5. txn[p].user \in hasRow
    BY <1>1, <2>4 DEF PathInv
  <2>6. Wants(p)'
    BY <1>2, <2>2, <2>3, <2>5 DEF Wants
  <2>. QED  BY <1>1, <1>2, <2>1, <2>2, <2>6 DEF PathAt, Busy, IsWebhook
<1>. QED  BY <1>3, <1>4, <1>5

LEMMA TransactionPath ==
  ASSUME Known, PathInv, NEW p \in Proc, Mutate(p)
  PROVE  PathAt(p)'
<1>1. /\ pc \in [Proc -> CallPc] /\ txn \in [Proc -> Mutation] /\ PathAt(p)
      /\ txn[p].user \in User /\ txn[p].amount \in Int /\ txn[p] \in Mutation
  BY RowTyped DEF Known, LedgerInv, LedgerTypes, PathInv
<1>2. call' = call
  BY DEF Mutate
<1>3. CASE pc'[p] = "done"
  BY <1>3 DEF PathAt, InTransaction, Busy
<1>4. CASE pc'[p] # "done"
  <2>1. /\ pc[p] \in {"check", "pre", "upsert"} /\ pc'[p] \in {"pre", "upsert", "insert"}
        /\ hasRow' = hasRow
        /\ \/ txn' = txn
           \/ \E after \in Int : txn'[p] = [txn[p] EXCEPT !.after = after]
    <3>1. CASE CheckDuplicate(p) \/ CheckRow(p)
      BY <1>1, <1>4, <3>1 DEF CheckDuplicate, CheckRow, Leave, accounts
    <3>2. CASE Upsert(p)
      <4>1. balance[txn[p].user] + txn[p].amount \in Int
        BY <1>1 DEF Known, LedgerInv, LedgerTypes
      <4>. QED  BY <1>1, <1>4, <3>2, <4>1 DEF Upsert, Leave, accounts
    <3>3. ~InsertAndCommit(p)
      BY <1>1, <1>4 DEF InsertAndCommit
    <3>. QED  BY <3>1, <3>2, <3>3 DEF Mutate, LedgerStep
  <2>2. /\ txn'[p].type = txn[p].type /\ txn'[p].user = txn[p].user
        /\ txn'[p].order = txn[p].order /\ txn'[p].amount = txn[p].amount
    BY <1>1, <2>1 DEF Mutation
  <2>3. Wants(p)'
    BY <1>1, <1>2, <2>1, <2>2 DEF PathAt, InTransaction, Wants
  <2>. QED  BY <1>1, <1>2, <2>1, <2>2, <2>3 DEF PathAt, Busy, IsWebhook
<1>. QED  BY <1>3, <1>4

LEMMA OtherPath ==
  ASSUME Known, PathInv, NEW p \in Proc,
         Apply(p) \/ Invalidate(p) \/ InvalidateFails(p) \/ DispatchFails(p) \/ Die(p)
  PROVE  PathAt(p)'
<1>1. pc \in [Proc -> CallPc] /\ PathAt(p)
  BY DEF Known, LedgerInv, LedgerTypes, PathInv
<1>2. CASE Apply(p)
  <2>1. pc[p] = "apply" /\ pc'[p] = "invalidate" /\ txn' = txn /\ call' = call
    BY <1>1, <1>2 DEF Apply
  <2>. QED  BY <1>1, <2>1 DEF PathAt, Busy, IsWebhook, InTransaction
<1>3. CASE ~Apply(p)
  <2>1. pc'[p] \in {"idle", "done"}
    BY <1>1, <1>3 DEF Invalidate, InvalidateFails, DispatchFails, Die
  <2>. QED  BY <2>1 DEF PathAt, Busy, InTransaction
<1>. QED  BY <1>2, <1>3

LEMMA CallStepPath ==
  ASSUME Known, PathInv, NEW p \in Proc, CallStep(p) \/ Die(p)
  PROVE  PathInv'
<1>1. PathAt(p)'
  BY ReceivePath, RefundPath, TransactionPath, OtherPath DEF CallStep
<1>. QED  BY <1>1, CallStepsAlone, CallStepBooks, PathKept

-----------------------------------------------------------------------------
(* EventInv *)

Histories ==
  lost \subseteq lost' /\ early \subseteq early' /\ excused \subseteq excused'

LEMMA OthersCarried ==
  ASSUME Known, NEW p \in Proc, OnlyCall(p), Books(p) \/ UNCHANGED accounts, Histories,
         NEW q \in Proc, q # p, CarriedBy(q)
  PROVE  CarriedBy(q)'
<1>1. pc'[q] = pc[q] /\ call' = call
  BY DEF OnlyCall
<1>2. \A type, o : Booked(type, o) => Booked(type, o)'
  BY BookingGrows DEF Known
<1>3. Outcome(q) => Outcome(q)'
  BY <1>1, <1>2 DEF Outcome, Histories
<1>. QED  BY <1>1, <1>3 DEF CarriedBy, Busy, Histories

LEMMA EventsKept ==
  ASSUME Known, EventInv, NEW p \in Proc, OnlyCall(p), Books(p) \/ UNCHANGED accounts,
         Histories, events' = events, Busy(p), IsWebhook(p) => CarriedBy(p)'
  PROVE  EventInv'
<1>1. call' = call /\ \A q \in Proc : q # p => pc'[q] = pc[q]
  BY DEF OnlyCall
<1>2. ASSUME NEW q \in Proc, IsWebhook(q)', pc'[q] # "idle"
      PROVE  call'[q].key \in events'
  <2>1. pc[q] # "idle" /\ IsWebhook(q)
    BY <1>1, <1>2 DEF Busy, IsWebhook
  <2>. QED  BY <1>1, <2>1 DEF EventInv
<1>3. ASSUME NEW q \in Proc, NEW r \in Proc, Busy(q)', IsWebhook(q)', Busy(r)', IsWebhook(r)',
             call'[q].key = call'[r].key
      PROVE  q = r
  <2>1. Busy(q) /\ IsWebhook(q) /\ Busy(r) /\ IsWebhook(r) /\ call[q].key = call[r].key
    BY <1>1, <1>3 DEF Busy, IsWebhook
  <2>. QED  BY <2>1 DEF EventInv
<1>4. ASSUME NEW k \in events'
      PROVE  \E q \in Proc : IsWebhook(q)' /\ call'[q].key = k /\ CarriedBy(q)'
  <2>1. PICK q \in Proc : IsWebhook(q) /\ call[q].key = k /\ CarriedBy(q)
    BY <1>4 DEF EventInv
  <2>2. IsWebhook(q)' /\ call'[q].key = k
    BY <1>1, <2>1 DEF IsWebhook
  <2>3. CarriedBy(q)'
    BY <2>1, OthersCarried
  <2>. QED  BY <2>2, <2>3
<1>. QED  BY <1>2, <1>3, <1>4 DEF EventInv

LEMMA ReceiveEvents ==
  ASSUME Known, EventInv, NEW p \in Proc, Receive(p)
  PROVE  EventInv'
<1>1. /\ pc \in [Proc -> CallPc] /\ OnlyCall(p) /\ UNCHANGED accounts /\ Histories
      /\ pc[p] = "idle" /\ IsWebhook(p) /\ call' = call
  BY CallStepsAlone DEF CallStep, Receive, Histories, Known, LedgerInv, LedgerTypes
<1>2. \A q \in Proc : q # p => pc'[q] = pc[q]
  BY <1>1 DEF OnlyCall
<1>3. \A q \in Proc : CarriedBy(q) => CarriedBy(q)'
  <2>1. CarriedBy(p) => CarriedBy(p)'
    BY <1>1 DEF CarriedBy, Busy, Histories
  <2>. QED  BY <1>1, <2>1, OthersCarried
<1>4. CASE call[p].key \in events
  <2>1. pc'[p] = "done" /\ events' = events
    BY <1>1, <1>4 DEF Receive
  <2>2. ASSUME NEW q \in Proc, IsWebhook(q)', pc'[q] # "idle"
        PROVE  call'[q].key \in events'
    BY <1>1, <1>2, <1>4, <2>1, <2>2 DEF EventInv, IsWebhook
  <2>3. ASSUME NEW q \in Proc, NEW r \in Proc, Busy(q)', IsWebhook(q)', Busy(r)', IsWebhook(r)',
               call'[q].key = call'[r].key
        PROVE  q = r
    <3>1. q # p /\ r # p
      BY <2>1, <2>3 DEF Busy
    <3>2. Busy(q) /\ IsWebhook(q) /\ Busy(r) /\ IsWebhook(r) /\ call[q].key = call[r].key
      BY <1>1, <1>2, <2>3, <3>1 DEF Busy, IsWebhook
    <3>. QED  BY <3>2 DEF EventInv
  <2>4. ASSUME NEW k \in events'
        PROVE  \E q \in Proc : IsWebhook(q)' /\ call'[q].key = k /\ CarriedBy(q)'
    BY <1>1, <1>3, <2>1 DEF EventInv, IsWebhook
  <2>. QED  BY <2>2, <2>3, <2>4 DEF EventInv
<1>5. CASE call[p].key \notin events
  <2>1. pc'[p] = FirstStep(call[p]) /\ events' = events \union {call[p].key}
    BY <1>1, <1>5 DEF Receive
  <2>2. Busy(p)'
    BY <2>1 DEF Busy, FirstStep
  <2>3. ASSUME NEW q \in Proc, IsWebhook(q)', pc'[q] # "idle"
        PROVE  call'[q].key \in events'
    BY <1>1, <1>2, <2>1, <2>3 DEF EventInv, IsWebhook
  <2>4. ASSUME NEW q \in Proc, q # p, Busy(q)', IsWebhook(q)'
        PROVE  call'[q].key # call'[p].key
    <3>1. pc[q] # "idle" /\ IsWebhook(q)
      BY <1>1, <1>2, <2>4 DEF Busy, IsWebhook
    <3>2. call[q].key \in events
      BY <3>1 DEF EventInv
    <3>. QED  BY <1>1, <1>5, <3>2
  <2>5. ASSUME NEW q \in Proc, NEW r \in Proc, Busy(q)', IsWebhook(q)', Busy(r)', IsWebhook(r)',
               call'[q].key = call'[r].key
        PROVE  q = r
    <3>1. CASE q = p \/ r = p
      BY <2>4, <2>5, <3>1
    <3>2. CASE q # p /\ r # p
      <4>1. Busy(q) /\ IsWebhook(q) /\ Busy(r) /\ IsWebhook(r) /\ call[q].key = call[r].key
        BY <1>1, <1>2, <2>5, <3>2 DEF Busy, IsWebhook
      <4>. QED  BY <4>1 DEF EventInv
    <3>. QED  BY <3>1, <3>2
  <2>6. ASSUME NEW k \in events'
        PROVE  \E q \in Proc : IsWebhook(q)' /\ call'[q].key = k /\ CarriedBy(q)'
    <3>1. CASE k = call[p].key
      <4>1. IsWebhook(p)' /\ call'[p].key = k /\ CarriedBy(p)'
        BY <1>1, <2>2, <3>1 DEF IsWebhook, CarriedBy
      <4>. QED  BY <4>1
    <3>2. CASE k \in events
      BY <1>1, <1>3, <3>2 DEF EventInv, IsWebhook
    <3>. QED  BY <2>1, <2>6, <3>1, <3>2
  <2>. QED  BY <2>3, <2>5, <2>6 DEF EventInv
<1>. QED  BY <1>4, <1>5

LEMMA ConsumeEvents ==
  ASSUME Known, EventInv, NEW p \in Proc, Consume(p)
  PROVE  EventInv'
<1>1. /\ OnlyCall(p) /\ UNCHANGED accounts /\ Histories /\ call' = call /\ events' = events
      /\ call[p].event = "consume"
  BY CallStepsAlone DEF CallStep, Consume, Begin, Histories
<1>2. ~IsWebhook(p)
  BY <1>1 DEF IsWebhook, Webhook, SubEvent, Upserting, Verdict, OrderEvent
<1>3. \A q \in Proc : q # p => pc'[q] = pc[q]
  BY <1>1 DEF OnlyCall
<1>4. \A q \in Proc : IsWebhook(q)' <=> IsWebhook(q)
  BY <1>1 DEF IsWebhook
<1>5. \A q \in Proc : IsWebhook(q) /\ CarriedBy(q) => CarriedBy(q)'
  BY <1>1, <1>2, OthersCarried
<1>6. \A q \in Proc : IsWebhook(q) => pc'[q] = pc[q]
  BY <1>2, <1>3
<1>7. \A q \in Proc : IsWebhook(q) => (Busy(q)' <=> Busy(q))
  BY <1>6 DEF Busy
<1>. QED  BY <1>1, <1>4, <1>5, <1>6, <1>7 DEF EventInv

(* What a delivery has come to when it is answered.                        *)
LEMMA EventsDiffer ==
  /\ "order_created" \notin SubEvent /\ "order_refunded" \notin SubEvent
  /\ "consume" \notin Webhook
  BY DEF Webhook, SubEvent, Upserting, Verdict, OrderEvent

LEMMA RefundStepCarried ==
  ASSUME Known, PathInv, NEW p \in Proc, IsWebhook(p), LookForPurchase(p) \/ ReadBalance(p)
  PROVE  CarriedBy(p)'
<1>1. pc \in [Proc -> CallPc] /\ PathAt(p) /\ call' = call
  BY DEF Known, LedgerInv, LedgerTypes, PathInv, LookForPurchase, ReadBalance
<1>2. call[p].event = "order_refunded"
  BY <1>1 DEF PathAt, LookForPurchase, ReadBalance
<1>3. pc'[p] \in {"balance", "check"} \/ (pc'[p] = "done" /\ p \in early' \union excused')
  BY <1>1 DEF LookForPurchase, ReadBalance
<1>. QED  BY <1>1, <1>2, <1>3 DEF CarriedBy, Busy, Outcome

LEMMA TransactionCarried ==
  ASSUME Known, PathInv, NEW p \in Proc, IsWebhook(p), Mutate(p)
  PROVE  CarriedBy(p)'
<1>1. /\ pc \in [Proc -> CallPc] /\ txn \in [Proc -> Mutation] /\ PathAt(p) /\ call' = call
      /\ balance \in [User -> Nat] /\ InTransaction(p) /\ Busy(p)
  BY DEF Known, LedgerInv, LedgerTypes, PathInv, Mutate, LedgerStep, CheckDuplicate, CheckRow,
         Upsert, InsertAndCommit, InTransaction, Busy
<1>2. txn[p].user \in User /\ txn[p].amount \in Int
  BY RowTyped DEF Known
<1>3. /\ \/ call[p].event = "order_created" /\ txn[p].type = "purchase" /\ txn[p].amount >= 0
         \/ call[p].event = "order_refunded" /\ txn[p].type = "refund" /\ txn[p].user \in hasRow
      /\ txn[p].order = call[p].order
  BY <1>1, EventsDiffer DEF PathAt, Wants, IsWebhook
<1>0. PICK type, o : type = txn[p].type /\ o = txn[p].order
  OBVIOUS
<1>4. ASSUME Booked(type, o)'
      PROVE  Outcome(p)'
  BY <1>0, <1>1, <1>3, <1>4 DEF Outcome
<1>5. CASE CheckDuplicate(p)
  <2>1. CASE Booked(type, o)
    <3>1. Booked(type, o)'
      <4>1. UNCHANGED accounts
        BY <1>5 DEF CheckDuplicate, Leave
      <4>. QED  BY <2>1, <4>1, BookingGrows DEF Known
    <3>2. pc'[p] = "done"
      BY <1>0, <1>1, <1>3, <1>5, <2>1 DEF CheckDuplicate, Leave
    <3>. QED  BY <1>4, <3>1, <3>2 DEF CarriedBy
  <2>2. CASE ~Booked(type, o)
    <3>1. pc'[p] = "pre"
      BY <1>0, <1>1, <1>5, <2>2 DEF CheckDuplicate
    <3>. QED  BY <3>1 DEF CarriedBy, Busy
  <2>. QED  BY <2>1, <2>2
<1>6. CASE CheckRow(p)
  <2>1. ~(txn[p].amount < 0 /\ txn[p].user \notin hasRow)
    BY <1>2, <1>3
  <2>2. pc'[p] = "upsert"
    BY <1>1, <1>6, <2>1 DEF CheckRow
  <2>. QED  BY <2>2 DEF CarriedBy, Busy
<1>7. CASE Upsert(p)
  <2>1. CASE pc'[p] = "insert"
    BY <2>1 DEF CarriedBy, Busy
  <2>2. CASE pc'[p] # "insert"
    <3>1. balance[txn[p].user] + txn[p].amount < 0 /\ pc[p] = "upsert" /\ pc'[p] = "done"
      BY <1>1, <1>7, <2>2 DEF Upsert, Leave
    <3>2. call[p].event = "order_refunded" /\ txn[p].type = "refund"
      BY <1>1, <1>2, <1>3, <3>1
    <3>3. p \in excused'
      BY <3>1, <3>2 DEF Mutate
    <3>. QED  BY <1>1, <3>1, <3>2, <3>3 DEF CarriedBy, Outcome
  <2>. QED  BY <2>1, <2>2
<1>8. CASE InsertAndCommit(p)
  <2>1. pc'[p] = "done"
    BY <1>1, <1>8, InsertBooks
  <2>2. Booked(type, o)'
    <3>1. CASE Books(p)
      BY <1>0, <3>1, BookingGrows DEF Known
    <3>2. CASE txn[p].type = "purchase" /\ Booked("purchase", txn[p].order) /\ UNCHANGED accounts
      BY <1>0, <3>2, BookingGrows DEF Known
    <3>. QED  BY <1>8, <3>1, <3>2, InsertBooks
  <2>. QED  BY <1>4, <2>1, <2>2 DEF CarriedBy
<1>. QED  BY <1>5, <1>6, <1>7, <1>8 DEF Mutate, LedgerStep

LEMMA OtherCarried ==
  ASSUME Known, PathInv, NEW p \in Proc, IsWebhook(p),
         Apply(p) \/ Invalidate(p) \/ InvalidateFails(p) \/ DispatchFails(p) \/ Die(p)
  PROVE  CarriedBy(p)'
<1>1. pc \in [Proc -> CallPc] /\ PathAt(p)
  BY DEF Known, LedgerInv, LedgerTypes, PathInv
<1>2. CASE Apply(p)
  BY <1>1, <1>2 DEF Apply, CarriedBy, Busy
<1>3. CASE Invalidate(p) \/ InvalidateFails(p)
  <2>1. call' = call /\ pc[p] = "invalidate" /\ pc'[p] = "done"
    BY <1>1, <1>3 DEF Invalidate, InvalidateFails
  <2>2. call[p].event \in SubEvent
    BY <1>1, <2>1 DEF PathAt
  <2>. QED  BY <2>1, <2>2, EventsDiffer DEF CarriedBy, Outcome
<1>4. CASE DispatchFails(p) \/ Die(p)
  BY <1>4 DEF DispatchFails, Die, CarriedBy
<1>. QED  BY <1>2, <1>3, <1>4

LEMMA CallStepEvents ==
  ASSUME Known, PathInv, EventInv, NEW p \in Proc, CallStep(p) \/ Die(p)
  PROVE  EventInv'
<1>1. CASE Receive(p) \/ Consume(p)
  BY <1>1, ReceiveEvents, ConsumeEvents
<1>2. CASE ~Receive(p) /\ ~Consume(p)
  <2>1. Busy(p) /\ events' = events /\ Histories
    BY <1>2
    DEF CallStep, LookForPurchase, ReadBalance, Mutate, LedgerStep, CheckDuplicate, CheckRow,
        Upsert, InsertAndCommit, Apply, Invalidate, InvalidateFails, DispatchFails, Die, Busy,
        Histories
  <2>2. IsWebhook(p) => CarriedBy(p)'
    BY <1>2, RefundStepCarried, TransactionCarried, OtherCarried DEF CallStep
  <2>. QED  BY <2>1, <2>2, CallStepsAlone, CallStepBooks, EventsKept
<1>. QED  BY <1>1, <1>2

-----------------------------------------------------------------------------
(* RefundInv, and every order booked once *)

LEMMA CallStepRefunds ==
  ASSUME Known, OneEventPerRefund, PathInv, EventInv, RefundInv, NEW p \in Proc,
         CallStep(p) \/ Die(p)
  PROVE  RefundInv'
<1>1. call' = call /\ \A r \in Proc : r # p => pc'[r] = pc[r]
  BY CallStepsAlone DEF OnlyCall
<1>. SUFFICES ASSUME NEW q \in Proc, call[q].event = "order_refunded",
                     NEW o, o = call[q].order, Booked("refund", o)'
              PROVE  call[q].key \in events' /\ ~Busy(q)'
  BY <1>1 DEF RefundInv, Booked, Rows
<1>2. IsWebhook(q) /\ events \subseteq events'
  BY <1>1
  DEF CallStep, Receive, Consume, LookForPurchase, ReadBalance, Mutate, Apply, Invalidate,
      InvalidateFails, DispatchFails, Die, IsWebhook, Webhook, OrderEvent
<1>3. CASE Booked("refund", call[q].order)
  <2>1. call[q].key \in events /\ ~Busy(q)
    BY <1>1, <1>3 DEF RefundInv
  <2>2. CASE q # p
    BY <1>1, <1>2, <2>1, <2>2 DEF Busy
  <2>3. CASE q = p
    <3>1. pc \in [Proc -> CallPc] /\ ~Consume(p)
      BY <1>2, <2>3, EventsDiffer DEF Known, LedgerInv, LedgerTypes, Consume, IsWebhook
    <3>2. Receive(p)
      BY <2>1, <2>3, <3>1
      DEF CallStep, LookForPurchase, ReadBalance, Mutate, LedgerStep, CheckDuplicate, CheckRow,
          Upsert, InsertAndCommit, Apply, Invalidate, InvalidateFails, DispatchFails, Die, Busy
    <3>3. pc'[p] = "done"
      BY <2>1, <2>3, <3>1, <3>2 DEF Receive
    <3>. QED  BY <1>1, <1>2, <2>1, <2>3, <3>3 DEF Busy
  <2>. QED  BY <2>2, <2>3
<1>4. CASE ~Booked("refund", call[q].order)
  <2>1. Books(p) /\ txn[p].type = "refund" /\ txn[p].order = call[q].order
    <3>1. ~Booked("refund", o)
      BY <1>4
    <3>. QED  BY <3>1, CallStepBooks, BookingGrows DEF Known
  <2>2. pc[p] = "insert" /\ PathAt(p)
    BY <2>1 DEF Books, PathInv
  <2>3. call[p].event = "order_refunded" /\ Busy(p)
    BY <2>1, <2>2 DEF PathAt, InTransaction, Wants, Busy
  <2>4. IsWebhook(p)
    BY <2>3 DEF IsWebhook, Webhook, OrderEvent
  <2>5. call[p].order = call[q].order
    BY <2>1, <2>2, <2>3, <2>4 DEF PathAt
  <2>6. call[p].key = call[q].key
    BY <1>1, <2>3, <2>5 DEF OneEventPerRefund, Known
  <2>7. call[q].key \in events
    BY <2>2, <2>4, <2>6 DEF EventInv
  <2>8. CASE q = p
    <3>1. pc'[p] \in {"done", "idle"}
      BY <2>2
      DEF Known, LedgerInv, LedgerTypes, CallStep, Receive, Consume, LookForPurchase, ReadBalance,
          Mutate, LedgerStep, CheckDuplicate, CheckRow, Upsert, InsertAndCommit, Apply, Invalidate,
          InvalidateFails, DispatchFails, Die
    <3>. QED  BY <1>1, <1>2, <2>7, <2>8, <3>1 DEF Busy
  <2>9. CASE q # p
    <3>1. ~Busy(q)
      BY <1>2, <2>3, <2>4, <2>6, <2>9 DEF EventInv
    <3>. QED  BY <1>1, <1>2, <2>7, <2>9, <3>1 DEF Busy
  <2>. QED  BY <2>8, <2>9
<1>. QED  BY <1>3, <1>4

LEMMA BooksOnce ==
  ASSUME Known, NEW p \in Proc, Books(p) \/ UNCHANGED accounts, NEW type, NEW o,
         BookedOnce(type, o),
         Books(p) /\ txn[p].type = type /\ txn[p].order = o => ~Booked(type, o)
  PROVE  BookedOnce(type, o)'
<1>1. CASE Books(p)
  <2>1. Row(p).type = type /\ Row(p).order = o => ~Booked(type, o)
    BY <1>1, RowTyped DEF Known
  <2>. QED  BY <1>1, <2>1, RowTyped, RowBooksOnce DEF Known, Books
<1>2. CASE UNCHANGED accounts
  BY <1>2 DEF accounts, BookedOnce, BooksOrder
<1>. QED  BY <1>1, <1>2

LEMMA CallStepGrantsOnce ==
  ASSUME Known, NEW p \in Proc, CallStep(p) \/ Die(p), NEW o, BookedOnce("purchase", o)
  PROVE  BookedOnce("purchase", o)'
<1>1. Books(p) /\ txn[p].type = "purchase" /\ txn[p].order = o => ~Booked("purchase", o)
  BY DEF Books
<1>. QED  BY <1>1, CallStepBooks, BooksOnce

LEMMA CallStepRefundsOnce ==
  ASSUME Known, PathInv, RefundInv, NEW p \in Proc, CallStep(p) \/ Die(p), NEW o,
         BookedOnce("refund", o)
  PROVE  BookedOnce("refund", o)'
<1>1. ASSUME Books(p), txn[p].type = "refund", txn[p].order = o
      PROVE  ~Booked("refund", o)
  <2>1. pc[p] = "insert" /\ PathAt(p)
    BY <1>1 DEF Books, PathInv
  <2>2. call[p].event = "order_refunded" /\ Busy(p)
    BY <1>1, <2>1 DEF PathAt, InTransaction, Wants, Busy
  <2>3. call[p].order = o
    BY <1>1, <2>1, <2>2 DEF PathAt, IsWebhook, Webhook, OrderEvent
  <2>. QED  BY <2>2, <2>3 DEF RefundInv
<1>. QED  BY <1>1, CallStepBooks, BooksOnce

-----------------------------------------------------------------------------
LEMMA OtherStepsStand ==
  ASSUME [WebhookNext]_webhookVars
  PROVE  \/ \E p \in Proc : CallStep(p) \/ Die(p)
         \/ UNCHANGED <<ledgerVars, call, events, lost, early, excused>>
<1>1. UNCHANGED webhookVars => UNCHANGED <<ledgerVars, call, events, lost, early, excused>>
  BY DEF webhookVars
<1>. QED  BY <1>1 DEF WebhookNext, LookUp, SetKey, KeyExpires, GraceEnds

LEMMA EventsStand ==
  ASSUME PathInv, EventInv, UNCHANGED <<ledgerVars, call, events, lost, early, excused>>
  PROVE  /\ PathInv' /\ EventInv' /\ (RefundInv => RefundInv')
         /\ \A type, o : BookedOnce(type, o) => BookedOnce(type, o)'
<1>1. UNCHANGED <<hasRow, balance, ledger, holder, pc, txn>>
  BY DEF ledgerVars, accounts
<1>2. PathInv'
  BY <1>1 DEF PathInv, PathAt, Wants, InTransaction, Busy, IsWebhook
<1>3. \A type, o : Booked(type, o)' <=> Booked(type, o)
  BY <1>1 DEF Booked, Rows
<1>4. \A p \in Proc : (CarriedBy(p)' <=> CarriedBy(p)) /\ (Busy(p)' <=> Busy(p))
                      /\ (IsWebhook(p)' <=> IsWebhook(p))
  BY <1>1, <1>3 DEF CarriedBy, Outcome, Busy, IsWebhook
<1>5. EventInv'
  BY <1>1, <1>4 DEF EventInv
<1>6. RefundInv => RefundInv'
  BY <1>3, <1>4 DEF RefundInv
<1>7. \A type, o : BookedOnce(type, o) => BookedOnce(type, o)'
  BY <1>1 DEF BookedOnce, BooksOrder
<1>. QED  BY <1>2, <1>5, <1>6, <1>7

AnswerInv == Known /\ PathInv /\ EventInv

LEMMA AnswerInitInv ==
  ASSUME WebhookInit
  PROVE  /\ AnswerInv /\ RefundInv /\ \A type, o : BookedOnce(type, o)
<1>1. /\ balance = [u \in User |-> 0] /\ ledger = [u \in User |-> <<>>]
      /\ pc = [p \in Proc |-> "idle"] /\ events = {} /\ call \in Calls
  BY DEF WebhookInit, LedgerInit
<1>2. Known
  BY <1>1, LedgerInitInv DEF Known
<1>3. PathInv
  BY <1>1 DEF PathInv, PathAt, InTransaction, Busy
<1>4. EventInv
  BY <1>1 DEF EventInv, Busy
<1>5. \A type, o : ~Booked(type, o) /\ BookedOnce(type, o)
  BY <1>1 DEF Booked, Rows, BookedOnce
<1>. QED  BY <1>2, <1>3, <1>4, <1>5 DEF AnswerInv, RefundInv

LEMMA AnswerNextInv ==
  AnswerInv /\ [WebhookNext]_webhookVars => AnswerInv'
<1>. SUFFICES ASSUME AnswerInv, [WebhookNext]_webhookVars
              PROVE  AnswerInv'
  OBVIOUS
<1>1. Known'
  <2>1. call' = call
    BY OtherStepsStand, CallStepsAlone DEF OnlyCall, AnswerInv
  <2>. QED  BY <2>1, LedgerNextInv DEF AnswerInv, Known
<1>2. PathInv' /\ EventInv'
  BY OtherStepsStand, EventsStand, CallStepPath, CallStepEvents DEF AnswerInv
<1>. QED  BY <1>1, <1>2 DEF AnswerInv

(* A delivery that carried the event of an answered one is answered too.   *)
LEMMA SettledIsOutcome ==
  ASSUME AnswerInv, NEW event \in Webhook, NEW o \in Order, Settled(event, o)
  PROVE  \E p \in Proc : call[p].event = event /\ call[p].order = o /\ Outcome(p)
<1>1. PICK p \in Proc : call[p].event = event /\ call[p].order = o
  BY DEF Settled
<1>2. pc[p] = "done" /\ IsWebhook(p)
  BY <1>1 DEF Settled, IsWebhook
<1>3. call[p].key \in events
  BY <1>2 DEF AnswerInv, EventInv
<1>4. PICK q \in Proc : IsWebhook(q) /\ call[q].key = call[p].key /\ CarriedBy(q)
  BY <1>3 DEF AnswerInv, EventInv
<1>5. call[q].event = event /\ call[q].order = o
  BY <1>1, <1>2, <1>4, ShopAssumption DEF AnswerInv, Known, IsWebhook
<1>6. pc[q] = "done" /\ q \notin lost
  BY <1>5 DEF Settled
<1>. QED  BY <1>4, <1>5, <1>6 DEF CarriedBy, Busy

LEMMA AnsweredHolds ==
  ASSUME AnswerInv
  PROVE  AnsweredIsBooked
<1>1. "order_created" \in Webhook /\ "order_refunded" \in Webhook
  BY DEF Webhook, OrderEvent
<1>2. ASSUME NEW o \in Order, Settled("order_created", o)
      PROVE  Booked("purchase", o)
  BY <1>1, <1>2, SettledIsOutcome DEF Outcome
<1>3. ASSUME NEW o \in Order, Settled("order_refunded", o),
             \A p \in Proc : call[p].order = o => p \notin early \union excused
      PROVE  Booked("refund", o)
  BY <1>1, <1>3, SettledIsOutcome DEF Outcome
<1>. QED  BY <1>2, <1>3 DEF AnsweredIsBooked, AcknowledgedIsGranted, RefundClawsBack

-----------------------------------------------------------------------------
(* TableInv *)

LEMMA ShopFacts ==
  ASSUME Known, NEW p \in Proc, call[p].event \in SubEvent
  PROVE  /\ call[p].sub \in Sub /\ call[p].seq \in Nat /\ call[p].user \in User
         /\ call[p].tier \in Tier
         /\ NewStatus(call[p]) \in Status
         /\ call[p].seq = 1 => call[p].event \in Upserting
<1>1. /\ call[p].sub \in Sub /\ call[p].seq \in Nat /\ call[p].user \in User
      /\ call[p].tier \in Tier
      /\ call[p].seq = 1 => call[p].event \in Upserting
  BY ShopAssumption DEF Known, LedgerInv, CallsTyped, Tier
<1>2. NewStatus(call[p]) \in Status
  BY DEF Status, Known
<1>. QED  BY <1>1, <1>2

LEMMA ApplyRowIs ==
  ASSUME Known, TableInv, NEW p \in Proc, call[p].event \in SubEvent
  PROVE  /\ ApplyRow(call[p]) \in Subscription
         /\ ApplyRow(call[p]).user \in {None, call[p].user}
         /\ call[p].event \in Upserting \/ subs[call[p].sub].user # None =>
              /\ ApplyRow(call[p]).user = call[p].user
              /\ ApplyRow(call[p]).status = NewStatus(call[p])
<1>. DEFINE c == call[p]
            s == c.sub
<1>1. /\ s \in Sub /\ c.user \in User /\ c.tier \in Tier
      /\ NewStatus(c) \in Status /\ subs[s] \in Subscription
      /\ subs[s].user \in {None, c.user}
  BY ShopFacts DEF TableInv, EventOf, Subscription
<1>2. NoSub \in Subscription /\ NoSub.user = None
  BY DEF NoSub, Subscription, Tier, Status
<1>3. CASE c.event \in Upserting
  BY <1>1, <1>3 DEF ApplyRow, Subscription, NewStatus
<1>4. CASE c.event \notin Upserting /\ subs[s] = NoSub
  BY <1>1, <1>2, <1>4 DEF ApplyRow
<1>5. CASE c.event \notin Upserting /\ subs[s] # NoSub
  <2>. DEFINE overdue == IF Renews(c) THEN FALSE ELSE subs[s].overdue
  <2>1. ApplyRow(c) = [subs[s] EXCEPT !.status = NewStatus(c), !.overdue = overdue]
    BY <1>5 DEF ApplyRow
  <2>2. overdue \in BOOLEAN
    BY <1>1 DEF Subscription
  <2>. HIDE DEF overdue
  <2>3. /\ ApplyRow(c) \in Subscription /\ ApplyRow(c).user = subs[s].user
        /\ ApplyRow(c).status = NewStatus(c)
    BY <1>1, <2>1, <2>2 DEF Subscription
  <2>. QED  BY <1>1, <1>5, <2>3
<1>. QED  BY <1>3, <1>4, <1>5

LEMMA ApplyTable ==
  ASSUME Known, PathInv, TableInv, NEW p \in Proc, Apply(p)
  PROVE  TableInv'
<1>. DEFINE c == call[p]
            s == c.sub
            row == ApplyRow(c)
<1>1. c.event \in SubEvent /\ call' = call /\ subs' = [subs EXCEPT ![s] = row]
  BY DEF Apply, PathInv, PathAt
<1>2. /\ s \in Sub /\ c.user \in User /\ c.user # None
      /\ row \in Subscription /\ row.user \in {None, c.user}
  BY <1>1, ShopFacts, ApplyRowIs, LedgerAssumption
<1>. HIDE DEF row
<1>3. /\ subs' \in [Sub -> Subscription] /\ subs'[s] = row
      /\ \A t \in Sub : t # s => subs'[t] = subs[t]
  BY <1>1, <1>2 DEF TableInv
<1>4. ASSUME NEW t \in Sub, subs'[t].user # None, NEW q \in Proc, EventOf(q, t)
      PROVE  call[q].user = subs'[t].user
  <2>1. CASE t = s
    <3>1. subs'[t].user = c.user
      BY <1>2, <1>3, <1>4, <2>1
    <3>2. call[q].user = c.user
      BY <1>1, <1>4, <2>1, ShopAssumption DEF EventOf, Known
    <3>. QED  BY <3>1, <3>2
  <2>2. CASE t # s
    BY <1>3, <1>4, <2>2 DEF TableInv
  <2>. QED  BY <2>1, <2>2
<1>. QED  BY <1>1, <1>3, <1>4 DEF TableInv, EventOf

LEMMA GraceTable ==
  ASSUME TableInv, NEW s \in Sub, GraceEnds(s)
  PROVE  TableInv'
<1>1. /\ subs' = [subs EXCEPT ![s].overdue = TRUE] /\ applied' = applied /\ call' = call
  BY DEF GraceEnds
<1>2. /\ subs' \in [Sub -> Subscription]
      /\ \A t \in Sub : subs'[t].user = subs[t].user /\ subs'[t].status = subs[t].status
  BY <1>1 DEF TableInv, Subscription
<1>. QED  BY <1>1, <1>2 DEF TableInv, EventOf

LEMMA TableStands ==
  ASSUME TableInv, UNCHANGED <<subs, applied, call>>
  PROVE  TableInv'
BY DEF TableInv, EventOf

LEMMA TableNext ==
  ASSUME Known, PathInv, TableInv, [WebhookNext]_webhookVars
  PROVE  TableInv'
<1>1. ASSUME NEW p \in Proc, CallStep(p) \/ Die(p)
      PROVE  Apply(p) \/ UNCHANGED <<subs, applied, call>>
  BY <1>1
  DEF CallStep, Receive, Consume, LookForPurchase, ReadBalance, Mutate, Invalidate,
      InvalidateFails, DispatchFails, Die, subVars
<1>2. ASSUME NEW s \in Sub, GraceEnds(s)
      PROVE  TableInv'
  BY <1>2, GraceTable
<1>. QED
  BY <1>1, <1>2, ApplyTable, TableStands
  DEF WebhookNext, webhookVars, LookUp, SetKey, KeyExpires, subVars

(* The same, with what has been applied.                                   *)

LEMMA SameEvent ==
  ASSUME Known, NEW p \in Proc, NEW q \in Proc, NEW s, EventOf(p, s)
  PROVE  /\ EventOf(q, s) /\ call[q].seq = call[p].seq =>
              call[q].key = call[p].key /\ NewStatus(call[q]) = NewStatus(call[p])
         /\ IsWebhook(q) /\ call[q].key = call[p].key =>
              EventOf(q, s) /\ call[q].seq = call[p].seq
<1>1. call \in Calls /\ call[p].event \in SubEvent /\ SubEvent \subseteq Webhook
  BY DEF Known, EventOf, Webhook
<1>2. EventOf(q, s) /\ call[q].seq = call[p].seq =>
        call[q].key = call[p].key /\ NewStatus(call[q]) = NewStatus(call[p])
  BY <1>1, ShopAssumption DEF EventOf
<1>3. ASSUME IsWebhook(q), call[q].key = call[p].key
      PROVE  EventOf(q, s) /\ call[q].seq = call[p].seq
  <2>1. call[q].event \in SubEvent
    BY <1>1, <1>3, ShopAssumption DEF IsWebhook
  <2>. QED  BY <1>1, <1>3, <2>1, ShopAssumption DEF EventOf
<1>. QED  BY <1>2, <1>3

(* An event comes to the table once, and there it is the newest one unless *)
(* it has been overtaken.                                                  *)
LEMMA ApplyApplied ==
  ASSUME Known, PathInv, EventInv, TableInv, AppliedInv, NEW p \in Proc, Apply(p)
  PROVE  AppliedInv'
<1>. DEFINE c == call[p]
            s == c.sub
            row == ApplyRow(c)
            seen == applied[s].seen \union {c.seq}
            overtaken == applied[s].overtaken
                         \/ (c.seq \notin applied[s].seen /\ \E n \in applied[s].seen : n > c.seq)
<1>1. /\ pc[p] = "apply" /\ c.event \in SubEvent /\ call' = call /\ events' = events
      /\ lost' = lost /\ subs' = [subs EXCEPT ![s] = row]
      /\ applied' = [applied EXCEPT ![s] = [seen |-> seen, overtaken |-> overtaken]]
  BY DEF Apply, PathInv, PathAt
<1>2. /\ s \in Sub /\ c.seq \in Nat /\ c.user # None
      /\ (c.seq = 1 => c.event \in Upserting)
      /\ (c.event \in Upserting \/ subs[s].user # None) =>
           row.user = c.user /\ row.status = NewStatus(c)
  BY <1>1, ShopFacts, ApplyRowIs, LedgerAssumption
<1>. HIDE DEF row
<1>3. /\ EventOf(p, s) /\ IsWebhook(p) /\ Busy(p) /\ c.key \in events
      /\ c.seq \notin applied[s].seen
  <2>1. EventOf(p, s) /\ IsWebhook(p) /\ Busy(p)
    BY <1>1 DEF EventOf, IsWebhook, Webhook, Busy
  <2>2. c.key \in events
    BY <1>1, <2>1 DEF EventInv
  <2>3. c.seq \notin applied[s].seen
    BY <1>1, <1>2, <2>1 DEF AppliedInv
  <2>. QED  BY <2>1, <2>2, <2>3
<1>4. /\ applied[s].seen \subseteq Nat /\ seen \subseteq Nat /\ overtaken \in BOOLEAN
      /\ applied[s].seen \subseteq seen /\ c.seq \in seen
  BY <1>2 DEF AppliedInv
<1>5. ASSUME ~overtaken, 1 \in seen
      PROVE  /\ \A n \in seen : n <= c.seq
             /\ row.user # None /\ row.status = NewStatus(c)
  <2>1. ~applied[s].overtaken /\ \A n \in applied[s].seen : ~(n > c.seq)
    BY <1>3, <1>5
  <2>2. \A n \in seen : n <= c.seq
    BY <1>2, <1>4, <2>1
  <2>3. c.event \in Upserting \/ subs[s].user # None
    <3>1. CASE c.seq = 1
      BY <1>2, <3>1
    <3>2. CASE c.seq # 1
      BY <1>2, <1>5, <2>1, <3>2 DEF AppliedInv, RowFollows
    <3>. QED  BY <3>1, <3>2
  <2>. QED  BY <1>2, <2>2, <2>3
<1>. HIDE DEF seen, overtaken
<1>6. /\ applied' \in [Sub -> [seen: SUBSET Nat, overtaken: BOOLEAN]]
      /\ applied'[s].seen = seen /\ applied'[s].overtaken = overtaken
      /\ \A t \in Sub : t # s => applied'[t] = applied[t]
      /\ subs'[s] = row /\ \A t \in Sub : t # s => subs'[t] = subs[t]
  BY <1>1, <1>2, <1>4 DEF AppliedInv, TableInv
<1>7. pc'[p] = "invalidate" /\ \A q \in Proc : q # p => pc'[q] = pc[q]
  BY DEF Apply, Known, LedgerInv, LedgerTypes
<1>8. ASSUME NEW t \in Sub, NEW q \in Proc, EventOf(q, t), call[q].seq \in applied'[t].seen
      PROVE  call[q].key \in events /\ pc'[q] # "apply"
  <2>1. CASE call[q].seq \in applied[t].seen
    BY <1>7, <1>8, <2>1 DEF AppliedInv
  <2>2. CASE call[q].seq \notin applied[t].seen
    <3>1. t = s /\ call[q].seq = c.seq
      BY <1>6, <1>8, <2>2 DEF seen
    <3>2. call[q].key = c.key
      BY <1>3, <1>8, <3>1, SameEvent
    <3>3. ASSUME pc[q] = "apply" PROVE q = p
      <4>1. Busy(q) /\ IsWebhook(q)
        BY <1>8, <3>3 DEF Busy, EventOf, IsWebhook, Webhook
      <4>. QED  BY <1>3, <3>2, <4>1 DEF EventInv
    <3>. QED  BY <1>3, <1>7, <3>2, <3>3
  <2>. QED  BY <2>1, <2>2
<1>9. ASSUME NEW t \in Sub, NEW q \in Proc, EventOf(q, t), call[q].key \in events
      PROVE  call[q].seq \in applied'[t].seen \/ Awaited(q)'
  <2>1. CASE call[q].seq \in applied[t].seen
    BY <1>4, <1>6, <2>1
  <2>2. CASE call[q].seq \notin applied[t].seen
    <3>1. PICK r \in Proc : /\ IsWebhook(r) /\ call[r].key = call[q].key
                            /\ pc[r] = "apply" \/ r \in lost
      BY <1>9, <2>2 DEF AppliedInv, Awaited
    <3>2. CASE r = p
      <4>1. IsWebhook(p) /\ call[p].key = call[q].key
        BY <3>1, <3>2
      <4>2. EventOf(p, t) /\ call[p].seq = call[q].seq
        BY <1>9, <4>1, SameEvent
      <4>3. t = s
        BY <4>2 DEF EventOf
      <4>. QED  BY <1>4, <1>6, <4>2, <4>3
    <3>3. CASE r # p
      BY <1>1, <1>7, <3>1, <3>3 DEF Awaited, IsWebhook
    <3>. QED  BY <3>2, <3>3
  <2>. QED  BY <2>1, <2>2
<1>10. ASSUME NEW t \in Sub, ~applied'[t].overtaken, 1 \in applied'[t].seen
       PROVE  RowFollows(t)'
  <2>1. CASE t = s
    <3>1. /\ \A n \in applied'[t].seen : n <= call[p].seq
          /\ subs'[t].user # None /\ subs'[t].status = NewStatus(call[p])
      BY <1>5, <1>6, <1>10, <2>1
    <3>. QED  BY <1>1, <1>3, <2>1, <3>1 DEF RowFollows, EventOf
  <2>2. CASE t # s
    <3>1. RowFollows(t) /\ applied'[t] = applied[t] /\ subs'[t] = subs[t]
      BY <1>6, <1>10, <2>2 DEF AppliedInv
    <3>. QED  BY <1>1, <3>1 DEF RowFollows, EventOf
  <2>. QED  BY <2>1, <2>2
<1>11. \A t \in Sub, q \in Proc : EventOf(q, t)' <=> EventOf(q, t)
  BY <1>1 DEF EventOf
<1>. QED  BY <1>1, <1>6, <1>8, <1>9, <1>10, <1>11 DEF AppliedInv

LEMMA AppliedKept ==
  ASSUME Known, AppliedInv, UNCHANGED <<applied, call>>,
         \A s \in Sub : subs'[s].user = subs[s].user /\ subs'[s].status = subs[s].status,
         events \subseteq events', lost \subseteq lost',
         \A p \in Proc : pc'[p] = "apply" => pc[p] = "apply" \/ call[p].key \notin events,
         \A p \in Proc : pc[p] = "apply" => pc'[p] = "apply" \/ p \in lost',
         \A p \in Proc : call[p].event \in SubEvent /\ call[p].key \in events' =>
           \/ call[p].key \in events
           \/ \E q \in Proc : IsWebhook(q) /\ call[q].key = call[p].key /\ pc'[q] = "apply"
  PROVE  AppliedInv'
<1>1. \A p \in Proc, s \in Sub : EventOf(p, s)' <=> EventOf(p, s)
  BY DEF EventOf
<1>2. \A p \in Proc : Awaited(p) => Awaited(p)'
  BY DEF Awaited, IsWebhook
<1>3. \A s \in Sub : RowFollows(s) => RowFollows(s)'
  BY <1>1 DEF RowFollows
<1>4. ASSUME NEW s \in Sub, NEW p \in Proc, EventOf(p, s), call[p].seq \in applied[s].seen
      PROVE  call[p].key \in events' /\ pc'[p] # "apply"
  BY <1>4 DEF AppliedInv
<1>5. ASSUME NEW s \in Sub, NEW p \in Proc, EventOf(p, s), call[p].key \in events'
      PROVE  call[p].seq \in applied[s].seen \/ Awaited(p)'
  <2>1. CASE call[p].key \in events
    BY <1>2, <1>5, <2>1 DEF AppliedInv
  <2>2. CASE call[p].key \notin events
    BY <1>5, <2>2 DEF EventOf, Awaited, IsWebhook
  <2>. QED  BY <2>1, <2>2
<1>. QED  BY <1>1, <1>3, <1>4, <1>5 DEF AppliedInv

LEMMA ReceiveApplied ==
  ASSUME Known, AppliedInv, NEW p \in Proc, Receive(p)
  PROVE  AppliedInv'
<1>1. /\ pc[p] = "idle" /\ IsWebhook(p) /\ lost' = lost
      /\ UNCHANGED <<applied, call, subs>>
      /\ \A q \in Proc : q # p => pc'[q] = pc[q]
  BY CallStepsAlone DEF Receive, subVars, OnlyCall, CallStep
<1>2. CASE call[p].key \in events
  <2>1. pc'[p] = "done" /\ events' = events
    BY <1>2 DEF Receive, Known, LedgerInv, LedgerTypes
  <2>2. \A q \in Proc : pc'[q] = "apply" <=> pc[q] = "apply"
    BY <1>1, <2>1
  <2>. QED  BY <1>1, <2>1, <2>2, AppliedKept
<1>3. CASE call[p].key \notin events
  <2>1. pc'[p] = FirstStep(call[p]) /\ events' = events \union {call[p].key}
    BY <1>3 DEF Receive, Known, LedgerInv, LedgerTypes
  <2>2. ASSUME NEW q \in Proc, call[q].event \in SubEvent, call[q].key \in events',
               call[q].key \notin events
        PROVE  call[p].key = call[q].key /\ pc'[p] = "apply"
    <3>1. call[p].key = call[q].key
      BY <2>1, <2>2
    <3>2. call[p].event \in SubEvent
      BY <1>1, <2>2, <3>1, SameEvent DEF EventOf
    <3>. QED  BY <2>1, <3>1, <3>2, EventsDiffer DEF FirstStep
  <2>3. \A q \in Proc : pc'[q] = "apply" => pc[q] = "apply" \/ call[q].key \notin events
    BY <1>1, <1>3
  <2>4. \A q \in Proc : pc[q] = "apply" => pc'[q] = "apply"
    BY <1>1
  <2>5. \A q \in Proc : call[q].event \in SubEvent /\ call[q].key \in events' =>
           \/ call[q].key \in events
           \/ \E r \in Proc : IsWebhook(r) /\ call[r].key = call[q].key /\ pc'[r] = "apply"
    BY <1>1, <2>2
  <2>. QED  BY <1>1, <2>1, <2>3, <2>4, <2>5, AppliedKept
<1>. QED  BY <1>2, <1>3

LEMMA AppliedNext ==
  ASSUME Known, PathInv, EventInv, TableInv, AppliedInv, [WebhookNext]_webhookVars
  PROVE  AppliedInv'
<1>1. ASSUME NEW p \in Proc, CallStep(p) \/ Die(p), ~Apply(p), ~Receive(p)
      PROVE  AppliedInv'
  <2>1. /\ UNCHANGED <<applied, call, subs, events>> /\ lost \subseteq lost'
        /\ \A q \in Proc : q # p => pc'[q] = pc[q]
    BY <1>1, CallStepsAlone
    DEF CallStep, Consume, LookForPurchase, ReadBalance, Mutate, Invalidate, InvalidateFails,
        DispatchFails, Die, subVars, OnlyCall
  <2>2. pc'[p] # "apply" /\ (pc[p] = "apply" => p \in lost')
    BY <1>1
    DEF CallStep, Consume, Begin, LookForPurchase, ReadBalance, Mutate, LedgerStep,
        CheckDuplicate, CheckRow, Upsert, InsertAndCommit, Leave, Invalidate, InvalidateFails,
        DispatchFails, Die, Known, LedgerInv, LedgerTypes
  <2>3. \A q \in Proc : /\ pc'[q] = "apply" => pc[q] = "apply"
                        /\ pc[q] = "apply" => pc'[q] = "apply" \/ q \in lost'
    BY <2>1, <2>2
  <2>4. \A s \in Sub : subs'[s].user = subs[s].user /\ subs'[s].status = subs[s].status
    BY <2>1
  <2>5. events' = events /\ applied' = applied /\ call' = call
    BY <2>1
  <2>6. \A q \in Proc : call[q].event \in SubEvent /\ call[q].key \in events' =>
           \/ call[q].key \in events
           \/ \E r \in Proc : IsWebhook(r) /\ call[r].key = call[q].key /\ pc'[r] = "apply"
    BY <2>5
  <2>7. events \subseteq events' /\ lost \subseteq lost'
    BY <2>1
  <2>8. UNCHANGED <<applied, call>>
    BY <2>5
  <2>. QED  BY <2>3, <2>4, <2>6, <2>7, <2>8, AppliedKept
<1>2. CASE UNCHANGED <<ledgerVars, call, events, lost, early, excused>> /\ applied' = applied
           /\ \A s \in Sub : subs'[s].user = subs[s].user /\ subs'[s].status = subs[s].status
  <2>1. pc' = pc
    BY <1>2 DEF ledgerVars
  <2>. QED  BY <1>2, <2>1, AppliedKept
<1>3. ASSUME NEW s \in Sub, GraceEnds(s)
      PROVE  AppliedInv'
  <2>1. subs' = [subs EXCEPT ![s].overdue = TRUE]
    BY <1>3 DEF GraceEnds
  <2>2. \A t \in Sub : subs'[t].user = subs[t].user /\ subs'[t].status = subs[t].status
    BY <2>1 DEF TableInv, Subscription
  <2>. QED  BY <1>2, <1>3, <2>2 DEF GraceEnds
<1>4. ASSUME NEW p \in Proc, CallStep(p) \/ Die(p)
      PROVE  AppliedInv'
  BY <1>1, <1>4, ApplyApplied, ReceiveApplied
<1>5. (\E r \in Resolver : LookUp(r) \/ SetKey(r)) \/ (\E u \in User : KeyExpires(u))
        \/ UNCHANGED webhookVars
        => UNCHANGED <<ledgerVars, call, events, lost, early, excused, subs, applied>>
  BY DEF LookUp, SetKey, KeyExpires, webhookVars, subVars
<1>. QED  BY <1>2, <1>3, <1>4, <1>5 DEF WebhookNext

LEMMA LastEventHolds ==
  ASSUME AnswerInv, AppliedInv
  PROVE  TableFollowsLastEvent
<1>. SUFFICES ASSUME NEW s \in Sub, NEW e \in Proc, EventOf(e, s), AllApplied(s),
                     ~applied[s].overtaken
              PROVE  subs[s].status = NewStatus(call[Newest(s)])
  BY DEF TableFollowsLastEvent
<1>1. Known /\ EventInv /\ call \in Calls
  BY DEF AnswerInv, Known
<1>2. ASSUME NEW p \in Proc, EventOf(p, s)
      PROVE  call[p].seq \in applied[s].seen
  <2>1. pc[p] = "done" /\ IsWebhook(p)
    BY <1>2 DEF AllApplied, EventOf, IsWebhook, Webhook
  <2>2. call[p].key \in events
    BY <1>1, <2>1 DEF EventInv
  <2>3. SUFFICES ASSUME Awaited(p)
                 PROVE  call[p].seq \in applied[s].seen
    BY <1>2, <2>2 DEF AppliedInv
  <2>4. PICK q \in Proc : /\ IsWebhook(q) /\ call[q].key = call[p].key
                          /\ pc[q] = "apply" \/ q \in lost
    BY <2>3 DEF Awaited
  <2>5. EventOf(q, s) /\ call[q].seq = call[p].seq
    <3>1. IsWebhook(q) /\ call[q].key = call[p].key
      BY <2>4
    <3>. QED  BY <1>1, <1>2, <3>1, SameEvent
  <2>. QED  BY <2>4, <2>5 DEF AllApplied
<1>3. RowFollows(s)
  <2>1. \E r \in Proc : EventOf(r, s) /\ call[r].seq = 1
    BY <1>1, ShopAssumption DEF EventOf
  <2>. QED  BY <1>2, <2>1 DEF AppliedInv
<1>4. PICK p \in Proc : /\ EventOf(p, s) /\ \A n \in applied[s].seen : n <= call[p].seq
                        /\ subs[s].status = NewStatus(call[p])
  BY <1>3 DEF RowFollows
<1>. DEFINE Last(q) == EventOf(q, s) /\ \A r \in Proc : EventOf(r, s) => call[r].seq <= call[q].seq
<1>5. Last(p)
  BY <1>2, <1>4
<1>6. Newest(s) \in Proc /\ Last(Newest(s))
  BY <1>5 DEF Newest
<1>7. call[Newest(s)].seq = call[p].seq
  <2>1. call[p].seq \in Nat /\ call[Newest(s)].seq \in Nat
    BY <1>1, <1>5, <1>6, ShopFacts DEF EventOf
  <2>. QED  BY <1>5, <1>6, <2>1
<1>. QED  BY <1>1, <1>4, <1>6, <1>7, SameEvent

-----------------------------------------------------------------------------
(* TierInv *)

(* The tiers of a user depend on the rows of that user alone.              *)
LEMMA TiersDepend ==
  ASSUME NEW u \in User,
         \A s \in Sub :
           \/ /\ subs'[s].user = subs[s].user /\ subs'[s].status = subs[s].status
              /\ TierOf(s)' = TierOf(s)
           \/ subs[s].user # u /\ subs'[s].user # u
  PROVE  Tiers(u)' = Tiers(u)
<1>1. Candidates(u)' = Candidates(u)
  BY DEF Candidates
<1>2. \A s \in Candidates(u) : subs'[s].status = subs[s].status /\ TierOf(s)' = TierOf(s)
  BY DEF Candidates
<1>3. Found(u)' = Found(u)
  BY <1>1, <1>2 DEF Found
<1>4. \A s \in Found(u) : TierOf(s)' = TierOf(s)
  BY <1>2 DEF Found
<1>5. {TierOf(s)' : s \in Found(u)'} = {TierOf(s) : s \in Found(u)}
  BY <1>3, <1>4
<1>. QED  BY <1>3, <1>5 DEF Tiers

LEMMA TiersTyped ==
  ASSUME TableInv, NEW u \in User
  PROVE  Tiers(u) \subseteq Tier
<1>1. \A s \in Sub : TierOf(s) \in Tier
  BY DEF TableInv, Subscription, TierOf, Tier
<1>2. Found(u) \subseteq Sub
  BY DEF Found, Candidates
<1>. QED  BY <1>1, <1>2 DEF Tiers, Tier

(* The requests that have found a tier are told of a change of the row.    *)
Told(u) ==
  resolver' = [r \in Resolver |->
    IF resolver[r].user = u THEN [resolver[r] EXCEPT !.old = TRUE] ELSE resolver[r]]

LEMMA RequestsTold ==
  ASSUME TierInv, NEW u, Told(u)
  PROVE  /\ resolver' \in [Resolver -> Request]
         /\ \A r \in Resolver :
              /\ resolver'[r].user = resolver[r].user /\ resolver'[r].tier = resolver[r].tier
              /\ ~resolver'[r].old => resolver[r].user # u /\ ~resolver[r].old
<1>1. \A r \in Resolver : /\ resolver[r] \in Request
                          /\ [resolver[r] EXCEPT !.old = TRUE] \in Request
                          /\ [resolver[r] EXCEPT !.old = TRUE].user = resolver[r].user
                          /\ [resolver[r] EXCEPT !.old = TRUE].tier = resolver[r].tier
                          /\ [resolver[r] EXCEPT !.old = TRUE].old = TRUE
  BY DEF TierInv, Request
<1>2. \A r \in Resolver :
        resolver'[r] = IF resolver[r].user = u THEN [resolver[r] EXCEPT !.old = TRUE]
                       ELSE resolver[r]
  BY DEF Told
<1>3. resolver' \in [Resolver -> Request]
  BY <1>1 DEF Told
<1>. QED  BY <1>1, <1>2, <1>3

(* A row of user u changes, and who looked u up is told.                   *)
LEMMA TiersChange ==
  ASSUME TierInv, NEW u, Told(u), UNCHANGED <<tierKey, call>>,
         \A v \in User : v # u => Tiers(v)' = Tiers(v),
         drifted \subseteq drifted',
         \A p \in Proc : pc[p] = "invalidate" => pc'[p] = "invalidate",
         \/ u \in drifted'
         \/ \E p \in Proc : pc'[p] = "invalidate" /\ call[p].user = u
         \/ u \in User => Tiers(u)' = Tiers(u)
  PROVE  TierInv'
<1>0. \A r \in Resolver :
        /\ resolver'[r].user = resolver[r].user /\ resolver'[r].tier = resolver[r].tier
        /\ ~resolver'[r].old => resolver[r].user # u /\ ~resolver[r].old
  BY RequestsTold
<1>1. ASSUME NEW r \in Resolver, NEW v \in User, resolver'[r].user = v, ~resolver'[r].old
      PROVE  resolver'[r].tier \in Tiers(v)'
  <2>1. /\ v = resolver[r].user /\ v # u /\ ~resolver[r].old
        /\ resolver'[r].tier = resolver[r].tier
    BY <1>0, <1>1
  <2>2. resolver[r].tier \in Tiers(v) /\ Tiers(v)' = Tiers(v)
    BY <2>1 DEF TierInv
  <2>. QED  BY <2>1, <2>2
<1>2. ASSUME NEW v \in User, v \notin drifted', tierKey'[v] # None,
             \A p \in Proc : pc'[p] = "invalidate" => call'[p].user # v
      PROVE  tierKey'[v] \in Tiers(v)'
  <2>1. v \notin drifted /\ \A p \in Proc : pc[p] = "invalidate" => call[p].user # v
    BY <1>2
  <2>2. tierKey[v] \in Tiers(v)
    BY <1>2, <2>1 DEF TierInv, TierFresh
  <2>3. Tiers(v)' = Tiers(v)
    BY <1>2
  <2>. QED  BY <2>2, <2>3
<1>3. TierFresh'
  BY <1>2 DEF TierFresh
<1>4. resolver' \in [Resolver -> Request] /\ DOMAIN tierKey' = User
  BY RequestsTold DEF TierInv
<1>. QED  BY <1>1, <1>3, <1>4 DEF TierInv

LEMMA ApplyTiers ==
  ASSUME Known, PathInv, TableInv, TableInv', TierInv, NEW p \in Proc, Apply(p)
  PROVE  TierInv'
<1>. DEFINE c == call[p]
<1>1. /\ c.event \in SubEvent /\ call' = call /\ tierKey' = tierKey /\ drifted' = drifted
      /\ Told(c.user) /\ subs' = [subs EXCEPT ![c.sub] = ApplyRow(c)] /\ pc[p] = "apply"
      /\ pc' = [pc EXCEPT ![p] = "invalidate"]
  BY DEF Apply, PathInv, PathAt, Told
<1>2. /\ pc'[p] = "invalidate"
      /\ \A q \in Proc : pc[q] = "invalidate" => pc'[q] = "invalidate"
  BY <1>1 DEF Known, LedgerInv, LedgerTypes
<1>3. /\ c.sub \in Sub /\ subs[c.sub].user \in {None, c.user}
      /\ ApplyRow(c).user \in {None, c.user} /\ c.user \in User
  BY <1>1, ShopFacts, ApplyRowIs DEF TableInv, EventOf, Subscription
<1>4. /\ subs'[c.sub] = ApplyRow(c) /\ \A s \in Sub : s # c.sub => subs'[s] = subs[s]
  BY <1>1, <1>3 DEF TableInv
<1>5. ASSUME NEW v \in User, v # c.user
      PROVE  Tiers(v)' = Tiers(v)
  <2>1. v # None
    BY LedgerAssumption
  <2>2. \A s \in Sub :
           \/ /\ subs'[s].user = subs[s].user /\ subs'[s].status = subs[s].status
              /\ TierOf(s)' = TierOf(s)
           \/ subs[s].user # v /\ subs'[s].user # v
    BY <1>3, <1>4, <1>5, <2>1 DEF TierOf
  <2>. QED  BY <2>2, TiersDepend
<1>. QED  BY <1>1, <1>2, <1>5, TiersChange

LEMMA GraceTiers ==
  ASSUME TableInv, TierInv, NEW s \in Sub, GraceEnds(s)
  PROVE  TierInv'
<1>. DEFINE u == subs[s].user
<1>1. /\ call' = call /\ tierKey' = tierKey /\ pc' = pc /\ Told(u)
      /\ drifted' = IF subs[s].status = "past_due" THEN drifted \union {u} ELSE drifted
      /\ subs' = [subs EXCEPT ![s].overdue = TRUE]
  BY DEF GraceEnds, ledgerVars, Told
<1>2. /\ subs[s] \in Subscription /\ subs'[s] = [subs[s] EXCEPT !.overdue = TRUE]
      /\ \A t \in Sub : t # s => subs'[t] = subs[t]
  BY <1>1 DEF TableInv
<1>3. /\ subs'[s].user = u /\ subs'[s].status = subs[s].status /\ subs'[s].tier = subs[s].tier
  BY <1>2 DEF Subscription
<1>4. ASSUME NEW v \in User, v # u \/ subs[s].status # "past_due"
      PROVE  Tiers(v)' = Tiers(v)
  <2>1. \A t \in Sub :
           \/ /\ subs'[t].user = subs[t].user /\ subs'[t].status = subs[t].status
              /\ TierOf(t)' = TierOf(t)
           \/ subs[t].user # v /\ subs'[t].user # v
    BY <1>2, <1>3, <1>4 DEF TierOf
  <2>. QED  BY <2>1, TiersDepend
<1>5. u \in drifted' \/ (u \in User => Tiers(u)' = Tiers(u))
  BY <1>1, <1>4
<1>. QED  BY <1>1, <1>4, <1>5, TiersChange

LEMMA TiersStand ==
  ASSUME UNCHANGED subs, NEW u
  PROVE  Tiers(u)' = Tiers(u)
BY DEF Tiers, Found, Candidates, TierOf

(* A step that leaves rows and requests alone, where no call is done with  *)
(* its user's key unless it has deleted it or the key is known to drift.   *)
LEMMA KeysChange ==
  ASSUME TierInv, UNCHANGED <<subs, resolver, call>>, DOMAIN tierKey' = User,
         \A v \in User : \/ v \in drifted' \/ tierKey'[v] = None
                         \/ /\ v \notin drifted /\ tierKey'[v] = tierKey[v]
                            /\ \A p \in Proc : pc[p] = "invalidate" /\ call[p].user = v =>
                                                 pc'[p] = "invalidate"
  PROVE  TierInv'
<1>1. TierFresh'
  <2>. SUFFICES ASSUME NEW v \in User, v \notin drifted', tierKey'[v] # None,
                       \A p \in Proc : pc'[p] = "invalidate" => call'[p].user # v
                PROVE  tierKey'[v] \in Tiers(v)'
    BY DEF TierFresh
  <2>1. /\ v \notin drifted /\ tierKey'[v] = tierKey[v]
        /\ \A p \in Proc : pc[p] = "invalidate" => call[p].user # v
    OBVIOUS
  <2>. QED  BY <2>1, TiersStand DEF TierInv, TierFresh
<1>2. ASSUME NEW r \in Resolver, NEW v \in User, resolver'[r].user = v, ~resolver'[r].old
      PROVE  resolver'[r].tier \in Tiers(v)'
  <2>1. resolver[r].tier \in Tiers(v)
    BY <1>2 DEF TierInv
  <2>. QED  BY <2>1, TiersStand
<1>. QED  BY <1>1, <1>2 DEF TierInv

LEMMA CallStepTiers ==
  ASSUME Known, PathInv, TableInv, TableInv', TierInv, NEW p \in Proc, CallStep(p) \/ Die(p)
  PROVE  TierInv'
<1>1. CASE Apply(p)
  BY <1>1, ApplyTiers
<1>2. CASE ~Apply(p)
  <2>0. pc \in [Proc -> CallPc] /\ DOMAIN tierKey = User
    BY DEF Known, LedgerInv, LedgerTypes, TierInv
  <2>1. UNCHANGED <<subs, resolver, call>>
    BY <1>2
    DEF CallStep, Receive, Consume, LookForPurchase, ReadBalance, Mutate, Invalidate,
        InvalidateFails, DispatchFails, Die, subVars, tierVars
  <2>2. \A q \in Proc : q # p => pc'[q] = pc[q]
    BY CallStepsAlone DEF OnlyCall
  <2>3. CASE pc[p] # "invalidate"
    <3>1. UNCHANGED <<tierKey, drifted>>
      BY <1>2, <2>3
      DEF CallStep, Receive, Consume, LookForPurchase, ReadBalance, Mutate, Invalidate,
          InvalidateFails, DispatchFails, Die, tierVars
    <3>. QED  BY <2>0, <2>1, <2>2, <2>3, <3>1, KeysChange
  <2>4. CASE pc[p] = "invalidate"
    <3>1. /\ tierKey' \in {tierKey, [tierKey EXCEPT ![call[p].user] = None]}
          /\ \/ tierKey' = [tierKey EXCEPT ![call[p].user] = None]
                /\ drifted' = drifted \ {call[p].user}
             \/ tierKey' = tierKey /\ drifted' = drifted \union {call[p].user}
      BY <1>2, <2>4
      DEF CallStep, Receive, Consume, LookForPurchase, ReadBalance, Mutate, LedgerStep,
          CheckDuplicate, CheckRow, Upsert, InsertAndCommit, Invalidate,
          InvalidateFails, DispatchFails, Die, tierVars, Uncached
    <3>2. \A v \in User : \/ v \in drifted' \/ tierKey'[v] = None
                          \/ /\ v \notin drifted /\ tierKey'[v] = tierKey[v]
                             /\ \A q \in Proc : pc[q] = "invalidate" /\ call[q].user = v =>
                                                  pc'[q] = "invalidate"
      BY <2>0, <2>2, <3>1
    <3>. QED  BY <2>0, <2>1, <3>1, <3>2, KeysChange
  <2>. QED  BY <2>3, <2>4
<1>. QED  BY <1>1, <1>2

LEMMA RequestTiers ==
  ASSUME TableInv, TierInv, NEW r \in Resolver, LookUp(r) \/ SetKey(r)
  PROVE  TierInv'
<1>1. UNCHANGED <<subs, call, pc>> /\ None \notin User
  BY LedgerAssumption DEF LookUp, SetKey, ledgerVars, subVars
<1>2. resolver \in [Resolver -> Request] /\ DOMAIN tierKey = User
  BY DEF TierInv, Request
<1>3. CASE LookUp(r)
  <2>1. PICK u \in User, tier \in Tier :
               /\ tier \in Tiers(u)
               /\ resolver' = [resolver EXCEPT ![r] = [user |-> u, tier |-> tier, old |-> FALSE]]
    BY <1>3, TiersTyped DEF LookUp
  <2>2. /\ resolver' \in [Resolver -> Request]
        /\ resolver'[r] = [user |-> u, tier |-> tier, old |-> FALSE]
        /\ \A q \in Resolver : q # r => resolver'[q] = resolver[q]
    BY <1>2, <2>1 DEF Request
  <2>3. ASSUME NEW q \in Resolver, NEW v \in User, resolver'[q].user = v, ~resolver'[q].old
        PROVE  resolver'[q].tier \in Tiers(v)'
    <3>1. resolver'[q].tier \in Tiers(v)
      BY <1>1, <2>1, <2>2, <2>3 DEF TierInv
    <3>. QED  BY <1>1, <3>1, TiersStand
  <2>4. UNCHANGED <<tierKey, drifted>>
    BY <1>3 DEF LookUp
  <2>5. TierFresh'
    BY <1>1, <2>4, TiersStand DEF TierInv, TierFresh
  <2>. QED
    BY <1>2, <2>2, <2>3, <2>4, <2>5 DEF TierInv
<1>4. CASE SetKey(r)
  <2>1. PICK u \in User :
               /\ u = resolver[r].user
               /\ tierKey' = [tierKey EXCEPT ![u] = resolver[r].tier]
               /\ drifted' = IF resolver[r].old THEN drifted \union {u} ELSE drifted \ {u}
               /\ resolver' = [resolver EXCEPT ![r] = Resting]
    BY <1>2, <1>4 DEF SetKey, Request
  <2>2. Resting \in Request /\ Resting.user = None
    BY DEF Resting, Request, Tier
  <2>3. /\ resolver' \in [Resolver -> Request] /\ resolver'[r].user = None
        /\ \A q \in Resolver : q # r => resolver'[q] = resolver[q]
    BY <1>2, <2>1, <2>2
  <2>4. ASSUME NEW q \in Resolver, NEW v \in User, resolver'[q].user = v, ~resolver'[q].old
        PROVE  resolver'[q].tier \in Tiers(v)'
    <3>1. resolver'[q].tier \in Tiers(v)
      BY <1>1, <2>3, <2>4 DEF TierInv
    <3>. QED  BY <1>1, <3>1, TiersStand
  <2>5. /\ DOMAIN tierKey' = User /\ tierKey'[u] = resolver[r].tier
        /\ \A v \in User : v # u => tierKey'[v] = tierKey[v]
    BY <1>2, <2>1
  <2>6. ASSUME NEW v \in User, v \notin drifted', tierKey'[v] # None,
               \A p \in Proc : pc'[p] = "invalidate" => call'[p].user # v
        PROVE  tierKey'[v] \in Tiers(v)
    <3>1. CASE v = u
      <4>1. ~resolver[r].old
        BY <2>1, <2>6, <3>1
      <4>. QED  BY <1>1, <2>1, <2>5, <3>1, <4>1 DEF TierInv
    <3>2. CASE v # u
      <4>1. v \notin drifted
        BY <2>1, <2>6, <3>2
      <4>. QED  BY <1>1, <2>5, <2>6, <3>2, <4>1 DEF TierInv, TierFresh
    <3>. QED  BY <3>1, <3>2
  <2>7. TierFresh'
    BY <1>1, <2>6, TiersStand DEF TierFresh
  <2>. QED
    BY <2>3, <2>4, <2>5, <2>7 DEF TierInv
<1>. QED  BY <1>3, <1>4

LEMMA ExpiryTiers ==
  ASSUME TierInv, NEW u \in User, KeyExpires(u)
  PROVE  TierInv'
<1>1. /\ UNCHANGED <<subs, resolver, call, pc>> /\ drifted' = drifted \ {u}
      /\ tierKey' = [tierKey EXCEPT ![u] = None] /\ DOMAIN tierKey = User
  BY DEF KeyExpires, Uncached, ledgerVars, subVars, TierInv
<1>. QED  BY <1>1, KeysChange

LEMMA TierNext ==
  ASSUME Known, PathInv, TableInv, TableInv', TierInv, [WebhookNext]_webhookVars
  PROVE  TierInv'
<1>1. CASE UNCHANGED webhookVars
  <2>1. UNCHANGED <<subs, resolver, call, pc, tierKey, drifted>> /\ DOMAIN tierKey = User
    BY <1>1 DEF webhookVars, ledgerVars, subVars, tierVars, TierInv
  <2>. QED  BY <2>1, KeysChange
<1>. QED
  BY <1>1, CallStepTiers, RequestTiers, ExpiryTiers, GraceTiers DEF WebhookNext

-----------------------------------------------------------------------------
(* The types that LedgerInv does not say *)

HistoryTypes ==
  /\ hasRow \subseteq User
  /\ lost \subseteq Proc /\ early \subseteq Proc /\ excused \subseteq Proc /\ drifted \subseteq User
  /\ faults \in 0..MaxFaults

LEMMA TypesHold ==
  ASSUME LedgerInv, HistoryTypes
  PROVE  WebhookTypeOK
<1>1. \A u \in User : \A row \in Rows(u) : row \in LedgerRow
  BY DEF LedgerInv, LedgerTypes, Rows
<1>. QED  BY <1>1 DEF LedgerInv, LedgerTypes, HolderInserts, HistoryTypes, WebhookTypeOK

LEMMA CallStepTypes ==
  ASSUME LedgerInv, HistoryTypes, NEW p \in Proc, CallStep(p) \/ Die(p)
  PROVE  HistoryTypes'
<1>1. call[p].user \in User
  BY DEF LedgerInv, CallsTyped
<1>2. hasRow' \subseteq User
  <2>1. CASE Books(p)
    <3>1. txn[p].user \in User
      BY RowTyped
    <3>. QED  BY <2>1, <3>1 DEF Books, HistoryTypes
  <2>2. CASE UNCHANGED accounts
    BY <2>2 DEF accounts, HistoryTypes
  <2>. QED  BY <2>1, <2>2, CallStepBooks
<1>3. lost' \subseteq Proc /\ early' \subseteq Proc /\ excused' \subseteq Proc
  BY DEF CallStep, Receive, Consume, LookForPurchase, ReadBalance, Mutate, Apply, Invalidate,
         InvalidateFails, DispatchFails, Die, HistoryTypes
<1>4. drifted' \subseteq User
  BY <1>1
  DEF CallStep, Receive, Consume, LookForPurchase, ReadBalance, Mutate, Apply, Invalidate,
      InvalidateFails, DispatchFails, Die, HistoryTypes, tierVars
<1>5. faults' \in 0..MaxFaults
  <2>1. faults' = faults \/ (faults < MaxFaults /\ faults' = faults + 1)
    BY DEF CallStep, Receive, Consume, LookForPurchase, ReadBalance, Mutate, Apply, Invalidate,
           InvalidateFails, DispatchFails, Die
  <2>. QED  BY <2>1, WebhookAssumption DEF HistoryTypes
<1>. QED  BY <1>2, <1>3, <1>4, <1>5 DEF HistoryTypes

LEMMA HistoryNext ==
  ASSUME LedgerInv, TableInv, TierInv, HistoryTypes, [WebhookNext]_webhookVars
  PROVE  HistoryTypes'
<1>1. ASSUME NEW r \in Resolver, LookUp(r) \/ SetKey(r)
      PROVE  HistoryTypes'
  <2>1. resolver[r].user \in User \union {None}
    BY DEF TierInv, Request
  <2>. QED
    BY <1>1, <2>1 DEF LookUp, SetKey, HistoryTypes, ledgerVars, accounts
<1>2. ASSUME NEW s \in Sub, GraceEnds(s)
      PROVE  HistoryTypes'
  <2>1. subs[s].user \in User \union {None}
    BY DEF TableInv, Subscription
  <2>. QED  BY <1>2, <2>1 DEF GraceEnds, HistoryTypes, ledgerVars, accounts
<1>3. ASSUME NEW u \in User, KeyExpires(u)
      PROVE  HistoryTypes'
  BY <1>3 DEF KeyExpires, HistoryTypes, ledgerVars, accounts
<1>4. CASE UNCHANGED webhookVars
  BY <1>4 DEF webhookVars, HistoryTypes, ledgerVars, accounts, tierVars
<1>. QED  BY <1>1, <1>2, <1>3, <1>4, CallStepTypes DEF WebhookNext

-----------------------------------------------------------------------------
(* The whole *)

RowsInv == AnswerInv /\ TableInv /\ AppliedInv /\ TierInv /\ HistoryTypes
OnceInv ==
  /\ RefundInv
  /\ \A o \in Order : BookedOnce("purchase", o) /\ BookedOnce("refund", o)

LEMMA RowsInitInv ==
  ASSUME WebhookInit
  PROVE  RowsInv
<1>1. /\ NoSub \in Subscription /\ NoSub.user = None
      /\ Resting \in Request /\ Resting.user = None
  BY DEF NoSub, Subscription, Tier, Status, Resting, Request
<1>2. TableInv /\ AppliedInv
  BY <1>1 DEF WebhookInit, TableInv, AppliedInv
<1>3. TierInv
  BY <1>1, LedgerAssumption DEF WebhookInit, TierInv, TierFresh
<1>4. HistoryTypes
  BY WebhookAssumption DEF WebhookInit, LedgerInit, HistoryTypes
<1>. QED  BY <1>2, <1>3, <1>4, AnswerInitInv DEF RowsInv

LEMMA RowsNextInv ==
  RowsInv /\ [WebhookNext]_webhookVars => RowsInv'
<1>. SUFFICES ASSUME RowsInv, [WebhookNext]_webhookVars
              PROVE  RowsInv'
  OBVIOUS
<1>1. AnswerInv' /\ TableInv' /\ AppliedInv'
  BY AnswerNextInv, TableNext, AppliedNext DEF RowsInv, AnswerInv
<1>2. TierInv'
  BY <1>1, TierNext DEF RowsInv, AnswerInv
<1>3. HistoryTypes'
  BY HistoryNext DEF RowsInv, AnswerInv, Known
<1>. QED  BY <1>1, <1>2, <1>3 DEF RowsInv

LEMMA OnceNextInv ==
  ASSUME OneEventPerRefund
  PROVE  RowsInv /\ OnceInv /\ [WebhookNext]_webhookVars => OnceInv'
<1>. SUFFICES ASSUME RowsInv, OnceInv, [WebhookNext]_webhookVars
              PROVE  OnceInv'
  OBVIOUS
<1>1. CASE UNCHANGED <<ledgerVars, call, events, lost, early, excused>>
  <2>1. RefundInv' /\ \A type, o : BookedOnce(type, o) => BookedOnce(type, o)'
    BY <1>1, EventsStand DEF RowsInv, AnswerInv, OnceInv
  <2>. QED  BY <2>1 DEF OnceInv
<1>2. ASSUME NEW p \in Proc, CallStep(p) \/ Die(p)
      PROVE  OnceInv'
  <2>1. RefundInv'
    BY <1>2, CallStepRefunds DEF RowsInv, AnswerInv, OnceInv
  <2>2. \A o \in Order : BookedOnce("purchase", o)'
    BY <1>2, CallStepGrantsOnce DEF RowsInv, AnswerInv, OnceInv
  <2>3. \A o \in Order : BookedOnce("refund", o)'
    BY <1>2, CallStepRefundsOnce DEF RowsInv, AnswerInv, OnceInv
  <2>. QED  BY <2>1, <2>2, <2>3 DEF OnceInv
<1>. QED  BY <1>1, <1>2, OtherStepsStand

(* Whatever is delivered twice, fails or dies, a purchase that the shop    *)
(* has no answer outstanding for is in the ledger unless its dispatch was  *)
(* lost, and so is a refund unless it came too early or found nothing:     *)
(* handleWebhook answers a duplicate only where another delivery of the    *)
(* same event has done its work.                                           *)
THEOREM AnswersAreBooked == WebhookSpec => []AnsweredIsBooked
<1>1. RowsInv => AnsweredIsBooked
  BY AnsweredHolds DEF RowsInv
<1>. QED  BY <1>1, RowsInitInv, RowsNextInv, PTL DEF WebhookSpec

(* Once all deliveries of a subscription's events are answered, its row is *)
(* that of the newest: what upsertSubscription and updateStatus wrote is   *)
(* not undone by a delivery that is repeated while another is under way,   *)
(* long after, or because a process died; only an event lost before its    *)
(* UPDATE, or one that first came after a later one, is excepted.          *)
THEOREM TableIsCurrent == WebhookSpec => []TableFollowsLastEvent
<1>1. RowsInv => TableFollowsLastEvent
  BY LastEventHolds DEF RowsInv
<1>. QED  BY <1>1, RowsInitInv, RowsNextInv, PTL DEF WebhookSpec

(* Outside the histories in drifted, a cached plan tier is one that the    *)
(* table gives the user: no other interleaving of a request's look-up and  *)
(* SET with a webhook's write and DEL leaves an old tier behind.           *)
THEOREM TiersAreFresh == WebhookSpec => []TierFresh
<1>1. RowsInv => TierFresh
  BY DEF RowsInv, TierInv
<1>. QED  BY <1>1, RowsInitInv, RowsNextInv, PTL DEF WebhookSpec

(* An order grants its credits once, however many deliveries of it run at  *)
(* once and under whatever event ids: the unique index is enough.          *)
THEOREM GrantsAreUnique == WebhookSpec => []GrantedOnce
<1>. DEFINE Once == \A o \in Order : BookedOnce("purchase", o)
<1>1. WebhookInit => Once
  BY AnswerInitInv
<1>2. RowsInv /\ Once /\ [WebhookNext]_webhookVars => Once'
  <2>. SUFFICES ASSUME RowsInv, Once, [WebhookNext]_webhookVars
                PROVE  Once'
    OBVIOUS
  <2>1. CASE UNCHANGED <<ledgerVars, call, events, lost, early, excused>>
    BY <2>1, EventsStand DEF RowsInv, AnswerInv
  <2>2. ASSUME NEW p \in Proc, CallStep(p) \/ Die(p)
        PROVE  Once'
    BY <2>2, CallStepGrantsOnce DEF RowsInv, AnswerInv
  <2>. QED  BY <2>1, <2>2, OtherStepsStand
<1>3. RowsInv /\ Once => GrantedOnce
  BY OnceIsOne DEF RowsInv, AnswerInv, Known, GrantedOnce
<1>. QED  BY <1>1, <1>2, <1>3, RowsInitInv, RowsNextInv, PTL DEF WebhookSpec

(* Types hold, and no order is booked twice in either direction.  For the  *)
(* refunds, which have no unique index, this takes a shop that gives all   *)
(* deliveries of the refund of an order one event id.                      *)
THEOREM BooksAreSound == OneEventPerRefund => (WebhookSpec => []BooksSound)
<1>. SUFFICES ASSUME OneEventPerRefund
              PROVE  WebhookSpec => []BooksSound
  OBVIOUS
<1>1. WebhookInit => OnceInv
  BY AnswerInitInv DEF OnceInv
<1>2. RowsInv /\ OnceInv => BooksSound
  <2>. SUFFICES ASSUME RowsInv, OnceInv
                PROVE  BooksSound
    OBVIOUS
  <2>1. LedgerInv /\ WebhookTypeOK
    BY TypesHold DEF RowsInv, AnswerInv, Known
  <2>2. GrantedOnce /\ RefundedOnce
    BY <2>1, OnceIsOne DEF OnceInv, GrantedOnce, RefundedOnce
  <2>. QED  BY <2>1, <2>2 DEF BooksSound
<1>. QED  BY <1>1, <1>2, RowsInitInv, RowsNextInv, OnceNextInv, PTL DEF WebhookSpec

-----------------------------------------------------------------------------
(* A step of turn t, which may stop counting or start to *)

Bound == Cardinality(Slot)
Countings == {a \in Slot : Counting(a)}
Payings == {a \in Slot : Paying(a)}

(* F is a set of turns before a step of t, G the same set after it.        *)
LEMMA CountMoves ==
  ASSUME IsFiniteSet(Slot), NEW t \in Slot, NEW F \in SUBSET Slot, NEW G \in SUBSET Slot,
         \A a \in Slot : a # t => (a \in G <=> a \in F)
  PROVE  /\ Cardinality(F) \in Nat /\ Cardinality(G) \in Nat /\ Cardinality(Slot) \in Nat
         /\ Cardinality(F) <= Cardinality(Slot) /\ Cardinality(G) <= Cardinality(Slot)
         /\ Cardinality(G) <= Cardinality(F) + 1
         /\ t \notin G \/ t \in F => Cardinality(G) <= Cardinality(F)
         /\ t \in F /\ t \notin G => Cardinality(G) + 1 = Cardinality(F)
<1>1. IsFiniteSet(F) /\ IsFiniteSet(G)
  BY FS_Subset
<1>2. /\ Cardinality(F) \in Nat /\ Cardinality(G) \in Nat /\ Cardinality(Slot) \in Nat
      /\ Cardinality(F) <= Cardinality(Slot) /\ Cardinality(G) <= Cardinality(Slot)
  BY <1>1, FS_Subset, FS_CardinalityType
<1>3. CASE t \in F /\ t \in G
  <2>1. F = G
    BY <1>3
  <2>. QED  BY <1>2, <1>3, <2>1
<1>4. CASE t \in F /\ t \notin G
  <2>1. G = F \ {t}
    BY <1>4
  <2>2. Cardinality(G) = Cardinality(F) - 1
    BY <1>1, <1>4, <2>1, FS_RemoveElement
  <2>. QED  BY <1>2, <1>4, <2>2
<1>5. CASE t \notin F /\ t \in G
  <2>1. G = F \union {t}
    BY <1>5
  <2>2. Cardinality(G) = Cardinality(F) + 1
    BY <1>1, <1>5, <2>1, FS_AddElement
  <2>. QED  BY <1>2, <1>5, <2>2
<1>6. CASE t \notin F /\ t \notin G
  <2>1. F = G
    BY <1>6
  <2>. QED  BY <1>2, <1>6, <2>1
<1>. QED  BY <1>3, <1>4, <1>5, <1>6

LEMMA Times ==
  ASSUME NEW d \in Nat, NEW a \in Nat, NEW b \in Nat
  PROVE  /\ a * d \in Nat /\ (a + 1) * d = a * d + d
         /\ a <= b => a * d <= b * d
  OBVIOUS

(* What a step does to turn t alone.                                       *)
OnlyTurn(t) ==
  /\ turn' \in [Slot -> Turn]
  /\ \A a \in Slot : a # t => turn'[a] = turn[a]

LEMMA CountingsMove ==
  ASSUME UsageAssumption, NEW t \in Slot, OnlyTurn(t)
  PROVE  /\ Cardinality(Countings) \in Nat /\ Cardinality(Countings') \in Nat
         /\ Bound \in Nat /\ Cardinality(Countings) <= Bound /\ Cardinality(Countings') <= Bound
         /\ Cardinality(Countings') <= Cardinality(Countings) + 1
         /\ ~Counting(t)' \/ Counting(t) => Cardinality(Countings') <= Cardinality(Countings)
         /\ Counting(t) /\ ~Counting(t)' => Cardinality(Countings') + 1 = Cardinality(Countings)
<1>1. \A a \in Slot : a # t => (a \in Countings' <=> a \in Countings)
  BY DEF OnlyTurn, Countings, Counting, Admitted, Reached
<1>2. Countings \in SUBSET Slot /\ Countings' \in SUBSET Slot /\ IsFiniteSet(Slot)
  BY DEF Countings, UsageAssumption
<1>3. (t \in Countings <=> Counting(t)) /\ (t \in Countings' <=> Counting(t)')
  BY DEF Countings
<1>. HIDE DEF Countings
<1>. QED  BY <1>1, <1>2, <1>3, CountMoves DEF Bound

LEMMA PayingsMove ==
  ASSUME UsageAssumption, NEW t \in Slot, OnlyTurn(t)
  PROVE  /\ Cardinality(Payings) \in Nat /\ Cardinality(Payings') \in Nat
         /\ Bound \in Nat /\ Cardinality(Payings) <= Bound /\ Cardinality(Payings') <= Bound
         /\ Cardinality(Payings') <= Cardinality(Payings) + 1
         /\ ~Paying(t)' \/ Paying(t) => Cardinality(Payings') <= Cardinality(Payings)
         /\ Paying(t) /\ ~Paying(t)' => Cardinality(Payings') + 1 = Cardinality(Payings)
<1>1. \A a \in Slot : a # t => (a \in Payings' <=> a \in Payings)
  BY DEF OnlyTurn, Payings, Paying, Admitted
<1>2. Payings \in SUBSET Slot /\ Payings' \in SUBSET Slot /\ IsFiniteSet(Slot)
  BY DEF Payings, UsageAssumption
<1>3. (t \in Payings <=> Paying(t)) /\ (t \in Payings' <=> Paying(t)')
  BY DEF Payings
<1>. QED  BY <1>1, <1>2, <1>3, CountMoves DEF Bound

LEMMA DearestIsMax ==
  ASSUME UsageAssumption
  PROVE  Dearest \in Nat /\ \A c \in Cost : c \in Nat /\ c <= Dearest
<1>1. \E c \in Cost : \A d \in Cost : d <= c
  BY DEF UsageAssumption
<1>2. Dearest \in Cost /\ \A d \in Cost : d <= Dearest
  BY <1>1 DEF Dearest
<1>. QED  BY <1>2 DEF UsageAssumption

-----------------------------------------------------------------------------
(* A step that lets t count at most when it did before, or skips a check,  *)
(* or finds the window or the month below the cap, keeps the bounds.       *)

LEMMA WindowKept ==
  ASSUME UsageAssumption, UsageTypeOK, WindowInv, NEW t \in Slot, OnlyTurn(t),
         session' = session, skipped' \in Nat,
         \/ skipped' = skipped /\ (Counting(t)' => Counting(t))
         \/ skipped' = skipped + 1
         \/ /\ skipped' = skipped
            /\ \A p \in Plan :
                 session # Missing /\ session.tier = p /\ MessageCap[p] > 0 =>
                   session.msgs < MessageCap[p]
  PROVE  WindowInv'
<1>. SUFFICES ASSUME NEW p \in Plan, session # Missing, session.tier = p, MessageCap[p] > 0
              PROVE  session.msgs + Cardinality(Countings')
                       <= MessageCap[p] - 1 + Bound + skipped'
  BY DEF WindowInv, Countings, Bound
<1>1. session.msgs + Cardinality(Countings) <= MessageCap[p] - 1 + Bound + skipped
  BY DEF WindowInv, Countings, Bound
<1>2. session.msgs \in Nat /\ MessageCap[p] \in Nat /\ skipped \in Nat
  BY DEF UsageTypeOK, Session, UsageAssumption
<1>3. /\ Cardinality(Countings) \in Nat /\ Cardinality(Countings') \in Nat
      /\ Bound \in Nat /\ Cardinality(Countings') <= Bound
      /\ Cardinality(Countings') <= Cardinality(Countings) + 1
      /\ ~Counting(t)' \/ Counting(t) => Cardinality(Countings') <= Cardinality(Countings)
  BY CountingsMove
<1>. DEFINE m == session.msgs
            k == Cardinality(Countings)
            n == Cardinality(Countings')
            cap == MessageCap[p]
<1>4. \/ skipped' = skipped /\ n <= k
      \/ skipped' = skipped + 1
      \/ skipped' = skipped /\ m < cap
  BY <1>3
<1>. HIDE DEF m, k, n, cap
<1>5. /\ m \in Nat /\ k \in Nat /\ n \in Nat /\ cap \in Nat /\ n <= Bound /\ n <= k + 1
      /\ m + k <= cap - 1 + Bound + skipped /\ Bound \in Nat
  BY <1>1, <1>2, <1>3 DEF m, k, n, cap
<1>6. m + n <= cap - 1 + Bound + skipped'
  BY <1>2, <1>4, <1>5
<1>. QED  BY <1>6 DEF m, n, cap

LEMMA MonthKept ==
  ASSUME UsageAssumption, UsageTypeOK, MonthInv, NEW t \in Slot, OnlyTurn(t),
         spend' = spend, skipped' \in Nat,
         \/ skipped' = skipped /\ (Paying(t)' => Paying(t))
         \/ skipped' = skipped + 1
         \/ skipped' = skipped /\ ~OverSpend
  PROVE  MonthInv'
<1>. SUFFICES ASSUME SpendCap > 0
              PROVE  spend + Cardinality(Payings') * Dearest
                       <= SpendCap - 1 + (Bound + skipped') * Dearest
  BY DEF MonthInv, Payings, Bound
<1>1. spend + Cardinality(Payings) * Dearest <= SpendCap - 1 + (Bound + skipped) * Dearest
  BY DEF MonthInv, Payings, Bound
<1>2. spend \in Nat /\ SpendCap \in Nat /\ skipped \in Nat
  BY DEF UsageTypeOK, UsageAssumption
<1>3. /\ Cardinality(Payings) \in Nat /\ Cardinality(Payings') \in Nat
      /\ Bound \in Nat /\ Cardinality(Payings') <= Bound
      /\ Cardinality(Payings') <= Cardinality(Payings) + 1
      /\ ~Paying(t)' \/ Paying(t) => Cardinality(Payings') <= Cardinality(Payings)
  BY PayingsMove
<1>. DEFINE k == Cardinality(Payings)
            n == Cardinality(Payings')
            d == Dearest
            B == Bound + skipped
<1>4. \/ skipped' = skipped /\ n <= k
      \/ skipped' = skipped + 1
      \/ skipped' = skipped /\ spend < SpendCap
  BY <1>2, <1>3 DEF OverSpend, Reached
<1>5. d \in Nat
  BY DearestIsMax
<1>6. k \in Nat /\ n \in Nat /\ B \in Nat /\ n <= B /\ n <= k + 1
  BY <1>2, <1>3
<1>7. Bound + skipped' = B \/ Bound + skipped' = B + 1
  <2>1. skipped' = skipped \/ skipped' = skipped + 1
    BY <1>4
  <2>2. Bound \in Nat /\ skipped \in Nat
    BY <1>2, <1>3
  <2>3. Bound + (skipped + 1) = (Bound + skipped) + 1
    BY <2>2
  <2>4. skipped' = skipped => Bound + skipped' = Bound + skipped
    OBVIOUS
  <2>5. skipped' = skipped + 1 => Bound + skipped' = Bound + (skipped + 1)
    OBVIOUS
  <2>. QED  BY <2>1, <2>3, <2>4, <2>5, Zenon
<1>8. spend + k * d <= SpendCap - 1 + B * d
  BY <1>1
<1>. HIDE DEF k, n, d, B
<1>9. /\ k * d \in Nat /\ n * d \in Nat /\ B * d \in Nat
      /\ (k + 1) * d = k * d + d /\ (B + 1) * d = B * d + d
      /\ n * d <= B * d /\ n * d <= k * d + d
      /\ n <= k => n * d <= k * d
  <2>1. k + 1 \in Nat
    BY <1>6
  <2>2. n <= k + 1 => n * d <= (k + 1) * d
    BY <1>5, <1>6, <2>1, Times
  <2>. QED  BY <1>5, <1>6, <2>2, Times
<1>10. CASE skipped' = skipped /\ n <= k
  <2>1. n * d <= k * d /\ Bound + skipped' = B
    BY <1>9, <1>10 DEF B
  <2>2. spend + n * d <= SpendCap - 1 + B * d
    BY <1>2, <1>8, <1>9, <2>1
  <2>. QED  BY <2>1, <2>2 DEF n, d
<1>11. CASE skipped' = skipped + 1
  <2>1. Bound + skipped' = B + 1
    BY <1>2, <1>3, <1>11 DEF B
  <2>2. spend + n * d <= SpendCap - 1 + (B * d + d)
    BY <1>2, <1>5, <1>8, <1>9
  <2>. QED  BY <1>9, <2>1, <2>2 DEF n, d
<1>12. CASE skipped' = skipped /\ spend < SpendCap
  <2>1. Bound + skipped' = B
    BY <1>12 DEF B
  <2>2. spend + n * d <= SpendCap - 1 + B * d
    BY <1>2, <1>9, <1>12
  <2>. QED  BY <2>1, <2>2 DEF n, d
<1>. QED  BY <1>4, <1>10, <1>11, <1>12
-----------------------------------------------------------------------------
(* The steps of a turn *)

(* What the other parts of the type invariant say of a step of t.          *)
TurnOK(t) ==
  /\ turn[t].pc = "debit" => turn[t].onCredits
  /\ turn[t].pc \in {"count", "spending", "week"} => ~turn[t].onCredits
  /\ turn[t].pc \in {"count", "spending"} => turn[t].cost \in Cost

Metered ==
  /\ plan \in Plan /\ session \in Session \union {Missing}
  /\ weekly \in Nat /\ spend \in Nat /\ logged \in Nat /\ credits \in Nat
  /\ {begun, skipped, unpaid, pastCap, failures} \subseteq Nat

LEMMA TurnStepTypes ==
  ASSUME UsageInv, NEW t \in Slot, OnlyTurn(t), TurnOK(t)', Metered'
  PROVE  UsageTypeOK' /\ \A a \in Slot : (turn[a].pc \in {"count", "spending"} => turn[a].cost \in Cost)'
<1>1. ASSUME NEW a \in Slot PROVE TurnOK(a)'
  <2>1. CASE a = t
    BY <2>1
  <2>2. CASE a # t
    BY <2>2 DEF UsageInv, UsageTypeOK, TurnOK, OnlyTurn
  <2>. QED  BY <2>1, <2>2
<1>. QED  BY <1>1 DEF UsageTypeOK, TurnOK, Metered, OnlyTurn

(* The shapes of a turn's new state.                                       *)
LEMMA TurnRests ==
  ASSUME UsageTypeOK, NEW t \in Slot, turn' = [turn EXCEPT ![t] = NoTurn]
  PROVE  OnlyTurn(t) /\ turn'[t].pc = "idle"
<1>1. NoTurn \in Turn /\ NoTurn.pc = "idle"
  BY DEF NoTurn, Turn, TurnPc
<1>. QED  BY <1>1 DEF UsageTypeOK, OnlyTurn

LEMMA TurnMoves ==
  ASSUME UsageTypeOK, NEW t \in Slot, NEW from \in TurnPc, NEW to \in TurnPc, Move(t, from, to)
  PROVE  /\ OnlyTurn(t) /\ turn[t].pc = from /\ turn'[t].pc = to
         /\ to # "idle" => /\ turn'[t].onCredits = turn[t].onCredits
                           /\ turn'[t].cost = turn[t].cost
                           /\ turn'[t].msgs = turn[t].msgs
                           /\ turn'[t].tier = turn[t].tier
<1>1. CASE to = "idle"
  <2>1. turn' = [turn EXCEPT ![t] = NoTurn] /\ turn[t].pc = from
    BY <1>1 DEF Move
  <2>. QED  BY <1>1, <2>1, TurnRests
<1>2. CASE to # "idle"
  <2>. DEFINE new == [turn[t] EXCEPT !.pc = to]
  <2>1. turn' = [turn EXCEPT ![t] = new] /\ turn[t].pc = from
    BY <1>2 DEF Move
  <2>2. turn \in [Slot -> Turn] /\ turn[t] \in Turn
    BY DEF UsageTypeOK
  <2>3. /\ new \in Turn /\ new.pc = to /\ new.onCredits = turn[t].onCredits
        /\ new.cost = turn[t].cost /\ new.msgs = turn[t].msgs /\ new.tier = turn[t].tier
    BY <2>2 DEF Turn
  <2>. HIDE DEF new
  <2>. QED  BY <2>1, <2>2, <2>3 DEF OnlyTurn
<1>. QED  BY <1>1, <1>2

LEMMA TurnBecomes ==
  ASSUME UsageTypeOK, NEW t \in Slot, NEW new \in Turn, turn' = [turn EXCEPT ![t] = new]
  PROVE  OnlyTurn(t) /\ turn'[t] = new
  BY DEF UsageTypeOK, OnlyTurn

(* A step that leaves the meters alone.                                    *)
LEMMA QuietStepInv ==
  ASSUME UsageAssumption, UsageInv, NEW t \in Slot, OnlyTurn(t), TurnOK(t)',
         UNCHANGED <<plan, session, spend>>, weekly' \in Nat,
         logged' \in Nat, credits' \in Nat, begun' \in Nat, unpaid' \in Nat,
         pastCap' \in Nat, failures' \in Nat, skipped' \in Nat,
         \/ skipped' = skipped /\ (Counting(t)' => Counting(t))
         \/ skipped' = skipped + 1
         \/ /\ skipped' = skipped
            /\ \A p \in Plan :
                 session # Missing /\ session.tier = p /\ MessageCap[p] > 0 =>
                   session.msgs < MessageCap[p],
         \/ skipped' = skipped /\ (Paying(t)' => Paying(t))
         \/ skipped' = skipped + 1
         \/ skipped' = skipped /\ ~OverSpend
  PROVE  UsageInv'
<1>1. UsageTypeOK /\ WindowInv /\ MonthInv
  BY DEF UsageInv
<1>2. Metered'
  BY <1>1 DEF Metered, UsageTypeOK
<1>3. WindowInv'
  BY <1>1, WindowKept
<1>4. MonthInv'
  BY <1>1, MonthKept
<1>. QED  BY <1>2, <1>3, <1>4, TurnStepTypes DEF UsageInv

LEMMA StartTurnInv ==
  ASSUME UsageAssumption, UsageInv, NEW t \in Slot, StartTurn(t)
  PROVE  UsageInv'
<1>. DEFINE new == [NoTurn EXCEPT !.pc = "session", !.tier = plan]
<1>1. /\ turn' = [turn EXCEPT ![t] = new] /\ begun' = begun + 1
      /\ UNCHANGED <<plan, meters, skipped, unpaid, pastCap, failures>>
  BY DEF StartTurn
<1>2. UsageTypeOK
  BY DEF UsageInv
<1>3. new \in Turn /\ new.pc = "session"
  BY <1>2 DEF UsageTypeOK, NoTurn, Turn, TurnPc
<1>. HIDE DEF new
<1>4. OnlyTurn(t) /\ turn'[t].pc = "session"
  BY <1>1, <1>2, <1>3, TurnBecomes
<1>5. TurnOK(t)' /\ ~Counting(t)' /\ ~Paying(t)'
  BY <1>4 DEF TurnOK, Counting, Paying, Admitted
<1>. QED  BY <1>1, <1>2, <1>4, <1>5, QuietStepInv DEF meters, UsageTypeOK

(* A snapshot below the cap is of a window below its cap.                  *)
LEMMA ReadSessionInv ==
  ASSUME UsageAssumption, UsageInv, NEW t \in Slot, ReadSession(t)
  PROVE  UsageInv'
<1>. DEFINE usable == Usable(session, turn[t].tier)
            read == [turn[t] EXCEPT !.pc = "caps", !.msgs = session.msgs, !.cents = session.cents]
            wiped == [turn[t] EXCEPT !.pc = "fresh"]
<1>1. /\ turn[t].pc = "session"
      /\ UNCHANGED <<plan, meters, begun, skipped, unpaid, pastCap, failures>>
  BY DEF ReadSession
<1>2. UsageTypeOK /\ turn[t] \in Turn
  BY DEF UsageInv, UsageTypeOK
<1>3. CASE usable
  <2>1. turn' = [turn EXCEPT ![t] = read]
    BY <1>3 DEF ReadSession
  <2>2. session \in Session /\ session.tier = turn[t].tier
    BY <1>2, <1>3 DEF Usable, UsageTypeOK
  <2>3. session.msgs \in Nat /\ session.cents \in Nat
    BY <2>2 DEF Session
  <2>4. read \in Turn /\ read.pc = "caps" /\ read.msgs = session.msgs /\ read.tier = session.tier
    BY <1>2, <2>2, <2>3 DEF Turn, TurnPc
  <2>. HIDE DEF read
  <2>5. OnlyTurn(t) /\ turn'[t] = read
    BY <1>2, <2>1, <2>4, TurnBecomes
  <2>6. TurnOK(t)' /\ ~Paying(t)'
    BY <2>4, <2>5 DEF TurnOK, Paying, Admitted
  <2>7. \/ Counting(t)' => Counting(t)
        \/ \A p \in Plan :
             session # Missing /\ session.tier = p /\ MessageCap[p] > 0 =>
               session.msgs < MessageCap[p]
    <3>1. CASE Reached(session.msgs, MessageCap[session.tier])
      <4>1. ~Counting(t)'
        BY <2>4, <2>5, <3>1 DEF Counting, Admitted
      <4>. QED  BY <4>1
    <3>2. CASE ~Reached(session.msgs, MessageCap[session.tier])
      BY <2>3, <3>2 DEF Reached, UsageAssumption
    <3>. QED  BY <3>1, <3>2
  <2>. QED  BY <1>1, <1>2, <2>5, <2>6, <2>7, QuietStepInv DEF meters, UsageTypeOK
<1>4. CASE ~usable
  <2>1. turn' = [turn EXCEPT ![t] = wiped]
    BY <1>4 DEF ReadSession
  <2>2. wiped \in Turn /\ wiped.pc = "fresh"
    BY <1>2 DEF Turn, TurnPc
  <2>. HIDE DEF wiped
  <2>3. OnlyTurn(t) /\ turn'[t].pc = "fresh"
    BY <1>2, <2>1, <2>2, TurnBecomes
  <2>4. TurnOK(t)' /\ ~Counting(t)' /\ ~Paying(t)'
    BY <2>3 DEF TurnOK, Counting, Paying, Admitted
  <2>. QED  BY <1>1, <1>2, <2>3, <2>4, QuietStepInv DEF meters, UsageTypeOK
<1>. QED  BY <1>3, <1>4
LEMMA SessionReadFailsInv ==
  ASSUME UsageAssumption, UsageInv, NEW t \in Slot, SessionReadFails(t)
  PROVE  UsageInv'
<1>1. /\ Move(t, "session", "fresh") /\ skipped' = skipped + 1
      /\ UNCHANGED <<plan, meters, begun, unpaid, pastCap, failures>>
  BY DEF SessionReadFails
<1>2. UsageTypeOK
  BY DEF UsageInv
<1>3. OnlyTurn(t) /\ turn'[t].pc = "fresh"
  <2>1. "session" \in TurnPc /\ "fresh" \in TurnPc
    BY DEF TurnPc
  <2>. QED  BY <1>1, <1>2, <2>1, TurnMoves
<1>4. TurnOK(t)'
  BY <1>3 DEF TurnOK
<1>. QED  BY <1>1, <1>2, <1>3, <1>4, QuietStepInv DEF meters, UsageTypeOK

(* A new window is empty, and no more turns may count than there are.      *)
LEMMA WriteFreshInv ==
  ASSUME UsageAssumption, UsageInv, NEW t \in Slot, WriteFresh(t)
  PROVE  UsageInv'
<1>1. /\ Move(t, "fresh", "caps") /\ session' = Fresh(turn[t].tier)
      /\ UNCHANGED <<plan, weekly, spend, logged, credits, begun, skipped,
                     unpaid, pastCap, failures>>
  BY DEF WriteFresh
<1>2. UsageTypeOK /\ MonthInv /\ turn[t] \in Turn
  BY DEF UsageInv, UsageTypeOK
<1>3. OnlyTurn(t) /\ turn'[t].pc = "caps"
  <2>1. "caps" \in TurnPc /\ "fresh" \in TurnPc
    BY DEF TurnPc
  <2>. QED  BY <1>1, <1>2, <2>1, TurnMoves
<1>4. TurnOK(t)' /\ ~Paying(t)'
  BY <1>3 DEF TurnOK, Paying, Admitted
<1>5. session' \in Session /\ session'.msgs = 0
  <2>1. turn[t].tier \in Plan \union {Missing}
    BY <1>2 DEF Turn
  <2>. QED  BY <1>1, <2>1 DEF Fresh, Session
<1>6. Metered'
  BY <1>1, <1>2, <1>5 DEF Metered, UsageTypeOK
<1>7. WindowInv'
  <2>. SUFFICES ASSUME NEW p \in Plan, MessageCap[p] > 0
                PROVE  session'.msgs + Cardinality(Countings')
                         <= MessageCap[p] - 1 + Bound + skipped'
    BY DEF WindowInv, Countings, Bound
  <2>1. Cardinality(Countings') \in Nat /\ Bound \in Nat /\ Cardinality(Countings') <= Bound
    BY <1>3, CountingsMove
  <2>2. MessageCap[p] \in Nat /\ skipped' \in Nat
    BY <1>1, <1>2 DEF UsageAssumption, UsageTypeOK
  <2>. QED  BY <1>5, <2>1, <2>2
<1>8. MonthInv'
  BY <1>1, <1>2, <1>3, <1>4, MonthKept DEF UsageTypeOK
<1>. QED  BY <1>3, <1>4, <1>6, <1>7, <1>8, TurnStepTypes DEF UsageInv

(* A window that was not written is the old one, with a turn more.         *)
LEMMA WriteFreshFailsInv ==
  ASSUME UsageAssumption, UsageInv, NEW t \in Slot, WriteFreshFails(t)
  PROVE  UsageInv'
<1>1. /\ Move(t, "fresh", "caps") /\ skipped' = skipped + 1
      /\ UNCHANGED <<plan, meters, begun, unpaid, pastCap, failures>>
  BY DEF WriteFreshFails
<1>2. UsageTypeOK
  BY DEF UsageInv
<1>3. OnlyTurn(t) /\ turn'[t].pc = "caps"
  <2>1. "caps" \in TurnPc /\ "fresh" \in TurnPc
    BY DEF TurnPc
  <2>. QED  BY <1>1, <1>2, <2>1, TurnMoves
<1>4. TurnOK(t)'
  BY <1>3 DEF TurnOK
<1>. QED  BY <1>1, <1>2, <1>3, <1>4, QuietStepInv DEF meters, UsageTypeOK

LEMMA SessionCapsInv ==
  ASSUME UsageAssumption, UsageInv, NEW t \in Slot, SessionCaps(t)
  PROVE  UsageInv'
<1>. DEFINE to == IF OverSession(t) THEN "credits" ELSE "weekly"
            new == [turn[t] EXCEPT !.pc = to, !.msgs = 0, !.cents = 0]
<1>1. /\ turn[t].pc = "caps" /\ turn' = [turn EXCEPT ![t] = new]
      /\ UNCHANGED <<plan, meters, begun, skipped, unpaid, pastCap, failures>>
  BY DEF SessionCaps
<1>2. UsageTypeOK /\ turn[t] \in Turn
  BY DEF UsageInv, UsageTypeOK
<1>3. new \in Turn /\ new.pc = to
  <2>1. to \in TurnPc
    BY DEF TurnPc
  <2>. HIDE DEF to
  <2>. QED  BY <1>2, <2>1 DEF Turn
<1>. HIDE DEF new
<1>4. OnlyTurn(t) /\ turn'[t].pc = to
  BY <1>1, <1>2, <1>3, TurnBecomes
<1>5. TurnOK(t)' /\ ~Paying(t)'
  BY <1>4 DEF TurnOK, Paying, Admitted
<1>6. Counting(t)' => Counting(t)
  BY <1>1, <1>4 DEF Counting, Admitted, OverSession
<1>. HIDE DEF to
<1>. QED  BY <1>1, <1>2, <1>4, <1>5, <1>6, QuietStepInv DEF meters, UsageTypeOK

LEMMA CheckInv ==
  ASSUME UsageAssumption, UsageInv, NEW t \in Slot,
         WeeklyCheck(t) \/ TokenCheck(t) \/ SpendCheck(t)
  PROVE  UsageInv'
<1>1. UsageTypeOK
  BY DEF UsageInv
<1>2. UNCHANGED <<plan, meters, begun, skipped, unpaid, pastCap, failures>>
  BY DEF WeeklyCheck, TokenCheck, SpendCheck
<1>3. {"weekly", "credits", "tokens", "idle", "spend", "running"} \subseteq TurnPc
  BY DEF TurnPc
<1>4. CASE WeeklyCheck(t)
  <2>. DEFINE to == IF Reached(weekly, WeeklyCap[turn[t].tier]) THEN "credits" ELSE "tokens"
  <2>1. OnlyTurn(t) /\ turn[t].pc = "weekly" /\ turn'[t].pc = to
    <3>1. Move(t, "weekly", to) /\ "weekly" \in TurnPc /\ to \in TurnPc
      BY <1>3, <1>4 DEF WeeklyCheck
    <3>. HIDE DEF to
    <3>. QED  BY <1>1, <3>1, TurnMoves
  <2>2. TurnOK(t)' /\ (Counting(t)' => Counting(t)) /\ ~Paying(t)'
    BY <2>1 DEF TurnOK, Counting, Paying, Admitted
  <2>. QED  BY <1>1, <1>2, <2>1, <2>2, QuietStepInv DEF meters, UsageTypeOK
<1>5. CASE TokenCheck(t)
  <2>. DEFINE to == IF Reached(logged, TokenCap[turn[t].tier]) THEN "idle" ELSE "spend"
  <2>1. OnlyTurn(t) /\ turn[t].pc = "tokens" /\ turn'[t].pc = to
    <3>1. Move(t, "tokens", to) /\ "tokens" \in TurnPc /\ to \in TurnPc
      BY <1>3, <1>5 DEF TokenCheck
    <3>. HIDE DEF to
    <3>. QED  BY <1>1, <3>1, TurnMoves
  <2>2. TurnOK(t)' /\ (Counting(t)' => Counting(t)) /\ ~Paying(t)'
    BY <2>1 DEF TurnOK, Counting, Paying, Admitted
  <2>. QED  BY <1>1, <1>2, <2>1, <2>2, QuietStepInv DEF meters, UsageTypeOK
<1>6. CASE SpendCheck(t)
  <2>. DEFINE to == IF OverSpend THEN "idle" ELSE "running"
  <2>1. OnlyTurn(t) /\ turn[t].pc = "spend" /\ turn'[t].pc = to
    <3>1. Move(t, "spend", to) /\ "spend" \in TurnPc /\ to \in TurnPc
      BY <1>3, <1>6 DEF SpendCheck
    <3>. HIDE DEF to
    <3>. QED  BY <1>1, <3>1, TurnMoves
  <2>2. TurnOK(t)' /\ (Counting(t)' => Counting(t)) /\ (Paying(t)' => ~OverSpend)
    BY <2>1 DEF TurnOK, Counting, Paying, Admitted
  <2>. QED  BY <1>1, <1>2, <2>1, <2>2, QuietStepInv DEF meters, UsageTypeOK
<1>. QED  BY <1>4, <1>5, <1>6

LEMMA CreditsBypassInv ==
  ASSUME UsageAssumption, UsageInv, NEW t \in Slot, CreditsBypass(t)
  PROVE  UsageInv'
<1>. DEFINE new == [turn[t] EXCEPT !.pc = "running", !.onCredits = TRUE]
<1>1. /\ turn' = [turn EXCEPT ![t] = IF credits >= 1 THEN new ELSE NoTurn]
      /\ pastCap' = IF credits >= 1 /\ OverSpend THEN pastCap + 1 ELSE pastCap
      /\ UNCHANGED <<plan, meters, begun, skipped, unpaid, failures>>
  BY DEF CreditsBypass
<1>2. UsageTypeOK /\ turn[t] \in Turn
  BY DEF UsageInv, UsageTypeOK
<1>3. new \in Turn /\ new.pc = "running" /\ new.onCredits = TRUE
  BY <1>2 DEF Turn, TurnPc
<1>. HIDE DEF new
<1>4. OnlyTurn(t) /\ (turn'[t].pc = "idle" \/ (turn'[t].pc = "running" /\ turn'[t].onCredits = TRUE))
  <2>1. CASE credits >= 1
    BY <1>1, <1>2, <1>3, <2>1, TurnBecomes
  <2>2. CASE ~(credits >= 1)
    BY <1>1, <1>2, <2>2, TurnRests
  <2>. QED  BY <2>1, <2>2
<1>5. TurnOK(t)' /\ ~Counting(t)' /\ ~Paying(t)'
  BY <1>4 DEF TurnOK, Counting, Paying, Admitted
<1>6. pastCap' \in Nat
  BY <1>1, <1>2 DEF UsageTypeOK
<1>. QED  BY <1>1, <1>2, <1>4, <1>5, <1>6, QuietStepInv DEF meters, UsageTypeOK

LEMMA FailOpenInv ==
  ASSUME UsageAssumption, UsageInv, NEW t \in Slot, FailOpen(t)
  PROVE  UsageInv'
<1>. DEFINE from == turn[t].pc
            to == NextCheck[from]
<1>1. /\ from \in DOMAIN NextCheck /\ Move(t, from, to) /\ skipped' = skipped + 1
      /\ UNCHANGED <<plan, meters, begun, unpaid, pastCap, failures>>
  BY DEF FailOpen
<1>2. UsageTypeOK
  BY DEF UsageInv
<1>3. from \in TurnPc /\ to \in {"weekly", "tokens", "spend", "running", "idle"}
      /\ {"weekly", "tokens", "spend", "running", "idle"} \subseteq TurnPc
  <2>1. from \in {"session", "weekly", "tokens", "spend", "credits"}
    BY <1>1 DEF NextCheck
  <2>. QED  BY <2>1 DEF NextCheck, TurnPc
<1>. HIDE DEF to
<1>4. OnlyTurn(t) /\ turn'[t].pc = to
  BY <1>1, <1>2, <1>3, TurnMoves
<1>5. TurnOK(t)'
  BY <1>3, <1>4 DEF TurnOK
<1>6. /\ skipped' \in Nat /\ weekly' \in Nat /\ logged' \in Nat /\ credits' \in Nat
      /\ session' = session /\ spend' = spend
      /\ skipped <= skipped'
  BY <1>1, <1>2 DEF meters, UsageTypeOK
<1>. HIDE DEF from
<1>. QED  BY <1>1, <1>2, <1>4, <1>5, <1>6, QuietStepInv DEF meters, UsageTypeOK

LEMMA EndOfTurnInv ==
  ASSUME UsageAssumption, UsageInv, NEW t \in Slot, Abort(t) \/ Debit(t) \/ IncrementWeekly(t)
  PROVE  UsageInv'
<1>1. /\ turn' = [turn EXCEPT ![t] = NoTurn]
      /\ UNCHANGED <<plan, session, spend, logged, begun, skipped, pastCap, failures>>
  BY DEF Abort, Debit, IncrementWeekly, meters
<1>2. UsageTypeOK
  BY DEF UsageInv
<1>3. OnlyTurn(t) /\ turn'[t].pc = "idle"
  BY <1>1, <1>2, TurnRests
<1>4. TurnOK(t)' /\ ~Counting(t)' /\ ~Paying(t)'
  BY <1>3 DEF TurnOK, Counting, Paying, Admitted
<1>5. weekly' \in Nat /\ credits' \in Nat /\ unpaid' \in Nat
  <2>1. weekly \in Nat /\ credits \in Nat /\ unpaid \in Nat /\ turn[t].cost \in Nat
    BY <1>2 DEF UsageTypeOK, Turn
  <2>. QED  BY <2>1 DEF Abort, Debit, IncrementWeekly, meters
<1>. QED  BY <1>1, <1>2, <1>3, <1>4, <1>5, QuietStepInv DEF UsageTypeOK

LEMMA LogInv ==
  ASSUME UsageAssumption, UsageInv, NEW t \in Slot, Log(t)
  PROVE  UsageInv'
<1>. DEFINE to == IF turn[t].onCredits THEN "debit" ELSE "count"
<1>1. PICK c \in Cost :
        /\ turn' = [turn EXCEPT ![t].cost = c, ![t].pc = to]
        /\ \/ logged' = logged + c /\ UNCHANGED failures
           \/ /\ skipped + failures < MaxMisses /\ failures' = failures + 1
              /\ UNCHANGED logged
  BY DEF Log
<1>2. /\ turn[t].pc = "running"
      /\ UNCHANGED <<plan, session, weekly, spend, credits, begun, skipped, unpaid, pastCap>>
  BY DEF Log
<1>3. UsageTypeOK /\ turn \in [Slot -> Turn] /\ c \in Nat
  BY DEF UsageInv, UsageTypeOK, UsageAssumption
<1>4. to \in TurnPc
  BY DEF TurnPc
<1>5. to = "debit" => turn[t].onCredits
  OBVIOUS
<1>6. to = "count" => ~turn[t].onCredits
  OBVIOUS
<1>7. to \in {"debit", "count"}
  OBVIOUS
<1>. HIDE DEF to
<1>8. /\ OnlyTurn(t) /\ turn'[t].pc = to /\ turn'[t].cost = c
      /\ turn'[t].onCredits = turn[t].onCredits
  BY <1>1, <1>3, <1>4 DEF OnlyTurn, Turn
<1>9. TurnOK(t)' /\ (Counting(t)' => Counting(t)) /\ (Paying(t)' => Paying(t))
  BY <1>2, <1>5, <1>6, <1>7, <1>8 DEF TurnOK, Counting, Paying, Admitted
<1>10. logged' \in Nat /\ failures' \in Nat
  BY <1>1, <1>3 DEF UsageTypeOK
<1>. QED  BY <1>2, <1>3, <1>8, <1>9, <1>10, QuietStepInv DEF UsageTypeOK

LEMMA RecordFailsInv ==
  ASSUME UsageAssumption, UsageInv, NEW t \in Slot, RecordFails(t)
  PROVE  UsageInv'
<1>. DEFINE from == turn[t].pc
            to == NextRecord[from]
<1>1. /\ from \in DOMAIN NextRecord /\ Move(t, from, to) /\ failures' = failures + 1
      /\ UNCHANGED <<plan, meters, begun, skipped, unpaid, pastCap>>
  BY DEF RecordFails
<1>2. UsageTypeOK
  BY DEF UsageInv
<1>3. from \in {"debit", "count", "spending", "week"}
  BY <1>1 DEF NextRecord
<1>4. /\ from = "count" => to = "spending"
      /\ from = "spending" => to = "week"
      /\ from \in {"debit", "week"} => to = "idle"
  BY DEF NextRecord
<1>5. from \in TurnPc /\ to \in TurnPc
  BY <1>3, <1>4 DEF TurnPc
<1>. HIDE DEF to
<1>6. /\ OnlyTurn(t) /\ turn'[t].pc = to
      /\ to # "idle" => /\ turn'[t].onCredits = turn[t].onCredits
                        /\ turn'[t].cost = turn[t].cost
  BY <1>1, <1>2, <1>5, TurnMoves
<1>7. TurnOK(t)
  BY DEF UsageInv, UsageTypeOK, TurnOK
<1>8. TurnOK(t)' /\ ~Counting(t)' /\ (Paying(t)' => Paying(t))
  BY <1>3, <1>4, <1>6, <1>7 DEF TurnOK, Counting, Paying, Admitted
<1>. QED  BY <1>1, <1>2, <1>6, <1>8, QuietStepInv DEF meters, UsageTypeOK

(* The window and the month receive what was counted before.               *)
LEMMA IncrementSessionInv ==
  ASSUME UsageAssumption, UsageInv, NEW t \in Slot, IncrementSession(t)
  PROVE  UsageInv'
<1>. DEFINE s == IF session = Missing THEN Orphan ELSE session
            m == s.msgs + 1
            c == s.cents + turn[t].cost
<1>1. /\ Move(t, "count", "spending")
      /\ session' = [s EXCEPT !.msgs = m, !.cents = c]
      /\ UNCHANGED <<plan, weekly, spend, logged, credits, begun, skipped,
                     unpaid, pastCap, failures>>
  BY DEF IncrementSession
<1>2. UsageTypeOK /\ MonthInv /\ WindowInv /\ turn[t].cost \in Nat
  BY DEF UsageInv, UsageTypeOK, Turn
<1>3. /\ OnlyTurn(t) /\ turn[t].pc = "count" /\ turn'[t].pc = "spending"
      /\ turn'[t].onCredits = turn[t].onCredits /\ turn'[t].cost = turn[t].cost
  <2>1. "count" \in TurnPc /\ "spending" \in TurnPc
    BY DEF TurnPc
  <2>. QED  BY <1>1, <1>2, <2>1, TurnMoves
<1>4. TurnOK(t)' /\ Counting(t) /\ ~Counting(t)' /\ Paying(t)
  BY <1>3 DEF TurnOK, Paying, Counting, Admitted, UsageInv, UsageTypeOK
<1>5. s \in Session /\ m \in Nat /\ c \in Nat
  <2>1. Orphan \in Session
    BY DEF Orphan, Session
  <2>2. s \in Session
    BY <1>2, <2>1 DEF UsageTypeOK
  <2>. HIDE DEF s
  <2>3. s.msgs \in Nat /\ s.cents \in Nat
    BY <2>2 DEF Session
  <2>. QED  BY <1>2, <2>2, <2>3
<1>6. s.tier \in Plan => session # Missing /\ s = session
  BY UsageAssumption DEF Orphan, UsageAssumption
<1>. HIDE DEF s, c
<1>7. session' \in Session /\ session'.msgs = s.msgs + 1 /\ session'.tier = s.tier
  BY <1>1, <1>5 DEF Session
<1>8. Metered'
  BY <1>1, <1>2, <1>7 DEF Metered, UsageTypeOK
<1>9. WindowInv'
  <2>. SUFFICES ASSUME NEW p \in Plan, session'.tier = p, MessageCap[p] > 0
                PROVE  session'.msgs + Cardinality(Countings')
                         <= MessageCap[p] - 1 + Bound + skipped'
    BY DEF WindowInv, Countings, Bound
  <2>1. session # Missing /\ s = session /\ session.tier = p
    BY <1>6, <1>7
  <2>2. session.msgs + Cardinality(Countings) <= MessageCap[p] - 1 + Bound + skipped
    BY <1>2, <2>1 DEF WindowInv, Countings, Bound
  <2>3. /\ Cardinality(Countings) \in Nat /\ Cardinality(Countings') \in Nat /\ Bound \in Nat
        /\ Cardinality(Countings') + 1 = Cardinality(Countings)
    BY <1>3, <1>4, CountingsMove
  <2>4. session.msgs \in Nat /\ skipped \in Nat /\ MessageCap[p] \in Nat /\ skipped' = skipped
    BY <1>1, <1>2, <1>5, <2>1 DEF UsageTypeOK, UsageAssumption, Session
  <2>. DEFINE k == Cardinality(Countings)
              n == Cardinality(Countings')
  <2>5. session'.msgs = session.msgs + 1
    BY <1>7, <2>1
  <2>. HIDE DEF k, n
  <2>. QED  BY <2>2, <2>3, <2>4, <2>5 DEF k, n
<1>10. MonthInv'
  BY <1>1, <1>2, <1>3, <1>4, MonthKept DEF UsageTypeOK
<1>. QED  BY <1>3, <1>4, <1>8, <1>9, <1>10, TurnStepTypes DEF UsageInv

LEMMA IncrementSpendInv ==
  ASSUME UsageAssumption, UsageInv, NEW t \in Slot, IncrementSpend(t)
  PROVE  UsageInv'
<1>1. /\ Move(t, "spending", "week") /\ spend' = spend + turn[t].cost
      /\ UNCHANGED <<plan, session, weekly, logged, credits, begun, skipped,
                     unpaid, pastCap, failures>>
  BY DEF IncrementSpend
<1>2. UsageTypeOK /\ MonthInv /\ WindowInv /\ spend \in Nat
  BY DEF UsageInv, UsageTypeOK
<1>3. /\ OnlyTurn(t) /\ turn[t].pc = "spending" /\ turn'[t].pc = "week"
      /\ turn'[t].onCredits = turn[t].onCredits
  <2>1. "week" \in TurnPc /\ "spending" \in TurnPc
    BY DEF TurnPc
  <2>. QED  BY <1>1, <1>2, <2>1, TurnMoves
<1>4. TurnOK(t)' /\ ~Counting(t)' /\ Paying(t) /\ ~Paying(t)'
  BY <1>3 DEF TurnOK, Paying, Counting, Admitted, UsageInv, UsageTypeOK
<1>5. turn[t].cost \in Nat /\ turn[t].cost <= Dearest /\ Dearest \in Nat
  BY <1>3, DearestIsMax DEF UsageInv
<1>6. Metered'
  BY <1>1, <1>2, <1>5 DEF Metered, UsageTypeOK
<1>7. WindowInv'
  BY <1>1, <1>2, <1>3, <1>4, WindowKept DEF UsageTypeOK
<1>8. MonthInv'
  <2>. SUFFICES ASSUME SpendCap > 0
                PROVE  spend' + Cardinality(Payings') * Dearest
                         <= SpendCap - 1 + (Bound + skipped') * Dearest
    BY DEF MonthInv, Payings, Bound
  <2>. DEFINE k == Cardinality(Payings)
              n == Cardinality(Payings')
              d == Dearest
              c == turn[t].cost
              B == Bound + skipped
  <2>1. n \in Nat /\ n + 1 = k /\ Bound \in Nat
    BY <1>3, <1>4, PayingsMove
  <2>2. spend + k * d <= SpendCap - 1 + B * d
    BY <1>2 DEF MonthInv, Payings, Bound
  <2>3. B \in Nat
    BY <1>2, <2>1 DEF UsageTypeOK
  <2>4. c \in Nat /\ c <= d /\ d \in Nat /\ SpendCap \in Nat
    BY <1>5 DEF UsageAssumption
  <2>5. n * d \in Nat /\ k * d = n * d + d /\ B * d \in Nat
    <3>. HIDE DEF n, k, d, B
    <3>. QED  BY <2>1, <2>3, <2>4, Times
  <2>6. spend' = spend + c /\ skipped' = skipped
    BY <1>1
  <2>. HIDE DEF n, k, d, c, B
  <2>7. spend' + n * d <= SpendCap - 1 + B * d
    BY <1>2, <2>2, <2>4, <2>5, <2>6
  <2>. QED  BY <2>6, <2>7 DEF n, d, B
<1>. QED  BY <1>3, <1>4, <1>6, <1>7, <1>8, TurnStepTypes DEF UsageInv

-----------------------------------------------------------------------------
(* Time and the subscription *)

LEMMA TimeInv ==
  ASSUME UsageAssumption, UsageInv, SessionExpires \/ WeekRolls \/ MonthRolls \/ PlanChanges
  PROVE  UsageInv'
<1>1. UNCHANGED <<turn, credits, begun, skipped, unpaid, pastCap, failures>>
  BY DEF SessionExpires, WeekRolls, MonthRolls, PlanChanges, meters
<1>2. UsageTypeOK /\ WindowInv /\ MonthInv
  BY DEF UsageInv
<1>3. /\ plan' \in Plan /\ weekly' \in Nat /\ logged' \in Nat
      /\ session' = session \/ session' = Missing
      /\ spend' = spend \/ spend' = 0
  BY <1>2 DEF SessionExpires, WeekRolls, MonthRolls, PlanChanges, meters, UsageTypeOK
<1>4. UsageTypeOK'
  BY <1>1, <1>2, <1>3 DEF UsageTypeOK
<1>5. Countings' = Countings /\ Payings' = Payings
  BY <1>1 DEF Countings, Payings, Counting, Paying, Admitted
<1>6. WindowInv'
  BY <1>1, <1>2, <1>3, <1>5 DEF WindowInv, Countings
<1>7. MonthInv'
  <2>1. CASE spend' = spend
    BY <1>1, <1>2, <1>5, <2>1 DEF MonthInv, Payings
  <2>2. CASE spend' = 0
    <3>. SUFFICES ASSUME SpendCap > 0
                  PROVE  spend' + Cardinality(Payings') * Dearest
                           <= SpendCap - 1 + (Bound + skipped') * Dearest
      BY DEF MonthInv, Payings, Bound
    <3>. DEFINE k == Cardinality(Payings)
                B == Bound + skipped
                d == Dearest
    <3>1. k \in Nat /\ Bound \in Nat /\ k <= Bound
      BY FS_Subset, FS_CardinalityType DEF Payings, Bound, UsageAssumption
    <3>2. B \in Nat /\ k <= B /\ d \in Nat /\ SpendCap \in Nat
      BY <1>2, <3>1, DearestIsMax DEF UsageTypeOK, UsageAssumption
    <3>. HIDE DEF k, B, d
    <3>3. k * d <= B * d /\ k * d \in Nat /\ B * d \in Nat
      BY <3>1, <3>2, Times
    <3>4. 0 + k * d <= SpendCap - 1 + B * d
      BY <3>2, <3>3
    <3>. QED  BY <1>1, <1>5, <2>2, <3>4 DEF k, B, d
  <2>. QED  BY <1>3, <2>1, <2>2
<1>. QED  BY <1>1, <1>2, <1>4, <1>6, <1>7 DEF UsageInv

LEMMA UsageInitInv ==
  ASSUME UsageAssumption, UsageInit
  PROVE  UsageInv
<1>1. /\ plan \in Plan /\ session = Missing /\ weekly = 0 /\ spend = 0 /\ logged = 0
      /\ credits = Credits /\ turn = [t \in Slot |-> NoTurn]
      /\ begun = 0 /\ skipped = 0 /\ unpaid = 0 /\ pastCap = 0 /\ failures = 0
  BY DEF UsageInit
<1>2. NoTurn \in Turn /\ NoTurn.pc = "idle"
  BY DEF NoTurn, Turn, TurnPc
<1>3. \A t \in Slot : turn[t].pc = "idle"
  BY <1>1, <1>2
<1>4. UsageTypeOK
  BY <1>1, <1>2, <1>3 DEF UsageTypeOK, UsageAssumption
<1>5. WindowInv
  BY <1>1 DEF WindowInv
<1>6. MonthInv
  <2>1. Payings = {}
    BY <1>3 DEF Payings, Paying, Admitted
  <2>2. Bound \in Nat /\ Dearest \in Nat /\ SpendCap \in Nat
    BY DearestIsMax, FS_CardinalityType DEF Bound, UsageAssumption
  <2>3. Cardinality(Payings) = 0
    BY <2>1, FS_EmptySet
  <2>. DEFINE d == Dearest
              B == Bound
  <2>. HIDE DEF d, B
  <2>4. 0 * d = 0 /\ (B + 0) * d = B * d /\ B * d \in Nat
    BY <2>2, Times DEF d, B
  <2>5. SpendCap > 0 => 0 + 0 * d <= SpendCap - 1 + (B + 0) * d
    BY <2>2, <2>4
  <2>. QED  BY <1>1, <2>3, <2>5 DEF MonthInv, Payings, Bound, d, B
<1>. QED  BY <1>3, <1>4, <1>5, <1>6 DEF UsageInv

LEMMA UsageNextInv ==
  UsageAssumption /\ UsageInv /\ [UsageNext]_usageVars => UsageInv'
<1>. SUFFICES ASSUME UsageAssumption, UsageInv, [UsageNext]_usageVars
              PROVE  UsageInv'
  OBVIOUS
<1>1. ASSUME NEW t \in Slot, TurnStep(t)
      PROVE  UsageInv'
  BY <1>1, StartTurnInv, ReadSessionInv, SessionReadFailsInv, WriteFreshInv,
     WriteFreshFailsInv, SessionCapsInv, CheckInv, CreditsBypassInv, FailOpenInv, EndOfTurnInv, LogInv, RecordFailsInv,
     IncrementSessionInv, IncrementSpendInv
  DEF TurnStep
<1>2. CASE UNCHANGED usageVars
  BY <1>2 DEF usageVars, meters, UsageInv, UsageTypeOK, WindowInv, MonthInv, Counting, Paying,
     Admitted
<1>. QED  BY <1>1, <1>2, TimeInv DEF UsageNext

(* Caps are overrun by the turns let in together at most, for any number   *)
(* of turns at once, any caps and costs, and however the gate's reads, the *)
(* recorder's increments, the expiry of the window, the end of the month   *)
(* and a change of plan interleave.                                        *)
THEOREM OverrunsAreBounded == UsageSpec => []MetersSound
<1>1. UsageInit => UsageInv
  BY UsageAssumption, UsageInitInv
<1>2. UsageInv /\ [UsageNext]_usageVars => UsageInv'
  BY UsageAssumption, UsageNextInv
<1>3. UsageInv => MetersSound
  <2>. SUFFICES ASSUME UsageInv PROVE MetersSound
    OBVIOUS
  <2>1. IsFiniteSet(Countings) /\ IsFiniteSet(Payings) /\ IsFiniteSet(Slot)
    BY UsageAssumption, FS_Subset DEF Countings, Payings, UsageAssumption
  <2>. DEFINE k == Cardinality(Countings)
              n == Cardinality(Payings)
              d == Dearest
  <2>2. k \in Nat /\ n \in Nat /\ d \in Nat /\ Bound \in Nat
    BY <2>1, UsageAssumption, FS_CardinalityType, DearestIsMax DEF Bound
  <2>3. UsageTypeOK /\ WindowInv /\ MonthInv
    BY DEF UsageInv
  <2>4. SessionOverrun
    <3>. SUFFICES ASSUME NEW p \in Plan, session # Missing, session.tier = p, MessageCap[p] > 0
                  PROVE  session.msgs <= MessageCap[p] - 1 + Bound + skipped
      BY DEF SessionOverrun, Bound
    <3>1. session.msgs + k <= MessageCap[p] - 1 + Bound + skipped
      BY <2>3 DEF WindowInv, Countings, Bound
    <3>2. session.msgs \in Nat /\ MessageCap[p] \in Nat /\ skipped \in Nat
      BY <2>3, UsageAssumption DEF UsageTypeOK, Session, UsageAssumption
    <3>. HIDE DEF k
    <3>. QED  BY <2>2, <3>1, <3>2
  <2>5. SpendOverrun
    <3>. DEFINE B == Bound + skipped
    <3>. SUFFICES ASSUME SpendCap > 0
                  PROVE  spend <= SpendCap - 1 + B * d
      BY DEF SpendOverrun, Bound
    <3>1. spend + n * d <= SpendCap - 1 + B * d
      BY <2>3 DEF MonthInv, Payings, Bound
    <3>2. spend \in Nat /\ SpendCap \in Nat /\ B \in Nat
      BY <2>2, <2>3, UsageAssumption DEF UsageTypeOK, UsageAssumption
    <3>. HIDE DEF n, d, B
    <3>3. n * d \in Nat /\ B * d \in Nat
      BY <2>2, <3>2, Times
    <3>. QED  BY <3>1, <3>2, <3>3
  <2>. QED  BY <2>3, <2>4, <2>5 DEF MetersSound
<1>. QED  BY <1>1, <1>2, <1>3, PTL DEF UsageSpec
=============================================================================
