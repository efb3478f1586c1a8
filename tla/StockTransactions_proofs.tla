---------------------- MODULE StockTransactions_proofs ----------------------
(***************************************************************************)
(* The row-locking transactions implement the abstract ledger.  The        *)
(* inductive invariant says what a transaction that is under way may rely  *)
(* on: it holds the lock of every row it has read, and the rows still say  *)
(* what it read.  Without it a COMMIT would write values computed from a   *)
(* row that has moved on.                                                  *)
(***************************************************************************)
EXTENDS StockTransactions, SequenceTheorems, TLAPS

LP == INSTANCE StockLedger_proofs

OutSteps == {"return", "restore"}
ItemSteps == {"create", "update", "deactivate", "counted", "checkout", "restore"}
ActiveSteps == {"update", "deactivate", "counted", "checkout"}

(* What connection p may rely on at the step it is at. *)
Holds(p) ==
    LET t == tx[p] IN
    /\ t.step \in ItemSteps => itemLock[t.item] = p
    /\ t.step = "create" => items[t.item].status = "NONE"
    /\ t.step \in ActiveSteps => items[t.item].status = "ACTIVE"
    /\ t.step = "update" =>
          /\ t.unavailable = items[t.item].total - items[t.item].available
          /\ t.total >= t.unavailable
    /\ t.step = "counted" => Ledger!OutOf(t.item) = {}
    /\ t.step = "checkout" => t.quantity <= items[t.item].available
    /\ t.step = "restore" => t.condition # "LOST"
    /\ t.step \in OutSteps =>
          /\ loanLock[t.loan] = p
          /\ t.loan \in 1..Len(loans)
          /\ loans[t.loan].item = t.item
          /\ loans[t.loan].quantity = t.quantity
          /\ loans[t.loan].state = "OUT"

LockInv == TypeOK /\ \A p \in Procs : Holds(p)

----------------------------------------------------------------------------
(* The step of a transaction tells which fields it has. *)
LEMMA TransactionShape ==
  ASSUME NEW t \in Transaction
  PROVE  /\ t.step = "create" => t \in [step: {"create"}, item: Items, total: 0..MaxTotal]
         /\ t.step = "update" => t \in [step: {"update"}, item: Items,
                                        total: 0..MaxTotal, unavailable: Int]
         /\ t.step \in {"deactivate", "counted"} =>
               t \in [step: {"deactivate", "counted"}, item: Items]
         /\ t.step = "checkout" => t \in [step: {"checkout"}, item: Items,
                                          quantity: 1..MaxTotal]
         /\ t.step \in OutSteps =>
               t \in [step: {"return", "restore"}, loan: 1..MaxLoans, item: Items,
                      quantity: Nat, condition: Conditions]
         /\ t.step = "idle" => t = Idle
BY DEF Transaction, Idle, OutSteps

(* A step of connection p leaves connection q in charge of its rows.       *)
LEMMA OthersUndisturbed ==
  ASSUME LockInv, TypeOK', NEW q \in Procs, Holds(q),
         tx'[q] = tx[q],
         \A i \in Items : itemLock[i] = q =>
             /\ itemLock'[i] = q
             /\ items'[i] = items[i]
             /\ Ledger!OutOf(i) = {} => Ledger!OutOf(i)' = {},
         \A l \in 1..Len(loans) : loanLock[l] = q =>
             loanLock'[l] = q /\ loans'[l] = loans[l],
         Len(loans) <= Len(loans')
  PROVE  Holds(q)'
<1>1. tx[q] \in Transaction
  BY DEF LockInv, TypeOK
<1>2. tx[q].step \in ItemSteps => tx[q].item \in Items
  BY <1>1, TransactionShape DEF ItemSteps, OutSteps
<1>3. tx[q].step \in OutSteps => tx[q].loan \in 1..Len(loans)
  BY DEF Holds
<1>4. Len(loans) \in Nat /\ Len(loans') \in Nat
  BY DEF LockInv, TypeOK, Ledger!TypeOK
<1>5. CASE tx[q].step \in ItemSteps /\ tx[q].step \notin OutSteps
  BY <1>2, <1>5 DEF Holds, ItemSteps, ActiveSteps, OutSteps
<1>6. CASE tx[q].step \in OutSteps
  BY <1>2, <1>3, <1>4, <1>6 DEF Holds, ItemSteps, ActiveSteps, OutSteps
<1>7. CASE tx[q].step \notin ItemSteps /\ tx[q].step \notin OutSteps
  BY <1>7 DEF Holds, ItemSteps, ActiveSteps, OutSteps
<1> QED BY <1>5, <1>6, <1>7

LEMMA LockInit == Init => LockInv
<1> SUFFICES ASSUME Init PROVE LockInv
  OBVIOUS
<1>1. TypeOK
  BY LedgerBounds DEF Init, TypeOK, Ledger!Init, Ledger!TypeOK, Ledger!ItemRow,
                      Transaction, Idle
<1>2. \A p \in Procs : Holds(p)
  BY DEF Init, Holds, Idle, ItemSteps, ActiveSteps, OutSteps
<1> QED BY <1>1, <1>2 DEF LockInv

(* What every step of connection p has to show: it leaves alone the rows   *)
(* that others have locked, and takes no lock away.                        *)
LEMMA StepKeepsLocks ==
  ASSUME LockInv, NEW p \in Procs, TypeOK', Holds(p)',
         \A q \in Procs : q # p => tx'[q] = tx[q],
         \A i \in Items : itemLock[i] \in Procs /\ itemLock[i] # p =>
             /\ itemLock'[i] = itemLock[i]
             /\ items'[i] = items[i]
             /\ Ledger!OutOf(i) = {} => Ledger!OutOf(i)' = {},
         \A l \in 1..Len(loans) : loanLock[l] \in Procs /\ loanLock[l] # p =>
             loanLock'[l] = loanLock[l] /\ loans'[l] = loans[l],
         Len(loans) <= Len(loans')
  PROVE  LockInv'
<1>1. ASSUME NEW q \in Procs, q # p
      PROVE  Holds(q)'
  <2>1. Holds(q) /\ tx'[q] = tx[q]
    BY <1>1 DEF LockInv
  <2> QED BY <1>1, <2>1, OthersUndisturbed
<1> QED BY <1>1 DEF LockInv

LEMMA SameRows == Ledger!ItemRow = ItemRow /\ Ledger!LoanRow = LoanRow
BY DEF Ledger!ItemRow, ItemRow, Ledger!LoanRow, LoanRow, Ledger!Conditions, Conditions

LEMMA TypeFacts ==
  ASSUME LockInv
  PROVE  /\ items \in [Items -> ItemRow]
         /\ loans \in Seq(LoanRow)
         /\ Len(loans) \in Nat /\ Len(loans) <= MaxLoans
         /\ itemLock \in [Items -> Procs \cup {NoProc}]
         /\ loanLock \in [1..MaxLoans -> Procs \cup {NoProc}]
         /\ tx \in [Procs -> Transaction]
<1>1. items \in [Items -> ItemRow] /\ loans \in Seq(LoanRow) /\ Len(loans) <= MaxLoans
  BY SameRows DEF LockInv, TypeOK, Ledger!TypeOK
<1> QED BY <1>1 DEF LockInv, TypeOK

(* COMMIT and ROLLBACK: p is idle again, the other connections keep their  *)
(* transactions and their locks.                                           *)
LEMMA ReleaseStep ==
  ASSUME LockInv, NEW p \in Procs, Release(p)
  PROVE  /\ itemLock' \in [Items -> Procs \cup {NoProc}]
         /\ loanLock' \in [1..MaxLoans -> Procs \cup {NoProc}]
         /\ tx' \in [Procs -> Transaction]
         /\ Holds(p)'
         /\ \A q \in Procs : q # p => tx'[q] = tx[q]
         /\ \A i \in Items : itemLock[i] \in Procs /\ itemLock[i] # p =>
               itemLock'[i] = itemLock[i]
         /\ \A l \in 1..MaxLoans : loanLock[l] \in Procs /\ loanLock[l] # p =>
               loanLock'[l] = loanLock[l]
<1>1. /\ itemLock' = Unlocked(itemLock, p)
      /\ loanLock' = Unlocked(loanLock, p)
      /\ tx' = [tx EXCEPT ![p] = Idle]
  BY DEF Release
<1>2. Idle \in Transaction /\ Idle.step = "idle"
  BY DEF Transaction, Idle
<1>3. tx'[p] = Idle
  BY <1>1, TypeFacts
<1>4. Holds(p)'
  BY <1>2, <1>3 DEF Holds, ItemSteps, ActiveSteps, OutSteps
<1>5. tx' \in [Procs -> Transaction] /\ \A q \in Procs : q # p => tx'[q] = tx[q]
  BY <1>1, <1>2, TypeFacts
<1>6. /\ itemLock' \in [Items -> Procs \cup {NoProc}]
      /\ \A i \in Items : itemLock[i] \in Procs /\ itemLock[i] # p =>
               itemLock'[i] = itemLock[i]
  BY <1>1, TypeFacts DEF Unlocked
<1>7. /\ loanLock' \in [1..MaxLoans -> Procs \cup {NoProc}]
      /\ \A l \in 1..MaxLoans : loanLock[l] \in Procs /\ loanLock[l] # p =>
               loanLock'[l] = loanLock[l]
  BY <1>1, TypeFacts DEF Unlocked
<1> QED BY <1>4, <1>5, <1>6, <1>7

(* A transaction that ends without writing. *)
LEMMA RollbackStep ==
  ASSUME LockInv, NEW p \in Procs, Release(p), UNCHANGED <<items, loans>>
  PROVE  LockInv'
<1>1. TypeOK'
  BY ReleaseStep DEF LockInv, TypeOK, Ledger!TypeOK
<1>2. \A i \in Items : items'[i] = items[i] /\ Ledger!OutOf(i)' = Ledger!OutOf(i)
  BY DEF Ledger!OutOf
<1>3. \A l \in 1..Len(loans) : l \in 1..MaxLoans /\ loans'[l] = loans[l]
  BY TypeFacts, LedgerBounds
<1>4. Len(loans) <= Len(loans')
  BY TypeFacts
<1> QED BY <1>1, <1>2, <1>3, <1>4, ReleaseStep, StepKeepsLocks

(* The first statement of a transaction on item i: it takes the row lock.  *)
LEMMA LockItemStep ==
  ASSUME LockInv, NEW p \in Procs, NEW i \in Items, NEW t \in Transaction,
         LockItem(p, i), tx' = [tx EXCEPT ![p] = t],
         UNCHANGED <<items, loans, loanLock>>, Holds(p)'
  PROVE  LockInv'
<1>1. itemLock[i] = NoProc /\ itemLock' = [itemLock EXCEPT ![i] = p]
  BY DEF LockItem
<1>2. itemLock' \in [Items -> Procs \cup {NoProc}]
  BY <1>1, TypeFacts
<1>3. TypeOK'
  BY <1>2, TypeFacts, SameRows DEF LockInv, TypeOK, Ledger!TypeOK
<1>4. \A j \in Items : /\ itemLock[j] \in Procs => itemLock'[j] = itemLock[j]
                      /\ items'[j] = items[j]
                      /\ Ledger!OutOf(j)' = Ledger!OutOf(j)
  BY <1>1, TypeFacts, ProcsAssumption DEF Ledger!OutOf
<1>5. \A q \in Procs : q # p => tx'[q] = tx[q]
  BY TypeFacts
<1>6. Len(loans) <= Len(loans')
  BY TypeFacts
<1> QED BY <1>3, <1>4, <1>5, <1>6, StepKeepsLocks

(* A commit that rewrites the row of item i, which p has locked, and       *)
(* leaves the loans alone.                                                 *)
LEMMA WriteItemStep ==
  ASSUME LockInv, NEW p \in Procs, NEW i \in Items, itemLock[i] = p,
         NEW row \in ItemRow, items' = [items EXCEPT ![i] = row],
         loans' = loans, Release(p)
  PROVE  LockInv'
<1>1. items' \in [Items -> ItemRow] /\ \A j \in Items : j # i => items'[j] = items[j]
  BY TypeFacts
<1>2. TypeOK'
  BY <1>1, TypeFacts, SameRows, ReleaseStep DEF TypeOK, Ledger!TypeOK
<1>3. \A j \in Items : itemLock[j] # p => items'[j] = items[j]
  BY <1>1
<1>4. \A j \in Items : Ledger!OutOf(j)' = Ledger!OutOf(j)
  BY DEF Ledger!OutOf
<1>5. \A l \in 1..Len(loans) : l \in 1..MaxLoans
  BY TypeFacts, LedgerBounds
<1>6. Len(loans) <= Len(loans')
  BY TypeFacts
<1> QED BY <1>2, <1>3, <1>4, <1>5, <1>6, ReleaseStep, StepKeepsLocks

----------------------------------------------------------------------------
(* The statements, one lemma each.  A statement either leaves the ledger   *)
(* alone or is a whole operation of the abstract ledger.                   *)
LedgerMove == Ledger!Next \/ UNCHANGED Ledger!ledger

LEMMA IdleIsNoStep == \A p \in Procs : tx[p] = Idle => tx[p].step = "idle"
BY DEF Idle

LEMMA CreateInsertStep ==
  ASSUME LockInv, NEW p \in Procs, NEW i \in Items, NEW total \in 0..MaxTotal,
         CreateInsert(p, i, total)
  PROVE  LockInv' /\ LedgerMove
<1> DEFINE t == [step |-> "create", item |-> i, total |-> total]
<1>1. t \in Transaction
  BY DEF Transaction
<1>2. tx'[p] = t /\ itemLock'[i] = p /\ items'[i].status = "NONE"
  BY TypeFacts DEF CreateInsert, LockItem
<1>3. Holds(p)'
  BY <1>2 DEF Holds, ItemSteps, ActiveSteps, OutSteps
<1>4. LockInv'
  BY <1>1, <1>3, LockItemStep DEF CreateInsert
<1> QED BY <1>4 DEF CreateInsert, LedgerMove, Ledger!ledger

LEMMA CreateCommitStep ==
  ASSUME LockInv, NEW p \in Procs, CreateCommit(p)
  PROVE  LockInv' /\ LedgerMove
<1> DEFINE i == tx[p].item
           total == tx[p].total
           row == [status |-> "ACTIVE", total |-> total, available |-> total]
<1>1. tx[p].step = "create" /\ tx[p] \in Transaction
  BY TypeFacts DEF CreateCommit
<1>2. i \in Items /\ total \in 0..MaxTotal
  BY <1>1, TransactionShape
<1>3. itemLock[i] = p /\ items[i].status = "NONE"
  BY <1>1 DEF LockInv, Holds, ItemSteps
<1>4. row \in ItemRow
  BY <1>2, LedgerBounds DEF ItemRow
<1>5. items' = [items EXCEPT ![i] = row] /\ loans' = loans /\ Release(p)
  BY DEF CreateCommit
<1>6. LockInv'
  <2> HIDE DEF row, i
  <2> QED BY <1>2, <1>3, <1>4, <1>5, WriteItemStep
<1>7. Ledger!Create(i, total)
  BY <1>3, <1>5 DEF Ledger!Create
<1> QED BY <1>2, <1>6, <1>7 DEF LedgerMove, Ledger!Next

LEMMA UpdateLockStep ==
  ASSUME LockInv, NEW p \in Procs, NEW i \in Items, NEW total \in 0..MaxTotal,
         UpdateLock(p, i, total)
  PROVE  LockInv' /\ LedgerMove
<1> DEFINE unavailable == items[i].total - items[i].available
           t == [step |-> "update", item |-> i, total |-> total,
                 unavailable |-> unavailable]
<1>1. unavailable \in Int
  BY TypeFacts DEF ItemRow
<1>2. t \in Transaction
  BY <1>1 DEF Transaction
<1>3. /\ tx'[p] = t /\ itemLock'[i] = p
      /\ items'[i].status = "ACTIVE" /\ items' = items /\ total >= unavailable
  BY TypeFacts DEF UpdateLock, LockItem
<1>4. Holds(p)'
  BY <1>3 DEF Holds, ItemSteps, ActiveSteps, OutSteps
<1>5. LockInv'
  <2> HIDE DEF t
  <2>1. LockItem(p, i) /\ tx' = [tx EXCEPT ![p] = t] /\ UNCHANGED <<items, loans, loanLock>>
    BY DEF UpdateLock, t
  <2> QED BY <2>1, <1>2, <1>4, LockItemStep
<1> QED BY <1>5 DEF UpdateLock, LedgerMove, Ledger!ledger

LEMMA UpdateCommitStep ==
  ASSUME LockInv, NEW p \in Procs, UpdateCommit(p)
  PROVE  LockInv' /\ LedgerMove
<1> DEFINE i == tx[p].item
           total == tx[p].total
           unavailable == tx[p].unavailable
           row == [items[i] EXCEPT !.total = total,
                                   !.available = total - unavailable]
<1>1. tx[p].step = "update" /\ tx[p] \in Transaction
  BY TypeFacts DEF UpdateCommit
<1>2. i \in Items /\ total \in 0..MaxTotal /\ unavailable \in Int
  BY <1>1, TransactionShape
<1>3. /\ itemLock[i] = p /\ items[i].status = "ACTIVE"
      /\ unavailable = items[i].total - items[i].available
      /\ total >= unavailable
  BY <1>1 DEF LockInv, Holds, ItemSteps, ActiveSteps
<1>4. row \in ItemRow
  <2>1. items[i] \in ItemRow
    BY <1>2, TypeFacts
  <2>2. total \in Int /\ total - unavailable \in Int
    BY <1>2, LedgerBounds
  <2> HIDE DEF total, unavailable
  <2> QED BY <2>1, <2>2 DEF ItemRow
<1>5. items' = [items EXCEPT ![i] = row] /\ loans' = loans /\ Release(p)
  BY <1>2, TypeFacts DEF UpdateCommit
<1>6. LockInv'
  <2> HIDE DEF row, i
  <2> QED BY <1>2, <1>3, <1>4, <1>5, WriteItemStep
<1>7. Ledger!Update(i, total)
  BY <1>2, <1>3, TypeFacts DEF UpdateCommit, Ledger!Update
<1> QED BY <1>2, <1>6, <1>7 DEF LedgerMove, Ledger!Next

LEMMA DeactivateLockStep ==
  ASSUME LockInv, NEW p \in Procs, NEW i \in Items, DeactivateLock(p, i)
  PROVE  LockInv' /\ LedgerMove
<1> DEFINE t == [step |-> "deactivate", item |-> i]
<1>1. t \in Transaction
  BY DEF Transaction
<1>2. tx'[p] = t /\ itemLock'[i] = p /\ items'[i].status = "ACTIVE"
  BY TypeFacts DEF DeactivateLock, LockItem
<1>3. Holds(p)'
  BY <1>2 DEF Holds, ItemSteps, ActiveSteps, OutSteps
<1>4. LockInv'
  BY <1>1, <1>3, LockItemStep DEF DeactivateLock
<1> QED BY <1>4 DEF DeactivateLock, LedgerMove, Ledger!ledger

LEMMA DeactivateCountStep ==
  ASSUME LockInv, NEW p \in Procs, DeactivateCount(p)
  PROVE  LockInv' /\ LedgerMove
<1>1. UNCHANGED <<items, loans>> /\ tx[p].step = "deactivate" /\ tx[p] \in Transaction
  BY TypeFacts DEF DeactivateCount
<1>2. CASE Release(p)
  BY <1>1, <1>2, RollbackStep DEF LedgerMove, Ledger!ledger
<1>3. CASE /\ Ledger!OutOf(tx[p].item) = {}
           /\ tx' = [tx EXCEPT ![p].step = "counted"]
           /\ UNCHANGED <<itemLock, loanLock>>
  <2> DEFINE t == [tx[p] EXCEPT !.step = "counted"]
  <2>1. tx[p] \in [step: {"deactivate", "counted"}, item: Items]
    BY <1>1, TransactionShape
  <2>2. t \in [step: {"deactivate", "counted"}, item: Items]
    BY <2>1
  <2>3. t \in Transaction /\ t.step = "counted" /\ t.item = tx[p].item
    BY <2>1, <2>2 DEF Transaction
  <2>4. tx' = [tx EXCEPT ![p] = t]
    BY <1>3, TypeFacts
  <2> HIDE DEF t
  <2>5. TypeOK'
    BY <1>1, <1>3, <2>3, <2>4, TypeFacts, SameRows DEF TypeOK, Ledger!TypeOK
  <2>6. \A j \in Items : Ledger!OutOf(j)' = Ledger!OutOf(j)
    BY <1>1 DEF Ledger!OutOf
  <2>7. /\ itemLock[tx[p].item] = p /\ items[tx[p].item].status = "ACTIVE"
        /\ tx'[p] = t /\ tx[p].item \in Items
    <3>1. itemLock[tx[p].item] = p /\ items[tx[p].item].status = "ACTIVE"
      BY <1>1 DEF LockInv, Holds, ItemSteps, ActiveSteps
    <3>2. tx'[p] = t
      BY <2>4, TypeFacts
    <3> QED BY <2>1, <3>1, <3>2
  <2>8. Holds(p)'
    BY <1>1, <1>3, <2>3, <2>6, <2>7 DEF Holds, ItemSteps, ActiveSteps, OutSteps
  <2>9. \A q \in Procs : q # p => tx'[q] = tx[q]
    BY <2>4, TypeFacts
  <2>10. Len(loans) <= Len(loans')
    BY <1>1, TypeFacts
  <2>11. LockInv'
    BY <1>1, <1>3, <2>5, <2>6, <2>8, <2>9, <2>10, StepKeepsLocks
  <2> QED BY <1>1, <2>11 DEF LedgerMove, Ledger!ledger
<1> QED BY <1>2, <1>3 DEF DeactivateCount

LEMMA DeactivateCommitStep ==
  ASSUME LockInv, NEW p \in Procs, DeactivateCommit(p)
  PROVE  LockInv' /\ LedgerMove
<1> DEFINE i == tx[p].item
           row == [items[i] EXCEPT !.status = "INACTIVE"]
<1>1. tx[p].step = "counted" /\ tx[p] \in Transaction
  BY TypeFacts DEF DeactivateCommit
<1>2. i \in Items
  BY <1>1, TransactionShape
<1>3. itemLock[i] = p /\ items[i].status = "ACTIVE" /\ Ledger!OutOf(i) = {}
  BY <1>1 DEF LockInv, Holds, ItemSteps, ActiveSteps
<1>4. row \in ItemRow
  BY <1>2, TypeFacts DEF ItemRow
<1>5. items' = [items EXCEPT ![i] = row] /\ loans' = loans /\ Release(p)
  BY <1>2, TypeFacts DEF DeactivateCommit
<1>6. LockInv'
  <2> HIDE DEF row, i
  <2> QED BY <1>2, <1>3, <1>4, <1>5, WriteItemStep
<1>7. Ledger!Deactivate(i)
  BY <1>2, <1>3, TypeFacts DEF DeactivateCommit, Ledger!Deactivate
<1> QED BY <1>2, <1>6, <1>7 DEF LedgerMove, Ledger!Next

LEMMA CheckoutLockStep ==
  ASSUME LockInv, NEW p \in Procs, NEW i \in Items, NEW quantity \in 1..MaxTotal,
         CheckoutLock(p, i, quantity)
  PROVE  LockInv' /\ LedgerMove
<1> DEFINE t == [step |-> "checkout", item |-> i, quantity |-> quantity]
<1>1. t \in Transaction
  BY DEF Transaction
<1>2. /\ tx'[p] = t /\ itemLock'[i] = p /\ items'[i].status = "ACTIVE"
      /\ quantity <= items'[i].available
  BY TypeFacts DEF CheckoutLock, LockItem, ItemRow
<1>3. Holds(p)'
  BY <1>2 DEF Holds, ItemSteps, ActiveSteps, OutSteps
<1>4. LockInv'
  BY <1>1, <1>3, LockItemStep DEF CheckoutLock
<1> QED BY <1>4 DEF CheckoutLock, LedgerMove, Ledger!ledger

LEMMA CheckoutCommitStep ==
  ASSUME LockInv, NEW p \in Procs, CheckoutCommit(p)
  PROVE  LockInv' /\ LedgerMove
<1> DEFINE i == tx[p].item
           quantity == tx[p].quantity
           loan == [item |-> i, quantity |-> quantity, state |-> "OUT"]
<1>1. tx[p].step = "checkout" /\ tx[p] \in Transaction
  BY TypeFacts DEF CheckoutCommit
<1>2. i \in Items /\ quantity \in 1..MaxTotal /\ quantity \in Nat
  BY <1>1, TransactionShape, LedgerBounds
<1>3. itemLock[i] = p /\ items[i].status = "ACTIVE" /\ quantity <= items[i].available
  BY <1>1 DEF LockInv, Holds, ItemSteps, ActiveSteps
<1>4. /\ Len(loans) < MaxLoans
      /\ loans' = Append(loans, loan)
      /\ items' = [items EXCEPT ![i].available = @ - quantity]
      /\ Release(p)
  BY DEF CheckoutCommit
<1>5. loan \in LoanRow
  BY <1>2 DEF LoanRow
<1>6. /\ loans' \in Seq(LoanRow)
      /\ Len(loans') = Len(loans) + 1
      /\ loans'[Len(loans) + 1] = loan
      /\ \A l \in 1..Len(loans) : loans'[l] = loans[l]
  <2> HIDE DEF loan
  <2> QED BY <1>4, <1>5, TypeFacts, AppendProperties
<1>7. items' \in [Items -> ItemRow] /\ \A j \in Items : j # i => items'[j] = items[j]
  <2>1. items[i].available - quantity \in Int
    BY <1>2, TypeFacts DEF ItemRow
  <2> HIDE DEF quantity
  <2> QED BY <1>2, <1>4, <2>1, TypeFacts DEF ItemRow
<1>8. TypeOK'
  <2>1. Len(loans') <= MaxLoans
    BY <1>4, <1>6, TypeFacts, LedgerBounds
  <2> QED BY <1>4, <1>6, <1>7, <2>1, SameRows, ReleaseStep DEF TypeOK, Ledger!TypeOK
<1>9. ASSUME NEW j \in Items, itemLock[j] \in Procs, itemLock[j] # p
      PROVE  /\ items'[j] = items[j]
             /\ Ledger!OutOf(j) = {} => Ledger!OutOf(j)' = {}
  <2>1. j # i
    BY <1>3, <1>9
  <2>2. ASSUME Ledger!OutOf(j) = {}, NEW l \in 1..Len(loans'),
               loans'[l].item = j, loans'[l].state = "OUT"
        PROVE  FALSE
    <3>1. l \in 1..Len(loans)
      BY <2>1, <2>2, <1>6, TypeFacts
    <3> QED BY <2>2, <3>1, <1>6 DEF Ledger!OutOf
  <2> QED BY <2>1, <2>2, <1>7 DEF Ledger!OutOf
<1>10. /\ \A l \in 1..Len(loans) : l \in 1..MaxLoans
       /\ Len(loans) <= Len(loans')
  BY <1>6, TypeFacts, LedgerBounds
<1>11. LockInv'
  BY <1>4, <1>6, <1>8, <1>9, <1>10, ReleaseStep, StepKeepsLocks
<1>12. Ledger!Checkout(i, quantity)
  BY <1>3, <1>4 DEF Ledger!Checkout
<1> QED BY <1>2, <1>11, <1>12 DEF LedgerMove, Ledger!Next

LEMMA ReturnLockStep ==
  ASSUME LockInv, NEW p \in Procs, NEW l \in 1..Len(loans),
         NEW condition \in Conditions, ReturnLock(p, l, condition)
  PROVE  LockInv' /\ LedgerMove
<1> DEFINE t == [step |-> "return", loan |-> l, item |-> loans[l].item,
                 quantity |-> loans[l].quantity, condition |-> condition]
<1>1. /\ loanLock[l] = NoProc
      /\ loans[l].state = "OUT"
      /\ loanLock' = [loanLock EXCEPT ![l] = p]
      /\ tx' = [tx EXCEPT ![p] = t]
      /\ items' = items /\ loans' = loans /\ itemLock' = itemLock
  BY DEF ReturnLock
<1>2. l \in 1..MaxLoans /\ loans[l] \in LoanRow
  BY TypeFacts, LedgerBounds
<1>3. t \in Transaction
  BY <1>2 DEF Transaction, LoanRow
<1>4. t.step = "return" /\ t.loan = l /\ t.item = loans[l].item
      /\ t.quantity = loans[l].quantity
  OBVIOUS
<1> HIDE DEF t
<1>5. tx'[p] = t /\ loanLock'[l] = p
  BY <1>1, <1>2, TypeFacts
<1>6. Holds(p)'
  BY <1>1, <1>4, <1>5 DEF Holds, ItemSteps, ActiveSteps, OutSteps
<1>7. loanLock' \in [1..MaxLoans -> Procs \cup {NoProc}]
  BY <1>1, TypeFacts
<1>8. TypeOK'
  BY <1>1, <1>3, <1>7, TypeFacts, SameRows DEF TypeOK, Ledger!TypeOK
<1>9. \A j \in Items : Ledger!OutOf(j)' = Ledger!OutOf(j)
  BY <1>1 DEF Ledger!OutOf
<1>10. \A q \in Procs : q # p => tx'[q] = tx[q]
  BY <1>1, TypeFacts
<1>11. \A k \in 1..Len(loans) : loanLock[k] \in Procs => loanLock'[k] = loanLock[k]
  BY <1>1, <1>2, TypeFacts, LedgerBounds, ProcsAssumption
<1>12. Len(loans) <= Len(loans')
  BY <1>1, TypeFacts
<1>13. LockInv'
  BY <1>1, <1>6, <1>8, <1>9, <1>10, <1>11, <1>12, StepKeepsLocks
<1> QED BY <1>1, <1>13 DEF LedgerMove, Ledger!ledger

(* What a return knows about its loan. *)
LEMMA ReturnFacts ==
  ASSUME LockInv, NEW p \in Procs, tx[p].step \in OutSteps
  PROVE  /\ tx[p].item \in Items
         /\ tx[p].condition \in Conditions
         /\ tx[p].loan \in 1..Len(loans)
         /\ loanLock[tx[p].loan] = p
         /\ loans[tx[p].loan] \in LoanRow
         /\ loans[tx[p].loan].item = tx[p].item
         /\ loans[tx[p].loan].quantity = tx[p].quantity
         /\ loans[tx[p].loan].state = "OUT"
         /\ tx[p].quantity \in Nat
<1>1. tx[p] \in [step: {"return", "restore"}, loan: 1..MaxLoans, item: Items,
                 quantity: Nat, condition: Conditions]
  BY TypeFacts, TransactionShape
<1>2. /\ tx[p].loan \in 1..Len(loans)
      /\ loanLock[tx[p].loan] = p
      /\ loans[tx[p].loan].item = tx[p].item
      /\ loans[tx[p].loan].quantity = tx[p].quantity
      /\ loans[tx[p].loan].state = "OUT"
  BY DEF LockInv, Holds
<1>3. loans[tx[p].loan] \in LoanRow
  BY <1>2, TypeFacts
<1> QED BY <1>1, <1>2, <1>3

(* A commit that closes the loan p has locked. *)
LEMMA CloseLoanStep ==
  ASSUME LockInv, NEW p \in Procs, tx[p].step \in OutSteps,
         NEW c \in Conditions,
         loans' = [loans EXCEPT ![tx[p].loan].state = c],
         items' \in [Items -> ItemRow],
         \A j \in Items : itemLock[j] # p => items'[j] = items[j],
         Release(p)
  PROVE  LockInv'
<1> DEFINE r == tx[p].loan
<1>1. /\ r \in 1..Len(loans) /\ loanLock[r] = p /\ loans[r] \in LoanRow
      /\ loans[r].state = "OUT"
  BY ReturnFacts
<1>2. /\ Len(loans') = Len(loans)
      /\ \A l \in 1..Len(loans) : l # r => loans'[l] = loans[l]
      /\ loans'[r] = [loans[r] EXCEPT !.state = c]
  BY <1>1, TypeFacts
<1>3. loans'[r] \in LoanRow /\ loans'[r].item = loans[r].item
      /\ loans'[r].state # "OUT"
  BY <1>1, <1>2 DEF LoanRow, Conditions
<1>4. loans' \in Seq(LoanRow)
  BY <1>1, <1>2, <1>3, TypeFacts
<1>5. TypeOK'
  BY <1>2, <1>4, TypeFacts, SameRows, ReleaseStep DEF TypeOK, Ledger!TypeOK
<1>6. \A j \in Items : Ledger!OutOf(j) = {} => Ledger!OutOf(j)' = {}
  BY <1>2, <1>3 DEF Ledger!OutOf
<1>7. ASSUME NEW l \in 1..Len(loans), loanLock[l] # p
      PROVE  loans'[l] = loans[l]
  <2>1. l # r
    BY <1>1, <1>7
  <2> QED BY <1>2, <2>1
<1>8. Len(loans) <= Len(loans')
  BY <1>2, TypeFacts
<1>9. ASSUME NEW l \in 1..Len(loans), loanLock[l] \in Procs, loanLock[l] # p
      PROVE  loanLock'[l] = loanLock[l] /\ loans'[l] = loans[l]
  <2>1. l \in 1..MaxLoans
    BY TypeFacts, LedgerBounds
  <2>2. loanLock'[l] = loanLock[l]
    BY <2>1, <1>9, ReleaseStep
  <2> QED BY <2>2, <1>7, <1>9
<1>10. ASSUME NEW j \in Items, itemLock[j] \in Procs, itemLock[j] # p
       PROVE  /\ itemLock'[j] = itemLock[j]
              /\ items'[j] = items[j]
              /\ Ledger!OutOf(j) = {} => Ledger!OutOf(j)' = {}
  BY <1>6, <1>10, ReleaseStep
<1>11. Holds(p)' /\ \A q \in Procs : q # p => tx'[q] = tx[q]
  BY ReleaseStep
<1> QED BY <1>5, <1>8, <1>9, <1>10, <1>11, StepKeepsLocks

LEMMA ReturnLostStep ==
  ASSUME LockInv, NEW p \in Procs, ReturnLost(p)
  PROVE  LockInv' /\ LedgerMove
<1> DEFINE l == tx[p].loan
<1>1. /\ tx[p].step \in OutSteps /\ tx[p].condition = "LOST" /\ items' = items
      /\ loans' = [loans EXCEPT ![l].state = "LOST"] /\ Release(p)
  BY DEF ReturnLost, OutSteps
<1>2. "LOST" \in Conditions
  BY DEF Conditions
<1>3. LockInv'
  BY <1>1, <1>2, TypeFacts, CloseLoanStep
<1>4. /\ l \in 1..Len(loans) /\ loans[l].state = "OUT"
      /\ loans[l].item \in Items
  BY <1>1, ReturnFacts
<1>5. items' = [items EXCEPT ![loans[l].item].available = @ + 0]
  <2>1. items[loans[l].item] \in ItemRow
    BY <1>4, TypeFacts
  <2>2. items[loans[l].item].available + 0 = items[loans[l].item].available
    BY <2>1 DEF ItemRow
  <2>3. [items[loans[l].item] EXCEPT !.available = @ + 0] = items[loans[l].item]
    BY <2>1, <2>2 DEF ItemRow
  <2> QED BY <1>1, <1>4, <2>3, TypeFacts
<1>6. Ledger!Return(l, "LOST")
  BY <1>1, <1>4, <1>5 DEF Ledger!Return
<1>7. "LOST" \in Ledger!Conditions
  BY DEF Ledger!Conditions
<1> QED BY <1>3, <1>4, <1>6, <1>7 DEF LedgerMove, Ledger!Next

LEMMA ReturnUpdateItemStep ==
  ASSUME LockInv, NEW p \in Procs, ReturnUpdateItem(p)
  PROVE  LockInv' /\ LedgerMove
<1> DEFINE t == [tx[p] EXCEPT !.step = "restore"]
<1>1. /\ tx[p].step = "return" /\ tx[p].step \in OutSteps
      /\ LockItem(p, tx[p].item)
      /\ tx' = [tx EXCEPT ![p].step = "restore"]
      /\ UNCHANGED <<items, loans, loanLock>>
  BY DEF ReturnUpdateItem, OutSteps
<1>2. tx[p] \in [step: {"return", "restore"}, loan: 1..MaxLoans, item: Items,
                 quantity: Nat, condition: Conditions]
  BY <1>1, TypeFacts, TransactionShape
<1>3. t \in [step: {"return", "restore"}, loan: 1..MaxLoans, item: Items,
             quantity: Nat, condition: Conditions]
  BY <1>2
<1>4. /\ t \in Transaction /\ t.step = "restore" /\ t.item = tx[p].item
      /\ t.loan = tx[p].loan /\ t.quantity = tx[p].quantity
      /\ t.condition # "LOST"
  BY <1>2, <1>3 DEF Transaction, ReturnUpdateItem
<1>5. tx' = [tx EXCEPT ![p] = t]
  BY <1>1, TypeFacts
<1> HIDE DEF t
<1>6. tx'[p] = t /\ itemLock'[tx[p].item] = p
  BY <1>1, <1>2, <1>5, TypeFacts DEF LockItem
<1>7. Holds(p)'
  BY <1>1, <1>4, <1>6, ReturnFacts DEF Holds, ItemSteps, ActiveSteps, OutSteps
<1>8. LockInv'
  BY <1>1, <1>2, <1>4, <1>5, <1>7, LockItemStep
<1> QED BY <1>1, <1>8 DEF LedgerMove, Ledger!ledger

LEMMA ReturnCommitStep ==
  ASSUME LockInv, NEW p \in Procs, ReturnCommit(p)
  PROVE  LockInv' /\ LedgerMove
<1> DEFINE l == tx[p].loan
           i == tx[p].item
           c == tx[p].condition
           quantity == tx[p].quantity
<1>1. /\ tx[p].step = "restore" /\ tx[p].step \in OutSteps
      /\ loans' = [loans EXCEPT ![l].state = c]
      /\ items' = [items EXCEPT ![i].available = @ + quantity]
      /\ Release(p)
  BY DEF ReturnCommit, OutSteps
<1>2. /\ i \in Items /\ c \in Conditions /\ l \in 1..Len(loans)
      /\ loans[l].item = i /\ loans[l].quantity = quantity
      /\ loans[l].state = "OUT" /\ quantity \in Nat
  BY <1>1, ReturnFacts
<1>3. itemLock[i] = p /\ c # "LOST"
  BY <1>1 DEF LockInv, Holds, ItemSteps
<1>4. items' \in [Items -> ItemRow] /\ \A j \in Items : j # i => items'[j] = items[j]
  <2>1. items[i].available + quantity \in Int
    BY <1>2, TypeFacts DEF ItemRow
  <2> HIDE DEF quantity, i
  <2> QED BY <1>1, <1>2, <2>1, TypeFacts DEF ItemRow
<1>5. LockInv'
  BY <1>1, <1>2, <1>3, <1>4, CloseLoanStep
<1>6. Ledger!Return(l, c)
  BY <1>1, <1>2, <1>3 DEF Ledger!Return
<1>7. c \in Ledger!Conditions
  BY <1>2 DEF Ledger!Conditions, Conditions
<1> QED BY <1>2, <1>5, <1>6, <1>7 DEF LedgerMove, Ledger!Next

LEMMA LockStep == LockInv /\ [Next]_vars => LockInv' /\ LedgerMove
<1> SUFFICES ASSUME LockInv, [Next]_vars PROVE LockInv' /\ LedgerMove
  OBVIOUS
<1>1. CASE UNCHANGED vars
  <2>1. UNCHANGED <<items, loans, itemLock, loanLock, tx>>
    BY <1>1 DEF vars
  <2>2. TypeOK' /\ \A j \in Items : Ledger!OutOf(j)' = Ledger!OutOf(j)
    BY <2>1, TypeFacts, SameRows DEF TypeOK, Ledger!TypeOK, Ledger!OutOf
  <2>3. ASSUME NEW q \in Procs
        PROVE  Holds(q)'
    <3>1. Holds(q)
      BY DEF LockInv
    <3>2. Len(loans) <= Len(loans')
      BY <2>1, TypeFacts
    <3> QED BY <2>1, <2>2, <3>1, <3>2, OthersUndisturbed
  <2> QED BY <2>1, <2>2, <2>3 DEF LockInv, LedgerMove, Ledger!ledger
<1>2. CASE Next
  <2>1. PICK p \in Procs : Begin(p) \/ Proceed(p) \/ Rollback(p)
    BY <1>2 DEF Next
  <2>2. CASE Begin(p)
    BY <2>2, CreateInsertStep, UpdateLockStep, DeactivateLockStep, CheckoutLockStep,
       ReturnLockStep DEF Begin
  <2>3. CASE Proceed(p)
    BY <2>3, CreateCommitStep, UpdateCommitStep, DeactivateCountStep,
       DeactivateCommitStep, CheckoutCommitStep, ReturnLostStep,
       ReturnUpdateItemStep, ReturnCommitStep DEF Proceed
  <2>4. CASE Rollback(p)
    BY <2>4, RollbackStep DEF Rollback, LedgerMove, Ledger!ledger
  <2> QED BY <2>1, <2>2, <2>3, <2>4
<1> QED BY <1>1, <1>2

(* Type correctness of the transactions, and what each may rely on.        *)
THEOREM LockingCorrect == Spec => [](TypeOK /\ \A p \in Procs : Holds(p))
<1>1. Spec => []LockInv
  BY LockInit, LockStep, PTL DEF Spec
<1>2. LockInv <=> TypeOK /\ \A p \in Procs : Holds(p)
  BY DEF LockInv
<1> QED BY <1>1, <1>2, PTL

(* The interleaved row-locking transactions of inventory-service.js        *)
(* implement the ledger of whole operations, for any number of             *)
(* connections, items, loans and pieces.                                   *)
THEOREM ImplementsLedger == Spec => Serializable
<1>1. Init => Ledger!Init
  BY DEF Init
<1>2. LockInv /\ [Next]_vars => [Ledger!Next]_(Ledger!ledger)
  BY LockStep DEF LedgerMove
<1>3. Spec => []LockInv
  BY LockInit, LockStep, PTL DEF Spec
<1> QED BY <1>1, <1>2, <1>3, PTL DEF Spec, Serializable, Ledger!Spec

(* Hence the books balance, stock stays within 0..total and no loan is     *)
(* left on an inactive item, whatever the transactions interleave.         *)
THEOREM TransactionsSafe == Spec => []BooksKept
<1>1. Ledger!Spec => LP!Spec
  <2>1. Ledger!Init => LP!Init
    BY DEF Ledger!Init, LP!Init
  <2>2. [Ledger!Next]_(Ledger!ledger) => [LP!Next]_(LP!ledger)
    BY DEF Ledger!Next, LP!Next, Ledger!ledger, LP!ledger, Ledger!Create, LP!Create,
           Ledger!Update, LP!Update, Ledger!Deactivate, LP!Deactivate,
           Ledger!Checkout, LP!Checkout, Ledger!Return, LP!Return,
           Ledger!OutOf, LP!OutOf, Ledger!Conditions, LP!Conditions
  <2> QED BY <2>1, <2>2, PTL DEF Ledger!Spec, LP!Spec
<1>2. LP!Spec => [](LP!Conservation /\ LP!StockInBounds /\ LP!NoLoanLeftBehind)
  BY LP!LedgerSafe, LedgerBounds, PTL
<1>3. LP!Conservation => Ledger!Conservation
  BY DEF LP!Conservation, Ledger!Conservation, LP!WithheldTotal, Ledger!WithheldTotal,
         LP!Withheld, Ledger!Withheld, LP!SumOf, Ledger!SumOf, LP!PrefixSums,
         Ledger!PrefixSums
<1>4. /\ LP!StockInBounds => Ledger!StockInBounds
      /\ LP!NoLoanLeftBehind => Ledger!NoLoanLeftBehind
  BY DEF LP!StockInBounds, LP!NoLoanLeftBehind, LP!OutOf, Ledger!StockInBounds,
         Ledger!NoLoanLeftBehind, Ledger!OutOf
<1>5. LP!Conservation /\ LP!StockInBounds /\ LP!NoLoanLeftBehind => BooksKept
  BY <1>3, <1>4 DEF BooksKept
<1> QED BY <1>1, <1>2, <1>5, ImplementsLedger, PTL DEF Serializable
=============================================================================
