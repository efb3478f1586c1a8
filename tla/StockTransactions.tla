------------------------- MODULE StockTransactions -------------------------
(***************************************************************************)
(* The five transactions of src/services/inventory-service.js, statement   *)
(* by statement, as PostgreSQL runs them at READ COMMITTED: SELECT ... FOR  *)
(* UPDATE takes a row lock, waits while another transaction has it and      *)
(* then reads the newest committed row; writes become visible at COMMIT;    *)
(* an error, a timeout or a lost connection rolls everything back.          *)
(* items and loans are the committed rows.                                  *)
(***************************************************************************)
EXTENDS StockTables

CONSTANTS
    Procs,      \* database connections running a transaction
    NoProc      \* the holder of a row nobody has locked

ASSUME ProcsAssumption == NoProc \notin Procs

VARIABLES
    items, loans,
    itemLock,   \* itemLock[i]: who holds the row lock of item i
    loanLock,   \* loanLock[l]: who holds the row lock of loan l
    tx          \* tx[p]: the transaction of connection p, with what it read

vars == <<items, loans, itemLock, loanLock, tx>>

Ledger == INSTANCE StockLedger

(***************************************************************************)
(* A transaction is at a step; what it read or was given and the item and  *)
(* loan it has locked are fields that later statements use.                *)
(***************************************************************************)
Idle == [step |-> "idle"]

Transaction ==
         {Idle}
    \cup [step: {"create"}, item: Items, total: 0..MaxTotal]
    \cup [step: {"update"}, item: Items, total: 0..MaxTotal, unavailable: Int]
    \cup [step: {"deactivate", "counted"}, item: Items]
    \cup [step: {"checkout"}, item: Items, quantity: 1..MaxTotal]
    \cup [step: {"return", "restore"}, loan: 1..MaxLoans, item: Items,
          quantity: Nat, condition: Conditions]

TypeOK ==
    /\ Ledger!TypeOK
    /\ itemLock \in [Items -> Procs \cup {NoProc}]
    /\ loanLock \in [1..MaxLoans -> Procs \cup {NoProc}]
    /\ tx \in [Procs -> Transaction]

Init ==
    /\ Ledger!Init
    /\ itemLock = [i \in Items |-> NoProc]
    /\ loanLock = [l \in 1..MaxLoans |-> NoProc]
    /\ tx = [p \in Procs |-> Idle]

----------------------------------------------------------------------------
(* Row locks. *)

(* Mutant: a plain SELECT, without FOR UPDATE. *)
LockItemWithoutWaiting(p, i) == itemLock' = [itemLock EXCEPT ![i] = p]

LockItem(p, i) ==
    /\ itemLock[i] = NoProc
    /\ itemLock' = [itemLock EXCEPT ![i] = p]

Unlocked(locks, p) ==
    [r \in DOMAIN locks |-> IF locks[r] = p THEN NoProc ELSE locks[r]]

(* COMMIT and ROLLBACK both drop every lock of the transaction. *)
Release(p) ==
    /\ itemLock' = Unlocked(itemLock, p)
    /\ loanLock' = Unlocked(loanLock, p)
    /\ tx' = [tx EXCEPT ![p] = Idle]

----------------------------------------------------------------------------
(* createItem.  The uncommitted INSERT holds the key of the unique index:  *)
(* a second INSERT of the code waits for it.                               *)
CreateInsert(p, i, total) ==
    /\ tx[p] = Idle
    /\ items[i].status = "NONE"
    /\ LockItem(p, i)
    /\ tx' = [tx EXCEPT ![p] = [step |-> "create", item |-> i, total |-> total]]
    /\ UNCHANGED <<items, loans, loanLock>>

CreateCommit(p) ==
    /\ tx[p].step = "create"
    /\ items' = [items EXCEPT ![tx[p].item] =
                   [status |-> "ACTIVE", total |-> tx[p].total,
                    available |-> tx[p].total]]
    /\ Release(p)
    /\ UNCHANGED loans

(* updateItem: the locked row gives the unavailable quantity, the UPDATE   *)
(* writes both quantities as absolute values computed from that read.      *)
UpdateLock(p, i, total) ==
    LET unavailable == items[i].total - items[i].available IN
    /\ tx[p] = Idle
    /\ items[i].status = "ACTIVE"
    /\ total >= unavailable
    /\ LockItem(p, i)
    /\ tx' = [tx EXCEPT ![p] = [step |-> "update", item |-> i, total |-> total,
                                unavailable |-> unavailable]]
    /\ UNCHANGED <<items, loans, loanLock>>

(* Mutant: the available quantity is set to the new total. *)
UpdateCommitAllAvailable(p) ==
    /\ tx[p].step = "update"
    /\ items' = [items EXCEPT ![tx[p].item].total = tx[p].total,
                             ![tx[p].item].available = tx[p].total]
    /\ Release(p)
    /\ UNCHANGED loans

UpdateCommit(p) ==
    /\ tx[p].step = "update"
    /\ items' = [items EXCEPT
                   ![tx[p].item].total = tx[p].total,
                   ![tx[p].item].available = tx[p].total - tx[p].unavailable]
    /\ Release(p)
    /\ UNCHANGED loans

(* deactivateItem: lock the row, count the open loans, refuse or write the *)
(* status.                                                                 *)
DeactivateLock(p, i) ==
    /\ tx[p] = Idle
    /\ items[i].status = "ACTIVE"
    /\ LockItem(p, i)
    /\ tx' = [tx EXCEPT ![p] = [step |-> "deactivate", item |-> i]]
    /\ UNCHANGED <<items, loans, loanLock>>

(* Mutant: deactivateItem waits for the loans instead of refusing. *)
DeactivateCountWaiting(p) ==
    /\ tx[p].step = "deactivate"
    /\ Ledger!OutOf(tx[p].item) = {}
    /\ tx' = [tx EXCEPT ![p].step = "counted"]
    /\ UNCHANGED <<items, loans, itemLock, loanLock>>

DeactivateCount(p) ==
    /\ tx[p].step = "deactivate"
    /\ \/ /\ Ledger!OutOf(tx[p].item) = {}
          /\ tx' = [tx EXCEPT ![p].step = "counted"]
          /\ UNCHANGED <<itemLock, loanLock>>
       \/ /\ Ledger!OutOf(tx[p].item) # {}
          /\ Release(p)
    /\ UNCHANGED <<items, loans>>

DeactivateCommit(p) ==
    /\ tx[p].step = "counted"
    /\ items' = [items EXCEPT ![tx[p].item].status = "INACTIVE"]
    /\ Release(p)
    /\ UNCHANGED loans

(* checkoutItem: the check is on the row as it was locked, the UPDATE      *)
(* subtracts from the row as it is.                                        *)
CheckoutLock(p, i, quantity) ==
    /\ tx[p] = Idle
    /\ items[i].status = "ACTIVE"
    /\ items[i].available >= quantity
    /\ LockItem(p, i)
    /\ tx' = [tx EXCEPT ![p] = [step |-> "checkout", item |-> i,
                                quantity |-> quantity]]
    /\ UNCHANGED <<items, loans, loanLock>>

CheckoutCommit(p) ==
    /\ tx[p].step = "checkout"
    /\ Len(loans) < MaxLoans
    /\ loans' = Append(loans, [item |-> tx[p].item, quantity |-> tx[p].quantity,
                               state |-> "OUT"])
    /\ items' = [items EXCEPT ![tx[p].item].available = @ - tx[p].quantity]
    /\ Release(p)

(* returnItem: the loan row is locked first; only a return that restores   *)
(* something goes on to the item row, whose status it never looks at.      *)
ReturnLock(p, l, condition) ==
    /\ tx[p] = Idle
    /\ loanLock[l] = NoProc
    /\ loans[l].state = "OUT"
    /\ loanLock' = [loanLock EXCEPT ![l] = p]
    /\ tx' = [tx EXCEPT ![p] =
                [step |-> "return", loan |-> l, item |-> loans[l].item,
                 quantity |-> loans[l].quantity, condition |-> condition]]
    /\ UNCHANGED <<items, loans, itemLock>>

ReturnLost(p) ==
    /\ tx[p].step = "return"
    /\ tx[p].condition = "LOST"
    /\ loans' = [loans EXCEPT ![tx[p].loan].state = "LOST"]
    /\ Release(p)
    /\ UNCHANGED items

ReturnUpdateItem(p) ==
    /\ tx[p].step = "return"
    /\ tx[p].condition # "LOST"
    /\ LockItem(p, tx[p].item)
    /\ tx' = [tx EXCEPT ![p].step = "restore"]
    /\ UNCHANGED <<items, loans, loanLock>>

ReturnCommit(p) ==
    /\ tx[p].step = "restore"
    /\ loans' = [loans EXCEPT ![tx[p].loan].state = tx[p].condition]
    /\ items' = [items EXCEPT ![tx[p].item].available = @ + tx[p].quantity]
    /\ Release(p)

(* Any error, statement_timeout or dropped connection: ROLLBACK. *)
Rollback(p) ==
    /\ tx[p] # Idle
    /\ Release(p)
    /\ UNCHANGED <<items, loans>>

----------------------------------------------------------------------------
Begin(p) ==
    \/ \E i \in Items, total \in 0..MaxTotal :
          CreateInsert(p, i, total) \/ UpdateLock(p, i, total)
    \/ \E i \in Items : DeactivateLock(p, i)
    \/ \E i \in Items, quantity \in 1..MaxTotal : CheckoutLock(p, i, quantity)
    \/ \E l \in 1..Len(loans), condition \in Conditions : ReturnLock(p, l, condition)

(* The statements a started transaction still has to run. *)
Proceed(p) ==
    \/ CreateCommit(p)
    \/ UpdateCommit(p)
    \/ DeactivateCount(p)
    \/ DeactivateCommit(p)
    \/ CheckoutCommit(p)
    \/ ReturnLost(p)
    \/ ReturnUpdateItem(p)
    \/ ReturnCommit(p)

Next == \E p \in Procs : Begin(p) \/ Proceed(p) \/ Rollback(p)

(* A started transaction is driven on, as each handler awaits its next     *)
(* statement; PostgreSQL queues the waiters of a row lock, so a return is  *)
(* not overtaken for ever.  Nobody is obliged to start a transaction, and  *)
(* nothing relies on statement_timeout: a rollback happens or does not.    *)
(* At the bound MaxLoans, where the model has no loan id left, a checkout  *)
(* is rolled back.                                                         *)
Fairness ==
    \A p \in Procs :
        /\ WF_vars(Proceed(p))
        /\ SF_vars(ReturnUpdateItem(p))
        /\ WF_vars(tx[p].step = "checkout" /\ Len(loans) = MaxLoans /\ Rollback(p))

Spec == Init /\ [][Next]_vars

FairSpec == Spec /\ Fairness

----------------------------------------------------------------------------
(* Row locks make the interleaved transactions look like whole operations: *)
(* every behaviour is one of the abstract ledger.                          *)
Serializable == Ledger!Spec

(* What the ledger promises of its tables holds between any two statements *)
(* of the interleaved transactions: the quantities of an item and its      *)
(* loans balance, the CHECK constraints of the items table are never what  *)
(* saves the day, and no loan slips in between the count of deactivateItem *)
(* and the status it writes.                                               *)
BooksKept == Ledger!Conservation /\ Ledger!StockInBounds /\ Ledger!NoLoanLeftBehind

(* The order in which the services take their row locks has no cycle and   *)
(* every COMMIT drops them: without any timeout each transaction ends and  *)
(* its connection goes back to the pool.                                   *)
ConnectionsComeBack == \A p \in Procs : tx[p] # Idle ~> tx[p] = Idle
=============================================================================
