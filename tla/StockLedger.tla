---------------------------- MODULE StockLedger ----------------------------
(***************************************************************************)
(* What the legacy loan ledger promises, whatever runs concurrently: the   *)
(* table of items and the table of loans change by one whole operation at  *)
(* a time.  StockTransactions, the row-locking transactions of             *)
(* src/services/inventory-service.js, is shown to implement this module.   *)
(***************************************************************************)
EXTENDS StockTables, Sums

VARIABLES
    items,      \* items[i]: the row of item i ("NONE": no such row)
    loans       \* loans[l]: the row of the loan with id l, in id order

ledger == <<items, loans>>

TypeOK ==
    /\ items \in [Items -> ItemRow]
    /\ loans \in Seq(LoanRow)
    /\ Len(loans) <= MaxLoans

(***************************************************************************)
(* Helpers.                                                                *)
(***************************************************************************)
OutOf(i) == {l \in 1..Len(loans) : loans[l].item = i /\ loans[l].state = "OUT"}

(* What loan l keeps away from the shelf of item i: its quantity while it  *)
(* is out, and for good when it came back LOST.                            *)
Withheld(i, l) ==
    IF l <= Len(loans) /\ loans[l].item = i /\ loans[l].state \in {"OUT", "LOST"}
    THEN loans[l].quantity ELSE 0

(* The pieces of item i that are not on the shelf, over all loans. *)
WithheldTotal(i) == SumOf([l \in 1..MaxLoans |-> Withheld(i, l)], MaxLoans)

----------------------------------------------------------------------------
Init ==
    /\ items = [i \in Items |-> [status |-> "NONE", total |-> 0, available |-> 0]]
    /\ loans = <<>>

Create(i, total) ==
    /\ items[i].status = "NONE"
    /\ items' = [items EXCEPT ![i] =
                   [status |-> "ACTIVE", total |-> total, available |-> total]]
    /\ UNCHANGED loans

Update(i, total) ==
    LET unavailable == items[i].total - items[i].available IN
    /\ items[i].status = "ACTIVE"
    /\ total >= unavailable
    /\ items' = [items EXCEPT ![i].total = total,
                              ![i].available = total - unavailable]
    /\ UNCHANGED loans

Deactivate(i) ==
    /\ items[i].status = "ACTIVE"
    /\ OutOf(i) = {}
    /\ items' = [items EXCEPT ![i].status = "INACTIVE"]
    /\ UNCHANGED loans

Checkout(i, quantity) ==
    /\ items[i].status = "ACTIVE"
    /\ quantity <= items[i].available
    /\ Len(loans) < MaxLoans
    /\ loans' = Append(loans, [item |-> i, quantity |-> quantity, state |-> "OUT"])
    /\ items' = [items EXCEPT ![i].available = @ - quantity]

Return(l, condition) ==
    LET restored == IF condition = "LOST" THEN 0 ELSE loans[l].quantity IN
    /\ loans[l].state = "OUT"
    /\ loans' = [loans EXCEPT ![l].state = condition]
    /\ items' = [items EXCEPT ![loans[l].item].available = @ + restored]

Next ==
    \/ \E i \in Items, total \in 0..MaxTotal : Create(i, total) \/ Update(i, total)
    \/ \E i \in Items : Deactivate(i)
    \/ \E i \in Items, quantity \in 1..MaxTotal : Checkout(i, quantity)
    \/ \E l \in 1..Len(loans), condition \in Conditions : Return(l, condition)

Spec == Init /\ [][Next]_ledger

----------------------------------------------------------------------------
(* The books balance: of every item, exactly what is out on loan or was    *)
(* lost is missing from the shelf (items.available_quantity, which         *)
(* checkoutItem, returnItem and updateItem each maintain on their own).    *)
Conservation ==
    \A i \in Items :
        items[i].total - items[i].available = WithheldTotal(i)

(* The CHECK constraints of the items table never have to fire: no         *)
(* interleaving of the services drives a quantity out of 0..total.         *)
StockInBounds ==
    \A i \in Items : items[i].available \in 0..items[i].total

(* deactivateItem promises that an item that is out on loan stays active:  *)
(* no loan is ever left behind on an INACTIVE item.                        *)
NoLoanLeftBehind ==
    \A i \in Items : items[i].status = "INACTIVE" => OutOf(i) = {}
=============================================================================
