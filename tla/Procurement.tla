---------------------------- MODULE Procurement ----------------------------
(***************************************************************************)
(* Purchase order, partial receipts and inspection                         *)
(* (src/services/enterprise-service.js, createPurchaseOrder, createReceipt *)
(* and inspectReceipt), as concurrent transactions.  All three lock the    *)
(* row of the purchase request, alone or with rows that hang from it, so   *)
(* one lock per request stands for all their row locks.  A request has at  *)
(* most one order (uq_purchase_orders_request): the order is a column of   *)
(* the request here.                                                       *)
(***************************************************************************)
EXTENDS Integers, Sequences, Sums

CONSTANTS
    Requests,       \* purchase requests
    Procs,          \* database connections
    NoProc,         \* the holder of a row nobody has locked
    MaxReceipts,    \* bound: how many receipts are ever recorded
    MaxQuantity     \* bound: the largest quantity requested or received

ASSUME ProcurementAssumption ==
    /\ NoProc \notin Procs
    /\ MaxReceipts \in Nat
    /\ MaxQuantity \in Nat

VARIABLES
    requests,   \* requests[q]: is it approved, and the quantity of its payload
    orders,     \* orders[q]: the status of its purchase order, or "NONE"
    receipts,   \* rows of receipts in id order
    assets,     \* assets[n]: how many assets the inspection of receipt n made
    lock,       \* lock[q]: who has locked the rows of request q
    tx          \* tx[p]: the transaction of connection p, with what it read

vars == <<requests, orders, receipts, assets, lock, tx>>

OrderStatus == {"NONE", "ORDERED", "PARTIAL_RECEIVED", "RECEIVED"}

Receipt == [order: Requests, quantity: Nat,
            status: {"INSPECTION_PENDING", "ACCEPTED", "REJECTED"}]

Results == {"PASS", "FAIL", "CONDITIONAL"}

Idle == [step |-> "idle"]

Transaction ==
         {Idle}
    \cup [step: {"order"}, request: Requests]
    \cup [step: {"receive"}, request: Requests, quantity: Nat, cumulative: Int]
    \cup [step: {"inspect"}, request: Requests, receipt: 1..MaxReceipts,
          quantity: Nat, result: Results]

TypeOK ==
    /\ requests \in [Requests -> [approved: BOOLEAN, quantity: Nat]]
    /\ orders \in [Requests -> OrderStatus]
    /\ receipts \in Seq(Receipt)
    /\ Len(receipts) <= MaxReceipts
    /\ assets \in [1..MaxReceipts -> Nat]
    /\ lock \in [Requests -> Procs \cup {NoProc}]
    /\ tx \in [Procs -> Transaction]

(***************************************************************************)
(* Helpers: quantities of one order, by receipt.                           *)
(***************************************************************************)
QuantityOf(q, n) ==
    IF n <= Len(receipts) /\ receipts[n].order = q THEN receipts[n].quantity ELSE 0

(* The sum createReceipt takes counts every receipt, REJECTED ones too. *)
Received(q) == SumOf([n \in 1..MaxReceipts |-> QuantityOf(q, n)], MaxReceipts)

Init ==
    /\ requests \in [Requests -> [approved: {FALSE}, quantity: 1..MaxQuantity]]
    /\ orders = [q \in Requests |-> "NONE"]
    /\ receipts = <<>>
    /\ assets = [n \in 1..MaxReceipts |-> 0]
    /\ lock = [q \in Requests |-> NoProc]
    /\ tx = [p \in Procs |-> Idle]

(* transitionRequest gives the last approval; it locks the request too. *)
Approve(q) ==
    /\ lock[q] = NoProc
    /\ ~requests[q].approved
    /\ requests' = [requests EXCEPT ![q].approved = TRUE]
    /\ UNCHANGED <<orders, receipts, assets, lock, tx>>

----------------------------------------------------------------------------
(* Mutant of Locked: FOR UPDATE is missing. *)
LockedByMany(p, q, transaction) ==
    /\ tx[p] = Idle
    /\ lock' = [lock EXCEPT ![q] = p]
    /\ tx' = [tx EXCEPT ![p] = transaction]
    /\ UNCHANGED <<requests, orders, receipts, assets>>

Locked(p, q, transaction) ==
    /\ tx[p] = Idle
    /\ lock[q] = NoProc
    /\ lock' = [lock EXCEPT ![q] = p]
    /\ tx' = [tx EXCEPT ![p] = transaction]
    /\ UNCHANGED <<requests, orders, receipts, assets>>

(* COMMIT and ROLLBACK. *)
Release(p) ==
    /\ lock' = [q \in Requests |-> IF lock[q] = p THEN NoProc ELSE lock[q]]
    /\ tx' = [tx EXCEPT ![p] = Idle]

(* createPurchaseOrder *)
OrderLock(p, q) ==
    /\ requests[q].approved
    /\ Locked(p, q, [step |-> "order", request |-> q])

OrderCommit(p) ==
    /\ tx[p].step = "order"
    /\ orders[tx[p].request] = "NONE"       \* or the unique index rolls it back
    /\ orders' = [orders EXCEPT ![tx[p].request] = "ORDERED"]
    /\ Release(p)
    /\ UNCHANGED <<requests, receipts, assets>>

(* createReceipt: lock, then sum what has been received. *)
ReceiveLock(p, q, quantity) ==
    LET cumulative == Received(q) + quantity IN
    /\ orders[q] # "NONE"
    /\ cumulative <= requests[q].quantity
    /\ Locked(p, q, [step |-> "receive", request |-> q, quantity |-> quantity,
                     cumulative |-> cumulative])

ReceiveCommit(p) ==
    LET q == tx[p].request IN
    /\ tx[p].step = "receive"
    /\ Len(receipts) < MaxReceipts
    /\ receipts' = Append(receipts, [order |-> q, quantity |-> tx[p].quantity,
                                     status |-> "INSPECTION_PENDING"])
    /\ orders' = [orders EXCEPT ![q] = IF tx[p].cumulative = requests[q].quantity
                                       THEN "RECEIVED" ELSE "PARTIAL_RECEIVED"]
    /\ Release(p)
    /\ UNCHANGED <<requests, assets>>

(* inspectReceipt: only a pass makes assets, one for every piece.  The      *)
(* unique index on the receipt of an inspection is a second defence, which *)
(* is left out: the row locks and the status do without it.                *)
InspectLock(p, n, result) ==
    /\ receipts[n].status = "INSPECTION_PENDING"
    /\ Locked(p, receipts[n].order,
              [step |-> "inspect", request |-> receipts[n].order, receipt |-> n,
               quantity |-> receipts[n].quantity, result |-> result])

(* Mutant of InspectCommit: assets for all that was requested. *)
InspectCommitRequested(p) ==
    LET n == tx[p].receipt
        passed == tx[p].result = "PASS"
    IN
    /\ tx[p].step = "inspect"
    /\ receipts' = [receipts EXCEPT ![n].status = IF passed THEN "ACCEPTED" ELSE "REJECTED"]
    /\ assets' = [assets EXCEPT ![n] = IF passed THEN requests[tx[p].request].quantity ELSE @]
    /\ Release(p)
    /\ UNCHANGED <<requests, orders>>

InspectCommit(p) ==
    LET n == tx[p].receipt
        passed == tx[p].result = "PASS"
    IN
    /\ tx[p].step = "inspect"
    /\ receipts' = [receipts EXCEPT ![n].status = IF passed THEN "ACCEPTED" ELSE "REJECTED"]
    /\ assets' = [assets EXCEPT ![n] = IF passed THEN @ + tx[p].quantity ELSE @]
    /\ Release(p)
    /\ UNCHANGED <<requests, orders>>

Rollback(p) ==
    /\ tx[p] # Idle
    /\ Release(p)
    /\ UNCHANGED <<requests, orders, receipts, assets>>

Next ==
    \/ \E q \in Requests : Approve(q)
    \/ \E p \in Procs :
          \/ \E q \in Requests : OrderLock(p, q)
          \/ OrderCommit(p)
          \/ \E q \in Requests, quantity \in 1..MaxQuantity : ReceiveLock(p, q, quantity)
          \/ ReceiveCommit(p)
          \/ \E n \in 1..Len(receipts), result \in Results : InspectLock(p, n, result)
          \/ InspectCommit(p)
          \/ Rollback(p)

Spec == Init /\ [][Next]_vars

----------------------------------------------------------------------------
(* Whatever receipts arrive at the same time, no order receives more than  *)
(* was requested, and its status says how much that is.                    *)
NeverOverReceived ==
    \A q \in Requests :
        /\ Received(q) <= requests[q].quantity
        /\ orders[q] = "RECEIVED" => Received(q) = requests[q].quantity
        /\ orders[q] = "PARTIAL_RECEIVED" => Received(q) \in 1..(requests[q].quantity - 1)
        /\ orders[q] \in {"NONE", "ORDERED"} => Received(q) = 0

(* Assets come from passed inspections only, a piece is turned into an     *)
(* asset once, and nothing is received on an order nobody approved.        *)
AssetsMatchReceipts ==
    /\ \A n \in 1..MaxReceipts :
          assets[n] = IF n <= Len(receipts) /\ receipts[n].status = "ACCEPTED"
                      THEN receipts[n].quantity ELSE 0
    /\ \A q \in Requests : orders[q] # "NONE" => requests[q].approved

(* A receipt is inspected once, and a verdict is never revised. *)
VerdictsAreFinal ==
    [][\A n \in 1..Len(receipts) :
          receipts[n].status # "INSPECTION_PENDING" =>
             receipts'[n] = receipts[n] /\ assets'[n] = assets[n]]_vars
=============================================================================
