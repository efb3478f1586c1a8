-------------------------- MODULE Delivery_proofs ---------------------------
(***************************************************************************)
(* What is delivered: goods against purchase orders, and events out of the *)
(* outbox.  The two share no state.                                        *)
(***************************************************************************)
EXTENDS Procurement, Outbox, Sums_proofs, SequenceTheorems

(***************************************************************************)
(* Orders, receipts and inspections for any number of requests,            *)
(* connections and receipts.  As in the stock ledger, what a transaction   *)
(* computed from the rows it read is still right when it commits, because  *)
(* it holds their lock: that is the strengthening the invariants need.     *)
(***************************************************************************)

(* What connection p may rely on at the step it is at. *)
Holds(p) ==
    LET t == tx[p] IN
    /\ t.step # "idle" => lock[t.request] = p
    /\ t.step = "order" => requests[t.request].approved
    /\ t.step = "receive" =>
          /\ orders[t.request] # "NONE"
          /\ t.quantity >= 1
          /\ t.cumulative = Received(t.request) + t.quantity
          /\ t.cumulative <= requests[t.request].quantity
    /\ t.step = "inspect" =>
          /\ t.receipt \in 1..Len(receipts)
          /\ receipts[t.receipt].order = t.request
          /\ receipts[t.receipt].quantity = t.quantity
          /\ receipts[t.receipt].status = "INSPECTION_PENDING"

BooksInv ==
    /\ TypeOK
    /\ NeverOverReceived
    /\ AssetsMatchReceipts
    /\ \A p \in Procs : Holds(p)

----------------------------------------------------------------------------
(* The receipts of order q in a table of receipts, and their sum. *)
Column(rows, q) ==
    [n \in 1..MaxReceipts |->
       IF n <= Len(rows) /\ rows[n].order = q THEN rows[n].quantity ELSE 0]

Total(rows, q) == SumOf(Column(rows, q), MaxReceipts)

LEMMA ReceivedIsTotal ==
  ASSUME NEW q
  PROVE  Received(q) = Total(receipts, q)
BY DEF Received, QuantityOf, Total, Column

LEMMA ColumnType ==
  ASSUME NEW rows \in Seq(Receipt), NEW q
  PROVE  /\ Column(rows, q) \in [1..MaxReceipts -> Int]
         /\ \A n \in 1..MaxReceipts : Column(rows, q)[n] >= 0
         /\ Total(rows, q) \in Nat
<1>1. \A n \in 1..MaxReceipts : n <= Len(rows) => rows[n] \in Receipt
  BY ProcurementAssumption
<1>2. \A n \in 1..MaxReceipts : n <= Len(rows) => rows[n].quantity \in Nat
  BY <1>1 DEF Receipt
<1>3. \A n \in 1..MaxReceipts : Column(rows, q)[n] \in Nat
  BY <1>2 DEF Column
<1>4. /\ Column(rows, q) \in [1..MaxReceipts -> Int]
      /\ \A n \in 1..MaxReceipts : Column(rows, q)[n] >= 0
  BY <1>3 DEF Column
<1> QED BY <1>4, SumOfType, ProcurementAssumption DEF Total

(* One more receipt adds its quantity to its order and to no other. *)
LEMMA TotalAppend ==
  ASSUME NEW rows \in Seq(Receipt), NEW line \in Receipt, Len(rows) < MaxReceipts, NEW q
  PROVE  Total(Append(rows, line), q) =
           IF line.order = q THEN Total(rows, q) + line.quantity ELSE Total(rows, q)
<1> DEFINE more == Append(rows, line)
           r == Len(rows) + 1
           w == Column(rows, q)
           v == Column(more, q)
<1>1. /\ more \in Seq(Receipt) /\ Len(more) = r /\ more[r] = line
      /\ \A n \in 1..Len(rows) : more[n] = rows[n]
      /\ r \in 1..MaxReceipts
  BY ProcurementAssumption
<1>2. w \in [1..MaxReceipts -> Int] /\ v \in [1..MaxReceipts -> Int]
  BY <1>1, ColumnType
<1>3. \A n \in 1..MaxReceipts : n # r => v[n] = w[n]
  <2> HIDE DEF more
  <2> QED BY <1>1 DEF Column
<1>4. line.quantity \in Int
  BY DEF Receipt
<1>5. w[r] = 0 /\ v[r] = IF line.order = q THEN line.quantity ELSE 0
  <2> HIDE DEF more
  <2> QED BY <1>1 DEF Column
<1>6. CASE line.order = q
  <2>1. v[r] = w[r] + line.quantity
    BY <1>4, <1>5, <1>6
  <2>2. SumOf(v, MaxReceipts) = SumOf(w, MaxReceipts) + line.quantity
    <3> HIDE DEF w, v, r
    <3> QED BY <1>1, <1>2, <1>3, <1>4, <2>1, SumOfChange, ProcurementAssumption
  <2> QED BY <2>2, <1>6 DEF Total
<1>7. CASE line.order # q
  <2>1. \A n \in 1..MaxReceipts : v[n] = w[n]
    BY <1>3, <1>5, <1>7
  <2>2. SumOf(v, MaxReceipts) = SumOf(w, MaxReceipts)
    <3> HIDE DEF w, v
    <3> QED BY <1>2, <2>1, SumOfEqual, ProcurementAssumption
  <2> QED BY <2>2, <1>7 DEF Total
<1> QED BY <1>6, <1>7

(* A verdict changes no quantity. *)
LEMMA TotalSame ==
  ASSUME NEW rows \in Seq(Receipt), NEW more \in Seq(Receipt), Len(more) = Len(rows),
         \A n \in 1..Len(rows) : /\ more[n].order = rows[n].order
                                 /\ more[n].quantity = rows[n].quantity,
         NEW q
  PROVE  Total(more, q) = Total(rows, q)
<1>1. \A n \in 1..MaxReceipts : Column(more, q)[n] = Column(rows, q)[n]
  BY DEF Column
<1> QED BY <1>1, ColumnType, SumOfEqual, ProcurementAssumption DEF Total

(* The step of a transaction tells which fields it has. *)
LEMMA TransactionShape ==
  ASSUME NEW t \in Transaction
  PROVE  /\ t.step = "idle" => t = Idle
         /\ t.step # "idle" => t.request \in Requests
         /\ t.step \in {"idle", "order", "receive", "inspect"}
         /\ t.step = "receive" => t.quantity \in Nat /\ t.cumulative \in Int
         /\ t.step = "inspect" =>
               /\ t.receipt \in 1..MaxReceipts
               /\ t.quantity \in Nat
               /\ t.result \in Results
BY DEF Transaction, Idle

LEMMA BooksInit == Init => BooksInv
<1> SUFFICES ASSUME Init PROVE BooksInv
  OBVIOUS
<1>1. receipts = <<>> /\ Len(receipts) = 0 /\ receipts \in Seq(Receipt)
  BY DEF Init
<1>2. requests \in [Requests -> [approved: BOOLEAN, quantity: Nat]]
  <2> DEFINE Few == 1..MaxQuantity
  <2>1. requests \in [Requests -> [approved: {FALSE}, quantity: Few]]
    BY DEF Init
  <2>2. Few \subseteq Nat
    BY ProcurementAssumption
  <2> HIDE DEF Few
  <2> QED BY <2>1, <2>2
<1>3. TypeOK
  BY <1>1, <1>2, ProcurementAssumption DEF Init, TypeOK, OrderStatus, Transaction
<1>4. ASSUME NEW q \in Requests PROVE Received(q) = 0
  <2>1. \A n \in 1..MaxReceipts : Column(receipts, q)[n] = 0
    BY <1>1, ProcurementAssumption DEF Column
  <2> QED BY <1>1, <2>1, ColumnType, SumOfType, ReceivedIsTotal, ProcurementAssumption
          DEF Total
<1>5. NeverOverReceived
  <2>1. \A q \in Requests : requests[q].quantity \in Nat /\ orders[q] = "NONE"
    BY <1>2 DEF Init
  <2> QED BY <1>4, <2>1 DEF NeverOverReceived
<1>6. AssetsMatchReceipts
  BY <1>1 DEF Init, AssetsMatchReceipts
<1>7. \A p \in Procs : Holds(p)
  BY DEF Init, Idle, Holds
<1> QED BY <1>3, <1>5, <1>6, <1>7 DEF BooksInv

----------------------------------------------------------------------------
LEMMA TypeFacts ==
  ASSUME BooksInv
  PROVE  /\ TypeOK
         /\ requests \in [Requests -> [approved: BOOLEAN, quantity: Nat]]
         /\ orders \in [Requests -> OrderStatus]
         /\ receipts \in Seq(Receipt)
         /\ Len(receipts) \in Nat /\ Len(receipts) <= MaxReceipts
         /\ assets \in [1..MaxReceipts -> Nat]
         /\ lock \in [Requests -> Procs \cup {NoProc}]
         /\ tx \in [Procs -> Transaction]
BY DEF BooksInv, TypeOK

(* A step of another connection leaves q in charge of its rows. *)
LEMMA OthersHold ==
  ASSUME BooksInv, TypeOK', NEW q \in Procs, tx'[q] = tx[q],
         \A r \in Requests : lock[r] = q =>
             /\ lock'[r] = q
             /\ requests'[r] = requests[r]
             /\ orders'[r] = orders[r]
             /\ Received(r)' = Received(r),
         \A n \in 1..Len(receipts) : lock[receipts[n].order] = q => receipts'[n] = receipts[n],
         Len(receipts) <= Len(receipts')
  PROVE  Holds(q)'
<1>1. tx[q] \in Transaction /\ Holds(q)
  BY DEF BooksInv, TypeOK
<1>2. Len(receipts) \in Nat /\ Len(receipts') \in Nat
  BY DEF BooksInv, TypeOK
<1>3. CASE tx[q].step = "idle"
  BY <1>1, <1>3 DEF Holds
<1>4. CASE tx[q].step = "order"
  BY <1>1, <1>4, TransactionShape DEF Holds
<1>5. CASE tx[q].step = "receive"
  <2>1. tx[q].request \in Requests /\ lock[tx[q].request] = q
    BY <1>1, <1>5, TransactionShape DEF Holds
  <2> QED BY <1>1, <1>5, <2>1 DEF Holds
<1>6. CASE tx[q].step = "inspect"
  <2>1. tx[q].request \in Requests /\ lock[tx[q].request] = q
    BY <1>1, <1>6, TransactionShape DEF Holds
  <2>2. tx[q].receipt \in 1..Len(receipts) /\ receipts[tx[q].receipt].order = tx[q].request
    BY <1>1, <1>6 DEF Holds
  <2>3. receipts'[tx[q].receipt] = receipts[tx[q].receipt] /\ tx[q].receipt \in 1..Len(receipts')
    BY <1>2, <2>1, <2>2
  <2> QED BY <1>1, <1>6, <2>1, <2>3 DEF Holds
<1> QED BY <1>1, <1>3, <1>4, <1>5, <1>6, TransactionShape

(* COMMIT and ROLLBACK: p is idle again, the others keep what they have. *)
LEMMA ReleaseStep ==
  ASSUME BooksInv, NEW p \in Procs, Release(p)
  PROVE  /\ lock' \in [Requests -> Procs \cup {NoProc}]
         /\ tx' \in [Procs -> Transaction]
         /\ Holds(p)'
         /\ \A q \in Procs : q # p => tx'[q] = tx[q]
         /\ \A r \in Requests : lock[r] # p => lock'[r] = lock[r]
<1>1. Idle \in Transaction
  BY DEF Transaction
<1>2. tx' = [tx EXCEPT ![p] = Idle]
  BY DEF Release
<1>3. tx' \in [Procs -> Transaction] /\ tx'[p] = Idle
  BY <1>1, <1>2, TypeFacts
<1>4. Holds(p)'
  BY <1>3 DEF Holds, Idle
<1> QED BY <1>2, <1>3, <1>4, TypeFacts DEF Release

(* FOR UPDATE by p, which computes from the rows what its transaction says. *)
LEMMA LockedStep ==
  ASSUME BooksInv, NEW p \in Procs, NEW r \in Requests, NEW t \in Transaction,
         t.step # "idle", t.request = r, Locked(p, r, t),
         t.step = "order" => requests[r].approved,
         t.step = "receive" =>
            /\ orders[r] # "NONE"
            /\ t.quantity >= 1
            /\ t.cumulative = Received(r) + t.quantity
            /\ t.cumulative <= requests[r].quantity,
         t.step = "inspect" =>
            /\ t.receipt \in 1..Len(receipts)
            /\ receipts[t.receipt].order = r
            /\ receipts[t.receipt].quantity = t.quantity
            /\ receipts[t.receipt].status = "INSPECTION_PENDING"
  PROVE  BooksInv'
<1>1. /\ lock' = [lock EXCEPT ![r] = p] /\ tx' = [tx EXCEPT ![p] = t]
      /\ lock[r] = NoProc
      /\ UNCHANGED <<requests, orders, receipts, assets>>
  BY DEF Locked
<1>2. /\ lock' \in [Requests -> Procs \cup {NoProc}] /\ lock'[r] = p
      /\ tx' \in [Procs -> Transaction] /\ tx'[p] = t
      /\ \A q \in Procs : q # p => tx'[q] = tx[q]
      /\ \A x \in Requests : x # r => lock'[x] = lock[x]
  BY <1>1, TypeFacts
<1>3. TypeOK'
  BY <1>1, <1>2, TypeFacts DEF TypeOK
<1>4. \A x : Received(x)' = Received(x)
  BY <1>1 DEF Received, QuantityOf
<1>5. NeverOverReceived' /\ AssetsMatchReceipts'
  BY <1>1, <1>4 DEF BooksInv, NeverOverReceived, AssetsMatchReceipts
<1>6. Holds(p)'
  BY <1>1, <1>2, <1>4 DEF Holds
<1>7. ASSUME NEW q \in Procs, q # p PROVE Holds(q)'
  <2>1. \A x \in Requests : lock[x] = q => lock'[x] = q
    BY <1>1, <1>2, ProcurementAssumption
  <2>2. tx'[q] = tx[q] /\ Len(receipts) <= Len(receipts')
    BY <1>1, <1>2, <1>7, TypeFacts
  <2> QED BY <1>1, <1>3, <1>4, <2>1, <2>2, OthersHold
<1> QED BY <1>3, <1>5, <1>6, <1>7 DEF BooksInv

(* The three ways to take a lock compute the right things. *)
LEMMA LocksAreRight ==
  ASSUME BooksInv, NEW p \in Procs
  PROVE  /\ \A q \in Requests : OrderLock(p, q) => BooksInv'
         /\ \A q \in Requests, quantity \in 1..MaxQuantity :
               ReceiveLock(p, q, quantity) => BooksInv'
         /\ \A n \in 1..Len(receipts), result \in Results :
               InspectLock(p, n, result) => BooksInv'
<1>1. ASSUME NEW q \in Requests, OrderLock(p, q) PROVE BooksInv'
  <2> DEFINE t == [step |-> "order", request |-> q]
  <2>1. t \in Transaction /\ t.step = "order" /\ t.request = q
    BY DEF Transaction
  <2>2. requests[q].approved /\ Locked(p, q, t)
    BY <1>1 DEF OrderLock
  <2> HIDE DEF t
  <2> QED BY <2>1, <2>2, LockedStep
<1>2. ASSUME NEW q \in Requests, NEW quantity \in 1..MaxQuantity, ReceiveLock(p, q,
                                                                              quantity)
      PROVE  BooksInv'
  <2> DEFINE t == [step |-> "receive", request |-> q, quantity |-> quantity,
                   cumulative |-> Received(q) + quantity]
  <2>1. Received(q) \in Nat
    BY ColumnType, ReceivedIsTotal, TypeFacts
  <2>2. quantity \in Nat /\ Received(q) + quantity \in Int
    BY <2>1, ProcurementAssumption
  <2>3. t \in Transaction
    BY <2>2 DEF Transaction
  <2>4. /\ t.step = "receive" /\ t.request = q /\ t.quantity = quantity
        /\ t.cumulative = Received(q) + quantity
    OBVIOUS
  <2>5. /\ Locked(p, q, t)
        /\ orders[q] # "NONE" /\ t.cumulative <= requests[q].quantity
    BY <1>2 DEF ReceiveLock
  <2>6. quantity >= 1
    BY ProcurementAssumption
  <2> HIDE DEF t
  <2> QED BY <2>3, <2>4, <2>5, <2>6, LockedStep
<1>3. ASSUME NEW n \in 1..Len(receipts), NEW result \in Results, InspectLock(p, n, result)
      PROVE  BooksInv'
  <2> DEFINE t == [step |-> "inspect", request |-> receipts[n].order, receipt |-> n,
                   quantity |-> receipts[n].quantity, result |-> result]
  <2>1. receipts[n] \in Receipt /\ n \in 1..MaxReceipts
    BY TypeFacts, ProcurementAssumption
  <2>2. receipts[n].order \in Requests /\ receipts[n].quantity \in Nat
    BY <2>1 DEF Receipt
  <2>3. t \in Transaction
    BY <2>1, <2>2 DEF Transaction
  <2>4. /\ t.step = "inspect" /\ t.request = receipts[n].order /\ t.receipt = n
        /\ t.quantity = receipts[n].quantity
    OBVIOUS
  <2>5. receipts[n].status = "INSPECTION_PENDING" /\ Locked(p, receipts[n].order, t)
    BY <1>3 DEF InspectLock
  <2> HIDE DEF t
  <2> QED BY <2>2, <2>3, <2>4, <2>5, LockedStep
<1> QED BY <1>1, <1>2, <1>3

(* The last approval changes nothing that anyone relies on. *)
LEMMA ApproveStep ==
  ASSUME BooksInv, NEW q \in Requests, Approve(q)
  PROVE  BooksInv'
<1>1. /\ requests' = [requests EXCEPT ![q].approved = TRUE]
      /\ lock[q] = NoProc
      /\ UNCHANGED <<orders, receipts, assets, lock, tx>>
  BY DEF Approve
<1>2. requests[q] \in [approved: BOOLEAN, quantity: Nat]
  BY TypeFacts
<1> DEFINE line == [requests[q] EXCEPT !.approved = TRUE]
<1>3. /\ line \in [approved: BOOLEAN, quantity: Nat]
      /\ line.quantity = requests[q].quantity /\ line.approved
  BY <1>2
<1>4. /\ requests' \in [Requests -> [approved: BOOLEAN, quantity: Nat]]
      /\ requests'[q] = line
      /\ \A r \in Requests : r # q => requests'[r] = requests[r]
  <2>1. requests' = [requests EXCEPT ![q] = line]
    BY <1>1
  <2> HIDE DEF line
  <2> QED BY <1>3, <2>1, TypeFacts
<1>5. TypeOK'
  BY <1>1, <1>4, TypeFacts DEF TypeOK
<1>6. \A r : Received(r)' = Received(r)
  BY <1>1 DEF Received, QuantityOf
<1>7. \A r \in Requests : /\ requests'[r].quantity = requests[r].quantity
                          /\ requests[r].approved => requests'[r].approved
  BY <1>3, <1>4
<1>8. NeverOverReceived' /\ AssetsMatchReceipts'
  <2> HIDE DEF line
  <2> QED BY <1>1, <1>6, <1>7 DEF BooksInv, NeverOverReceived, AssetsMatchReceipts
<1>9. ASSUME NEW p \in Procs PROVE Holds(p)'
  <2>1. \A r \in Requests : lock[r] = p => requests'[r] = requests[r]
    BY <1>1, <1>4, ProcurementAssumption
  <2>2. /\ orders' = orders /\ receipts' = receipts /\ lock' = lock /\ tx' = tx
        /\ Len(receipts) <= Len(receipts')
    BY <1>1, TypeFacts
  <2> HIDE DEF line
  <2> QED BY <1>5, <1>6, <2>1, <2>2, OthersHold
<1> QED BY <1>5, <1>8, <1>9 DEF BooksInv

LEMMA OrderCommitStep ==
  ASSUME BooksInv, NEW p \in Procs, OrderCommit(p)
  PROVE  BooksInv'
<1> DEFINE q == tx[p].request
<1>1. /\ tx[p].step = "order" /\ orders[q] = "NONE"
      /\ orders' = [orders EXCEPT ![q] = "ORDERED"]
      /\ Release(p)
      /\ UNCHANGED <<requests, receipts, assets>>
  BY DEF OrderCommit
<1>2. q \in Requests /\ lock[q] = p /\ requests[q].approved
  <2>1. tx[p] \in Transaction /\ Holds(p)
    BY TypeFacts DEF BooksInv
  <2> QED BY <1>1, <2>1, TransactionShape DEF Holds
<1> HIDE DEF q
<1>3. /\ orders' \in [Requests -> OrderStatus] /\ orders'[q] = "ORDERED"
      /\ \A r \in Requests : r # q => orders'[r] = orders[r]
  BY <1>1, <1>2, TypeFacts DEF OrderStatus
<1>4. TypeOK'
  BY <1>1, <1>3, ReleaseStep, TypeFacts DEF TypeOK
<1>5. \A r : Received(r)' = Received(r)
  BY <1>1 DEF Received, QuantityOf
<1>6. NeverOverReceived'
  <2>1. Received(q) = 0 /\ Received(q) <= requests[q].quantity
    BY <1>1, <1>2 DEF BooksInv, NeverOverReceived
  <2> QED BY <1>1, <1>3, <1>5, <2>1 DEF BooksInv, NeverOverReceived
<1>7. AssetsMatchReceipts'
  BY <1>1, <1>2, <1>3 DEF BooksInv, AssetsMatchReceipts
<1>8. ASSUME NEW x \in Procs, x # p PROVE Holds(x)'
  <2>1. \A r \in Requests : lock[r] = x => lock'[r] = x /\ orders'[r] = orders[r]
    BY <1>1, <1>2, <1>3, <1>8, ReleaseStep
  <2>2. tx'[x] = tx[x] /\ Len(receipts) <= Len(receipts')
    BY <1>1, <1>8, ReleaseStep, TypeFacts
  <2> QED BY <1>1, <1>4, <1>5, <2>1, <2>2, OthersHold
<1> QED BY <1>1, <1>4, <1>6, <1>7, <1>8, ReleaseStep DEF BooksInv

LEMMA ReceiveCommitStep ==
  ASSUME BooksInv, NEW p \in Procs, ReceiveCommit(p)
  PROVE  BooksInv'
<1>0. PICK q \in Requests, quantity \in Nat :
        q = tx[p].request /\ quantity = tx[p].quantity
  <2>1. tx[p] \in Transaction /\ tx[p].step = "receive"
    BY TypeFacts DEF ReceiveCommit
  <2> QED BY <2>1, TransactionShape
<1> DEFINE line == [order |-> q, quantity |-> quantity, status |-> "INSPECTION_PENDING"]
           status == IF tx[p].cumulative = requests[q].quantity
                     THEN "RECEIVED" ELSE "PARTIAL_RECEIVED"
<1>1. /\ tx[p].step = "receive" /\ Len(receipts) < MaxReceipts
      /\ receipts' = Append(receipts, line)
      /\ orders' = [orders EXCEPT ![q] = status]
      /\ Release(p)
      /\ UNCHANGED <<requests, assets>>
  BY <1>0 DEF ReceiveCommit
<1>2. /\ q \in Requests /\ lock[q] = p /\ orders[q] # "NONE"
      /\ quantity \in Nat /\ quantity >= 1
      /\ tx[p].cumulative = Received(q) + quantity
      /\ tx[p].cumulative <= requests[q].quantity
  <2>1. tx[p] \in Transaction /\ Holds(p)
    BY TypeFacts DEF BooksInv
  <2> QED BY <1>0, <1>1, <2>1 DEF Holds
<1>3. /\ line \in Receipt /\ line.order = q /\ line.quantity = quantity
      /\ line.status = "INSPECTION_PENDING"
  BY <1>2 DEF Receipt
<1>4. status \in {"RECEIVED", "PARTIAL_RECEIVED"}
  OBVIOUS
<1>5. /\ status = "RECEIVED" => Received(q) + quantity = requests[q].quantity
      /\ status = "PARTIAL_RECEIVED" => Received(q) + quantity # requests[q].quantity
  BY <1>2
<1> HIDE DEF line, status
<1>6. /\ orders' \in [Requests -> OrderStatus] /\ orders'[q] = status
      /\ \A r \in Requests : r # q => orders'[r] = orders[r]
  BY <1>1, <1>2, <1>4, TypeFacts DEF OrderStatus
<1>7. /\ receipts' \in Seq(Receipt) /\ Len(receipts') = Len(receipts) + 1
      /\ \A n \in 1..Len(receipts) : receipts'[n] = receipts[n]
      /\ receipts'[Len(receipts) + 1] = line
  BY <1>1, <1>3, TypeFacts
<1>8. TypeOK'
  BY <1>1, <1>6, <1>7, ReleaseStep, TypeFacts, ProcurementAssumption DEF TypeOK
<1>9. /\ \A r : r # q => Received(r)' = Received(r)
      /\ Received(q)' = Received(q) + quantity
  <2>1. \A r : Received(r)' = Total(receipts', r) /\ Received(r) = Total(receipts, r)
    BY DEF Received, QuantityOf, Total, Column
  <2> QED BY <1>1, <1>3, <2>1, TotalAppend, TypeFacts
<1>10. NeverOverReceived'
  <2>1. Received(q) \in Nat /\ requests[q].quantity \in Nat
    BY <1>2, ColumnType, ReceivedIsTotal, TypeFacts
  <2>2. /\ Received(q)' <= requests'[q].quantity
        /\ orders'[q] = "RECEIVED" => Received(q)' = requests'[q].quantity
        /\ orders'[q] = "PARTIAL_RECEIVED" => Received(q)' \in 1..(requests'[q].quantity - 1)
        /\ orders'[q] \notin {"NONE", "ORDERED"}
    BY <1>1, <1>2, <1>4, <1>5, <1>6, <1>9, <2>1
  <2>3. ASSUME NEW r \in Requests, r # q
        PROVE  /\ Received(r)' <= requests'[r].quantity
               /\ orders'[r] = "RECEIVED" => Received(r)' = requests'[r].quantity
               /\ orders'[r] = "PARTIAL_RECEIVED" => Received(r)' \in 1..(requests'[r].quantity - 1)
               /\ orders'[r] \in {"NONE", "ORDERED"} => Received(r)' = 0
    BY <1>1, <1>6, <1>9, <2>3 DEF BooksInv, NeverOverReceived
  <2> QED BY <2>2, <2>3 DEF NeverOverReceived
<1>11. AssetsMatchReceipts'
  <2>1. ASSUME NEW n \in 1..MaxReceipts
        PROVE  assets'[n] = IF n <= Len(receipts') /\ receipts'[n].status = "ACCEPTED"
                            THEN receipts'[n].quantity ELSE 0
    <3>1. assets'[n] = IF n <= Len(receipts) /\ receipts[n].status = "ACCEPTED"
                       THEN receipts[n].quantity ELSE 0
      BY <1>1 DEF BooksInv, AssetsMatchReceipts
    <3>2. CASE n <= Len(receipts)
      <4>1. receipts'[n] = receipts[n] /\ n <= Len(receipts')
        BY <1>7, <3>2, TypeFacts, ProcurementAssumption
      <4> QED BY <3>1, <3>2, <4>1
    <3>3. CASE n = Len(receipts) + 1
      <4>1. ~(n <= Len(receipts)) /\ receipts'[n].status # "ACCEPTED"
        BY <1>3, <1>7, <3>3, TypeFacts
      <4> QED BY <3>1, <4>1
    <3>4. CASE ~(n <= Len(receipts)) /\ n # Len(receipts) + 1
      <4>1. ~(n <= Len(receipts'))
        BY <1>7, <3>4, TypeFacts, ProcurementAssumption
      <4> QED BY <3>1, <3>4, <4>1
    <3> QED BY <3>2, <3>3, <3>4
  <2>2. \A r \in Requests : orders'[r] # "NONE" => requests'[r].approved
    BY <1>1, <1>2, <1>6 DEF BooksInv, AssetsMatchReceipts
  <2> QED BY <2>1, <2>2 DEF AssetsMatchReceipts
<1>12. ASSUME NEW x \in Procs, x # p PROVE Holds(x)'
  <2>1. \A r \in Requests : lock[r] = x => /\ lock'[r] = x
                                           /\ orders'[r] = orders[r]
                                           /\ Received(r)' = Received(r)
    BY <1>1, <1>2, <1>6, <1>9, <1>12, ReleaseStep
  <2>2. tx'[x] = tx[x] /\ Len(receipts) <= Len(receipts')
    BY <1>1, <1>7, <1>12, ReleaseStep, TypeFacts
  <2> QED BY <1>1, <1>7, <1>8, <2>1, <2>2, OthersHold
<1> QED BY <1>1, <1>8, <1>10, <1>11, <1>12, ReleaseStep DEF BooksInv

(* What a verdict does, under the lock of its request. *)
LEMMA InspectCommitFacts ==
  ASSUME BooksInv, NEW p \in Procs, InspectCommit(p)
  PROVE  \E n \in 1..Len(receipts), quantity \in Nat, passed \in BOOLEAN :
            /\ receipts[n].status = "INSPECTION_PENDING"
            /\ receipts[n].quantity = quantity
            /\ lock[receipts[n].order] = p
            /\ receipts[n].order \in Requests
            /\ receipts' = [receipts EXCEPT ![n].status =
                              IF passed THEN "ACCEPTED" ELSE "REJECTED"]
            /\ assets' = [assets EXCEPT ![n] = IF passed THEN @ + quantity ELSE @]
            /\ Release(p)
            /\ UNCHANGED <<requests, orders>>
<1>1. tx[p] \in Transaction /\ Holds(p) /\ tx[p].step = "inspect"
  BY TypeFacts DEF BooksInv, InspectCommit
<1>2. /\ tx[p].receipt \in 1..Len(receipts) /\ tx[p].quantity \in Nat
      /\ receipts[tx[p].receipt].status = "INSPECTION_PENDING"
      /\ receipts[tx[p].receipt].quantity = tx[p].quantity
      /\ receipts[tx[p].receipt].order = tx[p].request
      /\ lock[tx[p].request] = p
      /\ tx[p].request \in Requests
  BY <1>1, TransactionShape DEF Holds
<1>3. PICK n, quantity, passed :
        n = tx[p].receipt /\ quantity = tx[p].quantity /\ passed = (tx[p].result = "PASS")
  OBVIOUS
<1>4. passed \in BOOLEAN
  BY <1>3
<1>5. /\ receipts' = [receipts EXCEPT ![n].status =
                        IF passed THEN "ACCEPTED" ELSE "REJECTED"]
      /\ assets' = [assets EXCEPT ![n] = IF passed THEN @ + quantity ELSE @]
      /\ Release(p)
      /\ UNCHANGED <<requests, orders>>
  BY <1>3 DEF InspectCommit
<1> QED BY <1>2, <1>3, <1>4, <1>5

LEMMA InspectCommitStep ==
  ASSUME BooksInv, NEW p \in Procs, InspectCommit(p)
  PROVE  BooksInv'
<1>1. PICK n \in 1..Len(receipts), quantity \in Nat, passed \in BOOLEAN :
            /\ receipts[n].status = "INSPECTION_PENDING"
            /\ receipts[n].quantity = quantity
            /\ lock[receipts[n].order] = p
            /\ receipts[n].order \in Requests
            /\ receipts' = [receipts EXCEPT ![n].status =
                              IF passed THEN "ACCEPTED" ELSE "REJECTED"]
            /\ assets' = [assets EXCEPT ![n] = IF passed THEN @ + quantity ELSE @]
            /\ Release(p)
            /\ UNCHANGED <<requests, orders>>
  BY InspectCommitFacts
<1> DEFINE verdict == IF passed THEN "ACCEPTED" ELSE "REJECTED"
           line == [receipts[n] EXCEPT !.status = verdict]
<1>2. n \in 1..MaxReceipts /\ receipts[n] \in Receipt
  BY TypeFacts, ProcurementAssumption
<1>3. /\ line \in Receipt /\ line.order = receipts[n].order
      /\ line.quantity = quantity /\ line.status = verdict
      /\ verdict = "ACCEPTED" <=> passed
  BY <1>1, <1>2 DEF Receipt
<1>4. receipts' = [receipts EXCEPT ![n] = line]
  BY <1>1
<1> HIDE DEF line, verdict
<1>5. /\ receipts' \in Seq(Receipt) /\ Len(receipts') = Len(receipts)
      /\ receipts'[n] = line
      /\ \A m \in 1..Len(receipts) : m # n => receipts'[m] = receipts[m]
  BY <1>3, <1>4, TypeFacts
<1>6. /\ assets' \in [1..MaxReceipts -> Nat]
      /\ assets'[n] = IF passed THEN quantity ELSE 0
      /\ \A m \in 1..MaxReceipts : m # n => assets'[m] = assets[m]
  <2>1. assets[n] = 0
    BY <1>1, <1>2 DEF BooksInv, AssetsMatchReceipts
  <2>3. assets[n] + quantity = quantity
    BY <2>1
  <2>2. assets' = [assets EXCEPT ![n] = IF passed THEN quantity ELSE 0]
    <3>1. CASE passed
      BY <1>1, <2>3, <3>1
    <3>2. CASE ~passed
      BY <1>1, <2>1, <3>2
    <3> QED BY <3>1, <3>2
  <2> QED BY <1>2, <2>2, TypeFacts
<1>7. TypeOK'
  BY <1>1, <1>5, <1>6, ReleaseStep, TypeFacts DEF TypeOK
<1>8. \A r : Received(r)' = Received(r)
  <2>1. \A r : Received(r)' = Total(receipts', r) /\ Received(r) = Total(receipts, r)
    BY DEF Received, QuantityOf, Total, Column
  <2>2. \A m \in 1..Len(receipts) : /\ receipts'[m].order = receipts[m].order
                                    /\ receipts'[m].quantity = receipts[m].quantity
    BY <1>1, <1>3, <1>5
  <2> QED BY <1>5, <2>1, <2>2, TotalSame, TypeFacts
<1>9. NeverOverReceived'
  BY <1>1, <1>8 DEF BooksInv, NeverOverReceived
<1>10. AssetsMatchReceipts'
  <2>1. ASSUME NEW m \in 1..MaxReceipts
        PROVE  assets'[m] = IF m <= Len(receipts') /\ receipts'[m].status = "ACCEPTED"
                            THEN receipts'[m].quantity ELSE 0
    <3>1. CASE m = n
      <4>1. m <= Len(receipts')
        BY <1>5, <3>1
      <4> QED BY <1>3, <1>5, <1>6, <3>1, <4>1
    <3>2. CASE m # n
      <4>1. m <= Len(receipts) => receipts'[m] = receipts[m]
        BY <1>5, <3>2, TypeFacts, ProcurementAssumption
      <4>2. assets[m] = IF m <= Len(receipts) /\ receipts[m].status = "ACCEPTED"
                        THEN receipts[m].quantity ELSE 0
        BY DEF BooksInv, AssetsMatchReceipts
      <4> QED BY <1>5, <1>6, <3>2, <4>1, <4>2
    <3> QED BY <3>1, <3>2
  <2>2. \A r \in Requests : orders'[r] # "NONE" => requests'[r].approved
    BY <1>1 DEF BooksInv, AssetsMatchReceipts
  <2> QED BY <2>1, <2>2 DEF AssetsMatchReceipts
<1>11. ASSUME NEW x \in Procs, x # p PROVE Holds(x)'
  <2>1. \A r \in Requests : lock[r] = x => lock'[r] = x
    BY <1>1, <1>11, ReleaseStep
  <2>2. \A m \in 1..Len(receipts) : lock[receipts[m].order] = x => receipts'[m] = receipts[m]
    BY <1>1, <1>5, <1>11
  <2>3. tx'[x] = tx[x] /\ Len(receipts) <= Len(receipts')
    BY <1>1, <1>5, <1>11, ReleaseStep, TypeFacts
  <2> QED BY <1>1, <1>7, <1>8, <2>1, <2>2, <2>3, OthersHold
<1> QED BY <1>1, <1>7, <1>9, <1>10, <1>11, ReleaseStep DEF BooksInv

LEMMA RollbackStep ==
  ASSUME BooksInv, NEW p \in Procs, Rollback(p)
  PROVE  BooksInv'
<1>1. Release(p) /\ UNCHANGED <<requests, orders, receipts, assets>>
  BY DEF Rollback
<1>2. TypeOK'
  BY <1>1, ReleaseStep, TypeFacts DEF TypeOK
<1>3. \A r : Received(r)' = Received(r)
  BY <1>1 DEF Received, QuantityOf
<1>4. NeverOverReceived' /\ AssetsMatchReceipts'
  BY <1>1, <1>3 DEF BooksInv, NeverOverReceived, AssetsMatchReceipts
<1>5. ASSUME NEW x \in Procs, x # p PROVE Holds(x)'
  <2>1. \A r \in Requests : lock[r] = x => lock'[r] = x
    BY <1>1, <1>5, ReleaseStep
  <2>2. tx'[x] = tx[x] /\ Len(receipts) <= Len(receipts')
    BY <1>1, <1>5, ReleaseStep, TypeFacts
  <2> QED BY <1>1, <1>2, <1>3, <2>1, <2>2, OthersHold
<1> QED BY <1>1, <1>2, <1>4, <1>5, ReleaseStep DEF BooksInv

LEMMA BooksStep == BooksInv /\ [Next]_vars => BooksInv'
<1> SUFFICES ASSUME BooksInv, [Next]_vars PROVE BooksInv'
  OBVIOUS
<1>1. CASE UNCHANGED vars
  <2>1. UNCHANGED <<requests, orders, receipts, assets, lock, tx>>
    BY <1>1 DEF vars
  <2>2. \A q : Received(q)' = Received(q)
    BY <2>1 DEF Received, QuantityOf
  <2>3. TypeOK' /\ NeverOverReceived' /\ AssetsMatchReceipts'
    BY <2>1, <2>2 DEF BooksInv, TypeOK, NeverOverReceived, AssetsMatchReceipts
  <2>4. ASSUME NEW p \in Procs PROVE Holds(p)'
    <3>1. Len(receipts) <= Len(receipts')
      BY <2>1, TypeFacts
    <3> QED BY <2>1, <2>2, <2>3, <3>1, OthersHold
  <2> QED BY <2>3, <2>4 DEF BooksInv
<1>2. CASE \E q \in Requests : Approve(q)
  BY <1>2, ApproveStep
<1>3. CASE \E p \in Procs : OrderCommit(p) \/ ReceiveCommit(p) \/ InspectCommit(p) \/ Rollback(p)
  BY <1>3, OrderCommitStep, ReceiveCommitStep, InspectCommitStep, RollbackStep
<1>4. CASE \E p \in Procs :
              \/ \E q \in Requests : OrderLock(p, q)
              \/ \E q \in Requests, quantity \in 1..MaxQuantity : ReceiveLock(p, q,
                                                                              quantity)
              \/ \E n \in 1..Len(receipts), result \in Results : InspectLock(p, n, result)
  BY <1>4, LocksAreRight
<1> QED BY <1>1, <1>2, <1>3, <1>4 DEF Next

(* A transaction of createPurchaseOrder, createReceipt or inspectReceipt   *)
(* holds the lock on which what it has computed rests, and the books of    *)
(* orders, receipts and assets balance.                                    *)
THEOREM BooksInvariant == Spec => []BooksInv
BY BooksInit, BooksStep, PTL DEF Spec

(* Whatever receipts arrive at the same time, no order receives more than  *)
(* was requested, and its status says how much that is.                    *)
THEOREM ReceiptsInBounds == Spec => []NeverOverReceived
<1>1. BooksInv => NeverOverReceived
  BY DEF BooksInv
<1> QED BY <1>1, BooksInvariant, PTL

(* Assets come from passed inspections only, one for every piece, and      *)
(* nothing is ordered that nobody approved.                                *)
THEOREM AssetsAreReceived == Spec => []AssetsMatchReceipts
<1>1. BooksInv => AssetsMatchReceipts
  BY DEF BooksInv
<1> QED BY <1>1, BooksInvariant, PTL

(* No transaction, however it is interleaved with others, revises the      *)
(* verdict of an inspection or makes assets for it again.                  *)
THEOREM VerdictsStay == Spec => VerdictsAreFinal
<1> DEFINE Keeps == \A n \in 1..Len(receipts) :
                       receipts[n].status # "INSPECTION_PENDING" =>
                          receipts'[n] = receipts[n] /\ assets'[n] = assets[n]
<1>1. BooksInv /\ [Next]_vars => [Keeps]_vars
  <2> SUFFICES ASSUME BooksInv, Next PROVE Keeps
    BY DEF vars
  <2>1. ASSUME NEW p \in Procs, ReceiveCommit(p) PROVE Keeps
    <3>1. assets' = assets
      BY <2>1 DEF ReceiveCommit
    <3>2. tx[p] \in Transaction /\ tx[p].step = "receive"
      BY <2>1, TypeFacts DEF ReceiveCommit
    <3>3. /\ tx[p].request \in Requests /\ tx[p].quantity \in Nat
      BY <3>2, TransactionShape
    <3>4. PICK line \in Receipt : receipts' = Append(receipts, line)
      BY <2>1, <3>3 DEF ReceiveCommit, Receipt
    <3>5. \A n \in 1..Len(receipts) : receipts'[n] = receipts[n]
      BY <3>4, TypeFacts
    <3> QED BY <3>1, <3>5
  <2>2. ASSUME NEW p \in Procs, InspectCommit(p) PROVE Keeps
    <3>1. PICK n \in 1..Len(receipts), quantity \in Nat, passed \in BOOLEAN :
            /\ receipts[n].status = "INSPECTION_PENDING"
            /\ receipts' = [receipts EXCEPT ![n].status =
                              IF passed THEN "ACCEPTED" ELSE "REJECTED"]
            /\ assets' = [assets EXCEPT ![n] = IF passed THEN @ + quantity ELSE @]
      BY <2>2, InspectCommitFacts
    <3>2. \A m \in 1..Len(receipts) : m # n => receipts'[m] = receipts[m] /\ assets'[m] = assets[m]
      BY <3>1, TypeFacts, ProcurementAssumption
    <3> QED BY <3>1, <3>2
  <2>3. CASE \/ \E q \in Requests : Approve(q)
             \/ \E p \in Procs :
                   \/ \E q \in Requests : OrderLock(p, q)
                   \/ OrderCommit(p)
                   \/ \E q \in Requests, quantity \in 1..MaxQuantity : ReceiveLock(p, q,
                                                                                   quantity)
                   \/ \E n \in 1..Len(receipts), result \in Results : InspectLock(p, n,
                                                                                  result)
                   \/ Rollback(p)
    <3>1. receipts' = receipts /\ assets' = assets
      BY <2>3 DEF Approve, OrderLock, ReceiveLock, InspectLock, Locked, OrderCommit,
           Rollback
    <3> QED BY <3>1
  <2> QED BY <2>1, <2>2, <2>3 DEF Next
<1>2. QED BY <1>1, BooksInvariant, PTL DEF Spec, VerdictsAreFinal

(***************************************************************************)
(* The outbox for any number of events, workers, attempts and faults: no   *)
(* two workers at one event without a fault, and no settled event that was *)
(* neither delivered nor given up.  What the two rest on besides is that   *)
(* an acknowledgement follows a delivery, and that the lock of a worker    *)
(* that is still at it grows old only by a fault.                          *)
(***************************************************************************)

DeliveredBeforeAck ==
    \A w \in Workers : job[w].step = "ack" => deliveries[job[w].event] > 0

OldByFault ==
    \A e \in Events : row[e].owner \in Workers /\ row[e].old => faults > 0

OutboxInv ==
    /\ OutboxTypeOK
    /\ OneWorkerPerEvent
    /\ NothingLost
    /\ DeliveredBeforeAck
    /\ OldByFault

----------------------------------------------------------------------------
(* A row that somebody has locked is there. *)
LEMMA LockedRow ==
  ASSUME OutboxTypeOK, NEW e \in Events, row[e] # NoRow \/ row[e].owner # Nobody
  PROVE  row[e] \in Row
  BY DEF OutboxTypeOK, NoRow

(* A job that is under way has an event and an attempt. *)
LEMMA BusyJob ==
  ASSUME OutboxTypeOK, NEW w \in Workers, job[w].step \in {"publish", "ack", "fail"}
  PROVE  job[w] \in Job /\ job[w] # IdleJob
  BY DEF OutboxTypeOK, IdleJob

(* Worker w owns the row of its event: nothing settled, the same attempt. *)
LEMMA OwnedRow ==
  ASSUME OutboxInv, NEW w \in Workers, job[w] \in Job, Owns(w)
  PROVE  /\ row[job[w].event] \in Row
         /\ ~row[job[w].event].published /\ ~row[job[w].event].dead
         /\ row[job[w].event].attempts = job[w].attempt
<1> DEFINE e == job[w].event
<1>1. e \in Events /\ row[e].owner = w /\ w # Nobody
  BY OutboxAssumption DEF Owns, Job
<1>2. row[e] \in Row /\ row[e] # NoRow
  BY <1>1, LockedRow DEF OutboxInv, NoRow
<1>3. ~Settled(e)
  BY <1>1 DEF OutboxInv, NothingLost
<1>4. row[e].attempts = job[w].attempt
  BY <1>1 DEF OutboxInv, OneWorkerPerEvent
<1> QED  BY <1>2, <1>3, <1>4 DEF Settled

LEMMA OutboxInitInv ==
  ASSUME OutboxInit
  PROVE  OutboxInv
<1>1. OutboxTypeOK
  BY OutboxAssumption DEF OutboxInit, OutboxTypeOK
<1>2. \A e \in Events : row[e] = NoRow /\ row[e].owner \notin Workers
  BY OutboxAssumption DEF OutboxInit, NoRow
<1>3. \A w \in Workers : job[w] = IdleJob /\ job[w].step # "ack"
  BY DEF OutboxInit, IdleJob
<1> QED  BY <1>1, <1>2, <1>3 DEF OutboxInv, OneWorkerPerEvent, NothingLost, Settled,
                                 DeliveredBeforeAck, OldByFault

LEMMA InsertInv ==
  ASSUME OutboxInv, NEW e \in Events, Insert(e)
  PROVE  OutboxInv'
<1>1. row'[e] = [owner |-> Nobody, old |-> FALSE, due |-> TRUE, attempts |-> 0,
                 published |-> FALSE, dead |-> FALSE]
  BY DEF Insert, OutboxInv, OutboxTypeOK
<1>2. row'[e] \in Row /\ row[e].owner = Nobody
  BY <1>1 DEF Insert, Row, NoRow
<1>3. /\ row' \in [Events -> Row \cup {NoRow}]
      /\ \A d \in Events : d # e => row'[d] = row[d]
      /\ job' = job /\ deliveries' = deliveries /\ faults' = faults
  BY <1>2 DEF Insert, OutboxInv, OutboxTypeOK
<1>4. OutboxTypeOK'
  BY <1>3 DEF OutboxInv, OutboxTypeOK
<1>5. OneWorkerPerEvent'
  BY <1>1, <1>2, <1>3, OutboxAssumption DEF OutboxInv, OneWorkerPerEvent, Owns,
       OutboxTypeOK, Job
<1>6. NothingLost'
  BY <1>1, <1>3 DEF OutboxInv, NothingLost, Settled
<1>7. DeliveredBeforeAck' /\ OldByFault'
  BY <1>1, <1>3, OutboxAssumption DEF OutboxInv, DeliveredBeforeAck, OldByFault
<1> QED  BY <1>4, <1>5, <1>6, <1>7 DEF OutboxInv

LEMMA ClaimInv ==
  ASSUME OutboxInv, NEW w \in Workers, NEW e \in Events, Claim(w, e)
  PROVE  OutboxInv'
<1>1. row[e] \in Row /\ ~row[e].published /\ ~row[e].dead /\ job[w] = IdleJob
  BY LockedRow DEF Claim, Claimable, OutboxInv
<1>2. row'[e] = [row[e] EXCEPT !.owner = w, !.old = FALSE,
                 !.attempts = row[e].attempts + 1]
  BY DEF Claim, OutboxInv, OutboxTypeOK
<1>3. row'[e] \in Row
  <2>1. row[e].attempts + 1 \in Nat
    BY <1>1 DEF Row
  <2> QED  BY <1>1, <1>2, <2>1 DEF Row
<1>4. job'[w] = [step |-> "publish", event |-> e, attempt |-> row[e].attempts + 1]
  BY DEF Claim, OutboxInv, OutboxTypeOK
<1>5. job'[w] \in Job /\ row[e].attempts \in Nat
  BY <1>1, <1>4 DEF Job, Row
<1>6. /\ row' \in [Events -> Row \cup {NoRow}]
      /\ job' \in [Workers -> Job \cup {IdleJob}]
      /\ \A d \in Events : d # e => row'[d] = row[d]
      /\ \A v \in Workers : v # w => job'[v] = job[v]
      /\ deliveries' = deliveries /\ faults' = faults
  BY <1>3, <1>5 DEF Claim, OutboxInv, OutboxTypeOK
<1>7. /\ row'[e].owner = w /\ row'[e].old = FALSE
      /\ row'[e].attempts = row[e].attempts + 1
      /\ row'[e].published = FALSE /\ row'[e].dead = FALSE
  BY <1>1, <1>2 DEF Row
<1>8. OutboxTypeOK'
  BY <1>6 DEF OutboxInv, OutboxTypeOK
<1>9. OneWorkerPerEvent'
  <2>1. ASSUME NEW d \in Events, row'[d].owner \in Workers
        PROVE  LET theirs == job'[row'[d].owner] IN
               theirs # IdleJob /\ theirs.event = d /\ theirs.attempt = row'[d].attempts
    <3>1. CASE d = e
      BY <3>1, <1>4, <1>7 DEF IdleJob
    <3>2. CASE d # e
      \* w was idle: it owned no row.
      BY <2>1, <3>2, <1>1, <1>6 DEF OutboxInv, OneWorkerPerEvent
    <3> QED  BY <3>1, <3>2
  <2>2. ASSUME NEW v \in Workers, job'[v] # IdleJob, row'[job'[v].event].owner # v
        PROVE  faults' > 0
    <3>1. v # w
      BY <2>2, <1>4, <1>7
    <3>2. job[v] \in Job /\ job'[v] = job[v] /\ job[v].event \in Events
      BY <2>2, <3>1, <1>6 DEF OutboxInv, OutboxTypeOK, Job
    <3>3. CASE row[job[v].event].owner # v
      BY <2>2, <3>2, <3>3, <1>6 DEF OutboxInv, OneWorkerPerEvent, Owns
    <3>4. CASE row[job[v].event].owner = v
      \* w has taken the event over: the lock was old.
      <4>1. job[v].event = e
        BY <2>2, <3>2, <3>4, <1>6
      <4>2. row[e].owner \in Workers /\ row[e].old
        BY <3>4, <4>1, OutboxAssumption DEF Claim, Claimable
      <4> QED  BY <4>2, <1>6 DEF OutboxInv, OldByFault
    <3> QED  BY <3>3, <3>4
  <2> QED  BY <2>1, <2>2 DEF OneWorkerPerEvent, Owns
<1>10. NothingLost'
  BY <1>6, <1>7 DEF OutboxInv, NothingLost, Settled
<1>11. DeliveredBeforeAck' /\ OldByFault'
  BY <1>4, <1>6, <1>7 DEF OutboxInv, DeliveredBeforeAck, OldByFault
<1> QED  BY <1>8, <1>9, <1>10, <1>11 DEF OutboxInv

LEMMA PublishInv ==
  ASSUME OutboxInv, NEW w \in Workers, Publish(w)
  PROVE  OutboxInv'
<1>1. job[w] \in Job /\ job[w] # IdleJob /\ job[w].event \in Events
  BY BusyJob DEF Publish, OutboxInv, Job
<1>2. PICK received \in BOOLEAN, resolved \in BOOLEAN :
          /\ resolved => received
          /\ deliveries' = [deliveries EXCEPT ![job[w].event] =
                              IF received THEN @ + 1 ELSE @]
          /\ job' = [job EXCEPT ![w].step = IF resolved THEN "ack" ELSE "fail"]
  BY DEF Publish
<1>3. job'[w] \in Job /\ job'[w].event = job[w].event /\ job'[w].attempt = job[w].attempt
      /\ (job'[w].step = "ack" => received)
  BY <1>1, <1>2 DEF Job, OutboxInv, OutboxTypeOK
<1>4. /\ \A v \in Workers : v # w => job'[v] = job[v]
      /\ job' \in [Workers -> Job \cup {IdleJob}]
      /\ row' = row /\ faults' = faults
  BY <1>2, <1>3 DEF Publish, OutboxInv, OutboxTypeOK
<1>5. /\ deliveries' \in [Events -> Nat]
      /\ \A d \in Events : deliveries'[d] >= deliveries[d]
      /\ received => deliveries'[job[w].event] > 0
  BY <1>1, <1>2 DEF OutboxInv, OutboxTypeOK
<1>6. OutboxTypeOK'
  BY <1>4, <1>5 DEF OutboxInv, OutboxTypeOK
<1>7. job'[w] # IdleJob
  BY <1>3 DEF Job, IdleJob
<1>8. OneWorkerPerEvent'
  BY <1>1, <1>3, <1>4, <1>7 DEF OutboxInv, OneWorkerPerEvent, Owns
<1>9. NothingLost'
  BY <1>4, <1>5 DEF OutboxInv, OutboxTypeOK, NothingLost, Settled
<1>10. DeliveredBeforeAck'
  <2>1. ASSUME NEW v \in Workers, v # w, job[v].step = "ack"
        PROVE  deliveries'[job[v].event] > 0
    <3>1. job[v].event \in Events /\ deliveries[job[v].event] > 0
      BY <2>1, BusyJob DEF OutboxInv, DeliveredBeforeAck, Job
    <3> QED  BY <3>1, <1>5 DEF OutboxInv, OutboxTypeOK
  <2> QED  BY <2>1, <1>3, <1>4, <1>5 DEF DeliveredBeforeAck
<1>11. OldByFault'
  BY <1>4 DEF OutboxInv, OldByFault
<1> QED  BY <1>6, <1>8, <1>9, <1>10, <1>11 DEF OutboxInv

----------------------------------------------------------------------------
(* What the last statement of an attempt may do to the row of its event:   *)
(* nothing, or, if the worker owns it, settle it rightly or give it back.  *)
Settles(w) ==
    \/ ~Owns(w) /\ row' = row
    \/ /\ Owns(w)
       /\ row' \in [Events -> Row \cup {NoRow}]
       /\ \A d \in Events : d # job[w].event => row'[d] = row[d]
       /\ row'[job[w].event].owner \in {Nobody, Gone}
       /\ row'[job[w].event].published => deliveries[job[w].event] > 0
       /\ row'[job[w].event].dead => row'[job[w].event].attempts >= MaxAttempts
       /\ ~(row'[job[w].event].published /\ row'[job[w].event].dead)
       /\ row'[job[w].event].published \/ row'[job[w].event].dead =>
            row'[job[w].event].owner = Nobody

(* The end of an attempt, whichever way. *)
LEMMA EndInv ==
  ASSUME OutboxInv, NEW w \in Workers, job[w] \in Job, Settles(w),
         job' = [job EXCEPT ![w] = IdleJob], deliveries' = deliveries,
         faults' \in 0..MaxFaults, faults' >= faults
  PROVE  OutboxInv'
<1> DEFINE e == job[w].event
<1>1. e \in Events /\ faults \in Nat /\ faults' \in Nat
  BY OutboxAssumption DEF Job, OutboxInv, OutboxTypeOK
<1>2. /\ row' \in [Events -> Row \cup {NoRow}]
      /\ \A d \in Events : row'[d] = row[d] \/ (d = e /\ Owns(w) /\ row'[d].owner \notin Workers)
  BY OutboxAssumption DEF Settles, OutboxInv, OutboxTypeOK
<1>3. job'[w] = IdleJob /\ \A v \in Workers : v # w => job'[v] = job[v]
  BY DEF OutboxInv, OutboxTypeOK
<1>4. OutboxTypeOK'
  BY <1>2 DEF OutboxInv, OutboxTypeOK
<1>5. OneWorkerPerEvent'
  <2>1. ASSUME NEW d \in Events, row'[d].owner \in Workers
        PROVE  LET theirs == job'[row'[d].owner] IN
               theirs # IdleJob /\ theirs.event = d /\ theirs.attempt = row'[d].attempts
    <3>1. row'[d] = row[d]
      BY <2>1, <1>2
    <3>2. row[d].owner # w
      <4>1. SUFFICES ASSUME row[d].owner = w PROVE FALSE
        OBVIOUS
      <4>2. d = e /\ Owns(w)
        BY <4>1 DEF OutboxInv, OneWorkerPerEvent, Owns
      <4> QED  BY <2>1, <4>2, OutboxAssumption DEF Settles
    <3> QED  BY <2>1, <3>1, <3>2, <1>3 DEF OutboxInv, OneWorkerPerEvent
  <2>2. ASSUME NEW v \in Workers, job'[v] # IdleJob, row'[job'[v].event].owner # v
        PROVE  faults' > 0
    <3>1. v # w /\ job'[v] = job[v] /\ job[v] \in Job
      BY <2>2, <1>3 DEF OutboxInv, OutboxTypeOK
    <3>2. row[job[v].event].owner # v
      BY <2>2, <3>1, <1>1, <1>2 DEF Owns, Job
    <3> QED  BY <2>2, <3>1, <3>2, <1>1 DEF OutboxInv, OneWorkerPerEvent, Owns
  <2> QED  BY <2>1, <2>2 DEF OneWorkerPerEvent, Owns
<1>6. NothingLost'
  <2>1. ASSUME NEW d \in Events, row'[d] = row[d], Settled(d)'
        PROVE  /\ row'[d].published => deliveries'[d] > 0
               /\ row'[d].dead => row'[d].attempts >= MaxAttempts
               /\ ~(row'[d].published /\ row'[d].dead)
               /\ row'[d].owner = Nobody
    BY <2>1 DEF OutboxInv, NothingLost, Settled
  <2>2. CASE ~Owns(w)
    BY <2>1, <2>2 DEF Settles, NothingLost
  <2>3. CASE Owns(w)
    BY <2>1, <2>3, <1>1 DEF Settles, NothingLost, Settled
  <2> QED  BY <2>2, <2>3
<1>7. DeliveredBeforeAck' /\ OldByFault'
  BY <1>1, <1>2, <1>3 DEF OutboxInv, DeliveredBeforeAck, OldByFault, IdleJob
<1> QED  BY <1>4, <1>5, <1>6, <1>7 DEF OutboxInv

LEMMA AckSettles ==
  ASSUME OutboxInv, NEW w \in Workers, job[w] \in Job, job[w].step = "ack",
         row' = Acknowledged(w)
  PROVE  Settles(w)
<1> DEFINE e == job[w].event
<1>1. e \in Events
  BY DEF Job
<1>2. CASE ~Owns(w)
  BY <1>2 DEF Acknowledged, Settles
<1>3. CASE Owns(w)
  <2>1. row[e] \in Row /\ ~row[e].dead
    BY <1>3, OwnedRow
  <2>2. /\ row' = [row EXCEPT ![e].published = TRUE, ![e].owner = Nobody,
                   ![e].old = FALSE]
        /\ deliveries[e] > 0
    BY <1>3 DEF Acknowledged, OutboxInv, DeliveredBeforeAck
  <2>3. row'[e] = [row[e] EXCEPT !.published = TRUE, !.owner = Nobody, !.old = FALSE]
    BY <1>1, <2>1, <2>2 DEF OutboxInv, OutboxTypeOK, Row
  <2>4. row'[e] \in Row /\ row'[e].owner = Nobody /\ row'[e].dead = FALSE
    BY <2>1, <2>3 DEF Row
  <2>5. /\ row' \in [Events -> Row \cup {NoRow}]
        /\ \A d \in Events : d # e => row'[d] = row[d]
    BY <1>1, <2>2, <2>4 DEF OutboxInv, OutboxTypeOK
  <2> QED  BY <1>3, <2>2, <2>4, <2>5 DEF Settles
<1> QED  BY <1>2, <1>3

LEMMA AckInv ==
  ASSUME OutboxInv, NEW w \in Workers, Ack(w)
  PROVE  OutboxInv'
<1>1. job[w] \in Job /\ faults \in 0..MaxFaults
  BY BusyJob DEF Ack, OutboxInv, OutboxTypeOK
<1>2. Settles(w)
  BY <1>1, AckSettles DEF Ack
<1>3. /\ job' = [job EXCEPT ![w] = IdleJob] /\ deliveries' = deliveries
      /\ faults' \in 0..MaxFaults /\ faults' >= faults
  BY <1>1, OutboxAssumption DEF Ack
<1> QED  BY <1>1, <1>2, <1>3, EndInv

LEMMA FailInv ==
  ASSUME OutboxInv, NEW w \in Workers, Fail(w)
  PROVE  OutboxInv'
<1> DEFINE e == job[w].event
<1>1. job[w] \in Job /\ faults \in 0..MaxFaults /\ e \in Events
  BY BusyJob DEF Fail, OutboxInv, OutboxTypeOK, Job
<1>2. Settles(w)
  <2>1. CASE ~Owns(w)
    BY <2>1 DEF Fail, Settles
  <2>2. CASE Owns(w)
    <3>1. row[e] \in Row /\ ~row[e].published /\ row[e].attempts = job[w].attempt
      BY <1>1, <2>2, OwnedRow
    <3> DEFINE dead == job[w].attempt >= MaxAttempts
    <3>2. row' = [row EXCEPT ![e].owner = Nobody, ![e].old = FALSE, ![e].due = FALSE,
                             ![e].dead = dead]
      BY <2>2 DEF Fail
    <3>3. dead \in BOOLEAN /\ (dead => row[e].attempts >= MaxAttempts)
      BY <3>1
    <3> HIDE DEF dead
    <3>4. row'[e] = [row[e] EXCEPT !.owner = Nobody, !.old = FALSE, !.due = FALSE,
                     !.dead = dead]
      BY <1>1, <3>1, <3>2 DEF OutboxInv, OutboxTypeOK, Row
    <3>5. /\ row'[e] \in Row /\ row'[e].owner = Nobody
          /\ row'[e].published = row[e].published
          /\ row'[e].attempts = row[e].attempts
          /\ row'[e].dead = dead
      BY <3>1, <3>3, <3>4 DEF Row
    <3>6. /\ row' \in [Events -> Row \cup {NoRow}]
          /\ \A d \in Events : d # e => row'[d] = row[d]
      BY <1>1, <3>2, <3>5 DEF OutboxInv, OutboxTypeOK
    <3> QED  BY <2>2, <3>1, <3>3, <3>5, <3>6 DEF Settles
  <2> QED  BY <2>1, <2>2
<1>3. /\ job' = [job EXCEPT ![w] = IdleJob] /\ deliveries' = deliveries
      /\ faults' \in 0..MaxFaults /\ faults' >= faults
  BY <1>1, OutboxAssumption DEF Fail
<1> QED  BY <1>1, <1>2, <1>3, EndInv

LEMMA AbortInv ==
  ASSUME OutboxInv, NEW w \in Workers, Abort(w)
  PROVE  OutboxInv'
<1> DEFINE e == job[w].event
<1>1. job[w] \in Job /\ e \in Events
  BY DEF Abort, OutboxInv, OutboxTypeOK, Job
<1>2. faults \in Nat /\ faults' = faults + 1 /\ faults' \in 0..MaxFaults
  BY OutboxAssumption DEF Abort, Fault, OutboxInv, OutboxTypeOK
<1>3. Settles(w)
  <2>1. CASE ~Owns(w)
    BY <2>1 DEF Abort, Settles
  <2>2. CASE Owns(w)
    <3>1. row[e] \in Row /\ ~row[e].published /\ ~row[e].dead
      BY <1>1, <2>2, OwnedRow
    <3>2. row' = [row EXCEPT ![e].owner = Gone]
      BY <2>2 DEF Abort
    <3>3. /\ row'[e] \in Row /\ row'[e].owner = Gone
          /\ row'[e].published = FALSE /\ row'[e].dead = FALSE
          /\ row' \in [Events -> Row \cup {NoRow}]
          /\ \A d \in Events : d # e => row'[d] = row[d]
      BY <1>1, <3>1, <3>2 DEF Row, OutboxInv, OutboxTypeOK
    <3> QED  BY <2>2, <3>3 DEF Settles
  <2> QED  BY <2>1, <2>2
<1>4. job' = [job EXCEPT ![w] = IdleJob] /\ deliveries' = deliveries /\ faults' >= faults
  BY <1>2 DEF Abort
<1> QED  BY <1>1, <1>2, <1>3, <1>4, EndInv

(* The attempt goes on to its catch block, the row perhaps published. *)
LEMMA AckErrorInv ==
  ASSUME OutboxInv, NEW w \in Workers, AckError(w)
  PROVE  OutboxInv'
<1> DEFINE e == job[w].event
<1>1. job[w] \in Job /\ e \in Events
  BY BusyJob DEF AckError, OutboxInv, OutboxTypeOK, Job
<1>2. /\ faults \in Nat /\ faults' = faults + 1 /\ faults' \in 0..MaxFaults
      /\ deliveries' = deliveries
  BY OutboxAssumption DEF AckError, Fault, OutboxInv, OutboxTypeOK
<1>3. /\ job'[w] \in Job /\ job'[w] = [job[w] EXCEPT !.step = "fail"]
      /\ job' \in [Workers -> Job \cup {IdleJob}]
      /\ \A v \in Workers : v # w => job'[v] = job[v]
  BY <1>1 DEF AckError, OutboxInv, OutboxTypeOK, Job
<1>4. /\ job'[w].event = e /\ job'[w].attempt = job[w].attempt
      /\ job'[w].step = "fail" /\ job'[w] # IdleJob /\ job[w] # IdleJob
  BY <1>1, <1>3 DEF Job, IdleJob
<1>5. row' = row \/ Settles(w)
  BY <1>1, AckSettles DEF AckError
<1>6. /\ row' \in [Events -> Row \cup {NoRow}]
      /\ \A d \in Events : row'[d] = row[d] \/ row'[d].owner \notin Workers
  BY <1>5, OutboxAssumption DEF Settles, OutboxInv, OutboxTypeOK
<1>7. OutboxTypeOK'
  BY <1>2, <1>3, <1>6 DEF OutboxInv, OutboxTypeOK
<1>8. OneWorkerPerEvent'
  <2>1. ASSUME NEW d \in Events, row'[d].owner \in Workers
        PROVE  LET theirs == job'[row'[d].owner] IN
               theirs # IdleJob /\ theirs.event = d /\ theirs.attempt = row'[d].attempts
    <3>1. row'[d] = row[d]
      BY <2>1, <1>6
    <3>2. job[row[d].owner].event = d /\ job[row[d].owner].attempt = row[d].attempts
          /\ job[row[d].owner] # IdleJob
      BY <2>1, <3>1 DEF OutboxInv, OneWorkerPerEvent
    <3>3. CASE row[d].owner = w
      BY <3>1, <3>2, <3>3, <1>4
    <3>4. CASE row[d].owner # w
      BY <2>1, <3>1, <3>2, <3>4, <1>3
    <3> QED  BY <3>3, <3>4
  <2> QED  BY <2>1, <1>2 DEF OneWorkerPerEvent
<1>9. NothingLost'
  <2>1. ASSUME NEW d \in Events, row'[d] = row[d], Settled(d)'
        PROVE  /\ row'[d].published => deliveries'[d] > 0
               /\ row'[d].dead => row'[d].attempts >= MaxAttempts
               /\ ~(row'[d].published /\ row'[d].dead)
               /\ row'[d].owner = Nobody
    BY <2>1, <1>2 DEF OutboxInv, NothingLost, Settled
  <2>2. CASE row' = row
    BY <2>1, <2>2 DEF NothingLost
  <2>3. CASE row' # row
    BY <2>1, <2>3, <1>1, <1>2, <1>5 DEF Settles, NothingLost, Settled
  <2> QED  BY <2>2, <2>3
<1>10. DeliveredBeforeAck'
  <2>1. ASSUME NEW v \in Workers, job'[v].step = "ack"
        PROVE  deliveries'[job'[v].event] > 0
    <3>1. v # w
      BY <2>1, <1>4
    <3> QED  BY <2>1, <3>1, <1>2, <1>3 DEF OutboxInv, DeliveredBeforeAck
  <2> QED  BY <2>1 DEF DeliveredBeforeAck
<1>11. OldByFault'
  BY <1>2 DEF OldByFault
<1> QED  BY <1>7, <1>8, <1>9, <1>10, <1>11 DEF OutboxInv

LEMMA LockExpiresInv ==
  ASSUME OutboxInv, NEW e \in Events, LockExpires(e)
  PROVE  OutboxInv'
<1>1. row[e] \in Row /\ row[e] # NoRow
  BY LockedRow DEF LockExpires, OutboxInv, NoRow
<1>2. /\ row' \in [Events -> Row \cup {NoRow}]
      /\ row'[e] = [row[e] EXCEPT !.old = TRUE]
      /\ \A d \in Events : d # e => row'[d] = row[d]
  BY <1>1 DEF LockExpires, OutboxInv, OutboxTypeOK, Row
<1>3. /\ row'[e].owner = row[e].owner /\ row'[e].attempts = row[e].attempts
      /\ row'[e].published = row[e].published /\ row'[e].dead = row[e].dead
  BY <1>1, <1>2 DEF Row
<1>4. /\ faults \in Nat /\ faults' \in 0..MaxFaults /\ faults' >= faults
      /\ row[e].owner # Gone => faults' > 0
  BY OutboxAssumption DEF LockExpires, Fault, OutboxInv, OutboxTypeOK
<1>5. job' = job /\ deliveries' = deliveries
  BY DEF LockExpires
<1>6. OutboxTypeOK'
  BY <1>2, <1>4, <1>5 DEF OutboxInv, OutboxTypeOK
<1>7. \A d \in Events : row'[d].owner = row[d].owner /\ row'[d].attempts = row[d].attempts
  BY <1>2, <1>3
<1>8. OneWorkerPerEvent'
  <2>1. ASSUME NEW v \in Workers, job[v] # IdleJob, row'[job[v].event].owner # v
        PROVE  faults' > 0
    <3>1. job[v].event \in Events
      BY <2>1 DEF OutboxInv, OutboxTypeOK, Job
    <3> QED  BY <2>1, <3>1, <1>4, <1>7 DEF OutboxInv, OneWorkerPerEvent, Owns
  <2> QED  BY <2>1, <1>5, <1>7 DEF OutboxInv, OneWorkerPerEvent, Owns
<1>9. NothingLost'
  BY <1>1, <1>2, <1>3, <1>5 DEF OutboxInv, NothingLost, Settled
<1>10. DeliveredBeforeAck'
  BY <1>5 DEF OutboxInv, DeliveredBeforeAck
<1>11. OldByFault'
  <2>1. ASSUME NEW d \in Events, row'[d].owner \in Workers, row'[d].old
        PROVE  faults' > 0
    <3>1. CASE d = e
      BY <2>1, <3>1, <1>3, <1>4, OutboxAssumption
    <3>2. CASE d # e
      BY <2>1, <3>2, <1>2, <1>4 DEF OutboxInv, OldByFault
    <3> QED  BY <3>1, <3>2
  <2> QED  BY <2>1 DEF OldByFault
<1> QED  BY <1>6, <1>8, <1>9, <1>10, <1>11 DEF OutboxInv

LEMMA RetryDueInv ==
  ASSUME OutboxInv, NEW e \in Events, RetryDue(e)
  PROVE  OutboxInv'
<1>1. row[e] \in Row /\ row[e] # NoRow
  BY LockedRow DEF RetryDue, OutboxInv
<1>2. /\ row' \in [Events -> Row \cup {NoRow}]
      /\ row'[e] = [row[e] EXCEPT !.due = TRUE]
      /\ \A d \in Events : d # e => row'[d] = row[d]
  BY <1>1 DEF RetryDue, OutboxInv, OutboxTypeOK, Row
<1>3. /\ row'[e].owner = row[e].owner /\ row'[e].attempts = row[e].attempts
      /\ row'[e].published = row[e].published /\ row'[e].dead = row[e].dead
      /\ row'[e].old = row[e].old
  BY <1>1, <1>2 DEF Row
<1>4. job' = job /\ deliveries' = deliveries /\ faults' = faults
  BY DEF RetryDue
<1>5. OutboxTypeOK'
  BY <1>2, <1>4 DEF OutboxInv, OutboxTypeOK
<1>6. \A d \in Events : row'[d].owner = row[d].owner /\ row'[d].attempts = row[d].attempts
                         /\ row'[d].old = row[d].old
  BY <1>2, <1>3
<1>7. OneWorkerPerEvent'
  <2>1. ASSUME NEW v \in Workers, job[v] # IdleJob, row'[job[v].event].owner # v
        PROVE  faults > 0
    <3>1. job[v].event \in Events
      BY <2>1 DEF OutboxInv, OutboxTypeOK, Job
    <3> QED  BY <2>1, <3>1, <1>6 DEF OutboxInv, OneWorkerPerEvent, Owns
  <2> QED  BY <2>1, <1>4, <1>6 DEF OutboxInv, OneWorkerPerEvent, Owns
<1>8. NothingLost'
  BY <1>1, <1>2, <1>3, <1>4 DEF OutboxInv, NothingLost, Settled
<1>9. DeliveredBeforeAck' /\ OldByFault'
  BY <1>4, <1>6 DEF OutboxInv, DeliveredBeforeAck, OldByFault
<1> QED  BY <1>5, <1>7, <1>8, <1>9 DEF OutboxInv

----------------------------------------------------------------------------
LEMMA NextInv ==
  ASSUME OutboxInv, [OutboxNext]_outboxVars
  PROVE  OutboxInv'
<1>1. ASSUME NEW e \in Events, Insert(e) \/ LockExpires(e) \/ RetryDue(e)
      PROVE  OutboxInv'
  BY <1>1, InsertInv, LockExpiresInv, RetryDueInv
<1>2. ASSUME NEW w \in Workers, NEW e \in Events, Claim(w, e)
      PROVE  OutboxInv'
  BY <1>2, ClaimInv
<1>3. ASSUME NEW w \in Workers, Publish(w) \/ Ack(w) \/ AckError(w)
      PROVE  OutboxInv'
  BY <1>3, PublishInv, AckInv, AckErrorInv
<1>4. ASSUME NEW w \in Workers, Fail(w) \/ Abort(w)
      PROVE  OutboxInv'
  BY <1>4, FailInv, AbortInv
<1>5. CASE UNCHANGED outboxVars
  BY <1>5 DEF outboxVars, OutboxInv, OutboxTypeOK, OneWorkerPerEvent, Owns,
       NothingLost, Settled,
             DeliveredBeforeAck, OldByFault
<1> QED  BY <1>1, <1>2, <1>3, <1>4, <1>5 DEF OutboxNext

(* The outbox keeps its types and what its two promises rest on. *)
THEOREM OutboxInvariant == OutboxSpec => []OutboxInv
  BY OutboxInitInv, NextInv, PTL DEF OutboxSpec

(* A lock names a worker that is at this very attempt, and no two workers  *)
(* deliver one event without a fault (claimNext, publishOne).              *)
THEOREM WorkersExclude == OutboxSpec => []OneWorkerPerEvent
<1>1. OutboxInv => OneWorkerPerEvent
  BY DEF OutboxInv
<1> QED  BY <1>1, OutboxInvariant, PTL

(* A published event has been received, a dead one had all its attempts,   *)
(* and none is both (publishOne).                                          *)
THEOREM NothingIsLost == OutboxSpec => []NothingLost
<1>1. OutboxInv => NothingLost
  BY DEF OutboxInv
<1> QED  BY <1>1, OutboxInvariant, PTL
=============================================================================
