------------------------- MODULE StockLedger_proofs -------------------------
(***************************************************************************)
(* The promises of the abstract ledger, for every set of items and every   *)
(* bound.  The inductive invariant adds to them that loans name existing   *)
(* items and that an item without a row counts nothing.  Conservation is   *)
(* what makes a return safe: the pieces a loan withholds are known to be   *)
(* missing from the shelf, so putting them back cannot exceed the total.   *)
(***************************************************************************)
EXTENDS StockLedger, Sums_proofs, SequenceTheorems

(* A loan table and what its rows withhold from item i, row by row. *)
LoanTable == {L \in Seq(LoanRow) : Len(L) <= MaxLoans}

Column(L, i) ==
    [l \in 1..MaxLoans |->
        IF l <= Len(L) /\ L[l].item = i /\ L[l].state \in {"OUT", "LOST"}
        THEN L[l].quantity ELSE 0]

Total(L, i) == SumOf(Column(L, i), MaxLoans)

LoansNameItems ==
    /\ \A l \in 1..Len(loans) : items[loans[l].item].status # "NONE"
    /\ \A i \in Items : items[i].status = "NONE" => items[i].total = items[i].available

LedgerInv ==
    /\ TypeOK
    /\ Conservation
    /\ StockInBounds
    /\ NoLoanLeftBehind
    /\ LoansNameItems

----------------------------------------------------------------------------
LEMMA LoanRows ==
  ASSUME NEW L \in LoanTable, NEW l \in 1..Len(L)
  PROVE  L[l] \in LoanRow /\ L[l].item \in Items /\ L[l].quantity \in Nat
<1>1. L[l] \in LoanRow
  BY DEF LoanTable
<1> QED BY <1>1 DEF LoanRow

LEMMA ColumnType ==
  ASSUME NEW L \in LoanTable, NEW i \in Items
  PROVE  /\ Column(L, i) \in [1..MaxLoans -> Int]
         /\ \A l \in 1..MaxLoans : Column(L, i)[l] >= 0
<1>1. \A l \in 1..Len(L) : L[l].quantity \in Nat
  BY LoanRows
<1> QED BY <1>1, LedgerBounds DEF LoanTable, Column

(* What is withheld is never negative. *)
LEMMA TotalType ==
  ASSUME NEW L \in LoanTable, NEW i \in Items
  PROVE  Total(L, i) \in Nat
BY ColumnType, SumOfType, LedgerBounds DEF Total

(* A new loan withholds its quantity from its own item. *)
LEMMA AppendTotal ==
  ASSUME NEW L \in LoanTable, Len(L) < MaxLoans, NEW row \in LoanRow,
         row.state = "OUT", NEW i \in Items
  PROVE  /\ Append(L, row) \in LoanTable
         /\ Total(Append(L, row), i) =
              Total(L, i) + (IF row.item = i THEN row.quantity ELSE 0)
<1> DEFINE M == Append(L, row)
           r == Len(L) + 1
           d == IF row.item = i THEN row.quantity ELSE 0
<1>1. /\ Len(M) = Len(L) + 1
      /\ M[r] = row
      /\ \A l \in 1..Len(L) : M[l] = L[l]
      /\ M \in LoanTable
  <2>1. L \in Seq(LoanRow) /\ Len(L) <= MaxLoans
    BY DEF LoanTable
  <2>2. /\ Len(M) = Len(L) + 1
        /\ M[r] = row
        /\ \A l \in 1..Len(L) : M[l] = L[l]
        /\ M \in Seq(LoanRow)
    BY <2>1, AppendProperties
  <2> QED BY <2>1, <2>2, LedgerBounds DEF LoanTable
<1>2. r \in 1..MaxLoans /\ d \in Int
  BY LedgerBounds DEF LoanTable, LoanRow
<1> HIDE DEF M
<1>3. Column(M, i)[r] = Column(L, i)[r] + d
  BY <1>1, <1>2 DEF Column, LoanTable, LoanRow
<1>4. \A l \in 1..MaxLoans : l # r => Column(M, i)[l] = Column(L, i)[l]
  BY <1>1 DEF Column, LoanTable
<1> HIDE DEF d, r
<1>5. SumOf(Column(M, i), MaxLoans) = SumOf(Column(L, i), MaxLoans) + d
  BY <1>1, <1>2, <1>3, <1>4, ColumnType, SumOfChange, LedgerBounds
<1> QED BY <1>1, <1>5 DEF Total, M, d

(* Closing a loan gives back its quantity, unless the item was lost. *)
LEMMA CloseTotal ==
  ASSUME NEW L \in LoanTable, NEW r \in 1..Len(L), L[r].state = "OUT",
         NEW c \in Conditions, NEW i \in Items
  PROVE  /\ [L EXCEPT ![r].state = c] \in LoanTable
         /\ Total([L EXCEPT ![r].state = c], i) =
              Total(L, i) - (IF L[r].item = i /\ c # "LOST"
                             THEN L[r].quantity ELSE 0)
<1> DEFINE M == [L EXCEPT ![r].state = c]
           d == IF L[r].item = i /\ c # "LOST" THEN -L[r].quantity ELSE 0
<1>1. L[r] \in LoanRow
  BY DEF LoanTable
<1>2. /\ Len(M) = Len(L)
      /\ M[r] = [L[r] EXCEPT !.state = c]
      /\ \A l \in 1..Len(L) : l # r => M[l] = L[l]
  BY DEF LoanTable
<1>3. [L[r] EXCEPT !.state = c] \in LoanRow
  BY <1>1 DEF LoanRow, Conditions
<1>4. M \in LoanTable
  BY <1>2, <1>3 DEF LoanTable
<1>5. r \in 1..MaxLoans /\ d \in Int
  BY <1>1, LedgerBounds DEF LoanTable, LoanRow
<1> HIDE DEF M
<1>6. Column(M, i)[r] = Column(L, i)[r] + d
  BY <1>1, <1>2, <1>5 DEF Column, LoanTable, LoanRow, Conditions
<1>7. \A l \in 1..MaxLoans : l # r => Column(M, i)[l] = Column(L, i)[l]
  BY <1>2 DEF Column, LoanTable
<1>8. SumOf(Column(M, i), MaxLoans) = SumOf(Column(L, i), MaxLoans) + d
  <2> HIDE DEF d
  <2> QED BY <1>4, <1>5, <1>6, <1>7, ColumnType, SumOfChange, LedgerBounds
<1>9. Total(M, i) = Total(L, i) + d /\ Total(L, i) \in Int
  BY <1>8, TotalType DEF Total
<1>10. L[r].quantity \in Nat
  BY <1>1 DEF LoanRow
<1>11. Total(M, i) = Total(L, i) - (IF L[r].item = i /\ c # "LOST"
                                    THEN L[r].quantity ELSE 0)
  BY <1>9, <1>10
<1> QED BY <1>4, <1>11 DEF M

(* An empty loan table withholds nothing. *)
LEMMA EmptyTotal ==
  ASSUME NEW i \in Items
  PROVE  Total(<<>>, i) = 0
<1>1. <<>> \in LoanTable
  BY LedgerBounds DEF LoanTable
<1>2. \A l \in 1..MaxLoans : Column(<<>>, i)[l] = 0
  BY DEF Column
<1> QED BY <1>1, <1>2, ColumnType, SumOfType, LedgerBounds DEF Total

(* The books in terms of the loan table. *)
LEMMA WithheldIsTotal ==
  ASSUME NEW i \in Items
  PROVE  WithheldTotal(i) = Total(loans, i) /\ WithheldTotal(i)' = Total(loans', i)
BY DEF WithheldTotal, Withheld, Total, Column

(* With the books balanced, an available quantity that is not negative is  *)
(* within bounds.                                                          *)
LEMMA BalancedInBounds ==
  ASSUME NEW row \in ItemRow, NEW L \in LoanTable, NEW i \in Items,
         row.total - row.available = Total(L, i), row.available >= 0
  PROVE  row.available \in 0..row.total
<1>1. row.total \in Int /\ row.available \in Int
  BY DEF ItemRow
<1> QED BY <1>1, TotalType

----------------------------------------------------------------------------
LEMMA LedgerInit == Init => LedgerInv
<1> SUFFICES ASSUME Init PROVE LedgerInv
  OBVIOUS
<1>1. TypeOK
  BY LedgerBounds DEF Init, TypeOK, ItemRow
<1>2. Conservation
  BY EmptyTotal, WithheldIsTotal DEF Conservation, Init
<1> QED
  BY <1>1, <1>2
     DEF LedgerInv, Init, StockInBounds, NoLoanLeftBehind, OutOf, LoansNameItems

(* The part of the invariant that does not depend on the action: a step    *)
(* that keeps the types, balances the books of every item and leaves no    *)
(* negative stock keeps every quantity in bounds.                          *)
LEMMA BoundsFollow ==
  ASSUME TypeOK', Conservation', \A i \in Items : items'[i].available >= 0
  PROVE  StockInBounds'
<1>1. ASSUME NEW i \in Items
      PROVE  items'[i].available \in 0..items'[i].total
  <2>1. items'[i] \in ItemRow /\ loans' \in LoanTable
    BY DEF TypeOK, LoanTable
  <2>2. items'[i].total - items'[i].available = Total(loans', i)
    BY WithheldIsTotal DEF Conservation
  <2> QED BY <2>1, <2>2, BalancedInBounds
<1> QED BY <1>1 DEF StockInBounds

LEMMA LedgerFacts ==
  ASSUME LedgerInv
  PROVE  /\ loans \in LoanTable
         /\ \A i \in Items : /\ items[i] \in ItemRow
                             /\ items[i].total \in Int
                             /\ items[i].available \in Int
                             /\ items[i].available >= 0
                             /\ items[i].total >= items[i].available
                             /\ items[i].total - items[i].available = Total(loans, i)
<1>1. /\ loans \in LoanTable
      /\ \A i \in Items : items[i] \in ItemRow
  BY DEF LedgerInv, TypeOK, LoanTable
<1>2. \A i \in Items : /\ items[i].total \in Int
                      /\ items[i].available \in Int
  BY <1>1 DEF ItemRow
<1>3. \A i \in Items : items[i].available \in 0..items[i].total
  BY DEF LedgerInv, StockInBounds
<1>4. \A i \in Items : items[i].total - items[i].available = Total(loans, i)
  BY WithheldIsTotal DEF LedgerInv, Conservation
<1> QED BY <1>1, <1>2, <1>3, <1>4

LEMMA CreateStep ==
  ASSUME LedgerInv, NEW i \in Items, NEW total \in 0..MaxTotal, Create(i, total)
  PROVE  LedgerInv'
<1> DEFINE row == [status |-> "ACTIVE", total |-> total, available |-> total]
<1>1. /\ items[i].status = "NONE"
      /\ items' = [items EXCEPT ![i] = row]
      /\ loans' = loans
  BY DEF Create
<1>2. row \in ItemRow /\ total \in Int /\ total >= 0
  BY LedgerBounds DEF ItemRow
<1>3. TypeOK'
  BY <1>1, <1>2 DEF LedgerInv, TypeOK
<1>4. \A j \in Items : items'[j] = IF j = i THEN row ELSE items[j]
  BY <1>1 DEF LedgerInv, TypeOK
<1>5. Conservation'
  <2>1. ASSUME NEW j \in Items
        PROVE  items'[j].total - items'[j].available = Total(loans', j)
    <3>1. CASE j = i
      <4>1. Total(loans, i) = 0
        BY <1>1, LedgerFacts DEF LedgerInv, LoansNameItems
      <4> QED BY <3>1, <4>1, <1>1, <1>2, <1>4
    <3>2. CASE j # i
      BY <3>2, <1>1, <1>4, LedgerFacts
    <3> QED BY <3>1, <3>2
  <2> QED BY <2>1, WithheldIsTotal DEF Conservation
<1>6. StockInBounds'
  <2>1. \A j \in Items : items'[j].available >= 0
    BY <1>2, <1>4, LedgerFacts
  <2> QED BY <2>1, <1>3, <1>5, BoundsFollow
<1>7. NoLoanLeftBehind' /\ LoansNameItems'
  BY <1>1, <1>4 DEF LedgerInv, NoLoanLeftBehind, LoansNameItems, OutOf, TypeOK
<1> QED BY <1>3, <1>5, <1>6, <1>7 DEF LedgerInv

LEMMA UpdateStep ==
  ASSUME LedgerInv, NEW i \in Items, NEW total \in 0..MaxTotal, Update(i, total)
  PROVE  LedgerInv'
<1> DEFINE unavailable == items[i].total - items[i].available
<1>1. /\ items[i].status = "ACTIVE"
      /\ total >= unavailable
      /\ items' = [items EXCEPT ![i].total = total,
                                ![i].available = total - unavailable]
      /\ loans' = loans
  BY DEF Update
<1>2. /\ unavailable \in Int /\ total \in Int
      /\ unavailable = Total(loans, i)
  BY LedgerFacts, LedgerBounds
<1> HIDE DEF unavailable
<1>3. /\ items'[i].status = "ACTIVE"
      /\ items'[i].total = total
      /\ items'[i].available = total - unavailable
      /\ items'[i] \in ItemRow
      /\ \A j \in Items : j # i => items'[j] = items[j]
  <2>1. items \in [Items -> ItemRow] /\ items[i] \in ItemRow
    BY DEF LedgerInv, TypeOK
  <2>2. items'[i] = [items[i] EXCEPT !.total = total,
                                    !.available = total - unavailable]
    BY <1>1, <2>1
  <2>3. total - unavailable \in Int
    BY <1>2
  <2>4. items'[i] \in ItemRow
    BY <1>2, <2>1, <2>2, <2>3 DEF ItemRow
  <2> QED BY <1>1, <2>1, <2>2, <2>4 DEF ItemRow
<1>4. TypeOK'
  BY <1>1, <1>3 DEF LedgerInv, TypeOK
<1>5. Conservation'
  <2>1. ASSUME NEW j \in Items
        PROVE  items'[j].total - items'[j].available = Total(loans', j)
    <3>1. CASE j = i
      BY <3>1, <1>1, <1>2, <1>3
    <3>2. CASE j # i
      BY <3>2, <1>1, <1>3, LedgerFacts
    <3> QED BY <3>1, <3>2
  <2> QED BY <2>1, WithheldIsTotal DEF Conservation
<1>6. StockInBounds'
  <2>1. items'[i].available >= 0
    BY <1>1, <1>2, <1>3
  <2>2. \A j \in Items : j # i => items'[j].available >= 0
    BY <1>3, LedgerFacts
  <2> QED BY <2>1, <2>2, <1>4, <1>5, BoundsFollow
<1>7. \A j \in Items : items'[j].status = items[j].status
  BY <1>1, <1>3
<1>8. NoLoanLeftBehind' /\ LoansNameItems'
  <2>1. \A l \in 1..Len(loans) : loans[l].item \in Items
    BY LedgerFacts, LoanRows
  <2> QED
    BY <1>1, <1>3, <1>7, <2>1 DEF LedgerInv, NoLoanLeftBehind, LoansNameItems, OutOf
<1> QED BY <1>4, <1>5, <1>6, <1>8 DEF LedgerInv

LEMMA DeactivateStep ==
  ASSUME LedgerInv, NEW i \in Items, Deactivate(i)
  PROVE  LedgerInv'
<1>1. /\ items[i].status = "ACTIVE"
      /\ OutOf(i) = {}
      /\ items' = [items EXCEPT ![i].status = "INACTIVE"]
      /\ loans' = loans
  BY DEF Deactivate
<1>2. /\ items'[i].status = "INACTIVE"
      /\ items'[i] \in ItemRow
      /\ \A j \in Items : /\ items'[j].total = items[j].total
                          /\ items'[j].available = items[j].available
                          /\ j # i => items'[j] = items[j]
  BY <1>1, LedgerFacts DEF LedgerInv, TypeOK, ItemRow
<1>3. TypeOK'
  BY <1>1, <1>2 DEF LedgerInv, TypeOK
<1>4. Conservation'
  BY <1>1, <1>2, LedgerFacts, WithheldIsTotal DEF Conservation
<1>5. StockInBounds'
  BY <1>2 DEF LedgerInv, StockInBounds
<1>6. NoLoanLeftBehind' /\ LoansNameItems'
  <2>1. \A l \in 1..Len(loans) : loans[l].item \in Items
    BY LedgerFacts, LoanRows
  <2> QED
    BY <1>1, <1>2, <2>1 DEF LedgerInv, NoLoanLeftBehind, LoansNameItems, OutOf
<1> QED BY <1>3, <1>4, <1>5, <1>6 DEF LedgerInv

LEMMA CheckoutStep ==
  ASSUME LedgerInv, NEW i \in Items, NEW quantity \in 1..MaxTotal,
         Checkout(i, quantity)
  PROVE  LedgerInv'
<1> DEFINE row == [item |-> i, quantity |-> quantity, state |-> "OUT"]
<1>1. /\ items[i].status = "ACTIVE"
      /\ quantity <= items[i].available
      /\ Len(loans) < MaxLoans
      /\ loans' = Append(loans, row)
      /\ items' = [items EXCEPT ![i].available = @ - quantity]
  BY DEF Checkout
<1>2. quantity \in Nat /\ row \in LoanRow
  BY LedgerBounds DEF LoanRow
<1>3. /\ items'[i].status = "ACTIVE"
      /\ items'[i].total = items[i].total
      /\ items'[i].available = items[i].available - quantity
      /\ items'[i] \in ItemRow
      /\ \A j \in Items : j # i => items'[j] = items[j]
  BY <1>1, <1>2, LedgerFacts DEF LedgerInv, TypeOK, ItemRow
<1>4. /\ loans' \in LoanTable
      /\ \A j \in Items : Total(loans', j) =
              Total(loans, j) + (IF j = i THEN quantity ELSE 0)
  <2> HIDE DEF row
  <2>1. row.state = "OUT" /\ row.item = i /\ row.quantity = quantity
    BY DEF row
  <2> QED BY <2>1, <1>1, <1>2, LedgerFacts, AppendTotal
<1>5. TypeOK'
  BY <1>1, <1>3, <1>4 DEF LedgerInv, TypeOK, LoanTable
<1>6. Conservation'
  <2>1. ASSUME NEW j \in Items
        PROVE  items'[j].total - items'[j].available = Total(loans', j)
    <3>1. CASE j = i
      BY <3>1, <1>2, <1>3, <1>4, LedgerFacts
    <3>2. CASE j # i
      BY <3>2, <1>3, <1>4, LedgerFacts, TotalType
    <3> QED BY <3>1, <3>2
  <2> QED BY <2>1, WithheldIsTotal DEF Conservation
<1>7. StockInBounds'
  <2>1. \A j \in Items : items'[j].available >= 0
    BY <1>1, <1>2, <1>3, LedgerFacts
  <2> QED BY <2>1, <1>5, <1>6, BoundsFollow
<1>8. /\ Len(loans') = Len(loans) + 1
      /\ loans'[Len(loans) + 1] = row
      /\ \A l \in 1..Len(loans) : loans'[l] = loans[l] /\ loans[l].item \in Items
  <2>1. loans \in Seq(LoanRow)
    BY LedgerFacts DEF LoanTable
  <2>2. \A l \in 1..Len(loans) : loans[l].item \in Items
    BY LedgerFacts, LoanRows
  <2> HIDE DEF row
  <2> QED BY <2>1, <2>2, <1>1, <1>2, AppendProperties
<1>9. NoLoanLeftBehind'
  <2>1. ASSUME NEW j \in Items, items'[j].status = "INACTIVE",
               NEW l \in 1..Len(loans'), loans'[l].item = j, loans'[l].state = "OUT"
        PROVE  FALSE
    <3>1. j # i /\ items[j].status = "INACTIVE"
      BY <2>1, <1>3
    <3>2. l \in 1..Len(loans) /\ loans[l] = loans'[l]
      BY <2>1, <3>1, <1>8, LedgerFacts DEF LoanTable
    <3> QED BY <2>1, <3>1, <3>2 DEF LedgerInv, NoLoanLeftBehind, OutOf
  <2> QED BY <2>1 DEF NoLoanLeftBehind, OutOf
<1>10. LoansNameItems'
  <2>1. ASSUME NEW l \in 1..Len(loans')
        PROVE  items'[loans'[l].item].status # "NONE"
    <3>1. CASE l = Len(loans) + 1
      BY <3>1, <1>3, <1>8
    <3>2. CASE l # Len(loans) + 1
      <4>1. l \in 1..Len(loans)
        BY <3>2, <1>8, LedgerFacts DEF LoanTable
      <4> QED BY <4>1, <1>3, <1>8 DEF LedgerInv, LoansNameItems
    <3> QED BY <3>1, <3>2
  <2> QED BY <2>1, <1>3 DEF LedgerInv, LoansNameItems
<1> QED BY <1>5, <1>6, <1>7, <1>9, <1>10 DEF LedgerInv

LEMMA ReturnStep ==
  ASSUME LedgerInv, NEW l \in 1..Len(loans), NEW condition \in Conditions,
         Return(l, condition)
  PROVE  LedgerInv'
<1> DEFINE i == loans[l].item
           restored == IF condition = "LOST" THEN 0 ELSE loans[l].quantity
<1>1. /\ loans[l].state = "OUT"
      /\ loans' = [loans EXCEPT ![l].state = condition]
      /\ items' = [items EXCEPT ![i].available = @ + restored]
  BY DEF Return
<1>2. /\ loans[l] \in LoanRow
      /\ i \in Items
      /\ restored \in Nat
  BY LedgerFacts, LoanRows
<1>3. /\ items'[i].status = items[i].status
      /\ items'[i].total = items[i].total
      /\ items'[i].available = items[i].available + restored
      /\ items'[i] \in ItemRow
      /\ \A j \in Items : j # i => items'[j] = items[j]
  <2> HIDE DEF restored, i
  <2>1. items \in [Items -> ItemRow]
    BY DEF LedgerInv, TypeOK
  <2>2. items[i].available \in Int
    BY <1>2, LedgerFacts
  <2>3. items'[i] = [items[i] EXCEPT !.available = @ + restored]
    BY <1>1, <1>2, <2>1
  <2>4. items[i] \in ItemRow
    BY <1>2, <2>1
  <2>5. items'[i] \in ItemRow
    BY <1>2, <2>2, <2>3, <2>4 DEF ItemRow
  <2> QED BY <1>1, <1>2, <2>1, <2>3, <2>4, <2>5 DEF ItemRow
<1>4. /\ loans' \in LoanTable
      /\ \A j \in Items : Total(loans', j) =
              Total(loans, j) - (IF j = i THEN restored ELSE 0)
  <2>1. ASSUME NEW j \in Items
        PROVE  /\ loans' \in LoanTable
               /\ Total(loans', j) = Total(loans, j)
                    - (IF i = j /\ condition # "LOST" THEN loans[l].quantity ELSE 0)
    <3>1. loans \in LoanTable
      BY LedgerFacts
    <3> HIDE DEF restored
    <3> QED BY <3>1, <1>1, CloseTotal
  <2>2. ASSUME NEW j \in Items
        PROVE  Total(loans', j) = Total(loans, j) - (IF j = i THEN restored ELSE 0)
    BY <2>1
  <2> QED BY <2>1, <2>2, <1>2
<1>5. TypeOK'
  BY <1>1, <1>2, <1>3, <1>4 DEF LedgerInv, TypeOK, LoanTable
<1>6. Conservation'
  <2>1. ASSUME NEW j \in Items
        PROVE  items'[j].total - items'[j].available = Total(loans', j)
    <3> HIDE DEF restored, i
    <3>1. CASE j = i
      BY <3>1, <1>2, <1>3, <1>4, LedgerFacts
    <3>2. CASE j # i
      BY <3>2, <1>3, <1>4, LedgerFacts, TotalType
    <3> QED BY <3>1, <3>2
  <2> QED BY <2>1, WithheldIsTotal DEF Conservation
<1>7. StockInBounds'
  <2> HIDE DEF restored, i
  <2>1. \A j \in Items : items'[j].available >= 0
    BY <1>2, <1>3, LedgerFacts
  <2> QED BY <2>1, <1>5, <1>6, BoundsFollow
<1>8. /\ Len(loans') = Len(loans)
      /\ \A k \in 1..Len(loans) : /\ loans[k].item \in Items
                                  /\ loans'[k].item = loans[k].item
                                  /\ loans'[k].state = "OUT" => loans[k].state = "OUT"
  <2>1. \A k \in 1..Len(loans) : loans[k] \in LoanRow
    BY LedgerFacts DEF LoanTable
  <2> QED BY <1>1, <2>1, LedgerFacts DEF LoanTable, LoanRow, Conditions
<1>9. \A j \in Items : items'[j].status = items[j].status
  BY <1>3
<1>10. NoLoanLeftBehind'
  BY <1>8, <1>9 DEF LedgerInv, NoLoanLeftBehind, OutOf
<1>11. LoansNameItems'
  BY <1>1, <1>3, <1>8, <1>9 DEF LedgerInv, LoansNameItems
<1> QED BY <1>5, <1>6, <1>7, <1>10, <1>11 DEF LedgerInv

LEMMA LedgerStep == LedgerInv /\ [Next]_ledger => LedgerInv'
<1> SUFFICES ASSUME LedgerInv, [Next]_ledger PROVE LedgerInv'
  OBVIOUS
<1>1. CASE UNCHANGED ledger
  BY <1>1 DEF LedgerInv, ledger, TypeOK, Conservation, WithheldTotal, Withheld,
              StockInBounds, NoLoanLeftBehind, OutOf, LoansNameItems
<1>2. CASE Next
  BY <1>2, CreateStep, UpdateStep, DeactivateStep, CheckoutStep, ReturnStep DEF Next
<1> QED BY <1>1, <1>2

(* Every step of the ledger keeps its invariant. *)
THEOREM LedgerInvariant == Spec => []LedgerInv
BY LedgerInit, LedgerStep, PTL DEF Spec

(* The books balance, quantities stay in 0..total and no loan is left on   *)
(* an inactive item, for every number of items, loans and pieces.          *)
THEOREM LedgerSafe == Spec => [](Conservation /\ StockInBounds /\ NoLoanLeftBehind)
<1>1. LedgerInv => Conservation /\ StockInBounds /\ NoLoanLeftBehind
  BY DEF LedgerInv
<1> QED BY <1>1, LedgerInvariant, PTL
=============================================================================
