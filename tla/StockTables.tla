---------------------------- MODULE StockTables ----------------------------
(* The rows of the tables items and loans (db/migrations/001_init.sql).    *)
EXTENDS Integers, Sequences

CONSTANTS
    Items,      \* item codes (items.code is unique)
    MaxLoans,   \* bound: how many loans are ever made
    MaxTotal    \* bound: largest total quantity an operator types in

ASSUME LedgerBounds == MaxLoans \in Nat /\ MaxTotal \in Nat

Conditions == {"GOOD", "DAMAGED", "LOST"}      \* loans.return_condition

(* A row of items; "NONE" stands for a code that has no row yet. *)
ItemRow == [status: {"NONE", "ACTIVE", "INACTIVE"}, total: Int, available: Int]

(* A row of loans: returned_at is null while the state is "OUT". *)
LoanRow == [item: Items, quantity: Nat, state: {"OUT"} \cup Conditions]
=============================================================================
