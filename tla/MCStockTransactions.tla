------------------------ MODULE MCStockTransactions ------------------------
(* Two items, two connections, two loans of at most two pieces. *)
EXTENDS StockTransactions
=============================================================================
