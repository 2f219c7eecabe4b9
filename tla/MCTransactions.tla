--------------------------- MODULE MCTransactions ---------------------------
(* Callers over a small pool; the .cfg file gives the constants.           *)
EXTENDS Transactions
=============================================================================
