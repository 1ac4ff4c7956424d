-------------------------- MODULE MCReconciliation --------------------------
(***************************************************************************)
(* Small instances of Reconciliation for TLC.                              *)
(***************************************************************************)
EXTENDS ReconciliationProperties, TLC

CONSTANT OpeningBalance    \* ledger and available balance of every customer

MCOpening == [a \in Accounts |-> IF a \in Customers THEN OpeningBalance ELSE 0]

NameSymmetry ==
    Permutations(Customers) \cup Permutations(Keys) \cup Permutations(References)
        \cup Permutations(Events)
=============================================================================
