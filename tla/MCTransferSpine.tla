-------------------------- MODULE MCTransferSpine ---------------------------
(***************************************************************************)
(* Small instances of TransferSpine for TLC.                               *)
(*                                                                         *)
(* Every customer opens with the same balance and the names in a set are   *)
(* interchangeable, so the sets of names are symmetric: the specification  *)
(* never singles one out.                                                  *)
(***************************************************************************)
EXTENDS SpineProperties, TLC

CONSTANT OpeningBalance    \* ledger and available balance of every customer

MCOpening == [a \in Accounts |-> IF a \in Customers THEN OpeningBalance ELSE 0]

NameSymmetry ==
    Permutations(Customers) \cup Permutations(Keys) \cup Permutations(References)
        \cup Permutations(Events) \cup Permutations(LienReferences)
=============================================================================
