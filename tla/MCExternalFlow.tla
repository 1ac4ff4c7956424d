--------------------------- MODULE MCExternalFlow ---------------------------
(***************************************************************************)
(* Small instances of ExternalFlow for TLC.  The runs of liveness          *)
(* properties use no symmetry.                                             *)
(***************************************************************************)
EXTENDS FlowProperties, TLC

CONSTANT OpeningBalance    \* ledger and available balance of every customer

MCOpening == [a \in Accounts |-> IF a \in Customers THEN OpeningBalance ELSE 0]

NameSymmetry ==
    Permutations(Customers) \cup Permutations(Keys) \cup Permutations(References)
        \cup Permutations(Events)
=============================================================================
