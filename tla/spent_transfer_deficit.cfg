\* An internal transfer is reversed after its recipient spent the money.
CONSTANTS
    Customers = {c1, c2}
    Settlement = {s1}
    DefaultSettlement = s1
    Opening <- MCOpening
    OpeningBalance = 1
    Amounts = {1, 2}
    Keys = {k1, k2, k3}
    References = {r1}
    Events = {}
    LienReferences = {}
    Endpoints = {"internal_debit", "internal_transfer", "reversal"}
    MaxTransfers = 3
    MaxReviewing = 0
    Nil = Nil
    c1 = c1
    c2 = c2
    s1 = s1
    k1 = k1
    k2 = k2
    k3 = k3
    r1 = r1

SPECIFICATION Spec
SYMMETRY NameSymmetry
\* At MaxTransfers rows with nothing pending no call has anything left to do.
CHECK_DEADLOCK FALSE
INVARIANTS
    DeficitsAreVisible
