\* Transactions that run at the same time, one statement after the other.
SPECIFICATION LocksSpec
CONSTANTS
    Calls = {p1, p2}
    Customers <- MCCustomers
    Settlement <- MCSettlement
    k1 = k1
    k2 = k2
    k3 = k3
    e1 = e1
    r1 = r1
    r2 = r2
    l1 = l1
    Keys = {k1, k2, k3}
    Events = {e1}
    References = {r1, r2}
    LienReferences = {l1}
    Requests <- MCRequests
    Tables <- MCTables
    OpeningBalance = 1
    MaxLiens = 2
    Nil = Nil
SYMMETRY CallSymmetry
INVARIANTS
    LocksTypeOK
    ActsOnWhatItCommitsTo
    BalancesMatchRows
    OnlyKnownDeadlocks
