\* A stale inbound transfer is marked as reviewed and requeried.
CONSTANTS
    Customers = {c1}
    Settlement = {s1}
    DefaultSettlement = s1
    Opening <- MCOpening
    OpeningBalance = 1
    Amounts = {1}
    Keys = {k1}
    References = {r1}
    Events = {e1, e2}
    LienReferences = {}
    Endpoints = {"external_inbound", "requery"}
    MaxTransfers = 1
    MaxReviewing = 0
    StaleAfter = 0
    PageLimit = 0
    Resolutions = {"reviewed"}
    MaxTime = 1
    Nil = Nil
    c1 = c1
    s1 = s1
    k1 = k1
    r1 = r1
    e1 = e1
    e2 = e2

SPECIFICATION ReconciliationSpec
SYMMETRY NameSymmetry
\* At MaxTransfers rows with nothing pending no call has anything left to do.
CHECK_DEADLOCK FALSE
INVARIANTS
    IssuesStayVisible
