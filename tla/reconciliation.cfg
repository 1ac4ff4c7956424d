\* Inbound transfers that need attention, the list they are on and the marks operators leave.
CONSTANTS
    Customers = {c1}
    Settlement = {s1}
    DefaultSettlement = s1
    Opening <- MCOpening
    OpeningBalance = 1
    Amounts = {1}
    Keys = {k1}
    References = {r1}
    Events = {e1, e2}
    LienReferences = {}
    Endpoints = {"external_inbound", "requery"}
    MaxTransfers = 2
    MaxReviewing = 1
    StaleAfter = 0
    PageLimit = 1
    Resolutions = {"reviewed", "manual_followup_required"}
    MaxTime = 1
    Nil = Nil
    c1 = c1
    s1 = s1
    k1 = k1
    r1 = r1
    e1 = e1
    e2 = e2

SPECIFICATION ReconciliationSpec
SYMMETRY NameSymmetry
INVARIANTS
    ReconciliationTypeOK
    ListMatchesReviewState
    WalkCoversList
    BooksFollowProvider
