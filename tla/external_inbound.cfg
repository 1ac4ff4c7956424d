\* Inbound events: duplicates, conflicts, reviews, requeries, an account frozen on the way.
CONSTANTS
    Customers = {c1, c2}
    Settlement = {s1}
    DefaultSettlement = s1
    Opening <- MCOpening
    OpeningBalance = 0
    Amounts = {1}
    Keys = {k1}
    References = {r1}
    Events = {e1, e2}
    LienReferences = {}
    Endpoints = {"external_inbound", "requery", "freeze"}
    MaxTransfers = 3
    MaxReviewing = 1
    Nil = Nil
    c1 = c1
    c2 = c2
    s1 = s1
    k1 = k1
    r1 = r1
    e1 = e1
    e2 = e2

SPECIFICATION Spec
SYMMETRY NameSymmetry
\* At MaxTransfers rows with nothing pending no call has anything left to do.
CHECK_DEADLOCK FALSE
INVARIANTS
    JournalMatchesOutcome
    KeyNamesOneTransfer
    PostedEventIsLinked
    OutcomesAreAudited
PROPERTIES
    BlockedAccountsKeepTheirMoney
    EventLinkIsPermanent
    StatementLinesStay
