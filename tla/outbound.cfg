\* Outbound transfers: the external service's and the demo routes', requeries, reversals, liens.
CONSTANTS
    Customers = {c1}
    Settlement = {s1}
    DefaultSettlement = s1
    Opening <- MCOpening
    OpeningBalance = 1
    Amounts = {1}
    Keys = {k1, k2, k3}
    References = {r1}
    Events = {e1}
    LienReferences = {l1}
    Endpoints = {"external_outbound", "requery", "reversal", "mock_outbound", "mock_final", "mock_webhook"}
    MaxTransfers = 3
    MaxReviewing = 0
    Nil = Nil
    c1 = c1
    s1 = s1
    k1 = k1
    k2 = k2
    k3 = k3
    r1 = r1
    l1 = l1
    e1 = e1

SPECIFICATION Spec
SYMMETRY NameSymmetry
\* At MaxTransfers rows with nothing pending no call has anything left to do.
CHECK_DEADLOCK FALSE
INVARIANTS
    TypeOK
    AvailableIsLedgerLessHolds
    HoldMirrorsTransfer
    PostedEventIsLinked
PROPERTIES
    NoOverspend
    OutcomeIsFinal
    EventLinkIsPermanent
    ImplementsMoneyMovement
