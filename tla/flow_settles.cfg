\* Outbound and inbound transfers that may share a reference, delays, reviews, an operator who persists.
CONSTANTS
    Customers = {c1}
    Settlement = {s1}
    DefaultSettlement = s1
    Opening <- MCOpening
    OpeningBalance = 1
    Amounts = {1}
    Keys = {k1}
    References = {r1}
    Events = {e1}
    LienReferences = {}
    Endpoints = {"external_outbound", "external_inbound", "requery"}
    MaxTransfers = 2
    MaxReviewing = 1
    Scenarios = {"success", "timeout"}
    Overrides = {"success"}
    Delays = {"none", "waiting"}
    MaxAsked = 1
    MaxParsed = 1
    Nil = Nil
    c1 = c1
    e1 = e1
    k1 = k1
    r1 = r1
    s1 = s1

SPECIFICATION FairFlowSpec
PROPERTIES
    ImplementsSpine
    AnsweredTransfersEnd
