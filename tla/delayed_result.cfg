\* An inbound event whose result is delayed, and an operator who persists.
CONSTANTS
    Customers = {c1}
    Settlement = {s1}
    DefaultSettlement = s1
    Opening <- MCOpening
    OpeningBalance = 1
    Amounts = {1}
    Keys = {k1}
    References = {r1}
    Events = {e1}
    LienReferences = {}
    Endpoints = {"external_inbound", "requery"}
    MaxTransfers = 1
    MaxReviewing = 0
    Scenarios = {"success", "pending", "failed", "timeout", "provider_unknown"}
    Overrides = {}
    Delays = {"none", "waiting"}
    MaxAsked = 1
    MaxParsed = 1
    Nil = Nil
    c1 = c1
    e1 = e1
    k1 = k1
    r1 = r1
    s1 = s1

SPECIFICATION FairFlowSpec
PROPERTIES
    DelayedCreditsArrive
