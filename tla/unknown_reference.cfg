\* An outbound transfer that timed out at the provider.
CONSTANTS
    Customers = {c1}
    Settlement = {s1}
    DefaultSettlement = s1
    Opening <- MCOpening
    OpeningBalance = 1
    Amounts = {1}
    Keys = {k1, k2}
    References = {}
    Events = {}
    LienReferences = {}
    Endpoints = {"external_outbound", "requery"}
    MaxTransfers = 2
    MaxReviewing = 0
    Scenarios = {"success", "pending", "failed", "timeout", "provider_unknown"}
    Overrides = {"success", "failed", "timeout"}
    Delays = {"none"}
    MaxAsked = 1
    MaxParsed = 0
    Nil = Nil
    c1 = c1
    k1 = k1
    k2 = k2
    s1 = s1

SPECIFICATION FlowSpec
SYMMETRY NameSymmetry
INVARIANTS
    UnknownCanBeRequeried
