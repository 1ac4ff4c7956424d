\* Outbound transfers against the provider's memory: retries, lost calls, requeries, restarts, a freeze.
CONSTANTS
    Customers = {c1}
    Settlement = {s1}
    DefaultSettlement = s1
    Opening <- MCOpening
    OpeningBalance = 2
    Amounts = {1}
    Keys = {k1, k2}
    References = {}
    Events = {}
    LienReferences = {}
    Endpoints = {"external_outbound", "requery", "freeze"}
    MaxTransfers = 2
    MaxReviewing = 0
    Scenarios = {"success", "timeout"}
    Overrides = {"failed", "timeout"}
    Delays = {"none"}
    MaxAsked = 2
    MaxParsed = 0
    Nil = Nil
    c1 = c1
    k1 = k1
    k2 = k2
    s1 = s1

SPECIFICATION FairFlowSpec
INVARIANTS
    FlowTypeOK
    ProviderAskedOnce
    SettledAsReported
    OutcomesAreAudited
PROPERTIES
    ImplementsSpine
    AnsweredTransfersEnd
