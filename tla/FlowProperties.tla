--------------------------- MODULE FlowProperties ---------------------------
(***************************************************************************)
(* What the external service promises about transfers that wait for their  *)
(* provider.                                                               *)
(***************************************************************************)
EXTENDS ExternalFlow, SpineProperties

\* Every step of the external service and its provider is a step of the
\* repository's transactions or changes none of its tables: the answers the
\* spine allows a provider are all the answers the service lets through.
ImplementsSpine == Spec

\* The provider is asked to make a transfer at most once per idempotency key,
\* however often and however concurrently the request is retried, also after
\* a call died (TestMockOutboundRouteConcurrentSameKeyCallsProviderOnce).
ProviderAskedOnce ==
    \A t \in Existing :
        /\ initiations[t] <= 1
        /\ \A u \in Existing \ {t} :
              transfers[u].key = transfers[t].key => initiations[u] + initiations[t] <= 1

\* Held money goes, or comes back, only as the provider's own record of that
\* very transfer said at some time: no timeout, stale answer, late completion
\* or restart consumes or releases a hold by itself.  ("When the provider later
\* succeeds", docs/ARCHITECTURE_DECISIONS.md:55.)  It holds where no two
\* transfers or events name one reference: the provider keeps one answer per
\* reference, and a requery of one transfer reads what it kept for another.
SettledAsReported ==
    \A t \in Existing :
        hold[t] \in {"consumed", "released"} => <<t, transfers[t].status>> \in reported

\* An open transfer the provider would answer a requery of.
Answerable(t) ==
    /\ t \in Existing
    /\ IsPending(t) /\ transfers[t].ledgerStatus = "pending"
    /\ memory[transfers[t].reference] # Forgotten
    /\ transfers[t].reference \notin requeryErrors

\* The accounts of t are not blocked against its success.
MaySucceed(t) ==
    EnforceTransferControls(Completion(t, transfers[t].reference, Outcome("success")))

\* The provider remembers a final outcome that the accounts allow.
Settleable(t) ==
    /\ Answerable(t)
    /\ \/ memory[transfers[t].reference].status = "failed"
       \/ memory[transfers[t].reference].status = "succeeded" /\ MaySucceed(t)

\* If an operator persists, no transfer stays open for ever while the provider
\* knows its outcome and its accounts allow it: the hold ends, the inbound
\* credit arrives, whatever calls die, answers grow stale, events overwrite the
\* provider's memory or accounts are frozen and unfrozen on the way.
AnsweredTransfersEnd == \A t \in Transfer : []<>~Settleable(t)

-----------------------------------------------------------------------------
(***************************************************************************)
(* Rules of the documents that the code breaks.                            *)
(***************************************************************************)
\* "Inbound success credits once." (docs/ARCHITECTURE_STATUS.md:99), of an
\* event whose result was delayed and is a success by now.
DelayedCreditsArrive ==
    \A t \in Transfer :
        []<>~(/\ Answerable(t) /\ MaySucceed(t)
              /\ memory[transfers[t].reference].delay = "elapsed")

\* "requery pending or provider-unknown mock external transfers" (README.md:41):
\* the provider can be asked about a transfer it left unknown.
UnknownCanBeRequeried ==
    \A t \in Existing :
        Requeryable(t) /\ transfers[t].providerStatus = "provider_unknown"
            => memory[transfers[t].reference] # Forgotten

=============================================================================
