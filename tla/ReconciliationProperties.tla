---------------------- MODULE ReconciliationProperties ----------------------
(***************************************************************************)
(* What the reconciliation list promises the operators who work from it.   *)
(***************************************************************************)
EXTENDS Reconciliation, SpineProperties

\* The list's SQL and the Go code that gives an item its reason and lets it be
\* inspected and marked are written apart; they name the same transfers, in
\* every state transfers get into: no item without a reason or that cannot be
\* opened, and no reason that never reaches the list.
ListMatchesReviewState ==
    \A t \in Existing : Issue(t) <=> ReviewReason(t) # "none"

\* Paging while transactions, marks and the clock go on: a walk shows every
\* item that was on the list from its beginning to its end, and none twice,
\* also when items have the same created_at, older rows appear late, or other
\* items leave the list between two pages.
WalkCoversList ==
    /\ IsInjective(walk.seen)
    /\ walk.done => walk.due \subseteq Range(walk.seen)

\* The provider's word and the books disagree only where no money can move any
\* more: a transfer the provider failed is never posted, and one the provider
\* made and the ledger did not is final or a reversal deficit.
BooksFollowProvider ==
    \A t \in Existing :
        /\ ReviewReason(t) # "provider_failed_ledger_posted"
        /\ ReviewReason(t) = "provider_succeeded_ledger_not_posted" =>
               ~IsOpen(t) /\ hold[t] # "active" /\ journal[t] = <<>>

-----------------------------------------------------------------------------
(***************************************************************************)
(* A rule of the documents that the code breaks.                           *)
(***************************************************************************)
\* "provider-unknown and manual-review cases remain visible"
\* (docs/SIMPLE_TRANSACTION_CBA_V0_1.md:55), except the very case an operator
\* marked as handled.
IssuesStayVisible ==
    \A t \in Existing :
        ReviewReason(t) \in {"provider_unknown", "manual_review"} =>
            Listed(t) \/ review[t].reason = ReviewReason(t)
=============================================================================
