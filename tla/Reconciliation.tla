--------------------------- MODULE Reconciliation ---------------------------
(***************************************************************************)
(* The operators' view of transfers that need attention                    *)
(* (sql_reconciliation_repository.go): a list derived from the transfers   *)
(* table, read page by page, and the marks operators leave on its items.   *)
(* Added to the transactions of TransferSpine, which run between pages and *)
(* between an item's appearance and its mark.                              *)
(*                                                                         *)
(* Time is a counter.  A transaction reads the clock before it commits, so *)
(* a row may appear with a created_at older than that of rows already      *)
(* there.  A marked transfer keeps its mark: no transaction of the spine   *)
(* writes the review columns.  Left out: the filters of the list by one    *)
(* status, and a caller's own stale_pending_minutes.                       *)
(***************************************************************************)
EXTENDS TransferSpine

CONSTANTS
    StaleAfter,     \* DefaultReconciliationStalePendingMinutes, in clock ticks
    PageLimit,      \* the page size of a walk through the list; 0: no walks
    Resolutions,    \* resolution statuses operators use
    MaxTime         \* bound on the clock

ReviewStatuses == {"reviewed", "resolved_no_action", "manual_followup_required"}

ASSUME ReconciliationAssumption ==
    /\ StaleAfter \in Nat /\ PageLimit \in Nat /\ MaxTime \in Nat
    /\ Resolutions \subseteq ReviewStatuses

VARIABLES
    now,          \* the clock
    createdAt,    \* transfers.created_at
    review,       \* transfers.review_status, and the review_reason its latest
                  \* audit event keeps
    walk          \* one operator's walk through the list, page by page

reconciliationVars == <<vars, now, createdAt, review, walk>>

NotReviewed == [status |-> "NULL", reason |-> "none"]

\* seen: the items of the pages so far.  done: the last page was not full.
\* due (no code keeps it): the items on the list ever since the walk began.
NoWalk == [seen |-> <<>>, due |-> {}, done |-> TRUE]

-----------------------------------------------------------------------------
Stale(t) == createdAt[t] < now - StaleAfter

\* Mutant: a transfer is stale one tick early.
Issue_M(t) ==
    \/ transfers[t].reconciliationStatus = "manual_review"
    \/ transfers[t].providerStatus = "provider_unknown"
    \/ transfers[t].ledgerStatus = "reversal_deficit"
    \/ transfers[t].providerStatus = "succeeded" /\ transfers[t].ledgerStatus # "posted"
    \/ transfers[t].ledgerStatus = "posted" /\ transfers[t].providerStatus = "failed"
    \/ transfers[t].status = "pending" /\ createdAt[t] <= now - StaleAfter

\* The condition of the list's SQL.
Issue(t) ==
    \/ transfers[t].reconciliationStatus = "manual_review"
    \/ transfers[t].providerStatus = "provider_unknown"
    \/ transfers[t].ledgerStatus = "reversal_deficit"
    \/ transfers[t].providerStatus = "succeeded" /\ transfers[t].ledgerStatus # "posted"
    \/ transfers[t].ledgerStatus = "posted" /\ transfers[t].providerStatus = "failed"
    \/ transfers[t].status = "pending" /\ Stale(t)

\* The reason an item is shown with, the first that applies.
ReviewReason(t) ==
    LET row == transfers[t]
    IN  IF row.ledgerStatus = "reversal_deficit" THEN "reversal_deficit"
        ELSE IF row.providerStatus = "provider_unknown" THEN "provider_unknown"
        ELSE IF row.providerStatus = "succeeded" /\ row.ledgerStatus # "posted"
             THEN "provider_succeeded_ledger_not_posted"
        ELSE IF row.providerStatus = "failed" /\ row.ledgerStatus = "posted"
             THEN "provider_failed_ledger_posted"
        ELSE IF row.reconciliationStatus = "manual_review" THEN "manual_review"
        ELSE IF row.status = "pending" /\ Stale(t) THEN "stale_pending"
        ELSE "none"

ReviewReasons ==
    {"reversal_deficit", "provider_unknown", "provider_succeeded_ledger_not_posted",
     "provider_failed_ledger_posted", "manual_review", "stale_pending", "none"}

Listed(t) == Issue(t) /\ review[t].status \in {"NULL", "manual_followup_required"}

Items == {t \in Existing : Listed(t)}

\* An item keeps its page once it has a mark, whatever became of its transfer.
Inspectable(t) == review[t].status # "NULL" \/ ReviewReason(t) # "none"

-----------------------------------------------------------------------------
ReconciliationTypeOK ==
    /\ now \in 0..MaxTime
    /\ createdAt \in [Transfer -> 0..MaxTime]
    /\ \A t \in Existing : createdAt[t] <= now
    /\ review \in [Transfer -> {NotReviewed} \cup [status : ReviewStatuses, reason : ReviewReasons]]
    /\ walk \in [seen : Seq(Transfer), due : SUBSET Transfer, done : BOOLEAN]

ReconciliationInit ==
    /\ Init
    /\ now = 0
    /\ createdAt = [t \in Transfer |-> 0]
    /\ review = [t \in Transfer |-> NotReviewed]
    /\ walk = NoWalk

-----------------------------------------------------------------------------
\* The list is ordered by created_at and id, the newest first.  (Ids are random
\* in the code; here a row created later has the greater one.)
Newer(t, u) == createdAt[t] > createdAt[u] \/ (createdAt[t] = createdAt[u] /\ t > u)

\* Mutant: only the created_at of the last item is passed.
Before_M(t) ==
    walk.seen = <<>> \/ createdAt[t] < createdAt[walk.seen[Len(walk.seen)]]

\* The caller passes the created_at and the id of the last item it has.
Before(t) == walk.seen = <<>> \/ Newer(walk.seen[Len(walk.seen)], t)

\* The first PageLimit items of a set, as the query returns them.
Page(S) ==
    LET Rank(t) == Cardinality({u \in S : Newer(u, t)}) + 1
        size == IF Cardinality(S) < PageLimit THEN Cardinality(S) ELSE PageLimit
    IN  [i \in 1..size |-> CHOOSE t \in S : Rank(t) = i]

BeginWalk ==
    /\ PageLimit > 0 /\ walk.done
    /\ walk' = [seen |-> Page(Items), due |-> Items, done |-> Len(Page(Items)) < PageLimit]
    /\ UNCHANGED <<vars, now, createdAt, review>>

ListReconciliationItems ==
    LET page == Page({t \in Items : Before(t)})
    IN  /\ ~walk.done
        /\ walk' = [walk EXCEPT !.seen = @ \o page, !.done = Len(page) < PageLimit]
        /\ UNCHANGED <<vars, now, createdAt, review>>

\* What stays on the list while everything else happens.
StillDue == walk' = [walk EXCEPT !.due = {t \in @ : Listed(t)'}]

\* Mutant: the mark goes by the transfer's status.
MarkReconciliationItemReviewed_M(t, status) ==
    /\ t \in Existing
    /\ Inspectable(t)
    /\ review' = [review EXCEPT ![t] = [status |-> transfers[t].status, reason |-> ReviewReason(t)]]
    /\ UNCHANGED <<vars, now, createdAt>>
    /\ StillDue

MarkReconciliationItemReviewed(t, status) ==
    /\ t \in Existing
    /\ Inspectable(t)
    /\ review' = [review EXCEPT ![t] = [status |-> status, reason |-> ReviewReason(t)]]
    /\ UNCHANGED <<vars, now, createdAt>>
    /\ StillDue

Tick ==
    /\ now < MaxTime
    /\ now' = now + 1
    /\ UNCHANGED <<vars, createdAt, review>>
    /\ StillDue

\* Any transaction of the spine.
Transact ==
    /\ Next
    /\ IF count' > count
       THEN \E at \in 0..now : createdAt' = [createdAt EXCEPT ![count'] = at]
       ELSE UNCHANGED createdAt
    /\ UNCHANGED <<now, review>>
    /\ StillDue

ReconciliationNext ==
    \/ Transact
    \/ Tick
    \/ \E t \in Transfer, status \in Resolutions : MarkReconciliationItemReviewed(t, status)
    \/ BeginWalk
    \/ ListReconciliationItems

ReconciliationSpec == ReconciliationInit /\ [][ReconciliationNext]_reconciliationVars
=============================================================================
