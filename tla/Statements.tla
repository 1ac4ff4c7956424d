----------------------------- MODULE Statements -----------------------------
(***************************************************************************)
(* What an account's statement shows (ListTransactions,                    *)
(* sql_account_repository.go): the transfers of the account and those that *)
(* posted to it, each with a direction and a signed amount computed from   *)
(* the transfer's postings.  It reads the tables of TransferSpine and      *)
(* writes nothing.  It is paged like the list of Reconciliation.           *)
(***************************************************************************)
EXTENDS TransferSpine, Functions

\* The journal entry of t, if it posted to account a.
PostingsOn(t, a) ==
    IF transfers[t].journalled
    THEN {entry \in {journal[t][Len(journal[t])]} : a \in {entry.debit, entry.credit}}
    ELSE {}

StatementLines(a) ==
    {t \in Existing : transfers[t].account = a \/ PostingsOn(t, a) # {}}

\* The posting is on the account's normal side.
Increases(entry, a) == (a \in Customers) <=> (entry.credit = a)

\* Mutant: what has not posted is a debit.
ShownDirection_M(t, a) ==
    IF transfers[t].status = "succeeded" /\ \E entry \in PostingsOn(t, a) : Increases(entry, a)
    THEN "credit" ELSE "debit"

\* What has not posted is shown by the transfer's own direction.
ShownDirection(t, a) ==
    LET credit == IF transfers[t].status = "succeeded" /\ PostingsOn(t, a) # {}
                  THEN \E entry \in PostingsOn(t, a) : Increases(entry, a)
                  ELSE transfers[t].direction = "inbound"
    IN  IF credit THEN "credit" ELSE "debit"

\* Mutant: the sign is the transfer's own direction, on both sides.
SignedAmount_M(t, a) ==
    IF transfers[t].status # "succeeded" THEN 0
    ELSE IF transfers[t].direction = "inbound" THEN transfers[t].amount ELSE -transfers[t].amount

\* The amount of the posting, which counts only once the transfer succeeded.
SignedAmount(t, a) ==
    IF transfers[t].status # "succeeded" THEN 0
    ELSE SumFunction([entry \in PostingsOn(t, a) |->
                          IF Increases(entry, a) THEN entry.amount ELSE -entry.amount])
=============================================================================
