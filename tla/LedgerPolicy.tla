---------------------------- MODULE LedgerPolicy ----------------------------
(***************************************************************************)
(* The decisions the core-banking repository takes without touching the    *)
(* database: the account controls and overdraft rules of policy.go, the    *)
(* statuses a transfer gets from its outcome, and the arithmetic of one    *)
(* double-entry journal posting (sql_ledger_repository.go).  No variables. *)
(*                                                                         *)
(* A customer account is credit-normal and never allows a negative balance *)
(* (service.go:108 refuses it); an internal settlement account is          *)
(* debit-normal and allows one, so the set an account belongs to fixes its *)
(* kind, its normal balance and its overdraft flag.                        *)
(*                                                                         *)
(* An operator whose name ends in _M is a mutated form of the operator     *)
(* below it: the same code with one plausible mistake.  No specification   *)
(* uses it; PROJECT.json names the property that notices the mistake.      *)
(***************************************************************************)
EXTENDS Integers

CONSTANTS Customers,      \* accounts of kind 'customer'
          Settlement      \* accounts of kind 'internal'

ASSUME AccountsAssumption == Customers \cap Settlement = {}

Accounts == Customers \cup Settlement

\* The value of reversal_of_transfer_id in a transfer that is no reversal.
NotReversal == 0

\* A customer's request to send money, as opposed to taking a credit back.
CustomerInitiatedOutbound(in) ==
    in.direction = "outbound" /\ in.reversalOf = NotReversal

CanUseAvailableBalance_M(account, available, amount) ==
    account \in Settlement \/ available + 1 >= amount

CanUseAvailableBalance(account, available, amount) ==
    account \in Settlement \/ available >= amount

\* The sender's side (account) and the other side (clearing) of a request.
EnforcePrimaryAccountControls_M(in, status) ==
    in.account \in Customers => (status = "post_no_debit" => in.direction # "outbound")

EnforcePrimaryAccountControls(in, status) ==
    in.account \in Customers =>
        /\ status \notin {"frozen", "closed"}
        /\ status = "post_no_debit" => in.direction # "outbound"

EnforceCounterpartyAccountControls_M(in, status) == TRUE

EnforceCounterpartyAccountControls(in, status) ==
    in.clearing \in Customers => status \notin {"frozen", "closed"}

\* Posting this reversal would take the customer's ledger below zero.
WouldCreateReversalDeficit(in, ledgerBalance) ==
    /\ in.reversalOf # NotReversal
    /\ in.direction = "outbound"
    /\ in.account \in Customers
    /\ ledgerBalance - in.amount < 0

\* A provider that does not know the outcome leaves the transfer pending.
EffectiveStatus(in) ==
    IF in.providerStatus = "provider_unknown" THEN "pending" ELSE in.status

LedgerStatusOf_M(status) ==
    CASE status = "succeeded" -> "posted"
      [] OTHER                -> status

\* ledger_status and reconciliation_status of a transfer with this outcome.
LedgerStatusOf(status) ==
    CASE status = "succeeded" -> "posted"
      [] status = "failed"    -> "no_posting"
      [] OTHER                -> "pending"

ReconciliationStatusOf(status, providerStatus) ==
    IF providerStatus = "provider_unknown" THEN "manual_review"
    ELSE CASE status = "succeeded" -> "matched"
           [] status = "failed"    -> "no_action"
           [] OTHER                -> "pending"

-----------------------------------------------------------------------------
\* The journal entry of a request: money leaves the account on an outbound
\* one and reaches it on an inbound one.
JournalEntry(in) ==
    IF in.direction = "outbound"
    THEN [debit |-> in.account,  credit |-> in.clearing, amount |-> in.amount]
    ELSE [debit |-> in.clearing, credit |-> in.account,  amount |-> in.amount]

LedgerDelta_M(entry, a) ==
    CASE a \notin {entry.debit, entry.credit} -> 0
      [] a = entry.debit                      -> -entry.amount
      [] OTHER                                -> entry.amount

\* How one entry moves the ledger balance of account a: a posting on the
\* account's normal side increases it, the opposite one decreases it.
LedgerDelta(entry, a) ==
    IF a \notin {entry.debit, entry.credit} THEN 0
    ELSE IF (a \in Settlement) <=> (a = entry.debit) THEN entry.amount
    ELSE -entry.amount
=============================================================================
