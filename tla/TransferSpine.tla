--------------------------- MODULE TransferSpine ----------------------------
(***************************************************************************)
(* The money-moving transactions of the core-banking repository: what      *)
(* sql_transfer_repository.go, sql_holds.go, sql_ledger_repository.go,     *)
(* sql_provider_event_repository.go and sql_account_controls.go do to the  *)
(* accounts, transfers, holds, journals and provider events of ONE         *)
(* institution in one currency.                                            *)
(*                                                                         *)
(* Atomicity.  Each action is one WithTx transaction (transaction.go): it  *)
(* commits whole or leaves no trace.  The advisory locks on the replay     *)
(* keys and the FOR UPDATE locks on transfers, accounts and balances       *)
(* serialise the transactions that meet, so steps interleave only between  *)
(* transactions.  A call that returns an error, or finds that its work is  *)
(* already done, changes nothing: it is a stuttering step.                 *)
(*                                                                         *)
(* The service layer reads account statuses BEFORE its transaction and     *)
(* without a lock.  A call may be delayed for ever between that read and   *)
(* the transaction, and every account starts active, so the unlocked reads *)
(* guard nothing here: only what the transaction checks itself does.       *)
(* Where a call makes a second transaction on what the first one told it,  *)
(* the call waits in calling or reviewing between the two, and may be lost *)
(* there (a crash, a cancelled request).                                   *)
(*                                                                         *)
(* Abstractions.  Names, narrations and failure reasons are left out.  Row *)
(* ids are 1, 2, ... in order of creation, so the smaller id is the older  *)
(* row.  Provider events come from one provider.  A transfer hold has the  *)
(* account and the amount of its transfer, which never change, so only its *)
(* status is kept.  Operators named _M are mutated forms (LedgerPolicy).   *)
(***************************************************************************)
EXTENDS LedgerPolicy, Sequences, FiniteSets

CONSTANTS
    DefaultSettlement, \* what GetDefaultInternalSettlementAccount returns
    Opening,           \* ledger balance of each account before the history
    Amounts,           \* amounts, in minor units, that requests may name
    Keys,              \* idempotency keys callers may choose
    References,        \* provider references callers may choose
    Events,            \* provider event ids
    LienReferences,    \* references of account liens
    Endpoints,         \* the operations the server offers in this instance
    MaxTransfers,      \* bound on the number of transfer rows
    MaxReviewing,      \* bound on inbound calls between their transactions
    Nil                \* SQL NULL or the empty string

Transfer == 1..MaxTransfers

ASSUME SpineAssumption ==
    /\ DefaultSettlement \in Settlement
    /\ Opening \in [Accounts -> Int]
    /\ \A c \in Customers : Opening[c] >= 0
    /\ Amounts \subseteq Nat \ {0}
    /\ MaxTransfers \in Nat
    /\ MaxReviewing \in Nat
    /\ Nil \notin Accounts \cup Keys \cup References \cup Events

VARIABLES
    accountStatus, \* accounts.status
    ledger,        \* account_balances.ledger_minor
    available,     \* account_balances.available_minor
    count,         \* number of rows in transfers
    transfers,     \* the transfers table
    hold,          \* status of the account_holds row of a transfer
    journal,       \* journal_entries and postings of a transfer, in order
    lien,          \* the active lien with a reference (transfer_id NULL)
    events,        \* the provider_events table
    audit,         \* <<transfer, status>> of the audit_events on transfers
    calling,       \* transfers whose initiating call awaits the provider
    reviewing      \* inbound calls about to record their event for review

vars == <<accountStatus, ledger, available, count, transfers, hold, journal,
          lien, events, audit, calling, reviewing>>

-----------------------------------------------------------------------------
(***************************************************************************)
(* Requests: the RecordTransferInput each endpoint builds.                 *)
(***************************************************************************)
Directions == {"inbound", "outbound"}
Statuses == {"succeeded", "pending", "failed"}
ProviderStatuses == Statuses \cup {"provider_unknown"}
Providers == {"ledger_internal", "mock_nip"}
Operations == {"internal_credit", "internal_debit", "internal_transfer", "external_outbound",
               "external_inbound", "mock_outbound", "mock_final", "mock_webhook", "reversal"}

Form(op, direction, statuses, accounts, clearing, provider, keys, refs, evs, reject, require) ==
    {in \in [op: {op}, direction: {direction}, status: statuses, providerStatus: statuses,
             account: accounts, clearing: clearing, amount: Amounts, provider: {provider},
             key: keys, reference: refs, event: evs, reversalOf: {NotReversal},
             rejectInsufficient: {reject}, requireAvailable: {require}] :
        in.providerStatus = in.status}

Optional(S) == S \cup {Nil}

InternalCredit ==
    Form("internal_credit", "inbound", {"succeeded"}, Customers, Settlement,
         "ledger_internal", Keys, Optional(References), {Nil}, FALSE, FALSE)

InternalDebit ==
    Form("internal_debit", "outbound", {"succeeded"}, Customers, Settlement,
         "ledger_internal", Keys, Optional(References), {Nil}, TRUE, FALSE)

InternalTransfer ==
    Form("internal_transfer", "outbound", {"succeeded"}, Customers, Customers,
         "ledger_internal", Keys, Optional(References), {Nil}, TRUE, TRUE)

\* The hold taken before the provider is called; the reference defaults to
\* the idempotency key.
ExternalOutboundTransfer ==
    {in \in Form("external_outbound", "outbound", {"pending"}, Customers, {DefaultSettlement},
                 "mock_nip", Keys, References \cup Keys, {Nil}, TRUE, TRUE) :
        in.reference \in References \cup {in.key}}

InboundKey(event) == <<"external-inbound", event>>

\* An inbound event for a customer account the institution knows.
ExternalInboundEvent ==
    UNION {Form("external_inbound", "inbound", Statuses, Customers, {DefaultSettlement},
                "mock_nip", {InboundKey(e)}, References, {e}, FALSE, FALSE) : e \in Events}

\* Demo routes: MockOutbound reserves like the external one but records a
\* failed transfer instead of refusing it; with an explicit final status it
\* records that outcome; MockProviderWebhook (and MockInbound, which calls it)
\* records any event.  The reference a webhook gets when it names none is just
\* one that no other request names.
MockOutbound ==
    Form("mock_outbound", "outbound", {"pending"}, Customers, {DefaultSettlement},
         "mock_nip", Keys, Optional(References), {Nil}, FALSE, FALSE)

MockOutboundFinal ==
    Form("mock_final", "outbound", {"succeeded", "failed"}, Customers, {DefaultSettlement},
         "mock_nip", Keys, References, Optional(Events), FALSE, FALSE)

MockProviderWebhook ==
    UNION {Form("mock_webhook", d, Statuses, Customers, {DefaultSettlement},
                "mock_nip", Keys, References, Events, FALSE, FALSE) : d \in Directions}

Requests ==
    {in \in UNION {InternalCredit, InternalDebit, InternalTransfer, ExternalOutboundTransfer,
                   ExternalInboundEvent, MockOutbound, MockOutboundFinal, MockProviderWebhook} :
        in.op \in Endpoints}

InboundEvents == {in \in Requests : in.op = "external_inbound"}

\* transferRequestFingerprint: everything in the request but its key.
Fingerprint(in) == [in EXCEPT !.key = Nil]

\* What a provider may answer about a transfer it was asked to make.
ProviderResult ==
    {res \in [status: Statuses, providerStatus: ProviderStatuses, event: Optional(Events)] :
        \/ res.providerStatus = res.status
        \/ res.providerStatus = "provider_unknown" /\ res.status = "pending"}

-----------------------------------------------------------------------------
(***************************************************************************)
(* The types of the state.                                                 *)
(***************************************************************************)
Reference ==
    Optional(References) \cup Keys
        \cup ({"mock-nip-out"} \X Transfer)
        \cup ({"reversal"} \X (References \cup Keys
                                 \cup ({"id", "mock-nip-out"} \X Transfer)))

FingerprintType ==
    [op: Operations, direction: Directions, status: Statuses, providerStatus: Statuses,
     account: Optional(Accounts), clearing: Accounts, amount: Amounts, provider: Providers,
     key: {Nil}, reference: Reference, event: Optional(Events),
     reversalOf: Transfer \cup {NotReversal},
     rejectInsufficient: BOOLEAN, requireAvailable: BOOLEAN]

Key == Keys \cup ({"external-inbound"} \X Events)
            \cup ({"external-inbound-review"} \X FingerprintType)

Row ==
    [account: Accounts, direction: Directions \cup {"reversal"}, status: Statuses,
     providerStatus: ProviderStatuses,
     ledgerStatus: {"pending", "posted", "no_posting", "reversal_deficit"},
     reconciliationStatus: {"pending", "matched", "no_action", "manual_review"},
     amount: Amounts, key: Key, provider: Providers, reference: Reference,
     event: Optional(Events), journalled: BOOLEAN, reversalOf: Transfer \cup {NotReversal},
     fingerprint: FingerprintType]

\* A slot of the transfers table not yet used.
NoRow == [status |-> "none"]
NoEventRow == [transfer |-> 0, fingerprint |-> Nil]
NoLien == [account |-> Nil, amount |-> 0]

Entry == [debit: Accounts, credit: Accounts, amount: Amounts]

TypeOK ==
    /\ accountStatus \in [Accounts -> {"active", "frozen", "post_no_debit"}]
    /\ ledger \in [Accounts -> Int]
    /\ available \in [Accounts -> Int]
    /\ count \in 0..MaxTransfers
    /\ transfers \in [Transfer -> Row \cup {NoRow}]
    /\ \A t \in Transfer : t <= count <=> transfers[t] # NoRow
    /\ hold \in [Transfer -> {"none", "active", "released", "consumed"}]
    /\ journal \in [Transfer -> Seq(Entry)]
    /\ lien \in [LienReferences -> [account: Customers, amount: Amounts] \cup {NoLien}]
    /\ events \in [Events -> [transfer: Transfer, fingerprint: FingerprintType] \cup {NoEventRow}]
    /\ audit \subseteq Transfer \X Statuses
    /\ calling \subseteq Transfer
    /\ reviewing \subseteq InboundEvents \X {"blocked", "conflict"}

Init ==
    /\ accountStatus = [a \in Accounts |-> "active"]
    /\ ledger = Opening
    /\ available = Opening
    /\ count = 0
    /\ transfers = [t \in Transfer |-> NoRow]
    /\ hold = [t \in Transfer |-> "none"]
    /\ journal = [t \in Transfer |-> <<>>]
    /\ lien = [r \in LienReferences |-> NoLien]
    /\ events = [e \in Events |-> NoEventRow]
    /\ audit = {}
    /\ calling = {}
    /\ reviewing = {}

-----------------------------------------------------------------------------
(***************************************************************************)
(* Lookups.                                                                *)
(***************************************************************************)
Existing == 1..count

KeyUnused_M(key) == TRUE

KeyUnused(key) == \A t \in Existing : transfers[t].key # key

EventUnused_M(event) == TRUE

EventUnused(event) == event # Nil => events[event].transfer = 0

SameReference(t, in) ==
    /\ transfers[t].provider = in.provider
    /\ transfers[t].reference = in.reference
    /\ transfers[t].direction = in.direction

PendingByReference(in) ==
    {t \in Existing : SameReference(t, in) /\ transfers[t].status = "pending"}

SettledByReference(in) ==
    {t \in Existing : SameReference(t, in) /\ transfers[t].status # "pending"}

Oldest(S) == CHOOSE t \in S : \A u \in S : t <= u

\* Only a request with a final outcome looks for transfers with its reference.
MatchesByReference(in) == in.reference # Nil /\ in.status # "pending"

\* The idempotency key and the provider event are both new.
Fresh(in) == KeyUnused(in.key) /\ EventUnused(in.event)

SettlesByReference(in) ==
    Fresh(in) /\ MatchesByReference(in) /\ PendingByReference(in) # {}

CreatesTransfer_M(in) ==
    Fresh(in) /\ (MatchesByReference(in) => PendingByReference(in) = {})

CreatesTransfer(in) ==
    /\ Fresh(in)
    /\ MatchesByReference(in) =>
           PendingByReference(in) = {} /\ SettledByReference(in) = {}

CounterpartyAccount_M(t) == DefaultSettlement

\* The other account of a posted transfer, read from its postings.
CounterpartyAccount(t) ==
    LET entry == journal[t][Len(journal[t])]
    IN  IF entry.debit = transfers[t].account THEN entry.credit ELSE entry.debit

SameTransferReplayByFields(t, in) ==
    /\ SameReference(t, in)
    /\ transfers[t].account = in.account
    /\ transfers[t].amount = in.amount
    /\ transfers[t].reversalOf = in.reversalOf
    /\ transfers[t].journalled
    /\ CounterpartyAccount(t) = in.clearing

\* RecordTransfer refuses the request as a different one under a known key,
\* event or reference.  The settled row compared is the one updated last;
\* marking a reconciliation item as reviewed updates a row too, so it may be
\* any of them.
RecordConflicts(in) ==
    \/ \E t \in Existing : transfers[t].key = in.key /\ transfers[t].fingerprint # Fingerprint(in)
    \/ /\ KeyUnused(in.key)
       /\ ~EventUnused(in.event)
       /\ events[in.event].fingerprint # Fingerprint(in)
    \/ /\ SettlesByReference(in)
       /\ LET t == Oldest(PendingByReference(in))
          IN  transfers[t].account # in.account \/ transfers[t].amount # in.amount
    \/ /\ Fresh(in) /\ MatchesByReference(in) /\ PendingByReference(in) = {}
       /\ \E t \in SettledByReference(in) : ~SameTransferReplayByFields(t, in)

-----------------------------------------------------------------------------
(***************************************************************************)
(* The pieces transactions are made of.                                    *)
(***************************************************************************)
EnforceTransferControls(in) ==
    /\ in.account # in.clearing
    /\ EnforcePrimaryAccountControls(in, accountStatus[in.account])
    /\ EnforceCounterpartyAccountControls(in, accountStatus[in.clearing])

PostJournal_M(t, in, held) ==
    LET entry == JournalEntry(in)
    IN  /\ journal' = [journal EXCEPT ![t] = Append(@, entry)]
        /\ ledger' = [a \in Accounts |-> ledger[a] + LedgerDelta(entry, a)]
        /\ available' = [a \in Accounts |-> available[a] + LedgerDelta(entry, a)]

\* Post the journal entry of a request.  The available balance of an account
\* whose hold is being consumed was already reduced when it was placed.
PostJournal(t, in, held) ==
    LET entry == JournalEntry(in)
    IN  /\ journal' = [journal EXCEPT ![t] = Append(@, entry)]
        /\ ledger' = [a \in Accounts |-> ledger[a] + LedgerDelta(entry, a)]
        /\ available' = [a \in Accounts |->
                            available[a] + (IF a = held THEN 0 ELSE LedgerDelta(entry, a))]

NoPosting == UNCHANGED <<ledger, journal>>

CreateHold(t, in) ==
    /\ hold' = [hold EXCEPT ![t] = "active"]
    /\ available' = [available EXCEPT ![in.account] = @ - in.amount]

ReleaseHold_M(t) ==
    /\ hold' = [hold EXCEPT ![t] = "released"]
    /\ available' = available

\* A hold that is not active is left alone.
ReleaseHold(t) ==
    IF hold[t] = "active"
    THEN /\ hold' = [hold EXCEPT ![t] = "released"]
         /\ available' = [available EXCEPT ![transfers[t].account] = @ + transfers[t].amount]
    ELSE UNCHANGED <<hold, available>>

ConsumeHold_M(t) == hold[t] = "active" /\ UNCHANGED hold

ConsumeHold(t) ==
    /\ hold[t] = "active"
    /\ hold' = [hold EXCEPT ![t] = "consumed"]

\* provider_events: reserve the event and link it to its transfer.
ReserveEvent(event, fingerprint, t) ==
    events' = IF event = Nil THEN events
              ELSE [events EXCEPT ![event] = [transfer |-> t, fingerprint |-> fingerprint]]

AuditExternalInbound_M(t, row) ==
    IF row.direction = "inbound" /\ row.provider # "ledger_internal" /\ row.status = "succeeded"
    THEN {<<t, row.status>>} ELSE {}

AuditExternalInbound(t, row) ==
    IF row.direction = "inbound" /\ row.provider # "ledger_internal" /\ row.reversalOf = NotReversal
    THEN {<<t, row.status>>} ELSE {}

AuditExternalOutbound_M(t, row) ==
    IF row.provider # "ledger_internal" /\ row.status = "succeeded" THEN {<<t, row.status>>} ELSE {}

AuditExternalOutbound(t, row) ==
    IF row.provider # "ledger_internal" THEN {<<t, row.status>>} ELSE {}

AuditPostedInternal(t, row) ==
    IF row.status = "succeeded" /\ row.provider = "ledger_internal" /\ row.reversalOf = NotReversal
    THEN {<<t, row.status>>} ELSE {}

AuditTransfer(t, row) ==
    audit' = audit \cup AuditExternalInbound(t, row) \cup AuditPostedInternal(t, row)

-----------------------------------------------------------------------------
(***************************************************************************)
(* recordTransfer: a request under a new key and event settles the oldest  *)
(* pending transfer with its reference, or creates a transfer.             *)
(***************************************************************************)
Insufficient_M(in) ==
    CustomerInitiatedOutbound(in) /\ ~CanUseAvailableBalance(in.account, ledger[in.account], in.amount)

Insufficient(in) ==
    /\ CustomerInitiatedOutbound(in)
    /\ \/ ~CanUseAvailableBalance(in.account, available[in.account], in.amount)
       \/ in.requireAvailable /\ available[in.account] < in.amount

CreatedStatus(in) == IF Insufficient(in) THEN "failed" ELSE EffectiveStatus(in)

CreatedRow(in) ==
    LET status  == CreatedStatus(in)
        deficit == status = "succeeded" /\ WouldCreateReversalDeficit(in, ledger[in.account])
    IN  [account |-> in.account,
         direction |-> IF in.reversalOf = NotReversal THEN in.direction ELSE "reversal",
         status |-> status,
         providerStatus |-> in.providerStatus,
         ledgerStatus |-> IF deficit THEN "reversal_deficit" ELSE LedgerStatusOf(status),
         reconciliationStatus |-> IF deficit THEN "manual_review"
                                  ELSE ReconciliationStatusOf(status, in.providerStatus),
         amount |-> in.amount, key |-> in.key, provider |-> in.provider,
         reference |-> in.reference, event |-> in.event,
         journalled |-> status = "succeeded", reversalOf |-> in.reversalOf,
         fingerprint |-> Fingerprint(in)]

\* The operations that call the provider once their transfer is recorded.
InitiatingOps == {"external_outbound", "mock_outbound"}

CreateTransfer(in) ==
    LET t == count + 1
        status == CreatedStatus(in)
    IN  /\ count < MaxTransfers
        /\ EnforceTransferControls(in)
        /\ ~(Insufficient(in) /\ in.rejectInsufficient)
        /\ count' = t
        /\ transfers' = [transfers EXCEPT ![t] = CreatedRow(in)]
        /\ \/ /\ status = "succeeded"
              /\ PostJournal(t, in, Nil) /\ UNCHANGED hold
           \/ /\ status = "pending" /\ CustomerInitiatedOutbound(in)
              /\ CreateHold(t, in) /\ NoPosting
           \/ /\ status = "failed" \/ (status = "pending" /\ ~CustomerInitiatedOutbound(in))
              /\ NoPosting /\ UNCHANGED <<hold, available>>
        /\ ReserveEvent(in.event, Fingerprint(in), t)
        /\ AuditTransfer(t, CreatedRow(in))
        /\ calling' = IF status = "pending" /\ in.op \in InitiatingOps THEN calling \cup {t} ELSE calling
        /\ UNCHANGED <<accountStatus, lien, reviewing>>

SettledRow_M(t, in) ==
    [transfers[t] EXCEPT !.status = in.status,
                         !.providerStatus = in.providerStatus,
                         !.reconciliationStatus = ReconciliationStatusOf(in.status, in.providerStatus),
                         !.reference = in.reference,
                         !.journalled = (in.status = "succeeded")]

\* The transfer row once the provider's final answer is known.
SettledRow(t, in) ==
    [transfers[t] EXCEPT !.status = in.status,
                         !.providerStatus = in.providerStatus,
                         !.ledgerStatus = LedgerStatusOf(in.status),
                         !.reconciliationStatus = ReconciliationStatusOf(in.status, in.providerStatus),
                         !.reference = in.reference,
                         !.event = IF in.event = Nil THEN @ ELSE in.event,
                         !.journalled = (in.status = "succeeded")]

\* The money effect of a final answer on a pending transfer.
SettleMoney(t, in) ==
    \/ /\ in.status = "succeeded"
       /\ EnforceTransferControls(in)
       /\ IF in.direction = "outbound"
          THEN PostJournal(t, in, in.account) /\ ConsumeHold(t)
          ELSE PostJournal(t, in, Nil) /\ UNCHANGED hold
    \/ /\ in.status = "failed"
       /\ ReleaseHold(t)
       /\ NoPosting

SettlePendingTransfer(t, in) ==
    /\ transfers[t].account = in.account
    /\ transfers[t].amount = in.amount
    /\ SettleMoney(t, in)
    /\ transfers' = [transfers EXCEPT ![t] = SettledRow(t, in)]
    /\ ReserveEvent(in.event, Fingerprint(in), t)
    /\ AuditTransfer(t, SettledRow(t, in))
    /\ UNCHANGED <<accountStatus, count, lien, calling, reviewing>>

RecordTransfer(in) ==
    \/ SettlesByReference(in) /\ SettlePendingTransfer(Oldest(PendingByReference(in)), in)
    \/ CreatesTransfer(in) /\ CreateTransfer(in)

-----------------------------------------------------------------------------
(***************************************************************************)
(* A provider's answer about one transfer: from the call that initiated it *)
(* (late, or never if that call crashed) or from a requery.                *)
(***************************************************************************)
IsPending_M(t) == TRUE

IsPending(t) == transfers[t].status = "pending"

\* The completion input: the transfer's own fields, the reference the provider
\* was asked about, and its answer.
Completion(t, reference, res) ==
    LET row == transfers[t]
    IN  [op |-> row.fingerprint.op, direction |-> row.direction, status |-> res.status,
         providerStatus |-> res.providerStatus, account |-> row.account,
         clearing |-> DefaultSettlement, amount |-> row.amount, provider |-> row.provider,
         key |-> row.key, event |-> res.event, reversalOf |-> NotReversal,
         reference |-> reference, rejectInsufficient |-> FALSE, requireAvailable |-> FALSE]

\* completeExternalOutboundTransfer on a transfer that is still pending.  An
\* event already recorded for another transfer makes it a replay or a
\* conflict, and no step.
CompleteOutbound(t, reference, res) ==
    LET in == Completion(t, reference, res)
        stillPending == EffectiveStatus(in) = "pending"
        updated == [SettledRow(t, in) EXCEPT !.status = EffectiveStatus(in)]
    IN  /\ IsPending(t)
        /\ transfers[t].direction = "outbound"
        /\ EventUnused(in.event)
        /\ \/ SettleMoney(t, in) /\ ~stillPending
           \/ stillPending /\ hold[t] = "active" /\ UNCHANGED <<hold, available>> /\ NoPosting
        /\ transfers' = [transfers EXCEPT ![t] = updated]
        /\ ReserveEvent(in.event, transfers[t].fingerprint, t)
        /\ audit' = audit \cup AuditExternalOutbound(t, updated)
        /\ UNCHANGED <<accountStatus, count, lien, reviewing>>

\* The initiating call hands over the provider's first answer.  Only the demo
\* route passes an event id to the provider.
CompleteExternalOutboundTransfer(t, res) ==
    LET intended == transfers[t].fingerprint.reference
    IN  /\ t \in calling
        /\ transfers[t].fingerprint.op = "external_outbound" => res.event = Nil
        /\ CompleteOutbound(t, IF intended = Nil THEN <<"mock-nip-out", t>> ELSE intended, res)
        /\ calling' = calling \ {t}

UpdatePendingInbound(t, in) ==
    LET updated == [transfers[t] EXCEPT
                        !.providerStatus = in.providerStatus,
                        !.ledgerStatus = "pending",
                        !.reconciliationStatus = ReconciliationStatusOf("pending", in.providerStatus)]
    IN  /\ transfers' = [transfers EXCEPT ![t] = updated]
        /\ AuditTransfer(t, updated)
        /\ UNCHANGED <<accountStatus, ledger, available, count, hold, journal, lien, events,
                       calling, reviewing>>

Requeryable_M(t) ==
    /\ transfers[t].provider # "ledger_internal"
    /\ IsPending(t)
    /\ transfers[t].ledgerStatus = "pending"
    /\ transfers[t].providerStatus = "provider_unknown"

Requeryable(t) ==
    /\ transfers[t].provider # "ledger_internal"
    /\ IsPending(t)
    /\ transfers[t].ledgerStatus = "pending"
    /\ transfers[t].providerStatus \in {"pending", "provider_unknown"}

\* The caller may name the reference of a transfer that has none yet.
CompleteExternalTransferRequery(t, reference, res) ==
    /\ "requery" \in Endpoints
    /\ t \in Existing
    /\ res.event = Nil
    /\ Requeryable(t)
    /\ reference # Nil
    /\ transfers[t].reference \in {Nil, reference}
    /\ \/ transfers[t].direction = "outbound"
          /\ CompleteOutbound(t, reference, res) /\ UNCHANGED calling
       \/ /\ transfers[t].direction = "inbound"
          /\ res.status = "pending"
          /\ UpdatePendingInbound(t, Completion(t, reference, res))
       \/ /\ transfers[t].direction = "inbound"
          /\ res.status # "pending"
          /\ SettlePendingTransfer(t, Completion(t, reference, res))

-----------------------------------------------------------------------------
(***************************************************************************)
(* ReverseTransfer: a new transfer, posted at once, with the postings of   *)
(* the original the other way round.                                       *)
(***************************************************************************)
HasActiveReversal_M(t) == FALSE

HasActiveReversal(t) ==
    \E r \in Existing : transfers[r].reversalOf = t /\ transfers[r].status # "failed"

ReversalRequest(t, key, reference, event, provider) ==
    LET row == transfers[t]
    IN  [op |-> "reversal",
         direction |-> IF row.direction = "outbound" THEN "inbound" ELSE "outbound",
         status |-> "succeeded", providerStatus |-> "succeeded",
         account |-> row.account, clearing |-> CounterpartyAccount(t), amount |-> row.amount,
         provider |-> provider, key |-> key, event |-> event, reversalOf |-> t,
         reference |-> IF reference # Nil THEN reference
                       ELSE <<"reversal", IF row.reference = Nil THEN <<"id", t>> ELSE row.reference>>,
         rejectInsufficient |-> FALSE, requireAvailable |-> FALSE]

\* A reversal request that would settle a pending transfer by reference is
\* rolled back: the transfer it settles is not a reversal.
ReverseAs(t, key, reference, event, provider) ==
    LET in == ReversalRequest(t, key, reference, event, provider)
    IN  /\ t \in Existing
        /\ transfers[t].status = "succeeded"
        /\ transfers[t].journalled
        /\ transfers[t].direction # "reversal"
        /\ ~HasActiveReversal(t)
        /\ CreatesTransfer(in)
        /\ CreateTransfer(in)

ReverseTransfer(t, key) ==
    /\ "reversal" \in Endpoints
    /\ t \in Existing
    /\ ReverseAs(t, key, Nil, Nil, transfers[t].provider)

MockReversalWebhook(t, key, reference, event) ==
    /\ "mock_webhook" \in Endpoints
    /\ ReverseAs(t, key, reference, event, "mock_nip")

-----------------------------------------------------------------------------
(***************************************************************************)
(* recordProviderEventReview: an inbound event that cannot be credited is  *)
(* kept as a transfer row for manual review, under a key of its own.       *)
(***************************************************************************)
ReviewKey(fingerprint) == <<"external-inbound-review", fingerprint>>

RecordReview(in, account, reserve) ==
    LET t == count + 1
        fingerprint == Fingerprint([in EXCEPT !.account = IF account = in.account THEN @ ELSE Nil])
        status == IF in.status = "pending" THEN "pending" ELSE "failed"
    IN  /\ count < MaxTransfers
        /\ KeyUnused(ReviewKey(fingerprint))
        /\ reserve => EventUnused(in.event)
        /\ count' = t
        /\ transfers' = [transfers EXCEPT ![t] =
               [account |-> account, direction |-> "inbound", status |-> status,
                providerStatus |-> in.status, ledgerStatus |-> "no_posting",
                reconciliationStatus |-> "manual_review", amount |-> in.amount,
                key |-> ReviewKey(fingerprint), provider |-> in.provider,
                reference |-> in.reference, event |-> in.event, journalled |-> FALSE,
                reversalOf |-> NotReversal, fingerprint |-> fingerprint]]
        /\ ReserveEvent(IF reserve THEN in.event ELSE Nil, fingerprint, t)
        /\ audit' = audit \cup {<<t, status>>}
        /\ UNCHANGED <<accountStatus, ledger, available, hold, journal, lien, calling>>

\* The event names no account of the institution: booked on the settlement
\* account.
ReviewUnknownDestination(in) == RecordReview(in, DefaultSettlement, TRUE) /\ UNCHANGED reviewing

\* ExternalInboundEvent reads a blocked destination account, before RecordTransfer
\* or after it refused, or RecordTransfer found a conflict.  Nothing holds the
\* account or the transfers until the review is recorded.
SendToReview(in, reason) ==
    /\ Cardinality(reviewing) < MaxReviewing
    /\ \/ reason = "blocked" /\ accountStatus[in.account] \in {"frozen", "closed"}
       \/ reason = "conflict" /\ RecordConflicts(in)
    /\ reviewing' = reviewing \cup {<<in, reason>>}
    /\ UNCHANGED <<accountStatus, ledger, available, count, transfers, hold, journal, lien,
                   events, audit, calling>>

\* A conflict review leaves the event to the transfer that has it.
RecordProviderEventReview(call) ==
    /\ RecordReview(call[1], call[1].account, call[2] = "blocked")
    /\ reviewing' = reviewing \ {call}

LoseReview(call) ==
    /\ reviewing' = reviewing \ {call}
    /\ UNCHANGED <<accountStatus, ledger, available, count, transfers, hold, journal, lien,
                   events, audit, calling>>

-----------------------------------------------------------------------------
(***************************************************************************)
(* Account controls and liens.                                             *)
(***************************************************************************)
SetAccountStatus(a, from, to) ==
    /\ accountStatus[a] = from
    /\ accountStatus' = [accountStatus EXCEPT ![a] = to]
    /\ UNCHANGED <<ledger, available, count, transfers, hold, journal, lien, events, audit,
                   calling, reviewing>>

FreezeAccount(a)         == "freeze" \in Endpoints /\ SetAccountStatus(a, "active", "frozen")
UnfreezeAccount(a)       == "freeze" \in Endpoints /\ SetAccountStatus(a, "frozen", "active")
ActivatePostNoDebit(a)   == "post_no_debit" \in Endpoints /\ SetAccountStatus(a, "active", "post_no_debit")
DeactivatePostNoDebit(a) == "post_no_debit" \in Endpoints /\ SetAccountStatus(a, "post_no_debit", "active")

PlaceAccountLien(a, reference, amount) ==
    /\ lien[reference] = NoLien
    /\ available[a] >= amount
    /\ lien' = [lien EXCEPT ![reference] = [account |-> a, amount |-> amount]]
    /\ available' = [available EXCEPT ![a] = @ - amount]
    /\ UNCHANGED <<accountStatus, ledger, count, transfers, hold, journal, events, audit,
                   calling, reviewing>>

ReleaseAccountLien_M(reference) ==
    /\ lien[reference] # NoLien
    /\ lien' = [lien EXCEPT ![reference] = NoLien]
    /\ UNCHANGED <<accountStatus, ledger, available, count, transfers, hold, journal, events, audit,
                   calling, reviewing>>

ReleaseAccountLien(reference) ==
    /\ lien[reference] # NoLien
    /\ lien' = [lien EXCEPT ![reference] = NoLien]
    /\ available' = [available EXCEPT ![lien[reference].account] = @ + lien[reference].amount]
    /\ UNCHANGED <<accountStatus, ledger, count, transfers, hold, journal, events, audit,
                   calling, reviewing>>

-----------------------------------------------------------------------------
Next ==
    \/ \E in \in Requests : RecordTransfer(in)
    \/ \E t \in Transfer, res \in ProviderResult : CompleteExternalOutboundTransfer(t, res)
    \/ \E t \in Existing, res \in ProviderResult :
           \E reference \in References \cup {transfers[t].reference} :
               CompleteExternalTransferRequery(t, reference, res)
    \/ \E t \in Transfer, key \in Keys : ReverseTransfer(t, key)
    \/ \E t \in Transfer, key \in Keys, r \in References, e \in Events : MockReversalWebhook(t, key, r, e)
    \/ \E in \in InboundEvents : ReviewUnknownDestination(in)
    \/ \E in \in InboundEvents, reason \in {"blocked", "conflict"} : SendToReview(in, reason)
    \/ \E call \in reviewing : RecordProviderEventReview(call)
    \/ \E call \in reviewing : LoseReview(call)
    \/ \E a \in Customers : FreezeAccount(a)
    \/ \E a \in Customers : UnfreezeAccount(a)
    \/ \E a \in Customers : ActivatePostNoDebit(a)
    \/ \E a \in Customers : DeactivatePostNoDebit(a)
    \/ \E a \in Customers, r \in LienReferences, n \in Amounts : PlaceAccountLien(a, r, n)
    \/ \E r \in LienReferences : ReleaseAccountLien(r)

Spec == Init /\ [][Next]_vars
=============================================================================
