# Formal model of the lenz core-banking ledger

TLA+ specifications of the transactional core of this repository
(`apps/core/internal/corebanking`), TLC configurations that check small
instances of it, and TLAPS proofs of what holds for every instance. Paths below
are relative to the repository root; `corebanking/` abbreviates
`apps/core/internal/corebanking/`.

## 1. The system and its parts

lenz is a multi-institution core-banking service in Go on PostgreSQL. Customer
accounts move money to and from internal settlement accounts, to each other,
and to other banks through a provider (NIP). Every operation that moves money is
one row of `transfers`, at most one journal entry with two postings, and, for an
outbound transfer that waits for its provider, one hold.

| Component (source) | State it keeps | Operations | Makes it correct |
|---|---|---|---|
| Transfer repository (`sql_transfer_repository.go`, `transaction.go`) | `transfers`, and everything its transactions touch | RecordTransfer (create / settle by reference / replay), CompleteExternalOutboundTransfer, CompleteExternalTransferRequery, ReverseTransfer, RecordProviderEventReview | one money effect per transfer, outcomes final, replays post nothing |
| Ledger (`sql_ledger_repository.go`) | `journal_entries`, `postings`, `account_balances` | postJournal, applyPostingBalance | double entry; balances equal the postings |
| Holds (`sql_holds.go`) | `account_holds` with a transfer | create, release, consume | available = ledger - holds; hold follows its transfer |
| Account controls and liens (`sql_account_controls.go`) | `accounts.status`, `account_holds` without a transfer | Freeze/Unfreeze, post-no-debit on/off, Place/ReleaseAccountLien | blocked accounts keep their money; liens reserve |
| Provider events (`sql_provider_event_repository.go`) | `provider_events` | reserve, link, compare payload | an event moves money once |
| Policy (`policy.go`) | none | controls, overdraft, reversal deficit, statuses | pure decisions |
| Idempotency (`idempotency.go`) | none | request fingerprints | same key, other request: conflict |
| Internal and external services (`service.go`, `service_external.go`) | none; a call in flight | build requests, read account statuses, call the provider between two transactions | nothing lost or doubled between the two |
| Mock NIP provider (`mock_nip_provider.go`) | remembered outcomes and requery errors, in memory | name enquiry, transfer, requery, override, webhook | a requery answers for the transfer it names |
| Reconciliation (`sql_reconciliation_repository.go`) | `transfers.review_status` | the derived issue list, paged; MarkReconciliationItemReviewed | the list and the reasons name the same transfers; a walk misses none; issues are visible until handled |
| Audit (`sql_audit_repository.go`, `audit.go`) | `audit_events` | append, list | money moved is audited |
| Accounts and customers (`sql_account_repository.go`, `sql_customer_repository.go`) | `accounts`, `customers` | create, balance locks, default settlement, statement of an account | locks in one order; a statement adds up to the balance |
| HTTP handlers, authn, demo seed, server, migrations, OpenAPI | none of their own | | |

How they interact: handler -> service -> repository -> PostgreSQL. One
repository method is one transaction (`transaction.go`, `WithTx`); it locks its
replay keys with advisory locks and its rows with `FOR UPDATE`. Two operations
take more than one transaction: an outbound transfer commits its intent and
hold, *then* calls the provider, *then* commits the completion
(`service_external.go:219-240`); an inbound event that is blocked or refused as a
conflict is recorded for review in a second transaction
(`service_external.go:273-283`). Requeries are explicit calls of an operator;
nothing polls in the background (`docs/ARCHITECTURE_DECISIONS.md:67`).

What is hard: late, duplicated and conflicting provider answers meeting on one
transfer; calls that die between their two transactions; two balance columns
maintained by separate deltas on seven paths; several replay keys (idempotency
key, event id, provider reference) that must agree; account controls that change
between a hold and its settlement; lookups made between two locks of one
transaction, and locks taken in different orders; an operators' list that is
computed, not kept, and read page by page while its rows change. `PROJECT.json`
lists these hazards at their lines with the properties that watch them.

## 2. Modules

| Module | Contents |
|---|---|
| `MoneyMovement` | the abstract specification: payments that move their money once or not at all, reserve before they wait and are undone at most once; money set aside |
| `LedgerPolicy` | pure operators: account controls, balance rule, reversal deficit, statuses of an outcome, journal entry and ledger delta (`policy.go`, parts of `sql_ledger_repository.go`) |
| `TransferSpine` | the state machine: every transaction that writes transfers, holds, journals, balances, events, liens or account statuses, each as one step |
| `Statements` | what an account's statement shows, read from the tables of `TransferSpine` |
| `SpineProperties` | the invariants and action properties of the spine, the refinement mapping to `MoneyMovement`, and two rules of the documents that the code breaks |
| `MCTransferSpine` | constants and symmetry for TLC |
| `TransferSpineProofs` | types, holds, journals, keys and outcomes: the inductive invariant and its theorems |
| `TransactionProofs` | what rows record: reversals, references, events, audits, statement lines |
| `SumProofs` | sums over finite sets, for `MoneyProofs` and `LocksProofs` |
| `MoneyProofs` | the movements of money every step comes down to; ledger and journal, overspending, blocked accounts, balances as sums; `TransferSpine` implements `MoneyMovement` |
| `ExternalFlow` | the external service's calls step by step against what the mock provider remembers; extends `TransferSpine` |
| `FlowProperties` | its properties: the spine as its abstract specification, one initiation per key, settlement as reported, liveness |
| `MCExternalFlow` | constants and symmetry for TLC |
| `FlowProofs` | `ExternalFlow` implements `TransferSpine`; one initiation per key; holds end as reported |
| `Reconciliation` | the list of transfers that need attention, walks through its pages, marks and the clock; extends `TransferSpine` |
| `ReconciliationProperties`, `MCReconciliation` | its properties; constants and symmetry for TLC |
| `ReconciliationProofs` | its theorems |
| `TransactionLocks` | the inside of the transactions that `TransferSpine` takes for one step: statements, locks, lookups, commit, deadlock, cancellation |
| `LocksProperties`, `MCTransactionLocks` | its properties; the calls that meet |
| `LocksProofs` | transactions act as if alone; balances match rows, whatever runs at the same time |
| `DeadlockProofs` | every deadlock of any number of transactions is of one of the two known kinds |

Four levels: `MoneyMovement` is implemented by `TransferSpine`
(`ImplementsMoneyMovement`), which is implemented by `ExternalFlow`
(`ImplementsSpine`), both proved; `Reconciliation` adds steps that leave the
spine alone, so that what is proved of the spine holds of it too
(`SpineUnchanged`); `TransactionLocks` shows what makes a transaction one step
(`ActsOnWhatItCommitsTo`, proved too, as is where they can deadlock).

### State and code

| Variable | Code |
|---|---|
| `accountStatus` | `accounts.status`; `closed` is never written by any operation |
| `ledger`, `available` | `account_balances.ledger_minor`, `available_minor` |
| `count`, `transfers` | the `transfers` table, ids in order of creation |
| `hold` | `account_holds.status` of the row with this `transfer_id`; account and amount are the transfer's |
| `journal` | `journal_entries` + `postings` of a transfer |
| `lien` | active `account_holds` rows without a transfer, by reference |
| `events` | `provider_events`: the linked transfer and the payload fingerprint |
| `audit` | transfer and outcome of the `audit_events` on transfers |
| `calling` | ExternalOutboundTransfer / MockOutbound calls between intent and completion |
| `reviewing` | ExternalInboundEvent calls between the first transaction (or status read) and the review |

### Actions and code

| Action | Code |
|---|---|
| `RecordTransfer` (`CreateTransfer`, `SettlePendingTransfer`) | `recordTransfer`, called by internal credit/debit/transfer, external outbound and inbound, and the mock routes |
| `CompleteExternalOutboundTransfer` | the second half of an outbound call with the provider's answer (or `provider_unknown`) |
| `CompleteExternalTransferRequery` | an operator's requery, inbound or outbound |
| `ReverseTransfer`, `MockReversalWebhook` | `ReverseTransfer` from its route, and from the demo webhook with a reference and an event |
| `ReviewUnknownDestination`, `SendToReview`, `RecordProviderEventReview`, `LoseReview` | `ExternalInboundEvent`'s reviews, in one or two transactions, and a call that dies in between |
| `FreezeAccount`, `UnfreezeAccount`, `ActivatePostNoDebit`, `DeactivatePostNoDebit` | `setAccountStatus` |
| `PlaceAccountLien`, `ReleaseAccountLien` | `sql_account_controls.go` |

`ExternalFlow` adds:

| Variable | Code |
|---|---|
| `memory`, `requeryErrors` | the two maps of `MockNIPProvider`, by reference; `about` (which transfer a result was made for) is not kept by the code |
| `inFlight`, `answer` | `ExternalOutboundTransfer` calls alive between intent and completion, and the provider's answer they hold |
| `asked` | `ExternalTransferRequery` calls between the provider's answer and their commit |
| `parsed` | inbound events between `ParseWebhook` and the repository |
| `initiations`, `reported` | history only: how often the provider was asked for a transfer, what its own record of that transfer said |

| Action | Code |
|---|---|
| `BeginExternalOutboundTransfer`, `InitiateTransfer`, `CompleteCall`, `LoseCall` | the three steps of `ExternalOutboundTransfer`, and a call that dies or is refused |
| `SetRequeryScenario`, `RequeryTransfer`, `CompleteRequery`, `LoseRequery` | `ExternalTransferRequery`: the mock override, read and provider answer, commit, error |
| `ParseWebhook`, `RecordExternalInboundTransfer`, `ReviewEvent`, `DropEvent`, `ReviewCall` | `ExternalInboundEvent` |
| `DelayElapses`, `AccountControl`, `Restart` | the provider's clock, a freeze, a new process |

The row a requery reads without a lock and the provider's answer are one step:
the commit reads the row again, so a change between the two would make it a
no-op either way. `Restart` loses the provider's memory and every call.

In the spine a crash needs no action of its own: a call in `calling` may simply
never complete, and `LoseReview` forgets one in `reviewing`. A replay, a
conflict or any other refused call leaves the database as it was: it is a
stuttering step. The comparisons that tell a replay from a conflict matter only
where a conflict has an effect (`RecordConflicts`, which sends an inbound event
to review).

`Reconciliation` adds:

| Variable | Code |
|---|---|
| `now`, `createdAt` | the clock of the list's query, `transfers.created_at`: read before the commit, so rows may appear older than rows already there |
| `review` | `transfers.review_status`, and the review reason in the metadata of the mark's audit event |
| `walk` | the items an operator has seen page by page (the cursor is the last of them); `due` is history |

| Action | Code |
|---|---|
| `Transact` | any transaction of the spine |
| `BeginWalk`, `ListReconciliationItems` | the first and the next page of `ListReconciliationItems` |
| `MarkReconciliationItemReviewed` | the same name: inspect, then mark, in one transaction |
| `Tick` | time passes |

`TransactionLocks` has its own, smaller tables and adds:

| Variable | Code |
|---|---|
| `transfers`, `lien`, `funds` | a transfer's row reduced to status, accounts, direction, reference, events and reversal; the lien rows of one reference told apart by number; the customers' available balance |
| `call` | per call: its request, the statements still to do, the locks it holds, what it is going to write; `unseen` is history |

| Action | Code |
|---|---|
| `Begin`, `Statements` | the order of statements of `recordTransfer`, the completions, `ReverseTransfer`, `RecordProviderEventReview`, `setAccountStatus`, the liens |
| `TakeLock` | `pg_advisory_xact_lock` (`lockReplayKey`) and `FOR UPDATE` |
| `Find` | lookups by key, event, reference and lien reference, and the settled row by reference |
| `RecheckPending`, `RecheckReversible`, `RecheckLien` | PostgreSQL looks at a row again after it waited for its lock (READ COMMITTED) |
| `CheckFunds`, `Commit` | the balance rule; all writes, at the end |
| `AbortDeadlocked`, `Cancel` | deadlock detection (SQLSTATE 40P01, not retried by the code); a cancelled request or a dead process |

### The abstract specification

A payment of `MoneyMovement` is a row of `transfers`, its state the row's status
(`pending` is *open*, `succeeded` is *moved*, the rest *dropped*), its entry the
journal's. It reserves while its hold is active; what it undoes is its
`reversal_of_transfer_id`. A pot is an active lien. `balance` and `spendable`
are what a party is owed: an account's ledger and available balance, negated
for settlement accounts, whose ledger counts what they owe. The mapping is
`Money` in `SpineProperties`. Statuses, keys, references, events, audits and
account controls do not appear: whatever the code decides with them has to come
down to one of nine movements, each of which conserves money.

### Abstractions

- One institution, one currency, one provider of events: rows of different
  institutions never meet (every query filters by institution).
- Amounts are small numbers; strings are model values; a fingerprint is the
  request itself without its key, so distinct requests never collide.
- The unlocked reads of the services before a transaction guard nothing (the
  account may have been in another state); only checks made under locks are
  guards.
- The account a request moves money of is a customer's, and in internal
  transfers so is the other one. The external services do not check the kind of the account they are
  given (`corebanking/service_external.go:165`, `:438`); a settlement account
  as an external transfer's own account is not modelled.
- Overflow is not modelled: PostgreSQL raises an error and rolls back.
- The list of reconciliation items is modelled without its filters by one
  status and without a caller's own `stale_pending_minutes`. Ids are numbers in
  order of creation; in the code they are random, but the order among rows of
  one `created_at` only has to be total.
- In `TransactionLocks` every amount is 1, a transfer's row is known by its key,
  and a reference stands for provider, reference and direction. The writes of a
  transaction are one step: their rows are locked by then. Left out: the demo
  routes' completions that carry an event (among them the rewriting of a row's
  provider reference), the webhook's reversals, and a lien retried for another
  amount. A lookup by reference takes any of several pending rows, where the
  code takes the oldest, and if the row is settled while the lookup waits for it
  the model goes on to the settled rows, where PostgreSQL would go on to the
  next pending one (`corebanking/sql_transfer_repository.go:1134`). Both matter
  only with two pending rows of one reference; the menu of calls has none.
- In `ExternalFlow` an event names one of the references that clients choose,
  never an idempotency key that a transfer uses for want of a reference.

## 3. Runs

The runs of `MCTransferSpine` and `MCReconciliation` check safety only and
assume no fairness. Deadlock is not checked in `MCTransferSpine` and
`hidden_issue`, because the system really stops when `MaxTransfers` rows exist,
each final, and no lien or control remains to change.

| Run | Offers | Shows |
|---|---|---|
| `internal_money` | credits, debits, transfers between two customers, reversals, freeze, post-no-debit, one lien | balances equal the journal; statements add up; nothing overspends; reversals mirror; blocked accounts keep their money; every transaction is one abstract movement |
| `outbound` | outbound transfer, requery, reversal, one lien, and the demo routes (mock outbound, final outcome, webhook in both directions) on the same rows, one event | hold, journal, events and status agree under late and repeated answers; outcomes final; every transaction is one abstract movement; type invariant |
| `external_inbound` | inbound events (all statuses), reviews, requery, freeze, two customers and two events | events move money once; links permanent; keys unique; outcomes audited; what a statement shows of a settled transfer stays |
| `reconciliation` | inbound events, reviews, requeries, marks, a walk in pages of one item, one tick | the list's SQL and the Go reasons name the same transfers; a walk shows all that stays listed and nothing twice; the provider's word and the books disagree only where no money can move |
| `flow_outbound` | outbound transfers under two keys, successes and timeouts, overrides, two requeries in flight, freeze, restarts | the provider is asked once per key; a hold ends only as the provider reported of that transfer; every outcome is audited; every step is a step of `TransferSpine`; under the fairness below a hold ends once the outcome is known and the account free |
| `flow_settles` | an outbound transfer and an inbound event that may share a reference, delays, overrides, reviews, restarts | refinement again: contradictory provider results never reach the repository; under the fairness below no transfer stays open for ever while the provider remembers a final outcome for it that its accounts allow (a delayed result stays pending there: `delayed_result`) |
| `transaction_locks` | every pair of: an outbound intent, transfers in both directions, pending and settled inbound events, completions, reversals, a review, a freeze, a lien's placement and release | each transaction commits what it would do alone in the state it commits to; balances match the rows; deadlocks only in two places |
| `delayed_result`, `unknown_reference` | inbound with a delay; outbound | *violated*: see findings |
| `reference_credits_once` | inbound events only | *violated*: see findings |
| `spent_transfer_deficit` | internal transfers + reversal | *violated*: see findings |
| `hidden_issue` | inbound events, requery, marks | *violated*: see findings |

Bounds: `MaxTransfers` (3 in every passing run of `MCTransferSpine`) caps the
transfer rows; three are enough for an original, its reversal and one transfer
that competes with either, or two pending rows and one settling event.
`MaxReviewing` (1 where reviews are offered) caps the inbound calls between two
transactions. `Amounts` is {1, 2} where relative size matters (overspending),
{1} otherwise; keys, references and events are two or three values, so that
equal and different ones both occur. The sets of names are symmetric.

The `MCExternalFlow` runs have two transfers (one where a single one shows the
point), `MaxAsked` requeries and `MaxParsed` events in flight. `flow_outbound` has
no named references: each transfer's reference is its key, so no two share one.
Deadlock is checked (a `Restart` is always possible, so this says little).

`reconciliation` has two transfers, `MaxTime` 1 and `StaleAfter` 0: a row is
fresh or stale, and two rows have the same or different times. `PageLimit` 1
puts a page boundary between the two. Only inbound money is offered, so no
item is there for a reversal deficit, which needs a third transfer, nor for a
transfer the provider failed and the ledger posted, which never occurs.

`transaction_locks` has two calls, so it meets deadlocks of two parties only
(the proof of `OnlyKnownDeadlocks` is about any number); a call that ends may
begin again with another request, so longer histories occur. `MaxLiens` 2 lets a
reference be placed again after its release. Three keys, two references and one
event are shared by the requests so that each pair that can meet on a key,
event, reference, row or balance does, a reversal under the key of another
transfer among them; the run starts with one outbound transfer that waits for
its provider. Deadlock is checked: a call can always be cancelled, and waiting
for each other is what `OnlyKnownDeadlocks` looks for.

Fairness (`OperatorPersists`, in `FairFlowSpec` only). Nothing in the code asks
the provider again by itself, so liveness is conditional on an operator: strong
fairness of `RequeryTransfer(t)` (an operator who keeps asking about `t` although
other requeries compete) and of committing a requery of `t` (not every one of
infinitely many calls dies), weak fairness of a requery that returns its error
and of the provider's clock. No fairness is assumed of outbound calls, events,
restarts, unfreezing or the provider's outcomes.

### Findings

1. **One provider reference, two credits** (`reference_credits_once`).
   `recordTransfer` (`corebanking/sql_transfer_repository.go:327`) looks for
   transfers with the request's reference only when the request is final. A
   *pending* inbound event whose reference another event has already credited
   opens a second transfer, and a requery that succeeds credits it again (the
   run's counterexample). Two events that are both pending when they arrive end
   the same way, after a requery of each. `docs/ARCHITECTURE_DECISIONS.md:81`
   says that an inbound success found by a requery credits the destination once.
2. **Invisible deficits** (`spent_transfer_deficit`).
   `wouldCreateReversalDeficit` (`corebanking/policy.go:49`) looks at the primary
   account's ledger balance only. Reversing an internal transfer whose recipient
   spent the money takes the recipient below zero in rows marked `posted` and
   `matched`; so does the completion of a hold that reserved a credit reversed
   in the meantime (offer `internal_credit`, `external_outbound` and `reversal`
   to see it). `docs/ARCHITECTURE_DECISIONS.md:163` requires such deficits to be visible.
3. **Delayed results never settle** (`delayed_result`). A delayed result becomes
   `succeeded` in `RequeryTransfer` (`corebanking/mock_nip_provider.go:156`) while its
   provider status stays `pending`; `externalTransferRequeryCompletionInput`
   (`corebanking/service_external.go:682`) refuses that as a conflict. Every
   requery of such an inbound event fails until someone overrides the scenario.
4. **A timeout cannot be requeried** (`unknown_reference`). The timeout scenario
   returns before the provider remembers the transfer
   (`corebanking/mock_nip_provider.go:100`): the transfer is `provider_unknown` with an
   active hold, its recommended action is a requery, and the requery and its
   overrides answer "not found". `README.md:41` offers requery for such transfers.
   A restart of the process has the same effect on every open transfer.
5. **A reviewed item stays hidden** (`hidden_issue`). The list leaves out every
   transfer with a review status other than `manual_followup_required`
   (`corebanking/sql_reconciliation_repository.go:41`), and nothing clears that
   status: a transfer marked as reviewed while it was only stale is not listed
   again when a requery makes it `provider_unknown`.
   `docs/SIMPLE_TRANSACTION_CBA_V0_1.md:55` and
   `docs/ARCHITECTURE_DECISIONS.md:85` say that such cases remain visible.

Seen while modelling, without a run of their own:

- The audit helpers skip every row with a `reversal_of_transfer_id`
  (`corebanking/sql_transfer_repository.go:993`), and no other code audits a
  reversal; nor is an outbound transfer audited that `recordTransfer` creates or
  settles with a final outcome (`:459`, `:730`), as only the demo routes do.
  `docs/TEST_PLAN.md:62` expects audit events for money-sensitive actions.
  `OutcomesAreAudited` leaves reversals out and is checked where the demo routes
  are not offered: it says that no *other* outcome falls between the helpers.
- The provider's memory is keyed by reference alone
  (`corebanking/mock_nip_provider.go:128`) and two pending intents may name one
  reference: a requery of the first then consumes its hold because the provider
  made the second. `SettledAsReported` is checked without shared references.
- Two deadlocks are possible (`OnlyKnownDeadlocks`): a repeated
  `PlaceAccountLien` holds the balance and waits for the lien while
  `ReleaseAccountLien` holds the lien and waits for the balance; and
  `ReverseTransfer` holds the row of the transfer it reverses while its record
  waits for its replay keys, or for the row that a replay lookup found under one
  of them, and the holder may be waiting for the first row. So do two reversals,
  each under the key of the transfer that the other one reverses. More calls may
  stand in the circle, but it always has one of these in it. PostgreSQL rolls one
  call back, and the caller gets an error that no code retries. Nothing is lost.
- A transfer recorded as pending does not lock its provider reference, so a
  final event with the same reference may miss it if both run at once; the
  result is as if the final one came first (the history `unseen` of
  `TransactionLocks` says where this matters).

## 4. Proofs

Proved for all values of the constants that satisfy `AccountsAssumption` and
`SpineAssumption` (kinds of account disjoint, amounts positive, `Nil` outside
the sets of names), for the list `ReconciliationAssumption`, for the calls
`FlowAssumption`, and for the transactions `LocksAssumption`; any number of
transfers, accounts, keys, events, liens and concurrent transactions, any page
size, any set of endpoints:

| Module | Theorem | Property |
|---|---|---|
| `TransferSpineProofs` | `TypeCorrect` | `TypeOK` |
| | `HoldsMirrorTransfers` | `HoldMirrorsTransfer` |
| | `JournalsMatchOutcomes` | `JournalMatchesOutcome` |
| | `KeysNameOneTransfer` | `KeyNamesOneTransfer` |
| | `OutcomesAreFinal` | `OutcomeIsFinal` |
| | `EventLinksArePermanent` | `EventLinkIsPermanent` |
| `TransactionProofs` | `ReversalsMirror` | `ReversalMirrorsOriginal` |
| | `InternalReferencesPostOnce` | `InternalReferencePostsOnce` |
| | `PostedEventsAreLinked` | `PostedEventIsLinked` |
| | `OutcomesAudited` (without demo routes) | `OutcomesAreAudited` |
| | `LinesStay` | `StatementLinesStay` |
| `MoneyProofs` | `LedgerWithJournal` | `LedgerFollowsJournal` |
| | `BlockedKeepMoney` | `BlockedAccountsKeepTheirMoney` |
| | `NobodyOverspends` | `NoOverspend` |
| | `AvailableAddsUp` (finitely many lien references) | `AvailableIsLedgerLessHolds` |
| | `LedgerAddsUp` | `LedgerReconcilesWithPostings` |
| | `StatementsMatchLedger` | `StatementsAddUp` |
| | `MoneyMovementImplemented` | `ImplementsMoneyMovement` |
| `ReconciliationProofs` | `SpineUnchanged` | `ReconciliationSpec => Spec` |
| | `ReconciliationTypeCorrect` | `ReconciliationTypeOK` |
| | `WalksCoverList` | `WalkCoversList` |
| | `ListMatches` | `ListMatchesReviewState` |
| | `BooksFollow` | `BooksFollowProvider` |
| `FlowProofs` | `FlowTypeCorrect` | `FlowTypeOK` |
| | `FlowImplementsSpine` | `ImplementsSpine` |
| | `ProviderIsAskedOnce` | `ProviderAskedOnce` |
| | `HoldsEndAsReported` (references their own) | `SettledAsReported` |
| | `HoldsEndAsReportedByKey` (transfers go by their keys) | `SettledAsReported` |
| `LocksProofs` | `LocksTypes` | `LocksTypeOK` |
| | `TransactionsAreSerial` | `ActsOnWhatItCommitsTo` |
| | `BalancesAreOfRows` | `BalancesMatchRows` |
| `DeadlockProofs` | `DeadlocksAreKnown` | `OnlyKnownDeadlocks` |

Three properties of the spine and the flow need an assumption. `OutcomesAudited`
leaves out the demo routes, whose final outbound transfers have no audit event. `AvailableAddsUp` sums
over the lien references, which have to be finitely many: they are texts of
bounded length. `SettledAsReported` is false where two transfers share a
reference (see the findings): `HoldsEndAsReported` assumes `NamesApart`, that
outbound transfers have references of their own and no event names one, and
`HoldsEndAsReportedByKey` that clients give no references, in which case the
service takes the key, and that there are no events; then `NamesApart` is
proved.

### Rows, holds, journals and keys

The inductive invariant `IInv` is `TypeOK`, the agreement of each row with its
hold and journal (`Consistent`), and three strengthenings:
`UnusedSlotsAreBlank` (a new transfer finds no hold or entry under its id; the
hold of a created row is what its creation made it), `PlainReference` (only a
reversal's row carries a derived reference, so a reversal of it, a completion
or a requery builds a well-typed one) and `KeyNamesOneTransfer`.

Argument: `GoodStep` says that a step opens one row under a new key, or rewrites
one *open* row and keeps its key, in both cases leaving row, hold and journal
consistent; or touches no row; and that it keeps every event link. One lemma per
transaction shows that it is a good step (`CreateTransferStep`,
`SettlePendingTransferStep`, `CompleteOutboundStep`, `RequeryStep`,
`ReverseAsStep`, `RecordReviewStep`, `AccountStep`, ...).
`StepShapeKeepsInvariant` shows once that good steps preserve `IInv`; finality
and the permanence of event links are read off `GoodStep`. `OldestFacts` (a
nonempty set of ids has a least one) comes from the well-foundedness of the
naturals.

### What a row records

None of `ReversalMirrorsOriginal`, `InternalReferencePostsOnce` and
`PostedEventIsLinked` is inductive. A reversal's entry is built from the
*original's row*, but must mirror the original's *entry*: one has to know that a
succeeded row's journal moved its own account's money in the row's direction
(`MoneyMovedAsTold`). A reference is only compared when the request is final:
an open row of the ledger's own provider could be settled behind another one,
and `OpenAtProvider` says there is none. A pending event is linked long before it
posts, except the one kept for review (`Linked`). `ProviderSaidSo` and
`ReversalRow` complete `Recorded`, what each row says with its journal. `RInv` is
`IInv`, `Recorded` and `Linked` for every row, and the first two properties.

`TransactionCases` brings the disjuncts of `Next` to eight forms; one lemma for each
shows that it writes at most one row, new or in place of an open one, that
is `Recorded` (`RowWritten`), and `RecordShapeKeepsInvariant` shows once that
such a step keeps `RInv`. Audits and statement lines need `RInv` only for the
row that is written.

### Money

`Movements`: with `RInv`, every step of the spine is one of ten movements
(`Movement` in `MoneyProofs`): it *pays* (a new row with its entry), *undoes* (a
reversal), *promises* (a new row with a hold), *notes* (a new row that moves
nothing yet, or never), *fulfils*, *breaks* or keeps *waiting* an open row, places
or releases a lien, or *rests*. Each says in a few lines what becomes of row,
hold, journal and both balance columns, and which controls and balance rule it
passed. The theorems of `MoneyProofs` start from `Movements` and do not look at the
transactions again.

The balances are sums over tables, and what a recursive sum is cannot be shown
by an induction theorem that takes the claim as a parameter. `SumProofs` uses
the well-founded order of the finite subsets instead: were there subsets on
which a claim about the sum fails, there would be a smallest one
(`SmallestSubset`), and removing its chosen element gives a smaller one. This
gives the existence of the recursive function itself, and `SumUpdate`: changing
one element changes the sum by the difference. A movement changes one element of
each sum, so `AvailableIsLedgerLessHolds` is inductive with `RInv`, and so is
`Books`, which is `LedgerReconcilesWithPostings` account by account.
`StatementsMatchLedger` compares the lines of a statement with the postings
element by element: `LineCounts` shows that what a line counts is what its
journal moved.

### The abstract specification

`MoneyMovementImplemented`: initial states map to initial states (`InitMaps`), and
each movement maps to one action of `MoneyMovement` or to a stutter (`PaysMaps`,
`UndoesMaps`, `PromisesMaps`, `NotesMaps`, `FulfilsMaps`, `BreaksMaps`, `WaitsMaps`,
`RestsMaps`, `PlacesLienMaps`, `ReleasesLienMaps`). `PaymentNow` and `PaymentNext`
compute the mapped payment of a row, `OwedShifts` shows that a posting on both
kinds of account is one shift of what the institution owes. That a reversal is
never itself reversed, nor an original twice, is `ReversalMirrorsOriginal`; that
a row that holds money belongs to a customer, whose sign the mapping keeps, is
`HoldersAreCustomers`.

### The reconciliation list

`SpineUnchanged` carries everything above over. `WalksCoverList` holds for any
page size: `NewerIsOrder` shows that created_at and id order the rows strictly
and totally although times may repeat; `PageItems` that the rows a page shows
are exactly the first of those behind the cursor, since an item's place is the
number of items ahead of it plus one and no two items share one (`Places`).
`WalkInv` is the strengthening: what was seen is in order, and an item that is
due was seen or comes after the last one seen. It is preserved because a row's
`created_at` and id never change (`OrderStays`); a row that appears late, on
either side of the cursor, was not due. `BooksFollow` is `ProviderSaidSo` with
`HoldMirrorsTransfer`; `ListMatches` holds whatever the statuses are: the list's
SQL and the reasons' Go are the same predicate written twice, and no invariant
has to help.

### The calls around the spine

`FlowStepsAreSpineSteps`: an action of `FlowNext` is a disjunct of the spine's
`Next` or leaves its tables alone. Two facts are needed for this. What a call
holds between two steps must be an answer the spine allows
(`answer` and `asked` in `FlowTypeOK`); and a requery must name the reference of
its own transfer, which is so because a row has a reference from its
first transaction on (`RowsNamed`). `FlowTypeOK` is not inductive: a transfer
remembered as `provider_unknown` with a delay would read as a success the
service cannot take once the delay is over. No code remembers that, which is
`MemoryTold`.

`FlowRow` then says what a step does to rows and holds: it opens a row that
has its names, or rewrites one that keeps them, and a hold changes only with a
status some call has heard (`Heard`). `AskedByOneCall` counts: a row that does not
exist has not been asked for, only the call that made it asks, and only while it
has no answer; with `KeyNamesOneTransfer` this is `ProviderAskedOnce`.

For `SettledAsReported`, `MemoryReported` says that what the provider keeps under
the reference of an outbound transfer is what it reported of that one, never
delayed; `AnswersReported` that every answer still to be committed is
"pending" or was reported. A requery reads the memory of its own transfer because
no other has its reference (`RequeryReports`), an event does not overwrite it
(`ParseReports`), and a late answer finds either an open row, whose hold ends as
heard, or a final one, which it cannot change (`NextKeepsFinalRows`).

### The inside of the transactions

`LocksAssumption` says that the accounts are numbers (the order of their ids, in
which they are locked), that requests are what the services build (only
`ReverseTransfer` names a transfer to reverse, and only it makes a reference out
of another one), and that there are finitely many keys and lien references to
sum over. The rows a table starts with are any of the well-typed ones; nothing
bounds the calls that run at once or the menu of requests.

That a transaction acts on what it commits to is a claim about its last moment
only. The inductive invariant `LInv` is about every moment in between. It is
`LocksTypeOK`, that no two transactions hold one lock, and `Knows` for every running
transaction, which has three parts:

- *Order*: the statements still to do stand in the order of `Rank`, the same for
  every kind of transaction, and a lookup still to do is one its kind of
  transaction makes (`Lookups`). So a lock that is still to be taken comes before what
  relies on it (`OrderHead`, `Passing`).
- *Knowledge*: for each lookup, either it is still to do and its lock is held or
  still to be taken (`Secures`), or its lock is held and *what it found is still so*
  (`Learned`). `Records`, `Completes`, `Reverses`, `Reviews`, `Places` and `Releases` put
  these together for each kind of transaction: what it is going to write goes with what it
  knows. With nothing left to do every `Learned` has its second form, and this is
  `ActsOnWhatItCommitsTo`.
- *References*: a transfer recorded as pending does not lock its reference, so
  of a lookup by reference only that is kept which `unseen` allows: the rows found since
  belong to it (`KeepsReference`).

A step of one transaction must then keep the knowledge of *all others*. Only
`Commit` writes, so the proof splits: a statement changes what its own
transaction knows, on tables that stay (`LookupStep`, `BeginKeeps`, `TakeLockKeeps`,
`FindKeeps`, ...); a commit changes tables, and whatever row, key, event, balance
or lien it changes is one whose lock it holds (`CommitUndisturbs`). Since no two
hold one lock, nothing another transaction has learned is about it
(`KnowsStays`). A row's final status cannot change at all, and a lien's number only
grows, which is why a statement made without a lock may rely on either.
READ COMMITTED's second look at a row it waited for is `recheck ...`: without it
`Completes` is not inductive.

`BalancesMatchRows` follows from `LInv` commit by commit: the row that changes was
pending or absent when the transaction last looked, and is still (`Settles`,
`IsNew`), so the sum of what rows have done to the balance changes by what the
commit adds (`OneRowMoves`, from `SumUpdate`); a lien is one element more or less
(`LienMoves`).

### The order of the locks

That transactions which take their locks in one order cannot wait for each other
in a ring is the argument every such code relies on. Here it has to account for
what is out of order: rows locked *because a lookup found them*, two rows of one
reference, a lien and its balance taken in either order, the row a reversal
holds from the beginning.

`AheadOfLock` and `AheadOfLookup` say when a transaction that holds a lock may
still have a statement to do: locks go by kind (`LockRank`: the locks of replay
keys, rows of transfers, accounts and balances, liens, holds), the keys among
each other by `KeyRank`, accounts and balances by the number of the account. The
exceptions are named: `Original` (a reversal holds its original's row before
everything its own record locks), `Repeats` (several rows under one reference,
whose lock the transaction holds), and a release, which takes the lien first. A
lookup is ahead of a lock only if whatever row it may find is.

The invariant `AllClimb` says of every running transaction that each lock it
holds is ahead of each statement it still has to do (`HeldFirst`), that the
statements still to do are in such an order themselves (`Fits`), and that it
holds the account of every balance it holds, a release excepted
(`HoldsAccounts`). `StatementsFit` shows it of the statements a request begins
with, and there is one lemma for each lookup and second look that puts further
statements in front (`FindPendingClimbs`, `RecheckReversibleClimbs`, ...). It is
inductive together with `LInv`, which knows that each statement's rank is that
of what its kind of transaction does then.

`DeadlocksAreKnown`: suppose that each transaction of a set waits for another
one of it, and none of the known patterns is among them (`Stuck`). What one
waits for is ahead of what the one it waits for itself waits for
(`WaitingIsAhead`), so along the waiting the locks only rise, and the kinds are
ruled out one by one from above. Nobody waits for a hold, which is locked last.
Who waits for a lien waits for its release, which waits for a balance
(`LienIsReleased`). Of those that wait for an account or a balance, one waits
for the highest account number (`HighestNumber`); the two behind it would both
hold that account (`NoneWaitsForAccount`). Two that hold rows of one reference
would both hold the lock of the reference (`NoneWaitsForTransfer`). Nothing is
left but the keys, and the highest `KeyRank` among them is waited for by nobody
who holds a lower one (`NoneIsStuck`). `HighestNumber` is where the calls must
be finitely many: the service has one per database connection.

### What the proofs changed in the model

`LedgerDelta`, `ReconciliationStatusOf` (`LedgerPolicy`) and `ReviewReason`
(`Reconciliation`) were CASE expressions with overlapping guards. TLC takes the
first guard that holds, as the code's early returns do; the language chooses
any. They are chains of IF now. `LocksAssumption` now says which references and
which `reversalOf` a request may have, which the menu of requests always
respected.

`OnlyKnownDeadlocks` was true of the two calls of its run and false of more, and
it missed a case of two. It looked for the two patterns in pairs that wait for
each other, but a third call may stand between them; and it had a reversal wait
for an advisory key only, although a reversal under the key of another transfer
waits for that transfer's *row*, found by the replay lookup
(`corebanking/sql_transfer_repository.go:300`). The patterns are three in a row
now, and the run offers reversals under the key of another transfer.

### Only model-checked

Every invariant and every action property of the passing runs is a theorem now.
With TLC remain liveness (`AnsweredTransfersEnd`) and the properties of the
violated runs, which are refuted by their counterexamples.

## 5. Not modelled, and the plan

Not modelled:

- HTTP decoding and routing, authentication, the demo seed, process start-up,
  migrations and the OpenAPI description: no state transitions of their own.
- Creation of accounts and customers: inserts of rows that no transfer names
  yet; the set of accounts is fixed.
- Reads and listings other than statements and the reconciliation list; the
  filters of the latter and a caller's own staleness.
- Audit events of customers, accounts, liens and marks, and the redaction of
  metadata.
- Names, narrations and failure reasons; overflow of amounts.

Next: a delayed duplicate of a lien's placement, which arrives after the release
and places it again, has no property yet; the repository's documents do not say
what a reference promises once it is released.
