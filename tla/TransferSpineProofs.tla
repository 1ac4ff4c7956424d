------------------------ MODULE TransferSpineProofs -------------------------
(***************************************************************************)
(* Proofs about TransferSpine.                                             *)
(***************************************************************************)
EXTENDS SpineProperties, TLAPS, WellFoundedInduction

-----------------------------------------------------------------------------
(***************************************************************************)
(* The inductive invariant.                                                *)
(***************************************************************************)
\* A reference that does not come from a reversal.
BaseReference == Optional(References) \cup Keys \cup ({"mock-nip-out"} \X Transfer)

\* One row, its hold and its journal tell the same story.
Consistent(row, h, j) ==
    /\ h = "active" <=> (row.status = "pending" /\ row.direction = "outbound")
    /\ h = "consumed" => row.status = "succeeded"
    /\ h = "released" => row.status = "failed"
    /\ Len(j) = (IF row.status = "succeeded" THEN 1 ELSE 0)
    /\ row.journalled <=> row.status = "succeeded"
    /\ row.ledgerStatus \in {"posted", "reversal_deficit"} <=> row.status = "succeeded"
    /\ row.status = "succeeded" => /\ j[1].amount = row.amount
                                   /\ row.account \in {j[1].debit, j[1].credit}

HoldStatus == {"none", "active", "released", "consumed"}

\* Only the row of a reversal carries a reference made from another one.
PlainReference(row) ==
    row.direction # "reversal" =>
        row.reference \in BaseReference /\ row.fingerprint.reference \in BaseReference

UnusedSlotsAreBlank ==
    \A t \in Transfer : t > count => hold[t] = "none" /\ journal[t] = <<>>

IInv ==
    /\ TypeOK
    /\ \A t \in Existing : Consistent(transfers[t], hold[t], journal[t])
    /\ \A t \in Existing : PlainReference(transfers[t])
    /\ UnusedSlotsAreBlank
    /\ KeyNamesOneTransfer

-----------------------------------------------------------------------------
(***************************************************************************)
(* What a request looks like.                                              *)
(***************************************************************************)
Request ==
    [op: Operations, direction: Directions, status: Statuses, providerStatus: ProviderStatuses,
     account: Accounts, clearing: Accounts, amount: Amounts, provider: Providers, key: Key,
     reference: Reference, event: Optional(Events), reversalOf: Transfer \cup {NotReversal},
     rejectInsufficient: BOOLEAN, requireAvailable: BOOLEAN]

\* A request as its endpoint builds it: the provider's word is its status, its
\* reference is a plain one, and it is no reversal.
PlainRequest ==
    {in \in Request : /\ in.providerStatus = in.status
                      /\ in.reference \in BaseReference
                      /\ in.reversalOf = NotReversal}

\* Every operation's requests are built by Form from well-typed parts.
LEMMA FormType ==
    ASSUME NEW op \in Operations, NEW direction \in Directions, NEW statuses \in SUBSET Statuses,
           NEW accounts \in SUBSET Accounts, NEW clearing \in SUBSET Accounts,
           NEW provider \in Providers, NEW keys \in SUBSET Key,
           NEW refs \in SUBSET BaseReference, NEW evs \in SUBSET Optional(Events),
           NEW reject \in BOOLEAN, NEW require \in BOOLEAN,
           NEW in \in Form(op, direction, statuses, accounts, clearing, provider, keys, refs,
                           evs, reject, require)
    PROVE  in \in PlainRequest
<1>1. in \in [op: {op}, direction: {direction}, status: statuses, providerStatus: statuses,
             account: accounts, clearing: clearing, amount: Amounts, provider: {provider},
             key: keys, reference: refs, event: evs, reversalOf: {NotReversal},
             rejectInsufficient: {reject}, requireAvailable: {require}]
      /\ in.providerStatus = in.status
  BY DEF Form
<1>2. BaseReference \subseteq Reference /\ Statuses \subseteq ProviderStatuses
  BY DEF BaseReference, Reference, ProviderStatuses
<1> QED
  BY <1>1, <1>2 DEF Request, PlainRequest

LEMMA RequestType == Requests \subseteq PlainRequest
<1>1. /\ Customers \subseteq Accounts /\ Settlement \subseteq Accounts
      /\ {DefaultSettlement} \subseteq Accounts
  BY SpineAssumption DEF Accounts
<1>2. /\ Keys \subseteq Key
      /\ \A e \in Events : {InboundKey(e)} \subseteq Key
  BY DEF Key, InboundKey
<1>3. /\ Optional(References) \subseteq BaseReference /\ References \subseteq BaseReference
      /\ References \cup Keys \subseteq BaseReference
  BY DEF Optional, BaseReference
<1>4. /\ {Nil} \subseteq Optional(Events) /\ Events \subseteq Optional(Events)
      /\ \A e \in Events : {e} \subseteq Optional(Events)
  BY DEF Optional
<1>5. /\ {"succeeded"} \subseteq Statuses /\ {"pending"} \subseteq Statuses
      /\ {"succeeded", "failed"} \subseteq Statuses
  BY DEF Statuses
<1> USE <1>1, <1>2, <1>3, <1>4, <1>5, FormType DEF Operations, Directions, Providers
<1>a. InternalCredit \subseteq PlainRequest
  BY DEF InternalCredit
<1>b. InternalDebit \subseteq PlainRequest
  BY DEF InternalDebit
<1>c. InternalTransfer \subseteq PlainRequest
  BY DEF InternalTransfer
<1>d. ExternalOutboundTransfer \subseteq PlainRequest
  BY DEF ExternalOutboundTransfer
<1>e. ExternalInboundEvent \subseteq PlainRequest
  <2>1. \A e \in Events :
            Form("external_inbound", "inbound", Statuses, Customers, {DefaultSettlement},
                 "mock_nip", {InboundKey(e)}, References, {e}, FALSE, FALSE) \subseteq PlainRequest
    OBVIOUS
  <2> QED
    BY ONLY <2>1 DEF ExternalInboundEvent
<1>f. MockOutbound \subseteq PlainRequest
  BY DEF MockOutbound
<1>g. MockOutboundFinal \subseteq PlainRequest
  BY DEF MockOutboundFinal
<1>h. MockProviderWebhook \subseteq PlainRequest
  <2>1. \A d \in Directions :
            Form("mock_webhook", d, Statuses, Customers, {DefaultSettlement},
                 "mock_nip", Keys, References, Events, FALSE, FALSE) \subseteq PlainRequest
    OBVIOUS
  <2> QED
    BY ONLY <2>1 DEF MockProviderWebhook
<1> QED
  BY ONLY <1>a, <1>b, <1>c, <1>d, <1>e, <1>f, <1>g, <1>h DEF Requests

\* What the invariant says of one existing transfer.
LEMMA ExistingFacts ==
    ASSUME IInv, NEW t \in Existing
    PROVE  /\ t \in Transfer /\ transfers[t] \in Row
           /\ hold[t] \in HoldStatus /\ journal[t] \in Seq(Entry)
           /\ Consistent(transfers[t], hold[t], journal[t]) /\ PlainReference(transfers[t])
<1>1. t \in Transfer /\ t <= count
  BY SpineAssumption DEF IInv, TypeOK, Existing, Transfer
<1>2. transfers[t] \in Row /\ hold[t] \in HoldStatus /\ journal[t] \in Seq(Entry)
  BY <1>1 DEF IInv, TypeOK, HoldStatus
<1> QED
  BY <1>1, <1>2 DEF IInv

\* A reversal request is well typed, and posts at once.
LEMMA ReversalRequestType ==
    ASSUME IInv, NEW t \in Existing, NEW key \in Keys, NEW reference \in Optional(References),
           NEW event \in Optional(Events), NEW provider \in Providers,
           transfers[t].journalled, transfers[t].direction # "reversal"
    PROVE  LET in == ReversalRequest(t, key, reference, event, provider)
           IN  /\ in \in Request
               /\ in.status = "succeeded" /\ in.providerStatus = "succeeded"
               /\ in.reversalOf = t
<1>1. t \in Transfer /\ transfers[t] \in Row /\ journal[t] \in Seq(Entry)
  BY ExistingFacts
<1>2. PlainReference(transfers[t]) /\ Consistent(transfers[t], hold[t], journal[t])
  BY ExistingFacts
<1>3. CounterpartyAccount(t) \in Accounts
  <2>1. journal[t] \in Seq(Entry) /\ Len(journal[t]) = 1
    BY <1>1, <1>2 DEF Consistent
  <2>2. journal[t][1] \in Entry
    BY <2>1
  <2> QED
    BY <2>1, <2>2 DEF CounterpartyAccount, Entry
<1>4. LET base == IF transfers[t].reference = Nil THEN <<"id", t>> ELSE transfers[t].reference
      IN  (IF reference # Nil THEN reference ELSE <<"reversal", base>>) \in Reference
  <2>1. transfers[t].reference \in BaseReference
    BY <1>2 DEF PlainReference
  <2>2. (IF transfers[t].reference = Nil THEN <<"id", t>> ELSE transfers[t].reference)
            \in References \cup Keys \cup ({"id", "mock-nip-out"} \X Transfer)
    BY <1>1, <2>1 DEF BaseReference, Optional
  <2> QED
    BY <2>2 DEF Reference, Optional
<1>5. key \in Key
  BY DEF Key
<1>6. /\ transfers[t].account \in Accounts /\ transfers[t].amount \in Amounts
      /\ t \in Transfer \cup {NotReversal}
      /\ (IF transfers[t].direction = "outbound" THEN "inbound" ELSE "outbound") \in Directions
      /\ "succeeded" \in Statuses /\ "succeeded" \in ProviderStatuses /\ "reversal" \in Operations
  BY <1>1 DEF Row, Directions, Statuses, ProviderStatuses, Operations
<1> QED
  BY <1>3, <1>4, <1>5, <1>6 DEF ReversalRequest, Request

-----------------------------------------------------------------------------
(***************************************************************************)
(* The shape of a step: it opens a new row, or settles an open one, or     *)
(* leaves rows, holds and journals alone.                                  *)
(***************************************************************************)
RowStep(t, row, h, j) ==
    /\ t \in Transfer
    /\ \/ t = count + 1 /\ KeyUnused(row.key) /\ count' = t
       \/ t \in Existing /\ IsOpen(t) /\ row.key = transfers[t].key /\ count' = count
    /\ row \in Row /\ h \in HoldStatus /\ j \in Seq(Entry)
    /\ Consistent(row, h, j) /\ PlainReference(row)
    /\ transfers' = [transfers EXCEPT ![t] = row]
    /\ hold' = [hold EXCEPT ![t] = h]
    /\ journal' = [journal EXCEPT ![t] = j]

StepShape ==
    \/ UNCHANGED <<count, transfers, hold, journal>>
    \/ \E t \in Transfer, row \in Row, h \in HoldStatus, j \in Seq(Entry) : RowStep(t, row, h, j)

\* The conjuncts of TypeOK that are not about rows, holds and journals.
OthersTyped ==
    /\ accountStatus \in [Accounts -> {"active", "frozen", "post_no_debit"}]
    /\ ledger \in [Accounts -> Int]
    /\ available \in [Accounts -> Int]
    /\ lien \in [LienReferences -> [account: Customers, amount: Amounts] \cup {NoLien}]
    /\ events \in [Events -> [transfer: Transfer, fingerprint: FingerprintType] \cup {NoEventRow}]
    /\ audit \subseteq Transfer \X Statuses
    /\ calling \subseteq Transfer
    /\ reviewing \subseteq InboundEvents \X {"blocked", "conflict"}

LEMMA NextSlotFacts ==
    ASSUME IInv, count < MaxTransfers
    PROVE  /\ count + 1 \in Transfer
           /\ hold[count + 1] = "none" /\ journal[count + 1] = <<>>
BY SpineAssumption DEF IInv, TypeOK, UnusedSlotsAreBlank, Transfer

\* Two rows of a table with the row of t replaced by one whose key is t's own
\* or new still have different keys; the rest of the invariant is local to t.
LEMMA StepShapeKeepsInvariant ==
    ASSUME IInv, StepShape, OthersTyped'
    PROVE  IInv'
<1>1. CASE UNCHANGED <<count, transfers, hold, journal>>
  BY <1>1 DEF IInv, TypeOK, OthersTyped, UnusedSlotsAreBlank, KeyNamesOneTransfer, Existing
<1>2. CASE \E t \in Transfer, row \in Row, h \in HoldStatus, j \in Seq(Entry) : RowStep(t, row, h, j)
  <2>1. PICK t \in Transfer, row \in Row, h \in HoldStatus, j \in Seq(Entry) : RowStep(t, row, h, j)
    BY <1>2
  <2>2. /\ count \in Nat /\ MaxTransfers \in Nat /\ count' \in 0..MaxTransfers
        /\ Existing' = Existing \cup {t} /\ Existing' \subseteq Transfer
        /\ \A u \in Transfer : u > count' => u # t /\ u > count
    <3>1. count \in Nat /\ MaxTransfers \in Nat /\ count <= MaxTransfers
      BY SpineAssumption DEF IInv, TypeOK
    <3>2. t \in 1..MaxTransfers
      BY <2>1 DEF RowStep, Transfer
    <3>3. CASE t = count + 1 /\ count' = t
      BY <3>1, <3>2, <3>3 DEF Existing, Transfer
    <3>4. CASE t \in 1..count /\ count' = count
      BY <3>1, <3>2, <3>4 DEF Existing, Transfer
    <3> QED
      BY <2>1, <3>3, <3>4 DEF RowStep, Existing
  <2>3. /\ \A u \in Transfer : transfers'[u] = IF u = t THEN row ELSE transfers[u]
        /\ \A u \in Transfer : hold'[u] = IF u = t THEN h ELSE hold[u]
        /\ \A u \in Transfer : journal'[u] = IF u = t THEN j ELSE journal[u]
    BY <2>1 DEF RowStep, IInv, TypeOK
  <2>4. TypeOK'
    <3>1. /\ transfers' \in [Transfer -> Row \cup {NoRow}]
          /\ hold' \in [Transfer -> {"none", "active", "released", "consumed"}]
          /\ journal' \in [Transfer -> Seq(Entry)]
      BY <2>1 DEF RowStep, IInv, TypeOK, HoldStatus
    <3>2. row # NoRow
      BY <2>1 DEF Row, NoRow, Statuses
    <3>3. \A u \in Transfer : u <= count' <=> transfers'[u] # NoRow
      <4>1. SUFFICES ASSUME NEW u \in Transfer PROVE u <= count' <=> transfers'[u] # NoRow
        OBVIOUS
      <4>2. u <= count <=> transfers[u] # NoRow
        BY DEF IInv, TypeOK
      <4>3. u \in Existing <=> u <= count
        BY SpineAssumption, <2>2 DEF Existing, Transfer
      <4>4. u \in Existing' <=> u <= count'
        BY SpineAssumption, <2>2 DEF Existing, Transfer
      <4> QED
        BY <2>2, <2>3, <3>2, <4>2, <4>3, <4>4
    <3> QED
      BY <2>2, <3>1, <3>3 DEF OthersTyped, TypeOK
  <2>5. \A u \in Existing' : /\ Consistent(transfers'[u], hold'[u], journal'[u])
                             /\ PlainReference(transfers'[u])
    BY <2>1, <2>2, <2>3, ExistingFacts DEF RowStep
  <2>6. UnusedSlotsAreBlank'
    BY <2>2, <2>3 DEF IInv, UnusedSlotsAreBlank
  <2>7. KeyNamesOneTransfer'
    <3>1. SUFFICES ASSUME NEW u \in Existing', NEW v \in Existing',
                          transfers'[u].key = transfers'[v].key, u # t \/ v # t
                   PROVE  u = v
      BY DEF KeyNamesOneTransfer
    <3>2. \A x \in Existing, y \in Existing : transfers[x].key = transfers[y].key => x = y
      BY DEF IInv, KeyNamesOneTransfer
    <3>3. \A x \in Existing : x # t => row.key # transfers[x].key
      BY <2>1, <3>2 DEF RowStep, KeyUnused
    <3> QED
      BY <2>2, <2>3, <3>1, <3>2, <3>3, ExistingFacts
  <2>8. (\A u \in Existing : Consistent(transfers[u], hold[u], journal[u]))'
    BY <2>5 DEF Consistent
  <2>9. (\A u \in Existing : PlainReference(transfers[u]))'
    BY <2>5 DEF PlainReference
  <2> QED
    BY <2>4, <2>6, <2>7, <2>8, <2>9 DEF IInv
<1> QED
  BY <1>1, <1>2 DEF StepShape

-----------------------------------------------------------------------------
(***************************************************************************)
(* The pieces of transactions.                                             *)
(***************************************************************************)
BalancesTyped == ledger \in [Accounts -> Int] /\ available \in [Accounts -> Int]

LEMMA AmountFacts ==
    ASSUME NEW n \in Amounts
    PROVE  n \in Nat /\ n > 0
BY SpineAssumption

\* Posting appends one entry of the request's amount that touches its account.
LEMMA PostJournalFacts ==
    ASSUME IInv, NEW t \in Transfer, NEW in \in Request, NEW held, PostJournal(t, in, held)
    PROVE  /\ JournalEntry(in) \in Entry
           /\ JournalEntry(in).amount = in.amount
           /\ in.account \in {JournalEntry(in).debit, JournalEntry(in).credit}
           /\ journal' = [journal EXCEPT ![t] = Append(journal[t], JournalEntry(in))]
           /\ BalancesTyped'
<1>1. in.account \in Accounts /\ in.clearing \in Accounts /\ in.amount \in Amounts
  BY DEF Request
<1>2. /\ JournalEntry(in) \in Entry /\ JournalEntry(in).amount = in.amount
      /\ in.account \in {JournalEntry(in).debit, JournalEntry(in).credit}
  BY <1>1 DEF JournalEntry, Entry
<1>3. \A a \in Accounts : LedgerDelta(JournalEntry(in), a) \in Int
  <2>1. in.amount \in Int /\ -in.amount \in Int
    BY <1>1, AmountFacts
  <2> QED
    BY <1>2, <2>1 DEF LedgerDelta
<1>4. journal' = [journal EXCEPT ![t] = Append(journal[t], JournalEntry(in))]
  BY DEF PostJournal, IInv, TypeOK
<1>5. ledger' \in [Accounts -> Int] /\ available' \in [Accounts -> Int]
  BY <1>3 DEF PostJournal, IInv, TypeOK
<1> QED
  BY <1>2, <1>4, <1>5 DEF BalancesTyped

\* A final answer on an open transfer ends its hold with the matching status
\* and posts exactly when it is a success.
LEMMA SettleMoneyFacts ==
    ASSUME IInv, NEW t \in Existing, IsOpen(t), NEW in \in Request,
           in.direction = transfers[t].direction, in.account = transfers[t].account,
           in.amount = transfers[t].amount, SettleMoney(t, in)
    PROVE  /\ BalancesTyped'
           /\ in.status \in {"succeeded", "failed"}
           /\ \E h \in HoldStatus, j \in Seq(Entry) :
                /\ hold' = [hold EXCEPT ![t] = h] /\ journal' = [journal EXCEPT ![t] = j]
                /\ h # "active"
                /\ h = "consumed" => in.status = "succeeded"
                /\ h = "released" => in.status = "failed"
                /\ Len(j) = (IF in.status = "succeeded" THEN 1 ELSE 0)
                /\ in.status = "succeeded" => /\ j[1].amount = in.amount
                                              /\ in.account \in {j[1].debit, j[1].credit}
<1>1. /\ t \in Transfer /\ hold[t] \in HoldStatus /\ journal[t] \in Seq(Entry)
      /\ Consistent(transfers[t], hold[t], journal[t])
      /\ hold = [hold EXCEPT ![t] = hold[t]] /\ journal = [journal EXCEPT ![t] = journal[t]]
  BY ExistingFacts DEF IInv, TypeOK
<1>2. /\ Len(journal[t]) = 0
      /\ hold[t] = "active" <=> in.direction = "outbound"
      /\ hold[t] # "consumed" /\ hold[t] # "released"
  BY <1>1 DEF Consistent, IsOpen
<1>3. CASE in.status = "succeeded" /\ PostJournal(t, in, in.account) /\ ConsumeHold(t)
  <2>1. Append(journal[t], JournalEntry(in)) \in Seq(Entry)
        /\ Len(Append(journal[t], JournalEntry(in))) = 1
        /\ Append(journal[t], JournalEntry(in))[1] = JournalEntry(in)
    BY <1>1, <1>2, <1>3, PostJournalFacts
  <2>2. hold' = [hold EXCEPT ![t] = "consumed"] /\ "consumed" \in HoldStatus
    BY <1>3 DEF ConsumeHold, HoldStatus
  <2> QED
    BY <1>1, <1>3, <2>1, <2>2, PostJournalFacts
<1>4. CASE /\ in.status = "succeeded" /\ in.direction # "outbound"
           /\ PostJournal(t, in, Nil) /\ UNCHANGED hold
  <2>1. Append(journal[t], JournalEntry(in)) \in Seq(Entry)
        /\ Len(Append(journal[t], JournalEntry(in))) = 1
        /\ Append(journal[t], JournalEntry(in))[1] = JournalEntry(in)
    BY <1>1, <1>2, <1>4, PostJournalFacts
  <2>2. hold' = [hold EXCEPT ![t] = hold[t]] /\ hold[t] # "active"
    BY <1>1, <1>2, <1>4
  <2>3. /\ BalancesTyped' /\ JournalEntry(in).amount = in.amount
        /\ in.account \in {JournalEntry(in).debit, JournalEntry(in).credit}
        /\ journal' = [journal EXCEPT ![t] = Append(journal[t], JournalEntry(in))]
    BY <1>1, <1>4, PostJournalFacts
  <2> QED
    BY <1>1, <1>2, <1>4, <2>1, <2>2, <2>3
<1>5. CASE in.status = "failed" /\ ReleaseHold(t) /\ NoPosting
  <2>1. /\ ledger' = ledger /\ journal' = journal
        /\ transfers[t].account \in Accounts /\ transfers[t].amount \in Int
    <3>1. transfers[t] \in Row
      BY ExistingFacts
    <3>2. transfers[t].account \in Accounts /\ transfers[t].amount \in Amounts
      BY <3>1 DEF Row
    <3>3. \A n \in Amounts : n \in Int
      BY SpineAssumption
    <3> QED
      BY <1>5, <3>2, <3>3 DEF NoPosting
  <2>2. available' \in [Accounts -> Int]
    <3>1. available \in [Accounts -> Int]
      BY DEF IInv, TypeOK
    <3>2. available[transfers[t].account] + transfers[t].amount \in Int
      BY <2>1, <3>1
    <3>3. \/ available' = available
          \/ available' = [available EXCEPT ![transfers[t].account] = @ + transfers[t].amount]
      BY <1>5 DEF ReleaseHold
    <3> QED
      BY <2>1, <3>1, <3>2, <3>3
  <2>3. BalancesTyped'
    BY <2>1, <2>2 DEF BalancesTyped, IInv, TypeOK
  <2>4. CASE hold[t] = "active"
    <3>1. hold' = [hold EXCEPT ![t] = "released"] /\ "released" \in HoldStatus
      BY <1>5, <2>4 DEF ReleaseHold, HoldStatus
    <3> QED
      BY <1>1, <1>2, <1>5, <2>1, <2>3, <3>1
  <2>5. CASE hold[t] # "active"
    <3>1. hold' = [hold EXCEPT ![t] = hold[t]]
      BY <1>1, <1>5, <2>5 DEF ReleaseHold
    <3> QED
      BY <1>1, <1>2, <1>5, <2>1, <2>3, <2>5, <3>1
  <2> QED
    BY <2>4, <2>5
<1> QED
  BY <1>3, <1>4, <1>5 DEF SettleMoney

EventsKept == \A e \in Events : events[e].transfer # 0 => events'[e] = events[e]

\* Only an event not yet recorded is linked.
LEMMA ReserveEventFacts ==
    ASSUME IInv, NEW event \in Optional(Events), NEW fingerprint, NEW t \in Transfer,
           event # Nil => EventUnused(event) /\ fingerprint \in FingerprintType,
           ReserveEvent(event, fingerprint, t)
    PROVE  /\ events' \in [Events -> [transfer: Transfer, fingerprint: FingerprintType] \cup {NoEventRow}]
           /\ EventsKept
<1>1. events \in [Events -> [transfer: Transfer, fingerprint: FingerprintType] \cup {NoEventRow}]
  BY DEF IInv, TypeOK
<1>2. CASE event = Nil
  BY <1>1, <1>2 DEF ReserveEvent, EventsKept
<1>3. CASE event # Nil
  <2>1. event \in Events /\ events[event].transfer = 0 /\ fingerprint \in FingerprintType
    BY <1>3 DEF Optional, EventUnused
  <2>2. events' = [events EXCEPT ![event] = [transfer |-> t, fingerprint |-> fingerprint]]
    BY <1>3 DEF ReserveEvent
  <2>3. [transfer |-> t, fingerprint |-> fingerprint] \in [transfer: Transfer, fingerprint: FingerprintType]
    BY <2>1
  <2> QED
    BY <1>1, <2>1, <2>2, <2>3 DEF EventsKept
<1> QED
  BY <1>2, <1>3

LEMMA FingerprintFacts ==
    ASSUME NEW in \in Request, in.providerStatus = in.status
    PROVE  /\ Fingerprint(in) \in FingerprintType
           /\ Fingerprint(in).reference = in.reference
BY DEF Request, Fingerprint, FingerprintType, Optional

LEMMA AuditTransferFacts ==
    ASSUME IInv, NEW t \in Transfer, NEW row \in Row, AuditTransfer(t, row)
    PROVE  audit' \subseteq Transfer \X Statuses
<1>1. row.status \in Statuses
  BY DEF Row
<1>2. audit \subseteq Transfer \X Statuses
  BY DEF IInv, TypeOK
<1> QED
  BY <1>1, <1>2 DEF AuditTransfer, AuditExternalInbound, AuditPostedInternal

LEMMA StatusFacts ==
    ASSUME NEW status \in Statuses, NEW providerStatus \in ProviderStatuses
    PROVE  /\ LedgerStatusOf(status) \in {"pending", "posted", "no_posting"}
           /\ LedgerStatusOf(status) = "posted" <=> status = "succeeded"
           /\ ReconciliationStatusOf(status, providerStatus)
                  \in {"pending", "matched", "no_action", "manual_review"}
BY DEF Statuses, ProviderStatuses, LedgerStatusOf, ReconciliationStatusOf

\* The row a request creates.
LEMMA CreatedRowFacts ==
    ASSUME NEW in \in Request, in.providerStatus = in.status,
           in.reversalOf = NotReversal => in.reference \in BaseReference,
           in.reversalOf # NotReversal => in.status = "succeeded"
    PROVE  /\ CreatedStatus(in) \in Statuses
           /\ CreatedRow(in) \in Row
           /\ CreatedRow(in).status = CreatedStatus(in)
           /\ CreatedRow(in).account = in.account /\ CreatedRow(in).amount = in.amount
           /\ CreatedRow(in).key = in.key
           /\ CreatedRow(in).direction = "outbound" <=> CustomerInitiatedOutbound(in)
           /\ CreatedRow(in).journalled <=> CreatedStatus(in) = "succeeded"
           /\ CreatedRow(in).ledgerStatus \in {"posted", "reversal_deficit"}
                  <=> CreatedStatus(in) = "succeeded"
           /\ PlainReference(CreatedRow(in))
<1> DEFINE status == CreatedStatus(in)
           deficit == status = "succeeded" /\ WouldCreateReversalDeficit(in, ledger[in.account])
           direction == IF in.reversalOf = NotReversal THEN in.direction ELSE "reversal"
           ledgerStatus == IF deficit THEN "reversal_deficit" ELSE LedgerStatusOf(status)
           recStatus == IF deficit THEN "manual_review"
                        ELSE ReconciliationStatusOf(status, in.providerStatus)
<1>1. /\ in.account \in Accounts /\ in.amount \in Amounts /\ in.key \in Key
      /\ in.provider \in Providers /\ in.reference \in Reference /\ in.event \in Optional(Events)
      /\ in.reversalOf \in Transfer \cup {NotReversal}
      /\ in.status \in Statuses /\ in.providerStatus \in ProviderStatuses
      /\ in.direction \in Directions
  BY DEF Request
<1>2. status \in Statuses
  BY <1>1 DEF CreatedStatus, EffectiveStatus, Statuses
<1>3. /\ ledgerStatus \in {"pending", "posted", "no_posting", "reversal_deficit"}
      /\ ledgerStatus \in {"posted", "reversal_deficit"} <=> status = "succeeded"
      /\ recStatus \in {"pending", "matched", "no_action", "manual_review"}
  <2> HIDE DEF status
  <2> QED
    BY <1>1, <1>2, StatusFacts
<1>4. /\ direction \in Directions \cup {"reversal"}
      /\ direction = "outbound" <=> CustomerInitiatedOutbound(in)
      /\ direction # "reversal" => in.reversalOf = NotReversal
  BY <1>1 DEF Directions, CustomerInitiatedOutbound
<1>5. Fingerprint(in) \in FingerprintType /\ Fingerprint(in).reference = in.reference
  BY FingerprintFacts
<1>6. (status = "succeeded") \in BOOLEAN
  OBVIOUS
<1>7. CreatedRow(in) =
        [account |-> in.account, direction |-> direction, status |-> status,
         providerStatus |-> in.providerStatus, ledgerStatus |-> ledgerStatus,
         reconciliationStatus |-> recStatus,
         amount |-> in.amount, key |-> in.key, provider |-> in.provider,
         reference |-> in.reference, event |-> in.event,
         journalled |-> status = "succeeded", reversalOf |-> in.reversalOf,
         fingerprint |-> Fingerprint(in)]
  BY DEF CreatedRow
<1> HIDE DEF status, direction, ledgerStatus, recStatus
<1>8. CreatedRow(in) \in Row
  BY <1>1, <1>2, <1>3, <1>4, <1>5, <1>6, <1>7 DEF Row
<1>9. status = CreatedStatus(in)
  BY DEF status
<1>10. /\ CreatedRow(in).status = status /\ CreatedRow(in).account = in.account
       /\ CreatedRow(in).amount = in.amount /\ CreatedRow(in).key = in.key
       /\ CreatedRow(in).direction = direction /\ CreatedRow(in).ledgerStatus = ledgerStatus
       /\ CreatedRow(in).reference = in.reference /\ CreatedRow(in).fingerprint = Fingerprint(in)
  BY <1>7
<1>11. CreatedRow(in).journalled <=> status = "succeeded"
  <2>1. CreatedRow(in).journalled = (status = "succeeded")
    BY <1>7
  <2> QED
    BY <2>1
<1>12. PlainReference(CreatedRow(in))
  BY <1>4, <1>5, <1>10 DEF PlainReference
<1> QED
  BY <1>2, <1>3, <1>4, <1>8, <1>9, <1>10, <1>11, <1>12

-----------------------------------------------------------------------------
(***************************************************************************)
(* Every transaction has the shape of a step.                              *)
(***************************************************************************)
GoodStep == StepShape /\ OthersTyped' /\ EventsKept

LEMMA CreateTransferStep ==
    ASSUME IInv, NEW in \in Request, in.providerStatus = in.status,
           in.reversalOf = NotReversal => in.reference \in BaseReference,
           in.reversalOf # NotReversal => in.status = "succeeded",
           Fresh(in), CreateTransfer(in)
    PROVE  GoodStep
<1> DEFINE t == count + 1
           row == CreatedRow(in)
           status == CreatedStatus(in)
<1>1. /\ count < MaxTransfers /\ count' = t
      /\ transfers' = [transfers EXCEPT ![t] = row]
      /\ ReserveEvent(in.event, Fingerprint(in), t) /\ AuditTransfer(t, row)
      /\ calling' \in {calling, calling \cup {t}}
      /\ UNCHANGED <<accountStatus, lien, reviewing>>
  BY DEF CreateTransfer
<1>2. /\ t \in Transfer /\ hold[t] = "none" /\ journal[t] = <<>>
      /\ hold = [hold EXCEPT ![t] = "none"] /\ journal = [journal EXCEPT ![t] = <<>>]
  BY <1>1, NextSlotFacts DEF IInv, TypeOK
<1>3. /\ row \in Row /\ row.key = in.key /\ row.status = status /\ status \in Statuses
      /\ row.account = in.account /\ row.amount = in.amount
      /\ row.direction = "outbound" <=> CustomerInitiatedOutbound(in)
      /\ row.journalled <=> status = "succeeded"
      /\ row.ledgerStatus \in {"posted", "reversal_deficit"} <=> status = "succeeded"
      /\ PlainReference(row)
  BY CreatedRowFacts
<1>4. /\ BalancesTyped'
      /\ \E h \in HoldStatus, j \in Seq(Entry) :
           /\ hold' = [hold EXCEPT ![t] = h] /\ journal' = [journal EXCEPT ![t] = j]
           /\ Consistent(row, h, j)
  <2> HIDE DEF row, status, t
  <2>1. CASE status = "succeeded" /\ PostJournal(t, in, Nil) /\ UNCHANGED hold
    <3>1. /\ Append(journal[t], JournalEntry(in)) \in Seq(Entry)
          /\ Len(Append(journal[t], JournalEntry(in))) = 1
          /\ Append(journal[t], JournalEntry(in))[1] = JournalEntry(in)
      BY <1>2, <2>1, PostJournalFacts
    <3>2. Consistent(row, "none", Append(journal[t], JournalEntry(in)))
      BY <1>2, <1>3, <2>1, <3>1, PostJournalFacts DEF Consistent
    <3> QED
      BY <1>2, <2>1, <3>1, <3>2, PostJournalFacts DEF HoldStatus
  <2>2. CASE /\ status = "pending" /\ CustomerInitiatedOutbound(in)
             /\ CreateHold(t, in) /\ NoPosting
    <3>1. Consistent(row, "active", <<>>)
      BY <1>3, <2>2 DEF Consistent
    <3>2. in.account \in Accounts /\ in.amount \in Int
      <4>1. in.account \in Accounts /\ in.amount \in Amounts
        BY DEF Request
      <4>2. \A n \in Amounts : n \in Int
        BY SpineAssumption
      <4> QED
        BY <4>1, <4>2
    <3>3. BalancesTyped'
      <4>1. ledger \in [Accounts -> Int] /\ available \in [Accounts -> Int]
        BY DEF IInv, TypeOK
      <4>2. /\ ledger' = ledger
            /\ available' = [available EXCEPT ![in.account] = @ - in.amount]
        BY <2>2 DEF CreateHold, NoPosting
      <4>3. available[in.account] - in.amount \in Int
        BY <3>2, <4>1
      <4> QED
        BY <4>1, <4>2, <4>3 DEF BalancesTyped
    <3>4. hold' = [hold EXCEPT ![t] = "active"] /\ journal' = [journal EXCEPT ![t] = <<>>]
      BY <1>2, <2>2 DEF CreateHold, NoPosting
    <3>5. "active" \in HoldStatus /\ <<>> \in Seq(Entry)
      BY DEF HoldStatus
    <3> QED
      BY <3>1, <3>3, <3>4, <3>5
  <2>3. CASE /\ status = "failed" \/ (status = "pending" /\ ~CustomerInitiatedOutbound(in))
             /\ NoPosting /\ UNCHANGED <<hold, available>>
    <3>1. Consistent(row, "none", <<>>)
      BY <1>3, <2>3 DEF Consistent
    <3>2. BalancesTyped'
      BY <2>3 DEF NoPosting, BalancesTyped, IInv, TypeOK
    <3>3. hold' = [hold EXCEPT ![t] = "none"] /\ journal' = [journal EXCEPT ![t] = <<>>]
      BY <1>2, <2>3 DEF NoPosting
    <3>4. "none" \in HoldStatus /\ <<>> \in Seq(Entry)
      BY DEF HoldStatus
    <3> QED
      BY <3>1, <3>2, <3>3, <3>4
  <2> QED
    BY <2>1, <2>2, <2>3 DEF CreateTransfer, t, status
<1>5. PICK h \in HoldStatus, j \in Seq(Entry) :
           /\ hold' = [hold EXCEPT ![t] = h] /\ journal' = [journal EXCEPT ![t] = j]
           /\ Consistent(row, h, j)
  BY <1>4
<1>6. RowStep(t, row, h, j)
  BY <1>1, <1>2, <1>3, <1>5 DEF RowStep, Fresh
<1>7. in.event \in Optional(Events) /\ Fingerprint(in) \in FingerprintType
  BY FingerprintFacts DEF Request
<1>8. /\ events' \in [Events -> [transfer: Transfer, fingerprint: FingerprintType] \cup {NoEventRow}]
      /\ EventsKept
  <2> HIDE DEF t
  <2> QED
    BY <1>1, <1>2, <1>7, ReserveEventFacts DEF Fresh
<1>9. audit' \subseteq Transfer \X Statuses
  <2> HIDE DEF t, row
  <2> QED
    BY <1>1, <1>2, <1>3, AuditTransferFacts
<1>10. OthersTyped'
  <2> HIDE DEF t, row
  <2> QED
    BY <1>1, <1>2, <1>4, <1>8, <1>9 DEF OthersTyped, BalancesTyped, IInv, TypeOK
<1> QED
  BY <1>2, <1>3, <1>6, <1>8, <1>10 DEF GoodStep, StepShape

\* The row a final or pending answer leaves.
LEMMA SettledRowFacts ==
    ASSUME IInv, NEW t \in Existing, NEW in \in Request, in.reference \in BaseReference
    PROVE  /\ SettledRow(t, in) \in Row
           /\ SettledRow(t, in).status = in.status
           /\ SettledRow(t, in).account = transfers[t].account
           /\ SettledRow(t, in).amount = transfers[t].amount
           /\ SettledRow(t, in).direction = transfers[t].direction
           /\ SettledRow(t, in).key = transfers[t].key
           /\ SettledRow(t, in).journalled <=> in.status = "succeeded"
           /\ SettledRow(t, in).ledgerStatus \in {"posted", "reversal_deficit"}
                  <=> in.status = "succeeded"
           /\ PlainReference(SettledRow(t, in))
<1> DEFINE row == SettledRow(t, in)
           old == transfers[t]
           ledgerStatus == LedgerStatusOf(in.status)
           recStatus == ReconciliationStatusOf(in.status, in.providerStatus)
           event == IF in.event = Nil THEN old.event ELSE in.event
           journalled == in.status = "succeeded"
<1>1. old \in Row /\ PlainReference(old)
  BY ExistingFacts
<1>2. /\ in.reference \in Reference /\ in.event \in Optional(Events)
      /\ in.status \in Statuses /\ in.providerStatus \in ProviderStatuses
  BY DEF Request
<1>3. /\ ledgerStatus \in {"pending", "posted", "no_posting"}
      /\ ledgerStatus = "posted" <=> in.status = "succeeded"
      /\ recStatus \in {"pending", "matched", "no_action", "manual_review"}
  BY <1>2, StatusFacts
<1>4. event \in Optional(Events) /\ journalled \in BOOLEAN
  BY <1>1, <1>2 DEF Row
<1>5. row = [old EXCEPT !.status = in.status, !.providerStatus = in.providerStatus,
                        !.ledgerStatus = ledgerStatus, !.reconciliationStatus = recStatus,
                        !.reference = in.reference, !.event = event, !.journalled = journalled]
  BY <1>1 DEF SettledRow, Row
<1>0. journalled <=> in.status = "succeeded"
  OBVIOUS
<1> HIDE DEF row, old, ledgerStatus, recStatus, event, journalled
<1>6. row \in Row
  BY <1>1, <1>2, <1>3, <1>4, <1>5 DEF Row
<1>7. /\ row.status = in.status /\ row.ledgerStatus = ledgerStatus
      /\ row.account = old.account /\ row.amount = old.amount
      /\ row.direction = old.direction /\ row.key = old.key
      /\ row.reference = in.reference /\ row.fingerprint = old.fingerprint
  BY <1>1, <1>5 DEF Row
<1>8. row.journalled <=> in.status = "succeeded"
  <2>1. row.journalled = journalled
    BY <1>1, <1>5 DEF Row
  <2> QED
    BY <1>0, <2>1
<1>9. PlainReference(row)
  BY <1>1, <1>7 DEF PlainReference
<1> QED
  BY <1>3, <1>6, <1>7, <1>8, <1>9 DEF row, old, ledgerStatus

LEMMA SettlePendingTransferStep ==
    ASSUME IInv, NEW t \in Existing, IsOpen(t), NEW in \in PlainRequest,
           in.direction = transfers[t].direction, EventUnused(in.event),
           SettlePendingTransfer(t, in)
    PROVE  GoodStep
<1> DEFINE row == SettledRow(t, in)
<1>1. /\ in \in Request /\ in.providerStatus = in.status /\ in.reference \in BaseReference
      /\ in.event \in Optional(Events)
  BY DEF PlainRequest, Request
<1>2. /\ transfers[t].account = in.account /\ transfers[t].amount = in.amount
      /\ SettleMoney(t, in)
      /\ transfers' = [transfers EXCEPT ![t] = row] /\ count' = count
      /\ ReserveEvent(in.event, Fingerprint(in), t) /\ AuditTransfer(t, row)
      /\ UNCHANGED <<accountStatus, lien, calling, reviewing>>
  BY DEF SettlePendingTransfer
<1>3. t \in Transfer
  BY ExistingFacts
<1>4. /\ row \in Row /\ row.status = in.status /\ row.account = in.account
      /\ row.amount = in.amount /\ row.key = transfers[t].key
      /\ row.journalled <=> in.status = "succeeded"
      /\ row.ledgerStatus \in {"posted", "reversal_deficit"} <=> in.status = "succeeded"
      /\ PlainReference(row)
  BY <1>1, <1>2, SettledRowFacts
<1> HIDE DEF row
<1>5. BalancesTyped' /\ in.status \in {"succeeded", "failed"}
  BY <1>1, <1>2, SettleMoneyFacts
<1>6. PICK h \in HoldStatus, j \in Seq(Entry) :
          /\ hold' = [hold EXCEPT ![t] = h] /\ journal' = [journal EXCEPT ![t] = j]
          /\ h # "active"
          /\ h = "consumed" => in.status = "succeeded"
          /\ h = "released" => in.status = "failed"
          /\ Len(j) = (IF in.status = "succeeded" THEN 1 ELSE 0)
          /\ in.status = "succeeded" => /\ j[1].amount = in.amount
                                        /\ in.account \in {j[1].debit, j[1].credit}
  BY <1>1, <1>2, SettleMoneyFacts
<1>7. Consistent(row, h, j)
  BY <1>4, <1>5, <1>6 DEF Consistent
<1>8. RowStep(t, row, h, j)
  BY <1>2, <1>3, <1>4, <1>6, <1>7 DEF RowStep
<1>9. /\ events' \in [Events -> [transfer: Transfer, fingerprint: FingerprintType] \cup {NoEventRow}]
      /\ EventsKept
  BY <1>1, <1>2, <1>3, FingerprintFacts, ReserveEventFacts
<1>10. audit' \subseteq Transfer \X Statuses
  BY <1>2, <1>3, <1>4, AuditTransferFacts
<1>11. OthersTyped'
  BY <1>2, <1>5, <1>9, <1>10 DEF OthersTyped, BalancesTyped, IInv, TypeOK
<1> QED
  BY <1>3, <1>4, <1>8, <1>9, <1>11 DEF GoodStep, StepShape

\* A set of transfer ids that is not empty has an oldest one.
LEMMA OldestFacts ==
    ASSUME NEW S \in SUBSET Nat, S # {}
    PROVE  Oldest(S) \in S /\ \A u \in S : Oldest(S) <= u
<1>1. PICK t \in S : \A u \in S : ~(<<u, t>> \in OpToRel(<, Nat))
  BY NatLessThanWellFounded, WFMin
<1>2. \A u \in S : t <= u
  <2>1. SUFFICES ASSUME NEW u \in S PROVE t <= u
    OBVIOUS
  <2>2. u \in Nat /\ t \in Nat
    OBVIOUS
  <2>3. ~(u < t)
    BY <1>1, <2>2, Zenon DEF OpToRel
  <2> QED
    BY <2>2, <2>3
<1> QED
  BY <1>2 DEF Oldest

\* A request is recorded on the oldest open transfer with its reference, or on
\* a new row.
LEMMA RecordTransferStep ==
    ASSUME IInv, NEW in \in Requests, RecordTransfer(in)
    PROVE  GoodStep
<1>1. in \in PlainRequest /\ in \in Request /\ in.providerStatus = in.status
      /\ in.reference \in BaseReference /\ in.reversalOf = NotReversal
  BY RequestType DEF PlainRequest
<1>2. CASE SettlesByReference(in) /\ SettlePendingTransfer(Oldest(PendingByReference(in)), in)
  <2>1. PendingByReference(in) \in SUBSET Nat /\ PendingByReference(in) # {}
    BY <1>2, SpineAssumption DEF SettlesByReference, PendingByReference, Existing, IInv, TypeOK
  <2>2. Oldest(PendingByReference(in)) \in PendingByReference(in)
    BY <2>1, OldestFacts
  <2> QED
    BY <1>1, <1>2, <2>2, SettlePendingTransferStep
    DEF PendingByReference, SameReference, IsOpen, SettlesByReference, Fresh
<1>3. CASE CreatesTransfer(in) /\ CreateTransfer(in)
  BY <1>1, <1>3, CreateTransferStep DEF CreatesTransfer
<1> QED
  BY <1>2, <1>3 DEF RecordTransfer

\* A transfer that is pending exists.
LEMMA PendingExists ==
    ASSUME IInv, NEW t \in Transfer, IsPending(t)
    PROVE  t \in Existing /\ IsOpen(t)
<1>1. transfers[t] # NoRow
  BY DEF IsPending, NoRow
<1>2. t <= count /\ t \in 1..MaxTransfers /\ count \in Nat
  BY <1>1, SpineAssumption DEF IInv, TypeOK, Transfer
<1> QED
  BY <1>2, SpineAssumption DEF Existing, IsPending, IsOpen

\* The completion of an open transfer by a provider's answer.
LEMMA CompletionFacts ==
    ASSUME IInv, NEW t \in Existing, transfers[t].direction \in Directions,
           NEW reference \in BaseReference, NEW res \in ProviderResult
    PROVE  LET in == Completion(t, reference, res)
           IN  /\ in \in Request
               /\ in.direction = transfers[t].direction
               /\ in.account = transfers[t].account /\ in.amount = transfers[t].amount
               /\ in.reference = reference /\ in.event = res.event /\ in.event \in Optional(Events)
               /\ in.status = res.status /\ in.status \in Statuses
               /\ EffectiveStatus(in) = res.status
               /\ res.status # "pending" => in \in PlainRequest
<1> DEFINE in == Completion(t, reference, res)
<1>1. transfers[t] \in Row
  BY ExistingFacts
<1>2. /\ transfers[t].account \in Accounts /\ transfers[t].amount \in Amounts
      /\ transfers[t].provider \in Providers /\ transfers[t].key \in Key
      /\ transfers[t].fingerprint \in FingerprintType
  BY <1>1 DEF Row
<1>3. transfers[t].fingerprint.op \in Operations
  BY <1>2 DEF FingerprintType
<1>4. /\ res.status \in Statuses /\ res.providerStatus \in ProviderStatuses
      /\ res.event \in Optional(Events)
      /\ res.providerStatus # res.status => /\ res.providerStatus = "provider_unknown"
                                            /\ res.status = "pending"
  BY DEF ProviderResult
<1>5. DefaultSettlement \in Accounts /\ BaseReference \subseteq Reference
  BY SpineAssumption DEF Accounts, BaseReference, Reference
<1>6. in = [op |-> transfers[t].fingerprint.op, direction |-> transfers[t].direction,
            status |-> res.status, providerStatus |-> res.providerStatus,
            account |-> transfers[t].account, clearing |-> DefaultSettlement,
            amount |-> transfers[t].amount, provider |-> transfers[t].provider,
            key |-> transfers[t].key, event |-> res.event, reversalOf |-> NotReversal,
            reference |-> reference, rejectInsufficient |-> FALSE, requireAvailable |-> FALSE]
  BY DEF Completion
<1> HIDE DEF in
<1>7. in \in Request
  BY <1>2, <1>3, <1>4, <1>5, <1>6 DEF Request
<1>8. /\ in.direction = transfers[t].direction /\ in.account = transfers[t].account
      /\ in.amount = transfers[t].amount /\ in.reference = reference /\ in.event = res.event
      /\ in.status = res.status /\ in.providerStatus = res.providerStatus
      /\ in.reversalOf = NotReversal
  BY <1>6
<1>9. EffectiveStatus(in) = res.status
  BY <1>4, <1>8 DEF EffectiveStatus, Statuses
<1>10. res.status # "pending" => in \in PlainRequest
  BY <1>4, <1>7, <1>8 DEF PlainRequest
<1>11. /\ in.event \in Optional(Events) /\ in.status \in Statuses
  BY <1>4, <1>8
<1> QED
  BY <1>7, <1>8, <1>9, <1>10, <1>11 DEF in

LEMMA CompleteOutboundStep ==
    ASSUME IInv, NEW t \in Transfer, NEW reference \in BaseReference, NEW res \in ProviderResult,
           CompleteOutbound(t, reference, res), calling' \subseteq Transfer
    PROVE  GoodStep
<1> DEFINE in == Completion(t, reference, res)
           updated == [SettledRow(t, in) EXCEPT !.status = EffectiveStatus(in)]
<1>1. t \in Existing /\ IsOpen(t) /\ transfers[t].direction = "outbound"
  BY PendingExists DEF CompleteOutbound
<1>2. /\ in \in Request /\ in.direction = "outbound"
      /\ in.account = transfers[t].account /\ in.amount = transfers[t].amount
      /\ in.reference \in BaseReference /\ in.event \in Optional(Events)
      /\ in.status \in Statuses /\ EffectiveStatus(in) = in.status
  BY <1>1, CompletionFacts DEF Directions
<1>3. /\ EventUnused(in.event)
      /\ \/ SettleMoney(t, in) /\ in.status # "pending"
         \/ /\ in.status = "pending" /\ hold[t] = "active"
            /\ UNCHANGED <<hold, available, ledger, journal>>
      /\ transfers' = [transfers EXCEPT ![t] = updated] /\ count' = count
      /\ ReserveEvent(in.event, transfers[t].fingerprint, t)
      /\ audit' = audit \cup AuditExternalOutbound(t, updated)
      /\ UNCHANGED <<accountStatus, lien, reviewing>>
  BY <1>2 DEF CompleteOutbound, NoPosting
<1>4. updated = SettledRow(t, in)
  <2>1. SettledRow(t, in).status = in.status /\ SettledRow(t, in) \in Row
    BY <1>1, <1>2, SettledRowFacts
  <2> QED
    BY <1>2, <2>1 DEF Row
<1> HIDE DEF in, updated
<1>5. /\ updated \in Row /\ updated.status = in.status /\ updated.account = in.account
      /\ updated.amount = in.amount /\ updated.key = transfers[t].key
      /\ updated.direction = "outbound"
      /\ updated.journalled <=> in.status = "succeeded"
      /\ updated.ledgerStatus \in {"posted", "reversal_deficit"} <=> in.status = "succeeded"
      /\ PlainReference(updated)
  BY <1>1, <1>2, <1>4, SettledRowFacts
<1>6. /\ BalancesTyped'
      /\ \E h \in HoldStatus, j \in Seq(Entry) :
           /\ hold' = [hold EXCEPT ![t] = h] /\ journal' = [journal EXCEPT ![t] = j]
           /\ Consistent(updated, h, j)
  <2>1. CASE SettleMoney(t, in) /\ in.status # "pending"
    <3>1. BalancesTyped'
      BY <1>1, <1>2, <2>1, SettleMoneyFacts
    <3>2. PICK h \in HoldStatus, j \in Seq(Entry) :
              /\ hold' = [hold EXCEPT ![t] = h] /\ journal' = [journal EXCEPT ![t] = j]
              /\ h # "active"
              /\ h = "consumed" => in.status = "succeeded"
              /\ h = "released" => in.status = "failed"
              /\ Len(j) = (IF in.status = "succeeded" THEN 1 ELSE 0)
              /\ in.status = "succeeded" => /\ j[1].amount = in.amount
                                            /\ in.account \in {j[1].debit, j[1].credit}
      BY <1>1, <1>2, <2>1, SettleMoneyFacts
    <3>3. Consistent(updated, h, j)
      BY <1>5, <2>1, <3>2 DEF Consistent
    <3> QED
      BY <3>1, <3>2, <3>3
  <2>2. CASE /\ in.status = "pending" /\ hold[t] = "active"
             /\ UNCHANGED <<hold, available, ledger, journal>>
    <3>1. /\ hold[t] \in HoldStatus /\ journal[t] \in Seq(Entry)
          /\ Consistent(transfers[t], hold[t], journal[t])
      BY <1>1, ExistingFacts
    <3>2. Consistent(updated, hold[t], journal[t])
      BY <1>1, <1>5, <2>2, <3>1 DEF Consistent, IsOpen
    <3>3. hold' = [hold EXCEPT ![t] = hold[t]] /\ journal' = [journal EXCEPT ![t] = journal[t]]
      BY <2>2 DEF IInv, TypeOK
    <3>4. BalancesTyped'
      BY <2>2 DEF BalancesTyped, IInv, TypeOK
    <3> QED
      BY <3>1, <3>2, <3>3, <3>4
  <2> QED
    BY <1>3, <2>1, <2>2
<1>7. PICK h \in HoldStatus, j \in Seq(Entry) :
          /\ hold' = [hold EXCEPT ![t] = h] /\ journal' = [journal EXCEPT ![t] = j]
          /\ Consistent(updated, h, j)
  BY <1>6
<1>8. RowStep(t, updated, h, j)
  BY <1>1, <1>3, <1>5, <1>7 DEF RowStep
<1>9. /\ events' \in [Events -> [transfer: Transfer, fingerprint: FingerprintType] \cup {NoEventRow}]
      /\ EventsKept
  <2>1. transfers[t] \in Row
    BY <1>1, ExistingFacts
  <2>2. transfers[t].fingerprint \in FingerprintType
    BY <2>1 DEF Row
  <2> QED
    BY <1>2, <1>3, <2>2, ReserveEventFacts
<1>10. audit' \subseteq Transfer \X Statuses
  BY <1>2, <1>3, <1>5 DEF AuditExternalOutbound, IInv, TypeOK
<1>11. OthersTyped'
  BY <1>3, <1>6, <1>9, <1>10 DEF OthersTyped, BalancesTyped, IInv, TypeOK
<1> QED
  BY <1>5, <1>8, <1>9, <1>11 DEF GoodStep, StepShape

LEMMA UpdatePendingInboundStep ==
    ASSUME IInv, NEW t \in Existing, IsOpen(t), NEW in \in Request,
           UpdatePendingInbound(t, in)
    PROVE  GoodStep
<1> DEFINE old == transfers[t]
           row == [old EXCEPT
                      !.providerStatus = in.providerStatus,
                      !.ledgerStatus = "pending",
                      !.reconciliationStatus = ReconciliationStatusOf("pending", in.providerStatus)]
<1>1. /\ transfers' = [transfers EXCEPT ![t] = row] /\ AuditTransfer(t, row)
      /\ UNCHANGED <<accountStatus, ledger, available, count, hold, journal, lien, events,
                     calling, reviewing>>
  BY DEF UpdatePendingInbound
<1>2. /\ t \in Transfer /\ old \in Row /\ PlainReference(old)
      /\ hold[t] \in HoldStatus /\ journal[t] \in Seq(Entry)
      /\ Consistent(old, hold[t], journal[t]) /\ old.status = "pending"
  BY ExistingFacts DEF IsOpen
<1>3. /\ in.providerStatus \in ProviderStatuses
      /\ ReconciliationStatusOf("pending", in.providerStatus)
             \in {"pending", "matched", "no_action", "manual_review"}
  BY StatusFacts DEF Request, Statuses
<1> HIDE DEF old
<1>4. row \in Row
  BY <1>2, <1>3 DEF Row
<1>5. /\ row.status = old.status /\ row.direction = old.direction /\ row.key = old.key
      /\ row.reference = old.reference /\ row.fingerprint = old.fingerprint
      /\ row.journalled = old.journalled /\ row.ledgerStatus = "pending"
  BY <1>2 DEF Row
<1> HIDE DEF row
<1>6. Consistent(row, hold[t], journal[t]) /\ PlainReference(row)
  BY <1>2, <1>5 DEF Consistent, PlainReference
<1>7. RowStep(t, row, hold[t], journal[t])
  BY <1>1, <1>2, <1>4, <1>5, <1>6 DEF RowStep, IInv, TypeOK, old
<1>8. OthersTyped'
  BY <1>1, <1>2, <1>4, AuditTransferFacts DEF OthersTyped, IInv, TypeOK
<1>9. EventsKept
  BY <1>1 DEF EventsKept
<1> QED
  BY <1>2, <1>4, <1>7, <1>8, <1>9 DEF GoodStep, StepShape

LEMMA RequeryStep ==
    ASSUME IInv, NEW t \in Existing, NEW res \in ProviderResult,
           NEW reference \in References \cup {transfers[t].reference},
           CompleteExternalTransferRequery(t, reference, res)
    PROVE  GoodStep
<1>1. /\ IsPending(t) /\ res.event = Nil /\ t \in Transfer /\ IsOpen(t)
  BY ExistingFacts, PendingExists DEF CompleteExternalTransferRequery, Requeryable
<1>2. transfers[t].direction \in {"inbound", "outbound"}
  BY DEF CompleteExternalTransferRequery
<1>3. reference \in BaseReference
  BY <1>2, ExistingFacts DEF PlainReference, BaseReference, Optional
<1>4. LET in == Completion(t, reference, res)
      IN  /\ in \in Request /\ in.event = Nil /\ in.direction = transfers[t].direction
          /\ res.status # "pending" => in \in PlainRequest
  BY <1>1, <1>2, <1>3, CompletionFacts DEF Directions
<1>5. CASE CompleteOutbound(t, reference, res) /\ UNCHANGED calling
  <2>1. calling' \subseteq Transfer
    BY <1>5 DEF IInv, TypeOK
  <2> QED
    BY <1>1, <1>3, <1>5, <2>1, CompleteOutboundStep
<1>6. CASE UpdatePendingInbound(t, Completion(t, reference, res))
  BY <1>1, <1>4, <1>6, UpdatePendingInboundStep
<1>7. CASE res.status # "pending" /\ SettlePendingTransfer(t, Completion(t, reference, res))
  BY <1>1, <1>4, <1>7, SettlePendingTransferStep DEF EventUnused
<1> QED
  BY <1>5, <1>6, <1>7 DEF CompleteExternalTransferRequery

LEMMA ReverseAsStep ==
    ASSUME IInv, NEW t \in Transfer, NEW key \in Keys, NEW reference \in Optional(References),
           NEW event \in Optional(Events), NEW provider \in Providers,
           ReverseAs(t, key, reference, event, provider)
    PROVE  GoodStep
<1> DEFINE in == ReversalRequest(t, key, reference, event, provider)
<1>1. /\ t \in Existing /\ transfers[t].journalled /\ transfers[t].direction # "reversal"
      /\ CreatesTransfer(in) /\ CreateTransfer(in)
  BY DEF ReverseAs
<1>2. /\ in \in Request /\ in.status = "succeeded" /\ in.providerStatus = "succeeded"
      /\ in.reversalOf = t
  BY <1>1, ReversalRequestType
<1>3. t # NotReversal
  BY SpineAssumption DEF Transfer, NotReversal
<1> HIDE DEF in
<1> QED
  BY <1>1, <1>2, <1>3, CreateTransferStep DEF CreatesTransfer

LEMMA RecordReviewStep ==
    ASSUME IInv, NEW in \in InboundEvents, NEW account \in Accounts, NEW reserve \in BOOLEAN,
           RecordReview(in, account, reserve),
           reviewing' \subseteq reviewing
    PROVE  GoodStep
<1> DEFINE t == count + 1
           fingerprint == Fingerprint([in EXCEPT !.account = IF account = in.account THEN @ ELSE Nil])
           status == IF in.status = "pending" THEN "pending" ELSE "failed"
           row == [account |-> account, direction |-> "inbound", status |-> status,
                   providerStatus |-> in.status, ledgerStatus |-> "no_posting",
                   reconciliationStatus |-> "manual_review", amount |-> in.amount,
                   key |-> ReviewKey(fingerprint), provider |-> in.provider,
                   reference |-> in.reference, event |-> in.event, journalled |-> FALSE,
                   reversalOf |-> NotReversal, fingerprint |-> fingerprint]
           event == IF reserve THEN in.event ELSE Nil
<1>1. /\ count < MaxTransfers /\ count' = t /\ KeyUnused(ReviewKey(fingerprint))
      /\ reserve => EventUnused(in.event)
      /\ transfers' = [transfers EXCEPT ![t] = row]
      /\ ReserveEvent(event, fingerprint, t)
      /\ audit' = audit \cup {<<t, status>>}
      /\ UNCHANGED <<accountStatus, ledger, available, hold, journal, lien, calling>>
  BY DEF RecordReview
<1>2. t \in Transfer /\ hold[t] = "none" /\ journal[t] = <<>>
  BY <1>1, NextSlotFacts
<1>3. in \in Request /\ in.providerStatus = in.status /\ in.reference \in BaseReference
  BY RequestType DEF InboundEvents, PlainRequest
<1>4. /\ in.amount \in Amounts /\ in.provider \in Providers /\ in.reference \in Reference
      /\ in.event \in Optional(Events) /\ in.status \in Statuses /\ in.account \in Accounts
  BY <1>3 DEF Request
<1>5. fingerprint \in FingerprintType /\ fingerprint.reference = in.reference
  BY <1>3 DEF Request, Fingerprint, FingerprintType, Optional
<1>6. ReviewKey(fingerprint) \in Key
  BY <1>5 DEF ReviewKey, Key
<1>7. /\ status \in {"pending", "failed"} /\ status \in Statuses
      /\ in.status \in ProviderStatuses /\ "inbound" \in Directions
  BY <1>4 DEF Statuses, ProviderStatuses, Directions
<1> HIDE DEF fingerprint, status
<1>8. row \in Row
  BY <1>3, <1>4, <1>5, <1>6, <1>7 DEF Row, NotReversal
<1>9. /\ row.status = status /\ row.direction = "inbound" /\ ~row.journalled
      /\ row.ledgerStatus = "no_posting" /\ row.key = ReviewKey(fingerprint)
      /\ row.reference = in.reference /\ row.fingerprint = fingerprint
  OBVIOUS
<1> HIDE DEF row, t
<1>10. Consistent(row, "none", <<>>) /\ PlainReference(row)
  BY <1>3, <1>5, <1>7, <1>9 DEF Consistent, PlainReference
<1>11. /\ hold' = [hold EXCEPT ![t] = "none"] /\ journal' = [journal EXCEPT ![t] = <<>>]
       /\ "none" \in HoldStatus /\ <<>> \in Seq(Entry)
  BY <1>1, <1>2 DEF IInv, TypeOK, HoldStatus
<1>12. RowStep(t, row, "none", <<>>)
  BY <1>1, <1>2, <1>8, <1>9, <1>10, <1>11 DEF RowStep, t
<1>13. /\ events' \in [Events -> [transfer: Transfer, fingerprint: FingerprintType] \cup {NoEventRow}]
       /\ EventsKept
  BY <1>1, <1>2, <1>4, <1>5, ReserveEventFacts DEF Optional
<1>14. OthersTyped'
  BY <1>1, <1>2, <1>7, <1>13 DEF OthersTyped, IInv, TypeOK
<1> QED
  BY <1>2, <1>8, <1>11, <1>12, <1>13, <1>14 DEF GoodStep, StepShape

\* Account controls and liens move no row, and no lien moves a ledger balance.
LEMMA AccountStep ==
    ASSUME IInv,
           \/ \E a \in Customers : \/ FreezeAccount(a) \/ UnfreezeAccount(a)
                                   \/ ActivatePostNoDebit(a) \/ DeactivatePostNoDebit(a)
           \/ \E a \in Customers, r \in LienReferences, n \in Amounts : PlaceAccountLien(a, r, n)
           \/ \E r \in LienReferences : ReleaseAccountLien(r)
    PROVE  GoodStep
<1>0. /\ OthersTyped /\ Customers \subseteq Accounts
      /\ \A n \in Amounts : n \in Int
  BY SpineAssumption DEF IInv, TypeOK, OthersTyped, Accounts
<1>1. CASE \E a \in Customers : \/ FreezeAccount(a) \/ UnfreezeAccount(a)
                                \/ ActivatePostNoDebit(a) \/ DeactivatePostNoDebit(a)
  <2>1. PICK a \in Customers, to \in {"active", "frozen", "post_no_debit"} :
            /\ accountStatus' = [accountStatus EXCEPT ![a] = to]
            /\ UNCHANGED <<ledger, available, count, transfers, hold, journal, lien, events, audit,
                           calling, reviewing>>
    BY <1>1 DEF FreezeAccount, UnfreezeAccount, ActivatePostNoDebit, DeactivatePostNoDebit,
                SetAccountStatus
  <2> QED
    BY <1>0, <2>1 DEF GoodStep, StepShape, OthersTyped, EventsKept
<1>2. ASSUME NEW a \in Customers, NEW r \in LienReferences, NEW n \in Amounts,
             PlaceAccountLien(a, r, n)
      PROVE  GoodStep
  <2>1. /\ lien' = [lien EXCEPT ![r] = [account |-> a, amount |-> n]]
        /\ available' = [available EXCEPT ![a] = @ - n]
        /\ UNCHANGED <<accountStatus, ledger, count, transfers, hold, journal, events, audit,
                       calling, reviewing>>
    BY <1>2 DEF PlaceAccountLien
  <2>2. available \in [Accounts -> Int] /\ available[a] - n \in Int
    BY <1>0 DEF OthersTyped
  <2>3. available' \in [Accounts -> Int]
    BY <1>0, <2>1, <2>2
  <2> QED
    BY <1>0, <2>1, <2>3 DEF GoodStep, StepShape, OthersTyped, EventsKept
<1>3. ASSUME NEW r \in LienReferences, ReleaseAccountLien(r)
      PROVE  GoodStep
  <2>1. /\ lien[r] # NoLien /\ lien' = [lien EXCEPT ![r] = NoLien]
        /\ available' = [available EXCEPT ![lien[r].account] = @ + lien[r].amount]
        /\ UNCHANGED <<accountStatus, ledger, count, transfers, hold, journal, events, audit,
                       calling, reviewing>>
    BY <1>3 DEF ReleaseAccountLien
  <2>2. lien[r] \in [account: Customers, amount: Amounts]
    BY <1>0, <2>1 DEF OthersTyped
  <2>3. lien[r].account \in Accounts /\ lien[r].amount \in Int
    BY <1>0, <2>2
  <2>4. available \in [Accounts -> Int] /\ available[lien[r].account] + lien[r].amount \in Int
    BY <1>0, <2>3 DEF OthersTyped
  <2>5. available' \in [Accounts -> Int]
    BY <2>1, <2>3, <2>4
  <2> QED
    BY <1>0, <2>1, <2>5 DEF GoodStep, StepShape, OthersTyped, EventsKept
<1> QED
  BY <1>1, <1>2, <1>3

LEMMA NextStep ==
    ASSUME IInv, [Next]_vars
    PROVE  GoodStep
<1>1. ASSUME NEW in \in Requests, RecordTransfer(in) PROVE GoodStep
  BY <1>1, RecordTransferStep
<1>2. ASSUME NEW t \in Transfer, NEW res \in ProviderResult, CompleteExternalOutboundTransfer(t, res)
      PROVE  GoodStep
  <2> DEFINE intended == transfers[t].fingerprint.reference
             reference == IF intended = Nil THEN <<"mock-nip-out", t>> ELSE intended
  <2>1. CompleteOutbound(t, reference, res) /\ calling' = calling \ {t}
    BY <1>2 DEF CompleteExternalOutboundTransfer
  <2>2. t \in Existing /\ transfers[t].direction = "outbound"
    BY <2>1, PendingExists DEF CompleteOutbound
  <2>3. intended \in BaseReference
    BY <2>2, ExistingFacts DEF PlainReference
  <2>4. reference \in BaseReference
    BY <2>3 DEF BaseReference
  <2>5. calling' \subseteq Transfer
    BY <2>1 DEF IInv, TypeOK
  <2> QED
    BY <2>1, <2>4, <2>5, CompleteOutboundStep
<1>3. ASSUME NEW t \in Existing, NEW res \in ProviderResult,
             NEW reference \in References \cup {transfers[t].reference},
             CompleteExternalTransferRequery(t, reference, res)
      PROVE  GoodStep
  BY <1>3, RequeryStep
<1>4. ASSUME NEW t \in Transfer, NEW key \in Keys, ReverseTransfer(t, key) PROVE GoodStep
  <2>1. t \in Existing /\ ReverseAs(t, key, Nil, Nil, transfers[t].provider)
    BY <1>4 DEF ReverseTransfer
  <2>2. transfers[t].provider \in Providers
    BY <2>1, ExistingFacts DEF Row
  <2> QED
    BY <2>1, <2>2, ReverseAsStep DEF Optional
<1>5. ASSUME NEW t \in Transfer, NEW key \in Keys, NEW r \in References, NEW e \in Events,
             MockReversalWebhook(t, key, r, e)
      PROVE  GoodStep
  BY <1>5, ReverseAsStep DEF MockReversalWebhook, Optional, Providers
<1>6. ASSUME NEW in \in InboundEvents, ReviewUnknownDestination(in) PROVE GoodStep
  BY <1>6, RecordReviewStep, SpineAssumption DEF ReviewUnknownDestination, Accounts
<1>7. ASSUME NEW in \in InboundEvents, NEW reason \in {"blocked", "conflict"}, SendToReview(in, reason)
      PROVE  GoodStep
  BY <1>7 DEF SendToReview, GoodStep, StepShape, OthersTyped, EventsKept, IInv, TypeOK
<1>8. ASSUME NEW call \in reviewing, RecordProviderEventReview(call) PROVE GoodStep
  <2>1. call[1] \in InboundEvents
    BY DEF IInv, TypeOK
  <2>2. call[1].account \in Accounts
    BY <2>1, RequestType DEF InboundEvents, PlainRequest, Request
  <2>3. RecordReview(call[1], call[1].account, call[2] = "blocked") /\ reviewing' \subseteq reviewing
    BY <1>8 DEF RecordProviderEventReview
  <2>4. (call[2] = "blocked") \in BOOLEAN
    OBVIOUS
  <2> QED
    BY <2>1, <2>2, <2>3, <2>4, RecordReviewStep
<1>9. ASSUME NEW call \in reviewing, LoseReview(call) PROVE GoodStep
  BY <1>9 DEF LoseReview, GoodStep, StepShape, OthersTyped, EventsKept, IInv, TypeOK
<1>10. CASE UNCHANGED vars
  BY <1>10 DEF vars, GoodStep, StepShape, OthersTyped, EventsKept, IInv, TypeOK
<1>11. ASSUME NEW a \in Customers,
              \/ FreezeAccount(a) \/ UnfreezeAccount(a)
              \/ ActivatePostNoDebit(a) \/ DeactivatePostNoDebit(a)
       PROVE  GoodStep
  BY <1>11, AccountStep
<1>12. ASSUME NEW a \in Customers, NEW r \in LienReferences, NEW n \in Amounts,
              PlaceAccountLien(a, r, n)
       PROVE  GoodStep
  BY <1>12, AccountStep
<1>13. ASSUME NEW r \in LienReferences, ReleaseAccountLien(r) PROVE GoodStep
  BY <1>13, AccountStep
<1> QED
  BY <1>1, <1>2, <1>3, <1>4, <1>5, <1>6, <1>7, <1>8, <1>9, <1>10, <1>11, <1>12, <1>13 DEF Next

-----------------------------------------------------------------------------
(***************************************************************************)
(* The theorems.                                                           *)
(***************************************************************************)
LEMMA InitInvariant == Init => IInv
<1> SUFFICES ASSUME Init PROVE IInv
  OBVIOUS
<1>2. /\ count = 0 /\ MaxTransfers \in Nat /\ Existing = {}
      /\ \A t \in Transfer : t \in Int /\ t > 0
  BY SpineAssumption DEF Init, Existing, Transfer
<1>3. TypeOK
  <2>1. /\ ledger \in [Accounts -> Int] /\ available \in [Accounts -> Int]
        /\ accountStatus \in [Accounts -> {"active", "frozen", "post_no_debit"}]
        /\ count \in 0..MaxTransfers
    BY <1>2, SpineAssumption DEF Init
  <2>2. /\ transfers \in [Transfer -> Row \cup {NoRow}]
        /\ \A t \in Transfer : t <= count <=> transfers[t] # NoRow
        /\ hold \in [Transfer -> {"none", "active", "released", "consumed"}]
        /\ journal \in [Transfer -> Seq(Entry)]
    BY <1>2 DEF Init
  <2>3. /\ lien \in [LienReferences -> [account: Customers, amount: Amounts] \cup {NoLien}]
        /\ events \in [Events -> [transfer: Transfer, fingerprint: FingerprintType] \cup {NoEventRow}]
        /\ audit \subseteq Transfer \X Statuses /\ calling \subseteq Transfer
        /\ reviewing \subseteq InboundEvents \X {"blocked", "conflict"}
    BY DEF Init
  <2> QED
    BY <2>1, <2>2, <2>3 DEF TypeOK
<1> QED
  BY <1>2, <1>3 DEF Init, IInv, UnusedSlotsAreBlank, KeyNamesOneTransfer

LEMMA NextInvariant == IInv /\ [Next]_vars => IInv'
  BY NextStep, StepShapeKeepsInvariant DEF GoodStep

THEOREM Invariance == Spec => []IInv
  BY InitInvariant, NextInvariant, PTL DEF Spec

\* Every state of every history is well typed.
THEOREM TypeCorrect == Spec => []TypeOK
<1>1. IInv => TypeOK
  BY DEF IInv
<1> QED
  BY <1>1, Invariance, PTL

\* A hold is active exactly while its outbound transfer is pending, and is
\* consumed or released only with the matching outcome.
THEOREM HoldsMirrorTransfers == Spec => []HoldMirrorsTransfer
<1>1. IInv => HoldMirrorsTransfer
  BY DEF IInv, HoldMirrorsTransfer, Consistent, IsOpen
<1> QED
  BY <1>1, Invariance, PTL

\* A transfer posts one journal entry of its amount on its account exactly when
\* it succeeds.
THEOREM JournalsMatchOutcomes == Spec => []JournalMatchesOutcome
<1>1. IInv => JournalMatchesOutcome
  BY DEF IInv, JournalMatchesOutcome, Consistent
<1> QED
  BY <1>1, Invariance, PTL

\* No two transfers ever share an idempotency key.
THEOREM KeysNameOneTransfer == Spec => []KeyNamesOneTransfer
<1>1. IInv => KeyNamesOneTransfer
  BY DEF IInv
<1> QED
  BY <1>1, Invariance, PTL

\* The row, the hold and the journal of a transfer that is no longer pending.
FinalRowsRest ==
    \A t \in Existing :
        ~IsOpen(t) => /\ transfers'[t] = transfers[t]
                      /\ hold'[t] = hold[t]
                      /\ journal'[t] = journal[t]

LEMMA NextKeepsFinalRows == IInv /\ [Next]_vars => FinalRowsRest
<1>1. SUFFICES ASSUME IInv, [Next]_vars, NEW t \in Existing, ~IsOpen(t)
               PROVE  /\ transfers'[t] = transfers[t]
                      /\ hold'[t] = hold[t] /\ journal'[t] = journal[t]
  BY DEF FinalRowsRest
<1>2. StepShape
  BY <1>1, NextStep DEF GoodStep
<1>3. ASSUME NEW u \in Transfer, NEW row \in Row, NEW h \in HoldStatus, NEW j \in Seq(Entry),
             RowStep(u, row, h, j)
      PROVE  /\ transfers'[t] = transfers[t]
             /\ hold'[t] = hold[t] /\ journal'[t] = journal[t]
  <2>1. count \in Nat
    BY <1>1, SpineAssumption DEF IInv, TypeOK
  <2>2. count + 1 \notin Existing
    BY <2>1 DEF Existing
  <2>3. u # t /\ t \in Transfer
    BY <1>1, <1>3, <2>2, ExistingFacts DEF RowStep
  <2> QED
    BY <1>1, <1>3, <2>3 DEF RowStep, IInv, TypeOK
<1>4. ASSUME UNCHANGED <<count, transfers, hold, journal>>
      PROVE  /\ transfers'[t] = transfers[t]
             /\ hold'[t] = hold[t] /\ journal'[t] = journal[t]
  BY <1>4
<1> QED
  BY <1>2, <1>3, <1>4 DEF StepShape

\* No step changes the row, the hold or the journal of a transfer that is no
\* longer pending.
THEOREM OutcomesAreFinal == Spec => OutcomeIsFinal
<1> DEFINE Final == \A t \in Existing :
                       ~IsOpen(t) => /\ transfers'[t] = transfers[t]
                                     /\ hold'[t] = hold[t]
                                     /\ journal'[t] = journal[t]
<1>1. IInv /\ [Next]_vars => Final
  BY NextKeepsFinalRows DEF FinalRowsRest
<1> QED
  BY <1>1, Invariance, PTL DEF Spec, OutcomeIsFinal

\* An event linked to a transfer stays linked to it.
THEOREM EventLinksArePermanent == Spec => EventLinkIsPermanent
<1>1. IInv /\ [Next]_vars => \A e \in Events : events[e].transfer # 0 => events'[e] = events[e]
  BY NextStep DEF GoodStep, EventsKept
<1> QED
  BY <1>1, Invariance, PTL DEF Spec, EventLinkIsPermanent
=============================================================================
