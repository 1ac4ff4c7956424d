------------------------- MODULE TransactionProofs --------------------------
(***************************************************************************)
(* Proofs about what each transaction of TransferSpine does to the rows,   *)
(* journals and events: reversals mirror, references and events move money *)
(* once, outcomes are audited, statement lines stay.                       *)
(*                                                                         *)
(* The invariant of TransferSpineProofs says what one row, its hold and    *)
(* its journal have to do with each other.  Here it is strengthened by who *)
(* told the system what the row says.                                      *)
(***************************************************************************)
EXTENDS TransferSpineProofs

-----------------------------------------------------------------------------
(***************************************************************************)
(* The requests once more: what their endpoints promise beyond their type. *)
(***************************************************************************)
DemoOperations == {"mock_outbound", "mock_final", "mock_webhook"}

\* A customer's account on one side; what comes in comes from the institution's
\* own; the institution's own transfers are final at once; an inbound event of
\* the provider has an id; only demo routes record an outcome nobody asked for.
Endorsed(in) ==
    /\ in.account \in Customers
    /\ in.direction = "inbound" => in.clearing \in Settlement
    /\ in.provider = "ledger_internal" => in.status = "succeeded"
    /\ in.provider = "mock_nip" /\ in.direction = "inbound" => in.event # Nil
    /\ in.op = "external_inbound" => in.provider = "mock_nip"
    /\ in.op \notin DemoOperations /\ in.direction = "outbound" =>
           /\ in.rejectInsufficient
           /\ in.provider = "mock_nip" => in.status = "pending"

LEMMA RequestsEndorsed == \A in \in Requests : Endorsed(in) /\ in.op \in Endpoints
<1>1. DefaultSettlement \in Settlement /\ Nil \notin Events
  BY SpineAssumption
<1>2. \A in \in InternalCredit : Endorsed(in)
  BY DEF InternalCredit, Form, Endorsed
<1>3. \A in \in InternalDebit : Endorsed(in)
  BY DEF InternalDebit, Form, Endorsed
<1>4. \A in \in InternalTransfer : Endorsed(in)
  BY DEF InternalTransfer, Form, Endorsed
<1>5. \A in \in ExternalOutboundTransfer : Endorsed(in)
  BY DEF ExternalOutboundTransfer, Form, Endorsed
<1>6. \A in \in ExternalInboundEvent : Endorsed(in)
  <2>1. SUFFICES ASSUME NEW e \in Events,
                        NEW in \in Form("external_inbound", "inbound", Statuses, Customers,
                                       {DefaultSettlement}, "mock_nip", {InboundKey(e)}, References,
                                       {e}, FALSE, FALSE)
                 PROVE  Endorsed(in)
    BY DEF ExternalInboundEvent
  <2>2. /\ in.account \in Customers /\ in.clearing = DefaultSettlement /\ in.event = e
        /\ in.provider = "mock_nip" /\ in.direction = "inbound"
    BY DEF Form
  <2> QED
    BY ONLY <1>1, <2>2 DEF Endorsed
<1>7. \A in \in MockOutbound : Endorsed(in)
  BY DEF MockOutbound, Form, Endorsed, DemoOperations
<1>8. \A in \in MockOutboundFinal : Endorsed(in)
  BY DEF MockOutboundFinal, Form, Endorsed, DemoOperations
<1>9. \A in \in MockProviderWebhook : Endorsed(in)
  <2>1. SUFFICES ASSUME NEW d \in Directions,
                        NEW in \in Form("mock_webhook", d, Statuses, Customers, {DefaultSettlement},
                                       "mock_nip", Keys, References, Events, FALSE, FALSE)
                 PROVE  Endorsed(in)
    BY DEF MockProviderWebhook
  <2>2. /\ in.account \in Customers /\ in.clearing = DefaultSettlement /\ in.event \in Events
        /\ in.provider = "mock_nip" /\ in.op = "mock_webhook"
    BY DEF Form
  <2> QED
    BY ONLY <1>1, <2>2 DEF Endorsed, DemoOperations
<1> QED
  BY <1>2, <1>3, <1>4, <1>5, <1>6, <1>7, <1>8, <1>9 DEF Requests

-----------------------------------------------------------------------------
(***************************************************************************)
(* The transactions, one by one.                                           *)
(***************************************************************************)
\* A final answer settles an open transfer: a request that names its reference,
\* or a requery.  A transfer kept for review is not requeried.
Settles(t, in) ==
    /\ t \in Existing /\ IsOpen(t) /\ in \in PlainRequest
    /\ in.direction = transfers[t].direction /\ in.provider = transfers[t].provider
    /\ in.account = transfers[t].account /\ in.amount = transfers[t].amount
    /\ EventUnused(in.event)
    /\ \/ in \in Requests
       \/ /\ in.clearing = DefaultSettlement
          /\ transfers[t].ledgerStatus = "pending" /\ transfers[t].direction = "inbound"
    /\ SettlePendingTransfer(t, in)

\* The provider answers about an outbound transfer, and may not know yet.
Answers(t, reference, res) ==
    /\ t \in Existing /\ IsOpen(t) /\ transfers[t].direction = "outbound"
    /\ reference \in BaseReference /\ res \in ProviderResult
    /\ CompleteOutbound(t, reference, res)

\* A requery finds an inbound transfer still pending.
StaysPending(t, in) ==
    /\ t \in Existing /\ IsOpen(t) /\ in \in Request
    /\ in.status = "pending" /\ in.providerStatus \in {"pending", "provider_unknown"}
    /\ transfers[t].ledgerStatus = "pending"
    /\ UpdatePendingInbound(t, in)

Reviews(in, account, reserve) ==
    /\ in \in InboundEvents /\ account \in {in.account, DefaultSettlement} /\ reserve \in BOOLEAN
    /\ RecordReview(in, account, reserve)

\* Account controls and liens.
Controls ==
    \/ \E a \in Customers : \/ FreezeAccount(a) \/ UnfreezeAccount(a)
                            \/ ActivatePostNoDebit(a) \/ DeactivatePostNoDebit(a)
    \/ \E a \in Customers, r \in LienReferences, n \in Amounts : PlaceAccountLien(a, r, n)
    \/ \E r \in LienReferences : ReleaseAccountLien(r)

Idle == UNCHANGED <<accountStatus, ledger, available, count, transfers, hold, journal, lien,
                    events, audit>>

Transaction ==
    \/ \E in \in Requests : CreatesTransfer(in) /\ CreateTransfer(in)
    \/ \E t \in Existing, key \in Keys, reference \in Optional(References),
          event \in Optional(Events), provider \in Providers :
              ReverseAs(t, key, reference, event, provider)
    \/ \E t \in Existing, in \in PlainRequest : Settles(t, in)
    \/ \E t \in Existing, reference \in BaseReference, res \in ProviderResult :
              Answers(t, reference, res)
    \/ \E t \in Existing, in \in Request : StaysPending(t, in)
    \/ \E in \in InboundEvents, account \in Accounts, reserve \in BOOLEAN :
              Reviews(in, account, reserve)
    \/ Controls
    \/ Idle

LEMMA SettlesByReferenceFacts ==
    ASSUME IInv, NEW in \in Requests, SettlesByReference(in),
           SettlePendingTransfer(Oldest(PendingByReference(in)), in)
    PROVE  \E t \in Existing : Settles(t, in)
<1>1. PendingByReference(in) \in SUBSET Nat /\ PendingByReference(in) # {}
  BY SpineAssumption DEF SettlesByReference, PendingByReference, Existing, IInv, TypeOK
<1>2. Oldest(PendingByReference(in)) \in PendingByReference(in)
  BY <1>1, OldestFacts
<1> QED
  BY <1>2, RequestType DEF PendingByReference, SameReference, IsOpen, SettlesByReference, Fresh,
                           Settles, SettlePendingTransfer

LEMMA RequeryFacts ==
    ASSUME IInv, NEW t \in Existing, NEW res \in ProviderResult,
           NEW reference \in References \cup {transfers[t].reference},
           CompleteExternalTransferRequery(t, reference, res)
    PROVE  \/ Answers(t, reference, res) /\ reference \in BaseReference
           \/ \E in \in Request : StaysPending(t, in)
           \/ \E in \in PlainRequest : Settles(t, in)
<1> DEFINE in == Completion(t, reference, res)
<1>1. /\ IsPending(t) /\ res.event = Nil /\ t \in Transfer /\ IsOpen(t)
      /\ transfers[t].ledgerStatus = "pending"
  BY ExistingFacts, PendingExists DEF CompleteExternalTransferRequery, Requeryable
<1>2. transfers[t].direction \in {"inbound", "outbound"}
  BY DEF CompleteExternalTransferRequery
<1>3. reference \in BaseReference
  BY <1>2, ExistingFacts DEF PlainReference, BaseReference, Optional
<1>4. /\ in \in Request /\ in.event = Nil /\ in.direction = transfers[t].direction
      /\ in.account = transfers[t].account /\ in.amount = transfers[t].amount
      /\ in.status = res.status
      /\ res.status # "pending" => in \in PlainRequest
  BY <1>1, <1>2, <1>3, CompletionFacts DEF Directions
<1>5. /\ in.clearing = DefaultSettlement /\ in.provider = transfers[t].provider
      /\ in.providerStatus = res.providerStatus
  BY DEF Completion
<1>6. res.status = "pending" => res.providerStatus \in {"pending", "provider_unknown"}
  BY DEF ProviderResult
<1> HIDE DEF in
<1>7. CASE transfers[t].direction = "outbound" /\ CompleteOutbound(t, reference, res)
  BY <1>1, <1>3, <1>7 DEF Answers
<1>8. CASE res.status = "pending" /\ UpdatePendingInbound(t, in)
  BY <1>1, <1>4, <1>5, <1>6, <1>8 DEF StaysPending
<1>9. CASE /\ res.status # "pending" /\ transfers[t].direction = "inbound"
           /\ SettlePendingTransfer(t, in)
  BY <1>1, <1>4, <1>5, <1>9 DEF Settles, EventUnused
<1> QED
  BY <1>7, <1>8, <1>9 DEF CompleteExternalTransferRequery, in

\* Every step of the specification is one of these transactions.
LEMMA TransactionCases ==
    ASSUME IInv, [Next]_vars
    PROVE  Transaction
<1>1. ASSUME NEW in \in Requests, RecordTransfer(in) PROVE Transaction
  <2>1. CASE SettlesByReference(in) /\ SettlePendingTransfer(Oldest(PendingByReference(in)), in)
    <3>1. in \in PlainRequest
      BY RequestType
    <3> QED
      BY <2>1, <3>1, SettlesByReferenceFacts DEF Transaction
  <2>2. CASE CreatesTransfer(in) /\ CreateTransfer(in)
    BY <2>2 DEF Transaction
  <2> QED
    BY <1>1, <2>1, <2>2 DEF RecordTransfer
<1>2. ASSUME NEW t \in Transfer, NEW res \in ProviderResult, CompleteExternalOutboundTransfer(t, res)
      PROVE  Transaction
  <2> DEFINE intended == transfers[t].fingerprint.reference
             reference == IF intended = Nil THEN <<"mock-nip-out", t>> ELSE intended
  <2>1. CompleteOutbound(t, reference, res)
    BY <1>2 DEF CompleteExternalOutboundTransfer
  <2>2. t \in Existing /\ IsOpen(t) /\ transfers[t].direction = "outbound"
    BY <2>1, PendingExists DEF CompleteOutbound
  <2>3. intended \in BaseReference
    BY <2>2, ExistingFacts DEF PlainReference
  <2>4. reference \in BaseReference
    BY <2>3 DEF BaseReference
  <2>5. Answers(t, reference, res)
    BY <2>1, <2>2, <2>4 DEF Answers
  <2> QED
    BY <2>2, <2>4, <2>5 DEF Transaction
<1>3. ASSUME NEW t \in Existing, NEW res \in ProviderResult,
             NEW reference \in References \cup {transfers[t].reference},
             CompleteExternalTransferRequery(t, reference, res)
      PROVE  Transaction
  BY <1>3, RequeryFacts DEF Transaction
<1>4. ASSUME NEW t \in Transfer, NEW key \in Keys, ReverseTransfer(t, key) PROVE Transaction
  <2>1. t \in Existing /\ ReverseAs(t, key, Nil, Nil, transfers[t].provider)
    BY <1>4 DEF ReverseTransfer
  <2>2. transfers[t].provider \in Providers
    BY <2>1, ExistingFacts DEF Row
  <2>3. Nil \in Optional(References) /\ Nil \in Optional(Events)
    BY DEF Optional
  <2> QED
    BY <2>1, <2>2, <2>3 DEF Transaction
<1>5. ASSUME NEW t \in Transfer, NEW key \in Keys, NEW r \in References, NEW e \in Events,
             MockReversalWebhook(t, key, r, e)
      PROVE  Transaction
  <2>1. t \in Existing /\ ReverseAs(t, key, r, e, "mock_nip")
    BY <1>5 DEF MockReversalWebhook, ReverseAs
  <2>2. r \in Optional(References) /\ e \in Optional(Events) /\ "mock_nip" \in Providers
    BY DEF Optional, Providers
  <2> QED
    BY <2>1, <2>2 DEF Transaction
<1>6. ASSUME NEW in \in InboundEvents, ReviewUnknownDestination(in) PROVE Transaction
  <2>1. Reviews(in, DefaultSettlement, TRUE) /\ DefaultSettlement \in Accounts
    BY <1>6, SpineAssumption DEF ReviewUnknownDestination, Reviews, Accounts
  <2> QED
    BY <2>1 DEF Transaction
<1>7. ASSUME NEW call \in reviewing, RecordProviderEventReview(call) PROVE Transaction
  <2>1. call[1] \in InboundEvents
    BY DEF IInv, TypeOK
  <2>2. call[1].account \in Accounts
    BY <2>1, RequestType DEF InboundEvents, PlainRequest, Request
  <2>3. (call[2] = "blocked") \in BOOLEAN
    OBVIOUS
  <2>4. Reviews(call[1], call[1].account, call[2] = "blocked")
    BY <1>7, <2>1, <2>3 DEF RecordProviderEventReview, Reviews
  <2> QED
    BY <2>1, <2>2, <2>3, <2>4 DEF Transaction
<1>8. ASSUME \/ \E in \in InboundEvents, reason \in {"blocked", "conflict"} : SendToReview(in, reason)
             \/ \E call \in reviewing : LoseReview(call)
             \/ UNCHANGED vars
      PROVE  Transaction
  BY <1>8 DEF SendToReview, LoseReview, vars, Transaction, Idle
<1>9. ASSUME Controls PROVE Transaction
  BY <1>9 DEF Transaction
<1> QED
  BY <1>1, <1>2, <1>3, <1>4, <1>5, <1>6, <1>7, <1>8, <1>9 DEF Next, Controls

-----------------------------------------------------------------------------
(***************************************************************************)
(* The strengthened invariant.                                             *)
(***************************************************************************)
\* A transfer succeeds only on the word of its provider.
ProviderSaidSo(row) ==
    /\ row.status = "succeeded" => row.providerStatus = "succeeded"
    /\ row.status = "pending" => row.providerStatus \in {"pending", "provider_unknown"}

\* The journal moved a customer's money in the direction of the transfer.
MoneyMovedAsTold(row, j) ==
    row.status = "succeeded" =>
        /\ row.account \in Customers
        /\ j[1].debit # j[1].credit
        /\ row.direction = "outbound" => j[1].debit = row.account
        /\ row.direction = "inbound" => j[1].credit = row.account

\* Only the provider keeps a transfer open, and only an inbound event is open
\* while it is kept for review.
OpenAtProvider(row) ==
    row.status = "pending" =>
        /\ row.provider = "mock_nip"
        /\ row.ledgerStatus = "no_posting" => row.direction = "inbound"
        /\ row.ledgerStatus # "no_posting" => row.account \in Customers

ReversalRow(row) ==
    /\ row.direction = "reversal" <=> row.reversalOf # NotReversal
    /\ row.direction = "reversal" => row.status = "succeeded"

Recorded(row, j) ==
    ProviderSaidSo(row) /\ MoneyMovedAsTold(row, j) /\ OpenAtProvider(row) /\ ReversalRow(row)

\* Also an open transfer is the one its event is linked to, unless it was kept
\* for review.
Linked(t) ==
    transfers[t].event # Nil /\ transfers[t].ledgerStatus # "no_posting"
        => events[transfers[t].event].transfer = t

RInv ==
    /\ IInv
    /\ \A t \in Existing : Recorded(transfers[t], journal[t])
    /\ \A t \in Existing : Linked(t)
    /\ ReversalMirrorsOriginal
    /\ InternalReferencePostsOnce

SameName(row, other) ==
    /\ row.provider = other.provider /\ row.reference = other.reference
    /\ row.direction = other.direction

\* What makes the row of a reversal: the first one of its original, with the
\* original's entry the other way round.
TakesBack(row, j) ==
    LET o == row.reversalOf
    IN  /\ o \in Existing
        /\ transfers[o].status = "succeeded" /\ transfers[o].reversalOf = NotReversal
        /\ j[1].debit = journal[o][1].credit /\ j[1].credit = journal[o][1].debit
        /\ j[1].amount = journal[o][1].amount
        /\ \A u \in Existing : transfers[u].reversalOf # o

\* One row is written: a new one, or the open one it replaces.
RowWritten(t, row, j) ==
    /\ t \in Transfer /\ row \in Row
    /\ transfers' = [transfers EXCEPT ![t] = row]
    /\ journal' = [journal EXCEPT ![t] = j]
    /\ \/ /\ t = count + 1 /\ count' = t
          /\ row.reversalOf # NotReversal => TakesBack(row, j)
          /\ row.provider = "ledger_internal" /\ row.reference # Nil /\ row.reversalOf = NotReversal
                 => \A u \in Existing : ~SameName(transfers[u], row)
       \/ /\ t \in Existing /\ IsOpen(t) /\ count' = count
          /\ row.reversalOf = transfers[t].reversalOf /\ row.provider = transfers[t].provider
          /\ row.account = transfers[t].account /\ row.direction = transfers[t].direction
    /\ Recorded(row, j)
    /\ row.event # Nil /\ row.ledgerStatus # "no_posting" => events'[row.event].transfer = t

RecordShape ==
    \/ UNCHANGED <<count, transfers, journal, events>>
    \/ \E t \in Transfer, row \in Row, j \in Seq(Entry) : RowWritten(t, row, j)

\* Writing one row keeps what the invariant says of the others.
LEMMA RowWrittenFacts ==
    ASSUME IInv, NEW t \in Transfer, NEW row \in Row, NEW j \in Seq(Entry), RowWritten(t, row, j)
    PROVE  /\ Existing' = Existing \cup {t} /\ Existing \subseteq Transfer
           /\ t \in Nat /\ \A u \in Existing : u \in Nat /\ u # 0 /\ u <= count
           /\ \A u \in Existing' : transfers'[u] = IF u = t THEN row ELSE transfers[u]
           /\ \A u \in Existing' : journal'[u] = IF u = t THEN j ELSE journal[u]
<1>1. count \in Nat /\ MaxTransfers \in Nat /\ count <= MaxTransfers
  BY SpineAssumption DEF IInv, TypeOK
<1>2. Existing \subseteq Transfer /\ \A u \in Existing : u \in Nat /\ u # 0 /\ u <= count
  BY <1>1 DEF Existing, Transfer
<1>3. t \in Nat /\ Existing' = Existing \cup {t}
  <2>1. t \in 1..MaxTransfers
    BY DEF Transfer
  <2>2. CASE t = count + 1 /\ count' = t
    BY <1>1, <2>2 DEF Existing
  <2>3. CASE t \in Existing /\ count' = count
    BY <1>1, <2>1, <2>3 DEF Existing
  <2> QED
    BY <2>1, <2>2, <2>3 DEF RowWritten
<1>4. \A u \in Transfer : /\ transfers'[u] = IF u = t THEN row ELSE transfers[u]
                          /\ journal'[u] = IF u = t THEN j ELSE journal[u]
  BY DEF RowWritten, IInv, TypeOK
<1> QED
  BY <1>2, <1>3, <1>4

LEMMA RecordShapeKeepsInvariant ==
    ASSUME RInv, IInv', EventsKept, RecordShape
    PROVE  RInv'
<1>1. CASE UNCHANGED <<count, transfers, journal, events>>
  BY <1>1 DEF RInv, Recorded, ProviderSaidSo, MoneyMovedAsTold, OpenAtProvider, ReversalRow, Linked,
              ReversalMirrorsOriginal, InternalReferencePostsOnce, SameReference, Existing
<1>2. ASSUME NEW t \in Transfer, NEW row \in Row, NEW j \in Seq(Entry), RowWritten(t, row, j)
      PROVE  RInv'
  <2>0. IInv
    BY DEF RInv
  <2>1. /\ Existing' = Existing \cup {t} /\ Existing \subseteq Transfer
        /\ t \in Nat /\ \A u \in Existing : u \in Nat /\ u # 0 /\ u <= count
        /\ count \in Nat
        /\ \A u \in Existing' : transfers'[u] = IF u = t THEN row ELSE transfers[u]
        /\ \A u \in Existing' : journal'[u] = IF u = t THEN j ELSE journal[u]
    <3>1. count \in Nat
      BY <2>0, SpineAssumption DEF IInv, TypeOK
    <3> QED
      BY <2>0, <3>1, <1>2, RowWrittenFacts
  <2>2. \A u \in Existing : u # t => u \in Existing'
    BY <2>1
  <2>3. \/ /\ t = count + 1 /\ t \notin Existing
           /\ row.reversalOf # NotReversal => TakesBack(row, j)
           /\ row.provider = "ledger_internal" /\ row.reference # Nil /\ row.reversalOf = NotReversal
                  => \A u \in Existing : ~SameName(transfers[u], row)
        \/ /\ t \in Existing /\ IsOpen(t)
           /\ row.reversalOf = transfers[t].reversalOf /\ row.provider = transfers[t].provider
    <3>1. t = count + 1 => t \notin Existing
      BY <2>1
    <3> QED
      BY <1>2, <3>1 DEF RowWritten
  <2>4. Recorded(row, j) /\ \A u \in Existing : Recorded(transfers[u], journal[u])
    BY <1>2 DEF RowWritten, RInv
  <2>5. \A u \in Existing' : Recorded(transfers'[u], journal'[u])
    BY <2>1, <2>4
  <2>6. \A u \in Existing' : Linked(u)'
    <3>1. Linked(t)'
      BY <1>2, <2>1 DEF RowWritten, Linked
    <3>2. ASSUME NEW u \in Existing, u # t PROVE Linked(u)'
      <4>1. transfers'[u] = transfers[u] /\ transfers[u] \in Row
        BY <2>0, <2>1, <3>2, ExistingFacts
      <4>2. transfers[u].event # Nil => transfers[u].event \in Events
        BY <4>1 DEF Row, Optional
      <4>3. u # 0 /\ Linked(u)
        BY <2>1 DEF RInv
      <4> QED
        BY <4>1, <4>2, <4>3 DEF Linked, EventsKept
    <3> QED
      BY <2>1, <3>1, <3>2
  <2>7. ReversalMirrorsOriginal'
    <3>1. SUFFICES ASSUME NEW r \in Existing', transfers'[r].reversalOf # NotReversal
                   PROVE  LET o == transfers'[r].reversalOf
                          IN  /\ o < r
                              /\ transfers'[o].status = "succeeded"
                              /\ transfers'[o].reversalOf = NotReversal
                              /\ transfers'[r].status = "succeeded"
                              /\ journal'[r][1].debit = journal'[o][1].credit
                              /\ journal'[r][1].credit = journal'[o][1].debit
                              /\ journal'[r][1].amount = journal'[o][1].amount
                              /\ \A u \in Existing' : transfers'[u].reversalOf = o => u = r
      BY DEF ReversalMirrorsOriginal
    <3>2. CASE r = t /\ t = count + 1 /\ t \notin Existing /\ TakesBack(row, j)
      <4>1. /\ row.reversalOf \in Existing /\ row.reversalOf < t /\ row.reversalOf # t
            /\ row.reversalOf \in Existing' /\ transfers'[t].reversalOf = row.reversalOf
        <5>1. row.reversalOf \in Existing
          BY <3>2 DEF TakesBack
        <5>2. \A u \in Existing : u < count + 1
          BY <2>1
        <5>3. transfers'[t] = row
          BY <2>1
        <5> QED
          BY <2>1, <3>2, <5>1, <5>2, <5>3
      <4>2. row.status = "succeeded"
        BY <2>1, <2>4, <3>1, <3>2 DEF Recorded, ReversalRow
      <4> QED
        BY <2>1, <3>2, <4>1, <4>2 DEF TakesBack
    <3>3. CASE r = t /\ t \in Existing /\ IsOpen(t) /\ row.reversalOf = transfers[t].reversalOf
      BY <2>1, <2>4, <3>1, <3>3 DEF Recorded, ReversalRow, IsOpen
    <3>4. CASE r # t
      <4> DEFINE o == transfers[r].reversalOf
      <4>1. r \in Existing /\ transfers'[r] = transfers[r] /\ journal'[r] = journal[r]
            /\ r \in Nat /\ r <= count /\ transfers[r] \in Row
        BY <2>0, <2>1, <3>4, ExistingFacts
      <4>2. o # NotReversal /\ o \in Nat /\ o # 0
        BY <3>1, <4>1, SpineAssumption DEF Row, Transfer, NotReversal
      <4>3. /\ o < r
            /\ transfers[o].status = "succeeded" /\ transfers[o].reversalOf = NotReversal
            /\ transfers[r].status = "succeeded"
            /\ journal[r][1].debit = journal[o][1].credit
            /\ journal[r][1].credit = journal[o][1].debit
            /\ journal[r][1].amount = journal[o][1].amount
            /\ \A u \in Existing : transfers[u].reversalOf = o => u = r
        BY <4>1, <4>2 DEF RInv, ReversalMirrorsOriginal
      <4>4. o \in Existing /\ o # t
        BY <2>1, <2>3, <4>1, <4>2, <4>3 DEF Existing, IsOpen
      <4>5. transfers'[o] = transfers[o] /\ journal'[o] = journal[o]
        BY <2>1, <4>4
      <4>6. ASSUME NEW u \in Existing', transfers'[u].reversalOf = o PROVE u = r
        <5>1. CASE u # t
          BY <2>1, <4>3, <4>6, <5>1
        <5>2. CASE u = t
          BY <2>1, <2>3, <4>1, <4>2, <4>3, <4>6, <5>2 DEF TakesBack
        <5> QED
          BY <5>1, <5>2
      <4> QED
        BY <4>1, <4>3, <4>5, <4>6
    <3> QED
      BY <2>1, <2>3, <3>1, <3>2, <3>3, <3>4
  <2>8. InternalReferencePostsOnce'
    <3>1. SUFFICES ASSUME NEW x \in Existing', NEW y \in Existing',
                          transfers'[x].provider = "ledger_internal",
                          transfers'[x].reference # Nil, transfers'[x].reversalOf = NotReversal,
                          SameName(transfers'[y], transfers'[x]), x # y
                   PROVE  FALSE
      BY DEF InternalReferencePostsOnce, SameReference, SameName
    <3>2. CASE x # t /\ y # t
      <4>1. /\ x \in Existing /\ y \in Existing
            /\ transfers'[x] = transfers[x] /\ transfers'[y] = transfers[y]
        BY <2>1, <3>2
      <4> QED
        BY <3>1, <4>1 DEF RInv, InternalReferencePostsOnce, SameReference, SameName
    <3>3. transfers'[x].provider = "ledger_internal" /\ transfers'[y].provider = "ledger_internal"
      BY <3>1 DEF SameName
    <3>4. CASE t \in Existing /\ IsOpen(t) /\ row.provider = transfers[t].provider /\ t \in {x, y}
      BY <2>1, <2>4, <3>3, <3>4 DEF Recorded, OpenAtProvider, IsOpen
    <3>5. CASE t \notin Existing /\ x = t
      <4>1. y \in Existing /\ transfers'[y] = transfers[y] /\ transfers'[x] = row
        BY <2>1, <3>1, <3>5
      <4> QED
        BY <2>3, <3>1, <3>5, <4>1
    <3>6. CASE t \notin Existing /\ y = t
      <4>1. x \in Existing /\ transfers'[x] = transfers[x] /\ transfers'[y] = row
        BY <2>1, <3>1, <3>6
      <4>2. Recorded(transfers[x], journal[x])
        BY <2>4, <4>1
      <4>3. row.reversalOf = NotReversal
        BY <2>4, <3>1, <4>1, <4>2 DEF Recorded, ReversalRow, SameName
      <4> QED
        BY <2>3, <3>1, <3>6, <4>1, <4>3 DEF SameName
    <3> QED
      BY <2>3, <3>2, <3>4, <3>5, <3>6
  <2>9. (\A u \in Existing : Recorded(transfers[u], journal[u]))'
    BY <2>5 DEF Recorded, ProviderSaidSo, MoneyMovedAsTold, OpenAtProvider, ReversalRow
  <2>10. (\A u \in Existing : Linked(u))'
    BY <2>6 DEF Linked
  <2> QED
    BY <2>7, <2>8, <2>9, <2>10 DEF RInv
<1> QED
  BY <1>1, <1>2 DEF RecordShape

-----------------------------------------------------------------------------
(***************************************************************************)
(* What each transaction writes.                                           *)
(***************************************************************************)
\* The fields of a created row that come straight from the request.
LEMMA CreatedRowFields ==
    ASSUME NEW in \in Request
    PROVE  /\ CreatedRow(in).providerStatus = in.providerStatus
           /\ CreatedRow(in).provider = in.provider /\ CreatedRow(in).reference = in.reference
           /\ CreatedRow(in).event = in.event /\ CreatedRow(in).reversalOf = in.reversalOf
           /\ CreatedRow(in).direction = (IF in.reversalOf = NotReversal THEN in.direction
                                                                         ELSE "reversal")
           /\ CreatedRow(in).ledgerStatus = "no_posting" => CreatedStatus(in) = "failed"
<1> DEFINE status == CreatedStatus(in)
           deficit == status = "succeeded" /\ WouldCreateReversalDeficit(in, ledger[in.account])
<1>1. CreatedRow(in).ledgerStatus = IF deficit THEN "reversal_deficit" ELSE LedgerStatusOf(status)
  BY DEF CreatedRow
<1> HIDE DEF deficit
<1>2. CreatedRow(in).ledgerStatus = "no_posting" => status = "failed"
  BY <1>1 DEF LedgerStatusOf
<1>3. /\ CreatedRow(in).providerStatus = in.providerStatus
      /\ CreatedRow(in).provider = in.provider /\ CreatedRow(in).reference = in.reference
      /\ CreatedRow(in).event = in.event /\ CreatedRow(in).reversalOf = in.reversalOf
      /\ CreatedRow(in).direction = IF in.reversalOf = NotReversal THEN in.direction ELSE "reversal"
  BY DEF CreatedRow
<1> QED
  BY <1>2, <1>3

\* The entry of a request joins its account with another one, in its direction.
LEMMA JournalEntryFacts ==
    ASSUME NEW in \in Request, in.account # in.clearing
    PROVE  /\ JournalEntry(in) \in Entry
           /\ JournalEntry(in).debit # JournalEntry(in).credit
           /\ JournalEntry(in).amount = in.amount
           /\ in.direction = "outbound" => /\ JournalEntry(in).debit = in.account
                                           /\ JournalEntry(in).credit = in.clearing
           /\ in.direction # "outbound" => /\ JournalEntry(in).credit = in.account
                                           /\ JournalEntry(in).debit = in.clearing
BY DEF JournalEntry, Entry, Request

\* A row is created with its entry, if it succeeded, and with its hold, if it
\* waits for an outbound payment.
LEMMA CreationFacts ==
    ASSUME IInv, NEW in \in Request, CreateTransfer(in)
    PROVE  /\ count + 1 \in Transfer /\ count' = count + 1
           /\ transfers' = [transfers EXCEPT ![count + 1] = CreatedRow(in)]
           /\ in.account # in.clearing
           /\ ReserveEvent(in.event, Fingerprint(in), count + 1)
           /\ \/ /\ CreatedStatus(in) = "succeeded" /\ in.status = "succeeded" /\ ~Insufficient(in)
                 /\ PostJournal(count + 1, in, Nil) /\ hold' = hold
                 /\ journal' = [journal EXCEPT ![count + 1] = <<JournalEntry(in)>>]
              \/ /\ CreatedStatus(in) = "pending" /\ CustomerInitiatedOutbound(in) /\ ~Insufficient(in)
                 /\ CreateHold(count + 1, in)
                 /\ ledger' = ledger
                 /\ journal' = [journal EXCEPT ![count + 1] = <<>>] /\ journal' = journal
              \/ /\ \/ CreatedStatus(in) = "failed"
                    \/ CreatedStatus(in) = "pending" /\ ~CustomerInitiatedOutbound(in)
                 /\ UNCHANGED <<ledger, available, hold, journal>>
                 /\ journal' = [journal EXCEPT ![count + 1] = <<>>]
<1>1. count < MaxTransfers /\ in.account # in.clearing
  BY DEF CreateTransfer, EnforceTransferControls
<1>2. /\ count + 1 \in Transfer /\ journal[count + 1] = <<>>
      /\ journal = [journal EXCEPT ![count + 1] = <<>>]
  BY <1>1, NextSlotFacts DEF IInv, TypeOK
<1>3. CreatedStatus(in) \in {"succeeded", "pending"} => ~Insufficient(in)
  BY DEF CreatedStatus
<1>4. CreatedStatus(in) = "succeeded" => in.status = "succeeded"
  BY DEF CreatedStatus, EffectiveStatus
<1>5. CASE CreatedStatus(in) = "succeeded" /\ PostJournal(count + 1, in, Nil) /\ UNCHANGED hold
  <2>1. journal' = [journal EXCEPT ![count + 1] = Append(journal[count + 1], JournalEntry(in))]
    BY <1>2, <1>5, PostJournalFacts
  <2>2. Append(<<>>, JournalEntry(in)) = <<JournalEntry(in)>>
    OBVIOUS
  <2> QED
    BY <1>1, <1>2, <1>3, <1>4, <1>5, <2>1, <2>2 DEF CreateTransfer
<1>6. CASE /\ CreatedStatus(in) = "pending" /\ CustomerInitiatedOutbound(in)
           /\ CreateHold(count + 1, in) /\ NoPosting
  BY <1>1, <1>2, <1>3, <1>6 DEF CreateTransfer, NoPosting
<1>7. CASE /\ \/ CreatedStatus(in) = "failed"
              \/ CreatedStatus(in) = "pending" /\ ~CustomerInitiatedOutbound(in)
           /\ NoPosting /\ UNCHANGED <<hold, available>>
  BY <1>1, <1>2, <1>7 DEF CreateTransfer, NoPosting
<1> QED
  BY <1>5, <1>6, <1>7 DEF CreateTransfer

\* A transfer reads its event from the table it was just written to.
LEMMA ReservedEvent ==
    ASSUME IInv, NEW event \in Events, NEW fingerprint, NEW t \in Transfer,
           ReserveEvent(event, fingerprint, t)
    PROVE  events'[event].transfer = t
<1>1. event # Nil
  BY SpineAssumption
<1>2. events' = [events EXCEPT ![event] = [transfer |-> t, fingerprint |-> fingerprint]]
  BY <1>1 DEF ReserveEvent
<1> QED
  BY <1>2 DEF IInv, TypeOK

\* A request creates a row the invariant allows.
LEMMA CreationWritten ==
    ASSUME RInv, NEW in \in Request, in.providerStatus = in.status,
           in.reversalOf = NotReversal =>
               /\ in.reference \in BaseReference /\ Endorsed(in)
               /\ in.provider = "ledger_internal" /\ in.reference # Nil
                      => \A u \in Existing : ~SameReference(u, in),
           in.reversalOf # NotReversal =>
               /\ in.status = "succeeded" /\ in.account \in Customers
               /\ TakesBack(in, <<JournalEntry(in)>>),
           CreateTransfer(in)
    PROVE  RecordShape
<1> DEFINE t == count + 1
           row == CreatedRow(in)
           status == CreatedStatus(in)
           j == IF status = "succeeded" THEN <<JournalEntry(in)>> ELSE <<>>
<1>0. IInv
  BY DEF RInv
<1>1. /\ t \in Transfer /\ count' = t
      /\ transfers' = [transfers EXCEPT ![t] = row]
      /\ in.account # in.clearing
      /\ ReserveEvent(in.event, Fingerprint(in), t)
      /\ journal' = [journal EXCEPT ![t] = j]
      /\ status = "succeeded" => in.status = "succeeded"
  BY <1>0, CreationFacts
<1>2. /\ row \in Row /\ row.status = status /\ status \in Statuses /\ row.account = in.account
      /\ row.amount = in.amount
  BY CreatedRowFacts
<1>3. /\ row.providerStatus = in.providerStatus
      /\ row.provider = in.provider /\ row.reference = in.reference
      /\ row.event = in.event /\ row.reversalOf = in.reversalOf
      /\ row.direction = (IF in.reversalOf = NotReversal THEN in.direction ELSE "reversal")
      /\ row.ledgerStatus = "no_posting" => status = "failed"
  BY CreatedRowFields
<1>4. in.reversalOf # NotReversal => status = "succeeded"
  BY DEF CreatedStatus, EffectiveStatus, Insufficient, CustomerInitiatedOutbound
<1>5. status = "pending" => in.status = "pending"
  <2>1. in.providerStatus # "provider_unknown"
    BY DEF Request, Statuses
  <2> QED
    BY <2>1 DEF CreatedStatus, EffectiveStatus
<1>6. in.direction \in Directions /\ in.provider \in Providers /\ in.event \in Optional(Events)
  BY DEF Request
<1>7. JournalEntry(in) \in Entry /\ j \in Seq(Entry) /\ (status = "succeeded" => j[1] = JournalEntry(in))
  BY <1>1, JournalEntryFacts
<1>8. /\ JournalEntry(in).debit # JournalEntry(in).credit
      /\ in.direction = "outbound" => JournalEntry(in).debit = in.account
      /\ in.direction = "inbound" => JournalEntry(in).credit = in.account
  BY <1>1, JournalEntryFacts
<1>9. row.reversalOf # NotReversal => TakesBack(row, j)
  BY <1>1, <1>3, <1>4 DEF TakesBack
<1>10. in.event # Nil => events'[in.event].transfer = t
  BY <1>0, <1>1, <1>6, ReservedEvent DEF Optional
<1> HIDE DEF row, status, j
<1>11. Recorded(row, j)
  <2>1. ProviderSaidSo(row)
    BY <1>1, <1>2, <1>3, <1>5 DEF ProviderSaidSo
  <2>2. MoneyMovedAsTold(row, j)
    BY <1>2, <1>3, <1>7, <1>8 DEF MoneyMovedAsTold, Endorsed
  <2>3. OpenAtProvider(row)
    BY <1>2, <1>3, <1>4, <1>5, <1>6 DEF OpenAtProvider, Endorsed, Providers
  <2>4. ReversalRow(row)
    BY <1>2, <1>3, <1>4, <1>6 DEF ReversalRow, Directions
  <2> QED
    BY <2>1, <2>2, <2>3, <2>4 DEF Recorded
<1>12. row.provider = "ledger_internal" /\ row.reference # Nil /\ row.reversalOf = NotReversal
          => \A u \in Existing : ~SameName(transfers[u], row)
  BY <1>3 DEF SameName, SameReference
<1>13. RowWritten(t, row, j)
  BY <1>1, <1>2, <1>3, <1>9, <1>10, <1>11, <1>12 DEF RowWritten
<1> QED
  BY <1>1, <1>2, <1>7, <1>13 DEF RecordShape

\* A reversal's request mirrors the entry of the transfer it takes back.
LEMMA ReversalTakesBack ==
    ASSUME RInv, NEW t \in Existing, NEW key \in Keys, NEW reference \in Optional(References),
           NEW event \in Optional(Events), NEW provider \in Providers,
           ReverseAs(t, key, reference, event, provider)
    PROVE  LET in == ReversalRequest(t, key, reference, event, provider)
           IN  /\ in \in Request /\ in.status = "succeeded" /\ in.providerStatus = "succeeded"
               /\ in.reversalOf = t /\ t # NotReversal
               /\ in.account # in.clearing /\ in.account \in Customers
               /\ TakesBack(in, <<JournalEntry(in)>>)
               /\ Fresh(in) /\ CreateTransfer(in)
<1> DEFINE in == ReversalRequest(t, key, reference, event, provider)
           entry == journal[t][1]
<1>0. IInv
  BY DEF RInv
<1>1. /\ transfers[t].status = "succeeded" /\ transfers[t].journalled
      /\ transfers[t].direction # "reversal" /\ ~HasActiveReversal(t)
      /\ Fresh(in) /\ CreateTransfer(in)
  BY DEF ReverseAs, CreatesTransfer
<1>2. /\ in \in Request /\ in.status = "succeeded" /\ in.providerStatus = "succeeded"
      /\ in.reversalOf = t
  BY <1>0, <1>1, ReversalRequestType
<1>3. t \in Transfer /\ t # NotReversal /\ transfers[t] \in Row /\ journal[t] \in Seq(Entry)
  BY <1>0, SpineAssumption, ExistingFacts DEF Transfer, NotReversal
<1>4. Consistent(transfers[t], hold[t], journal[t]) /\ Recorded(transfers[t], journal[t])
  BY <1>0, ExistingFacts DEF RInv
<1>5. /\ Len(journal[t]) = 1 /\ entry.amount = transfers[t].amount
      /\ transfers[t].account \in {entry.debit, entry.credit}
  BY <1>1, <1>4 DEF Consistent
<1>6. /\ entry.debit # entry.credit /\ transfers[t].account \in Customers
      /\ transfers[t].direction = "outbound" => entry.debit = transfers[t].account
      /\ transfers[t].direction = "inbound" => entry.credit = transfers[t].account
      /\ transfers[t].direction \in {"inbound", "outbound"}
      /\ transfers[t].reversalOf = NotReversal
  BY <1>1, <1>3, <1>4 DEF Recorded, MoneyMovedAsTold, ReversalRow, Row, Directions
<1>7. CounterpartyAccount(t) = IF transfers[t].direction = "outbound" THEN entry.credit ELSE entry.debit
  BY <1>5, <1>6 DEF CounterpartyAccount
<1>8. /\ in.account = transfers[t].account /\ in.clearing = CounterpartyAccount(t)
      /\ in.amount = transfers[t].amount
      /\ in.direction = IF transfers[t].direction = "outbound" THEN "inbound" ELSE "outbound"
  BY DEF ReversalRequest
<1> HIDE DEF in, entry
<1>9. in.account # in.clearing /\ in.account \in Customers
  BY <1>6, <1>7, <1>8
<1>10. JournalEntry(in) = [debit |-> entry.credit, credit |-> entry.debit, amount |-> entry.amount]
  BY <1>5, <1>6, <1>7, <1>8 DEF JournalEntry
<1>11. \A u \in Existing : transfers[u].reversalOf # t
  <2>1. SUFFICES ASSUME NEW u \in Existing, transfers[u].reversalOf = t PROVE FALSE
    OBVIOUS
  <2>2. transfers[u].status = "succeeded"
    BY <1>3, <2>1 DEF RInv, Recorded, ReversalRow
  <2> QED
    BY <1>1, <2>1, <2>2 DEF HasActiveReversal
<1>12. TakesBack(in, <<JournalEntry(in)>>)
  BY <1>1, <1>2, <1>6, <1>10, <1>11 DEF TakesBack, entry
<1> QED
  BY <1>1, <1>2, <1>3, <1>9, <1>12 DEF in

\* The money effect of a final answer: one entry, or none.
LEMMA SettledJournal ==
    ASSUME IInv, NEW t \in Existing, IsOpen(t), NEW in \in Request, SettleMoney(t, in)
    PROVE  \/ /\ in.status = "succeeded" /\ in.account # in.clearing
              /\ PostJournal(t, in, IF in.direction = "outbound" THEN in.account ELSE Nil)
              /\ journal' = [journal EXCEPT ![t] = <<JournalEntry(in)>>]
           \/ /\ in.status = "failed" /\ ledger' = ledger
              /\ journal' = journal /\ journal' = [journal EXCEPT ![t] = <<>>]
<1>1. /\ t \in Transfer /\ Len(journal[t]) = 0 /\ journal[t] \in Seq(Entry)
      /\ journal = [journal EXCEPT ![t] = journal[t]]
  BY ExistingFacts DEF Consistent, IsOpen, IInv, TypeOK
<1>2. journal[t] = <<>>
  BY <1>1
<1>3. ASSUME NEW held, PostJournal(t, in, held)
      PROVE  journal' = [journal EXCEPT ![t] = <<JournalEntry(in)>>]
  <2>1. journal' = [journal EXCEPT ![t] = Append(journal[t], JournalEntry(in))]
    BY <1>1, <1>3, PostJournalFacts
  <2>2. Append(<<>>, JournalEntry(in)) = <<JournalEntry(in)>>
    OBVIOUS
  <2> QED
    BY <1>2, <2>1, <2>2
<1>4. CASE in.status = "succeeded" /\ EnforceTransferControls(in)
           /\ in.direction = "outbound" /\ PostJournal(t, in, in.account)
  BY <1>3, <1>4 DEF EnforceTransferControls
<1>5. CASE in.status = "succeeded" /\ EnforceTransferControls(in)
           /\ in.direction # "outbound" /\ PostJournal(t, in, Nil)
  BY <1>3, <1>5 DEF EnforceTransferControls
<1>6. CASE in.status = "failed" /\ NoPosting
  BY <1>1, <1>2, <1>6 DEF NoPosting
<1> QED
  BY <1>4, <1>5, <1>6 DEF SettleMoney

\* The fields of a settled row that come from the row and the answer.
LEMMA SettledRowFields ==
    ASSUME IInv, NEW t \in Existing, NEW in \in Request
    PROVE  LET row == SettledRow(t, in)
           IN  /\ row.providerStatus = in.providerStatus
               /\ row.provider = transfers[t].provider /\ row.reversalOf = transfers[t].reversalOf
               /\ row.direction = transfers[t].direction /\ row.reference = in.reference
               /\ row.event = (IF in.event = Nil THEN transfers[t].event ELSE in.event)
               /\ row.ledgerStatus = LedgerStatusOf(in.status)
               /\ row.account = transfers[t].account
<1>1. transfers[t] \in Row
  BY ExistingFacts
<1> QED
  BY <1>1 DEF SettledRow, Row

\* An answer, final or not, leaves a row the invariant allows.
LEMMA AnswerWritten ==
    ASSUME RInv, NEW t \in Existing, IsOpen(t), NEW in \in Request, in.reference \in BaseReference,
           in.direction = transfers[t].direction, in.account = transfers[t].account,
           NEW fingerprint,
           in.status = "succeeded" => in.providerStatus = "succeeded" /\ in.account \in Customers,
           in.status = "pending" => /\ in.providerStatus \in {"pending", "provider_unknown"}
                                    /\ in.direction = "outbound",
           transfers[t].ledgerStatus = "no_posting" => in.event # Nil,
           count' = count, transfers' = [transfers EXCEPT ![t] = SettledRow(t, in)],
           ReserveEvent(in.event, fingerprint, t),
           \/ SettleMoney(t, in) /\ in.status # "pending"
           \/ in.status = "pending" /\ journal' = journal
    PROVE  RecordShape
<1> DEFINE row == SettledRow(t, in)
           j == IF in.status = "succeeded" THEN <<JournalEntry(in)>> ELSE <<>>
<1>0. IInv
  BY DEF RInv
<1>1. /\ t \in Transfer /\ transfers[t] \in Row /\ Recorded(transfers[t], journal[t])
      /\ transfers[t].status = "pending" /\ Linked(t)
      /\ Consistent(transfers[t], hold[t], journal[t]) /\ journal[t] \in Seq(Entry)
  BY <1>0, ExistingFacts DEF RInv, IsOpen
<1>2. /\ journal' = [journal EXCEPT ![t] = j]
      /\ in.status = "succeeded" => in.account # in.clearing
  <2>1. CASE SettleMoney(t, in) /\ in.status # "pending"
    BY <1>0, <2>1, SettledJournal
  <2>2. CASE in.status = "pending" /\ journal' = journal
    <3>1. journal[t] = <<>> /\ journal = [journal EXCEPT ![t] = journal[t]]
      BY <1>0, <1>1 DEF Consistent, IInv, TypeOK
    <3> QED
      BY <2>2, <3>1
  <2> QED
    BY <2>1, <2>2
<1>3. /\ row \in Row /\ row.status = in.status /\ in.status \in Statuses
  BY <1>0, SettledRowFacts DEF Request
<1>4. /\ row.providerStatus = in.providerStatus
      /\ row.provider = transfers[t].provider /\ row.reversalOf = transfers[t].reversalOf
      /\ row.direction = transfers[t].direction
      /\ row.event = (IF in.event = Nil THEN transfers[t].event ELSE in.event)
      /\ row.ledgerStatus = LedgerStatusOf(in.status) /\ row.account = transfers[t].account
  BY <1>0, SettledRowFields
<1>5. /\ in.status = "succeeded" => /\ JournalEntry(in) \in Entry
                                    /\ JournalEntry(in).debit # JournalEntry(in).credit
                                    /\ in.direction = "outbound" => JournalEntry(in).debit = in.account
                                    /\ in.direction = "inbound" => JournalEntry(in).credit = in.account
      /\ j \in Seq(Entry) /\ (in.status = "succeeded" => j[1] = JournalEntry(in))
  BY <1>2, JournalEntryFacts
<1> HIDE DEF row, j
<1>6. /\ transfers[t].provider = "mock_nip"
      /\ transfers[t].ledgerStatus # "no_posting" => transfers[t].account \in Customers
      /\ transfers[t].ledgerStatus = "no_posting" => transfers[t].direction = "inbound"
      /\ transfers[t].direction # "reversal" /\ transfers[t].reversalOf = NotReversal
  BY <1>1 DEF Recorded, OpenAtProvider, ReversalRow
<1>7. Recorded(row, j)
  <2>1. ProviderSaidSo(row)
    BY <1>3, <1>4 DEF ProviderSaidSo
  <2>2. MoneyMovedAsTold(row, j)
    BY <1>3, <1>4, <1>5 DEF MoneyMovedAsTold
  <2>3. OpenAtProvider(row)
    BY <1>3, <1>4, <1>6 DEF OpenAtProvider, LedgerStatusOf
  <2>4. ReversalRow(row)
    BY <1>4, <1>6 DEF ReversalRow
  <2> QED
    BY <2>1, <2>2, <2>3, <2>4 DEF Recorded
<1>8. row.event # Nil => events'[row.event].transfer = t
  <2>1. CASE in.event # Nil
    <3>1. in.event \in Events
      BY <2>1 DEF Request, Optional
    <3> QED
      BY <1>0, <1>1, <1>4, <2>1, <3>1, ReservedEvent
  <2>2. CASE in.event = Nil
    <3>1. events' = events /\ row.event = transfers[t].event
      BY <1>4, <2>2 DEF ReserveEvent
    <3> QED
      BY <1>1, <2>2, <3>1 DEF Linked
  <2> QED
    BY <2>1, <2>2
<1>9. RowWritten(t, row, j)
  BY <1>1, <1>2, <1>3, <1>4, <1>7, <1>8 DEF RowWritten, row
<1> QED
  BY <1>1, <1>3, <1>5, <1>9 DEF RecordShape

LEMMA SettlesWritten ==
    ASSUME RInv, NEW t \in Existing, NEW in \in PlainRequest, Settles(t, in)
    PROVE  RecordShape
<1>0. IInv
  BY DEF RInv
<1>1. /\ in \in Request /\ in.providerStatus = in.status /\ in.reference \in BaseReference
      /\ IsOpen(t) /\ in.direction = transfers[t].direction /\ in.account = transfers[t].account
      /\ in.provider = transfers[t].provider
  BY DEF PlainRequest, Settles
<1>2. /\ SettleMoney(t, in) /\ count' = count
      /\ transfers' = [transfers EXCEPT ![t] = SettledRow(t, in)]
      /\ ReserveEvent(in.event, Fingerprint(in), t)
  BY DEF Settles, SettlePendingTransfer
<1>3. in.status \in {"succeeded", "failed"}
  BY <1>2 DEF SettleMoney
<1>4. transfers[t].ledgerStatus = "no_posting" => in.event # Nil
  <2>1. SUFFICES ASSUME transfers[t].ledgerStatus = "no_posting" PROVE in.event # Nil
    OBVIOUS
  <2>2. transfers[t].direction = "inbound" /\ transfers[t].provider = "mock_nip"
    BY <1>1, <2>1 DEF RInv, Recorded, OpenAtProvider, IsOpen
  <2>3. in \in Requests
    BY <2>1 DEF Settles
  <2> QED
    BY <1>1, <2>2, <2>3, RequestsEndorsed DEF Endorsed
<1>5. in.account \in Customers
  <2>1. CASE in \in Requests
    BY <2>1, RequestsEndorsed DEF Endorsed
  <2>2. CASE transfers[t].ledgerStatus = "pending"
    BY <1>1, <2>2 DEF RInv, Recorded, OpenAtProvider, IsOpen
  <2> QED
    BY <2>1, <2>2 DEF Settles
<1> QED
  BY <1>1, <1>2, <1>3, <1>4, <1>5, AnswerWritten

\* The answer to an outbound transfer as a request, and the row it leaves.
LEMMA AnswersFacts ==
    ASSUME IInv, NEW t \in Existing, NEW reference \in BaseReference, NEW res \in ProviderResult,
           Answers(t, reference, res)
    PROVE  LET in == Completion(t, reference, res)
           IN  /\ IsOpen(t) /\ in \in Request /\ in.direction = "outbound"
               /\ in.direction = transfers[t].direction
               /\ in.account = transfers[t].account /\ in.amount = transfers[t].amount
               /\ in.clearing = DefaultSettlement /\ in.reversalOf = NotReversal
               /\ in.reference \in BaseReference
               /\ in.status = "succeeded" => in.providerStatus = "succeeded"
               /\ in.status = "pending" => in.providerStatus \in {"pending", "provider_unknown"}
               /\ \/ SettleMoney(t, in) /\ in.status # "pending"
                  \/ /\ in.status = "pending"
                     /\ UNCHANGED <<hold, available, ledger, journal>>
               /\ transfers' = [transfers EXCEPT ![t] = SettledRow(t, in)] /\ count' = count
               /\ EventUnused(in.event)
               /\ ReserveEvent(in.event, transfers[t].fingerprint, t)
               /\ audit' = audit \cup AuditExternalOutbound(t, SettledRow(t, in))
               /\ UNCHANGED <<accountStatus, lien>>
<1> DEFINE in == Completion(t, reference, res)
           updated == [SettledRow(t, in) EXCEPT !.status = EffectiveStatus(in)]
<1>1. /\ IsOpen(t) /\ transfers[t].direction = "outbound" /\ CompleteOutbound(t, reference, res)
  BY DEF Answers
<1>2. /\ in \in Request /\ in.direction = "outbound" /\ in.direction = transfers[t].direction
      /\ in.account = transfers[t].account /\ in.amount = transfers[t].amount
      /\ in.reference \in BaseReference /\ in.status = res.status /\ EffectiveStatus(in) = in.status
  BY <1>1, CompletionFacts DEF Directions
<1>3. /\ in.clearing = DefaultSettlement /\ in.providerStatus = res.providerStatus
      /\ in.reversalOf = NotReversal
  BY DEF Completion
<1>4. /\ res.status = "succeeded" => res.providerStatus = "succeeded"
      /\ res.status = "pending" => res.providerStatus \in {"pending", "provider_unknown"}
  BY DEF ProviderResult
<1>5. updated = SettledRow(t, in)
  <2>1. SettledRow(t, in).status = in.status /\ SettledRow(t, in) \in Row
    BY <1>2, SettledRowFacts
  <2> QED
    BY <1>2, <2>1 DEF Row
<1>6. /\ EventUnused(in.event)
      /\ \/ SettleMoney(t, in) /\ in.status # "pending"
         \/ in.status = "pending" /\ UNCHANGED <<hold, available, ledger, journal>>
      /\ transfers' = [transfers EXCEPT ![t] = updated] /\ count' = count
      /\ ReserveEvent(in.event, transfers[t].fingerprint, t)
      /\ audit' = audit \cup AuditExternalOutbound(t, updated)
      /\ UNCHANGED <<accountStatus, lien>>
  BY <1>1, <1>2 DEF CompleteOutbound, NoPosting
<1> HIDE DEF in, updated
<1> QED
  BY <1>1, <1>2, <1>3, <1>4, <1>5, <1>6 DEF in

LEMMA AnswersWritten ==
    ASSUME RInv, NEW t \in Existing, NEW reference \in BaseReference, NEW res \in ProviderResult,
           Answers(t, reference, res)
    PROVE  RecordShape
<1> DEFINE in == Completion(t, reference, res)
<1>0. IInv
  BY DEF RInv
<1>1. /\ IsOpen(t) /\ in \in Request /\ in.direction = "outbound"
      /\ in.direction = transfers[t].direction /\ in.account = transfers[t].account
      /\ in.reference \in BaseReference
      /\ in.status = "succeeded" => in.providerStatus = "succeeded"
      /\ in.status = "pending" => in.providerStatus \in {"pending", "provider_unknown"}
      /\ \/ SettleMoney(t, in) /\ in.status # "pending"
         \/ in.status = "pending" /\ journal' = journal
      /\ transfers' = [transfers EXCEPT ![t] = SettledRow(t, in)] /\ count' = count
      /\ ReserveEvent(in.event, transfers[t].fingerprint, t)
  BY <1>0, AnswersFacts
<1>2. transfers[t].ledgerStatus # "no_posting" /\ transfers[t].account \in Customers
  BY <1>1 DEF RInv, Recorded, OpenAtProvider, IsOpen
<1> HIDE DEF in
<1> QED
  BY <1>1, <1>2, AnswerWritten

LEMMA StaysPendingWritten ==
    ASSUME RInv, NEW t \in Existing, NEW in \in Request, StaysPending(t, in)
    PROVE  RecordShape
<1> DEFINE old == transfers[t]
           row == [old EXCEPT
                      !.providerStatus = in.providerStatus,
                      !.ledgerStatus = "pending",
                      !.reconciliationStatus = ReconciliationStatusOf("pending", in.providerStatus)]
<1>0. IInv
  BY DEF RInv
<1>1. /\ transfers' = [transfers EXCEPT ![t] = row] /\ count' = count
      /\ journal' = journal /\ events' = events
      /\ old.status = "pending" /\ old.ledgerStatus = "pending"
      /\ in.providerStatus \in {"pending", "provider_unknown"}
  BY DEF StaysPending, UpdatePendingInbound, IsOpen
<1>2. /\ t \in Transfer /\ old \in Row /\ journal[t] \in Seq(Entry) /\ Recorded(old, journal[t])
      /\ journal = [journal EXCEPT ![t] = journal[t]] /\ Linked(t)
  BY <1>0, ExistingFacts DEF RInv, IInv, TypeOK
<1>3. ReconciliationStatusOf("pending", in.providerStatus)
          \in {"pending", "matched", "no_action", "manual_review"}
  BY <1>1, StatusFacts DEF ProviderStatuses, Statuses
<1> HIDE DEF old
<1>4. row \in Row
  BY <1>1, <1>2, <1>3 DEF Row, ProviderStatuses, Statuses
<1>5. /\ row.status = old.status /\ row.direction = old.direction /\ row.provider = old.provider
      /\ row.account = old.account /\ row.reversalOf = old.reversalOf /\ row.event = old.event
      /\ row.ledgerStatus = "pending" /\ row.providerStatus = in.providerStatus
  BY <1>2 DEF Row
<1> HIDE DEF row
<1>6. Recorded(row, journal[t])
  BY <1>1, <1>2, <1>5 DEF Recorded, ProviderSaidSo, MoneyMovedAsTold, OpenAtProvider, ReversalRow
<1>7. row.event # Nil => events'[row.event].transfer = t
  BY <1>1, <1>2, <1>5 DEF Linked, old
<1>8. RowWritten(t, row, journal[t])
  BY <1>1, <1>2, <1>4, <1>5, <1>6, <1>7 DEF RowWritten, IsOpen, old
<1> QED
  BY <1>2, <1>4, <1>8 DEF RecordShape

LEMMA ReviewsWritten ==
    ASSUME RInv, IInv', NEW in \in InboundEvents, NEW account \in Accounts, NEW reserve \in BOOLEAN,
           Reviews(in, account, reserve)
    PROVE  RecordShape
<1> DEFINE t == count + 1
           row == transfers'[t]
<1>0. IInv
  BY DEF RInv
<1>1. RecordReview(in, account, reserve) /\ in \in Requests /\ in.op = "external_inbound"
  BY DEF Reviews, InboundEvents
<1>2. /\ count < MaxTransfers /\ count' = t /\ journal' = journal
  BY <1>1 DEF RecordReview
<1>3. t \in Transfer /\ journal[t] = <<>>
  BY <1>0, <1>2, NextSlotFacts
<1>4. /\ row.status = (IF in.status = "pending" THEN "pending" ELSE "failed")
      /\ row.providerStatus = in.status /\ row.ledgerStatus = "no_posting"
      /\ row.direction = "inbound" /\ row.provider = in.provider /\ row.reversalOf = NotReversal
      /\ transfers' = [transfers EXCEPT ![t] = row]
  BY <1>0, <1>1, <1>3 DEF RecordReview, IInv, TypeOK
<1>5. in.provider = "mock_nip"
  BY <1>1, RequestsEndorsed DEF Endorsed
<1>6. row \in Row
  <2>1. t \in Existing'
    BY <1>0, <1>2, SpineAssumption DEF IInv, TypeOK, Existing
  <2>2. transfers'[t] # NoRow /\ transfers' \in [Transfer -> Row \cup {NoRow}]
    BY <1>2, <1>3, <2>1, SpineAssumption DEF IInv, TypeOK, Existing
  <2> QED
    BY <1>3, <2>2
<1> HIDE DEF row
<1>7. Recorded(row, <<>>)
  BY <1>4, <1>5 DEF Recorded, ProviderSaidSo, MoneyMovedAsTold, OpenAtProvider, ReversalRow
<1>8. journal' = [journal EXCEPT ![t] = <<>>] /\ <<>> \in Seq(Entry)
  BY <1>0, <1>2, <1>3 DEF IInv, TypeOK
<1>9. RowWritten(t, row, <<>>)
  BY <1>2, <1>3, <1>4, <1>5, <1>6, <1>7, <1>8 DEF RowWritten
<1> QED
  BY <1>3, <1>6, <1>8, <1>9 DEF RecordShape

LEMMA TransactionWritten ==
    ASSUME RInv, IInv', [Next]_vars
    PROVE  RecordShape
<1>0. IInv
  BY DEF RInv
<1>1. ASSUME NEW in \in Requests, CreatesTransfer(in), CreateTransfer(in)
      PROVE  RecordShape
  <2>1. /\ in \in PlainRequest /\ in \in Request /\ in.providerStatus = in.status
        /\ in.reference \in BaseReference /\ in.reversalOf = NotReversal /\ Endorsed(in)
    BY RequestType, RequestsEndorsed DEF PlainRequest
  <2>2. in.provider = "ledger_internal" /\ in.reference # Nil
            => \A u \in Existing : ~SameReference(u, in)
    <3>1. SUFFICES ASSUME in.provider = "ledger_internal", in.reference # Nil,
                          NEW u \in Existing, SameReference(u, in)
                   PROVE  FALSE
      OBVIOUS
    <3>2. MatchesByReference(in)
      BY <2>1, <3>1 DEF Endorsed, MatchesByReference
    <3>3. PendingByReference(in) = {} /\ SettledByReference(in) = {}
      BY <1>1, <3>2 DEF CreatesTransfer
    <3> QED
      BY <3>1, <3>3 DEF PendingByReference, SettledByReference
  <2> QED
    BY <1>1, <2>1, <2>2, CreationWritten
<1>2. ASSUME NEW t \in Existing, NEW key \in Keys, NEW reference \in Optional(References),
             NEW event \in Optional(Events), NEW provider \in Providers,
             ReverseAs(t, key, reference, event, provider)
      PROVE  RecordShape
  <2> DEFINE in == ReversalRequest(t, key, reference, event, provider)
  <2>1. /\ in \in Request /\ in.status = "succeeded" /\ in.providerStatus = "succeeded"
        /\ in.reversalOf = t /\ t # NotReversal
        /\ in.account \in Customers /\ TakesBack(in, <<JournalEntry(in)>>) /\ CreateTransfer(in)
    BY <1>2, ReversalTakesBack
  <2> HIDE DEF in
  <2> QED
    BY <2>1, CreationWritten
<1>3. ASSUME NEW t \in Existing, NEW in \in PlainRequest, Settles(t, in) PROVE RecordShape
  BY <1>3, SettlesWritten
<1>4. ASSUME NEW t \in Existing, NEW reference \in BaseReference, NEW res \in ProviderResult,
             Answers(t, reference, res)
      PROVE  RecordShape
  BY <1>4, AnswersWritten
<1>5. ASSUME NEW t \in Existing, NEW in \in Request, StaysPending(t, in) PROVE RecordShape
  BY <1>5, StaysPendingWritten
<1>6. ASSUME NEW in \in InboundEvents, NEW account \in Accounts, NEW reserve \in BOOLEAN,
             Reviews(in, account, reserve)
      PROVE  RecordShape
  BY <1>6, ReviewsWritten
<1>7. CASE Controls
  BY <1>7 DEF Controls, FreezeAccount, UnfreezeAccount, ActivatePostNoDebit, DeactivatePostNoDebit,
              SetAccountStatus, PlaceAccountLien, ReleaseAccountLien, RecordShape
<1>8. CASE Idle
  BY <1>8 DEF Idle, RecordShape
<1>9. Transaction
  BY <1>0, TransactionCases
<1> QED
  BY <1>1, <1>2, <1>3, <1>4, <1>5, <1>6, <1>7, <1>8, <1>9 DEF Transaction

-----------------------------------------------------------------------------
(***************************************************************************)
(* The theorems.                                                           *)
(***************************************************************************)
LEMMA RecordsInit == Init => RInv
<1> SUFFICES ASSUME Init PROVE RInv
  OBVIOUS
<1>1. IInv
  BY InitInvariant
<1>2. Existing = {}
  BY SpineAssumption DEF Init, Existing
<1> QED
  BY <1>1, <1>2 DEF RInv, ReversalMirrorsOriginal, InternalReferencePostsOnce

LEMMA RecordsNext == RInv /\ [Next]_vars => RInv'
<1> SUFFICES ASSUME RInv, [Next]_vars PROVE RInv'
  OBVIOUS
<1>1. IInv /\ IInv'
  BY NextInvariant DEF RInv
<1>2. EventsKept
  BY <1>1, NextStep DEF GoodStep
<1>3. RecordShape
  BY <1>1, TransactionWritten
<1> QED
  BY <1>1, <1>2, <1>3, RecordShapeKeepsInvariant

THEOREM RecordsInvariance == Spec => []RInv
  BY RecordsInit, RecordsNext, PTL DEF Spec

\* Every reversal is the mirror image of a posted transfer that is no reversal
\* itself, and the only one of it.
THEOREM ReversalsMirror == Spec => []ReversalMirrorsOriginal
<1>1. RInv => ReversalMirrorsOriginal
  BY DEF RInv
<1> QED
  BY <1>1, RecordsInvariance, PTL

\* No two internal transfers are ever recorded under one reference and direction.
THEOREM InternalReferencesPostOnce == Spec => []InternalReferencePostsOnce
<1>1. RInv => InternalReferencePostsOnce
  BY DEF RInv
<1> QED
  BY <1>1, RecordsInvariance, PTL

\* The transfer a provider event is linked to is the only posted one that
\* carries the event.
THEOREM PostedEventsAreLinked == Spec => []PostedEventIsLinked
<1>1. RInv => PostedEventIsLinked
  <2>1. SUFFICES ASSUME RInv, NEW t \in Existing, transfers[t].journalled, transfers[t].event # Nil
                 PROVE  events[transfers[t].event].transfer = t
    BY DEF PostedEventIsLinked
  <2>2. Consistent(transfers[t], hold[t], journal[t]) /\ Linked(t)
    BY <2>1, ExistingFacts DEF RInv
  <2>3. transfers[t].ledgerStatus # "no_posting"
    BY <2>1, <2>2 DEF Consistent
  <2> QED
    BY <2>1, <2>2, <2>3 DEF Linked
<1> QED
  BY <1>1, RecordsInvariance, PTL

-----------------------------------------------------------------------------
(***************************************************************************)
(* The audit trail.  The demo routes record outcomes nobody audits, so the *)
(* property is of servers that do not offer them.                          *)
(***************************************************************************)
NoDemoRoutes == Endpoints \cap DemoOperations = {}

AuditDue(row) == row.status # "pending" /\ row.reversalOf = NotReversal

\* What was audited stays audited, and the row of t alone may be new or changed.
AuditStep ==
    /\ audit \subseteq audit'
    /\ \A u \in Existing' :
          \/ u \in Existing /\ transfers'[u] = transfers[u]
          \/ AuditDue(transfers'[u]) => <<u, transfers'[u].status>> \in audit'

LEMMA OneRowAudited ==
    ASSUME IInv, NEW t \in Transfer, NEW row,
           \/ t = count + 1 /\ count' = t
           \/ t \in Existing /\ count' = count,
           transfers' = [transfers EXCEPT ![t] = row],
           audit \subseteq audit',
           AuditDue(row) => <<t, row.status>> \in audit'
    PROVE  AuditStep
<1>1. count \in Nat /\ MaxTransfers \in Nat /\ transfers \in [Transfer -> Row \cup {NoRow}]
  BY SpineAssumption DEF IInv, TypeOK
<1>2. Existing' \subseteq Existing \cup {t} /\ Existing \subseteq Transfer
  <2>1. Existing \subseteq Transfer
    BY <1>1, ExistingFacts
  <2>2. CASE t = count + 1 /\ count' = t
    BY <1>1, <2>1, <2>2 DEF Existing
  <2>3. CASE t \in Existing /\ count' = count
    BY <2>1, <2>3 DEF Existing
  <2> QED
    BY <2>1, <2>2, <2>3
<1>3. \A u \in Existing' : IF u = t THEN transfers'[u] = row
                                    ELSE u \in Existing /\ transfers'[u] = transfers[u]
  BY <1>1, <1>2
<1> QED
  BY <1>3 DEF AuditStep

\* Requests of the documented endpoints never record a failure of their own.
LEMMA CreationAudited ==
    ASSUME RInv, NEW in \in Request, in.status = in.providerStatus,
           in.reversalOf = NotReversal => Endorsed(in) /\ in.op \notin DemoOperations,
           CreateTransfer(in)
    PROVE  AuditStep
<1> DEFINE t == count + 1
           row == CreatedRow(in)
<1>0. IInv
  BY DEF RInv
<1>1. /\ t \in Transfer /\ count' = t
      /\ transfers' = [transfers EXCEPT ![t] = row]
  BY <1>0, CreationFacts
<1>2. /\ AuditTransfer(t, row)
      /\ ~(Insufficient(in) /\ in.rejectInsufficient)
  BY DEF CreateTransfer
<1>3. /\ row.status = CreatedStatus(in)
      /\ row.provider = in.provider /\ row.reversalOf = in.reversalOf
      /\ row.direction = (IF in.reversalOf = NotReversal THEN in.direction ELSE "reversal")
  <2>1. row.status = CreatedStatus(in)
    BY DEF CreatedRow
  <2> QED
    BY <2>1, CreatedRowFields
<1>4. in.provider \in {"ledger_internal", "mock_nip"} /\ in.direction \in {"inbound", "outbound"}
  BY DEF Request, Providers, Directions
<1>5. in.providerStatus # "provider_unknown"
  BY DEF Request, Statuses
<1> HIDE DEF row
<1>6. AuditDue(row) => <<t, row.status>> \in audit'
  <2>1. SUFFICES ASSUME AuditDue(row) PROVE <<t, row.status>> \in audit'
    OBVIOUS
  <2>2. in.reversalOf = NotReversal /\ Endorsed(in) /\ in.op \notin DemoOperations
    BY <1>3, <2>1 DEF AuditDue
  <2>3. ~Insufficient(in)
    BY <1>2, <1>4, <2>2 DEF Endorsed, Insufficient, CustomerInitiatedOutbound
  <2>4. row.status = in.status
    BY <1>3, <1>5, <2>3 DEF CreatedStatus, EffectiveStatus
  <2>5. CASE in.provider = "ledger_internal"
    BY <1>2, <1>3, <2>2, <2>4, <2>5 DEF Endorsed, AuditTransfer, AuditPostedInternal
  <2>6. CASE in.provider = "mock_nip" /\ in.direction = "inbound"
    BY <1>2, <1>3, <2>2, <2>6 DEF AuditTransfer, AuditExternalInbound
  <2>7. CASE in.provider = "mock_nip" /\ in.direction = "outbound"
    BY <2>1, <2>2, <2>4, <2>7 DEF Endorsed, AuditDue
  <2> QED
    BY <1>4, <2>5, <2>6, <2>7
<1>7. audit \subseteq audit'
  BY <1>2 DEF AuditTransfer
<1> QED
  BY <1>0, <1>1, <1>6, <1>7, OneRowAudited

LEMMA SettlesAudited ==
    ASSUME RInv, NoDemoRoutes, NEW t \in Existing, NEW in \in PlainRequest, Settles(t, in)
    PROVE  AuditStep
<1> DEFINE row == SettledRow(t, in)
<1>0. IInv /\ t \in Transfer
  BY ExistingFacts DEF RInv
<1>1. /\ in \in Request /\ in.direction = transfers[t].direction /\ IsOpen(t)
      /\ in.provider = transfers[t].provider /\ count' = count
      /\ transfers' = [transfers EXCEPT ![t] = row]
      /\ AuditTransfer(t, row) /\ SettleMoney(t, in)
  BY DEF PlainRequest, Settles, SettlePendingTransfer
<1>2. /\ row.provider = transfers[t].provider /\ row.direction = transfers[t].direction
      /\ row.reversalOf = transfers[t].reversalOf
  BY <1>0, <1>1, SettledRowFields
<1>3. transfers[t].provider = "mock_nip"
  BY <1>1 DEF RInv, Recorded, OpenAtProvider, IsOpen
<1>4. transfers[t].direction = "inbound"
  <2>1. CASE in \in Requests
    <3>1. Endorsed(in) /\ in.op \notin DemoOperations
      BY <2>1, RequestsEndorsed DEF NoDemoRoutes
    <3>2. in.status # "pending" /\ in.direction \in {"inbound", "outbound"}
      BY <1>1 DEF SettleMoney, Request, Directions
    <3> QED
      BY <1>1, <1>3, <3>1, <3>2 DEF Endorsed
  <2> QED
    BY <2>1 DEF Settles
<1> HIDE DEF row
<1>5. AuditDue(row) => <<t, row.status>> \in audit'
  BY <1>1, <1>2, <1>3, <1>4 DEF AuditDue, AuditTransfer, AuditExternalInbound
<1>6. audit \subseteq audit'
  BY <1>1 DEF AuditTransfer
<1> QED
  BY <1>0, <1>1, <1>5, <1>6, OneRowAudited

LEMMA TransactionAudited ==
    ASSUME RInv, NoDemoRoutes, [Next]_vars
    PROVE  AuditStep
<1>0. IInv
  BY DEF RInv
<1>1. ASSUME NEW in \in Requests, CreatesTransfer(in), CreateTransfer(in)
      PROVE  AuditStep
  <2>1. /\ in \in Request /\ in.providerStatus = in.status
        /\ Endorsed(in) /\ in.op \notin DemoOperations
    BY RequestType, RequestsEndorsed DEF PlainRequest, NoDemoRoutes
  <2> QED
    BY <1>1, <2>1, CreationAudited
<1>2. ASSUME NEW t \in Existing, NEW key \in Keys, NEW reference \in Optional(References),
             NEW event \in Optional(Events), NEW provider \in Providers,
             ReverseAs(t, key, reference, event, provider)
      PROVE  AuditStep
  <2> DEFINE in == ReversalRequest(t, key, reference, event, provider)
  <2>1. /\ in \in Request /\ in.status = "succeeded" /\ in.providerStatus = "succeeded"
        /\ in.reversalOf = t /\ t # NotReversal
        /\ in.account \in Customers /\ TakesBack(in, <<JournalEntry(in)>>) /\ CreateTransfer(in)
    BY <1>2, ReversalTakesBack
  <2> HIDE DEF in
  <2> QED
    BY <2>1, CreationAudited
<1>3. ASSUME NEW t \in Existing, NEW in \in PlainRequest, Settles(t, in) PROVE AuditStep
  BY <1>3, SettlesAudited
<1>4. ASSUME NEW t \in Existing, NEW reference \in BaseReference, NEW res \in ProviderResult,
             Answers(t, reference, res)
      PROVE  AuditStep
  <2> DEFINE in == Completion(t, reference, res)
             row == SettledRow(t, in)
  <2>1. /\ IsOpen(t) /\ in \in Request /\ count' = count
        /\ transfers' = [transfers EXCEPT ![t] = row]
        /\ audit' = audit \cup AuditExternalOutbound(t, row)
    BY <1>0, <1>4, AnswersFacts
  <2>2. row.provider = "mock_nip"
    <3>1. row.provider = transfers[t].provider
      BY <1>0, <2>1, SettledRowFields
    <3> QED
      BY <2>1, <3>1 DEF RInv, Recorded, OpenAtProvider, IsOpen
  <2> HIDE DEF in, row
  <2>3. AuditDue(row) => <<t, row.status>> \in audit'
    BY <2>1, <2>2 DEF AuditExternalOutbound
  <2> QED
    BY <1>0, <2>1, <2>3, ExistingFacts, OneRowAudited
<1>5. ASSUME NEW t \in Existing, NEW in \in Request, StaysPending(t, in) PROVE AuditStep
  <2> DEFINE row == [transfers[t] EXCEPT
                        !.providerStatus = in.providerStatus,
                        !.ledgerStatus = "pending",
                        !.reconciliationStatus = ReconciliationStatusOf("pending", in.providerStatus)]
  <2>1. /\ transfers' = [transfers EXCEPT ![t] = row] /\ count' = count
        /\ AuditTransfer(t, row) /\ IsOpen(t)
    BY <1>5 DEF StaysPending, UpdatePendingInbound
  <2>2. row.status = "pending" /\ t \in Transfer
    BY <1>0, <2>1, ExistingFacts DEF IsOpen, Row
  <2> HIDE DEF row
  <2>3. audit \subseteq audit' /\ ~AuditDue(row)
    BY <2>1, <2>2 DEF AuditTransfer, AuditDue
  <2> QED
    BY <1>0, <2>1, <2>2, <2>3, OneRowAudited
<1>6. ASSUME NEW in \in InboundEvents, NEW account \in Accounts, NEW reserve \in BOOLEAN,
             Reviews(in, account, reserve)
      PROVE  AuditStep
  <2> DEFINE t == count + 1
             row == transfers'[t]
  <2>1. RecordReview(in, account, reserve) /\ count < MaxTransfers /\ count' = t
    BY <1>6 DEF Reviews, RecordReview
  <2>2. t \in Transfer
    BY <1>0, <2>1, NextSlotFacts
  <2>3. /\ transfers' = [transfers EXCEPT ![t] = row]
        /\ audit' = audit \cup {<<t, row.status>>}
    BY <1>0, <2>1, <2>2 DEF RecordReview, IInv, TypeOK
  <2> HIDE DEF row
  <2> QED
    BY <1>0, <2>1, <2>2, <2>3, OneRowAudited
<1>7. CASE Controls
  BY <1>7 DEF Controls, FreezeAccount, UnfreezeAccount, ActivatePostNoDebit, DeactivatePostNoDebit,
              SetAccountStatus, PlaceAccountLien, ReleaseAccountLien, AuditStep, Existing
<1>8. CASE Idle
  BY <1>8 DEF Idle, AuditStep, Existing
<1>9. Transaction
  BY <1>0, TransactionCases
<1> QED
  BY <1>1, <1>2, <1>3, <1>4, <1>5, <1>6, <1>7, <1>8, <1>9 DEF Transaction

\* A server without demo routes leaves an audit event of every final outcome
\* that is no reversal.
THEOREM OutcomesAudited ==
    ASSUME NoDemoRoutes
    PROVE  Spec => []OutcomesAreAudited
<1>1. Init => OutcomesAreAudited
  BY SpineAssumption DEF Init, Existing, OutcomesAreAudited
<1>2. RInv /\ OutcomesAreAudited /\ [Next]_vars => OutcomesAreAudited'
  <2>1. SUFFICES ASSUME RInv, OutcomesAreAudited, [Next]_vars,
                        NEW t \in Existing', AuditDue(transfers'[t])
                 PROVE  <<t, transfers'[t].status>> \in audit'
    BY DEF OutcomesAreAudited, AuditDue, IsOpen
  <2>2. AuditStep
    BY <2>1, TransactionAudited
  <2> QED
    BY <2>1, <2>2 DEF AuditStep, AuditDue, OutcomesAreAudited, IsOpen
<1> QED
  BY <1>1, <1>2, RecordsInvariance, PTL DEF Spec

-----------------------------------------------------------------------------
(***************************************************************************)
(* Statements.                                                             *)
(***************************************************************************)
\* The line of a closed transfer does not change with its row and journal.
LEMMA LineOfUnchangedRow ==
    ASSUME NEW t \in Existing, NEW a \in Accounts, t \in Existing',
           transfers'[t] = transfers[t], journal'[t] = journal[t], t \in StatementLines(a)
    PROVE  t \in StatementLines(a)' /\ ShownDirection(t, a)' = ShownDirection(t, a)
<1>1. PostingsOn(t, a)' = PostingsOn(t, a)
  BY DEF PostingsOn
<1> QED
  BY <1>1 DEF StatementLines, ShownDirection, Increases

\* An open transfer is shown in its own direction, and so is what it posts.
LEMMA LineOfSettledRow ==
    ASSUME RInv, RInv', NEW t \in Existing, IsOpen(t), NEW a \in Accounts, t \in Existing',
           transfers'[t].account = transfers[t].account,
           transfers'[t].direction = transfers[t].direction,
           t \in StatementLines(a)
    PROVE  t \in StatementLines(a)' /\ ShownDirection(t, a)' = ShownDirection(t, a)
<1>1. /\ Consistent(transfers[t], hold[t], journal[t])
      /\ Recorded(transfers[t], journal[t]) /\ transfers[t] \in Row
  BY ExistingFacts DEF RInv
<1>2. ~transfers[t].journalled /\ transfers[t].status = "pending"
      /\ transfers[t].direction \in {"inbound", "outbound"}
  BY <1>1 DEF Consistent, IsOpen, Recorded, ReversalRow, Row, Directions
<1>3. PostingsOn(t, a) = {}
  BY <1>2 DEF PostingsOn
<1>4. transfers[t].account = a
  BY <1>3 DEF StatementLines
<1>5. t \in StatementLines(a)'
  BY <1>4 DEF StatementLines
<1>6. ShownDirection(t, a) = IF transfers[t].direction = "inbound" THEN "credit" ELSE "debit"
  BY <1>2 DEF ShownDirection
<1>7. /\ (Consistent(transfers[t], hold[t], journal[t]))'
      /\ (Recorded(transfers[t], journal[t]))'
  BY DEF RInv, IInv
<1>8. CASE transfers'[t].status # "succeeded"
  BY <1>5, <1>6, <1>8 DEF ShownDirection
<1>9. CASE transfers'[t].status = "succeeded"
  <2> DEFINE entry == journal'[t][1]
  <2>1. /\ transfers'[t].journalled /\ Len(journal'[t]) = 1 /\ a \in {entry.debit, entry.credit}
        /\ a \in Customers /\ entry.debit # entry.credit
        /\ transfers[t].direction = "outbound" => entry.debit = a
        /\ transfers[t].direction = "inbound" => entry.credit = a
    BY <1>4, <1>7, <1>9 DEF Consistent, Recorded, MoneyMovedAsTold
  <2>2. PostingsOn(t, a)' = {entry}
    BY <2>1 DEF PostingsOn
  <2>3. ShownDirection(t, a)' = IF entry.credit = a THEN "credit" ELSE "debit"
    BY <1>9, <2>1, <2>2 DEF ShownDirection, Increases
  <2> QED
    BY <1>2, <1>5, <1>6, <2>1, <2>3
<1> QED
  BY <1>5, <1>8, <1>9

\* A line never leaves a statement nor changes its direction, from the pending
\* transfer to its outcome.
THEOREM LinesStay == Spec => StatementLinesStay
<1> DEFINE Stay == \A a \in Accounts : \A t \in StatementLines(a) :
                       t \in StatementLines(a)' /\ ShownDirection(t, a)' = ShownDirection(t, a)
<1>1. RInv /\ [Next]_vars => Stay
  <2>1. SUFFICES ASSUME RInv, [Next]_vars, NEW a \in Accounts, NEW t \in StatementLines(a)
                 PROVE  t \in StatementLines(a)' /\ ShownDirection(t, a)' = ShownDirection(t, a)
    OBVIOUS
  <2>2. RInv' /\ IInv /\ RecordShape /\ t \in Existing
    <3>1. RInv'
      BY <2>1, RecordsNext
    <3> QED
      BY <2>1, <3>1, TransactionWritten DEF RInv, StatementLines
  <2>3. CASE UNCHANGED <<count, transfers, journal, events>>
    BY <2>1, <2>2, <2>3, LineOfUnchangedRow DEF Existing
  <2>4. ASSUME NEW u \in Transfer, NEW row \in Row, NEW j \in Seq(Entry), RowWritten(u, row, j)
        PROVE  t \in StatementLines(a)' /\ ShownDirection(t, a)' = ShownDirection(t, a)
    <3>1. /\ t \in Existing' /\ t # count + 1
          /\ transfers'[t] = (IF t = u THEN row ELSE transfers[t])
          /\ journal'[t] = (IF t = u THEN j ELSE journal[t])
      <4>1. count \in Nat
        BY <2>2, SpineAssumption DEF IInv, TypeOK
      <4>2. t # count + 1
        BY <2>2, <4>1 DEF Existing
      <4> QED
        BY <2>2, <2>4, <4>2, RowWrittenFacts
    <3>2. CASE t = u
      <4>1. IsOpen(t) /\ row.account = transfers[t].account /\ row.direction = transfers[t].direction
        BY <2>4, <3>1, <3>2 DEF RowWritten
      <4> QED
        BY <2>1, <2>2, <3>1, <3>2, <4>1, LineOfSettledRow
    <3>3. CASE t # u
      BY <2>1, <2>2, <3>1, <3>3, LineOfUnchangedRow
    <3> QED
      BY <3>2, <3>3
  <2> QED
    BY <2>2, <2>3, <2>4 DEF RecordShape
<1> QED
  BY <1>1, RecordsInvariance, PTL DEF Spec, StatementLinesStay

=============================================================================
