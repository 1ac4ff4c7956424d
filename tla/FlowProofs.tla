----------------------------- MODULE FlowProofs -----------------------------
(***************************************************************************)
(* Proofs about the external service's calls: every step is a transaction  *)
(* of TransferSpine or leaves its tables alone, the provider is asked once *)
(* per key, and a hold ends as the provider reported of its own transfer.  *)
(***************************************************************************)
EXTENDS FlowProperties, TransactionProofs

-----------------------------------------------------------------------------
(***************************************************************************)
(* The rows external calls write.                                          *)
(***************************************************************************)
\* A row of the external service has the reference it was asked to have, from
\* its first transaction on; an outbound one that was asked to have none has its
\* key.
Named(row) ==
    /\ row.reference \in ProviderReference
    /\ row.fingerprint.reference = row.reference
    /\ row.direction \in Directions
    /\ row.direction = "outbound" => row.key \in Keys /\ row.reference \in References \cup {row.key}

RowsNamed == \A t \in Existing : Named(transfers[t])

LEMMA NamesAreSome == Nil \notin ProviderReference
BY SpineAssumption DEF ProviderReference

\* The requests of the two operations that meet the provider.
LEMMA EventsAreInbound == \A in \in ExternalInboundEvent : in.op = "external_inbound"
<1>1. SUFFICES ASSUME NEW e \in Events,
                      NEW in \in Form("external_inbound", "inbound", Statuses, Customers,
                                     {DefaultSettlement}, "mock_nip", {InboundKey(e)}, References,
                                     {e}, FALSE, FALSE)
               PROVE  in.op = "external_inbound"
  BY DEF ExternalInboundEvent
<1> QED
  BY DEF Form

LEMMA WebhooksAreDemo == \A in \in MockProviderWebhook : in.op = "mock_webhook"
<1>1. SUFFICES ASSUME NEW d \in Directions,
                      NEW in \in Form("mock_webhook", d, Statuses, Customers, {DefaultSettlement},
                                     "mock_nip", Keys, References, Events, FALSE, FALSE)
               PROVE  in.op = "mock_webhook"
  BY DEF MockProviderWebhook
<1> QED
  BY DEF Form

LEMMA OutboundRequestFacts ==
    ASSUME NEW in \in OutboundRequests
    PROVE  /\ in \in Requests /\ in.op = "external_outbound" /\ in.direction = "outbound"
           /\ in.status = "pending" /\ in.providerStatus = "pending"
           /\ in.key \in Keys /\ in.reference \in ProviderReference
           /\ in.reference \in References \cup {in.key}
           /\ in.rejectInsufficient /\ in.reversalOf = NotReversal
<1>1. in \in Requests /\ in.op = "external_outbound"
  BY DEF OutboundRequests
<1>2. /\ \A x \in InternalCredit : x.op = "internal_credit"
      /\ \A x \in InternalDebit : x.op = "internal_debit"
      /\ \A x \in InternalTransfer : x.op = "internal_transfer"
      /\ \A x \in MockOutbound : x.op = "mock_outbound"
      /\ \A x \in MockOutboundFinal : x.op = "mock_final"
  BY DEF InternalCredit, InternalDebit, InternalTransfer, MockOutbound, MockOutboundFinal, Form
<1>3. \A x \in ExternalInboundEvent : x.op = "external_inbound"
  BY EventsAreInbound
<1>4. \A x \in MockProviderWebhook : x.op = "mock_webhook"
  BY WebhooksAreDemo
<1>5. in \in ExternalOutboundTransfer
  BY <1>1, <1>2, <1>3, <1>4 DEF Requests
<1> QED
  BY <1>1, <1>5 DEF ExternalOutboundTransfer, Form, ProviderReference

LEMMA InboundEventFacts ==
    ASSUME NEW in \in InboundEvents
    PROVE  /\ in \in Requests /\ in.op = "external_inbound" /\ in.direction = "inbound"
           /\ in.reference \in References /\ in.reversalOf = NotReversal
           /\ in.providerStatus = in.status /\ in.status \in Statuses
<1>1. in \in Requests /\ in.op = "external_inbound"
  BY DEF InboundEvents
<1>2. /\ \A x \in InternalCredit : x.op = "internal_credit"
      /\ \A x \in InternalDebit : x.op = "internal_debit"
      /\ \A x \in InternalTransfer : x.op = "internal_transfer"
      /\ \A x \in MockOutbound : x.op = "mock_outbound"
      /\ \A x \in MockOutboundFinal : x.op = "mock_final"
      /\ \A x \in ExternalOutboundTransfer : x.op = "external_outbound"
  BY DEF InternalCredit, InternalDebit, InternalTransfer, MockOutbound, MockOutboundFinal,
         ExternalOutboundTransfer, Form
<1>3. \A x \in MockProviderWebhook : x.op = "mock_webhook"
  BY WebhooksAreDemo
<1>4. in \in ExternalInboundEvent
  BY <1>1, <1>2, <1>3 DEF Requests
<1>5. PICK e \in Events :
         in \in Form("external_inbound", "inbound", Statuses, Customers, {DefaultSettlement},
                     "mock_nip", {InboundKey(e)}, References, {e}, FALSE, FALSE)
  BY <1>4 DEF ExternalInboundEvent
<1> QED
  BY <1>1, <1>5 DEF Form

-----------------------------------------------------------------------------
(***************************************************************************)
(* Every step is a step of the spine.                                      *)
(***************************************************************************)
LEMMA ReferenceIsKnown ==
    ASSUME RowsNamed, NEW t, NEW reference, NEW res, CompleteExternalTransferRequery(t, reference, res)
    PROVE  t \in Existing /\ reference = transfers[t].reference
BY NamesAreSome DEF RowsNamed, Named, CompleteExternalTransferRequery

LEMMA FlowStepsAreSpineSteps ==
    ASSUME FlowTypeOK, RowsNamed, [FlowNext]_flowVars
    PROVE  [Next]_vars
<1>1. ASSUME NEW in \in OutboundRequests, BeginExternalOutboundTransfer(in) PROVE Next
  BY <1>1 DEF BeginExternalOutboundTransfer, Next, OutboundRequests
<1>2. ASSUME NEW t \in Transfer, CompleteCall(t) PROVE Next
  <2>1. answer[t] \in ProviderResult
    BY <1>2 DEF CompleteCall, FlowTypeOK
  <2> QED
    BY <1>2, <2>1 DEF CompleteCall, Next
<1>3. ASSUME NEW call \in asked, CompleteRequery(call) PROVE Next
  <2>1. CompleteExternalTransferRequery(call.transfer, call.reference, call.answer)
    BY <1>3 DEF CompleteRequery
  <2>2. call.transfer \in Existing /\ call.reference = transfers[call.transfer].reference
    BY <2>1, ReferenceIsKnown
  <2>3. call.answer \in ProviderResult
    BY DEF FlowTypeOK, Requery
  <2> QED
    BY <2>1, <2>2, <2>3 DEF Next
<1>4. ASSUME NEW in \in parsed, RecordExternalInboundTransfer(in) PROVE Next
  BY <1>4 DEF RecordExternalInboundTransfer, Next, FlowTypeOK, InboundEvents
<1>5. ASSUME NEW in \in parsed, ReviewEvent(in) PROVE Next
  BY <1>5 DEF ReviewEvent, Next, FlowTypeOK
<1>6. ASSUME ReviewCall PROVE Next
  BY <1>6 DEF ReviewCall, Next
<1>7. ASSUME AccountControl PROVE Next
  BY <1>7 DEF AccountControl, Next
<1>8. ASSUME \/ \E t \in Transfer, scenario \in Scenarios : InitiateTransfer(t, scenario)
             \/ \E t \in Transfer : LoseCall(t)
             \/ \E t \in Transfer, scenario \in Overrides : SetRequeryScenario(t, scenario)
             \/ \E t \in Transfer : RequeryTransfer(t)
             \/ \E call \in asked : LoseRequery(call)
             \/ \E in \in InboundEvents, delay \in Delays : ParseWebhook(in, delay)
             \/ \E in \in parsed : DropEvent(in)
             \/ \E r \in ProviderReference : DelayElapses(r)
             \/ Restart
             \/ UNCHANGED flowVars
      PROVE  UNCHANGED vars
  BY <1>8 DEF InitiateTransfer, LoseCall, SetRequeryScenario, RequeryTransfer, LoseRequery,
              ParseWebhook, DropEvent, DelayElapses, Restart, flowVars
<1> QED
  BY <1>1, <1>2, <1>3, <1>4, <1>5, <1>6, <1>7, <1>8 DEF FlowNext

-----------------------------------------------------------------------------
(***************************************************************************)
(* What a step does to the rows and their holds.                           *)
(***************************************************************************)
SameTransfer(row, old) ==
    /\ row.reference = old.reference /\ row.fingerprint.reference = old.fingerprint.reference
    /\ row.key = old.key /\ row.direction = old.direction

\* A row is opened, with a hold if it is outbound.
OpensNamed(row) ==
    /\ count' = count + 1 /\ count' \in Transfer /\ Named(row)
    /\ transfers' = [transfers EXCEPT ![count'] = row]
    /\ hold' = hold \/ hold' = [hold EXCEPT ![count'] = "active"]

\* A provider's answer that some call is about to commit.
Heard(t, status) ==
    \/ t \in inFlight /\ answer[t] # NoAnswer /\ answer[t].status = status
    \/ \E call \in asked : call.transfer = t /\ call.answer.status = status

\* A row goes on; its hold ends only as a call has heard.
RewritesNamed(t, row) ==
    /\ t \in Existing /\ count' = count /\ SameTransfer(row, transfers[t])
    /\ transfers' = [transfers EXCEPT ![t] = row]
    /\ \/ hold' = hold
       \/ /\ transfers[t].direction = "outbound" /\ Heard(t, row.status)
          /\ \E h \in HoldStatus : hold' = [hold EXCEPT ![t] = h]

FlowRow ==
    \/ UNCHANGED <<count, transfers, hold>>
    \/ \E row \in Row : OpensNamed(row)
    \/ \E t \in Existing, row \in Row : RewritesNamed(t, row)

RowsTyped == \A t \in Existing : transfers[t] \in Row

LEMMA RowTypes == IInv => RowsTyped
BY ExistingFacts DEF RowsTyped

LEMMA RowTypesNext == IInv' => RowsTyped'
BY RowTypes, PTL

LEMMA CreationNames ==
    ASSUME IInv, NEW in \in Requests, in.reference \in ProviderReference,
           in.direction = "outbound" => in.key \in Keys /\ in.reference \in References \cup {in.key},
           CreateTransfer(in)
    PROVE  \E row \in Row : OpensNamed(row)
<1> DEFINE row == CreatedRow(in)
<1>1. /\ in \in Request /\ in.providerStatus = in.status /\ in.reversalOf = NotReversal
      /\ in.reference \in BaseReference
  BY RequestType DEF PlainRequest
<1>2. row \in Row /\ row.key = in.key
  BY <1>1, CreatedRowFacts
<1>3. row.reference = in.reference /\ row.direction = in.direction
  BY <1>1, CreatedRowFields
<1>4. row.fingerprint = Fingerprint(in) /\ Fingerprint(in).reference = in.reference
  BY <1>1 DEF CreatedRow, Fingerprint, Request
<1>5. Named(row)
  BY <1>1, <1>2, <1>3, <1>4 DEF Named, Request
<1>6. /\ count' = count + 1 /\ transfers' = [transfers EXCEPT ![count + 1] = row]
      /\ hold' = hold \/ hold' = [hold EXCEPT ![count + 1] = "active"]
      /\ count < MaxTransfers
  BY DEF CreateTransfer, CreateHold
<1>7. count' \in Transfer
  BY <1>6, SpineAssumption DEF IInv, TypeOK, Transfer
<1> HIDE DEF row
<1> QED
  BY <1>2, <1>5, <1>6, <1>7 DEF OpensNamed

LEMMA ReviewNames ==
    ASSUME IInv, NEW in \in InboundEvents, NEW account, NEW reserve, RecordReview(in, account, reserve),
           IInv'
    PROVE  \E row \in Row : OpensNamed(row)
<1> DEFINE t == count + 1
           row == transfers'[t]
<1>1. /\ in \in Request /\ in.reference \in ProviderReference
  BY RequestType, InboundEventFacts DEF PlainRequest, ProviderReference
<1>2. /\ count' = t /\ count < MaxTransfers /\ hold' = hold
  BY DEF RecordReview
<1>3. t \in Transfer /\ count \in Nat
  BY <1>2, SpineAssumption DEF IInv, TypeOK, Transfer
<1>4. row \in Row
  <2>1. row # NoRow /\ row \in Row \cup {NoRow}
    BY <1>2, <1>3, SpineAssumption DEF IInv, TypeOK, Transfer
  <2> QED
    BY <2>1
<1>5. DOMAIN transfers = Transfer
  BY DEF IInv, TypeOK
<1>6. /\ row.direction = "inbound" /\ row.reference = in.reference
      /\ row.fingerprint = Fingerprint([in EXCEPT !.account = IF account = in.account THEN @ ELSE Nil])
      /\ transfers' = [transfers EXCEPT ![t] = row]
  BY <1>3, <1>5 DEF RecordReview
<1>7. row.fingerprint.reference = in.reference
  BY <1>1, <1>6 DEF Fingerprint, Request
<1>8. Named(row)
  BY <1>1, <1>6, <1>7 DEF Named, Directions
<1> HIDE DEF row
<1> QED
  BY <1>2, <1>3, <1>4, <1>6, <1>8 DEF OpensNamed

LEMMA SettledSame ==
    ASSUME IInv, NEW t \in Existing, NEW in \in Request, in.reference = transfers[t].reference,
           in.reference \in BaseReference
    PROVE  /\ SettledRow(t, in) \in Row /\ SettledRow(t, in).status = in.status
           /\ SameTransfer(SettledRow(t, in), transfers[t])
<1>1. transfers[t] \in Row
  BY ExistingFacts
<1>2. SettledRow(t, in).fingerprint = transfers[t].fingerprint
  BY <1>1 DEF SettledRow, Row
<1> QED
  BY <1>2, SettledRowFacts, SettledRowFields DEF SameTransfer

LEMMA AnswerNames ==
    ASSUME IInv, RowsNamed, NEW t \in Existing, NEW res \in ProviderResult,
           Answers(t, transfers[t].reference, res), Heard(t, res.status)
    PROVE  \E row \in Row : RewritesNamed(t, row)
<1> DEFINE in == Completion(t, transfers[t].reference, res)
           row == SettledRow(t, in)
<1>0. transfers[t].reference \in BaseReference
  BY DEF Answers
<1>1. /\ IsOpen(t) /\ in \in Request /\ in.direction = "outbound"
      /\ in.direction = transfers[t].direction
      /\ in.account = transfers[t].account /\ in.amount = transfers[t].amount
      /\ in.reference \in BaseReference
      /\ \/ SettleMoney(t, in)
         \/ hold' = hold
      /\ transfers' = [transfers EXCEPT ![t] = row] /\ count' = count
  BY <1>0, AnswersFacts
<1>2. in.reference = transfers[t].reference /\ in.status = res.status
  BY DEF Completion
<1> HIDE DEF in
<1>3. /\ row \in Row /\ row.status = in.status /\ SameTransfer(row, transfers[t])
  BY <1>1, <1>2, SettledSame
<1>4. hold' = hold \/ \E h \in HoldStatus : hold' = [hold EXCEPT ![t] = h]
  BY <1>1, SettleMoneyFacts
<1> HIDE DEF row
<1> QED
  BY <1>1, <1>2, <1>3, <1>4 DEF RewritesNamed

\* An inbound transfer has no hold.
LEMMA InboundNames ==
    ASSUME IInv, NEW t \in Existing, NEW in \in Request, in.reference = transfers[t].reference,
           in.reference \in BaseReference, in.direction = "inbound", transfers[t].direction = "inbound",
           SettlePendingTransfer(t, in)
    PROVE  \E row \in Row : RewritesNamed(t, row)
<1>1. hold[t] # "active"
  BY ExistingFacts DEF Consistent
<1>2. SettleMoney(t, in) /\ count' = count /\ transfers' = [transfers EXCEPT ![t] = SettledRow(t, in)]
  BY DEF SettlePendingTransfer
<1>3. hold' = hold
  BY <1>1, <1>2 DEF SettleMoney, ReleaseHold
<1> QED
  BY <1>2, <1>3, SettledSame DEF RewritesNamed

LEMMA StaysPendingNames ==
    ASSUME IInv, NEW t \in Existing, NEW in, UpdatePendingInbound(t, in), IInv'
    PROVE  \E row \in Row : RewritesNamed(t, row)
<1> DEFINE row == transfers'[t]
<1>1. transfers[t] \in Row /\ t \in Transfer
  BY ExistingFacts
<1>2. /\ count' = count /\ hold' = hold /\ t \in Existing'
      /\ transfers' = [transfers EXCEPT ![t] = row]
      /\ row = [transfers[t] EXCEPT
                  !.providerStatus = in.providerStatus,
                  !.ledgerStatus = "pending",
                  !.reconciliationStatus = ReconciliationStatusOf("pending", in.providerStatus)]
  BY <1>1 DEF UpdatePendingInbound, Existing, IInv, TypeOK
<1>3. SameTransfer(row, transfers[t])
  BY <1>1, <1>2 DEF SameTransfer, Row
<1>4. row \in Row
  BY <1>2, RowTypesNext DEF RowsTyped
<1> HIDE DEF row
<1> QED
  BY <1>2, <1>3, <1>4 DEF RewritesNamed

LEMMA BeginCreates ==
    ASSUME NEW in \in OutboundRequests, BeginExternalOutboundTransfer(in)
    PROVE  CreatesTransfer(in) /\ CreateTransfer(in)
BY OutboundRequestFacts DEF BeginExternalOutboundTransfer, RecordTransfer, SettlesByReference,
                            MatchesByReference

LEMMA CallAnswers ==
    ASSUME IInv, FlowTypeOK, RowsNamed, NEW t \in Transfer, CompleteCall(t)
    PROVE  t \in Existing /\ Answers(t, transfers[t].reference, answer[t])
<1> DEFINE intended == transfers[t].fingerprint.reference
           reference == IF intended = Nil THEN <<"mock-nip-out", t>> ELSE intended
<1>1. answer[t] \in ProviderResult /\ CompleteExternalOutboundTransfer(t, answer[t])
  BY DEF CompleteCall, FlowTypeOK
<1>2. CompleteOutbound(t, reference, answer[t])
  BY <1>1 DEF CompleteExternalOutboundTransfer
<1>3. t \in Existing /\ IsOpen(t) /\ transfers[t].direction = "outbound"
  BY <1>2, PendingExists DEF CompleteOutbound
<1>4. reference = transfers[t].reference /\ reference \in BaseReference
  BY <1>3, NamesAreSome DEF RowsNamed, Named, ProviderReference, BaseReference, Optional
<1> HIDE DEF reference
<1> QED
  BY <1>1, <1>2, <1>3, <1>4 DEF Answers

LEMMA RequeryNames ==
    ASSUME IInv, IInv', FlowTypeOK, RowsNamed, NEW call \in asked, CompleteRequery(call)
    PROVE  \E t \in Existing, row \in Row : RewritesNamed(t, row)
<1> DEFINE t == call.transfer
           res == call.answer
           in == Completion(t, call.reference, res)
<1>1. CompleteExternalTransferRequery(t, call.reference, res) /\ res \in ProviderResult
  BY DEF CompleteRequery, FlowTypeOK, Requery
<1>2. t \in Existing /\ call.reference = transfers[t].reference
  BY <1>1, ReferenceIsKnown
<1>3. Named(transfers[t])
  BY <1>2 DEF RowsNamed
<1>4. call.reference \in BaseReference /\ transfers[t].direction \in Directions /\ Heard(t, res.status)
  BY <1>2, <1>3 DEF Named, ProviderReference, BaseReference, Optional, Heard
<1>5. /\ in \in Request /\ in.direction = transfers[t].direction
      /\ in.reference = call.reference
  BY <1>1, <1>2, <1>4, CompletionFacts
<1>6. IsOpen(t)
  BY <1>1 DEF CompleteExternalTransferRequery, Requeryable, IsPending, IsOpen
<1> HIDE DEF in, res, t
<1>7. CASE transfers[t].direction = "outbound" /\ CompleteOutbound(t, call.reference, res)
  BY <1>1, <1>2, <1>4, <1>6, <1>7, AnswerNames DEF Answers
<1>8. CASE UpdatePendingInbound(t, in)
  BY <1>2, <1>8, StaysPendingNames
<1>9. CASE transfers[t].direction = "inbound" /\ SettlePendingTransfer(t, in)
  BY <1>2, <1>4, <1>5, <1>9, InboundNames
<1> QED
  BY <1>1, <1>7, <1>8, <1>9 DEF CompleteExternalTransferRequery, in

LEMMA EventNames ==
    ASSUME IInv, NEW in \in InboundEvents, RecordTransfer(in)
    PROVE  FlowRow
<1>1. /\ in \in Requests /\ in \in Request /\ in.direction = "inbound"
      /\ in.reference \in ProviderReference /\ in.reference \in BaseReference
  BY InboundEventFacts, RequestType DEF PlainRequest, ProviderReference
<1>2. CASE SettlesByReference(in) /\ SettlePendingTransfer(Oldest(PendingByReference(in)), in)
  <2> DEFINE t == Oldest(PendingByReference(in))
  <2>1. PendingByReference(in) \in SUBSET Nat /\ PendingByReference(in) # {}
    BY <1>2, SpineAssumption DEF SettlesByReference, PendingByReference, Existing, IInv, TypeOK
  <2>2. t \in PendingByReference(in)
    BY <2>1, OldestFacts
  <2>3. t \in Existing /\ in.reference = transfers[t].reference /\ transfers[t].direction = "inbound"
    BY <1>1, <2>2 DEF PendingByReference, SameReference
  <2> HIDE DEF t
  <2>4. SettlePendingTransfer(t, in)
    BY <1>2 DEF t
  <2> QED
    BY <1>1, <2>3, <2>4, InboundNames DEF FlowRow
<1>3. CASE CreateTransfer(in)
  BY <1>1, <1>3, CreationNames DEF FlowRow
<1> QED
  BY <1>2, <1>3 DEF RecordTransfer

\* The steps that leave the spine's tables alone.
Elsewhere ==
    \/ \E t \in Transfer, scenario \in Scenarios : InitiateTransfer(t, scenario)
    \/ \E t \in Transfer : LoseCall(t)
    \/ \E t \in Transfer, scenario \in Overrides : SetRequeryScenario(t, scenario)
    \/ \E t \in Transfer : RequeryTransfer(t)
    \/ \E call \in asked : LoseRequery(call)
    \/ \E in \in InboundEvents, delay \in Delays : ParseWebhook(in, delay)
    \/ \E in \in parsed : DropEvent(in)
    \/ \E r \in ProviderReference : DelayElapses(r)
    \/ Restart
    \/ UNCHANGED flowVars

LEMMA ElsewhereRests == Elsewhere => UNCHANGED vars
BY DEF Elsewhere, InitiateTransfer, LoseCall, SetRequeryScenario, RequeryTransfer, LoseRequery,
       ParseWebhook, DropEvent, DelayElapses, Restart, flowVars

LEMMA FlowRows ==
    ASSUME IInv, IInv', FlowTypeOK, RowsNamed, [FlowNext]_flowVars
    PROVE  FlowRow
<1>1. ASSUME NEW in \in OutboundRequests, BeginExternalOutboundTransfer(in) PROVE FlowRow
  BY <1>1, BeginCreates, OutboundRequestFacts, CreationNames DEF FlowRow
<1>2. ASSUME NEW t \in Transfer, CompleteCall(t) PROVE FlowRow
  <2>1. answer[t] \in ProviderResult /\ Heard(t, answer[t].status)
    BY <1>2 DEF CompleteCall, FlowTypeOK, Heard
  <2> QED
    BY <1>2, <2>1, CallAnswers, AnswerNames DEF FlowRow
<1>3. ASSUME NEW call \in asked, CompleteRequery(call) PROVE FlowRow
  BY <1>3, RequeryNames DEF FlowRow
<1>4. ASSUME NEW in \in parsed, RecordExternalInboundTransfer(in) PROVE FlowRow
  BY <1>4, EventNames DEF RecordExternalInboundTransfer, FlowTypeOK
<1>5. ASSUME NEW in \in parsed, ReviewEvent(in) PROVE FlowRow
  <2>1. in \in InboundEvents
    BY DEF FlowTypeOK
  <2>2. CASE RecordReview(in, DefaultSettlement, TRUE)
    BY <2>1, <2>2, ReviewNames DEF FlowRow
  <2>3. CASE \E reason \in {"blocked", "conflict"} : SendToReview(in, reason)
    BY <2>3 DEF SendToReview, FlowRow
  <2> QED
    BY <1>5, <2>2, <2>3 DEF ReviewEvent, ReviewUnknownDestination
<1>6. ASSUME ReviewCall PROVE FlowRow
  <2>1. PICK call \in reviewing : RecordProviderEventReview(call) \/ LoseReview(call)
    BY <1>6 DEF ReviewCall
  <2>2. call[1] \in InboundEvents
    BY DEF IInv, TypeOK
  <2>3. CASE RecordReview(call[1], call[1].account, call[2] = "blocked")
    BY <2>2, <2>3, ReviewNames DEF FlowRow
  <2> QED
    BY <2>1, <2>3 DEF RecordProviderEventReview, LoseReview, FlowRow
<1>7. ASSUME AccountControl PROVE FlowRow
  BY <1>7 DEF AccountControl, FreezeAccount, UnfreezeAccount, SetAccountStatus, FlowRow
<1>8. ASSUME Elsewhere PROVE FlowRow
  BY <1>8, ElsewhereRests DEF vars, FlowRow
<1> QED
  BY <1>1, <1>2, <1>3, <1>4, <1>5, <1>6, <1>7, <1>8 DEF FlowNext, Elsewhere

\* A step keeps what a row was opened with.
LEMMA RowsGoOn ==
    ASSUME IInv, RowsNamed, FlowRow
    PROVE  /\ RowsNamed' /\ Existing \subseteq Existing' /\ Existing' \subseteq Transfer
           /\ \A t \in Existing : SameTransfer(transfers'[t], transfers[t])
<1>0. /\ count \in Nat /\ Existing \subseteq Transfer /\ DOMAIN transfers = Transfer
      /\ Existing = 1..count /\ Existing' = 1..count' /\ Transfer = 1..MaxTransfers
      /\ MaxTransfers \in Nat
  BY SpineAssumption DEF IInv, TypeOK, Existing, Transfer
<1>1. CASE UNCHANGED <<count, transfers, hold>>
  BY <1>0, <1>1 DEF RowsNamed, SameTransfer
<1>2. ASSUME NEW row \in Row, OpensNamed(row)
      PROVE  /\ RowsNamed' /\ Existing \subseteq Existing' /\ Existing' \subseteq Transfer
             /\ \A t \in Existing : SameTransfer(transfers'[t], transfers[t])
  <2>1. /\ count' = count + 1 /\ count' \in Transfer /\ Named(row)
        /\ transfers' = [transfers EXCEPT ![count'] = row]
    BY <1>2 DEF OpensNamed
  <2>2. /\ Existing' = Existing \cup {count'} /\ count' \notin Existing
    BY <1>0, <2>1
  <2>3. transfers'[count'] = row /\ \A t \in Existing : transfers'[t] = transfers[t]
    BY <1>0, <2>1, <2>2
  <2>4. \A t \in Existing' : Named(transfers'[t])
    BY <2>1, <2>2, <2>3 DEF RowsNamed
  <2> QED
    BY <1>0, <2>1, <2>2, <2>3, <2>4 DEF RowsNamed, Named, SameTransfer
<1>3. ASSUME NEW u \in Existing, NEW row \in Row, RewritesNamed(u, row)
      PROVE  /\ RowsNamed' /\ Existing \subseteq Existing' /\ Existing' \subseteq Transfer
             /\ \A t \in Existing : SameTransfer(transfers'[t], transfers[t])
  <2>1. /\ Existing' = Existing /\ SameTransfer(row, transfers[u])
        /\ transfers' = [transfers EXCEPT ![u] = row]
    BY <1>0, <1>3 DEF RewritesNamed
  <2>2. \A t \in Existing : SameTransfer(transfers'[t], transfers[t])
    BY <1>0, <2>1 DEF SameTransfer
  <2>3. \A t \in Existing' : Named(transfers'[t])
    BY <2>1, <2>2 DEF RowsNamed, Named, SameTransfer
  <2> QED
    BY <1>0, <2>1, <2>2, <2>3 DEF RowsNamed, Named
<1> QED
  BY <1>1, <1>2, <1>3 DEF FlowRow

-----------------------------------------------------------------------------
(***************************************************************************)
(* The provider and the calls.                                             *)
(***************************************************************************)
LEMMA OutcomeFacts ==
    ASSUME NEW scenario \in AllScenarios
    PROVE  /\ Outcome(scenario) \in ProviderResult
           /\ Outcome(scenario).status = ScenarioStatus(scenario)
           /\ ScenarioStatus(scenario) \in Statuses
           /\ scenario = "timeout" => ScenarioStatus(scenario) = "pending"
           /\ Outcome(scenario).providerStatus \in ProviderStatuses
           /\ \/ Outcome(scenario).providerStatus = Outcome(scenario).status
              \/ /\ Outcome(scenario).providerStatus = "provider_unknown"
                 /\ Outcome(scenario).status = "pending"
<1>1. /\ scenario = "success" => ScenarioStatus(scenario) = "succeeded"
      /\ scenario = "failed" => ScenarioStatus(scenario) = "failed"
      /\ scenario \in {"pending", "timeout", "provider_unknown"} => ScenarioStatus(scenario) = "pending"
  BY DEF ScenarioStatus
<1> QED
  BY <1>1 DEF AllScenarios, Outcome, ProviderResult, Statuses, ProviderStatuses, Optional

LEMMA AnswersAreSome == NoAnswer \notin ProviderResult
BY DEF NoAnswer, ProviderResult, Statuses

\* What the provider remembers after one result.
LEMMA RememberFacts ==
    ASSUME FlowTypeOK, NEW reference \in ProviderReference, NEW result, result.status \in Statuses,
           result.providerStatus \in ProviderStatuses, NEW delay \in {"none", "waiting", "elapsed"},
           NEW about \in Transfer \cup {0}, Remember(reference, result, delay, about)
    PROVE  /\ memory' \in [ProviderReference -> Remembered \cup {Forgotten}]
           /\ memory'[reference] = [status |-> result.status, providerStatus |-> result.providerStatus,
                                    delay |-> delay, about |-> about]
           /\ memory'[reference] # Forgotten
           /\ \A r \in ProviderReference : r # reference => memory'[r] = memory[r]
<1> DEFINE m == [status |-> result.status, providerStatus |-> result.providerStatus,
                 delay |-> delay, about |-> about]
<1>1. m \in Remembered /\ m.status # "unknown reference"
  BY DEF Remembered, Statuses
<1>2. m # Forgotten
  BY <1>1 DEF Forgotten
<1>3. /\ memory' = [memory EXCEPT ![reference] = m]
      /\ memory \in [ProviderReference -> Remembered \cup {Forgotten}]
  BY DEF Remember, FlowTypeOK
<1> HIDE DEF m
<1>4. memory' \in [ProviderReference -> Remembered \cup {Forgotten}] /\ memory'[reference] = m
      /\ \A r \in ProviderReference : r # reference => memory'[r] = memory[r]
  BY <1>1, <1>3
<1> QED
  BY <1>2, <1>4 DEF m

\* Only an outcome nobody knows is remembered with another provider status than
\* its own, and never with a delay: it must not read as a success later.
Told(m) ==
    m # Forgotten =>
        \/ m.providerStatus = m.status
        \/ m.providerStatus = "provider_unknown" /\ m.status = "pending" /\ m.delay = "none"

MemoryTold == \A r \in ProviderReference : Told(memory[r])

LEMMA RequeryAnswerType ==
    ASSUME FlowTypeOK, MemoryTold, NEW r \in ProviderReference, memory[r] # Forgotten,
           AnswerAccepted(RequeryAnswer(r))
    PROVE  RequeryAnswer(r) \in ProviderResult
<1>1. memory[r] \in Remembered
  BY DEF FlowTypeOK
<1>2. CASE r \in requeryErrors
  BY <1>2, OutcomeFacts DEF RequeryAnswer, AllScenarios
<1>3. CASE r \notin requeryErrors
  <2> DEFINE status == IF memory[r].delay = "elapsed" /\ memory[r].status = "pending"
                       THEN "succeeded" ELSE memory[r].status
  <2>1. RequeryAnswer(r) = [status |-> status, providerStatus |-> memory[r].providerStatus, event |-> Nil]
    BY <1>3 DEF RequeryAnswer
  <2>2. status \in Statuses /\ memory[r].providerStatus \in ProviderStatuses
    BY <1>1 DEF Remembered, Statuses
  <2>3. \/ memory[r].providerStatus = status
        \/ memory[r].providerStatus = "provider_unknown" /\ status = "pending"
    BY <2>1 DEF AnswerAccepted, MemoryTold, Told
  <2> QED
    BY <2>1, <2>2, <2>3 DEF ProviderResult, Optional
<1> QED
  BY <1>2, <1>3

-----------------------------------------------------------------------------
(***************************************************************************)
(* The inductive invariant of the calls.                                   *)
(***************************************************************************)
\* The provider is asked by the one call that made the row, once.
AskedByOneCall ==
    /\ inFlight \subseteq Existing
    /\ \A t \in Transfer :
          /\ initiations[t] <= 1
          /\ t \notin Existing => initiations[t] = 0 /\ answer[t] = NoAnswer
          /\ t \in inFlight /\ answer[t] = NoAnswer => initiations[t] = 0
          /\ t \notin inFlight => answer[t] = NoAnswer

FInv == FlowTypeOK /\ MemoryTold /\ RowsNamed /\ AskedByOneCall

LEMMA FlowInitInvariant == FlowInit => FInv
<1>1. SUFFICES ASSUME FlowInit PROVE FInv
  OBVIOUS
<1>2. Existing = {}
  BY <1>1 DEF FlowInit, Init, Existing
<1>3. FlowTypeOK
  BY <1>1 DEF FlowInit, FlowTypeOK
<1>4. MemoryTold
  BY <1>1 DEF FlowInit, MemoryTold, Told
<1>5. RowsNamed
  BY <1>2 DEF RowsNamed
<1>6. AskedByOneCall
  BY <1>1, <1>2 DEF FlowInit, AskedByOneCall
<1> QED
  BY <1>3, <1>4, <1>5, <1>6 DEF FInv

\* The calls the repository waits for: only their own completion ends them.
LEMMA BeginCalls ==
    ASSUME IInv, NEW in \in OutboundRequests, BeginExternalOutboundTransfer(in)
    PROVE  /\ count' = count + 1 /\ count' \in Transfer /\ count' \notin Existing
           /\ Existing' = Existing \cup {count'}
           /\ calling' = calling \cup {count'}
<1>1. CreateTransfer(in)
  BY BeginCreates
<1>2. ~(Insufficient(in) /\ in.rejectInsufficient) /\ count' = count + 1 /\ count < MaxTransfers
  BY <1>1 DEF CreateTransfer
<1>3. CreatedStatus(in) = "pending"
  BY <1>2, OutboundRequestFacts DEF CreatedStatus, EffectiveStatus
<1>4. in.op \in InitiatingOps
  BY OutboundRequestFacts DEF InitiatingOps
<1>5. calling' = calling \cup {count'}
  BY <1>1, <1>2, <1>3, <1>4 DEF CreateTransfer
<1>6. count \in Nat
  BY SpineAssumption DEF IInv, TypeOK
<1> QED
  BY <1>2, <1>5, <1>6, SpineAssumption DEF Transfer, Existing

LEMMA OthersKeepCalls ==
    ASSUME \/ \E call \in asked : CompleteRequery(call)
           \/ \E in \in parsed : RecordExternalInboundTransfer(in) \/ ReviewEvent(in)
           \/ ReviewCall \/ AccountControl
           \/ Elsewhere
    PROVE  calling \subseteq calling'
<1>1. ASSUME NEW call \in asked, CompleteRequery(call) PROVE calling \subseteq calling'
  BY <1>1 DEF CompleteRequery, CompleteExternalTransferRequery, UpdatePendingInbound,
              SettlePendingTransfer
<1>2. ASSUME NEW in \in parsed, RecordExternalInboundTransfer(in) PROVE calling \subseteq calling'
  BY <1>2 DEF RecordExternalInboundTransfer, RecordTransfer, SettlePendingTransfer, CreateTransfer
<1>3. ASSUME NEW in \in parsed, ReviewEvent(in) PROVE calling \subseteq calling'
  BY <1>3 DEF ReviewEvent, ReviewUnknownDestination, SendToReview, RecordReview
<1>4. ASSUME ReviewCall PROVE calling \subseteq calling'
  BY <1>4 DEF ReviewCall, RecordProviderEventReview, LoseReview, RecordReview
<1>5. ASSUME AccountControl PROVE calling \subseteq calling'
  BY <1>5 DEF AccountControl, FreezeAccount, UnfreezeAccount, SetAccountStatus
<1>6. ASSUME Elsewhere PROVE calling \subseteq calling'
  BY <1>6, ElsewhereRests DEF vars
<1> QED
  BY <1>1, <1>2, <1>3, <1>4, <1>5, <1>6

\* Each kind of step keeps the types, what the provider's memory may say, and
\* that one call asks.
ProviderInv == FlowTypeOK /\ MemoryTold

LEMMA BeginKeeps ==
    ASSUME IInv, FInv, NEW in \in OutboundRequests, BeginExternalOutboundTransfer(in)
    PROVE  ProviderInv' /\ AskedByOneCall'
<1>1. /\ count' \in Transfer /\ count' \notin Existing /\ Existing' = Existing \cup {count'}
      /\ calling' = calling \cup {count'}
  BY BeginCalls
<1>2. /\ inFlight' = inFlight \cup {count'}
      /\ UNCHANGED <<memory, requeryErrors, answer, asked, parsed, initiations, reported>>
  BY DEF BeginExternalOutboundTransfer, provider, history
<1>3. ProviderInv'
  BY <1>1, <1>2 DEF FInv, ProviderInv, FlowTypeOK, MemoryTold, Told
<1>4. AskedByOneCall'
  BY <1>1, <1>2 DEF FInv, AskedByOneCall
<1> QED
  BY <1>3, <1>4

\* The end of a call, also of one that is lost.
LEMMA EndKeeps ==
    ASSUME FInv, NEW t \in Transfer, EndCall(t), calling \ {t} \subseteq calling',
           Existing \subseteq Existing', Existing' \subseteq Existing
    PROVE  ProviderInv' /\ AskedByOneCall'
<1>1. /\ inFlight' = inFlight \ {t} /\ answer' = [answer EXCEPT ![t] = NoAnswer]
      /\ UNCHANGED <<memory, requeryErrors, asked, parsed, initiations, reported>>
  BY DEF EndCall, provider, history
<1>2. ProviderInv'
  BY <1>1 DEF FInv, ProviderInv, FlowTypeOK, MemoryTold, Told
<1>3. AskedByOneCall'
  BY <1>1 DEF FInv, AskedByOneCall, FlowTypeOK
<1> QED
  BY <1>2, <1>3

LEMMA InitiateKeeps ==
    ASSUME IInv, FInv, NEW t \in Transfer, NEW scenario \in Scenarios, InitiateTransfer(t, scenario)
    PROVE  ProviderInv' /\ AskedByOneCall'
<1> DEFINE r == transfers[t].reference
           outcome == Outcome(scenario)
<1>1. t \in inFlight /\ answer[t] = NoAnswer /\ t \in Existing
  BY DEF InitiateTransfer, FInv, AskedByOneCall
<1>2. r \in ProviderReference
  BY <1>1 DEF FInv, RowsNamed, Named
<1>3. /\ outcome \in ProviderResult /\ outcome # NoAnswer /\ outcome.status \in Statuses
      /\ outcome.status = ScenarioStatus(scenario)
      /\ outcome.providerStatus \in ProviderStatuses
      /\ \/ outcome.providerStatus = outcome.status
         \/ outcome.providerStatus = "provider_unknown" /\ outcome.status = "pending"
  <2>1. scenario \in AllScenarios
    BY FlowAssumption
  <2> HIDE DEF outcome
  <2>2. /\ outcome \in ProviderResult /\ outcome.status \in Statuses
        /\ outcome.status = ScenarioStatus(scenario)
        /\ outcome.providerStatus \in ProviderStatuses
        /\ \/ outcome.providerStatus = outcome.status
           \/ outcome.providerStatus = "provider_unknown" /\ outcome.status = "pending"
    BY <2>1, OutcomeFacts DEF outcome
  <2> QED
    BY <2>2, AnswersAreSome
<1> HIDE DEF outcome, r
<1>4. /\ answer' = [answer EXCEPT ![t] = outcome]
      /\ initiations' = [initiations EXCEPT ![t] = @ + 1]
      /\ UNCHANGED <<requeryErrors, inFlight, asked, parsed, count, calling, transfers>>
      /\ \/ UNCHANGED <<memory, reported>>
         \/ /\ Remember(r, outcome, "none", t)
            /\ reported' = reported \cup {<<t, outcome.status>>}
  BY <1>3 DEF InitiateTransfer, vars, outcome, r
<1>5. /\ memory' \in [ProviderReference -> Remembered \cup {Forgotten}]
      /\ MemoryTold'
      /\ \A x \in ProviderReference : memory[x] # Forgotten => memory'[x] # Forgotten
  <2>1. CASE memory' = memory
    BY <2>1 DEF FInv, FlowTypeOK, MemoryTold, Told
  <2>2. CASE Remember(r, outcome, "none", t)
    <3> DEFINE m == [status |-> outcome.status, providerStatus |-> outcome.providerStatus,
                     delay |-> "none", about |-> t]
    <3>1. /\ memory' \in [ProviderReference -> Remembered \cup {Forgotten}]
          /\ memory'[r] = m /\ memory'[r] # Forgotten
          /\ \A x \in ProviderReference : x # r => memory'[x] = memory[x]
      BY <1>2, <1>3, <2>2, RememberFacts DEF FInv
    <3>2. Told(m)
      BY <1>3 DEF Told
    <3> HIDE DEF m
    <3>3. \A x \in ProviderReference : Told(memory'[x])
      BY <3>1, <3>2 DEF FInv, MemoryTold
    <3> QED
      BY <3>1, <3>3 DEF MemoryTold, Told
  <2> QED
    BY <1>4, <2>1, <2>2
<1>6. FlowTypeOK'
  BY <1>1, <1>3, <1>4, <1>5 DEF FInv, FlowTypeOK
<1>7. AskedByOneCall'
  BY <1>1, <1>3, <1>4 DEF FInv, AskedByOneCall, FlowTypeOK, Existing
<1> QED
  BY <1>5, <1>6, <1>7 DEF ProviderInv

LEMMA ScenarioKeeps ==
    ASSUME IInv, FInv, NEW t \in Transfer, NEW scenario \in Overrides, SetRequeryScenario(t, scenario)
    PROVE  ProviderInv' /\ AskedByOneCall'
<1> DEFINE r == transfers[t].reference
           outcome == Outcome(scenario)
<1>1. t \in Existing /\ memory[r] # Forgotten
  BY DEF SetRequeryScenario, ReferenceKnown
<1>2. r \in ProviderReference
  BY <1>1 DEF FInv, RowsNamed, Named
<1>3. memory[r] \in Remembered /\ memory[r].about \in Transfer \cup {0}
  BY <1>1, <1>2 DEF FInv, FlowTypeOK, Remembered
<1>4. /\ outcome.status \in Statuses
      /\ outcome.status = ScenarioStatus(scenario)
      /\ outcome.providerStatus \in ProviderStatuses
      /\ \/ outcome.providerStatus = outcome.status
         \/ outcome.providerStatus = "provider_unknown" /\ outcome.status = "pending"
  <2>1. scenario \in AllScenarios
    BY FlowAssumption
  <2> QED
    BY <2>1, OutcomeFacts
<1> HIDE DEF outcome, r
<1>5. /\ UNCHANGED <<answer, initiations, inFlight, asked, parsed, count, calling, transfers>>
      /\ \/ /\ UNCHANGED <<memory, reported>>
            /\ requeryErrors' = requeryErrors \cup {r}
         \/ /\ Remember(r, outcome, "none", memory[r].about)
            /\ requeryErrors' = requeryErrors \ {r}
            /\ reported' = reported \cup ({memory[r].about} \cap Transfer) \X {outcome.status}
  BY <1>4 DEF SetRequeryScenario, vars, calls, outcome, r
<1>6. ProviderInv'
  <2>1. CASE memory' = memory /\ reported' = reported /\ requeryErrors' = requeryErrors \cup {r}
    BY <1>1, <1>2, <1>5, <2>1 DEF FInv, ProviderInv, FlowTypeOK, MemoryTold, Told, r
  <2>2. CASE /\ Remember(r, outcome, "none", memory[r].about)
             /\ requeryErrors' = requeryErrors \ {r}
             /\ reported' = reported \cup ({memory[r].about} \cap Transfer) \X {outcome.status}
    <3> DEFINE m == [status |-> outcome.status, providerStatus |-> outcome.providerStatus,
                     delay |-> "none", about |-> memory[r].about]
    <3>1. /\ memory' \in [ProviderReference -> Remembered \cup {Forgotten}]
          /\ memory'[r] = m /\ memory'[r] # Forgotten
          /\ \A x \in ProviderReference : x # r => memory'[x] = memory[x]
      BY <1>2, <1>3, <1>4, <2>2, RememberFacts DEF FInv
    <3>2. Told(m)
      BY <1>4 DEF Told
    <3> HIDE DEF m
    <3>3. \A x \in ProviderReference : Told(memory'[x])
      BY <3>1, <3>2 DEF FInv, MemoryTold
    <3>4. reported' \subseteq Transfer \X Statuses
      BY <1>4, <2>2 DEF FInv, FlowTypeOK
    <3> QED
      BY <1>5, <2>2, <3>1, <3>3, <3>4 DEF FInv, FlowTypeOK, ProviderInv, MemoryTold, Told
  <2> QED
    BY <1>5, <2>1, <2>2
<1>7. AskedByOneCall'
  BY <1>5 DEF FInv, AskedByOneCall, Existing
<1> QED
  BY <1>6, <1>7

\* A step that asks the provider for no transfer and leaves its memory alone.
LEMMA QuietKeeps ==
    ASSUME IInv, FInv, FlowRow, calling \subseteq calling',
           UNCHANGED <<memory, requeryErrors, inFlight, answer, initiations, reported>>,
           asked' \subseteq Requery, parsed' \subseteq InboundEvents
    PROVE  ProviderInv' /\ AskedByOneCall'
<1>1. Existing \subseteq Existing' /\ Existing' \subseteq Transfer
  BY RowsGoOn DEF FInv
<1>2. ProviderInv'
  BY DEF FInv, ProviderInv, FlowTypeOK, MemoryTold, Told
<1>3. AskedByOneCall'
  BY <1>1 DEF FInv, AskedByOneCall
<1> QED
  BY <1>2, <1>3

LEMMA CompleteKeeps ==
    ASSUME IInv, FInv, FlowRow, NEW t \in Transfer, CompleteCall(t)
    PROVE  ProviderInv' /\ AskedByOneCall'
<1>1. count' = count /\ calling' = calling \ {t} /\ EndCall(t)
  BY DEF CompleteCall, CompleteExternalOutboundTransfer, CompleteOutbound, SettlePendingTransfer
<1>2. Existing' = Existing
  BY <1>1 DEF Existing
<1> QED
  BY <1>1, <1>2, EndKeeps

LEMMA RequeryKeeps ==
    ASSUME IInv, FInv, FlowRow, NEW t \in Transfer, RequeryTransfer(t)
    PROVE  ProviderInv' /\ AskedByOneCall'
<1> DEFINE r == transfers[t].reference
           call == [transfer |-> t, reference |-> r, answer |-> RequeryAnswer(r)]
<1>1. t \in Existing /\ memory[r] # Forgotten /\ AnswerAccepted(RequeryAnswer(r))
  BY DEF RequeryTransfer, ReferenceKnown
<1>2. r \in ProviderReference
  BY <1>1 DEF FInv, RowsNamed, Named
<1>3. RequeryAnswer(r) \in ProviderResult
  BY <1>1, <1>2, RequeryAnswerType DEF FInv
<1>4. call \in Requery
  BY <1>2, <1>3 DEF Requery
<1>5. asked' = asked \cup {call} /\ UNCHANGED <<vars, provider, inFlight, answer, parsed, history>>
  BY DEF RequeryTransfer
<1> HIDE DEF call
<1>6. asked' \subseteq Requery /\ parsed' \subseteq InboundEvents
  BY <1>4, <1>5 DEF FInv, FlowTypeOK
<1> QED
  BY <1>5, <1>6, QuietKeeps DEF vars, provider, history

\* The provider remembers something else.
LEMMA RemindedKeeps ==
    ASSUME IInv, FInv, memory' \in [ProviderReference -> Remembered \cup {Forgotten}], MemoryTold',
           requeryErrors' \subseteq requeryErrors, parsed' \subseteq InboundEvents,
           \A r \in ProviderReference : memory[r] # Forgotten => memory'[r] # Forgotten,
           UNCHANGED <<vars, inFlight, answer, asked, history>>
    PROVE  ProviderInv' /\ AskedByOneCall'
<1>1. Existing' = Existing
  BY DEF vars, Existing
<1>2. FlowTypeOK'
  BY DEF FInv, FlowTypeOK, vars, history
<1>3. AskedByOneCall'
  BY <1>1 DEF FInv, AskedByOneCall, history
<1> QED
  BY <1>2, <1>3 DEF ProviderInv

LEMMA ParseKeeps ==
    ASSUME IInv, FInv, NEW in \in InboundEvents, NEW delay \in Delays, ParseWebhook(in, delay)
    PROVE  ProviderInv' /\ AskedByOneCall'
<1> DEFINE r == in.reference
           m == [status |-> in.status, providerStatus |-> in.providerStatus,
                 delay |-> delay, about |-> 0]
<1>1. /\ r \in ProviderReference /\ in.status \in Statuses /\ in.providerStatus = in.status
  BY InboundEventFacts DEF ProviderReference
<1>2. delay \in {"none", "waiting", "elapsed"} /\ 0 \in Transfer \cup {0}
  BY FlowAssumption
<1>3. in.providerStatus \in ProviderStatuses
  BY <1>1 DEF Statuses, ProviderStatuses
<1>4. Remember(r, in, delay, 0)
  BY DEF ParseWebhook
<1>5. /\ memory' \in [ProviderReference -> Remembered \cup {Forgotten}]
      /\ memory'[r] = m /\ memory'[r] # Forgotten
      /\ \A x \in ProviderReference : x # r => memory'[x] = memory[x]
  BY <1>1, <1>2, <1>3, <1>4, RememberFacts DEF FInv
<1>6. Told(m)
  BY <1>1 DEF Told
<1> HIDE DEF m
<1>7. \A x \in ProviderReference : Told(memory'[x])
  BY <1>5, <1>6 DEF FInv, MemoryTold
<1>8. MemoryTold'
  BY <1>7 DEF MemoryTold, Told
<1>9. /\ requeryErrors' \subseteq requeryErrors /\ parsed' = parsed \cup {in}
      /\ UNCHANGED <<vars, inFlight, answer, asked, history>>
  BY DEF ParseWebhook
<1>10. parsed' \subseteq InboundEvents
  BY <1>9 DEF FInv, FlowTypeOK
<1>11. \A x \in ProviderReference : memory[x] # Forgotten => memory'[x] # Forgotten
  BY <1>5
<1> HIDE DEF r
<1> QED
  BY <1>5, <1>8, <1>9, <1>10, <1>11, RemindedKeeps

LEMMA DelayKeeps ==
    ASSUME IInv, FInv, NEW r \in ProviderReference, DelayElapses(r)
    PROVE  ProviderInv' /\ AskedByOneCall'
<1> DEFINE m == [memory[r] EXCEPT !.delay = "elapsed"]
<1>1. memory[r] \in Remembered /\ memory[r].delay = "waiting" /\ memory[r] # Forgotten
  BY DEF DelayElapses, FInv, FlowTypeOK
<1>2. m \in Remembered /\ m.status = memory[r].status /\ m.providerStatus = memory[r].providerStatus
  BY <1>1 DEF Remembered
<1>3. m # Forgotten
  <2>1. m.status \in Statuses
    BY <1>1, <1>2 DEF Remembered
  <2> QED
    BY <2>1 DEF Forgotten, Statuses
<1>4. Told(m)
  BY <1>1, <1>2 DEF Told, FInv, MemoryTold
<1>5. memory' = [memory EXCEPT ![r] = m] /\ memory \in [ProviderReference -> Remembered \cup {Forgotten}]
  BY DEF DelayElapses, FInv, FlowTypeOK
<1>6. UNCHANGED <<vars, requeryErrors, inFlight, answer, asked, parsed, history>>
  BY DEF DelayElapses, calls
<1> HIDE DEF m
<1>7. /\ memory' \in [ProviderReference -> Remembered \cup {Forgotten}]
      /\ \A x \in ProviderReference : memory[x] # Forgotten => memory'[x] # Forgotten
      /\ \A x \in ProviderReference : Told(memory'[x])
  BY <1>2, <1>3, <1>4, <1>5 DEF FInv, MemoryTold
<1>8. MemoryTold'
  BY <1>7 DEF MemoryTold, Told
<1> QED
  BY <1>6, <1>7, <1>8, RemindedKeeps DEF FInv, FlowTypeOK

LEMMA RestartKeeps ==
    ASSUME IInv, FInv, Restart
    PROVE  ProviderInv' /\ AskedByOneCall'
<1>1. /\ memory' = [r \in ProviderReference |-> Forgotten] /\ requeryErrors' = {}
      /\ inFlight' = {} /\ answer' = [t \in Transfer |-> NoAnswer] /\ asked' = {} /\ parsed' = {}
      /\ Existing' = Existing /\ UNCHANGED <<calling, initiations, reported>>
  BY DEF Restart, vars, history, Existing
<1>2. FlowTypeOK'
  BY <1>1 DEF FInv, FlowTypeOK
<1>3. MemoryTold'
  BY <1>1 DEF MemoryTold, Told
<1>4. AskedByOneCall'
  BY <1>1 DEF FInv, AskedByOneCall
<1> QED
  BY <1>2, <1>3, <1>4 DEF ProviderInv

LEMMA ElsewhereKeeps ==
    ASSUME IInv, FInv, FlowRow, Elsewhere
    PROVE  ProviderInv' /\ AskedByOneCall'
<1>1. ASSUME NEW t \in Transfer, LoseCall(t) PROVE ProviderInv' /\ AskedByOneCall'
  <2>1. EndCall(t) /\ Existing' = Existing /\ calling' = calling
    BY <1>1 DEF LoseCall, vars, Existing
  <2> QED
    BY <2>1, EndKeeps
<1>2. ASSUME NEW call \in asked, LoseRequery(call) PROVE ProviderInv' /\ AskedByOneCall'
  BY <1>2, QuietKeeps DEF LoseRequery, FInv, FlowTypeOK, vars, provider, history
<1>3. ASSUME NEW in \in parsed, DropEvent(in) PROVE ProviderInv' /\ AskedByOneCall'
  BY <1>3, QuietKeeps DEF DropEvent, EndEvent, FInv, FlowTypeOK, vars, provider, history
<1>4. CASE UNCHANGED flowVars
  BY <1>4, QuietKeeps DEF flowVars, FInv, FlowTypeOK, vars, provider, calls, history
<1> QED
  BY <1>1, <1>2, <1>3, <1>4, InitiateKeeps, ScenarioKeeps, RequeryKeeps, ParseKeeps, DelayKeeps,
     RestartKeeps DEF Elsewhere

LEMMA SpineStepKeeps ==
    ASSUME IInv, FInv, FlowRow,
           \/ \E call \in asked : CompleteRequery(call)
           \/ \E in \in parsed : RecordExternalInboundTransfer(in) \/ ReviewEvent(in)
           \/ ReviewCall \/ AccountControl
    PROVE  ProviderInv' /\ AskedByOneCall'
<1>1. calling \subseteq calling'
  BY OthersKeepCalls
<1>2. /\ UNCHANGED <<memory, requeryErrors, inFlight, answer, initiations, reported>>
      /\ asked' \subseteq asked /\ parsed' \subseteq parsed
  BY DEF CompleteRequery, RecordExternalInboundTransfer, ReviewEvent, EndEvent, ReviewCall,
         AccountControl, provider, calls, history
<1>3. asked' \subseteq Requery /\ parsed' \subseteq InboundEvents
  BY <1>2 DEF FInv, FlowTypeOK
<1> QED
  BY <1>1, <1>2, <1>3, QuietKeeps

LEMMA FlowInvariance == IInv /\ FInv /\ [FlowNext]_flowVars => IInv' /\ FInv'
<1> SUFFICES ASSUME IInv, FInv, [FlowNext]_flowVars
             PROVE  IInv' /\ FInv'
  OBVIOUS
<1>1. FlowTypeOK /\ RowsNamed
  BY DEF FInv
<1>2. [Next]_vars
  BY <1>1, FlowStepsAreSpineSteps
<1>3. IInv'
  BY <1>2, NextInvariant
<1>4. FlowRow
  BY <1>1, <1>3, FlowRows
<1>5. RowsNamed'
  BY <1>1, <1>4, RowsGoOn
<1>6. ProviderInv' /\ AskedByOneCall'
  <2>1. CASE \E in \in OutboundRequests : BeginExternalOutboundTransfer(in)
    BY <2>1, BeginKeeps
  <2>2. CASE \E t \in Transfer : CompleteCall(t)
    BY <1>4, <2>2, CompleteKeeps
  <2>3. CASE \/ \E call \in asked : CompleteRequery(call)
             \/ \E in \in parsed : RecordExternalInboundTransfer(in) \/ ReviewEvent(in)
             \/ ReviewCall \/ AccountControl
    BY <1>4, <2>3, SpineStepKeeps
  <2>4. CASE Elsewhere
    BY <1>4, <2>4, ElsewhereKeeps
  <2> QED
    BY <2>1, <2>2, <2>3, <2>4 DEF FlowNext, Elsewhere
<1> QED
  BY <1>3, <1>5, <1>6 DEF FInv, ProviderInv

LEMMA FlowInvariant == FlowSpec => [](IInv /\ FInv)
<1>1. FlowInit => IInv /\ FInv
  BY FlowInitInvariant, InitInvariant DEF FlowInit
<1> QED
  BY <1>1, FlowInvariance, PTL DEF FlowSpec

-----------------------------------------------------------------------------
(***************************************************************************)
(* The results.                                                            *)
(***************************************************************************)
\* Every state of the calls, the provider's memory and their history is well
\* typed.
THEOREM FlowTypeCorrect == FlowSpec => []FlowTypeOK
<1>1. FInv => FlowTypeOK
  BY DEF FInv
<1> QED
  BY <1>1, FlowInvariant, PTL

\* The external service with its provider implements TransferSpine: every
\* theorem about the repository's transactions holds while calls die, answers
\* grow stale and the provider forgets.
THEOREM FlowImplementsSpine == FlowSpec => ImplementsSpine
<1>1. FlowInit => Init
  BY DEF FlowInit
<1>2. IInv /\ FInv /\ [FlowNext]_flowVars => [Next]_vars
  BY FlowStepsAreSpineSteps DEF FInv
<1> QED
  BY <1>1, <1>2, FlowInvariant, PTL DEF FlowSpec, ImplementsSpine, Spec

\* The provider is asked to make a transfer at most once per idempotency key,
\* for any number of retries, lost calls and restarts.
THEOREM ProviderIsAskedOnce == FlowSpec => []ProviderAskedOnce
<1>1. IInv /\ FInv => ProviderAskedOnce
  <2>1. SUFFICES ASSUME IInv, FInv, NEW t \in Existing
                 PROVE  /\ initiations[t] <= 1
                        /\ \A u \in Existing \ {t} :
                              transfers[u].key = transfers[t].key
                                  => initiations[u] + initiations[t] <= 1
    BY DEF ProviderAskedOnce
  <2>2. Existing \subseteq Transfer
    BY <2>1, SpineAssumption DEF IInv, TypeOK, Existing, Transfer
  <2>3. initiations[t] <= 1
    BY <2>1, <2>2 DEF FInv, AskedByOneCall
  <2>4. ASSUME NEW u \in Existing \ {t} PROVE transfers[u].key # transfers[t].key
    BY <2>1 DEF IInv, KeyNamesOneTransfer
  <2> QED
    BY <2>3, <2>4
<1> QED
  BY <1>1, FlowInvariant, PTL

-----------------------------------------------------------------------------
(***************************************************************************)
(* Holds end as the provider reported.                                     *)
(***************************************************************************)
\* The references of outbound transfers are their own: no two outbound
\* transfers share one, and no event names one.
NamesApart(own) ==
    /\ \A t \in Existing : transfers[t].direction = "outbound" => transfers[t].reference \in own
    /\ \A t, u \in Existing :
          /\ transfers[t].direction = "outbound" /\ transfers[u].direction = "outbound"
          /\ transfers[t].reference = transfers[u].reference
          => t = u
    /\ \A in \in parsed : in.reference \notin own

\* What a call may commit of an outbound transfer: nothing yet, or a report.
Reported(t, status) == status = "pending" \/ <<t, status>> \in reported

CallersOutbound == \A t \in inFlight : transfers[t].direction = "outbound"

\* What the provider keeps under such a reference is what it reported of the
\* transfer that has it.
MemoryReported(own) ==
    \A r \in own \cap ProviderReference :
        memory[r] # Forgotten =>
            /\ memory[r].about \in Existing
            /\ transfers[memory[r].about].direction = "outbound"
            /\ transfers[memory[r].about].reference = r
            /\ memory[r].delay = "none"
            /\ <<memory[r].about, memory[r].status>> \in reported

AnswersReported ==
    /\ \A t \in inFlight : answer[t] # NoAnswer => Reported(t, answer[t].status)
    /\ \A call \in asked :
          /\ call.transfer \in Existing
          /\ transfers[call.transfer].direction = "outbound"
                => Reported(call.transfer, call.answer.status)

SInv(own) ==
    CallersOutbound /\ MemoryReported(own) /\ AnswersReported /\ SettledAsReported

LEMMA SettledInit == FlowInit => \A own : SInv(own)
<1>1. SUFFICES ASSUME FlowInit, NEW own PROVE SInv(own)
  OBVIOUS
<1>2. Existing = {}
  BY <1>1 DEF FlowInit, Init, Existing
<1> QED
  BY <1>1, <1>2 DEF FlowInit, SInv, CallersOutbound, MemoryReported, AnswersReported,
                    SettledAsReported, Reported

LEMMA ReportsStay ==
    ASSUME [FlowNext]_flowVars
    PROVE  reported \subseteq reported'
BY DEF FlowNext, BeginExternalOutboundTransfer, InitiateTransfer, CompleteCall, LoseCall, EndCall,
       SetRequeryScenario, RequeryTransfer, CompleteRequery, LoseRequery, ParseWebhook,
       RecordExternalInboundTransfer, ReviewEvent, DropEvent, EndEvent, ReviewCall, AccountControl,
       DelayElapses, Restart, flowVars, history

LEMMA HoldsReported ==
    ASSUME IInv, IInv', FInv, CallersOutbound, AnswersReported, SettledAsReported, FlowRow,
           FinalRowsRest, reported \subseteq reported'
    PROVE  SettledAsReported'
<1>1. SUFFICES ASSUME NEW t \in Existing', hold'[t] \in {"consumed", "released"}
               PROVE  <<t, transfers'[t].status>> \in reported'
  BY DEF SettledAsReported
<1>2. Consistent(transfers'[t], hold'[t], journal'[t])
  BY DEF IInv
<1>3. transfers'[t].status # "pending"
  BY <1>1, <1>2 DEF Consistent
<1>4. /\ count \in Nat /\ DOMAIN transfers = Transfer /\ DOMAIN hold = Transfer
      /\ Existing = 1..count /\ Existing' = 1..count' /\ Transfer = 1..MaxTransfers
      /\ MaxTransfers \in Nat /\ Existing \subseteq Transfer
  BY SpineAssumption DEF IInv, TypeOK, Existing, Transfer
<1>5. CASE t \in Existing /\ ~IsOpen(t)
  <2>1. transfers'[t] = transfers[t] /\ hold'[t] = hold[t]
    BY <1>5 DEF FinalRowsRest
  <2> QED
    BY <1>1, <1>5, <2>1 DEF SettledAsReported
<1>6. CASE t \in Existing /\ IsOpen(t)
  <2>1. hold[t] \notin {"consumed", "released"}
    BY <1>6, ExistingFacts DEF Consistent, IsOpen
  <2>2. ~UNCHANGED <<count, transfers, hold>>
    BY <1>1, <2>1
  <2>3. ~\E row \in Row : OpensNamed(row)
    BY <1>1, <1>4, <1>6, <2>1 DEF OpensNamed
  <2>4. PICK u \in Existing, row \in Row : RewritesNamed(u, row)
    BY <2>2, <2>3 DEF FlowRow
  <2>5. /\ u = t /\ transfers[t].direction = "outbound" /\ Heard(t, row.status)
        /\ transfers'[t] = row
    BY <1>1, <1>4, <1>6, <2>1, <2>4 DEF RewritesNamed
  <2>6. Reported(t, row.status)
    BY <2>5 DEF Heard, AnswersReported
  <2> QED
    BY <1>3, <2>5, <2>6 DEF Reported
<1>7. CASE t \notin Existing
  <2>1. t # 0 /\ \A row \in Row, u \in Existing : ~RewritesNamed(u, row)
    BY <1>4, <1>7 DEF RewritesNamed
  <2>2. PICK row \in Row : OpensNamed(row)
    BY <1>4, <1>7, <2>1 DEF FlowRow
  <2>3. t = count + 1 /\ count' = count + 1 /\ t \in Transfer
    BY <1>4, <1>7, <2>2 DEF OpensNamed
  <2>4. hold[t] = "none"
    BY <1>4, <2>3 DEF IInv, UnusedSlotsAreBlank
  <2> QED
    BY <1>1, <1>4, <2>2, <2>3, <2>4 DEF OpensNamed
<1> QED
  BY <1>5, <1>6, <1>7

\* A step that leaves what calls have heard and the provider keeps as it was.
LEMMA ReportsKept ==
    ASSUME IInv, FInv, NEW own, SInv(own), FlowRow, reported \subseteq reported',
           inFlight' \subseteq inFlight, asked' \subseteq asked,
           \A t \in inFlight' : answer'[t] = answer[t],
           \A r \in own \cap ProviderReference : memory'[r] \in {memory[r], Forgotten}
    PROVE  CallersOutbound' /\ MemoryReported(own)' /\ AnswersReported'
<1>1. /\ Existing \subseteq Existing'
      /\ \A t \in Existing : SameTransfer(transfers'[t], transfers[t])
  BY RowsGoOn DEF FInv
<1>2. inFlight \subseteq Existing
  BY DEF FInv, AskedByOneCall
<1>3. CallersOutbound'
  BY <1>1, <1>2 DEF SInv, CallersOutbound, SameTransfer
<1>4. MemoryReported(own)'
  BY <1>1 DEF SInv, MemoryReported, SameTransfer
<1>5. AnswersReported'
  BY <1>1 DEF SInv, AnswersReported, SameTransfer, Reported
<1> QED
  BY <1>3, <1>4, <1>5

LEMMA BeginReports ==
    ASSUME IInv, FInv, NEW own, SInv(own), FlowRow, NEW in \in OutboundRequests,
           BeginExternalOutboundTransfer(in)
    PROVE  CallersOutbound' /\ MemoryReported(own)' /\ AnswersReported'
<1>1. /\ count' \in Transfer /\ count' \notin Existing /\ count' = count + 1
  BY BeginCalls
<1>2. /\ Existing \subseteq Existing'
      /\ \A t \in Existing : SameTransfer(transfers'[t], transfers[t])
  BY RowsGoOn DEF FInv
<1>3. /\ inFlight' = inFlight \cup {count'}
      /\ UNCHANGED <<memory, answer, asked, reported>>
  BY DEF BeginExternalOutboundTransfer, provider, history
<1>4. transfers'[count'].direction = "outbound"
  <2>1. CreateTransfer(in) /\ in \in Request /\ in.direction = "outbound" /\ in.reversalOf = NotReversal
    BY BeginCreates, OutboundRequestFacts, RequestType DEF PlainRequest
  <2>2. transfers' = [transfers EXCEPT ![count'] = CreatedRow(in)]
    BY <1>1, <2>1 DEF CreateTransfer
  <2>3. CreatedRow(in).direction = "outbound"
    BY <2>1, CreatedRowFields
  <2> QED
    BY <1>1, <2>2, <2>3 DEF IInv, TypeOK
<1>5. inFlight \subseteq Existing /\ answer[count'] = NoAnswer
  BY <1>1 DEF FInv, AskedByOneCall
<1>6. CallersOutbound'
  BY <1>2, <1>3, <1>4, <1>5 DEF SInv, CallersOutbound, SameTransfer
<1>7. MemoryReported(own)'
  BY <1>2, <1>3 DEF SInv, MemoryReported, SameTransfer
<1>8. AnswersReported'
  BY <1>2, <1>3, <1>5 DEF SInv, AnswersReported, SameTransfer, Reported
<1> QED
  BY <1>6, <1>7, <1>8

LEMMA InitiateReports ==
    ASSUME IInv, FInv, NEW own, SInv(own), NEW t \in Transfer, NEW scenario \in Scenarios,
           InitiateTransfer(t, scenario)
    PROVE  CallersOutbound' /\ MemoryReported(own)' /\ AnswersReported'
<1> DEFINE r == transfers[t].reference
           outcome == Outcome(scenario)
<1>1. /\ t \in inFlight /\ t \in Existing /\ transfers[t].direction = "outbound"
      /\ Existing' = Existing /\ transfers' = transfers
  BY DEF InitiateTransfer, FInv, AskedByOneCall, SInv, CallersOutbound, vars, Existing
<1>2. r \in ProviderReference
  BY <1>1 DEF FInv, RowsNamed, Named
<1>3. /\ outcome.status \in Statuses /\ outcome.status = ScenarioStatus(scenario)
      /\ outcome.providerStatus \in ProviderStatuses
      /\ scenario = "timeout" => outcome.status = "pending"
  BY FlowAssumption, OutcomeFacts
<1> HIDE DEF outcome, r
<1>4. /\ answer' = [answer EXCEPT ![t] = outcome] /\ UNCHANGED <<inFlight, asked>>
      /\ \/ UNCHANGED <<memory, reported>> /\ outcome.status = "pending"
         \/ /\ Remember(r, outcome, "none", t)
            /\ reported' = reported \cup {<<t, outcome.status>>}
  BY <1>3 DEF InitiateTransfer, outcome, r
<1>5. CallersOutbound'
  BY <1>1, <1>4 DEF SInv, CallersOutbound
<1>6. AnswersReported'
  BY <1>1, <1>4 DEF SInv, AnswersReported, Reported, FInv, FlowTypeOK
<1>7. MemoryReported(own)'
  <2>1. CASE UNCHANGED <<memory, reported>>
    BY <1>1, <2>1 DEF SInv, MemoryReported
  <2>2. CASE /\ Remember(r, outcome, "none", t)
             /\ reported' = reported \cup {<<t, outcome.status>>}
    <3> DEFINE m == [status |-> outcome.status, providerStatus |-> outcome.providerStatus,
                     delay |-> "none", about |-> t]
    <3>1. /\ memory'[r] = m
          /\ \A x \in ProviderReference : x # r => memory'[x] = memory[x]
      BY <1>2, <1>3, <2>2, RememberFacts DEF FInv
    <3>2. /\ memory'[r].about = t /\ memory'[r].delay = "none"
          /\ memory'[r].status = outcome.status /\ transfers[t].reference = r
      BY <3>1 DEF r
    <3>3. SUFFICES ASSUME NEW x \in own \cap ProviderReference, memory'[x] # Forgotten
                   PROVE  /\ memory'[x].about \in Existing
                          /\ transfers[memory'[x].about].direction = "outbound"
                          /\ transfers[memory'[x].about].reference = x
                          /\ memory'[x].delay = "none"
                          /\ <<memory'[x].about, memory'[x].status>> \in reported'
      BY <1>1 DEF MemoryReported
    <3> HIDE DEF m
    <3>4. CASE x = r
      BY <1>1, <2>2, <3>2, <3>4
    <3>5. CASE x # r
      BY <2>2, <3>1, <3>3, <3>5 DEF SInv, MemoryReported
    <3> QED
      BY <3>4, <3>5
  <2> QED
    BY <1>4, <2>1, <2>2
<1> QED
  BY <1>5, <1>6, <1>7

LEMMA ScenarioReports ==
    ASSUME IInv, FInv, NEW own, SInv(own), NEW t \in Transfer, NEW scenario \in Overrides,
           SetRequeryScenario(t, scenario)
    PROVE  CallersOutbound' /\ MemoryReported(own)' /\ AnswersReported'
<1> DEFINE r == transfers[t].reference
           outcome == Outcome(scenario)
<1>1. t \in Existing /\ memory[r] # Forgotten /\ Existing' = Existing /\ transfers' = transfers
  BY DEF SetRequeryScenario, ReferenceKnown, vars, Existing
<1>2. r \in ProviderReference
  BY <1>1 DEF FInv, RowsNamed, Named
<1>3. memory[r].about \in Transfer \cup {0}
  BY <1>1, <1>2 DEF FInv, FlowTypeOK, Remembered
<1>4. /\ outcome.status \in Statuses /\ outcome.status = ScenarioStatus(scenario)
      /\ outcome.providerStatus \in ProviderStatuses
  BY FlowAssumption, OutcomeFacts
<1> HIDE DEF outcome, r
<1>5. /\ UNCHANGED <<answer, inFlight, asked>>
      /\ \/ UNCHANGED <<memory, reported>>
         \/ /\ Remember(r, outcome, "none", memory[r].about)
            /\ reported' = reported \cup ({memory[r].about} \cap Transfer) \X {outcome.status}
  BY <1>4 DEF SetRequeryScenario, calls, outcome, r
<1>6. CallersOutbound' /\ AnswersReported'
  BY <1>1, <1>5 DEF SInv, CallersOutbound, AnswersReported, Reported
<1>7. MemoryReported(own)'
  <2>1. CASE UNCHANGED <<memory, reported>>
    BY <1>1, <2>1 DEF SInv, MemoryReported
  <2>2. CASE /\ Remember(r, outcome, "none", memory[r].about)
             /\ reported' = reported \cup ({memory[r].about} \cap Transfer) \X {outcome.status}
    <3> DEFINE m == [status |-> outcome.status, providerStatus |-> outcome.providerStatus,
                     delay |-> "none", about |-> memory[r].about]
    <3>1. /\ memory'[r] = m
          /\ \A x \in ProviderReference : x # r => memory'[x] = memory[x]
      BY <1>2, <1>3, <1>4, <2>2, RememberFacts DEF FInv
    <3>2. /\ memory'[r].about = memory[r].about /\ memory'[r].delay = "none"
          /\ memory'[r].status = outcome.status
      BY <3>1
    <3>3. SUFFICES ASSUME NEW x \in own \cap ProviderReference, memory'[x] # Forgotten
                   PROVE  /\ memory'[x].about \in Existing
                          /\ transfers[memory'[x].about].direction = "outbound"
                          /\ transfers[memory'[x].about].reference = x
                          /\ memory'[x].delay = "none"
                          /\ <<memory'[x].about, memory'[x].status>> \in reported'
      BY <1>1 DEF MemoryReported
    <3> HIDE DEF m
    <3>4. CASE x = r
      <4>1. /\ memory[r].about \in Existing /\ transfers[memory[r].about].direction = "outbound"
            /\ transfers[memory[r].about].reference = r
        BY <1>1, <3>3, <3>4 DEF SInv, MemoryReported
      <4>2. memory[r].about \in Transfer
        BY <4>1, ExistingFacts
      <4> QED
        BY <2>2, <3>2, <3>4, <4>1, <4>2
    <3>5. CASE x # r
      BY <2>2, <3>1, <3>3, <3>5 DEF SInv, MemoryReported
    <3> QED
      BY <3>4, <3>5
  <2> QED
    BY <1>5, <2>1, <2>2
<1> QED
  BY <1>6, <1>7

\* A requery reads what the provider reported of that very transfer, because no
\* other transfer has its reference.
LEMMA RequeryReports ==
    ASSUME IInv, FInv, NEW own, SInv(own), NamesApart(own), NEW t \in Transfer, RequeryTransfer(t)
    PROVE  CallersOutbound' /\ MemoryReported(own)' /\ AnswersReported'
<1> DEFINE r == transfers[t].reference
           heard == RequeryAnswer(r)
           call == [transfer |-> t, reference |-> r, answer |-> heard]
<1>1. t \in Existing /\ memory[r] # Forgotten /\ Existing' = Existing /\ transfers' = transfers
  BY DEF RequeryTransfer, ReferenceKnown, vars, Existing
<1>2. r \in ProviderReference
  BY <1>1 DEF FInv, RowsNamed, Named
<1>3. ASSUME transfers[t].direction = "outbound" PROVE Reported(t, heard.status)
  <2>1. CASE r \in requeryErrors
    BY <2>1, OutcomeFacts DEF RequeryAnswer, AllScenarios, Reported
  <2>2. CASE r \notin requeryErrors
    <3>1. r \in own
      BY <1>1, <1>3 DEF NamesApart
    <3>2. /\ memory[r].about \in Existing /\ transfers[memory[r].about].direction = "outbound"
          /\ transfers[memory[r].about].reference = r /\ memory[r].delay = "none"
          /\ <<memory[r].about, memory[r].status>> \in reported
      BY <1>1, <1>2, <3>1 DEF SInv, MemoryReported
    <3>3. memory[r].about = t
      BY <1>1, <1>3, <3>2 DEF NamesApart
    <3>4. heard.status = memory[r].status
      BY <2>2, <3>2 DEF RequeryAnswer
    <3> QED
      BY <3>2, <3>3, <3>4 DEF Reported
  <2> QED
    BY <2>1, <2>2
<1>4. /\ asked' = asked \cup {call} /\ call.transfer = t /\ call.answer.status = heard.status
      /\ UNCHANGED <<memory, inFlight, answer, reported>>
  BY DEF RequeryTransfer, provider, history
<1> HIDE DEF call, heard
<1>5. CallersOutbound' /\ MemoryReported(own)'
  BY <1>1, <1>4 DEF SInv, CallersOutbound, MemoryReported
<1>6. AnswersReported'
  BY <1>1, <1>3, <1>4 DEF SInv, AnswersReported, Reported
<1> QED
  BY <1>5, <1>6

\* An event names no such reference.
LEMMA ParseReports ==
    ASSUME IInv, FInv, NEW own, SInv(own), NamesApart(own)', NEW in \in InboundEvents,
           NEW delay \in Delays, ParseWebhook(in, delay)
    PROVE  CallersOutbound' /\ MemoryReported(own)' /\ AnswersReported'
<1>1. /\ Existing' = Existing /\ UNCHANGED <<transfers, inFlight, answer, asked, reported>>
      /\ parsed' = parsed \cup {in}
  BY DEF ParseWebhook, vars, history, Existing
<1>2. in.reference \notin own
  BY <1>1 DEF NamesApart
<1>3. \A r \in own \cap ProviderReference : memory'[r] = memory[r]
  BY <1>2 DEF ParseWebhook, Remember, FInv, FlowTypeOK
<1>4. CallersOutbound' /\ AnswersReported'
  BY <1>1 DEF SInv, CallersOutbound, AnswersReported, Reported
<1>5. MemoryReported(own)'
  BY <1>1, <1>3 DEF SInv, MemoryReported
<1> QED
  BY <1>4, <1>5

LEMMA DelayReports ==
    ASSUME IInv, FInv, NEW own, SInv(own), NEW r \in ProviderReference, DelayElapses(r)
    PROVE  CallersOutbound' /\ MemoryReported(own)' /\ AnswersReported'
<1>1. Existing' = Existing /\ UNCHANGED <<transfers, inFlight, answer, asked, reported>>
  BY DEF DelayElapses, vars, calls, history, Existing
<1>2. r \notin own
  BY DEF DelayElapses, SInv, MemoryReported
<1>3. \A x \in own \cap ProviderReference : memory'[x] = memory[x]
  BY <1>2 DEF DelayElapses, FInv, FlowTypeOK
<1>4. CallersOutbound' /\ AnswersReported'
  BY <1>1 DEF SInv, CallersOutbound, AnswersReported, Reported
<1>5. MemoryReported(own)'
  BY <1>1, <1>3 DEF SInv, MemoryReported
<1> QED
  BY <1>4, <1>5

LEMMA SettledInvariance ==
    ASSUME NEW CONSTANT own
    PROVE  /\ IInv /\ FInv /\ SInv(own) /\ NamesApart(own) /\ NamesApart(own)' /\ IInv'
           /\ [FlowNext]_flowVars
           => SInv(own)'
<1> SUFFICES ASSUME IInv, FInv, SInv(own), NamesApart(own), NamesApart(own)', IInv',
                    [FlowNext]_flowVars
             PROVE  SInv(own)'
  OBVIOUS
<1>1. FlowTypeOK /\ RowsNamed
  BY DEF FInv
<1>2. FlowRow
  BY <1>1, FlowRows
<1>3. [Next]_vars
  BY <1>1, FlowStepsAreSpineSteps
<1>4. FinalRowsRest
  BY <1>3, NextKeepsFinalRows
<1>5. reported \subseteq reported'
  BY ReportsStay
<1>6. SettledAsReported'
  BY <1>2, <1>4, <1>5, HoldsReported DEF SInv
<1>7. CallersOutbound' /\ MemoryReported(own)' /\ AnswersReported'
  <2>0. ASSUME NEW t \in Transfer, CompleteCall(t) \/ LoseCall(t)
        PROVE  CallersOutbound' /\ MemoryReported(own)' /\ AnswersReported'
    <3>1. /\ inFlight' = inFlight \ {t} /\ UNCHANGED <<asked, memory>>
          /\ answer' = [answer EXCEPT ![t] = NoAnswer]
      BY <2>0 DEF CompleteCall, LoseCall, EndCall, provider
    <3>2. \A u \in inFlight' : answer'[u] = answer[u]
      BY <3>1 DEF FInv, AskedByOneCall, FlowTypeOK
    <3>3. \A r \in own \cap ProviderReference : memory'[r] \in {memory[r], Forgotten}
      BY <3>1
    <3> QED
      BY <1>2, <1>5, <3>1, <3>2, <3>3, ReportsKept
  <2>1. CASE Restart
    <3>1. /\ inFlight' = {} /\ asked' = {}
          /\ \A r \in own \cap ProviderReference : memory'[r] \in {memory[r], Forgotten}
      BY <2>1 DEF Restart
    <3> QED
      BY <1>2, <1>5, <3>1, ReportsKept
  <2>2. CASE \/ \E call \in asked : CompleteRequery(call) \/ LoseRequery(call)
             \/ \E in \in parsed : RecordExternalInboundTransfer(in) \/ ReviewEvent(in) \/ DropEvent(in)
             \/ ReviewCall \/ AccountControl \/ UNCHANGED flowVars
    <3>1. /\ UNCHANGED <<memory, inFlight, answer>>
          /\ asked' \subseteq asked
      BY <2>2 DEF CompleteRequery, LoseRequery, RecordExternalInboundTransfer, ReviewEvent, DropEvent,
                  EndEvent, ReviewCall, AccountControl, provider, calls, flowVars
    <3> QED
      BY <1>2, <1>5, <3>1, ReportsKept
  <2>3. CASE \E in \in OutboundRequests : BeginExternalOutboundTransfer(in)
    BY <1>2, <2>3, BeginReports
  <2>4. CASE \E t \in Transfer, scenario \in Scenarios : InitiateTransfer(t, scenario)
    BY <2>4, InitiateReports
  <2>5. CASE \E t \in Transfer, scenario \in Overrides : SetRequeryScenario(t, scenario)
    BY <2>5, ScenarioReports
  <2>6. CASE \E t \in Transfer : RequeryTransfer(t)
    BY <2>6, RequeryReports
  <2>7. CASE \E in \in InboundEvents, delay \in Delays : ParseWebhook(in, delay)
    BY <2>7, ParseReports
  <2>8. CASE \E r \in ProviderReference : DelayElapses(r)
    BY <2>8, DelayReports
  <2> QED
    BY <2>0, <2>1, <2>2, <2>3, <2>4, <2>5, <2>6, <2>7, <2>8 DEF FlowNext
<1> QED
  BY <1>6, <1>7 DEF SInv

\* Where the references of outbound transfers are their own, held money goes or
\* comes back only as the provider reported of that very transfer, whatever
\* calls die, answers arrive late or events the provider remembers.
THEOREM HoldsEndAsReported ==
    ASSUME NEW CONSTANT own
    PROVE  FlowSpec /\ []NamesApart(own) => []SettledAsReported
<1>1. FlowInit => SInv(own)
  BY SettledInit
<1>2. /\ IInv /\ FInv /\ SInv(own) /\ NamesApart(own) /\ NamesApart(own)' /\ IInv'
      /\ [FlowNext]_flowVars
      => SInv(own)'
  BY SettledInvariance
<1>3. SInv(own) => SettledAsReported
  BY DEF SInv
<1> QED
  BY <1>1, <1>2, <1>3, FlowInvariant, PTL DEF FlowSpec

\* A service whose clients name no references of their own, so that every
\* outbound transfer goes by its idempotency key, and that gets no events is
\* such a case, without any assumption on its behaviour.
THEOREM HoldsEndAsReportedByKey ==
    ASSUME References = {}
    PROVE  FlowSpec => []SettledAsReported
<1>1. IInv /\ FInv => NamesApart(Keys)
  <2>1. SUFFICES ASSUME IInv, FInv PROVE NamesApart(Keys)
    OBVIOUS
  <2>2. \A t \in Existing :
           transfers[t].direction = "outbound"
             => transfers[t].reference = transfers[t].key /\ transfers[t].key \in Keys
    BY <2>1 DEF FInv, RowsNamed, Named
  <2>3. parsed = {}
    BY <2>1, InboundEventFacts DEF FInv, FlowTypeOK
  <2> QED
    BY <2>1, <2>2, <2>3 DEF NamesApart, IInv, KeyNamesOneTransfer
<1>2. FlowInit => SInv(Keys)
  BY SettledInit
<1>3. /\ IInv /\ FInv /\ SInv(Keys) /\ NamesApart(Keys) /\ NamesApart(Keys)' /\ IInv'
      /\ [FlowNext]_flowVars
      => SInv(Keys)'
  BY SettledInvariance
<1>4. SInv(Keys) => SettledAsReported
  BY DEF SInv
<1> QED
  BY <1>1, <1>2, <1>3, <1>4, FlowInvariant, PTL DEF FlowSpec

=============================================================================
