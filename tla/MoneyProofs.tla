---------------------------- MODULE MoneyProofs -----------------------------
(***************************************************************************)
(* Proofs about the money the transactions of TransferSpine move: ledger   *)
(* balances follow the journal, nobody overspends, blocked accounts keep   *)
(* their money, and the balances and statements add up; and TransferSpine  *)
(* implements MoneyMovement.                                               *)
(*                                                                         *)
(* Every step is first shown to be one of a few movements (Movement), each *)
(* with its effect on the tables and on both balance columns.  The         *)
(* theorems then need not look at the transactions again.                  *)
(***************************************************************************)
EXTENDS TransactionProofs, SumProofs

-----------------------------------------------------------------------------
(***************************************************************************)
(* The movements.                                                          *)
(***************************************************************************)
\* A row is opened, or an open one is replaced by the next state of the same
\* transfer.
Opens(t, row) ==
    /\ t \in Transfer /\ t = count + 1 /\ count' = t /\ row \in Row
    /\ transfers' = [transfers EXCEPT ![t] = row]
    /\ UNCHANGED <<lien, accountStatus>>

Replaces(t, row) ==
    /\ t \in Existing /\ IsOpen(t) /\ count' = count /\ row \in Row
    /\ row.account = transfers[t].account /\ row.amount = transfers[t].amount
    /\ row.direction = transfers[t].direction /\ row.reversalOf = NotReversal
    /\ transfers[t].reversalOf = NotReversal
    /\ transfers' = [transfers EXCEPT ![t] = row]
    /\ UNCHANGED <<lien, accountStatus>>

\* The balances move with an entry of the row, except that the available
\* balance of the account in held has moved before.
Posts(row, entry, held) ==
    /\ row.status = "succeeded"
    /\ entry \in Entry /\ entry.amount = row.amount /\ entry.debit # entry.credit
    /\ row.account \in {entry.debit, entry.credit}
    /\ ledger' = [a \in Accounts |-> ledger[a] + LedgerDelta(entry, a)]
    /\ available' = [a \in Accounts |->
                        available[a] + (IF a = held THEN 0 ELSE LedgerDelta(entry, a))]

\* No side of a posting is a frozen customer, and the debited one is under
\* post-no-debit only when somebody else's transfer is taken back from it.
Permitted(row, entry) ==
    /\ \A c \in Customers \cap {entry.debit, entry.credit} : accountStatus[c] # "frozen"
    /\ entry.debit \in Customers /\ accountStatus[entry.debit] = "post_no_debit"
           => row.reversalOf # NotReversal /\ row.account # entry.debit

CanAfford(a, n) == a \in Customers => available[a] >= n

StillBalances == UNCHANGED <<ledger, available, journal>>

Pays(t, row, entry) ==
    /\ Opens(t, row) /\ Posts(row, entry, Nil) /\ Permitted(row, entry)
    /\ journal' = [journal EXCEPT ![t] = <<entry>>] /\ hold' = hold
    /\ row.reversalOf = NotReversal
    /\ CanAfford(entry.debit, row.amount)

Undoes(t, row, entry) ==
    /\ Opens(t, row) /\ Posts(row, entry, Nil) /\ Permitted(row, entry)
    /\ journal' = [journal EXCEPT ![t] = <<entry>>] /\ hold' = hold
    /\ row.reversalOf # NotReversal /\ TakesBack(row, <<entry>>)
    /\ row.account = transfers[row.reversalOf].account
    /\ row.amount = transfers[row.reversalOf].amount

Promises(t, row) ==
    /\ Opens(t, row) /\ row.status = "pending"
    /\ row.reversalOf = NotReversal
    /\ CanAfford(row.account, row.amount)
    /\ hold' = [hold EXCEPT ![t] = "active"]
    /\ available' = [available EXCEPT ![row.account] = @ - row.amount]
    /\ UNCHANGED <<ledger, journal>>

\* A transfer that is expected, or one that failed at once.
Notes(t, row) ==
    /\ Opens(t, row) /\ row.status \in {"pending", "failed"} /\ row.reversalOf = NotReversal
    /\ StillBalances /\ hold' = hold

Fulfils(t, row, entry) ==
    /\ Replaces(t, row) /\ Permitted(row, entry)
    /\ journal' = [journal EXCEPT ![t] = <<entry>>]
    /\ \/ /\ hold[t] = "active" /\ hold' = [hold EXCEPT ![t] = "consumed"]
          /\ Posts(row, entry, row.account)
          /\ entry.debit = row.account
       \/ /\ hold[t] # "active" /\ hold' = hold
          /\ Posts(row, entry, Nil)
          /\ entry.credit = row.account /\ entry.debit \in Settlement

Breaks(t, row) ==
    /\ Replaces(t, row) /\ row.status = "failed"
    /\ \/ /\ hold[t] = "active" /\ hold' = [hold EXCEPT ![t] = "released"]
          /\ available' = [available EXCEPT ![row.account] = @ + row.amount]
       \/ hold[t] # "active" /\ UNCHANGED <<hold, available>>
    /\ UNCHANGED <<ledger, journal>>

Waits(t, row) ==
    Replaces(t, row) /\ row.status = "pending" /\ StillBalances /\ hold' = hold

NoRowMoves == UNCHANGED <<count, transfers, hold, journal, ledger>>

PlacesLien ==
    \E a \in Customers, r \in LienReferences, n \in Amounts : PlaceAccountLien(a, r, n)

ReleasesLien == \E r \in LienReferences : ReleaseAccountLien(r)

Rests == NoRowMoves /\ UNCHANGED <<available, lien>>

Movement ==
    \/ \E t \in Transfer, row \in Row, entry \in Entry : Pays(t, row, entry)
    \/ \E t \in Transfer, row \in Row, entry \in Entry : Undoes(t, row, entry)
    \/ \E t \in Transfer, row \in Row : Promises(t, row)
    \/ \E t \in Transfer, row \in Row : Notes(t, row)
    \/ \E t \in Transfer, row \in Row, entry \in Entry : Fulfils(t, row, entry)
    \/ \E t \in Transfer, row \in Row : Breaks(t, row)
    \/ \E t \in Transfer, row \in Row : Waits(t, row)
    \/ PlacesLien
    \/ ReleasesLien
    \/ Rests

-----------------------------------------------------------------------------
(***************************************************************************)
(* Every step is a movement.                                               *)
(***************************************************************************)
\* What the controls a request passed say of its entry.
LEMMA ControlsPermit ==
    ASSUME IInv, NEW in \in Request, EnforceTransferControls(in), NEW row,
           row.account = in.account, row.reversalOf = in.reversalOf,
           in.direction = "inbound" /\ in.reversalOf = NotReversal => in.clearing \in Settlement
    PROVE  Permitted(row, JournalEntry(in))
<1>1. in.account # in.clearing /\ in.direction \in {"inbound", "outbound"}
  BY DEF EnforceTransferControls, Request, Directions
<1>2. /\ in.account \in Customers =>
             /\ accountStatus[in.account] # "frozen"
             /\ accountStatus[in.account] = "post_no_debit" => in.direction # "outbound"
      /\ in.clearing \in Customers => accountStatus[in.clearing] # "frozen"
  BY DEF EnforceTransferControls, EnforcePrimaryAccountControls, EnforceCounterpartyAccountControls
<1>3. CASE in.direction = "outbound"
  <2>1. JournalEntry(in).debit = in.account /\ JournalEntry(in).credit = in.clearing
    BY <1>1, <1>3, JournalEntryFacts
  <2> QED
    BY <1>2, <1>3, <2>1 DEF Permitted
<1>4. CASE in.direction = "inbound"
  <2>1. JournalEntry(in).debit = in.clearing /\ JournalEntry(in).credit = in.account
    BY <1>1, <1>4, JournalEntryFacts
  <2> QED
    BY <1>1, <1>2, <1>4, <2>1, AccountsAssumption DEF Permitted
<1> QED
  BY <1>1, <1>3, <1>4

\* Posting a request's entry.
LEMMA PostingPosts ==
    ASSUME IInv, NEW t \in Transfer, NEW in \in Request, in.account # in.clearing, NEW held,
           PostJournal(t, in, held), NEW row, row.status = "succeeded",
           row.account = in.account, row.amount = in.amount
    PROVE  JournalEntry(in) \in Entry /\ Posts(row, JournalEntry(in), held)
<1>1. /\ JournalEntry(in) \in Entry /\ JournalEntry(in).amount = in.amount
      /\ in.account \in {JournalEntry(in).debit, JournalEntry(in).credit}
  BY PostJournalFacts
<1>2. JournalEntry(in).debit # JournalEntry(in).credit
  BY JournalEntryFacts
<1> QED
  BY <1>1, <1>2 DEF PostJournal, Posts


\* A request opens a row: it pays, promises, or only notes.
LEMMA CreationOpens ==
    ASSUME IInv, NEW in \in Request, in.providerStatus = in.status,
           in.reversalOf = NotReversal => in.reference \in BaseReference /\ Endorsed(in),
           in.reversalOf # NotReversal => in.status = "succeeded",
           CreateTransfer(in)
    PROVE  LET t == count + 1
               row == CreatedRow(in)
               entry == JournalEntry(in)
           IN  /\ Opens(t, row) /\ row.account = in.account /\ row.amount = in.amount
               /\ row.reversalOf = in.reversalOf /\ entry \in Entry
               /\ \/ /\ Posts(row, entry, Nil) /\ Permitted(row, entry)
                     /\ journal' = [journal EXCEPT ![t] = <<entry>>] /\ hold' = hold
                     /\ in.reversalOf = NotReversal => CanAfford(entry.debit, row.amount)
                  \/ Promises(t, row)
                  \/ Notes(t, row)
<1> DEFINE t == count + 1
           row == CreatedRow(in)
           entry == JournalEntry(in)
<1>1. /\ t \in Transfer /\ count' = t /\ transfers' = [transfers EXCEPT ![t] = row]
      /\ in.account # in.clearing
  BY CreationFacts
<1>2. /\ row \in Row /\ row.status = CreatedStatus(in)
      /\ row.account = in.account /\ row.amount = in.amount
  BY CreatedRowFacts
<1>3. row.reversalOf = in.reversalOf
  BY CreatedRowFields
<1>4. EnforceTransferControls(in) /\ UNCHANGED <<lien, accountStatus>>
  BY DEF CreateTransfer
<1>5. in.direction \in {"inbound", "outbound"} /\ in.account \in Accounts /\ entry \in Entry
  BY <1>1, JournalEntryFacts DEF Request, Directions
<1>6. in.reversalOf # NotReversal => CreatedStatus(in) = "succeeded"
  BY DEF CreatedStatus, EffectiveStatus, Insufficient, CustomerInitiatedOutbound
<1>7. ~Insufficient(in) /\ in.direction = "outbound" /\ in.reversalOf = NotReversal
          => CanAfford(in.account, in.amount)
  <2>1. \A a \in Customers : a \notin Settlement
    BY AccountsAssumption
  <2> QED
    BY <2>1 DEF Insufficient, CustomerInitiatedOutbound, CanUseAvailableBalance, CanAfford
<1> HIDE DEF row
<1>8. Opens(t, row)
  BY <1>1, <1>2, <1>4 DEF Opens
<1>9. CASE /\ CreatedStatus(in) = "succeeded" /\ ~Insufficient(in)
           /\ PostJournal(t, in, Nil) /\ hold' = hold
           /\ journal' = [journal EXCEPT ![t] = <<entry>>]
  <2>1. Posts(row, entry, Nil)
    BY <1>1, <1>2, <1>9, PostingPosts
  <2>2. Permitted(row, entry)
    BY <1>2, <1>3, <1>4, ControlsPermit DEF Endorsed
  <2>3. ASSUME in.reversalOf = NotReversal PROVE CanAfford(entry.debit, row.amount)
    <3>1. CASE in.direction = "outbound"
      BY <1>1, <1>2, <1>7, <1>9, <2>3, <3>1, JournalEntryFacts
    <3>2. CASE in.direction = "inbound"
      <4>1. entry.debit \in Settlement
        BY <1>1, <2>3, <3>2, JournalEntryFacts DEF Endorsed
      <4> QED
        BY <4>1, AccountsAssumption DEF CanAfford
    <3> QED
      BY <1>5, <3>1, <3>2
  <2> QED
    BY <1>2, <1>3, <1>5, <1>8, <1>9, <2>1, <2>2, <2>3 DEF row
<1>10. CASE /\ CreatedStatus(in) = "pending" /\ CustomerInitiatedOutbound(in) /\ ~Insufficient(in)
            /\ CreateHold(t, in) /\ ledger' = ledger /\ journal' = journal
  <2>1. Promises(t, row)
    <3>1. CanAfford(row.account, row.amount)
      BY <1>2, <1>7, <1>10 DEF CustomerInitiatedOutbound
    <3> QED
      BY <1>2, <1>3, <1>8, <1>10, <3>1 DEF Promises, CreateHold, CustomerInitiatedOutbound
  <2> QED
    BY <1>2, <1>3, <1>5, <1>8, <2>1 DEF row
<1>11. CASE /\ \/ CreatedStatus(in) = "failed"
               \/ CreatedStatus(in) = "pending" /\ ~CustomerInitiatedOutbound(in)
            /\ UNCHANGED <<ledger, available, hold, journal>>
  <2>1. Notes(t, row)
    BY <1>2, <1>3, <1>6, <1>8, <1>11 DEF Notes, StillBalances
  <2> QED
    BY <1>2, <1>3, <1>5, <1>8, <2>1 DEF row
<1>12. \/ /\ CreatedStatus(in) = "succeeded" /\ ~Insufficient(in)
          /\ PostJournal(t, in, Nil) /\ hold' = hold
          /\ journal' = [journal EXCEPT ![t] = <<entry>>]
       \/ /\ CreatedStatus(in) = "pending" /\ CustomerInitiatedOutbound(in) /\ ~Insufficient(in)
          /\ CreateHold(t, in) /\ ledger' = ledger /\ journal' = journal
       \/ /\ \/ CreatedStatus(in) = "failed"
             \/ CreatedStatus(in) = "pending" /\ ~CustomerInitiatedOutbound(in)
          /\ UNCHANGED <<ledger, available, hold, journal>>
  BY CreationFacts
<1> QED
  BY <1>9, <1>10, <1>11, <1>12

LEMMA CreationMoves ==
    ASSUME IInv, NEW in \in Requests, CreateTransfer(in)
    PROVE  Movement
<1>1. /\ in \in Request /\ in.providerStatus = in.status /\ in.reversalOf = NotReversal
      /\ in.reference \in BaseReference /\ Endorsed(in)
  BY RequestType, RequestsEndorsed DEF PlainRequest
<1> DEFINE t == count + 1
           row == CreatedRow(in)
           entry == JournalEntry(in)
<1>2. /\ Opens(t, row) /\ row.account = in.account /\ row.amount = in.amount
      /\ row.reversalOf = in.reversalOf /\ entry \in Entry
      /\ \/ /\ Posts(row, entry, Nil) /\ Permitted(row, entry)
            /\ journal' = [journal EXCEPT ![t] = <<entry>>] /\ hold' = hold
            /\ in.reversalOf = NotReversal => CanAfford(entry.debit, row.amount)
         \/ Promises(t, row)
         \/ Notes(t, row)
  BY <1>1, CreationOpens
<1> HIDE DEF row, entry
<1>3. t \in Transfer /\ row \in Row
  BY <1>2 DEF Opens
<1>4. Pays(t, row, entry) \/ Promises(t, row) \/ Notes(t, row)
  BY <1>1, <1>2 DEF Pays
<1> QED
  BY <1>2, <1>3, <1>4 DEF Movement

LEMMA ReversalMoves ==
    ASSUME RInv, NEW t \in Existing, NEW key \in Keys, NEW reference \in Optional(References),
           NEW event \in Optional(Events), NEW provider \in Providers,
           ReverseAs(t, key, reference, event, provider)
    PROVE  Movement
<1> DEFINE in == ReversalRequest(t, key, reference, event, provider)
           r == count + 1
           row == CreatedRow(in)
           entry == JournalEntry(in)
<1>0. IInv
  BY DEF RInv
<1>1. /\ in \in Request /\ in.status = "succeeded" /\ in.providerStatus = "succeeded"
      /\ in.reversalOf = t /\ t # NotReversal
      /\ in.account # in.clearing /\ in.account \in Customers
      /\ TakesBack(in, <<JournalEntry(in)>>)
      /\ Fresh(in) /\ CreateTransfer(in)
  BY ReversalTakesBack
<1>2. in.account = transfers[t].account /\ in.amount = transfers[t].amount
  BY DEF ReversalRequest
<1> HIDE DEF in
<1>3. /\ Opens(r, row) /\ row.account = in.account /\ row.amount = in.amount
      /\ row.reversalOf = in.reversalOf /\ entry \in Entry
      /\ \/ /\ Posts(row, entry, Nil) /\ Permitted(row, entry)
            /\ journal' = [journal EXCEPT ![r] = <<entry>>] /\ hold' = hold
            /\ in.reversalOf = NotReversal => CanAfford(entry.debit, row.amount)
         \/ Promises(r, row)
         \/ Notes(r, row)
  BY <1>0, <1>1, CreationOpens
<1>4. TakesBack(row, <<entry>>)
  BY <1>1, <1>3 DEF TakesBack
<1> HIDE DEF row, entry, r
<1>5. r \in Transfer /\ row \in Row
  BY <1>3 DEF Opens
<1>6. Undoes(r, row, entry)
  BY <1>1, <1>2, <1>3, <1>4 DEF Undoes, Promises, Notes
<1> QED
  BY <1>3, <1>5, <1>6 DEF Movement


\* A final answer fulfils the open transfer or breaks it.
LEMMA AnswerMoves ==
    ASSUME RInv, NEW t \in Existing, IsOpen(t), NEW in \in Request, in.reference \in BaseReference,
           in.direction = transfers[t].direction, in.account = transfers[t].account,
           in.amount = transfers[t].amount, in.reversalOf = NotReversal,
           in.direction = "inbound" => in.clearing \in Settlement,
           SettleMoney(t, in),
           count' = count, transfers' = [transfers EXCEPT ![t] = SettledRow(t, in)],
           UNCHANGED <<lien, accountStatus>>
    PROVE  Movement
<1> DEFINE row == SettledRow(t, in)
           entry == JournalEntry(in)
<1>0. IInv
  BY DEF RInv
<1>1. /\ t \in Transfer /\ transfers[t].status = "pending"
      /\ Consistent(transfers[t], hold[t], journal[t]) /\ Recorded(transfers[t], journal[t])
  BY <1>0, ExistingFacts DEF RInv, IsOpen
<1>2. transfers[t].reversalOf = NotReversal /\ transfers[t].direction # "reversal"
  BY <1>1 DEF Recorded, ReversalRow
<1>3. /\ row \in Row /\ row.status = in.status /\ row.account = in.account
      /\ row.amount = in.amount /\ row.direction = in.direction
  BY <1>0, SettledRowFacts
<1>4. row.reversalOf = NotReversal
  BY <1>0, <1>2, SettledRowFields
<1>5. in.direction \in {"inbound", "outbound"} /\ (hold[t] = "active" <=> in.direction = "outbound")
  BY <1>1 DEF Request, Directions, Consistent
<1> HIDE DEF row
<1>6. Replaces(t, row)
  BY <1>2, <1>3, <1>4 DEF Replaces, row
<1>7. CASE in.status = "succeeded"
  <2>1. /\ EnforceTransferControls(in) /\ in.account # in.clearing
        /\ \/ in.direction = "outbound" /\ PostJournal(t, in, in.account) /\ ConsumeHold(t)
           \/ in.direction = "inbound" /\ PostJournal(t, in, Nil) /\ hold' = hold
    BY <1>5, <1>7 DEF SettleMoney, EnforceTransferControls
  <2>2. journal' = [journal EXCEPT ![t] = <<entry>>]
    BY <1>0, <1>7, SettledJournal
  <2>3. Permitted(row, entry) /\ entry \in Entry
    BY <1>0, <1>3, <1>4, <2>1, ControlsPermit, JournalEntryFacts
  <2>4. CASE in.direction = "outbound" /\ PostJournal(t, in, in.account) /\ ConsumeHold(t)
    <3>1. Posts(row, entry, row.account)
      BY <1>0, <1>1, <1>3, <1>7, <2>1, <2>4, PostingPosts
    <3>2. entry.debit = row.account
      BY <1>3, <2>1, <2>4, JournalEntryFacts
    <3>3. Fulfils(t, row, entry)
      BY <1>6, <2>2, <2>3, <2>4, <3>1, <3>2 DEF Fulfils, ConsumeHold
    <3> QED
      BY <1>1, <1>3, <2>3, <3>3 DEF Movement
  <2>5. CASE in.direction = "inbound" /\ PostJournal(t, in, Nil) /\ hold' = hold
    <3>1. Posts(row, entry, Nil)
      BY <1>0, <1>1, <1>3, <1>7, <2>1, <2>5, PostingPosts
    <3>2. entry.credit = row.account /\ entry.debit \in Settlement
      BY <1>3, <2>1, <2>5, JournalEntryFacts
    <3>3. Fulfils(t, row, entry)
      BY <1>5, <1>6, <2>2, <2>3, <2>5, <3>1, <3>2 DEF Fulfils
    <3> QED
      BY <1>1, <1>3, <2>3, <3>3 DEF Movement
  <2> QED
    BY <2>1, <2>4, <2>5
<1>8. CASE in.status = "failed"
  <2>1. ReleaseHold(t) /\ UNCHANGED <<ledger, journal>>
    BY <1>8 DEF SettleMoney, NoPosting
  <2>2. Breaks(t, row)
    BY <1>3, <1>6, <1>8, <2>1 DEF Breaks, ReleaseHold
  <2> QED
    BY <1>1, <1>3, <2>2 DEF Movement
<1> QED
  BY <1>7, <1>8 DEF SettleMoney

LEMMA SettlesMoves ==
    ASSUME RInv, NEW t \in Existing, NEW in \in PlainRequest, Settles(t, in)
    PROVE  Movement
<1>1. /\ in \in Request /\ in.reference \in BaseReference /\ in.reversalOf = NotReversal
      /\ IsOpen(t) /\ in.direction = transfers[t].direction /\ in.account = transfers[t].account
      /\ in.amount = transfers[t].amount
  BY DEF PlainRequest, Settles
<1>2. /\ SettleMoney(t, in) /\ count' = count
      /\ transfers' = [transfers EXCEPT ![t] = SettledRow(t, in)]
      /\ UNCHANGED <<lien, accountStatus>>
  BY DEF Settles, SettlePendingTransfer
<1>3. in.direction = "inbound" => in.clearing \in Settlement
  <2>1. CASE in \in Requests
    BY <2>1, RequestsEndorsed DEF Endorsed
  <2>2. CASE in.clearing = DefaultSettlement
    BY <2>2, SpineAssumption
  <2> QED
    BY <2>1, <2>2 DEF Settles
<1> QED
  BY <1>1, <1>2, <1>3, AnswerMoves

\* A row that stays open moves nothing.
LEMMA WaitingMoves ==
    ASSUME IInv, NEW t \in Existing, NEW row, Replaces(t, row), row.status = "pending",
           UNCHANGED <<hold, available, ledger, journal>>
    PROVE  Movement
<1>1. t \in Transfer /\ row \in Row
  BY ExistingFacts DEF Replaces
<1>2. Waits(t, row)
  BY DEF Waits, StillBalances
<1> QED
  BY <1>1, <1>2 DEF Movement

LEMMA AnswersMoves ==
    ASSUME RInv, NEW t \in Existing, NEW reference \in BaseReference, NEW res \in ProviderResult,
           Answers(t, reference, res)
    PROVE  Movement
<1> DEFINE in == Completion(t, reference, res)
           row == SettledRow(t, in)
<1>0. IInv
  BY DEF RInv
<1>1. /\ IsOpen(t) /\ in \in Request /\ in.direction = "outbound"
      /\ in.direction = transfers[t].direction
      /\ in.account = transfers[t].account /\ in.amount = transfers[t].amount
      /\ in.reversalOf = NotReversal /\ in.reference \in BaseReference
      /\ \/ SettleMoney(t, in) /\ in.status # "pending"
         \/ in.status = "pending" /\ UNCHANGED <<hold, available, ledger, journal>>
      /\ transfers' = [transfers EXCEPT ![t] = row] /\ count' = count
      /\ UNCHANGED <<accountStatus, lien>>
  BY <1>0, AnswersFacts
<1> HIDE DEF in
<1>2. CASE SettleMoney(t, in)
  BY <1>1, <1>2, AnswerMoves
<1>3. CASE in.status = "pending" /\ UNCHANGED <<hold, available, ledger, journal>>
  <2>1. /\ row \in Row /\ row.status = "pending" /\ row.account = transfers[t].account
        /\ row.amount = transfers[t].amount /\ row.direction = transfers[t].direction
    BY <1>0, <1>1, <1>3, SettledRowFacts
  <2>2. transfers[t].reversalOf = NotReversal /\ row.reversalOf = NotReversal
    <3>1. Recorded(transfers[t], journal[t])
      BY DEF RInv
    <3>2. transfers[t].reversalOf = NotReversal
      BY <1>1, <3>1 DEF Recorded, ReversalRow, IsOpen
    <3> QED
      BY <1>0, <1>1, <3>2, SettledRowFields
  <2> HIDE DEF row
  <2>3. Replaces(t, row)
    BY <1>1, <2>1, <2>2 DEF Replaces
  <2> QED
    BY <1>0, <1>3, <2>1, <2>3, WaitingMoves
<1> QED
  BY <1>1, <1>2, <1>3

LEMMA StaysPendingMoves ==
    ASSUME RInv, NEW t \in Existing, NEW in \in Request, StaysPending(t, in)
    PROVE  Movement
<1> DEFINE old == transfers[t]
           row == [old EXCEPT
                      !.providerStatus = in.providerStatus,
                      !.ledgerStatus = "pending",
                      !.reconciliationStatus = ReconciliationStatusOf("pending", in.providerStatus)]
<1>0. IInv
  BY DEF RInv
<1>1. /\ transfers' = [transfers EXCEPT ![t] = row] /\ count' = count
      /\ UNCHANGED <<hold, available, ledger, journal, lien, accountStatus>>
      /\ old.status = "pending" /\ IsOpen(t)
      /\ in.providerStatus \in {"pending", "provider_unknown"}
  BY DEF StaysPending, UpdatePendingInbound, IsOpen
<1>2. old \in Row /\ Recorded(old, journal[t])
  BY <1>0, ExistingFacts DEF RInv
<1>3. ReconciliationStatusOf("pending", in.providerStatus)
          \in {"pending", "matched", "no_action", "manual_review"}
  BY <1>1, StatusFacts DEF ProviderStatuses, Statuses
<1>4. old.reversalOf = NotReversal
  BY <1>1, <1>2 DEF Recorded, ReversalRow
<1> HIDE DEF old
<1>5. row \in Row
  BY <1>1, <1>2, <1>3 DEF Row, ProviderStatuses, Statuses
<1>6. /\ row.status = old.status /\ row.direction = old.direction /\ row.amount = old.amount
      /\ row.account = old.account /\ row.reversalOf = old.reversalOf
  BY <1>2 DEF Row
<1> HIDE DEF row
<1>7. Replaces(t, row)
  BY <1>1, <1>4, <1>5, <1>6 DEF Replaces, old
<1> QED
  BY <1>0, <1>1, <1>6, <1>7, WaitingMoves

LEMMA ReviewsMoves ==
    ASSUME RInv, IInv', NEW in \in InboundEvents, NEW account \in Accounts, NEW reserve \in BOOLEAN,
           Reviews(in, account, reserve)
    PROVE  Movement
<1> DEFINE t == count + 1
           row == transfers'[t]
<1>0. IInv
  BY DEF RInv
<1>1. RecordReview(in, account, reserve) /\ count < MaxTransfers /\ count' = t
  BY DEF Reviews, RecordReview
<1>2. t \in Transfer /\ t \in Existing'
  BY <1>0, <1>1, NextSlotFacts, SpineAssumption DEF IInv, TypeOK, Existing
<1>3. /\ row.status = (IF in.status = "pending" THEN "pending" ELSE "failed")
      /\ row.reversalOf = NotReversal
      /\ transfers' = [transfers EXCEPT ![t] = row]
      /\ UNCHANGED <<ledger, available, hold, journal, lien, accountStatus>>
  BY <1>0, <1>1, <1>2 DEF RecordReview, Reviews, ReviewUnknownDestination, IInv, TypeOK
<1>4. row \in Row
  <2>1. transfers'[t] # NoRow /\ transfers' \in [Transfer -> Row \cup {NoRow}]
    BY <1>1, <1>2, SpineAssumption DEF IInv, TypeOK, Existing
  <2> QED
    BY <1>2, <2>1
<1> HIDE DEF row
<1>5. Notes(t, row)
  BY <1>1, <1>2, <1>3, <1>4 DEF Notes, Opens, StillBalances
<1> QED
  BY <1>2, <1>4, <1>5 DEF Movement

\* Every step moves money in one of these ways.
LEMMA Movements ==
    ASSUME RInv, IInv', [Next]_vars
    PROVE  Movement
<1>0. IInv /\ Transaction
  BY TransactionCases DEF RInv
<1>1. ASSUME NEW in \in Requests, CreatesTransfer(in), CreateTransfer(in) PROVE Movement
  BY <1>0, <1>1, CreationMoves
<1>2. ASSUME NEW t \in Existing, NEW key \in Keys, NEW reference \in Optional(References),
             NEW event \in Optional(Events), NEW provider \in Providers,
             ReverseAs(t, key, reference, event, provider)
      PROVE  Movement
  BY <1>2, ReversalMoves
<1>3. ASSUME NEW t \in Existing, NEW in \in PlainRequest, Settles(t, in) PROVE Movement
  BY <1>3, SettlesMoves
<1>4. ASSUME NEW t \in Existing, NEW reference \in BaseReference, NEW res \in ProviderResult,
             Answers(t, reference, res)
      PROVE  Movement
  BY <1>4, AnswersMoves
<1>5. ASSUME NEW t \in Existing, NEW in \in Request, StaysPending(t, in) PROVE Movement
  BY <1>5, StaysPendingMoves
<1>6. ASSUME NEW in \in InboundEvents, NEW account \in Accounts, NEW reserve \in BOOLEAN,
             Reviews(in, account, reserve)
      PROVE  Movement
  BY <1>6, ReviewsMoves
<1>7. CASE Controls
  BY <1>7 DEF Controls, FreezeAccount, UnfreezeAccount, ActivatePostNoDebit, DeactivatePostNoDebit,
              SetAccountStatus, PlacesLien, ReleasesLien, Rests, NoRowMoves, Movement
<1>8. CASE Idle
  BY <1>8 DEF Idle, Rests, NoRowMoves, Movement
<1> QED
  BY <1>0, <1>1, <1>2, <1>3, <1>4, <1>5, <1>6, <1>7, <1>8 DEF Transaction


-----------------------------------------------------------------------------
(***************************************************************************)
(* What one step may do to balances.                                       *)
(***************************************************************************)
\* An entry takes from one side what it gives to the other.
LEMMA DeltaFacts ==
    ASSUME NEW entry \in Entry, entry.debit # entry.credit, NEW a \in Accounts
    PROVE  /\ LedgerDelta(entry, a) \in Int /\ NetCredit(entry, a) \in Int
           /\ entry.amount \in Nat /\ entry.amount > 0
           /\ LedgerDelta(entry, a) = (IF a \in Customers THEN NetCredit(entry, a)
                                                          ELSE -NetCredit(entry, a))
           /\ NetCredit(entry, a) = (CASE a = entry.credit -> entry.amount
                                       [] a = entry.debit -> -entry.amount
                                       [] OTHER -> 0)
<1>0. entry.amount \in Amounts /\ entry.debit \in Accounts /\ entry.credit \in Accounts
  BY DEF Entry
<1>1. entry.amount \in Nat /\ entry.amount > 0
  BY <1>0, AmountFacts
<1>2. a \in Settlement <=> a \notin Customers
  BY AccountsAssumption DEF Accounts
<1>3. CASE a = entry.credit
  BY <1>1, <1>2, <1>3 DEF LedgerDelta, NetCredit
<1>4. CASE a = entry.debit
  BY <1>1, <1>2, <1>4 DEF LedgerDelta, NetCredit
<1>5. CASE a # entry.credit /\ a # entry.debit
  <2>1. LedgerDelta(entry, a) = 0 /\ NetCredit(entry, a) = 0
    <3>1. a \notin {entry.debit, entry.credit}
      BY <1>5
    <3> QED
      BY <3>1, <1>1, <1>5 DEF LedgerDelta, NetCredit
  <2>3. (CASE a = entry.credit -> entry.amount [] a = entry.debit -> -entry.amount [] OTHER -> 0) = 0
    BY <1>5
  <2> HIDE DEF LedgerDelta, NetCredit
  <2>2. -NetCredit(entry, a) = 0
    <3>1. \A n \in Int : -n = 0 - n
      OBVIOUS
    <3>2. NetCredit(entry, a) \in Int
      BY <2>1
    <3>3. -NetCredit(entry, a) = 0 - NetCredit(entry, a)
      BY <3>1, <3>2
    <3>4. 0 - NetCredit(entry, a) = 0
      BY <2>1
    <3> QED
      BY <3>3, <3>4, Zenon
  <2> QED
    BY <1>1, <2>1, <2>2, <2>3
<1> QED
  BY <1>3, <1>4, <1>5

LEMMA PostsFacts ==
    ASSUME IInv, NEW row \in Row, NEW entry \in Entry, NEW held, Posts(row, entry, held),
           NEW a \in Accounts
    PROVE  /\ ledger[a] \in Int /\ available[a] \in Int
           /\ ledger'[a] = ledger[a] + LedgerDelta(entry, a)
           /\ available'[a] = available[a] + (IF a = held THEN 0 ELSE LedgerDelta(entry, a))
BY DEF Posts, IInv, TypeOK

\* A row that is opened, or open, has no entry yet.
LEMMA NoEntryBefore ==
    ASSUME IInv, NEW t \in Transfer, t = count + 1 \/ (t \in Existing /\ IsOpen(t))
    PROVE  journal[t] = <<>>
<1>1. CASE t = count + 1
  <2>1. t > count
    BY <1>1, SpineAssumption DEF IInv, TypeOK
  <2> QED
    BY <2>1 DEF IInv, UnusedSlotsAreBlank
<1>2. CASE t \in Existing /\ IsOpen(t)
  <2>1. journal[t] \in Seq(Entry) /\ Len(journal[t]) = 0
    BY <1>2, ExistingFacts DEF Consistent, IsOpen
  <2> QED
    BY <2>1
<1> QED
  BY <1>1, <1>2

\* Only customers' transfers are held for.
LEMMA HolderIsCustomer ==
    RInv => \A t \in Existing : hold[t] = "active" => transfers[t].account \in Customers
<1> SUFFICES ASSUME RInv, NEW t \in Existing, hold[t] = "active"
             PROVE  transfers[t].account \in Customers
  OBVIOUS
<1>1. Consistent(transfers[t], hold[t], journal[t]) /\ Recorded(transfers[t], journal[t])
  BY DEF RInv, IInv
<1> QED
  BY <1>1 DEF Consistent, Recorded, OpenAtProvider

\* A step posts one entry to a row that had none, or posts nothing.
LEMMA Postings ==
    ASSUME RInv, IInv', [Next]_vars
    PROVE  \/ UNCHANGED <<ledger, journal>>
           \/ \E t \in Transfer, row \in Row, entry \in Entry, held \in Optional(Accounts) :
                 /\ Posts(row, entry, held) /\ Permitted(row, entry)
                 /\ journal[t] = <<>> /\ journal' = [journal EXCEPT ![t] = <<entry>>]
                 /\ count' > count \/ row.reversalOf = NotReversal
                 /\ transfers'[t] = row /\ (count' > count => t = count')
<1>0. IInv /\ Movement /\ count \in Nat
  BY Movements, SpineAssumption DEF RInv, IInv, TypeOK
<1>1. ASSUME NEW t \in Transfer, NEW row, Opens(t, row) \/ Replaces(t, row)
      PROVE  /\ transfers'[t] = row /\ journal[t] = <<>> /\ row \in Row
             /\ count' > count \/ row.reversalOf = NotReversal
             /\ count' > count => t = count'
  BY <1>0, <1>1, NoEntryBefore DEF Opens, Replaces, IInv, TypeOK
<1>2. ASSUME NEW t \in Transfer, NEW row \in Row, NEW entry \in Entry,
             Pays(t, row, entry) \/ Undoes(t, row, entry)
      PROVE  \E held \in Optional(Accounts) :
                 /\ Posts(row, entry, held) /\ Permitted(row, entry)
                 /\ journal[t] = <<>> /\ journal' = [journal EXCEPT ![t] = <<entry>>]
                 /\ count' > count \/ row.reversalOf = NotReversal
                 /\ transfers'[t] = row /\ (count' > count => t = count')
  BY <1>1, <1>2 DEF Pays, Undoes, Optional
<1>3. ASSUME NEW t \in Transfer, NEW row \in Row, NEW entry \in Entry, Fulfils(t, row, entry)
      PROVE  \E held \in Optional(Accounts) :
                 /\ Posts(row, entry, held) /\ Permitted(row, entry)
                 /\ journal[t] = <<>> /\ journal' = [journal EXCEPT ![t] = <<entry>>]
                 /\ count' > count \/ row.reversalOf = NotReversal
                 /\ transfers'[t] = row /\ (count' > count => t = count')
  BY <1>1, <1>3 DEF Fulfils, Optional, Row
<1>4. CASE \/ \E t \in Transfer, row \in Row : Promises(t, row) \/ Notes(t, row)
           \/ \E t \in Transfer, row \in Row : Breaks(t, row) \/ Waits(t, row)
           \/ PlacesLien \/ ReleasesLien \/ Rests
  BY <1>4 DEF Promises, Notes, Breaks, Waits, StillBalances, PlacesLien, ReleasesLien, Rests, NoRowMoves,
              PlaceAccountLien, ReleaseAccountLien
<1> QED
  BY <1>0, <1>2, <1>3, <1>4 DEF Movement

\* Balances move with the journal, entry by entry.
THEOREM LedgerWithJournal == Spec => LedgerFollowsJournal
<1> DEFINE Made == {JournalEntry([account |-> a, clearing |-> b, amount |-> n,
                                  direction |-> "outbound"]) : a, b \in Accounts, n \in Amounts}
           Follows ==
             \/ UNCHANGED <<ledger, journal>>
             \/ \E t \in Transfer : \E entry \in Made :
                   /\ journal' = [journal EXCEPT ![t] = Append(@, entry)]
                   /\ \A a \in Accounts :
                         ledger'[a] = ledger[a] + (IF a \in Customers THEN NetCredit(entry, a)
                                                                      ELSE -NetCredit(entry, a))
<1>1. ASSUME RInv, IInv', [Next]_vars PROVE Follows
  <2>0. IInv
    BY <1>1 DEF RInv
  <2>1. CASE UNCHANGED <<ledger, journal>>
    BY <2>1
  <2>2. ASSUME NEW t \in Transfer, NEW row \in Row, NEW entry \in Entry,
               NEW held \in Optional(Accounts), Posts(row, entry, held),
               journal[t] = <<>>, journal' = [journal EXCEPT ![t] = <<entry>>]
        PROVE  Follows
    <3>1. journal' = [journal EXCEPT ![t] = Append(@, entry)]
      <4>1. Append(<<>>, entry) = <<entry>>
        OBVIOUS
      <4> QED
        BY <2>0, <2>2, <4>1 DEF IInv, TypeOK
    <3>2. entry \in Made
      <4>1. /\ entry.debit \in Accounts /\ entry.credit \in Accounts /\ entry.amount \in Amounts
            /\ entry = [debit |-> entry.debit, credit |-> entry.credit, amount |-> entry.amount]
        BY DEF Entry
      <4>2. entry = JournalEntry([account |-> entry.debit, clearing |-> entry.credit,
                                  amount |-> entry.amount, direction |-> "outbound"])
        BY <4>1 DEF JournalEntry
      <4> QED
        BY <4>1, <4>2
    <3>3. \A a \in Accounts :
              ledger'[a] = ledger[a] + (IF a \in Customers THEN NetCredit(entry, a)
                                                           ELSE -NetCredit(entry, a))
      <4>1. entry.debit # entry.credit
        BY <2>2 DEF Posts
      <4> QED
        BY <2>0, <2>2, <4>1, PostsFacts, DeltaFacts
    <3> HIDE DEF Made
    <3> QED
      BY <3>1, <3>2, <3>3
  <2> HIDE DEF Follows
  <2> QED
    BY <1>1, <2>1, <2>2, Postings
<1> HIDE DEF Follows
<1>2. RInv /\ RInv' /\ [Next]_vars => Follows
  BY <1>1 DEF RInv
<1> USE DEF Follows
<1> QED
  BY <1>2, RecordsInvariance, PTL DEF Spec, LedgerFollowsJournal, RInv

\* Blocked accounts keep their money.
THEOREM BlockedKeepMoney == Spec => BlockedAccountsKeepTheirMoney
<1> DEFINE Kept ==
        \A c \in Customers :
          /\ accountStatus[c] = "frozen" => ledger'[c] = ledger[c]
          /\ accountStatus[c] = "post_no_debit" /\ ledger'[c] < ledger[c]
                 => /\ count' > count
                    /\ transfers'[count'].reversalOf # NotReversal
                    /\ transfers'[count'].account # c
<1>1. ASSUME RInv, IInv', [Next]_vars PROVE Kept
  <2>0. IInv /\ Customers \subseteq Accounts /\ \A a \in Accounts : ledger[a] \in Int
    BY <1>1 DEF RInv, IInv, TypeOK, Accounts
  <2>1. CASE UNCHANGED <<ledger, journal>>
    BY <2>0, <2>1
  <2>2. ASSUME NEW t \in Transfer, NEW row \in Row, NEW entry \in Entry,
               NEW held \in Optional(Accounts), Posts(row, entry, held), Permitted(row, entry),
               count' > count \/ row.reversalOf = NotReversal,
               transfers'[t] = row, count' > count => t = count'
        PROVE  Kept
    <3>1. entry.debit # entry.credit
      BY <2>2 DEF Posts
    <3>2. ASSUME NEW c \in Customers
          PROVE  /\ accountStatus[c] = "frozen" => ledger'[c] = ledger[c]
                 /\ ledger'[c] < ledger[c] => c = entry.debit
      <4>1. /\ ledger'[c] = ledger[c] + LedgerDelta(entry, c) /\ ledger[c] \in Int
            /\ LedgerDelta(entry, c) = NetCredit(entry, c)
            /\ NetCredit(entry, c) = (CASE c = entry.credit -> entry.amount
                                        [] c = entry.debit -> -entry.amount
                                        [] OTHER -> 0)
            /\ entry.amount \in Nat /\ entry.amount > 0
        BY <2>0, <2>2, <3>1, PostsFacts, DeltaFacts
      <4>2. accountStatus[c] = "frozen" => c # entry.debit /\ c # entry.credit
        BY <2>2 DEF Permitted
      <4> QED
        BY <4>1, <4>2
    <3> QED
      BY <2>2, <3>2 DEF Permitted
  <2> HIDE DEF Kept
  <2> QED
    BY <1>1, <2>1, <2>2, Postings
<1>2. RInv /\ RInv' /\ [Next]_vars => Kept
  BY <1>1 DEF RInv
<1> QED
  BY <1>2, RecordsInvariance, PTL DEF Spec, BlockedAccountsKeepTheirMoney, RInv

\* What a posting does to a customer.
LEMMA CustomerPosting ==
    ASSUME IInv, NEW row \in Row, NEW entry \in Entry, NEW held, Posts(row, entry, held),
           NEW c \in Customers
    PROVE  /\ available[c] \in Int /\ available'[c] \in Int
           /\ entry.amount \in Nat /\ entry.amount > 0
           /\ c # entry.debit => available'[c] >= available[c]
           /\ c = entry.debit => available'[c] = available[c] - (IF c = held THEN 0 ELSE entry.amount)
<1>1. c \in Accounts /\ entry.debit # entry.credit
  BY DEF Accounts, Posts
<1>2. /\ available'[c] = available[c] + (IF c = held THEN 0 ELSE LedgerDelta(entry, c))
      /\ available[c] \in Int /\ LedgerDelta(entry, c) = NetCredit(entry, c)
      /\ NetCredit(entry, c) = (CASE c = entry.credit -> entry.amount
                                  [] c = entry.debit -> -entry.amount
                                  [] OTHER -> 0)
      /\ entry.amount \in Nat /\ entry.amount > 0
  BY <1>1, PostsFacts, DeltaFacts
<1>3. CASE c = entry.debit
  BY <1>1, <1>2, <1>3
<1>4. CASE c = entry.credit
  BY <1>1, <1>2, <1>4
<1>5. CASE c # entry.debit /\ c # entry.credit
  BY <1>1, <1>2, <1>5
<1> QED
  BY <1>3, <1>4, <1>5

\* Nobody spends what he does not have, but by a reversal.
THEOREM NobodyOverspends == Spec => NoOverspend
<1> DEFINE Afforded ==
        \A c \in Customers :
          available'[c] < available[c] /\ available'[c] < 0
              => count' > count /\ transfers'[count'].reversalOf # NotReversal
<1>1. ASSUME RInv, IInv', [Next]_vars PROVE Afforded
  <2>a. IInv /\ Movement
    BY <1>1, Movements DEF RInv
  <2>b. /\ available \in [Accounts -> Int] /\ transfers \in [Transfer -> Row \cup {NoRow}]
        /\ count \in Nat
    BY <2>a, SpineAssumption DEF IInv, TypeOK
  <2>0. /\ IInv /\ Movement /\ Customers \subseteq Accounts
        /\ available \in [Accounts -> Int] /\ transfers \in [Transfer -> Row \cup {NoRow}]
        /\ count \in Nat
    BY <2>a, <2>b DEF Accounts
  <2>1. \A c \in Customers : c \in Accounts /\ available[c] \in Int /\ c \notin Settlement
    BY <2>0, AccountsAssumption
  <2>c. ASSUME NEW row \in Row, NEW entry \in Entry, NEW held, Posts(row, entry, held),
               CanAfford(entry.debit, entry.amount) \/ held = entry.debit
        PROVE  Afforded
    <3>1. ASSUME NEW c \in Customers, available'[c] < available[c] PROVE ~(available'[c] < 0)
      <4>1. /\ available[c] \in Int /\ available'[c] \in Int
            /\ entry.amount \in Nat /\ c = entry.debit
            /\ available'[c] = available[c] - (IF c = held THEN 0 ELSE entry.amount)
        BY <2>0, <2>b, <2>c, <3>1, CustomerPosting
      <4>2. c # held
        BY <3>1, <4>1
      <4>3. available[c] >= entry.amount
        BY <2>c, <4>1, <4>2 DEF CanAfford
      <4> QED
        BY <4>1, <4>2, <4>3
    <3> QED
      BY <3>1
  <2>2. ASSUME NEW t \in Transfer, NEW row \in Row, NEW entry \in Entry, Pays(t, row, entry)
        PROVE  Afforded
    <3>1. Posts(row, entry, Nil) /\ CanAfford(entry.debit, row.amount) /\ row.amount = entry.amount
      BY <2>2 DEF Pays, Posts
    <3> QED
      BY <2>c, <3>1
  <2>3. ASSUME NEW t \in Transfer, NEW row \in Row, NEW entry \in Entry, Undoes(t, row, entry)
        PROVE  Afforded
    <3>1. count' = t /\ count' > count /\ transfers'[t] = row /\ row.reversalOf # NotReversal
      BY <2>0, <2>3 DEF Undoes, Opens
    <3> QED
      BY <3>1
  <2>4. ASSUME NEW t \in Transfer, NEW row \in Row, Promises(t, row)
        PROVE  Afforded
    <3>1. row.account \in Accounts /\ row.amount \in Amounts
      BY DEF Row
    <3>2. /\ available' = [available EXCEPT ![row.account] = @ - row.amount]
          /\ CanAfford(row.account, row.amount) /\ row.amount \in Nat
      BY <2>4, <3>1, AmountFacts DEF Promises
    <3> QED
      BY <2>0, <2>1, <3>1, <3>2 DEF CanAfford
  <2>5. ASSUME NEW t \in Transfer, NEW row \in Row, Notes(t, row) \/ Waits(t, row)
        PROVE  Afforded
    BY <2>1, <2>5 DEF Notes, Waits, StillBalances
  <2>6. ASSUME NEW t \in Transfer, NEW row \in Row, NEW entry \in Entry, Fulfils(t, row, entry)
        PROVE  Afforded
    <3>1. CASE Posts(row, entry, row.account) /\ entry.debit = row.account
      BY <2>c, <3>1
    <3>2. CASE Posts(row, entry, Nil) /\ entry.debit \in Settlement
      BY <2>1, <2>c, <3>2 DEF CanAfford
    <3> QED
      BY <2>6, <3>1, <3>2 DEF Fulfils
  <2>7. ASSUME NEW t \in Transfer, NEW row \in Row, Breaks(t, row)
        PROVE  Afforded
    <3>1. row.account \in Accounts /\ row.amount \in Amounts
      BY DEF Row
    <3>2. row.amount \in Nat
      BY <3>1, AmountFacts
    <3>3. \/ available' = [available EXCEPT ![row.account] = @ + row.amount]
          \/ available' = available
      BY <2>7 DEF Breaks
    <3> QED
      BY <2>0, <2>1, <3>1, <3>2, <3>3
  <2>8. CASE PlacesLien
    <3>1. PICK a \in Customers, r \in LienReferences, n \in Amounts : PlaceAccountLien(a, r, n)
      BY <2>8 DEF PlacesLien
    <3>2. available[a] >= n /\ available' = [available EXCEPT ![a] = @ - n] /\ n \in Nat
      BY <3>1, AmountFacts DEF PlaceAccountLien
    <3> QED
      BY <2>0, <2>1, <3>1, <3>2
  <2>9. CASE ReleasesLien
    <3>1. PICK r \in LienReferences : ReleaseAccountLien(r)
      BY <2>9 DEF ReleasesLien
    <3>2. lien[r].account \in Customers /\ lien[r].amount \in Amounts
      BY <2>0, <3>1 DEF ReleaseAccountLien, IInv, TypeOK
    <3>3. available' = [available EXCEPT ![lien[r].account] = @ + lien[r].amount] /\ lien[r].amount \in Nat
      BY <3>1, <3>2, AmountFacts DEF ReleaseAccountLien
    <3> QED
      BY <2>0, <2>1, <3>2, <3>3
  <2>10. CASE Rests
    BY <2>1, <2>10 DEF Rests
  <2> HIDE DEF Afforded
  <2> QED
    BY <2>0, <2>2, <2>3, <2>4, <2>5, <2>6, <2>7, <2>8, <2>9, <2>10 DEF Movement
<1> HIDE DEF Afforded
<1>2. RInv /\ RInv' /\ [Next]_vars => Afforded
  BY <1>1 DEF RInv
<1> USE DEF Afforded
<1> QED
  BY <1>2, RecordsInvariance, PTL DEF Spec, NoOverspend, RInv

-----------------------------------------------------------------------------
(***************************************************************************)
(* The balances add up: the available balance to the ledger less holds and *)
(* liens, the ledger to its postings, and every statement to the ledger.   *)
(*                                                                         *)
(* A movement changes one element of each sum, and SumProofs says what     *)
(* that does to the sum.  Sums range over the bounded set of transfers and *)
(* over LienReferences, which therefore has to be finite: references are   *)
(* texts of bounded length.                                                *)
(***************************************************************************)
LEMMA TransferFinite == IsFiniteSet(Transfer)
BY SpineAssumption, FS_Interval DEF Transfer

-----------------------------------------------------------------------------
(***************************************************************************)
(* Holds and liens.                                                        *)
(***************************************************************************)
HeldBy(t, a) ==
    IF hold[t] = "active" /\ transfers[t].account = a THEN transfers[t].amount ELSE 0

LienOn(r, a) == IF lien[r].account = a THEN lien[r].amount ELSE 0

LEMMA HeldIsSum ==
    ASSUME NEW a
    PROVE  Held(a) = SumFunctionOnSet([t \in Transfer |-> HeldBy(t, a)], Transfer)
                       + SumFunctionOnSet([r \in LienReferences |-> LienOn(r, a)], LienReferences)
BY DEF Held, SumFunction, HeldBy, LienOn

HeldTyped ==
    \A a \in Accounts :
        /\ \A t \in Transfer : HeldBy(t, a) \in Int
        /\ \A r \in LienReferences : LienOn(r, a) \in Int
        /\ available[a] \in Int /\ ledger[a] \in Int

LEMMA HeldTypes == IInv => HeldTyped
<1>0. SUFFICES ASSUME IInv, NEW a \in Accounts
               PROVE  /\ \A t \in Transfer : HeldBy(t, a) \in Int
                      /\ \A r \in LienReferences : LienOn(r, a) \in Int
                      /\ available[a] \in Int /\ ledger[a] \in Int
  BY DEF HeldTyped
<1>1. available[a] \in Int /\ ledger[a] \in Int
  BY <1>0 DEF IInv, TypeOK
<1>2. ASSUME NEW t \in Transfer PROVE HeldBy(t, a) \in Int
  <2>1. CASE hold[t] = "active"
    <3>1. t \in Existing
      BY <1>0, <2>1, SpineAssumption DEF IInv, UnusedSlotsAreBlank, TypeOK, Existing, Transfer
    <3>2. transfers[t].amount \in Amounts
      BY <1>0, <3>1, ExistingFacts DEF Row
    <3> QED
      BY <3>2, AmountFacts DEF HeldBy
  <2> QED
    BY <2>1 DEF HeldBy
<1>3. ASSUME NEW r \in LienReferences PROVE LienOn(r, a) \in Int
  <2>1. lien[r] \in [account: Customers, amount: Amounts] \cup {NoLien}
    BY <1>0 DEF IInv, TypeOK
  <2>2. lien[r].amount \in Amounts \/ lien[r].amount = 0
    BY <2>1 DEF NoLien
  <2> QED
    BY <2>2, AmountFacts DEF LienOn
<1> QED
  BY <1>1, <1>2, <1>3

LEMMA HeldTypesNext == IInv' => HeldTyped'
BY HeldTypes, PTL

\* What is free, beside what is held for transfer t, stays.
Rearranges(t) ==
    /\ lien' = lien
    /\ \A u \in Transfer, a \in Accounts : u # t => HeldBy(u, a)' = HeldBy(u, a)
    /\ \A a \in Accounts :
          available'[a] - ledger'[a] = available[a] - ledger[a] + HeldBy(t, a) - HeldBy(t, a)'

\* The same with the money a lien sets aside.
SetsAside(r) ==
    /\ \A u \in Transfer, a \in Accounts : HeldBy(u, a)' = HeldBy(u, a)
    /\ \A q \in LienReferences, a \in Accounts : q # r => LienOn(q, a)' = LienOn(q, a)
    /\ \A a \in Accounts :
          available'[a] - ledger'[a] = available[a] - ledger[a] + LienOn(r, a) - LienOn(r, a)'

\* The holds of other transfers do not change with the row that is written.
LEMMA OtherHolds ==
    ASSUME IInv, NEW t \in Transfer, NEW row \in Row, Opens(t, row) \/ Replaces(t, row),
           NEW h \in HoldStatus, hold' = [hold EXCEPT ![t] = h]
    PROVE  /\ \A u \in Transfer, a \in Accounts : u # t => HeldBy(u, a)' = HeldBy(u, a)
           /\ \A a \in Accounts : HeldBy(t, a)' = (IF h = "active" /\ row.account = a
                                                   THEN row.amount ELSE 0)
<1>1. transfers' = [transfers EXCEPT ![t] = row] /\ DOMAIN transfers = Transfer /\ DOMAIN hold = Transfer
  BY DEF Opens, Replaces, IInv, TypeOK
<1>2. /\ hold'[t] = h /\ transfers'[t] = row
      /\ \A u \in Transfer : u # t => hold'[u] = hold[u] /\ transfers'[u] = transfers[u]
  BY <1>1
<1> QED
  BY <1>2 DEF HeldBy

\* Both columns move alike, but for an account that was debited before.
LEMMA PostingSpread ==
    ASSUME IInv, NEW row \in Row, NEW entry \in Entry, NEW held, Posts(row, entry, held),
           NEW a \in Accounts
    PROVE  available'[a] - ledger'[a] = available[a] - ledger[a]
                                          - (IF a = held THEN LedgerDelta(entry, a) ELSE 0)
<1>1. /\ ledger[a] \in Int /\ available[a] \in Int
      /\ ledger'[a] = ledger[a] + LedgerDelta(entry, a)
      /\ available'[a] = available[a] + (IF a = held THEN 0 ELSE LedgerDelta(entry, a))
  BY PostsFacts
<1>2. LedgerDelta(entry, a) \in Int
  BY DeltaFacts DEF Posts
<1> HIDE DEF LedgerDelta
<1>3. CASE a = held
  BY <1>1, <1>2, <1>3
<1>4. CASE a # held
  BY <1>1, <1>2, <1>4
<1> QED
  BY <1>3, <1>4

LEMMA OpeningRearranges ==
    ASSUME RInv, NEW t \in Transfer, NEW row \in Row,
           \/ \E entry \in Entry : Pays(t, row, entry) \/ Undoes(t, row, entry)
           \/ Notes(t, row)
           \/ Promises(t, row)
    PROVE  Rearranges(t)
<1>1. IInv /\ Opens(t, row) /\ lien' = lien /\ hold[t] = "none" /\ Nil \notin Accounts
  <2>1. IInv /\ Opens(t, row)
    BY DEF RInv, Pays, Undoes, Notes, Promises
  <2>2. t = count + 1 /\ count \in Nat
    BY <2>1, SpineAssumption DEF IInv, TypeOK, Opens
  <2>3. hold[t] = "none"
    BY <2>1, <2>2 DEF IInv, UnusedSlotsAreBlank
  <2> QED
    BY <2>1, <2>3, SpineAssumption DEF Opens
<1>2. /\ \A a \in Accounts : HeldBy(t, a) = 0 /\ available[a] \in Int /\ ledger[a] \in Int
      /\ hold \in [Transfer -> HoldStatus]
  BY <1>1 DEF HeldBy, IInv, TypeOK, HoldStatus
<1>3. ASSUME hold' = hold,
             \A a \in Accounts : available'[a] - ledger'[a] = available[a] - ledger[a]
      PROVE  Rearranges(t)
  <2>1. hold' = [hold EXCEPT ![t] = "none"] /\ "none" \in HoldStatus
    BY <1>1, <1>2, <1>3 DEF HoldStatus
  <2>2. /\ \A u \in Transfer, a \in Accounts : u # t => HeldBy(u, a)' = HeldBy(u, a)
        /\ \A a \in Accounts : HeldBy(t, a)' = 0
    BY <1>1, <2>1, OtherHolds
  <2>3. ASSUME NEW a \in Accounts
        PROVE  available'[a] - ledger'[a] = available[a] - ledger[a] + HeldBy(t, a) - HeldBy(t, a)'
    BY <1>2, <1>3, <2>2
  <2> QED
    BY <1>1, <2>2, <2>3 DEF Rearranges
<1>4. ASSUME NEW entry \in Entry, Pays(t, row, entry) \/ Undoes(t, row, entry)
      PROVE  Rearranges(t)
  <2>1. ASSUME NEW a \in Accounts PROVE available'[a] - ledger'[a] = available[a] - ledger[a]
    <3>1. available'[a] - ledger'[a] = available[a] - ledger[a]
                                          - (IF a = Nil THEN LedgerDelta(entry, a) ELSE 0)
      BY <1>1, <1>4, PostingSpread DEF Pays, Undoes
    <3>2. a # Nil
      BY <1>1
    <3> QED
      BY <1>2, <3>1, <3>2
  <2> QED
    BY <1>3, <1>4, <2>1 DEF Pays, Undoes
<1>5. CASE Notes(t, row)
  BY <1>2, <1>3, <1>5 DEF Notes, StillBalances
<1>6. CASE Promises(t, row)
  <2>1. hold' = [hold EXCEPT ![t] = "active"] /\ "active" \in HoldStatus
    BY <1>6 DEF Promises, HoldStatus
  <2>2. /\ \A u \in Transfer, a \in Accounts : u # t => HeldBy(u, a)' = HeldBy(u, a)
        /\ \A a \in Accounts : HeldBy(t, a)' = (IF row.account = a THEN row.amount ELSE 0)
    BY <1>1, <2>1, OtherHolds
  <2>3. row.account \in Accounts /\ row.amount \in Nat
    BY AmountFacts DEF Row
  <2>4. ASSUME NEW a \in Accounts
        PROVE  available'[a] - ledger'[a] = available[a] - ledger[a] + HeldBy(t, a) - HeldBy(t, a)'
    <3>1. /\ ledger'[a] = ledger[a]
          /\ available'[a] = (IF row.account = a THEN available[a] - row.amount ELSE available[a])
      BY <1>1, <1>6 DEF Promises, IInv, TypeOK
    <3> QED
      BY <1>2, <2>2, <2>3, <3>1
  <2> QED
    BY <1>1, <2>2, <2>4 DEF Rearranges
<1> QED
  BY <1>4, <1>5, <1>6

LEMMA EndingRearranges ==
    ASSUME RInv, NEW t \in Transfer, NEW row \in Row,
           \/ \E entry \in Entry : Fulfils(t, row, entry)
           \/ Breaks(t, row)
           \/ Waits(t, row)
    PROVE  Rearranges(t)
<1>1. IInv /\ Replaces(t, row) /\ lien' = lien /\ t \in Existing /\ Nil \notin Accounts
  BY SpineAssumption DEF RInv, Fulfils, Breaks, Waits, Replaces
<1>2. /\ row.account = transfers[t].account /\ row.amount = transfers[t].amount
      /\ row.account \in Accounts /\ row.amount \in Amounts /\ row.amount \in Nat
      /\ hold \in [Transfer -> HoldStatus]
  BY <1>1, AmountFacts DEF Replaces, Row, IInv, TypeOK, HoldStatus
<1>3. \A a \in Accounts :
          /\ HeldBy(t, a) = (IF hold[t] = "active" /\ row.account = a THEN row.amount ELSE 0)
          /\ available[a] \in Int /\ ledger[a] \in Int
  BY <1>1, <1>2 DEF HeldBy, IInv, TypeOK
<1>4. ASSUME NEW h \in HoldStatus, hold' = [hold EXCEPT ![t] = h]
      PROVE  /\ \A u \in Transfer, a \in Accounts : u # t => HeldBy(u, a)' = HeldBy(u, a)
             /\ \A a \in Accounts : HeldBy(t, a)' = (IF h = "active" /\ row.account = a
                                                     THEN row.amount ELSE 0)
  BY <1>1, <1>4, OtherHolds
<1>5. ASSUME hold' = hold,
             \A a \in Accounts : available'[a] - ledger'[a] = available[a] - ledger[a]
      PROVE  Rearranges(t)
  <2>1. hold' = [hold EXCEPT ![t] = hold[t]] /\ hold[t] \in HoldStatus
    BY <1>2, <1>5
  <2>2. /\ \A u \in Transfer, a \in Accounts : u # t => HeldBy(u, a)' = HeldBy(u, a)
        /\ \A a \in Accounts : HeldBy(t, a)' = HeldBy(t, a) /\ HeldBy(t, a) \in Int
    <3>1. /\ \A u \in Transfer, a \in Accounts : u # t => HeldBy(u, a)' = HeldBy(u, a)
          /\ \A a \in Accounts : HeldBy(t, a)' = (IF hold[t] = "active" /\ row.account = a
                                                  THEN row.amount ELSE 0)
      BY <1>4, <2>1
    <3> QED
      BY <1>2, <1>3, <3>1
  <2>3. ASSUME NEW a \in Accounts
        PROVE  available'[a] - ledger'[a] = available[a] - ledger[a] + HeldBy(t, a) - HeldBy(t, a)'
    BY <1>3, <1>5, <2>2
  <2> QED
    BY <1>1, <2>2, <2>3 DEF Rearranges
<1>6. ASSUME NEW h \in {"consumed", "released"}, hold' = [hold EXCEPT ![t] = h], hold[t] = "active",
             \A a \in Accounts : available'[a] - ledger'[a] = available[a] - ledger[a]
                                        + (IF a = row.account THEN row.amount ELSE 0)
      PROVE  Rearranges(t)
  <2>1. h \in HoldStatus
    BY DEF HoldStatus
  <2>2. /\ \A u \in Transfer, a \in Accounts : u # t => HeldBy(u, a)' = HeldBy(u, a)
        /\ \A a \in Accounts : HeldBy(t, a)' = 0
    BY <1>4, <1>6, <2>1
  <2>3. ASSUME NEW a \in Accounts
        PROVE  available'[a] - ledger'[a] = available[a] - ledger[a] + HeldBy(t, a) - HeldBy(t, a)'
    BY <1>2, <1>3, <1>6, <2>2
  <2> QED
    BY <1>1, <2>2, <2>3 DEF Rearranges
<1>7. ASSUME NEW entry \in Entry, Fulfils(t, row, entry) PROVE Rearranges(t)
  <2>1. CASE /\ hold[t] = "active" /\ hold' = [hold EXCEPT ![t] = "consumed"]
             /\ Posts(row, entry, row.account) /\ entry.debit = row.account
    <3>1. row.account \in Customers
      BY <1>1, <1>2, <2>1, HolderIsCustomer
    <3>2. LedgerDelta(entry, row.account) = -row.amount
      <4>1. entry.debit # entry.credit /\ entry.amount = row.amount
        BY <2>1 DEF Posts
      <4>2. LedgerDelta(entry, row.account) = NetCredit(entry, row.account)
        BY <1>2, <3>1, <4>1, DeltaFacts
      <4>3. NetCredit(entry, row.account) = (CASE row.account = entry.credit -> entry.amount
                                               [] row.account = entry.debit -> -entry.amount
                                               [] OTHER -> 0)
        BY <1>2, <4>1, DeltaFacts
      <4> QED
        BY <2>1, <4>1, <4>2, <4>3
    <3>3. ASSUME NEW a \in Accounts
          PROVE  available'[a] - ledger'[a] = available[a] - ledger[a]
                                        + (IF a = row.account THEN row.amount ELSE 0)
      <4>1. available'[a] - ledger'[a] = available[a] - ledger[a]
                                          - (IF a = row.account THEN LedgerDelta(entry, a) ELSE 0)
        BY <1>1, <2>1, PostingSpread
      <4> QED
        BY <1>2, <1>3, <3>2, <4>1
    <3> QED
      BY <1>6, <2>1, <3>3
  <2>2. CASE hold' = hold /\ Posts(row, entry, Nil)
    <3>1. ASSUME NEW a \in Accounts PROVE available'[a] - ledger'[a] = available[a] - ledger[a]
      <4>1. available'[a] - ledger'[a] = available[a] - ledger[a]
                                          - (IF a = Nil THEN LedgerDelta(entry, a) ELSE 0)
        BY <1>1, <2>2, PostingSpread
      <4>2. a # Nil
        BY <1>1
      <4> QED
        BY <1>3, <4>1, <4>2
    <3> QED
      BY <1>5, <2>2, <3>1
  <2> QED
    BY <1>7, <2>1, <2>2 DEF Fulfils
<1>8. CASE Breaks(t, row)
  <2>1. CASE /\ hold[t] = "active" /\ hold' = [hold EXCEPT ![t] = "released"]
             /\ available' = [available EXCEPT ![row.account] = @ + row.amount] /\ ledger' = ledger
    <3>1. ASSUME NEW a \in Accounts
          PROVE  available'[a] - ledger'[a] = available[a] - ledger[a]
                                        + (IF a = row.account THEN row.amount ELSE 0)
      <4>1. available'[a] = (IF a = row.account THEN available[a] + row.amount ELSE available[a])
        BY <1>1, <2>1 DEF IInv, TypeOK
      <4> QED
        BY <1>2, <1>3, <2>1, <4>1
    <3> QED
      BY <1>6, <2>1, <3>1
  <2>2. CASE UNCHANGED <<hold, available, ledger>>
    BY <1>5, <2>2
  <2> QED
    BY <1>8, <2>1, <2>2 DEF Breaks
<1>9. CASE Waits(t, row)
  BY <1>5, <1>9 DEF Waits, StillBalances
<1> QED
  BY <1>7, <1>8, <1>9

LEMMA LiensSetAside ==
    ASSUME IInv, PlacesLien \/ ReleasesLien
    PROVE  \E r \in LienReferences : SetsAside(r)
<1>1. Nil \notin Accounts /\ Customers \subseteq Accounts
  BY SpineAssumption DEF Accounts
<1>2. /\ lien \in [LienReferences -> [account: Customers, amount: Amounts] \cup {NoLien}]
      /\ available \in [Accounts -> Int] /\ ledger \in [Accounts -> Int]
  BY DEF IInv, TypeOK
<1>3. ASSUME NEW r \in LienReferences, NEW x, lien' = [lien EXCEPT ![r] = x],
             UNCHANGED <<transfers, hold, ledger>>,
             \A a \in Accounts : available'[a] = available[a] + LienOn(r, a) - LienOn(r, a)',
             \A a \in Accounts : LienOn(r, a) \in Int /\ LienOn(r, a)' \in Int
      PROVE  SetsAside(r)
  <2>1. \A u \in Transfer, a \in Accounts : HeldBy(u, a)' = HeldBy(u, a)
    BY <1>3 DEF HeldBy
  <2>2. \A q \in LienReferences, a \in Accounts : q # r => LienOn(q, a)' = LienOn(q, a)
    BY <1>2, <1>3 DEF LienOn
  <2>3. ASSUME NEW a \in Accounts
        PROVE  available'[a] - ledger'[a] = available[a] - ledger[a] + LienOn(r, a) - LienOn(r, a)'
    BY <1>2, <1>3
  <2> QED
    BY <2>1, <2>2, <2>3 DEF SetsAside
<1>4. ASSUME NEW c \in Customers, NEW r \in LienReferences, NEW n \in Amounts, PlaceAccountLien(c, r, n)
      PROVE  SetsAside(r)
  <2>1. /\ lien[r] = NoLien /\ lien' = [lien EXCEPT ![r] = [account |-> c, amount |-> n]]
        /\ available' = [available EXCEPT ![c] = @ - n] /\ UNCHANGED <<transfers, hold, ledger>>
        /\ n \in Nat
    BY <1>4, AmountFacts DEF PlaceAccountLien
  <2>2. \A a \in Accounts : LienOn(r, a) = 0 /\ LienOn(r, a)' = (IF a = c THEN n ELSE 0)
    BY <1>1, <1>2, <2>1 DEF LienOn, NoLien
  <2>3. \A a \in Accounts : available'[a] = (IF a = c THEN available[a] - n ELSE available[a])
    BY <1>1, <1>2, <2>1
  <2>4. \A a \in Accounts : /\ available'[a] = available[a] + LienOn(r, a) - LienOn(r, a)'
                             /\ LienOn(r, a) \in Int /\ LienOn(r, a)' \in Int
    BY <1>2, <2>1, <2>2, <2>3
  <2> QED
    BY <1>3, <2>1, <2>4
<1>5. ASSUME NEW r \in LienReferences, ReleaseAccountLien(r)
      PROVE  SetsAside(r)
  <2>1. /\ lien[r] # NoLien /\ lien' = [lien EXCEPT ![r] = NoLien]
        /\ available' = [available EXCEPT ![lien[r].account] = @ + lien[r].amount]
        /\ UNCHANGED <<transfers, hold, ledger>>
    BY <1>5 DEF ReleaseAccountLien
  <2>2. lien[r].account \in Customers /\ lien[r].amount \in Amounts
    BY <1>2, <2>1
  <2>3. lien[r].amount \in Nat
    BY <2>2, AmountFacts
  <2>4. \A a \in Accounts :
            LienOn(r, a) = (IF a = lien[r].account THEN lien[r].amount ELSE 0) /\ LienOn(r, a)' = 0
    BY <1>1, <1>2, <2>1 DEF LienOn, NoLien
  <2>5. \A a \in Accounts : available'[a] = (IF a = lien[r].account THEN available[a] + lien[r].amount
                                                                    ELSE available[a])
    BY <1>1, <1>2, <2>1, <2>2
  <2>6. \A a \in Accounts : /\ available'[a] = available[a] + LienOn(r, a) - LienOn(r, a)'
                             /\ LienOn(r, a) \in Int /\ LienOn(r, a)' \in Int
    BY <1>2, <2>3, <2>4, <2>5
  <2> QED
    BY <1>3, <2>1, <2>6
<1> QED
  BY <1>4, <1>5 DEF PlacesLien, ReleasesLien

\* Every step changes one element of what is held.
LEMMA HoldsMove ==
    ASSUME RInv, IInv', [Next]_vars
    PROVE  \/ \E t \in Transfer : Rearranges(t)
           \/ \E r \in LienReferences : SetsAside(r)
           \/ UNCHANGED <<transfers, hold, lien, ledger, available>>
<1>1. Movement /\ IInv
  BY Movements DEF RInv
<1>2. CASE Rests
  BY <1>2 DEF Rests, NoRowMoves
<1>3. CASE PlacesLien \/ ReleasesLien
  BY <1>1, <1>3, LiensSetAside
<1>4. ASSUME NEW t \in Transfer, NEW row \in Row,
             \/ \E entry \in Entry : Pays(t, row, entry) \/ Undoes(t, row, entry)
             \/ Notes(t, row)
             \/ Promises(t, row)
      PROVE  Rearranges(t)
  BY <1>4, OpeningRearranges
<1>5. ASSUME NEW t \in Transfer, NEW row \in Row,
             \/ \E entry \in Entry : Fulfils(t, row, entry)
             \/ Breaks(t, row)
             \/ Waits(t, row)
      PROVE  Rearranges(t)
  BY <1>5, EndingRearranges
<1> QED
  BY <1>1, <1>2, <1>3, <1>4, <1>5 DEF Movement

\* The available balance of every account is its ledger balance less its
\* active holds and liens.
LEMMA HeldNext ==
    ASSUME IsFiniteSet(LienReferences), RInv, IInv', [Next]_vars, NEW a \in Accounts,
           available[a] = ledger[a] - Held(a)
    PROVE  available'[a] = ledger'[a] - Held(a)'
<1> DEFINE h == [t \in Transfer |-> HeldBy(t, a)]
           l == [r \in LienReferences |-> LienOn(r, a)]
           hsum == SumFunctionOnSet(h, Transfer)
           lsum == SumFunctionOnSet(l, LienReferences)
<1>0. IInv /\ IsFiniteSet(Transfer)
  BY TransferFinite DEF RInv
<1>1. /\ \A t \in Transfer : h[t] \in Int /\ h'[t] \in Int /\ h[t] = HeldBy(t, a) /\ h'[t] = HeldBy(t, a)'
      /\ \A r \in LienReferences : l[r] \in Int /\ l'[r] \in Int /\ l[r] = LienOn(r, a)
                                                               /\ l'[r] = LienOn(r, a)'
      /\ available[a] \in Int /\ ledger[a] \in Int
      /\ available'[a] \in Int /\ ledger'[a] \in Int
  <2>1. /\ \A t \in Transfer : HeldBy(t, a) \in Int
        /\ \A r \in LienReferences : LienOn(r, a) \in Int
        /\ available[a] \in Int /\ ledger[a] \in Int
    BY <1>0, HeldTypes DEF HeldTyped
  <2>2. /\ \A t \in Transfer : HeldBy(t, a)' \in Int
        /\ \A r \in LienReferences : LienOn(r, a)' \in Int
        /\ available'[a] \in Int /\ ledger'[a] \in Int
    BY HeldTypesNext DEF HeldTyped
  <2> QED
    BY <2>1, <2>2
<1>2. Held(a) = hsum + lsum
  BY HeldIsSum
<1>3. Held(a)' = hsum' + lsum'
  BY DEF Held, SumFunction, HeldBy, LienOn
<1>4. hsum \in Int /\ lsum \in Int
  <2> HIDE DEF h, l
  <2> QED
    BY <1>0, <1>1, SumRemove
<1>5. ASSUME NEW t \in Transfer, Rearranges(t) PROVE available'[a] = ledger'[a] - Held(a)'
  <2>1. lsum' = lsum
    BY <1>5 DEF Rearranges, LienOn
  <2>2. hsum' = hsum - h[t] + h'[t]
    <3>1. \A u \in Transfer : u # t => h'[u] = h[u]
      BY <1>1, <1>5 DEF Rearranges
    <3> HIDE DEF h
    <3> QED
      BY <1>0, <1>1, <3>1, SumUpdate
  <2>3. available'[a] - ledger'[a] = available[a] - ledger[a] + h[t] - h'[t]
    BY <1>1, <1>5 DEF Rearranges
  <2> HIDE DEF h, l, hsum, lsum
  <2>4. h[t] \in Int /\ h'[t] \in Int
    BY <1>1
  <2>5. hsum' \in Int /\ lsum' \in Int
    BY <1>4, <2>1, <2>2, <2>4
  <2>6. hsum' + lsum' = hsum + lsum - h[t] + h'[t]
    BY <1>4, <2>1, <2>2, <2>4
  <2>7. Held(a)' = Held(a) - h[t] + h'[t] /\ Held(a) \in Int /\ Held(a)' \in Int
    BY <1>2, <1>3, <1>4, <2>4, <2>5, <2>6
  <2>8. /\ available[a] \in Int /\ ledger[a] \in Int /\ available'[a] \in Int /\ ledger'[a] \in Int
        /\ available[a] = ledger[a] - Held(a)
    BY <1>1
  <2> QED
    BY ONLY <2>3, <2>4, <2>7, <2>8
<1>6. ASSUME NEW r \in LienReferences, SetsAside(r) PROVE available'[a] = ledger'[a] - Held(a)'
  <2>1. hsum' = hsum
    <3>1. h' = h
      BY <1>1, <1>6 DEF SetsAside
    <3> HIDE DEF h
    <3> QED
      BY <3>1
  <2>2. lsum' = lsum - l[r] + l'[r]
    <3>1. \A q \in LienReferences : q # r => l'[q] = l[q]
      BY <1>1, <1>6 DEF SetsAside
    <3> HIDE DEF l
    <3> QED
      BY <1>0, <1>1, <3>1, SumUpdate
  <2>3. available'[a] - ledger'[a] = available[a] - ledger[a] + l[r] - l'[r]
    BY <1>1, <1>6 DEF SetsAside
  <2> HIDE DEF h, l, hsum, lsum
  <2>4. l[r] \in Int /\ l'[r] \in Int
    BY <1>1
  <2>5. hsum' \in Int /\ lsum' \in Int
    BY <1>4, <2>1, <2>2, <2>4
  <2>6. hsum' + lsum' = hsum + lsum - l[r] + l'[r]
    BY <1>4, <2>1, <2>2, <2>4
  <2>7. Held(a)' = Held(a) - l[r] + l'[r] /\ Held(a) \in Int /\ Held(a)' \in Int
    BY <1>2, <1>3, <1>4, <2>4, <2>5, <2>6
  <2>8. /\ available[a] \in Int /\ ledger[a] \in Int /\ available'[a] \in Int /\ ledger'[a] \in Int
        /\ available[a] = ledger[a] - Held(a)
    BY <1>1
  <2> QED
    BY ONLY <2>3, <2>4, <2>7, <2>8
<1>7. CASE UNCHANGED <<transfers, hold, lien, ledger, available>>
  <2>1. Held(a)' = Held(a)
    BY <1>7 DEF Held
  <2> QED
    BY <1>7, <2>1
<1> QED
  BY <1>5, <1>6, <1>7, HoldsMove

LEMMA HeldInit ==
    ASSUME IsFiniteSet(LienReferences), Init, NEW a \in Accounts
    PROVE  available[a] = ledger[a] - Held(a)
<1>1. /\ \A t \in Transfer : HeldBy(t, a) = 0
      /\ \A r \in LienReferences : LienOn(r, a) = 0
  BY SpineAssumption DEF Init, HeldBy, LienOn, NoLien
<1>2. SumFunctionOnSet([t \in Transfer |-> HeldBy(t, a)], Transfer) = 0
  BY <1>1, TransferFinite, SumOfZeroes
<1>3. SumFunctionOnSet([r \in LienReferences |-> LienOn(r, a)], LienReferences) = 0
  BY <1>1, SumOfZeroes
<1>4. available[a] = ledger[a] /\ ledger[a] \in Int
  BY SpineAssumption DEF Init
<1> QED
  BY <1>2, <1>3, <1>4, HeldIsSum

\* However holds, liens, settlements and reversals followed each other, what an
\* account may spend is its ledger balance less what is reserved of it.
THEOREM AvailableAddsUp ==
    ASSUME IsFiniteSet(LienReferences)
    PROVE  Spec => []AvailableIsLedgerLessHolds
<1>1. Init => AvailableIsLedgerLessHolds
  BY HeldInit DEF AvailableIsLedgerLessHolds
<1>2. AvailableIsLedgerLessHolds /\ RInv /\ RInv' /\ [Next]_vars => AvailableIsLedgerLessHolds'
  <2>1. SUFFICES ASSUME AvailableIsLedgerLessHolds, RInv, RInv', [Next]_vars, NEW a \in Accounts
                 PROVE  available'[a] = ledger'[a] - Held(a)'
    BY DEF AvailableIsLedgerLessHolds
  <2>2. available[a] = ledger[a] - Held(a) /\ IInv'
    BY <2>1 DEF AvailableIsLedgerLessHolds, RInv
  <2> QED
    BY <2>1, <2>2, HeldNext
<1> QED
  BY <1>1, <1>2, RecordsInvariance, PTL DEF Spec

-----------------------------------------------------------------------------
(***************************************************************************)
(* Postings.                                                               *)
(***************************************************************************)
JournalCredit(j, a) == SumFunction([i \in DOMAIN j |-> NetCredit(j[i], a)])

LEMMA CreditsAreSum ==
    ASSUME NEW a
    PROVE  NetCredits(a) = SumFunctionOnSet([t \in Transfer |-> JournalCredit(journal[t], a)], Transfer)
BY DEF NetCredits, SumFunction, JournalCredit

LEMMA NoCredit ==
    ASSUME NEW a
    PROVE  JournalCredit(<<>>, a) = 0
<1>1. DOMAIN <<>> = {}
  OBVIOUS
<1> DEFINE f == [i \in DOMAIN <<>> |-> NetCredit(<<>>[i], a)]
<1>2. DOMAIN f = {}
  BY <1>1
<1>3. JournalCredit(<<>>, a) = SumFunctionOnSet(f, DOMAIN f)
  BY DEF JournalCredit, SumFunction
<1> HIDE DEF f
<1> QED
  BY <1>2, <1>3, SumEmpty

LEMMA OneCredit ==
    ASSUME NEW a, NEW entry, NetCredit(entry, a) \in Int
    PROVE  JournalCredit(<<entry>>, a) = NetCredit(entry, a)
<1>1. DOMAIN <<entry>> = {1} /\ <<entry>>[1] = entry
  OBVIOUS
<1> DEFINE f == [i \in DOMAIN <<entry>> |-> NetCredit(<<entry>>[i], a)]
<1>2. DOMAIN f = {1} /\ f[1] = NetCredit(entry, a)
  BY <1>1
<1>3. JournalCredit(<<entry>>, a) = SumFunctionOnSet(f, DOMAIN f)
  BY DEF JournalCredit, SumFunction
<1> HIDE DEF f
<1> QED
  BY <1>2, <1>3, SumOfOne

\* A transfer has no entry, or one between two accounts that counts for both.
LEMMA Entries ==
    ASSUME RInv, NEW t \in Transfer
    PROVE  \/ journal[t] = <<>> /\ (t \in Existing => transfers[t].status # "succeeded")
           \/ \E entry \in Entry : /\ journal[t] = <<entry>> /\ entry.debit # entry.credit
                                   /\ t \in Existing /\ transfers[t].status = "succeeded"
<1>0. IInv
  BY DEF RInv
<1>1. CASE t \in Existing
  <2>1. /\ Consistent(transfers[t], hold[t], journal[t]) /\ Recorded(transfers[t], journal[t])
        /\ journal[t] \in Seq(Entry)
    BY <1>0, <1>1, ExistingFacts DEF RInv
  <2>2. CASE transfers[t].status = "succeeded"
    <3>1. Len(journal[t]) = 1 /\ journal[t][1].debit # journal[t][1].credit
      BY <2>1, <2>2 DEF Consistent, Recorded, MoneyMovedAsTold
    <3>2. journal[t] = <<journal[t][1]>> /\ journal[t][1] \in Entry
      BY <2>1, <3>1
    <3> QED
      BY <1>1, <2>2, <3>1, <3>2
  <2>3. CASE transfers[t].status # "succeeded"
    BY <2>1, <2>3 DEF Consistent
  <2> QED
    BY <2>2, <2>3
<1>2. CASE t \notin Existing
  <2>1. t > count
    BY <1>0, <1>2, SpineAssumption DEF IInv, TypeOK, Existing, Transfer
  <2> QED
    BY <1>0, <1>2, <2>1 DEF IInv, UnusedSlotsAreBlank
<1> QED
  BY <1>1, <1>2

LEMMA CreditTypes ==
    ASSUME RInv, NEW a \in Accounts
    PROVE  \A t \in Transfer : JournalCredit(journal[t], a) \in Int
<1>1. SUFFICES ASSUME NEW t \in Transfer PROVE JournalCredit(journal[t], a) \in Int
  OBVIOUS
<1>2. CASE journal[t] = <<>>
  BY <1>2, NoCredit
<1>3. ASSUME NEW entry \in Entry, journal[t] = <<entry>>, entry.debit # entry.credit
      PROVE  JournalCredit(journal[t], a) \in Int
  <2>1. NetCredit(entry, a) \in Int
    BY <1>3, DeltaFacts
  <2> QED
    BY <1>3, <2>1, OneCredit
<1> QED
  BY <1>2, <1>3, Entries

\* The books of account a, kept by its postings.
Booked(a) ==
    ledger[a] = (IF a \in Customers THEN Opening[a] + NetCredits(a) ELSE Opening[a] - NetCredits(a))

LEMMA BookedInit ==
    ASSUME Init, NEW a \in Accounts
    PROVE  Booked(a)
<1>1. \A t \in Transfer : JournalCredit(journal[t], a) = 0
  BY NoCredit DEF Init
<1>2. NetCredits(a) = 0
  <2>1. SumFunctionOnSet([t \in Transfer |-> JournalCredit(journal[t], a)], Transfer) = 0
    BY <1>1, TransferFinite, SumOfZeroes
  <2> QED
    BY <2>1, CreditsAreSum
<1>3. ledger[a] = Opening[a] /\ Opening[a] \in Int
  BY SpineAssumption DEF Init
<1> QED
  BY <1>2, <1>3 DEF Booked

LEMMA BookedNext ==
    ASSUME RInv, IInv', [Next]_vars, NEW a \in Accounts, Booked(a)
    PROVE  Booked(a)'
<1> DEFINE c == [t \in Transfer |-> JournalCredit(journal[t], a)]
           sum == SumFunctionOnSet(c, Transfer)
<1>0. IInv /\ IsFiniteSet(Transfer)
  BY TransferFinite DEF RInv
<1>1. /\ \A t \in Transfer : c[t] \in Int /\ c[t] = JournalCredit(journal[t], a)
                                          /\ c'[t] = JournalCredit(journal'[t], a)
      /\ ledger[a] \in Int /\ Opening[a] \in Int
  <2>1. \A t \in Transfer : JournalCredit(journal[t], a) \in Int
    BY CreditTypes
  <2>2. ledger[a] \in Int /\ Opening[a] \in Int
    BY <1>0, SpineAssumption DEF IInv, TypeOK
  <2> QED
    BY <2>1, <2>2
<1>2. NetCredits(a) = sum
  BY CreditsAreSum
<1>3. NetCredits(a)' = sum'
  BY DEF NetCredits, SumFunction, JournalCredit
<1>4. CASE UNCHANGED <<ledger, journal>>
  <2>1. NetCredits(a)' = NetCredits(a)
    BY <1>4 DEF NetCredits
  <2> QED
    BY <1>4, <2>1 DEF Booked
<1>5. ASSUME NEW t \in Transfer, NEW row \in Row, NEW entry \in Entry,
             NEW held \in Optional(Accounts), Posts(row, entry, held),
             journal[t] = <<>>, journal' = [journal EXCEPT ![t] = <<entry>>]
      PROVE  Booked(a)'
  <2>1. entry.debit # entry.credit
    BY <1>5 DEF Posts
  <2>2. /\ NetCredit(entry, a) \in Int
        /\ LedgerDelta(entry, a) = (IF a \in Customers THEN NetCredit(entry, a) ELSE -NetCredit(entry, a))
    BY <2>1, DeltaFacts
  <2>3. journal'[t] = <<entry>> /\ \A u \in Transfer : u # t => journal'[u] = journal[u]
    BY <1>0, <1>5 DEF IInv, TypeOK
  <2>4. c[t] = 0 /\ c'[t] = NetCredit(entry, a) /\ \A u \in Transfer : u # t => c'[u] = c[u]
    <3>1. JournalCredit(journal[t], a) = 0
      BY <1>5, NoCredit
    <3>2. JournalCredit(journal'[t], a) = NetCredit(entry, a)
      BY <2>2, <2>3, OneCredit
    <3> QED
      BY <1>1, <2>3, <3>1, <3>2
  <2>5. sum' = sum - c[t] + c'[t] /\ sum \in Int
    <3> HIDE DEF c
    <3> QED
      BY <1>0, <1>1, <2>2, <2>4, SumUpdate
  <2>6. ledger'[a] = ledger[a] + LedgerDelta(entry, a)
    BY <1>0, <1>5, PostsFacts
  <2> HIDE DEF c, sum, LedgerDelta, NetCredit
  <2>7. NetCredits(a)' = NetCredits(a) + NetCredit(entry, a) /\ NetCredits(a) \in Int
    BY <1>2, <1>3, <2>2, <2>4, <2>5
  <2>8. CASE a \in Customers
    BY <1>1, <2>2, <2>6, <2>7, <2>8 DEF Booked
  <2>9. CASE a \notin Customers
    BY <1>1, <2>2, <2>6, <2>7, <2>9 DEF Booked
  <2> QED
    BY <2>8, <2>9
<1> QED
  BY <1>4, <1>5, Postings

Books == \A a \in Accounts : Booked(a)

LEMMA BooksKept == Spec => []Books
<1>1. Init => Books
  BY BookedInit DEF Books
<1>2. Books /\ RInv /\ RInv' /\ [Next]_vars => Books'
  BY BookedNext DEF RInv, Books
<1> QED
  BY <1>1, <1>2, RecordsInvariance, PTL DEF Spec

\* The ledger balance of every account can be rebuilt from its postings.
THEOREM LedgerAddsUp == Spec => []LedgerReconcilesWithPostings
<1>1. Books => LedgerReconcilesWithPostings
  BY AccountsAssumption DEF Books, Booked, LedgerReconcilesWithPostings, Accounts
<1> QED
  BY <1>1, BooksKept, PTL

-----------------------------------------------------------------------------
(***************************************************************************)
(* Statements.                                                             *)
(***************************************************************************)
\* A line counts what its postings credit, and the other way round for a
\* settlement account; a transfer that is not a line posted nothing.
LEMMA LineCounts ==
    ASSUME RInv, NEW a \in Accounts, NEW t \in Transfer
    PROVE  /\ t \notin StatementLines(a) => JournalCredit(journal[t], a) = 0
           /\ t \in StatementLines(a) =>
                /\ SignedAmount(t, a) = (IF a \in Customers THEN JournalCredit(journal[t], a)
                                                            ELSE 0 - JournalCredit(journal[t], a))
                /\ SignedAmount(t, a) # 0 =>
                      (ShownDirection(t, a) = "credit" <=> SignedAmount(t, a) > 0)
<1>0. IInv /\ StatementLines(a) \subseteq Existing
  BY DEF RInv, StatementLines
<1>1. CASE journal[t] = <<>> /\ (t \in Existing => transfers[t].status # "succeeded")
  <2>1. JournalCredit(journal[t], a) = 0
    BY <1>1, NoCredit
  <2>2. t \in StatementLines(a) => SignedAmount(t, a) = 0
    BY <1>0, <1>1 DEF SignedAmount
  <2> QED
    BY <2>1, <2>2
<1>2. ASSUME NEW entry \in Entry, journal[t] = <<entry>>, entry.debit # entry.credit,
             t \in Existing, transfers[t].status = "succeeded"
      PROVE  /\ t \notin StatementLines(a) => JournalCredit(journal[t], a) = 0
             /\ t \in StatementLines(a) =>
                  /\ SignedAmount(t, a) = (IF a \in Customers THEN JournalCredit(journal[t], a)
                                                              ELSE 0 - JournalCredit(journal[t], a))
                  /\ SignedAmount(t, a) # 0 =>
                        (ShownDirection(t, a) = "credit" <=> SignedAmount(t, a) > 0)
  <2> DEFINE f == [e \in PostingsOn(t, a) |-> IF Increases(e, a) THEN e.amount ELSE -e.amount]
  <2>1. transfers[t].journalled
    BY <1>0, <1>2 DEF IInv, Consistent
  <2>2. Len(journal[t]) = 1 /\ journal[t][1] = entry
    BY <1>2
  <2>3. PostingsOn(t, a) = (IF a \in {entry.debit, entry.credit} THEN {entry} ELSE {})
    BY <2>1, <2>2 DEF PostingsOn
  <2>4. /\ entry.amount \in Nat /\ entry.amount > 0 /\ NetCredit(entry, a) \in Int
        /\ NetCredit(entry, a) = (CASE a = entry.credit -> entry.amount
                                    [] a = entry.debit -> -entry.amount
                                    [] OTHER -> 0)
    BY <1>2, DeltaFacts
  <2>5. JournalCredit(journal[t], a) = NetCredit(entry, a)
    BY <1>2, <2>4, OneCredit
  <2>6. SignedAmount(t, a) = SumFunctionOnSet(f, PostingsOn(t, a))
    BY <1>2 DEF SignedAmount, SumFunction
  <2>7. CASE a \notin {entry.debit, entry.credit}
    <3>1. NetCredit(entry, a) = 0
      BY <2>4, <2>7
    <3>2. SignedAmount(t, a) = 0
      <4> HIDE DEF f
      <4> QED
        BY <2>3, <2>6, <2>7, SumEmpty
    <3> QED
      BY <2>5, <3>1, <3>2
  <2>8. CASE a \in {entry.debit, entry.credit}
    <3>1. f[entry] = (IF Increases(entry, a) THEN entry.amount ELSE -entry.amount) /\ f[entry] \in Int
      BY <2>3, <2>4, <2>8
    <3>2. SignedAmount(t, a) = f[entry]
      <4> HIDE DEF f
      <4> QED
        BY <2>3, <2>6, <2>8, <3>1, SumOfOne
    <3>3. ShownDirection(t, a) = (IF Increases(entry, a) THEN "credit" ELSE "debit")
      BY <1>2, <2>3, <2>8 DEF ShownDirection
    <3>4. t \in StatementLines(a)
      BY <1>2, <2>3, <2>8 DEF StatementLines
    <3> HIDE DEF f
    <3>5. CASE a = entry.credit
      BY <1>2, <2>4, <2>5, <3>1, <3>2, <3>3, <3>4, <3>5 DEF Increases
    <3>6. CASE a = entry.debit
      BY <1>2, <2>4, <2>5, <3>1, <3>2, <3>3, <3>4, <3>6 DEF Increases
    <3> QED
      BY <2>8, <3>5, <3>6
  <2> QED
    BY <2>7, <2>8
<1> QED
  BY <1>1, <1>2, Entries

LEMMA StatementAddsUp ==
    ASSUME RInv, NEW a \in Accounts, Booked(a)
    PROVE  ledger[a] = Opening[a] + SumFunction([t \in StatementLines(a) |-> SignedAmount(t, a)])
<1> DEFINE lines == StatementLines(a)
           c == [t \in Transfer |-> JournalCredit(journal[t], a)]
           s == [t \in lines |-> SignedAmount(t, a)]
<1>0. /\ IsFiniteSet(Transfer) /\ IsFiniteSet(lines) /\ lines \in SUBSET Transfer
      /\ \A t \in lines : t \in Transfer
  <2>1. lines \in SUBSET Transfer
    BY ExistingFacts DEF RInv, StatementLines
  <2>2. IsFiniteSet(lines)
    BY <2>1, TransferFinite, FS_Subset
  <2> QED
    BY <2>1, <2>2, TransferFinite
<1>1. /\ \A t \in Transfer : c[t] \in Int /\ (t \notin lines => c[t] = 0)
      /\ \A t \in lines : c[t] = JournalCredit(journal[t], a) /\ s[t] = SignedAmount(t, a)
  BY <1>0, CreditTypes, LineCounts
<1>2. SumFunctionOnSet(c, lines) = NetCredits(a) /\ NetCredits(a) \in Int
  <2>1. SumFunctionOnSet(c, Transfer) = NetCredits(a)
    BY CreditsAreSum
  <2> HIDE DEF c, lines
  <2> QED
    BY <1>0, <1>1, <2>1, SumOfPart, SumRemove
<1>3. SumFunction(s) = SumFunctionOnSet(s, lines)
  BY DEF SumFunction
<1>4. ledger[a] \in Int /\ Opening[a] \in Int
  BY SpineAssumption DEF RInv, IInv, TypeOK
<1>5. CASE a \in Customers
  <2>1. \A t \in lines : s[t] = c[t]
    BY <1>0, <1>1, <1>5, LineCounts
  <2>2. SumFunctionOnSet(s, lines) = SumFunctionOnSet(c, lines)
    <3> HIDE DEF c, s, lines
    <3> QED
      BY <1>0, <2>1, SumSame
  <2> QED
    BY <1>2, <1>3, <1>4, <1>5, <2>2 DEF Booked
<1>6. CASE a \notin Customers
  <2>1. \A t \in lines : s[t] = 0 - c[t]
    BY <1>0, <1>1, <1>6, LineCounts
  <2>2. SumFunctionOnSet(s, lines) = 0 - SumFunctionOnSet(c, lines)
    <3> HIDE DEF c, s, lines
    <3> QED
      BY <1>0, <1>1, <2>1, SumOpposite
  <2> QED
    BY <1>2, <1>3, <1>4, <1>6, <2>2 DEF Booked
<1> QED
  BY <1>5, <1>6

\* Every statement adds up to its account's ledger balance, from either side of
\* a transfer, and shows each amount in its own direction.
THEOREM StatementsMatchLedger == Spec => []StatementsAddUp
<1>1. Books /\ RInv => StatementsAddUp
  <2>1. SUFFICES ASSUME Books, RInv, NEW a \in Accounts
                 PROVE  /\ ledger[a] = Opening[a] + SumFunction([t \in StatementLines(a) |-> SignedAmount(t, a)])
                        /\ \A t \in StatementLines(a) :
                              SignedAmount(t, a) # 0 =>
                                  (ShownDirection(t, a) = "credit" <=> SignedAmount(t, a) > 0)
    BY DEF StatementsAddUp
  <2>2. \A t \in StatementLines(a) : t \in Transfer
    BY <2>1, ExistingFacts DEF RInv, StatementLines
  <2> QED
    BY <2>1, <2>2, StatementAddsUp, LineCounts DEF Books
<1> QED
  BY <1>1, BooksKept, RecordsInvariance, PTL

-----------------------------------------------------------------------------
(***************************************************************************)
(* The refinement, under the mapping Money of SpineProperties: initial     *)
(* states map to initial states, and each movement maps to one action of   *)
(* MoneyMovement or to a stuttering step.  The mapped variables:           *)
(***************************************************************************)
Payment == [t \in Transfer |-> PaymentOf(t)]

Pot == [r \in LienReferences |-> [party |-> lien[r].account, sum |-> lien[r].amount]]

\* The payment a row stands for.
Stands(row, reserves, entry) ==
    [state |-> PaymentState(row.status), party |-> row.account, sum |-> row.amount,
     reserves |-> reserves, undoes |-> row.reversalOf, entry |-> entry]

MappedEntry(entry) == [from |-> entry.debit, to |-> entry.credit, sum |-> entry.amount]

LEMMA EntryFacts ==
    ASSUME NEW t
    PROVE  /\ journal[t] = <<>> => EntryOf(t) = Money!NoEntry
           /\ journal'[t] = <<>> => EntryOf(t)' = Money!NoEntry
           /\ \A entry : journal[t] = <<entry>> => EntryOf(t) = MappedEntry(entry)
           /\ \A entry : journal'[t] = <<entry>> => EntryOf(t)' = MappedEntry(entry)
<1>1. Len(<<>>) = 0 /\ \A entry : Len(<<entry>>) = 1 /\ <<entry>>[1] = entry
  OBVIOUS
<1>2. journal[t] = <<>> => EntryOf(t) = Money!NoEntry
  BY <1>1 DEF EntryOf, Money!NoEntry
<1>3. journal'[t] = <<>> => EntryOf(t)' = Money!NoEntry
  BY <1>1 DEF EntryOf, Money!NoEntry
<1>4. ASSUME NEW entry, journal[t] = <<entry>> PROVE EntryOf(t) = MappedEntry(entry)
  BY <1>1, <1>4 DEF EntryOf, MappedEntry
<1>5. ASSUME NEW entry, journal'[t] = <<entry>> PROVE EntryOf(t)' = MappedEntry(entry)
  BY <1>1, <1>5 DEF EntryOf, MappedEntry
<1> QED
  BY <1>2, <1>3, <1>4, <1>5

\* A slot not yet used is a payment not yet made; an open transfer has no entry.
LEMMA PaymentNow ==
    ASSUME IInv, NEW t \in Transfer
    PROVE  /\ t > count => PaymentOf(t) = Money!Unmade
           /\ t \in Existing =>
                  /\ PaymentOf(t) = Stands(transfers[t], hold[t] = "active", EntryOf(t))
                  /\ PaymentOf(t) # Money!Unmade
           /\ t \in Existing /\ IsOpen(t) =>
                  PaymentOf(t) = Stands(transfers[t], hold[t] = "active", Money!NoEntry)
<1>1. t > count => PaymentOf(t) = Money!Unmade
  BY DEF PaymentOf, Money!Unmade
<1>2. ASSUME t \in Existing
      PROVE  /\ PaymentOf(t) = Stands(transfers[t], hold[t] = "active", EntryOf(t))
             /\ PaymentOf(t) # Money!Unmade
  <2>1. ~(t > count)
    BY <1>2, SpineAssumption DEF IInv, TypeOK, Existing
  <2>2. PaymentOf(t) = Stands(transfers[t], hold[t] = "active", EntryOf(t))
    BY <2>1 DEF PaymentOf, Stands
  <2>3. PaymentState(transfers[t].status) # "unmade"
    BY DEF PaymentState
  <2> QED
    BY <2>2, <2>3 DEF Stands, Money!Unmade
<1>3. t \in Existing /\ IsOpen(t) => EntryOf(t) = Money!NoEntry
  BY NoEntryBefore, EntryFacts
<1> QED
  BY <1>1, <1>2, <1>3

\* Writing a row makes or changes one payment.
LEMMA PaymentNext ==
    ASSUME IInv, NEW t \in Transfer, NEW row \in Row, Opens(t, row) \/ Replaces(t, row),
           NEW h, hold' = [hold EXCEPT ![t] = h],
           NEW j, journal' = [journal EXCEPT ![t] = j]
    PROVE  /\ Payment' = [Payment EXCEPT ![t] = Stands(row, h = "active", EntryOf(t)')]
           /\ journal'[t] = j
           /\ Pot' = Pot
<1>1. /\ transfers' = [transfers EXCEPT ![t] = row] /\ lien' = lien
      /\ DOMAIN transfers = Transfer /\ DOMAIN hold = Transfer /\ DOMAIN journal = Transfer
      /\ count \in Nat
  BY SpineAssumption DEF Opens, Replaces, IInv, TypeOK
<1>2. ~(t > count') /\ \A u \in Transfer : u # t => (u > count' <=> u > count)
  <2>1. CASE Opens(t, row)
    BY <1>1, <2>1 DEF Opens, Transfer
  <2>2. CASE Replaces(t, row)
    BY <1>1, <2>2 DEF Replaces, Existing, Transfer
  <2> QED
    BY <2>1, <2>2
<1>3. /\ transfers'[t] = row /\ hold'[t] = h /\ journal'[t] = j
      /\ \A u \in Transfer : u # t => /\ transfers'[u] = transfers[u]
                                      /\ hold'[u] = hold[u] /\ journal'[u] = journal[u]
  BY <1>1
<1>4. PaymentOf(t)' = Stands(row, h = "active", EntryOf(t)')
  BY <1>2, <1>3 DEF PaymentOf, Stands
<1>5. ASSUME NEW u \in Transfer, u # t PROVE PaymentOf(u)' = PaymentOf(u)
  <2>1. EntryOf(u)' = EntryOf(u)
    BY <1>3, <1>5 DEF EntryOf
  <2> QED
    BY <1>2, <1>3, <1>5, <2>1 DEF PaymentOf
<1>6. Payment' = [Payment EXCEPT ![t] = Stands(row, h = "active", EntryOf(t)')]
  BY <1>4, <1>5 DEF Payment
<1> QED
  BY <1>1, <1>3, <1>6 DEF Pot

LEMMA OwedType ==
    ASSUME NEW books \in [Accounts -> Int]
    PROVE  Owed(books) \in [Accounts -> Int]
BY DEF Owed

\* What Shift is, account by account.
Shifts(g, f, from, to, n) ==
    /\ f \in [Accounts -> Int] /\ g \in [Accounts -> Int]
    /\ from \in Accounts /\ to \in Accounts /\ from # to /\ n \in Int
    /\ g[to] = f[to] + n /\ g[from] = f[from] - n
    /\ \A a \in Accounts \ {from, to} : g[a] = f[a]

LEMMA ShiftIs ==
    ASSUME NEW f, NEW g, NEW from, NEW to, NEW n, Shifts(g, f, from, to, n)
    PROVE  g = Money!Shift(f, from, to, n)
<1> USE DEF Shifts
<1> DEFINE h == [f EXCEPT ![from] = @ - n, ![to] = @ + n]
<1>1. /\ h = [a \in Accounts |-> h[a]] /\ h[to] = f[to] + n /\ h[from] = f[from] - n
      /\ \A a \in Accounts \ {from, to} : h[a] = f[a]
  OBVIOUS
<1>2. ASSUME NEW a \in Accounts PROVE g[a] = h[a]
  <2>1. CASE a = to
    BY <1>1, <2>1
  <2>2. CASE a = from
    BY <1>1, <2>2
  <2>3. CASE a \in Accounts \ {from, to}
    BY <1>1, <2>3
  <2> QED
    BY <2>1, <2>2, <2>3
<1>3. g = [a \in Accounts |-> g[a]]
  OBVIOUS
<1> HIDE DEF h
<1>4. g = h
  BY <1>1, <1>2, <1>3
<1> QED
  BY <1>4 DEF h, Money!Shift

\* Owed counts a posting alike on both sides.
LEMMA OwedShifts ==
    ASSUME IInv, IInv', NEW row \in Row, NEW entry \in Entry, NEW held, Posts(row, entry, held)
    PROVE  /\ Owed(ledger') = Money!Shift(Owed(ledger), entry.debit, entry.credit, entry.amount)
           /\ held \notin Accounts =>
                 Owed(available') = Money!Shift(Owed(available), entry.debit, entry.credit, entry.amount)
           /\ held = entry.debit =>
                 Owed(available') = [Owed(available) EXCEPT ![entry.credit] = @ + entry.amount]
<1>1. entry.debit \in Accounts /\ entry.credit \in Accounts /\ entry.debit # entry.credit
  BY DEF Posts, Entry
<1>2. ASSUME NEW a \in Accounts
      PROVE  /\ Owed(ledger')[a] = Owed(ledger)[a] + NetCredit(entry, a)
             /\ a # held => Owed(available')[a] = Owed(available)[a] + NetCredit(entry, a)
             /\ a = held => Owed(available')[a] = Owed(available)[a]
             /\ Owed(ledger)[a] \in Int /\ Owed(available)[a] \in Int
  <2>1. /\ ledger[a] \in Int /\ available[a] \in Int
        /\ ledger'[a] = ledger[a] + LedgerDelta(entry, a)
        /\ available'[a] = available[a] + (IF a = held THEN 0 ELSE LedgerDelta(entry, a))
    BY PostsFacts
  <2>2. /\ NetCredit(entry, a) \in Int
        /\ LedgerDelta(entry, a) = (IF a \in Customers THEN NetCredit(entry, a) ELSE -NetCredit(entry, a))
    BY <1>1, DeltaFacts
  <2> HIDE DEF NetCredit, LedgerDelta
  <2>3. a = held => available'[a] = available[a]
    BY <2>1
  <2>4. a # held => available'[a] = available[a] + LedgerDelta(entry, a)
    BY <2>1
  <2> QED
    BY <2>1, <2>2, <2>3, <2>4 DEF Owed
<1>3. entry.amount \in Int
  BY <1>1, DeltaFacts
<1>4. NetCredit(entry, entry.credit) = entry.amount /\ NetCredit(entry, entry.debit) = -entry.amount
  BY <1>1, DeltaFacts
<1>5. \A a \in Accounts \ {entry.debit, entry.credit} : NetCredit(entry, a) = 0
  BY <1>1, DeltaFacts
<1>6. /\ Owed(ledger) \in [Accounts -> Int] /\ Owed(ledger') \in [Accounts -> Int]
      /\ Owed(available) \in [Accounts -> Int] /\ Owed(available') \in [Accounts -> Int]
  BY OwedType DEF IInv, TypeOK
<1> HIDE DEF Owed, NetCredit
<1>7. Owed(ledger') = Money!Shift(Owed(ledger), entry.debit, entry.credit, entry.amount)
  <2>1. Owed(ledger')[entry.credit] = Owed(ledger)[entry.credit] + entry.amount
    BY <1>1, <1>2, <1>4
  <2>2. Owed(ledger')[entry.debit] = Owed(ledger)[entry.debit] - entry.amount
    BY <1>1, <1>2, <1>3, <1>4
  <2>3. \A a \in Accounts \ {entry.debit, entry.credit} : Owed(ledger')[a] = Owed(ledger)[a]
    BY <1>2, <1>5
  <2>4. Shifts(Owed(ledger'), Owed(ledger), entry.debit, entry.credit, entry.amount)
    BY <1>1, <1>3, <1>6, <2>1, <2>2, <2>3 DEF Shifts
  <2> QED
    BY <2>4, ShiftIs
<1>8. ASSUME held \notin Accounts
      PROVE  Owed(available') = Money!Shift(Owed(available), entry.debit, entry.credit, entry.amount)
  <2>1. Owed(available')[entry.credit] = Owed(available)[entry.credit] + entry.amount
    BY <1>1, <1>2, <1>4, <1>8
  <2>2. Owed(available')[entry.debit] = Owed(available)[entry.debit] - entry.amount
    BY <1>1, <1>2, <1>3, <1>4, <1>8
  <2>3. \A a \in Accounts \ {entry.debit, entry.credit} : Owed(available')[a] = Owed(available)[a]
    BY <1>2, <1>5, <1>8
  <2>4. Shifts(Owed(available'), Owed(available), entry.debit, entry.credit, entry.amount)
    BY <1>1, <1>3, <1>6, <2>1, <2>2, <2>3 DEF Shifts
  <2> QED
    BY <2>4, ShiftIs
<1>9. ASSUME held = entry.debit
      PROVE  Owed(available') = [Owed(available) EXCEPT ![entry.credit] = @ + entry.amount]
  <2>1. Owed(available')[entry.credit] = Owed(available)[entry.credit] + entry.amount
    BY <1>1, <1>2, <1>4, <1>9
  <2>2. \A a \in Accounts \ {entry.credit} : Owed(available')[a] = Owed(available)[a]
    <3>1. ASSUME NEW a \in Accounts \ {entry.credit} PROVE Owed(available')[a] = Owed(available)[a]
      <4>1. CASE a = held
        BY <1>2, <4>1
      <4>2. CASE a # held
        BY <1>2, <1>5, <1>9, <4>2
      <4> QED
        BY <4>1, <4>2
    <3> QED
      BY <3>1
  <2> QED
    BY <1>1, <1>6, <2>1, <2>2
<1> QED
  BY <1>7, <1>8, <1>9

\* A customer's reservation is taken from, or returned to, what he is owed.
LEMMA OwedChanges ==
    ASSUME IInv, NEW c \in Customers, NEW n \in Int
    PROVE  /\ available' = [available EXCEPT ![c] = @ + n] => Owed(available') = [Owed(available) EXCEPT ![c] = @ + n]
           /\ available' = [available EXCEPT ![c] = @ - n] => Owed(available') = [Owed(available) EXCEPT ![c] = @ - n]
<1>1. available \in [Accounts -> Int] /\ c \in Accounts
  BY DEF IInv, TypeOK, Accounts
<1> QED
  BY <1>1 DEF Owed

-----------------------------------------------------------------------------
(***************************************************************************)
(* Each movement is an action of MoneyMovement.                            *)
(***************************************************************************)
LEMMA PaymentAt == \A t \in Transfer : Payment[t] = PaymentOf(t)
BY DEF Payment

\* A row that is opened stands for a new payment.
LEMMA OpensPayment ==
    ASSUME IInv, NEW t \in Transfer, NEW row \in Row, Opens(t, row)
    PROVE  Payment[t] = Money!Unmade /\ hold[t] = "none" /\ journal[t] = <<>>
<1>1. t > count
  BY SpineAssumption DEF Opens, IInv, TypeOK
<1>2. Payment[t] = Money!Unmade
  BY <1>1, PaymentNow, PaymentAt
<1> QED
  BY <1>1, <1>2 DEF IInv, UnusedSlotsAreBlank

\* An open row stands for an open payment.
LEMMA ReplacesPayment ==
    ASSUME IInv, NEW t \in Transfer, NEW row \in Row, Replaces(t, row)
    PROVE  /\ Payment[t] = Money!Made("open", row.account, row.amount, hold[t] = "active",
                                      Money!Nothing, Money!NoEntry)
           /\ Stands(row, FALSE, Money!NoEntry) =
                  [Payment[t] EXCEPT !.state = PaymentState(row.status), !.reserves = FALSE]
           /\ \A entry : Stands(row, FALSE, entry) =
                  [Payment[t] EXCEPT !.state = PaymentState(row.status), !.reserves = FALSE,
                                     !.entry = entry]
<1>1. Payment[t] = Stands(transfers[t], hold[t] = "active", Money!NoEntry)
  BY PaymentNow, PaymentAt DEF Replaces
<1>2. /\ row.account = transfers[t].account /\ row.amount = transfers[t].amount
      /\ row.reversalOf = Money!Nothing /\ transfers[t].reversalOf = Money!Nothing
      /\ transfers[t].status = "pending"
  BY DEF Replaces, Money!Nothing, NotReversal, IsOpen
<1>3. PaymentState("pending") = "open"
  BY DEF PaymentState
<1>4. Payment[t] = Money!Made("open", row.account, row.amount, hold[t] = "active",
                              Money!Nothing, Money!NoEntry)
  BY <1>1, <1>2, <1>3 DEF Stands, Money!Made
<1>5. /\ Stands(row, FALSE, Money!NoEntry) =
             Money!Made(PaymentState(row.status), row.account, row.amount, FALSE, Money!Nothing, Money!NoEntry)
      /\ \A entry : Stands(row, FALSE, entry) =
             Money!Made(PaymentState(row.status), row.account, row.amount, FALSE, Money!Nothing, entry)
  BY <1>2 DEF Stands, Money!Made
<1> DEFINE reserved == hold[t] = "active"
           no == FALSE
<1>6. /\ Payment[t] = Money!Made("open", row.account, row.amount, reserved, Money!Nothing, Money!NoEntry)
      /\ Stands(row, no, Money!NoEntry) =
             Money!Made(PaymentState(row.status), row.account, row.amount, no, Money!Nothing, Money!NoEntry)
      /\ \A entry : Stands(row, no, entry) =
             Money!Made(PaymentState(row.status), row.account, row.amount, no, Money!Nothing, entry)
  BY <1>4, <1>5
<1> HIDE DEF reserved, no
<1>7. /\ Stands(row, no, Money!NoEntry) =
             [Payment[t] EXCEPT !.state = PaymentState(row.status), !.reserves = no]
      /\ \A entry : Stands(row, no, entry) =
             [Payment[t] EXCEPT !.state = PaymentState(row.status), !.reserves = no, !.entry = entry]
  <2> DEFINE p == Payment[t]
             u == PaymentState(row.status)
             a == row.account
             n == row.amount
  <2> HIDE DEF p, u, a, n
  <2>1. p = Money!Made("open", a, n, reserved, Money!Nothing, Money!NoEntry)
    BY <1>6 DEF p, a, n
  <2>2. [p EXCEPT !.state = u] = Money!Made(u, a, n, reserved, Money!Nothing, Money!NoEntry)
    BY <2>1 DEF Money!Made
  <2>3. [Money!Made(u, a, n, reserved, Money!Nothing, Money!NoEntry) EXCEPT !.reserves = no]
            = Money!Made(u, a, n, no, Money!Nothing, Money!NoEntry)
    BY DEF Money!Made
  <2>4. \A entry : [Money!Made(u, a, n, no, Money!Nothing, Money!NoEntry) EXCEPT !.entry = entry]
                       = Money!Made(u, a, n, no, Money!Nothing, entry)
    BY DEF Money!Made
  <2>5. /\ [p EXCEPT !.state = u, !.reserves = no] = [[p EXCEPT !.state = u] EXCEPT !.reserves = no]
        /\ \A entry : [p EXCEPT !.state = u, !.reserves = no, !.entry = entry]
                         = [[[p EXCEPT !.state = u] EXCEPT !.reserves = no] EXCEPT !.entry = entry]
    OBVIOUS
  <2>6. /\ Stands(row, no, Money!NoEntry) = [p EXCEPT !.state = u, !.reserves = no]
        /\ \A entry : Stands(row, no, entry)
                         = [p EXCEPT !.state = u, !.reserves = no, !.entry = entry]
    <3> DEFINE q == [[p EXCEPT !.state = u] EXCEPT !.reserves = no]
    <3>1. q = Money!Made(u, a, n, no, Money!Nothing, Money!NoEntry)
      BY <2>2, <2>3
    <3>2. [p EXCEPT !.state = u, !.reserves = no] = q
      BY <2>5
    <3>3. \A entry : [p EXCEPT !.state = u, !.reserves = no, !.entry = entry] = [q EXCEPT !.entry = entry]
      BY <2>5
    <3> HIDE DEF q
    <3>4. Stands(row, no, Money!NoEntry) = q
      BY <1>6, <3>1 DEF u, a, n
    <3>5. ASSUME NEW entry PROVE Stands(row, no, entry) = [q EXCEPT !.entry = entry]
      <4>1. Stands(row, no, entry) = Money!Made(u, a, n, no, Money!Nothing, entry)
        BY <1>6 DEF u, a, n
      <4>2. [q EXCEPT !.entry = entry] = Money!Made(u, a, n, no, Money!Nothing, entry)
        BY <2>4, <3>1
      <4> QED
        BY <4>1, <4>2
    <3> QED
      BY <3>2, <3>3, <3>4, <3>5
  <2> QED
    BY <2>6 DEF p, u
<1> QED
  BY <1>4, <1>7 DEF no

LEMMA States ==
    /\ PaymentState("pending") = "open" /\ PaymentState("succeeded") = "moved"
    /\ PaymentState("failed") = "dropped"
BY DEF PaymentState

LEMMA RowParts ==
    ASSUME NEW row \in Row
    PROVE  row.account \in Accounts /\ row.amount \in Amounts /\ row.amount \in Nat
BY AmountFacts DEF Row

\* Whoever can afford an amount has it among what he is owed.
LEMMA Affords ==
    ASSUME NEW a \in Accounts, NEW n, CanAfford(a, n)
    PROVE  Money!CanSpend(a, n)
BY DEF CanAfford, Money!CanSpend, Owed

HoldersAreCustomers == \A t \in Existing : hold[t] = "active" => transfers[t].account \in Customers

LEMMA Holders == RInv => HoldersAreCustomers
BY HolderIsCustomer DEF HoldersAreCustomers

LEMMA HoldersNext == RInv' => HoldersAreCustomers'
BY Holders, PTL

LEMMA PaysMaps ==
    ASSUME IInv, IInv', NEW t \in Transfer, NEW row \in Row, NEW entry \in Entry, Pays(t, row, entry)
    PROVE  Money!MoneyNext
<1>1. /\ Opens(t, row) /\ Posts(row, entry, Nil) /\ row.reversalOf = Money!Nothing
      /\ CanAfford(entry.debit, row.amount) /\ row.status = "succeeded"
      /\ entry.amount = row.amount /\ entry.debit # entry.credit
      /\ row.account \in {entry.debit, entry.credit}
      /\ entry.debit \in Accounts /\ entry.credit \in Accounts
  BY DEF Pays, Posts, Entry, Money!Nothing, NotReversal
<1>2. Payment[t] = Money!Unmade /\ hold[t] = "none" /\ hold' = [hold EXCEPT ![t] = "none"]
  <2>1. Payment[t] = Money!Unmade /\ hold[t] = "none"
    BY <1>1, OpensPayment
  <2> QED
    BY <2>1 DEF Pays, IInv, TypeOK
<1>3. /\ Payment' = [Payment EXCEPT ![t] = Stands(row, FALSE, EntryOf(t)')]
      /\ journal'[t] = <<entry>> /\ Pot' = Pot
  <2>1. journal' = [journal EXCEPT ![t] = <<entry>>]
    BY DEF Pays
  <2> QED
    BY <1>1, <1>2, <2>1, PaymentNext
<1>4. EntryOf(t)' = MappedEntry(entry)
  BY <1>3, EntryFacts
<1>5. Payment' = [Payment EXCEPT ![t] = Money!Made("moved", row.account, row.amount, FALSE, Money!Nothing,
                     [from |-> entry.debit, to |-> entry.credit, sum |-> row.amount])]
  BY <1>1, <1>3, <1>4, States DEF Stands, MappedEntry, Money!Made
<1>6. /\ Owed(ledger') = Money!Shift(Owed(ledger), entry.debit, entry.credit, row.amount)
      /\ Owed(available') = Money!Shift(Owed(available), entry.debit, entry.credit, row.amount)
  BY <1>1, OwedShifts, SpineAssumption
<1>7. Money!CanSpend(entry.debit, row.amount)
  BY <1>1, Affords
<1>8. Money!Pay(t, row.account, entry.debit, entry.credit, row.amount)
  BY <1>1, <1>2, <1>3, <1>5, <1>6, <1>7 DEF Money!Pay, Payment, Pot
<1>9. t \in Money!New
  BY <1>2 DEF Payment, Money!New
<1> QED
  BY <1>1, <1>8, <1>9, RowParts DEF Money!MoneyNext

LEMMA PromisesMaps ==
    ASSUME RInv, RInv', NEW t \in Transfer, NEW row \in Row, Promises(t, row)
    PROVE  Money!MoneyNext
<1>0. IInv
  BY DEF RInv
<1>1. /\ Opens(t, row) /\ row.reversalOf = Money!Nothing /\ row.status = "pending"
      /\ CanAfford(row.account, row.amount)
  BY DEF Promises, Money!Nothing, NotReversal
<1>2. Payment[t] = Money!Unmade /\ hold' = [hold EXCEPT ![t] = "active"] /\ journal' = [journal EXCEPT ![t] = <<>>]
  <2>1. Payment[t] = Money!Unmade /\ journal[t] = <<>>
    BY <1>0, <1>1, OpensPayment
  <2> QED
    BY <1>0, <2>1 DEF Promises, IInv, TypeOK
<1>3. /\ Payment' = [Payment EXCEPT ![t] = Stands(row, TRUE, EntryOf(t)')]
      /\ journal'[t] = <<>> /\ Pot' = Pot
  BY <1>0, <1>1, <1>2, PaymentNext
<1>4. EntryOf(t)' = Money!NoEntry
  BY <1>3, EntryFacts
<1>5. Payment' = [Payment EXCEPT ![t] = Money!Made("open", row.account, row.amount, TRUE, Money!Nothing,
                                                   Money!NoEntry)]
  BY <1>1, <1>3, <1>4, States DEF Stands, Money!Made
<1>6. row.account \in Customers
  <2>1. HoldersAreCustomers'
    BY HoldersNext
  <2>2. t \in Existing' /\ hold'[t] = "active" /\ transfers'[t] = row
    BY <1>0, <1>1, <1>2, SpineAssumption DEF Opens, Existing, Transfer, IInv, TypeOK
  <2> QED
    BY <2>1, <2>2 DEF HoldersAreCustomers
<1>7. Owed(available') = [Owed(available) EXCEPT ![row.account] = @ - row.amount] /\ Owed(ledger') = Owed(ledger)
  <2>1. available' = [available EXCEPT ![row.account] = @ - row.amount] /\ ledger' = ledger
    BY DEF Promises
  <2>2. row.amount \in Int
    BY RowParts
  <2> QED
    BY <1>0, <1>6, <2>1, <2>2, OwedChanges
<1>8. Money!Promise(t, row.account, row.amount)
  BY <1>1, <1>2, <1>3, <1>5, <1>7, Affords, RowParts DEF Money!Promise, Payment, Pot
<1>9. t \in Money!New
  BY <1>2 DEF Payment, Money!New
<1> QED
  BY <1>8, <1>9, RowParts DEF Money!MoneyNext

LEMMA NotesMaps ==
    ASSUME IInv, IInv', NEW t \in Transfer, NEW row \in Row, Notes(t, row)
    PROVE  Money!MoneyNext
<1>1. /\ Opens(t, row) /\ row.reversalOf = Money!Nothing /\ row.status \in {"pending", "failed"}
      /\ ledger' = ledger /\ available' = available
  BY DEF Notes, StillBalances, Money!Nothing, NotReversal
<1>2. /\ Payment[t] = Money!Unmade /\ hold' = [hold EXCEPT ![t] = "none"]
      /\ journal' = [journal EXCEPT ![t] = <<>>]
  <2>1. Payment[t] = Money!Unmade /\ hold[t] = "none" /\ journal[t] = <<>>
    BY <1>1, OpensPayment
  <2> QED
    BY <2>1 DEF Notes, StillBalances, IInv, TypeOK
<1>3. /\ Payment' = [Payment EXCEPT ![t] = Stands(row, FALSE, EntryOf(t)')]
      /\ journal'[t] = <<>> /\ Pot' = Pot
  <2>1. Payment' = [Payment EXCEPT ![t] = Stands(row, "none" = "active", EntryOf(t)')]
        /\ journal'[t] = <<>> /\ Pot' = Pot
    BY <1>1, <1>2, PaymentNext
  <2>2. ("none" = "active") = FALSE
    OBVIOUS
  <2> QED
    BY <2>1, <2>2
<1>4. EntryOf(t)' = Money!NoEntry
  BY <1>3, EntryFacts
<1>5. Owed(ledger') = Owed(ledger) /\ Owed(available') = Owed(available)
  BY <1>1
<1>6. Money!Expect(t, row.account, row.amount) \/ Money!Refuse(t, row.account, row.amount)
  <2>1. CASE row.status = "pending"
    <3>1. Payment' = [Payment EXCEPT ![t] = Money!Made("open", row.account, row.amount, FALSE, Money!Nothing,
                                                       Money!NoEntry)]
      BY <1>1, <1>3, <1>4, <2>1, States DEF Stands, Money!Made
    <3> QED
      BY <1>2, <1>3, <1>5, <3>1 DEF Money!Expect, Payment, Pot
  <2>2. CASE row.status = "failed"
    <3>1. Payment' = [Payment EXCEPT ![t] = Money!Made("dropped", row.account, row.amount, FALSE, Money!Nothing,
                                                       Money!NoEntry)]
      BY <1>1, <1>3, <1>4, <2>2, States DEF Stands, Money!Made
    <3> QED
      BY <1>2, <1>3, <1>5, <3>1 DEF Money!Refuse, Payment, Pot
  <2> QED
    BY <1>1, <2>1, <2>2
<1>7. t \in Money!New
  BY <1>2 DEF Payment, Money!New
<1> QED
  BY <1>6, <1>7, RowParts DEF Money!MoneyNext

LEMMA UndoesMaps ==
    ASSUME IInv, IInv', NEW t \in Transfer, NEW row \in Row, NEW entry \in Entry, Undoes(t, row, entry)
    PROVE  Money!MoneyNext
<1> DEFINE o == row.reversalOf
           e == journal[o][1]
<1>1. /\ Opens(t, row) /\ Posts(row, entry, Nil) /\ row.status = "succeeded"
      /\ entry.amount = row.amount /\ TakesBack(row, <<entry>>)
      /\ row.account = transfers[o].account /\ row.amount = transfers[o].amount
  BY DEF Undoes, Posts
<1>2. /\ o \in Existing /\ o \in Transfer
      /\ transfers[o].status = "succeeded" /\ transfers[o].reversalOf = Money!Nothing
      /\ entry.debit = e.credit /\ entry.credit = e.debit /\ entry.amount = e.amount
      /\ \A u \in Existing : transfers[u].reversalOf # o
  <2>1. <<entry>>[1] = entry
    OBVIOUS
  <2> QED
    BY <1>1, <2>1, ExistingFacts DEF TakesBack, Money!Nothing, NotReversal
<1>3. journal[o] = <<e>>
  <2>1. journal[o] \in Seq(Entry) /\ Len(journal[o]) = 1
    BY <1>2, ExistingFacts DEF Consistent
  <2> QED
    BY <2>1
<1>4. /\ Payment[o] = Stands(transfers[o], hold[o] = "active", MappedEntry(e))
      /\ Payment[o].state = "moved" /\ Payment[o].undoes = Money!Nothing
      /\ Payment[o].party = row.account /\ Payment[o].sum = row.amount
      /\ Payment[o].entry = MappedEntry(e)
  <2>1. EntryOf(o) = MappedEntry(e)
    BY <1>3, EntryFacts
  <2>2. Payment[o] = Stands(transfers[o], hold[o] = "active", MappedEntry(e))
    BY <1>2, <2>1, PaymentNow, PaymentAt
  <2> HIDE DEF o, e
  <2> QED
    BY <1>1, <1>2, <2>2, States DEF Stands
<1>5. \A q \in Transfer : Payment[q] # Money!Unmade => Payment[q].undoes # o
  <2>1. SUFFICES ASSUME NEW q \in Transfer, Payment[q] # Money!Unmade PROVE Payment[q].undoes # o
    OBVIOUS
  <2>2. q \in Existing
    <3>1. ~(q > count)
      BY <2>1, PaymentNow, PaymentAt
    <3> QED
      BY <3>1, SpineAssumption DEF IInv, TypeOK, Existing, Transfer
  <2>3. Payment[q] = Stands(transfers[q], hold[q] = "active", EntryOf(q))
    BY <2>2, PaymentNow, PaymentAt
  <2>4. Payment[q].undoes = transfers[q].reversalOf
    BY <2>3 DEF Stands
  <2> QED
    BY <1>2, <2>2, <2>4
<1>6. Payment[t] = Money!Unmade /\ hold[t] = "none" /\ hold' = [hold EXCEPT ![t] = "none"]
  <2>1. Payment[t] = Money!Unmade /\ hold[t] = "none"
    BY <1>1, OpensPayment
  <2> QED
    BY <2>1 DEF Undoes, IInv, TypeOK
<1>7. /\ Payment' = [Payment EXCEPT ![t] = Stands(row, FALSE, EntryOf(t)')]
      /\ journal'[t] = <<entry>> /\ Pot' = Pot
  <2>1. journal' = [journal EXCEPT ![t] = <<entry>>]
    BY DEF Undoes
  <2>2. /\ Payment' = [Payment EXCEPT ![t] = Stands(row, "none" = "active", EntryOf(t)')]
        /\ journal'[t] = <<entry>> /\ Pot' = Pot
    <3>1. Opens(t, row) /\ hold' = [hold EXCEPT ![t] = "none"]
      BY <1>1, <1>6
    <3> QED
      BY ONLY IInv, t \in Transfer, row \in Row, <2>1, <3>1, PaymentNext
  <2> QED
    BY <2>2
<1>8. EntryOf(t)' = MappedEntry(entry)
  BY <1>7, EntryFacts
<1>9. /\ Owed(ledger') = Money!Shift(Owed(ledger), entry.debit, entry.credit, entry.amount)
      /\ Owed(available') = Money!Shift(Owed(available), entry.debit, entry.credit, entry.amount)
  BY <1>1, OwedShifts, SpineAssumption
<1>10. /\ Payment[o].entry.from = entry.credit /\ Payment[o].entry.to = entry.debit
       /\ Payment[o].entry.sum = entry.amount
  BY <1>2, <1>4 DEF MappedEntry
<1> HIDE DEF o, e
<1>11. Payment' = [Payment EXCEPT ![t] = Money!Made("moved", row.account, row.amount, FALSE, o,
                      [from |-> entry.debit, to |-> entry.credit, sum |-> entry.amount])]
  BY <1>1, <1>7, <1>8, States DEF Stands, MappedEntry, Money!Made, o
<1>12. Money!Undo(t, o)
  BY <1>4, <1>5, <1>6, <1>7, <1>9, <1>10, <1>11 DEF Money!Undo, Payment, Pot
<1>13. t \in Money!New
  BY <1>6 DEF Payment, Money!New
<1> QED
  BY <1>2, <1>12, <1>13 DEF Money!MoneyNext

\* Changing fields of one payment.
LEMMA EndsAt ==
    ASSUME NEW t \in Transfer, NEW u, NEW no, NEW entry
    PROVE  /\ [Payment EXCEPT ![t].state = u, ![t].reserves = no]
                  = [Payment EXCEPT ![t] = [Payment[t] EXCEPT !.state = u, !.reserves = no]]
           /\ [Payment EXCEPT ![t].state = u, ![t].reserves = no, ![t].entry = entry]
                  = [Payment EXCEPT ![t] = [Payment[t] EXCEPT !.state = u, !.reserves = no, !.entry = entry]]
<1>1. DOMAIN Payment = Transfer
  BY DEF Payment
<1> QED
  BY <1>1

\* An open row is replaced by one that stands for its ended payment.
WasOpen(t, row) ==
    /\ Payment[t].state = "open" /\ Payment[t].party = row.account /\ Payment[t].sum = row.amount
    /\ Payment[t].reserves <=> hold[t] = "active"
    /\ t \in Money!Open

LEMMA ReplacedPayment ==
    ASSUME IInv, NEW t \in Transfer, NEW row \in Row, Replaces(t, row)
    PROVE  WasOpen(t, row)
<1>1. Payment[t] = Money!Made("open", row.account, row.amount, hold[t] = "active",
                              Money!Nothing, Money!NoEntry)
  BY ReplacesPayment
<1>2. /\ Payment[t].state = "open" /\ Payment[t].party = row.account /\ Payment[t].sum = row.amount
      /\ Payment[t].reserves = (hold[t] = "active")
  BY <1>1 DEF Money!Made
<1>3. t \in Money!Open
  BY <1>2 DEF Payment, Money!Open
<1> QED
  BY <1>2, <1>3 DEF WasOpen

LEMMA EndedPayment ==
    ASSUME IInv, NEW t \in Transfer, NEW row \in Row, Replaces(t, row), row.status # "pending",
           NEW h, h # "active", hold' = [hold EXCEPT ![t] = h],
           NEW j, journal' = [journal EXCEPT ![t] = j]
    PROVE  Payment' = [Payment EXCEPT ![t] = Stands(row, FALSE, EntryOf(t)')] /\ journal'[t] = j
<1>1. Payment' = [Payment EXCEPT ![t] = Stands(row, h = "active", EntryOf(t)')] /\ journal'[t] = j
  BY PaymentNext
<1>2. (h = "active") = FALSE
  OBVIOUS
<1> QED
  BY <1>1, <1>2

LEMMA BrokenPayment ==
    ASSUME IInv, NEW t \in Transfer, NEW row \in Row, Replaces(t, row), row.status = "failed",
           NEW h, h # "active", hold' = [hold EXCEPT ![t] = h],
           journal' = [journal EXCEPT ![t] = <<>>]
    PROVE  Payment' = [Payment EXCEPT ![t].state = "dropped", ![t].reserves = FALSE]
<1>1. Payment' = [Payment EXCEPT ![t] = Stands(row, FALSE, EntryOf(t)')] /\ journal'[t] = <<>>
  BY EndedPayment
<1>2. EntryOf(t)' = Money!NoEntry
  BY <1>1, EntryFacts
<1>3. Stands(row, FALSE, Money!NoEntry) = [Payment[t] EXCEPT !.state = "dropped", !.reserves = FALSE]
  <2>1. Stands(row, FALSE, Money!NoEntry) =
            [Payment[t] EXCEPT !.state = PaymentState(row.status), !.reserves = FALSE]
    BY ReplacesPayment
  <2>2. PaymentState(row.status) = "dropped"
    BY States
  <2> QED
    BY <2>1, <2>2, Zenon
<1>4. Payment' = [Payment EXCEPT ![t] = [Payment[t] EXCEPT !.state = "dropped", !.reserves = FALSE]]
  BY <1>1, <1>2, <1>3
<1> QED
  BY <1>4, EndsAt, Zenon

LEMMA FulfilledPayment ==
    ASSUME IInv, NEW t \in Transfer, NEW row \in Row, Replaces(t, row), row.status = "succeeded",
           NEW h, h # "active", hold' = [hold EXCEPT ![t] = h],
           NEW entry, journal' = [journal EXCEPT ![t] = <<entry>>]
    PROVE  Payment' = [Payment EXCEPT ![t].state = "moved", ![t].reserves = FALSE,
                                      ![t].entry = MappedEntry(entry)]
<1>1. Payment' = [Payment EXCEPT ![t] = Stands(row, FALSE, EntryOf(t)')] /\ journal'[t] = <<entry>>
  BY EndedPayment
<1>2. EntryOf(t)' = MappedEntry(entry)
  BY <1>1, EntryFacts
<1>3. Stands(row, FALSE, MappedEntry(entry)) =
          [Payment[t] EXCEPT !.state = "moved", !.reserves = FALSE, !.entry = MappedEntry(entry)]
  <2>1. \A e : Stands(row, FALSE, e) =
                  [Payment[t] EXCEPT !.state = PaymentState(row.status), !.reserves = FALSE, !.entry = e]
    BY ReplacesPayment
  <2>2. PaymentState(row.status) = "moved"
    BY States
  <2> QED
    BY <2>1, <2>2, Zenon
<1>4. Payment' = [Payment EXCEPT ![t] =
                     [Payment[t] EXCEPT !.state = "moved", !.reserves = FALSE, !.entry = MappedEntry(entry)]]
  BY <1>1, <1>2, <1>3
<1> QED
  BY <1>4, EndsAt, Zenon

\* What Break needs, by what the payment reserves.
LEMMA BreakIs ==
    ASSUME NEW t, Payment[t].state = "open",
           Payment' = [Payment EXCEPT ![t].state = "dropped", ![t].reserves = FALSE],
           Owed(ledger') = Owed(ledger), Pot' = Pot,
           \/ /\ Payment[t].reserves
              /\ Owed(available') = [Owed(available) EXCEPT ![Payment[t].party] = @ + Payment[t].sum]
           \/ ~Payment[t].reserves /\ Owed(available') = Owed(available)
    PROVE  Money!Break(t)
BY DEF Money!Break, Payment, Pot

LEMMA FulfilsMaps ==
    ASSUME RInv, RInv', NEW t \in Transfer, NEW row \in Row, NEW entry \in Entry, Fulfils(t, row, entry)
    PROVE  Money!MoneyNext
<1>0. IInv /\ IInv' /\ t \in Existing
  BY DEF RInv, Fulfils, Replaces
<1>1. /\ Replaces(t, row) /\ row.status = "succeeded"
      /\ journal' = [journal EXCEPT ![t] = <<entry>>]
      /\ entry.amount = row.amount /\ entry.debit # entry.credit
      /\ entry.debit \in Accounts /\ entry.credit \in Accounts
  BY DEF Fulfils, Posts, Entry
<1>2. WasOpen(t, row) /\ Pot' = Pot
  BY <1>0, <1>1, ReplacedPayment DEF Replaces, Pot
<1>3. CASE /\ hold[t] = "active" /\ hold' = [hold EXCEPT ![t] = "consumed"]
           /\ Posts(row, entry, row.account) /\ entry.debit = row.account
  <2>1. Payment' = [Payment EXCEPT ![t].state = "moved", ![t].reserves = FALSE,
                                   ![t].entry = MappedEntry(entry)]
    BY <1>0, <1>1, <1>3, FulfilledPayment
  <2>2. /\ Owed(ledger') = Money!Shift(Owed(ledger), entry.debit, entry.credit, entry.amount)
        /\ Owed(available') = [Owed(available) EXCEPT ![entry.credit] = @ + entry.amount]
    BY <1>0, <1>3, OwedShifts
  <2>3. Money!Fulfil(t, entry.credit)
    <3> DEFINE a == row.account
               other == entry.credit
               n == row.amount
    <3>1. Payment[t].state = "open" /\ Payment[t].party = a /\ Payment[t].sum = n /\ other # a
      BY <1>1, <1>2, <1>3 DEF WasOpen
    <3>2. /\ Payment[t].reserves
          /\ Payment' = [Payment EXCEPT ![t].state = "moved", ![t].reserves = FALSE,
                                        ![t].entry = [from |-> a, to |-> other, sum |-> n]]
      BY <1>1, <1>2, <1>3, <2>1 DEF WasOpen, MappedEntry
    <3>3. /\ Owed(ledger') = Money!Shift(Owed(ledger), a, other, n)
          /\ Owed(available') = [Owed(available) EXCEPT ![other] = @ + n]
      BY <1>1, <1>3, <2>2
    <3> HIDE DEF a, other, n
    <3>4. Money!Fulfil(t, other)
      BY <1>2, <3>1, <3>2, <3>3 DEF Money!Fulfil, Payment, Pot
    <3> QED
      BY <3>4 DEF other
  <2> QED
    BY <1>1, <1>2, <2>3 DEF Money!MoneyNext, WasOpen
<1>4. CASE /\ hold[t] # "active" /\ hold' = hold
           /\ Posts(row, entry, Nil)
           /\ entry.credit = row.account /\ entry.debit \in Settlement
  <2>1. hold' = [hold EXCEPT ![t] = hold[t]]
    BY <1>0, <1>4 DEF IInv, TypeOK
  <2>2. Payment' = [Payment EXCEPT ![t].state = "moved", ![t].reserves = FALSE,
                                   ![t].entry = MappedEntry(entry)]
    BY <1>0, <1>1, <1>4, <2>1, FulfilledPayment
  <2>3. /\ Owed(ledger') = Money!Shift(Owed(ledger), entry.debit, entry.credit, entry.amount)
        /\ Owed(available') = Money!Shift(Owed(available), entry.debit, entry.credit, entry.amount)
    BY <1>0, <1>4, OwedShifts, SpineAssumption
  <2>4. Money!CanSpend(entry.debit, row.amount)
    <3>1. entry.debit \notin Customers
      BY <1>4, AccountsAssumption
    <3> QED
      BY <3>1 DEF Money!CanSpend
  <2>5. Money!Fulfil(t, entry.debit)
    <3> DEFINE a == row.account
               other == entry.debit
               n == row.amount
    <3>1. Payment[t].state = "open" /\ Payment[t].party = a /\ Payment[t].sum = n /\ other # a
      BY <1>1, <1>2, <1>4 DEF WasOpen
    <3>2. /\ ~Payment[t].reserves
          /\ Payment' = [Payment EXCEPT ![t].state = "moved", ![t].reserves = FALSE,
                                        ![t].entry = [from |-> other, to |-> a, sum |-> n]]
      BY <1>1, <1>2, <1>4, <2>2 DEF WasOpen, MappedEntry
    <3>3. /\ Owed(ledger') = Money!Shift(Owed(ledger), other, a, n)
          /\ Owed(available') = Money!Shift(Owed(available), other, a, n)
          /\ Money!CanSpend(other, n)
      BY <1>1, <1>4, <2>3, <2>4
    <3> HIDE DEF a, other, n
    <3>4. Money!Fulfil(t, other)
      BY <1>2, <3>1, <3>2, <3>3 DEF Money!Fulfil, Payment, Pot
    <3> QED
      BY <3>4 DEF other
  <2> QED
    BY <1>1, <1>2, <2>5 DEF Money!MoneyNext, WasOpen
<1> QED
  BY <1>3, <1>4 DEF Fulfils

LEMMA BreaksMaps ==
    ASSUME RInv, NEW t \in Transfer, NEW row \in Row, Breaks(t, row)
    PROVE  Money!MoneyNext
<1>0. IInv /\ t \in Existing
  BY DEF RInv, Breaks, Replaces
<1>1. /\ Replaces(t, row) /\ row.status = "failed"
      /\ journal' = [journal EXCEPT ![t] = <<>>] /\ ledger' = ledger
  <2>1. journal[t] = <<>>
    BY <1>0, NoEntryBefore DEF Breaks, Replaces
  <2> QED
    BY <1>0, <2>1 DEF Breaks, IInv, TypeOK
<1>2. WasOpen(t, row) /\ Pot' = Pot
  BY <1>0, <1>1, ReplacedPayment DEF Replaces, Pot
<1>3. CASE /\ hold[t] = "active" /\ hold' = [hold EXCEPT ![t] = "released"]
           /\ available' = [available EXCEPT ![row.account] = @ + row.amount]
  <2>1. Payment' = [Payment EXCEPT ![t].state = "dropped", ![t].reserves = FALSE]
    BY <1>0, <1>1, <1>3, BrokenPayment
  <2>2. row.account \in Customers
    BY <1>0, <1>1, <1>3, Holders DEF HoldersAreCustomers, Replaces
  <2>3. Owed(available') = [Owed(available) EXCEPT ![row.account] = @ + row.amount]
    <3>1. row.amount \in Int
      BY RowParts
    <3> QED
      BY <1>0, <1>3, <2>2, <3>1, OwedChanges
  <2>4. Money!Break(t)
    BY <1>1, <1>2, <1>3, <2>1, <2>3, BreakIs DEF WasOpen
  <2> QED
    BY <1>2, <2>4 DEF Money!MoneyNext, WasOpen
<1>4. CASE hold[t] # "active" /\ UNCHANGED <<hold, available>>
  <2>1. hold' = [hold EXCEPT ![t] = hold[t]]
    BY <1>0, <1>4 DEF IInv, TypeOK
  <2>2. Payment' = [Payment EXCEPT ![t].state = "dropped", ![t].reserves = FALSE]
    BY <1>0, <1>1, <1>4, <2>1, BrokenPayment
  <2>3. Money!Break(t)
    BY <1>1, <1>2, <1>4, <2>2, BreakIs DEF WasOpen
  <2> QED
    BY <1>2, <2>3 DEF Money!MoneyNext, WasOpen
<1> QED
  BY <1>3, <1>4 DEF Breaks

\* What MoneyMovement does not see: a transfer that goes on waiting, an account
\* that is blocked.
Still == UNCHANGED <<Payment, Pot, Owed(ledger), Owed(available)>>

LEMMA WaitsMaps ==
    ASSUME IInv, NEW t \in Transfer, NEW row \in Row, Waits(t, row)
    PROVE  Still
<1>1. /\ Replaces(t, row) /\ row.status = "pending" /\ t \in Existing
      /\ ledger' = ledger /\ available' = available /\ journal' = journal /\ hold' = hold
  BY DEF Waits, StillBalances, Replaces
<1>2. journal[t] = <<>>
  BY <1>1, NoEntryBefore DEF Replaces
<1>3. hold' = [hold EXCEPT ![t] = hold[t]] /\ journal' = [journal EXCEPT ![t] = <<>>]
  BY <1>1, <1>2 DEF IInv, TypeOK
<1>4. /\ Payment' = [Payment EXCEPT ![t] = Stands(row, hold[t] = "active", EntryOf(t)')]
      /\ journal'[t] = <<>> /\ Pot' = Pot
  BY <1>1, <1>3, PaymentNext
<1>5. EntryOf(t)' = Money!NoEntry
  BY <1>4, EntryFacts
<1>6. Payment[t] = Stands(row, hold[t] = "active", Money!NoEntry)
  <2>1. Payment[t] = Money!Made("open", row.account, row.amount, hold[t] = "active",
                                Money!Nothing, Money!NoEntry)
    BY <1>1, ReplacesPayment
  <2>2. row.reversalOf = Money!Nothing
    BY <1>1 DEF Replaces, Money!Nothing, NotReversal
  <2> QED
    BY <1>1, <2>1, <2>2, States DEF Stands, Money!Made
<1>7. Payment' = Payment
  <2>1. Payment' = [Payment EXCEPT ![t] = Payment[t]]
    BY <1>4, <1>5, <1>6
  <2>2. Payment = [u \in Transfer |-> Payment[u]]
    BY DEF Payment
  <2> QED
    BY <2>1, <2>2
<1> QED
  BY <1>1, <1>4, <1>7 DEF Still

LEMMA RestsMaps ==
    ASSUME Rests
    PROVE  Still
BY DEF Rests, NoRowMoves, Still, Payment, PaymentOf, EntryOf, Pot, Owed

LEMMA PlacesLienMaps ==
    ASSUME IInv, PlacesLien
    PROVE  Money!MoneyNext
<1>1. PICK a \in Customers, r \in LienReferences, n \in Amounts : PlaceAccountLien(a, r, n)
  BY DEF PlacesLien
<1>2. a \in Accounts /\ n \in Int
  BY AmountFacts DEF Accounts
<1>3. Pot[r] = Money!Empty /\ Pot' = [Pot EXCEPT ![r] = [party |-> a, sum |-> n]]
  <2>1. lien[r] = NoLien /\ lien' = [lien EXCEPT ![r] = [account |-> a, amount |-> n]]
        /\ DOMAIN lien = LienReferences
    BY <1>1 DEF PlaceAccountLien, IInv, TypeOK
  <2>2. Pot[r] = Money!Empty
    BY <2>1 DEF Pot, NoLien, Money!Empty
  <2>3. lien'[r] = [account |-> a, amount |-> n] /\ \A q \in LienReferences : q # r => lien'[q] = lien[q]
    BY <2>1
  <2>4. Pot' = [Pot EXCEPT ![r] = [party |-> a, sum |-> n]]
    <3>1. ASSUME NEW q \in LienReferences
          PROVE  Pot'[q] = (IF q = r THEN [party |-> a, sum |-> n] ELSE Pot[q])
      BY <2>3 DEF Pot
    <3>2. Pot = [q \in LienReferences |-> Pot[q]] /\ Pot' = [q \in LienReferences |-> Pot'[q]]
      BY DEF Pot
    <3> QED
      BY <3>1, <3>2
  <2> QED
    BY <2>2, <2>4
<1>4. Owed(available') = [Owed(available) EXCEPT ![a] = @ - n]
  BY <1>1, <1>2, OwedChanges DEF PlaceAccountLien
<1>5. Money!CanSpend(a, n)
  <2>1. CanAfford(a, n)
    BY <1>1 DEF PlaceAccountLien, CanAfford
  <2> QED
    BY <1>2, <2>1, Affords
<1>6. UNCHANGED <<Payment, Owed(ledger)>>
  BY <1>1 DEF PlaceAccountLien, Payment, PaymentOf, EntryOf, Owed
<1>7. Money!SetAside(r, a, n)
  BY <1>3, <1>4, <1>5, <1>6 DEF Money!SetAside, Payment, Pot
<1> QED
  BY <1>7 DEF Money!MoneyNext

LEMMA ReleasesLienMaps ==
    ASSUME IInv, ReleasesLien
    PROVE  Money!MoneyNext
<1>1. PICK r \in LienReferences : ReleaseAccountLien(r)
  BY DEF ReleasesLien
<1> DEFINE a == lien[r].account
           n == lien[r].amount
<1>2. /\ a \in Customers /\ n \in Int /\ lien[r] = [account |-> a, amount |-> n]
      /\ DOMAIN lien = LienReferences
  BY <1>1, AmountFacts DEF ReleaseAccountLien, IInv, TypeOK
<1>3. /\ Pot[r] # Money!Empty /\ Pot[r].party = a /\ Pot[r].sum = n
      /\ Pot' = [Pot EXCEPT ![r] = Money!Empty]
  <2>1. Pot[r] = [party |-> a, sum |-> n]
    BY DEF Pot
  <2>2. n # 0
    BY <1>1, AmountFacts DEF ReleaseAccountLien, IInv, TypeOK
  <2>3. lien'[r] = NoLien /\ \A q \in LienReferences : q # r => lien'[q] = lien[q]
    BY <1>1, <1>2 DEF ReleaseAccountLien
  <2>4. Pot' = [Pot EXCEPT ![r] = Money!Empty]
    <3>1. ASSUME NEW q \in LienReferences
          PROVE  Pot'[q] = (IF q = r THEN Money!Empty ELSE Pot[q])
      BY <2>3 DEF Pot, NoLien, Money!Empty
    <3>2. Pot = [q \in LienReferences |-> Pot[q]] /\ Pot' = [q \in LienReferences |-> Pot'[q]]
      BY DEF Pot
    <3> QED
      BY <3>1, <3>2
  <2> HIDE DEF a, n
  <2> QED
    BY <2>1, <2>2, <2>4 DEF Money!Empty
<1>4. Owed(available') = [Owed(available) EXCEPT ![a] = @ + n]
  <2>1. available' = [available EXCEPT ![a] = @ + n]
    BY <1>1 DEF ReleaseAccountLien
  <2> HIDE DEF a, n
  <2> QED
    BY <1>2, <2>1, OwedChanges
<1>5. UNCHANGED <<Payment, Owed(ledger)>>
  BY <1>1 DEF ReleaseAccountLien, Payment, PaymentOf, EntryOf, Owed
<1> HIDE DEF a, n
<1>6. Money!GiveBack(r)
  BY <1>3, <1>4, <1>5 DEF Money!GiveBack, Payment, Pot
<1> QED
  BY <1>6 DEF Money!MoneyNext

-----------------------------------------------------------------------------
LEMMA InitMaps == Init => Money!MoneyInit
<1> SUFFICES ASSUME Init PROVE Money!MoneyInit
  OBVIOUS
<1>1. Payment = [t \in Transfer |-> Money!Unmade]
  <2>1. \A t \in Transfer : t > count
    BY SpineAssumption DEF Init, Transfer
  <2>2. \A t \in Transfer : PaymentOf(t) = Money!Unmade
    BY <2>1 DEF PaymentOf, Money!Unmade
  <2> QED
    BY <2>2 DEF Payment
<1>2. Pot = [r \in LienReferences |-> Money!Empty]
  BY DEF Init, Pot, NoLien, Money!Empty
<1>3. Owed(ledger) = Owed(Opening) /\ Owed(available) = Owed(Opening)
  BY DEF Init
<1> QED
  BY <1>1, <1>2, <1>3 DEF Money!MoneyInit, Payment, Pot

LEMMA NextMaps ==
    ASSUME RInv, RInv', [Next]_vars
    PROVE  [Money!MoneyNext]_(Money!moneyVars)
<1>1. IInv /\ IInv' /\ Movement
  BY Movements DEF RInv
<1>2. CASE Money!MoneyNext
  BY <1>2
<1>3. CASE Still
  BY <1>3 DEF Still, Money!moneyVars, Payment, Pot
<1>4. ASSUME NEW t \in Transfer, NEW row \in Row, NEW entry \in Entry,
             Pays(t, row, entry) \/ Undoes(t, row, entry) \/ Fulfils(t, row, entry)
      PROVE  Money!MoneyNext
  BY <1>1, <1>4, PaysMaps, UndoesMaps, FulfilsMaps
<1>5. ASSUME NEW t \in Transfer, NEW row \in Row, Promises(t, row) \/ Notes(t, row) \/ Breaks(t, row)
      PROVE  Money!MoneyNext
  BY <1>1, <1>5, PromisesMaps, NotesMaps, BreaksMaps
<1>6. ASSUME NEW t \in Transfer, NEW row \in Row, Waits(t, row)
      PROVE  Still
  BY <1>1, <1>6, WaitsMaps
<1>7. CASE PlacesLien \/ ReleasesLien
  BY <1>1, <1>2, <1>7, PlacesLienMaps, ReleasesLienMaps
<1>8. CASE Rests
  BY <1>3, <1>8, RestsMaps
<1> QED
  BY <1>1, <1>2, <1>3, <1>4, <1>5, <1>6, <1>7, <1>8 DEF Movement

\* Every payment moves its money once or not at all, reserves before it waits,
\* and is undone at most once: whatever requests, late answers, reviews,
\* reversals and liens a history of CreateTransfer, SettlePendingTransfer and
\* the completion paths is made of (sql_transfer_repository.go).
THEOREM MoneyMovementImplemented == Spec => ImplementsMoneyMovement
<1>1. Init => Money!MoneyInit
  BY InitMaps
<1>2. RInv /\ RInv' /\ [Next]_vars => [Money!MoneyNext]_(Money!moneyVars)
  BY NextMaps
<1> QED
  BY <1>1, <1>2, RecordsInvariance, PTL DEF Spec, ImplementsMoneyMovement, Money!MoneySpec

=============================================================================
