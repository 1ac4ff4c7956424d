-------------------------- MODULE SpineProperties ---------------------------
(***************************************************************************)
(* What the transactions of TransferSpine promise.  The invariants and     *)
(* action properties state the rules of docs/ARCHITECTURE_DECISIONS.md and *)
(* docs/TEST_PLAN.md and the assumptions the SQL relies on without         *)
(* checking them.  The last section states two rules the documents give    *)
(* and the code breaks.                                                    *)
(***************************************************************************)
EXTENDS Statements

-----------------------------------------------------------------------------
(***************************************************************************)
(* Balances.                                                               *)
(***************************************************************************)
\* What the active holds on account a reserve: transfers' holds and liens.
Held(a) ==
    SumFunction([t \in Transfer |->
                    IF hold[t] = "active" /\ transfers[t].account = a THEN transfers[t].amount ELSE 0])
  + SumFunction([r \in LienReferences |-> IF lien[r].account = a THEN lien[r].amount ELSE 0])

\* The available balance of every account is its ledger balance less its
\* active holds, whatever mixture of holds, liens, settlements, requeries and
\* reversals touched the two columns, which are updated by separate deltas.
AvailableIsLedgerLessHolds == \A a \in Accounts : available[a] = ledger[a] - Held(a)

\* Credits less debits posted to account a.
NetCredit(entry, a) ==
    (IF entry.credit = a THEN entry.amount ELSE 0) - (IF entry.debit = a THEN entry.amount ELSE 0)

NetCredits(a) ==
    SumFunction([t \in Transfer |->
                    SumFunction([i \in DOMAIN journal[t] |-> NetCredit(journal[t][i], a)])])

\* The ledger balance of every account can be rebuilt from its postings.
LedgerReconcilesWithPostings ==
    /\ \A c \in Customers : ledger[c] = Opening[c] + NetCredits(c)
    /\ \A s \in Settlement : ledger[s] = Opening[s] - NetCredits(s)

\* Every statement adds up to its account's ledger balance, also for the other
\* side of a transfer, a settlement account and both accounts of a reversal,
\* and shows each amount in its own direction.
StatementsAddUp ==
    \A a \in Accounts :
        /\ ledger[a] = Opening[a] + SumFunction([t \in StatementLines(a) |-> SignedAmount(t, a)])
        /\ \A t \in StatementLines(a) :
              SignedAmount(t, a) # 0 => (ShownDirection(t, a) = "credit" <=> SignedAmount(t, a) > 0)

\* A line stays on its statement and keeps its direction, from the pending
\* transfer to its outcome.
StatementLinesStay ==
    [][\A a \in Accounts : \A t \in StatementLines(a) :
          t \in StatementLines(a)' /\ ShownDirection(t, a)' = ShownDirection(t, a)]_vars

\* Balances move only with the journal: a transaction that changes a ledger
\* balance appends one entry, to one transfer, and moves both its accounts by
\* the entry's amount; no transaction removes or rewrites an entry.
LedgerFollowsJournal ==
    [][\/ UNCHANGED <<ledger, journal>>
       \/ \E t \in Transfer : \E entry \in {JournalEntry([account |-> a, clearing |-> b, amount |-> n,
                                                          direction |-> "outbound"]) :
                                               a, b \in Accounts, n \in Amounts} :
             /\ journal' = [journal EXCEPT ![t] = Append(@, entry)]
             /\ \A a \in Accounts :
                   ledger'[a] = ledger[a] + (IF a \in Customers THEN NetCredit(entry, a)
                                                                ELSE -NetCredit(entry, a))]_vars

\* Only a reversal may take the available balance of a customer further below
\* zero; no order of debits, transfers, holds and liens overspends an account.
NoOverspend ==
    [][\A c \in Customers :
          available'[c] < available[c] /\ available'[c] < 0
              => count' > count /\ transfers'[count'].reversalOf # NotReversal]_vars

\* The balance of a frozen account does not move, from either side of any
\* posting; an account under post-no-debit is not debited by its own request
\* (taking back an internal transfer it received still debits it).
BlockedAccountsKeepTheirMoney ==
    [][\A c \in Customers :
          /\ accountStatus[c] = "frozen" => ledger'[c] = ledger[c]
          /\ accountStatus[c] = "post_no_debit" /\ ledger'[c] < ledger[c]
                 => /\ count' > count
                    /\ transfers'[count'].reversalOf # NotReversal
                    /\ transfers'[count'].account # c]_vars

-----------------------------------------------------------------------------
(***************************************************************************)
(* Transfers, holds and journals.                                          *)
(***************************************************************************)
IsOpen(t) == transfers[t].status = "pending"

\* The hold of a transfer tells its story: active exactly while an outbound
\* transfer is pending, consumed only by success, released only by failure.
\* The settling code reads the hold and the status in separate queries and
\* relies on this to find a hold for every transfer it settles.
HoldMirrorsTransfer ==
    \A t \in Existing :
        /\ hold[t] = "active" <=> (IsOpen(t) /\ transfers[t].direction = "outbound")
        /\ hold[t] = "consumed" => transfers[t].status = "succeeded"
        /\ hold[t] = "released" => transfers[t].status = "failed"

\* A transfer has one journal entry, of its own amount and touching its own
\* account, exactly when it succeeded, and its ledger status says so.
JournalMatchesOutcome ==
    \A t \in Existing :
        LET row == transfers[t]
            succeeded == row.status = "succeeded"
        IN  /\ Len(journal[t]) = (IF succeeded THEN 1 ELSE 0)
            /\ row.journalled <=> succeeded
            /\ row.ledgerStatus \in {"posted", "reversal_deficit"} <=> succeeded
            /\ succeeded => /\ journal[t][1].amount = row.amount
                            /\ row.account \in {journal[t][1].debit, journal[t][1].credit}

\* An outcome is final: once a transfer is no longer pending no late answer,
\* duplicate event, requery or reversal changes its row, hold or journal.
OutcomeIsFinal ==
    [][\A t \in Existing :
          ~IsOpen(t) => /\ transfers'[t] = transfers[t]
                        /\ hold'[t] = hold[t]
                        /\ journal'[t] = journal[t]]_vars

-----------------------------------------------------------------------------
(***************************************************************************)
(* Replays.                                                                *)
(***************************************************************************)
\* An idempotency key names one transfer for ever, among all the operations
\* that create transfers, reviews of inbound events included.
KeyNamesOneTransfer ==
    \A t, u \in Existing : transfers[t].key = transfers[u].key => t = u

\* Two requests to move money between the institution's own accounts never post
\* under one reference and direction, even with different idempotency keys.
InternalReferencePostsOnce ==
    \A t, u \in Existing :
        /\ transfers[t].provider = "ledger_internal"
        /\ transfers[t].reference # Nil /\ transfers[t].reversalOf = NotReversal
        /\ SameReference(u, transfers[t])
        => t = u

\* A provider event credits or debits once: the transfer an event is linked to
\* never changes, and a posted transfer that carries an event is the one the
\* event is linked to, also when the event was first kept for review.
EventLinkIsPermanent ==
    [][\A e \in Events : events[e].transfer # 0 => events'[e] = events[e]]_vars

PostedEventIsLinked ==
    \A t \in Existing :
        transfers[t].journalled /\ transfers[t].event # Nil => events[transfers[t].event].transfer = t

-----------------------------------------------------------------------------
(***************************************************************************)
(* Reversals and audit.                                                    *)
(***************************************************************************)
\* A reversal is the mirror image of a posted transfer that is not itself a
\* reversal, and no transfer is taken back twice.
ReversalMirrorsOriginal ==
    \A r \in Existing :
        LET o == transfers[r].reversalOf
        IN  o # NotReversal =>
                /\ o < r
                /\ transfers[o].status = "succeeded" /\ transfers[o].reversalOf = NotReversal
                /\ transfers[r].status = "succeeded"
                /\ journal[r][1].debit = journal[o][1].credit
                /\ journal[r][1].credit = journal[o][1].debit
                /\ journal[r][1].amount = journal[o][1].amount
                /\ \A u \in Existing : transfers[u].reversalOf = o => u = r

\* Every final outcome that is not a reversal left an audit event with that
\* outcome.  (The code writes none for reversals, nor for an outbound transfer
\* that a demo route records with a final outcome.)
OutcomesAreAudited ==
    \A t \in Existing :
        ~IsOpen(t) /\ transfers[t].reversalOf = NotReversal => <<t, transfers[t].status>> \in audit

-----------------------------------------------------------------------------
(***************************************************************************)
(* TransferSpine implements MoneyMovement: one payment per transfer, open  *)
(* while it is pending, with the reservation its hold keeps and the entry  *)
(* its journal has.  Settlement accounts keep their books the other way    *)
(* round.                                                                  *)
(***************************************************************************)
Owed(books) == [a \in Accounts |-> IF a \in Customers THEN books[a] ELSE -books[a]]

PaymentState(status) ==
    CASE status = "pending"   -> "open"
      [] status = "succeeded" -> "moved"
      [] OTHER                -> "dropped"

\* The entry of a transfer; a second one would make it no entry at all.
EntryOf(t) ==
    CASE Len(journal[t]) = 0 -> [from |-> Nil, to |-> Nil, sum |-> 0]
      [] Len(journal[t]) = 1 -> [from |-> journal[t][1].debit, to |-> journal[t][1].credit,
                                 sum |-> journal[t][1].amount]
      [] OTHER               -> [from |-> Nil, to |-> Nil, sum |-> Len(journal[t])]

PaymentOf(t) ==
    IF t > count THEN [state |-> "unmade"]
    ELSE [state |-> PaymentState(transfers[t].status), party |-> transfers[t].account,
          sum |-> transfers[t].amount, reserves |-> hold[t] = "active",
          undoes |-> transfers[t].reversalOf, entry |-> EntryOf(t)]

Money == INSTANCE MoneyMovement
             WITH Payments <- Transfer, Parties <- Accounts, Limited <- Customers,
                  Sums <- Amounts, Pots <- LienReferences, Funds <- Owed(Opening),
                  Nobody <- Nil,
                  payment <- [t \in Transfer |-> PaymentOf(t)],
                  pot <- [r \in LienReferences |->
                             [party |-> lien[r].account, sum |-> lien[r].amount]],
                  balance <- Owed(ledger), spendable <- Owed(available)

\* Every transaction is one step of one payment or lien, or none: it makes,
\* fulfils, breaks or undoes it with exactly that step's effect on both balance
\* columns, whatever keys, events, references, late answers and reviews met.
ImplementsMoneyMovement == Money!MoneySpec

-----------------------------------------------------------------------------
(***************************************************************************)
(* Rules of the documents that the code breaks.                            *)
(***************************************************************************)
\* "inbound success credits the destination account once"
\* (docs/ARCHITECTURE_DECISIONS.md:81): one provider reference, one credit.
ReferenceCreditsOnce ==
    \A t, u \in Existing :
        /\ transfers[t].direction = "inbound" /\ transfers[t].provider # "ledger_internal"
        /\ transfers[t].journalled /\ transfers[u].journalled
        /\ SameReference(u, transfers[t])
        => t = u

\* "reversal deficits are visible for operations/manual review"
\* (docs/ARCHITECTURE_DECISIONS.md:163): a customer below zero is on the other
\* end of a transfer marked as a reversal deficit.
DeficitsAreVisible ==
    \A c \in Customers : ledger[c] < 0 =>
        \E t \in Existing : /\ transfers[t].ledgerStatus = "reversal_deficit"
                            /\ c \in {journal[t][1].debit, journal[t][1].credit}
=============================================================================
