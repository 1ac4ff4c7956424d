-------------------------- MODULE TransactionLocks --------------------------
(***************************************************************************)
(* The inside of the repository's transactions: which advisory and row     *)
(* locks each takes, in which order, what it looks up between two of them, *)
(* and what it writes when it commits.  TransferSpine takes every          *)
(* transaction for one step; this module is what that rests on.            *)
(*                                                                         *)
(* PostgreSQL at READ COMMITTED: a lookup sees what is committed at that   *)
(* moment.  A lookup FOR UPDATE first finds a row, then waits for its      *)
(* lock, then looks at the row again.  All locks last to the end of the    *)
(* transaction.  The writes of a transaction are one step, its commit; the *)
(* rows they touch are locked by then.  Transactions that wait for each    *)
(* other are detected and one of them is rolled back; the code does not    *)
(* retry it.                                                               *)
(*                                                                         *)
(* Abstractions.  A transfer row is known by its idempotency key.  A       *)
(* reference stands for provider, reference and direction.  Every amount   *)
(* is 1.  Account statuses are left out: changing one locks the account    *)
(* row, and that is all here.  Marking a transfer as reviewed locks only   *)
(* its row.  A transaction that fails for any other reason than those      *)
(* below is one that is cancelled.  Left out: completions of the demo      *)
(* routes that carry an event, the demo webhook's reversals, a lien        *)
(* retried for another amount.                                             *)
(***************************************************************************)
EXTENDS Integers, Sequences, FiniteSets, Functions

CONSTANTS
    Calls,           \* calls that may run at the same time: one per database connection
    Customers,       \* customer accounts: numbers, in the order of their ids
    Settlement,      \* settlement accounts, which have no limit
    Keys,            \* idempotency keys
    Events,          \* provider event ids
    References,      \* provider references
    LienReferences,  \* references of account liens
    Requests,        \* the calls made in this instance
    Tables,          \* the transfers tables it may start from
    OpeningBalance,  \* of a customer account without transfers
    MaxLiens,        \* bound: how often one lien reference is used
    Nil

Accounts == Customers \cup Settlement

Reference == References \cup ({"reversal"} \X (References \cup Keys)) \cup {Nil}

Row == [status: {"pending", "posted", "failed"}, account: Accounts, clearing: Accounts,
        outbound: BOOLEAN, reference: Reference, events: SUBSET Events,
        reversalOf: Keys \cup {Nil}]

NoRow == [status |-> "none"]

\* RecordTransferInput, for requests that create a transfer with the outcome
\* they name, settle one by reference, or replay one.
RecordRequest ==
    [op: {"record"}, key: Keys, event: Events \cup {Nil}, reference: Reference,
     status: {"pending", "posted", "failed"}, account: Accounts, clearing: Accounts,
     outbound: BOOLEAN, reversalOf: Keys \cup {Nil}]

Request ==
    RecordRequest
        \cup [op: {"complete"}, transfer: Keys, status: {"pending", "posted", "failed"}]
        \cup [op: {"reverse"}, transfer: Keys, key: Keys]
        \cup [op: {"review"}, key: Keys, event: Events \cup {Nil}, account: Accounts]
        \cup [op: {"control"}, account: Customers]
        \cup [op: {"place", "release"}, account: Customers, lien: LienReferences]

\* Only a reversal has a reference that ReverseTransfer made from another
\* transfer's; those that clients and providers name are in References, whose
\* members are texts without that prefix.
Plain(r) == r.reversalOf = Nil => r.reference \in References \cup {Nil}

ASSUME LocksAssumption ==
    /\ Accounts \subseteq Int /\ Customers \cap Settlement = {}
    /\ Requests \subseteq Request
    /\ \A r \in Requests : r.op = "record" => r.reversalOf = Nil /\ Plain(r)
    /\ Tables \subseteq [Keys -> Row \cup {NoRow}]
    /\ \A table \in Tables, k \in Keys : table[k] # NoRow => Plain(table[k])
    /\ OpeningBalance \in Nat /\ MaxLiens \in Nat
    /\ IsFiniteSet(Calls) /\ IsFiniteSet(Keys) /\ IsFiniteSet(LienReferences)
    /\ Nil \notin Keys \cup Events \cup References \cup Accounts

VARIABLES
    transfers,   \* the transfers table
    lien,        \* the last lien with a reference: its account while active, its number
    funds,       \* account_balances.available_minor of the customers
    call         \* the transaction each call is in

vars == <<transfers, lien, funds, call>>

Idle == [op |-> "idle"]

Lock ==
    ({"idempotency", "transfer", "hold"} \X Keys) \cup ({"provider_event"} \X Events)
        \cup ({"provider_reference"} \X Reference)
        \cup ({"account", "balance"} \X Accounts)
        \cup ({"account_lien_reference"} \X LienReferences)
        \cup ({"lien"} \X (LienReferences \X Nat))

\* What a transaction has still to do, one statement after the other.
Statement ==
    ({"lock"} \X Lock) \cup ({"find"} \X {"key", "event", "pending", "settled", "lien"})
        \cup ({"recheck pending", "recheck reversible"} \X Keys)
        \cup ({"recheck lien"} \X (LienReferences \X Nat)) \cup ({"check funds"} \X Accounts)

Created == {k \in Keys : transfers[k] # NoRow}

Running == {p \in Calls : call[p] # Idle}

Transaction ==
    [op: {"record", "complete", "reverse", "review", "control", "place", "release"},
     request: Request, todo: Seq(Statement), held: SUBSET Lock,
     writes: {"nothing", "create", "decline", "settle", "place", "release"},
     on: Keys \cup Nat \cup {Nil}, unseen: SUBSET Keys]

LocksTypeOK ==
    /\ transfers \in [Keys -> Row \cup {NoRow}]
    /\ lien \in [LienReferences -> [account: Customers \cup {Nil}, number: Nat]]
    /\ funds \in [Customers -> Int]
    /\ call \in [Calls -> Transaction \cup {Idle}]

-----------------------------------------------------------------------------
(***************************************************************************)
(* The statements of each transaction.                                     *)
(***************************************************************************)
Take(kind, x) == <<"lock", <<kind, x>>>>

When(condition, statements) == IF condition THEN statements ELSE <<>>

AccountBalance(a) == <<Take("account", a), Take("balance", a)>>

\* Mutant: the accounts in the order the request names them.
TransferAccountBalances_M(a, b) == AccountBalance(a) \o AccountBalance(b)

\* Both accounts of a transfer, in the order of their ids.
TransferAccountBalances(a, b) ==
    IF b < a THEN AccountBalance(b) \o AccountBalance(a) ELSE AccountBalance(a) \o AccountBalance(b)

ByReference(r) == r.reference # Nil /\ r.status # "pending"

\* Mutant: the event is not locked.
ReplayKeys_M(r) ==
    <<Take("idempotency", r.key)>>
        \o When(ByReference(r), <<Take("provider_reference", r.reference)>>)

\* The advisory locks a request takes before it looks anything up.
ReplayKeys(r) ==
    <<Take("idempotency", r.key)>>
        \o When(r.event # Nil, <<Take("provider_event", r.event)>>)
        \o When(ByReference(r), <<Take("provider_reference", r.reference)>>)

\* A customer's own debit or hold looks at the balance.
ChecksFunds(r) == r.outbound /\ r.reversalOf = Nil /\ r.status # "failed" /\ r.account \in Customers

RecordTransfer(r) ==
    ReplayKeys(r)
        \o <<<<"find", "key">>>>
        \o When(r.event # Nil, <<<<"find", "event">>>>)
        \o When(ByReference(r), <<<<"find", "pending">>, <<"find", "settled">>>>)
        \o TransferAccountBalances(r.account, r.clearing)
        \o When(ChecksFunds(r), <<<<"check funds", r.account>>>>)

RecordProviderEventReview(r) ==
    <<Take("idempotency", r.key)>>
        \o When(r.event # Nil, <<Take("provider_event", r.event), <<"find", "event">>>>)
        \o <<<<"find", "key">>>>
        \o AccountBalance(r.account)

PlaceAccountLien(r) ==
    <<Take("account_lien_reference", r.lien)>>
        \o AccountBalance(r.account)
        \o <<<<"find", "lien">>, <<"check funds", r.account>>>>

Lien(l) == <<l, lien[l].number>>

Statements(r) ==
    CASE r.op = "record"   -> RecordTransfer(r)
      [] r.op = "complete" -> <<Take("transfer", r.transfer), <<"recheck pending", r.transfer>>>>
      [] r.op = "reverse"  -> <<Take("transfer", r.transfer), <<"recheck reversible", r.transfer>>>>
      [] r.op = "review"   -> RecordProviderEventReview(r)
      [] r.op = "control"  -> <<Take("account", r.account)>>
      [] r.op = "place"    -> PlaceAccountLien(r)
      [] r.op = "release"  -> <<Take("lien", Lien(r.lien)), <<"recheck lien", Lien(r.lien)>>>>

\* What it writes if it finds nothing that stops it.
Intends(r) ==
    CASE r.op \in {"record", "review"} -> "create"
      [] r.op \in {"place", "release"} -> r.op
      [] OTHER                         -> "nothing"

-----------------------------------------------------------------------------
Change(a, delta) == [b \in Customers |-> IF b = a THEN delta ELSE 0]

Moved(from, to) == [b \in Customers |-> Change(from, -1)[b] + Change(to, 1)[b]]

\* What creating a transfer as it is does to available balances.
CreatedFunds(r) ==
    CASE r.status = "posted" -> IF r.outbound THEN Moved(r.account, r.clearing)
                                              ELSE Moved(r.clearing, r.account)
      [] r.status = "pending" /\ r.outbound -> Change(r.account, -1)
      [] OTHER -> Change(Nil, 0)

\* What the transfers have done to the available balance of a.
MovedByTransfers(a) ==
    SumFunction([k \in Keys |-> IF k \in Created THEN CreatedFunds(transfers[k])[a] ELSE 0])

LocksInit ==
    /\ transfers \in Tables
    /\ lien = [l \in LienReferences |-> [account |-> Nil, number |-> 0]]
    /\ funds = [a \in Customers |-> OpeningBalance + MovedByTransfers(a)]
    /\ call = [p \in Calls |-> Idle]

\* A call names a transfer or a lien its caller has seen.
Begin(p, r) ==
    /\ p \notin Running
    /\ r.op \in {"complete", "reverse"} => r.transfer \in Created
    /\ r.op = "place" => lien[r.lien].number < MaxLiens
    /\ r.op = "release" => lien[r.lien].account = r.account
    /\ call' = [call EXCEPT ![p] =
          [op |-> r.op, request |-> r, todo |-> Statements(r), held |-> {}, writes |-> Intends(r),
           on |-> IF r.op = "release" THEN lien[r.lien].number ELSE Nil, unseen |-> {}]]
    /\ UNCHANGED <<transfers, lien, funds>>

Doing(p, kind) == p \in Running /\ call[p].todo # <<>> /\ Head(call[p].todo)[1] = kind

Argument(p) == Head(call[p].todo)[2]

Free(p, x) == \A q \in Running \ {p} : x \notin call[q].held

\* Go on with other statements than those that were left.
Proceed(p, todo) ==
    /\ call' = [call EXCEPT ![p].todo = todo]
    /\ UNCHANGED <<transfers, lien, funds>>

Continue(p) == Proceed(p, Tail(call[p].todo))

\* Replayed, refused or nothing to do: only locks still to be taken.
WriteNothing(p, todo) ==
    /\ call' = [call EXCEPT ![p].todo = todo, ![p].writes = "nothing"]
    /\ UNCHANGED <<transfers, lien, funds>>

TakeLock(p) ==
    /\ Doing(p, "lock")
    /\ Free(p, Argument(p))
    /\ call' = [call EXCEPT ![p].todo = Tail(@), ![p].held = @ \cup {Argument(p)}]
    /\ UNCHANGED <<transfers, lien, funds>>

\* The direction of a reversal is "reversal": no lookup by reference finds one.
WithReference(r) == {k \in Created : transfers[k].reference = r.reference /\ transfers[k].reversalOf = Nil}

PendingWith(r) == {k \in WithReference(r) : transfers[k].status = "pending"}

SettledWith(r) == WithReference(r) \ PendingWith(r)

Find(p) ==
    LET r == call[p].request
        rest == Tail(call[p].todo)
    IN  /\ Doing(p, "find")
        /\ \/ /\ Argument(p) = "key"
              /\ IF r.key \in Created THEN WriteNothing(p, <<Take("transfer", r.key)>>)
                 ELSE Continue(p)
           \/ /\ Argument(p) = "event"
              /\ IF \E k \in Created : r.event \in transfers[k].events THEN WriteNothing(p, <<>>)
                 ELSE Continue(p)
           \/ /\ Argument(p) = "pending"
              /\ IF PendingWith(r) = {} THEN Continue(p)
                 ELSE \E k \in PendingWith(r) :
                         Proceed(p, <<Take("transfer", k), <<"recheck pending", k>>>> \o rest)
           \/ /\ Argument(p) = "settled"
              /\ IF SettledWith(r) = {} THEN Continue(p)
                 ELSE \E k \in SettledWith(r) : WriteNothing(p, <<Take("transfer", k)>>)
           \/ /\ Argument(p) = "lien"
              /\ IF lien[r.lien].account = Nil THEN Continue(p)
                 ELSE Proceed(p, <<Take("lien", Lien(r.lien)), <<"recheck lien", Lien(r.lien)>>>> \o rest)

\* The rest of a transaction that settles transfer k.  An answer for an
\* outbound transfer locks its hold too; one that leaves an inbound transfer
\* pending locks its own account only.
Settle(p, k) ==
    LET row == transfers[k]
        accounts == IF call[p].request.status = "pending" /\ ~row.outbound
                    THEN AccountBalance(row.account)
                    ELSE TransferAccountBalances(row.account, row.clearing)
    IN  /\ call' = [call EXCEPT ![p].todo = accounts \o When(row.outbound, <<Take("hold", k)>>),
                                ![p].writes = "settle", ![p].on = k]
        /\ UNCHANGED <<transfers, lien, funds>>

\* Only the transfer a request names, or one of its own account.
MaySettle(r, k) == r.op = "record" => r.account = transfers[k].account /\ r.reversalOf = Nil

\* Mutant: the row found before its lock was granted is taken as it was.
RecheckPending_M(p) ==
    LET k == Argument(p)
        r == call[p].request
    IN  /\ Doing(p, "recheck pending")
        /\ \/ MaySettle(r, k) /\ Settle(p, k)
           \/ ~MaySettle(r, k) /\ WriteNothing(p, <<>>)

RecheckPending(p) ==
    LET k == Argument(p)
        r == call[p].request
    IN  /\ Doing(p, "recheck pending")
        /\ \/ transfers[k].status = "pending" /\ MaySettle(r, k) /\ Settle(p, k)
           \/ transfers[k].status = "pending" /\ ~MaySettle(r, k) /\ WriteNothing(p, <<>>)
           \/ transfers[k].status # "pending" /\ r.op = "record" /\ Continue(p)
           \/ transfers[k].status # "pending" /\ r.op = "complete" /\ WriteNothing(p, <<>>)

ReversalRequest(r) ==
    LET row == transfers[r.transfer]
    IN  [op |-> "record", key |-> r.key, event |-> Nil, status |-> "posted",
         reference |-> <<"reversal", IF row.reference = Nil THEN r.transfer ELSE row.reference>>,
         account |-> row.account, clearing |-> row.clearing, outbound |-> ~row.outbound,
         reversalOf |-> r.transfer]

Reversible(k) ==
    /\ transfers[k].status = "posted" /\ transfers[k].reversalOf = Nil
    /\ \A r \in Created : transfers[r].reversalOf # k

RecheckReversible(p) ==
    /\ Doing(p, "recheck reversible")
    /\ IF Reversible(Argument(p))
       THEN LET r == ReversalRequest(call[p].request)
            IN  /\ call' = [call EXCEPT ![p].request = r, ![p].todo = RecordTransfer(r),
                                        ![p].writes = "create"]
                /\ UNCHANGED <<transfers, lien, funds>>
       ELSE WriteNothing(p, <<>>)

\* A retried placement finds its lien, unless it was released while it waited;
\* a release finds it active, unless another one was faster.
RecheckLien(p) ==
    LET l == Argument(p)
        active == lien[l[1]].account # Nil /\ lien[l[1]].number = l[2]
        r == call[p].request
    IN  /\ Doing(p, "recheck lien")
        /\ \/ r.op = "place" /\ active /\ WriteNothing(p, <<>>)
           \/ r.op = "place" /\ ~active /\ Continue(p)
           \/ r.op = "release" /\ ~active /\ WriteNothing(p, <<>>)
           \/ r.op = "release" /\ active /\ Proceed(p, <<Take("balance", r.account)>>)

\* A transfer without cover is refused, or recorded as failed.
CheckFunds(p) ==
    /\ Doing(p, "check funds")
    /\ \/ funds[Argument(p)] >= 1 /\ Continue(p)
       \/ funds[Argument(p)] < 1 /\ WriteNothing(p, <<>>)
       \/ /\ funds[Argument(p)] < 1 /\ call[p].request.op = "record"
          /\ call' = [call EXCEPT ![p].todo = Tail(@), ![p].writes = "decline"]
          /\ UNCHANGED <<transfers, lien, funds>>

-----------------------------------------------------------------------------
(***************************************************************************)
(* The end of a transaction.                                               *)
(***************************************************************************)
SettledFunds(row, status) ==
    CASE status = "posted" -> IF row.outbound THEN Change(row.clearing, 1)
                                              ELSE Moved(row.clearing, row.account)
      [] status = "failed" /\ row.outbound -> Change(row.account, 1)
      [] OTHER -> Change(Nil, 0)

Apply(delta) == funds' = [a \in Customers |-> funds[a] + delta[a]]

\* Mutant: an event id is stored although the request has none.
CreatedRow_M(r) ==
    [status |-> IF r.op = "review" THEN "failed" ELSE r.status, account |-> r.account,
     clearing |-> r.account, outbound |-> FALSE, reference |-> Nil, events |-> {r.event},
     reversalOf |-> Nil]

CreatedRow(r) ==
    IF r.op = "review"
    THEN [status |-> "failed", account |-> r.account, clearing |-> r.account, outbound |-> FALSE,
          reference |-> Nil, events |-> {r.event} \ {Nil}, reversalOf |-> Nil]
    ELSE [status |-> r.status, account |-> r.account, clearing |-> r.clearing,
          outbound |-> r.outbound, reference |-> r.reference, events |-> {r.event} \ {Nil},
          reversalOf |-> r.reversalOf]

SettledRow(row, r) ==
    [row EXCEPT !.status = r.status,
                !.events = IF r.op = "record" THEN @ \cup ({r.event} \ {Nil}) ELSE @]

Write(p) ==
    LET r == call[p].request
        on == call[p].on
    IN  \/ /\ call[p].writes = "nothing"
           /\ UNCHANGED <<transfers, lien, funds>>
        \/ /\ call[p].writes = "create"
           /\ transfers' = [transfers EXCEPT ![r.key] = CreatedRow(r)]
           /\ IF r.op = "review" THEN UNCHANGED funds ELSE Apply(CreatedFunds(r))
           /\ UNCHANGED lien
        \/ /\ call[p].writes = "decline"
           /\ transfers' = [transfers EXCEPT ![r.key] = [CreatedRow(r) EXCEPT !.status = "failed"]]
           /\ UNCHANGED <<funds, lien>>
        \/ /\ call[p].writes = "settle"
           /\ transfers' = [transfers EXCEPT ![on] = SettledRow(@, r)]
           /\ Apply(SettledFunds(transfers[on], r.status))
           /\ UNCHANGED lien
        \/ /\ call[p].writes = "place"
           /\ lien' = [lien EXCEPT ![r.lien] = [account |-> r.account, number |-> @.number + 1]]
           /\ Apply(Change(r.account, -1))
           /\ UNCHANGED transfers
        \/ /\ call[p].writes = "release"
           /\ lien' = [lien EXCEPT ![r.lien].account = Nil]
           /\ Apply(Change(r.account, 1))
           /\ UNCHANGED transfers

\* Transfers that p creates without a lock on their reference: a call that has
\* looked for that reference did not see them.
Unannounced(p) ==
    {k \in Keys : /\ k \notin Created /\ transfers'[k] # NoRow
                  /\ call[p].request.op = "record" /\ ~ByReference(call[p].request)}

Commit(p) ==
    /\ p \in Running /\ call[p].todo = <<>>
    /\ Write(p)
    /\ call' = [q \in Calls |->
          IF q \in Running \ {p} THEN [call[q] EXCEPT !.unseen = @ \cup Unannounced(p)] ELSE Idle]

\* p waits for a lock that q holds.
WaitsFor(p, q) == p # q /\ Doing(p, "lock") /\ q \in Running /\ Argument(p) \in call[q].held

Deadlocked(S) == S # {} /\ \A p \in S : \E q \in S : WaitsFor(p, q)

\* PostgreSQL finds a deadlock and rolls back one of its transactions.
AbortDeadlocked(p) ==
    /\ \E S \in SUBSET Calls : p \in S /\ Deadlocked(S)
    /\ call' = [call EXCEPT ![p] = Idle]
    /\ UNCHANGED <<transfers, lien, funds>>

\* The request is cancelled or the process dies: the transaction is rolled back.
Cancel(p) ==
    /\ p \in Running
    /\ call' = [call EXCEPT ![p] = Idle]
    /\ UNCHANGED <<transfers, lien, funds>>

Advance(p) ==
    \/ TakeLock(p) \/ Find(p) \/ RecheckPending(p) \/ RecheckReversible(p)
    \/ RecheckLien(p) \/ CheckFunds(p) \/ Commit(p)

LocksNext ==
    \E p \in Calls :
        \/ \E r \in Requests : Begin(p, r)
        \/ Advance(p)
        \/ AbortDeadlocked(p)
        \/ Cancel(p)

LocksSpec == LocksInit /\ [][LocksNext]_vars
=============================================================================
