--------------------------- MODULE LocksProperties ---------------------------
(***************************************************************************)
(* What the locks of TransactionLocks are for.                             *)
(***************************************************************************)
EXTENDS TransactionLocks

(***************************************************************************)
(* Every transaction commits what it would do if it ran alone, from        *)
(* beginning to end, in the state it commits to: nothing it looked up      *)
(* between two of its locks has changed.  The one exception is a transfer  *)
(* with its reference that was created as pending meanwhile, which does    *)
(* not lock the reference; the call is then as if it came first.           *)
(* This is what lets TransferSpine take a transaction for one step         *)
(* (recordTransfer, settlePendingTransfer, ReverseTransfer, liens).        *)
(***************************************************************************)
Replayed(r) == r.key \in Created \/ \E k \in Created : r.event \in transfers[k].events

Unfunded(r) == ChecksFunds(r) /\ funds[r.account] < 1

\* Whether the transfers in the way of r are there, of those the call must see.
Blocks(r, seen) ==
    ByReference(r) /\ \/ SettledWith(r) \cap seen # {}
                      \/ \E k \in PendingWith(r) \cap seen : ~MaySettle(r, k)

WouldSettle(r, seen) == IF ByReference(r) THEN {k \in PendingWith(r) \cap seen : MaySettle(r, k)} ELSE {}

ReversesLegally(r) == r.reversalOf # Nil => Reversible(r.reversalOf)

RecordsAlone(r, writes, on, seen) ==
    CASE writes = "create"  -> /\ ~Replayed(r) /\ ~Blocks(r, seen) /\ WouldSettle(r, seen) = {}
                               /\ ReversesLegally(r) /\ ~Unfunded(r)
      [] writes = "decline" -> /\ ~Replayed(r) /\ ~Blocks(r, seen) /\ WouldSettle(r, seen) = {}
                               /\ Unfunded(r)
      [] writes = "settle"  -> ~Replayed(r) /\ on \in WouldSettle(r, seen)
      [] writes = "nothing" -> Replayed(r) \/ Blocks(r, seen) \/ Unfunded(r)

ActsAlone(p, seen) ==
    LET r == call[p].request
        writes == call[p].writes
        active == lien[r.lien].account # Nil
    IN  CASE r.op = "record"          -> RecordsAlone(r, writes, call[p].on, seen)
          [] r.op = "complete"        -> writes = "settle" <=> transfers[r.transfer].status = "pending"
          [] r.op = "reverse"         -> ~Reversible(r.transfer)
          [] r.op = "review"          -> writes = "create" <=> ~Replayed(r)
          [] r.op = "place"           -> writes = "place" <=> ~active /\ funds[r.account] >= 1
          [] r.op = "release"         -> writes = "release" <=> active /\ lien[r.lien].number = call[p].on
          [] r.op = "control"         -> TRUE

ActsOnWhatItCommitsTo ==
    \A p \in Running :
        call[p].todo = <<>> =>
            ActsAlone(p, Created) \/ ActsAlone(p, Created \ call[p].unseen)

(***************************************************************************)
(* The available balance of a customer is the opening balance and what     *)
(* the transfers and the active liens in the tables have done to it: no    *)
(* transaction writes over another one's row or balance (the balance       *)
(* updates of sql_ledger_repository.go, sql_holds.go and                   *)
(* sql_account_controls.go, under their locks).                            *)
(***************************************************************************)
BalancesMatchRows ==
    \A a \in Customers :
        funds[a] = OpeningBalance + MovedByTransfers(a)
                       - Cardinality({l \in LienReferences : lien[l].account = a})

(***************************************************************************)
(* Whatever calls run at the same time, the locks are taken in one order,  *)
(* but for two places, and every deadlock has one of them in it.  A        *)
(* repeated PlaceAccountLien holds its account and balance and asks for    *)
(* the lien it found, while ReleaseAccountLien holds that lien and asks    *)
(* for a balance.  And ReverseTransfer holds the row of the transfer it    *)
(* reverses, which another call waits for, and itself waits for the keys   *)
(* of its own record, or for the row they are a replay of.                 *)
(***************************************************************************)
RepeatsReleasedLien(o, p, q) ==
    /\ WaitsFor(o, p) /\ Argument(o)[1] \in {"account", "balance"}
    /\ WaitsFor(p, q) /\ call[p].request.op = "place" /\ Argument(p)[1] = "lien"
    /\ call[q].request.op = "release" /\ Doing(q, "lock") /\ Argument(q)[1] = "balance"

ReversesUnderBusyKey(o, p, q) ==
    /\ call[p].request.op = "record"
    /\ WaitsFor(o, p) /\ Argument(o) = <<"transfer", call[p].request.reversalOf>>
    /\ WaitsFor(p, q) /\ Argument(p)[1] \in {"idempotency", "provider_reference", "transfer"}

OnlyKnownDeadlocks ==
    \A S \in SUBSET Calls :
        Deadlocked(S) =>
            \E o, p, q \in S : RepeatsReleasedLien(o, p, q) \/ ReversesUnderBusyKey(o, p, q)
=============================================================================
