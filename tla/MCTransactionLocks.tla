------------------------- MODULE MCTransactionLocks -------------------------
(***************************************************************************)
(* An instance of TransactionLocks: two customers with a settlement        *)
(* account, whose transfers, events, reversals and liens meet.             *)
(***************************************************************************)
EXTENDS LocksProperties, TLC

CONSTANTS k1, k2, k3, e1, r1, r2, l1

MCSettlement == {0}

MCCustomers == {1, 2}

Record(key, event, reference, status, account, clearing, outbound) ==
    [op |-> "record", key |-> key, event |-> event, reference |-> reference, status |-> status,
     account |-> account, clearing |-> clearing, outbound |-> outbound, reversalOf |-> Nil]

\* k1 is an outbound transfer that waits for its provider when the run starts;
\* the first request makes a second one.
MCRequests ==
    { Record(k3, Nil, Nil, "pending", 1, 0, TRUE),
      Record(k2, Nil, Nil, "posted", 1, 2, TRUE),
      Record(k3, Nil, Nil, "posted", 2, 1, TRUE),
      Record(k2, e1, r2, "posted", 2, 0, FALSE),
      Record(k3, Nil, r2, "pending", 2, 0, FALSE) }
    \cup [op: {"complete"}, transfer: {k1}, status: {"posted", "failed"}]
    \cup [op: {"complete"}, transfer: {k3}, status: {"posted"}]
    \cup [op: {"reverse"}, transfer: {k1, k2}, key: {k1}]
    \cup [op: {"reverse"}, transfer: {k1}, key: {k2, k3}]
    \cup [op: {"review"}, key: {k3}, event: {e1}, account: {2}]
    \cup [op: {"control"}, account: {1}]
    \cup [op: {"place", "release"}, account: {1}, lien: {l1}]

Waiting == [status |-> "pending", account |-> 1, clearing |-> 0, outbound |-> TRUE,
            reference |-> r1, events |-> {}, reversalOf |-> Nil]

MCTables == {[k \in Keys |-> IF k = k1 THEN Waiting ELSE NoRow]}

CallSymmetry == Permutations(Calls)
=============================================================================
