---------------------------- MODULE MoneyMovement ----------------------------
(***************************************************************************)
(* What the core-banking ledger promises about money, without its          *)
(* statuses, keys, references, events and providers: every payment moves   *)
(* its money once or not at all, reserves before it waits, and can be      *)
(* undone once.  TransferSpine implements this specification; the mapping  *)
(* is in SpineProperties.                                                  *)
(*                                                                         *)
(* Balances count what a party is owed, so a payment takes from one party  *)
(* what it gives to the other, whatever kind of account either has.        *)
(***************************************************************************)
EXTENDS Integers

CONSTANTS
    Payments,    \* identities of payments
    Parties,     \* the accounts money moves between
    Limited,     \* the parties that may not spend more than they have
    Sums,        \* amounts
    Pots,        \* identities of money set aside without a payment
    Funds,       \* what each party starts with
    Nobody       \* no party

VARIABLES
    payment,     \* every payment made so far
    pot,         \* money set aside
    balance,     \* what each party owns
    spendable    \* what of it is neither reserved nor set aside

moneyVars == <<payment, pot, balance, spendable>>

Unmade == [state |-> "unmade"]
Empty == [party |-> Nobody, sum |-> 0]
NoEntry == [from |-> Nobody, to |-> Nobody, sum |-> 0]
Nothing == 0    \* a payment that undoes no other

Made(state, party, sum, reserves, undoes, entry) ==
    [state |-> state, party |-> party, sum |-> sum, reserves |-> reserves,
     undoes |-> undoes, entry |-> entry]

MoneyInit ==
    /\ payment = [p \in Payments |-> Unmade]
    /\ pot = [r \in Pots |-> Empty]
    /\ balance = Funds
    /\ spendable = Funds

-----------------------------------------------------------------------------
CanSpend(a, n) == a \in Limited => spendable[a] >= n

Shift(account, from, to, n) == [account EXCEPT ![from] = @ - n, ![to] = @ + n]

\* A payment that waits: money promised is reserved, money expected is not.
Promise(p, a, n) ==
    /\ payment[p] = Unmade
    /\ CanSpend(a, n)
    /\ payment' = [payment EXCEPT ![p] = Made("open", a, n, TRUE, Nothing, NoEntry)]
    /\ spendable' = [spendable EXCEPT ![a] = @ - n]
    /\ UNCHANGED <<pot, balance>>

Expect(p, a, n) ==
    /\ payment[p] = Unmade
    /\ payment' = [payment EXCEPT ![p] = Made("open", a, n, FALSE, Nothing, NoEntry)]
    /\ UNCHANGED <<pot, balance, spendable>>

Refuse(p, a, n) ==
    /\ payment[p] = Unmade
    /\ payment' = [payment EXCEPT ![p] = Made("dropped", a, n, FALSE, Nothing, NoEntry)]
    /\ UNCHANGED <<pot, balance, spendable>>

\* A payment that moves at once, made by either of its parties.
Pay(p, a, from, to, n) ==
    /\ payment[p] = Unmade
    /\ a \in {from, to} /\ from # to
    /\ CanSpend(from, n)
    /\ payment' = [payment EXCEPT ![p] =
                      Made("moved", a, n, FALSE, Nothing, [from |-> from, to |-> to, sum |-> n])]
    /\ balance' = Shift(balance, from, to, n)
    /\ spendable' = Shift(spendable, from, to, n)
    /\ UNCHANGED pot

\* Taking a payment back moves exactly what it moved, also when its recipient
\* spent it since, and happens once.
Undo(p, o) ==
    LET entry == payment[o].entry
    IN  /\ payment[p] = Unmade
        /\ payment[o].state = "moved" /\ payment[o].undoes = Nothing
        /\ \A q \in Payments : payment[q] # Unmade => payment[q].undoes # o
        /\ payment' = [payment EXCEPT ![p] =
                          Made("moved", payment[o].party, payment[o].sum, FALSE, o,
                               [from |-> entry.to, to |-> entry.from, sum |-> entry.sum])]
        /\ balance' = Shift(balance, entry.to, entry.from, entry.sum)
        /\ spendable' = Shift(spendable, entry.to, entry.from, entry.sum)
        /\ UNCHANGED pot

\* An open payment ends: what was promised goes out of the reservation, what
\* was expected comes in.
Fulfil(p, other) ==
    LET a == payment[p].party
        n == payment[p].sum
        from == IF payment[p].reserves THEN a ELSE other
        to == IF payment[p].reserves THEN other ELSE a
    IN  /\ payment[p].state = "open"
        /\ other # a
        /\ payment[p].reserves \/ CanSpend(other, n)
        /\ payment' = [payment EXCEPT ![p].state = "moved", ![p].reserves = FALSE,
                                      ![p].entry = [from |-> from, to |-> to, sum |-> n]]
        /\ balance' = Shift(balance, from, to, n)
        /\ spendable' = IF payment[p].reserves THEN [spendable EXCEPT ![to] = @ + n]
                                               ELSE Shift(spendable, from, to, n)
        /\ UNCHANGED pot

Break(p) ==
    /\ payment[p].state = "open"
    /\ payment' = [payment EXCEPT ![p].state = "dropped", ![p].reserves = FALSE]
    /\ spendable' = IF payment[p].reserves
                    THEN [spendable EXCEPT ![payment[p].party] = @ + payment[p].sum]
                    ELSE spendable
    /\ UNCHANGED <<pot, balance>>

SetAside(r, a, n) ==
    /\ pot[r] = Empty
    /\ CanSpend(a, n)
    /\ pot' = [pot EXCEPT ![r] = [party |-> a, sum |-> n]]
    /\ spendable' = [spendable EXCEPT ![a] = @ - n]
    /\ UNCHANGED <<payment, balance>>

GiveBack(r) ==
    /\ pot[r] # Empty
    /\ pot' = [pot EXCEPT ![r] = Empty]
    /\ spendable' = [spendable EXCEPT ![pot[r].party] = @ + pot[r].sum]
    /\ UNCHANGED <<payment, balance>>

\* Where a step can begin; the guards are repeated in the actions.
New == {p \in Payments : payment[p] = Unmade}

Open == {p \in Payments : payment[p].state = "open"}

MoneyNext ==
    \/ \E p \in New, a \in Parties, n \in Sums : Promise(p, a, n) \/ Expect(p, a, n) \/ Refuse(p, a, n)
    \/ \E p \in New, from, to \in Parties, n \in Sums :
           \E a \in {from, to} : Pay(p, a, from, to, n)
    \/ \E p \in New, o \in Payments : Undo(p, o)
    \/ \E p \in Open, other \in Parties : Fulfil(p, other)
    \/ \E p \in Open : Break(p)
    \/ \E r \in Pots, a \in Limited, n \in Sums : SetAside(r, a, n)
    \/ \E r \in Pots : GiveBack(r)

MoneySpec == MoneyInit /\ [][MoneyNext]_moneyVars
=============================================================================
