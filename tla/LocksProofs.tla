----------------------------- MODULE LocksProofs -----------------------------
(***************************************************************************)
(* Proofs about TransactionLocks: for any number of calls that run at the  *)
(* same time, what a transaction commits is what it would do alone in the  *)
(* state it commits to, and the balances match the rows.                   *)
(***************************************************************************)
EXTENDS LocksProperties, SumProofs, SequenceTheorems

-----------------------------------------------------------------------------
(***************************************************************************)
(* The inductive invariant.                                                *)
(***************************************************************************)
\* Statement y is still to come in todo.
Still(todo, y) == \E i \in 1..Len(todo) : todo[i] = y

\* The order of the statements of every transaction; only of the ranks in
\* Repeated there may be several.
LockRank(kind) ==
    IF kind \in {"idempotency", "provider_event", "provider_reference", "account_lien_reference"} THEN 1
    ELSE IF kind = "transfer" THEN 3
    ELSE IF kind \in {"account", "balance"} THEN 6
    ELSE IF kind = "lien" THEN 7
    ELSE 10

FindRank(what) ==
    IF what \in {"key", "event"} THEN 2
    ELSE IF what = "pending" THEN 4
    ELSE IF what = "settled" THEN 5
    ELSE 8

Rank(y) ==
    IF y[1] = "lock" THEN LockRank(y[2][1])
    ELSE IF y[1] = "find" THEN FindRank(y[2])
    ELSE IF y[1] = "recheck lien" THEN 8
    ELSE IF y[1] = "check funds" THEN 9
    ELSE 4

Follows(x, y) == Rank(x) < Rank(y) \/ (Rank(x) = Rank(y) /\ Rank(x) \in {1, 2, 6})

InOrder(todo) == \A i, j \in 1..Len(todo) : i < j => Follows(todo[i], todo[j])

\* c holds lock x or will take it.
Secures(c, x) == x \in c.held \/ Still(c.todo, <<"lock", x>>)

\* c has yet to do a lookup, or holds its lock and what it found is still so.
Learned(c, x, lookup, fact) ==
    \/ Still(c.todo, lookup) /\ Secures(c, x)
    \/ x \in c.held /\ fact

EventIsNew(r) == \A k \in Created : r.event \notin transfers[k].events

HasNewKey(c) ==
    LET r == c.request
    IN  Learned(c, <<"idempotency", r.key>>, <<"find", "key">>, r.key \notin Created)

HasNewEvent(c) ==
    LET r == c.request
    IN  r.event # Nil => Learned(c, <<"provider_event", r.event>>, <<"find", "event">>, EventIsNew(r))

IsNew(c) == HasNewKey(c) /\ HasNewEvent(c)

KeepsReference(c) ==
    LET r == c.request
        x == <<"provider_reference", r.reference>>
    IN  ByReference(r) =>
          \/ Still(c.todo, <<"find", "pending">>) /\ Still(c.todo, <<"find", "settled">>) /\ Secures(c, x)
          \/ /\ x \in c.held
             /\ \/ /\ Still(c.todo, <<"find", "settled">>)
                   /\ \/ \E k \in Keys : Still(c.todo, <<"recheck pending", k>>)
                      \/ SettledWith(r) # {}
                      \/ PendingWith(r) \subseteq c.unseen
                \/ WithReference(r) \subseteq c.unseen

IsFunded(c, a) == Learned(c, <<"balance", a>>, <<"check funds", a>>, funds[a] >= 1)

LacksFunds(c) ==
    ChecksFunds(c.request) /\ <<"balance", c.request.account>> \in c.held /\ funds[c.request.account] < 1

SecuresBalances(c, row) == Secures(c, <<"balance", row.account>>) /\ Secures(c, <<"balance", row.clearing>>)

Settles(c) ==
    LET row == transfers[c.on]
    IN  /\ c.on \in Created /\ row.status = "pending" /\ <<"transfer", c.on>> \in c.held
        /\ ~(c.request.status = "pending" /\ ~row.outbound) => SecuresBalances(c, row)

Records(c) ==
    LET r == c.request
    IN  /\ r.reversalOf # Nil => r.reversalOf \in Created /\ <<"transfer", r.reversalOf>> \in c.held
        /\ \/ /\ c.writes = "create" /\ IsNew(c) /\ KeepsReference(c) /\ SecuresBalances(c, r)
              /\ ChecksFunds(r) => IsFunded(c, r.account)
              /\ ReversesLegally(r)
           \/ c.writes = "decline" /\ IsNew(c) /\ KeepsReference(c) /\ LacksFunds(c)
           \/ c.writes = "settle" /\ IsNew(c) /\ Settles(c) /\ c.on \in WouldSettle(r, Created)
           \/ c.writes = "nothing" /\ (Replayed(r) \/ Blocks(r, Created) \/ LacksFunds(c))

Completes(c) ==
    LET k == c.request.transfer
    IN  /\ k \in Created
        /\ \/ c.writes = "nothing" /\ Still(c.todo, <<"recheck pending", k>>) /\ Secures(c, <<"transfer", k>>)
           \/ c.writes = "nothing" /\ transfers[k].status # "pending"
           \/ c.writes = "settle" /\ c.on = k /\ Settles(c)

Reverses(c) ==
    LET k == c.request.transfer
    IN  /\ k \in Created /\ c.writes = "nothing"
        /\ Learned(c, <<"transfer", k>>, <<"recheck reversible", k>>, ~Reversible(k))

Reviews(c) ==
    \/ c.writes = "create" /\ IsNew(c)
    \/ c.writes = "nothing" /\ Replayed(c.request)

Places(c) ==
    LET r == c.request
        x == <<"account_lien_reference", r.lien>>
    IN  \/ /\ c.writes = "place" /\ Secures(c, <<"balance", r.account>>)
           /\ \/ Still(c.todo, <<"find", "lien">>) /\ Secures(c, x)
              \/ x \in c.held /\ (Still(c.todo, <<"recheck lien", Lien(r.lien)>>) \/ lien[r.lien].account = Nil)
           /\ IsFunded(c, r.account)
        \/ /\ c.writes = "nothing"
           /\ \/ lien[r.lien].account # Nil /\ <<"lien", Lien(r.lien)>> \in c.held
              \/ funds[r.account] < 1 /\ <<"balance", r.account>> \in c.held

IsActive(l, number) == lien[l].account # Nil /\ lien[l].number = number

Releases(c) ==
    LET r == c.request
    IN  /\ c.on \in Nat /\ c.on <= lien[r.lien].number
        /\ IsActive(r.lien, c.on) => lien[r.lien].account = r.account
        /\ \/ /\ c.writes = "release"
              /\ Learned(c, <<"lien", <<r.lien, c.on>>>>, <<"recheck lien", <<r.lien, c.on>>>>,
                         IsActive(r.lien, c.on) /\ Secures(c, <<"balance", r.account>>))
           \/ c.writes = "nothing" /\ ~IsActive(r.lien, c.on)

\* What a transaction may still look up: nothing once it knows what it does.
Lookups(c) ==
    LET r == c.request
    IN  CASE r.op = "record" /\ c.writes = "create" ->
                {<<"find", "key">>, <<"find", "event">>}
                  \cup (IF ByReference(r) THEN {<<"find", "pending">>, <<"find", "settled">>} ELSE {})
                  \cup {<<"recheck pending", k>> :
                           k \in {j \in WithReference(r) : ByReference(r) /\ Secures(c, <<"transfer", j>>)}}
                  \cup (IF ChecksFunds(r) THEN {<<"check funds", r.account>>} ELSE {})
          [] r.op = "complete" /\ c.writes = "nothing" -> {<<"recheck pending", r.transfer>>}
          [] r.op = "reverse" -> {<<"recheck reversible", r.transfer>>}
          [] r.op = "review" /\ c.writes = "create" -> {<<"find", "key">>, <<"find", "event">>}
          [] r.op = "place" /\ c.writes = "place" ->
                {<<"find", "lien">>, <<"check funds", r.account>>}
                  \cup (IF /\ <<"account_lien_reference", r.lien>> \in c.held
                           /\ Secures(c, <<"lien", Lien(r.lien)>>)
                        THEN {<<"recheck lien", Lien(r.lien)>>} ELSE {})
          [] r.op = "release" /\ c.writes = "release" -> {<<"recheck lien", <<r.lien, c.on>>>>}
          [] OTHER -> {}

\* What a transaction knows of the tables, by the locks it holds.
Knows(c) ==
    /\ InOrder(c.todo)
    /\ \A i \in 1..Len(c.todo) : c.todo[i][1] # "lock" => c.todo[i] \in Lookups(c)
    /\ c.request.op = "record" => Plain(c.request) /\ Records(c)
    /\ c.request.op = "complete" => Completes(c)
    /\ c.request.op = "reverse" => Reverses(c)
    /\ c.request.op = "review" => Reviews(c)
    /\ c.request.op = "place" => Places(c)
    /\ c.request.op = "release" => Releases(c)
    /\ c.request.op = "control" => c.writes = "nothing"

LInv ==
    /\ LocksTypeOK
    /\ \A k \in Created : Plain(transfers[k])
    /\ \A p, q \in Running : p # q => call[p].held \cap call[q].held = {}
    /\ \A p \in Running : Knows(call[p])

-----------------------------------------------------------------------------
(***************************************************************************)
(* Sequences of statements.                                                *)
(***************************************************************************)
LEMMA StillNone == \A y : ~Still(<<>>, y)
BY DEF Still

LEMMA StillOne ==
    ASSUME NEW x, NEW y
    PROVE  Still(<<x>>, y) <=> y = x
BY DEF Still

LEMMA StillTwo ==
    ASSUME NEW x, NEW z, NEW y
    PROVE  Still(<<x, z>>, y) <=> y \in {x, z}
BY DEF Still

LEMMA StillHead ==
    ASSUME NEW s \in Seq(Statement), s # <<>>, NEW y
    PROVE  Still(s, y) <=> y = Head(s) \/ Still(Tail(s), y)
<1>1. /\ Tail(s) \in Seq(Statement) /\ Head(s) = s[1] /\ Len(s) \in Nat /\ Len(s) >= 1
      /\ Len(Tail(s)) = Len(s) - 1 /\ \A i \in 1..Len(Tail(s)) : Tail(s)[i] = s[i + 1]
  BY HeadTailProperties, EmptySeq, LenProperties
<1>2. ASSUME Still(s, y) PROVE y = Head(s) \/ Still(Tail(s), y)
  <2>1. PICK i \in 1..Len(s) : s[i] = y
    BY <1>2 DEF Still
  <2>2. CASE i = 1
    BY <1>1, <2>1, <2>2
  <2>3. CASE i # 1
    <3>1. i - 1 \in 1..Len(Tail(s)) /\ Tail(s)[i - 1] = y
      BY <1>1, <2>1, <2>3
    <3> QED
      BY <3>1 DEF Still
  <2> QED
    BY <2>2, <2>3
<1>3. ASSUME y = Head(s) PROVE Still(s, y)
  BY <1>1, <1>3 DEF Still
<1>4. ASSUME Still(Tail(s), y) PROVE Still(s, y)
  <2>1. PICK i \in 1..Len(Tail(s)) : Tail(s)[i] = y
    BY <1>4 DEF Still
  <2>2. i + 1 \in 1..Len(s) /\ s[i + 1] = y
    BY <1>1, <2>1
  <2> QED
    BY <2>2 DEF Still
<1> QED
  BY <1>2, <1>3, <1>4

LEMMA StillBoth ==
    ASSUME NEW s \in Seq(Statement), NEW t \in Seq(Statement), NEW y
    PROVE  Still(s \o t, y) <=> Still(s, y) \/ Still(t, y)
<1>1. /\ Len(s) \in Nat /\ Len(t) \in Nat /\ Len(s \o t) = Len(s) + Len(t)
      /\ \A i \in 1..Len(s) + Len(t) : (s \o t)[i] = IF i <= Len(s) THEN s[i] ELSE t[i - Len(s)]
  BY ConcatProperties, LenProperties
<1>2. ASSUME Still(s \o t, y) PROVE Still(s, y) \/ Still(t, y)
  <2>1. PICK i \in 1..Len(s) + Len(t) : (s \o t)[i] = y
    BY <1>1, <1>2 DEF Still
  <2>2. CASE i <= Len(s)
    BY <1>1, <2>1, <2>2 DEF Still
  <2>3. CASE ~(i <= Len(s))
    <3>1. i - Len(s) \in 1..Len(t) /\ t[i - Len(s)] = y
      BY <1>1, <2>1, <2>3
    <3> QED
      BY <3>1 DEF Still
  <2> QED
    BY <2>2, <2>3
<1>3. ASSUME Still(s, y) PROVE Still(s \o t, y)
  BY <1>1, <1>3 DEF Still
<1>4. ASSUME Still(t, y) PROVE Still(s \o t, y)
  <2>1. PICK i \in 1..Len(t) : t[i] = y
    BY <1>4 DEF Still
  <2>2. i + Len(s) \in 1..Len(s) + Len(t) /\ (s \o t)[i + Len(s)] = y
    BY <1>1, <2>1
  <2> QED
    BY <1>1, <2>2 DEF Still
<1> QED
  BY <1>2, <1>3, <1>4

LEMMA OrderNone == InOrder(<<>>)
BY DEF InOrder

LEMMA OrderOne == \A x : InOrder(<<x>>)
BY DEF InOrder

LEMMA OrderTwo ==
    ASSUME NEW x, NEW y, Follows(x, y)
    PROVE  InOrder(<<x, y>>)
BY DEF InOrder

LEMMA OrderHead ==
    ASSUME NEW s \in Seq(Statement), s # <<>>, InOrder(s)
    PROVE  InOrder(Tail(s)) /\ \A y : Still(Tail(s), y) => Follows(Head(s), y)
<1>1. /\ Tail(s) \in Seq(Statement) /\ Head(s) = s[1] /\ Len(s) \in Nat /\ Len(s) >= 1
      /\ Len(Tail(s)) = Len(s) - 1 /\ \A i \in 1..Len(Tail(s)) : Tail(s)[i] = s[i + 1]
  BY HeadTailProperties, EmptySeq, LenProperties
<1>2. ASSUME NEW i \in 1..Len(Tail(s)), NEW j \in 1..Len(Tail(s)), i < j
      PROVE  Follows(Tail(s)[i], Tail(s)[j])
  <2>1. i + 1 \in 1..Len(s) /\ j + 1 \in 1..Len(s) /\ i + 1 < j + 1
    BY <1>1, <1>2
  <2>2. Follows(s[i + 1], s[j + 1])
    BY <2>1 DEF InOrder
  <2> QED
    BY <1>1, <2>2
<1>3. ASSUME NEW y, Still(Tail(s), y) PROVE Follows(Head(s), y)
  <2>1. PICK i \in 1..Len(Tail(s)) : Tail(s)[i] = y
    BY <1>3 DEF Still
  <2>2. i + 1 \in 1..Len(s) /\ 1 \in 1..Len(s) /\ 1 < i + 1 /\ s[i + 1] = y
    BY <1>1, <2>1
  <2> QED
    BY <1>1, <2>2 DEF InOrder
<1> QED
  BY <1>2, <1>3 DEF InOrder

LEMMA OrderBoth ==
    ASSUME NEW s \in Seq(Statement), NEW t \in Seq(Statement), InOrder(s), InOrder(t),
           \A x, y : Still(s, x) /\ Still(t, y) => Follows(x, y)
    PROVE  InOrder(s \o t)
<1>1. /\ Len(s) \in Nat /\ Len(t) \in Nat /\ Len(s \o t) = Len(s) + Len(t)
      /\ \A i \in 1..Len(s) + Len(t) : (s \o t)[i] = IF i <= Len(s) THEN s[i] ELSE t[i - Len(s)]
  BY ConcatProperties, LenProperties
<1>2. SUFFICES ASSUME NEW i \in 1..Len(s) + Len(t), NEW j \in 1..Len(s) + Len(t), i < j
               PROVE  Follows((s \o t)[i], (s \o t)[j])
  BY <1>1 DEF InOrder
<1>3. CASE j <= Len(s)
  BY <1>1, <1>2, <1>3 DEF InOrder
<1>4. CASE i <= Len(s) /\ ~(j <= Len(s))
  <2>1. j - Len(s) \in 1..Len(t) /\ i \in 1..Len(s)
    BY <1>1, <1>4
  <2>2. Still(s, s[i]) /\ Still(t, t[j - Len(s)])
    BY <2>1 DEF Still
  <2> QED
    BY <1>1, <1>4, <2>2
<1>5. CASE ~(i <= Len(s))
  <2>1. i - Len(s) \in 1..Len(t) /\ j - Len(s) \in 1..Len(t) /\ i - Len(s) < j - Len(s)
    BY <1>1, <1>2, <1>5
  <2>2. Follows(t[i - Len(s)], t[j - Len(s)])
    BY <2>1 DEF InOrder
  <2> QED
    BY <1>1, <1>2, <1>5, <2>1, <2>2
<1> QED
  BY <1>3, <1>4, <1>5

\* Statements and their ranks.
LEMMA Ranks ==
    /\ \A x : Rank(Take("idempotency", x)) = 1
    /\ \A x : Rank(Take("provider_event", x)) = 1
    /\ \A x : Rank(Take("provider_reference", x)) = 1
    /\ \A x : Rank(Take("account_lien_reference", x)) = 1
    /\ \A x : Rank(Take("transfer", x)) = 3
    /\ \A x : Rank(Take("account", x)) = 6
    /\ \A x : Rank(Take("balance", x)) = 6
    /\ \A x : Rank(Take("lien", x)) = 7
    /\ \A x : Rank(Take("hold", x)) = 10
    /\ \A x : Rank(<<"recheck pending", x>>) = 4
    /\ \A x : Rank(<<"recheck reversible", x>>) = 4
    /\ \A x : Rank(<<"recheck lien", x>>) = 8
    /\ \A x : Rank(<<"check funds", x>>) = 9
    /\ Rank(<<"find", "key">>) = 2 /\ Rank(<<"find", "event">>) = 2
    /\ Rank(<<"find", "pending">>) = 4 /\ Rank(<<"find", "settled">>) = 5
    /\ Rank(<<"find", "lien">>) = 8
BY DEF Rank, LockRank, FindRank, Take

LEMMA RanksOfAll == \A y : Rank(y) \in 1..10
BY DEF Rank, LockRank, FindRank

LEMMA NotFollowing ==
    ASSUME NEW x, NEW y, Rank(x) \notin {1, 2, 6}, Rank(y) <= Rank(x)
    PROVE  ~Follows(x, y)
BY RanksOfAll DEF Follows

\* An ordered sequence of statements up to a rank.
OrderedTo(s, n) ==
    s \in Seq(Statement) /\ InOrder(s) /\ \A y : Still(s, y) => Rank(y) <= n

LEMMA OrderExtends ==
    ASSUME NEW s, NEW t, NEW n \in 1..10, NEW m \in 1..10, OrderedTo(s, n), OrderedTo(t, m), n <= m,
           \A y : Still(t, y) => Rank(y) > n \/ (Rank(y) = n /\ n \in {1, 2, 6})
    PROVE  OrderedTo(s \o t, m) /\ \A y : Still(s \o t, y) <=> Still(s, y) \/ Still(t, y)
<1>1. s \in Seq(Statement) /\ t \in Seq(Statement) /\ s \o t \in Seq(Statement)
  BY ConcatProperties DEF OrderedTo
<1>2. \A y : Still(s \o t, y) <=> Still(s, y) \/ Still(t, y)
  BY <1>1, StillBoth
<1>3. ASSUME NEW x, NEW y, Still(s, x), Still(t, y) PROVE Follows(x, y)
  <2>1. Rank(x) <= n /\ Rank(x) \in 1..10 /\ Rank(y) \in 1..10
    BY <1>3, RanksOfAll DEF OrderedTo
  <2>2. Rank(y) > n \/ (Rank(y) = n /\ n \in {1, 2, 6})
    BY <1>3
  <2> QED
    BY <2>1, <2>2 DEF Follows
<1>4. InOrder(s \o t)
  BY <1>1, <1>3, OrderBoth DEF OrderedTo
<1>5. ASSUME NEW y, Still(s \o t, y) PROVE Rank(y) <= m
  <2>1. Rank(y) \in 1..10 /\ (Rank(y) <= n \/ Rank(y) <= m)
    BY <1>2, <1>5, RanksOfAll DEF OrderedTo
  <2> QED
    BY <2>1
<1> QED
  BY <1>1, <1>2, <1>4, <1>5 DEF OrderedTo

LEMMA WhenFacts ==
    ASSUME NEW condition \in BOOLEAN, NEW s, NEW n, OrderedTo(s, n)
    PROVE  /\ OrderedTo(When(condition, s), n)
           /\ \A y : Still(When(condition, s), y) <=> condition /\ Still(s, y)
<1>1. CASE condition
  BY <1>1 DEF When
<1>2. CASE ~condition
  <2>1. When(condition, s) = <<>> /\ <<>> \in Seq(Statement)
    BY <1>2 DEF When
  <2> QED
    BY <1>2, <2>1, StillNone, OrderNone DEF OrderedTo
<1> QED
  BY <1>1, <1>2

LEMMA OneFacts ==
    ASSUME NEW x \in Statement, NEW n, Rank(x) = n
    PROVE  OrderedTo(<<x>>, n) /\ \A y : Still(<<x>>, y) <=> y = x
<1>1. <<x>> \in Seq(Statement)
  OBVIOUS
<1>2. n \in 1..10
  BY RanksOfAll
<1> QED
  BY <1>1, <1>2, StillOne, OrderOne DEF OrderedTo

LEMMA TwoFacts ==
    ASSUME NEW x \in Statement, NEW z \in Statement, NEW n, Rank(z) = n, Follows(x, z)
    PROVE  OrderedTo(<<x, z>>, n) /\ \A y : Still(<<x, z>>, y) <=> y \in {x, z}
<1>1. <<x, z>> \in Seq(Statement)
  OBVIOUS
<1>2. Rank(x) <= n /\ Rank(x) \in 1..10 /\ n \in 1..10
  BY RanksOfAll DEF Follows
<1>3. \A y : Still(<<x, z>>, y) <=> y \in {x, z}
  BY StillTwo
<1> QED
  BY <1>1, <1>2, <1>3, OrderTwo DEF OrderedTo

LEMMA StatementFacts ==
    /\ \A k \in Keys : /\ Take("idempotency", k) \in Statement /\ Take("transfer", k) \in Statement
                       /\ Take("hold", k) \in Statement
                       /\ <<"recheck pending", k>> \in Statement
                       /\ <<"recheck reversible", k>> \in Statement
    /\ \A e \in Events : Take("provider_event", e) \in Statement
    /\ \A x \in Reference : Take("provider_reference", x) \in Statement
    /\ \A a \in Accounts : /\ Take("account", a) \in Statement /\ Take("balance", a) \in Statement
                           /\ <<"check funds", a>> \in Statement
    /\ \A l \in LienReferences : Take("account_lien_reference", l) \in Statement
    /\ \A x \in LienReferences \X Nat : Take("lien", x) \in Statement /\ <<"recheck lien", x>> \in Statement
    /\ \A what \in {"key", "event", "pending", "settled", "lien"} : <<"find", what>> \in Statement
<1>1. /\ \A k \in Keys : {<<"idempotency", k>>, <<"transfer", k>>, <<"hold", k>>} \subseteq Lock
      /\ \A e \in Events : <<"provider_event", e>> \in Lock
      /\ \A x \in Reference : <<"provider_reference", x>> \in Lock
      /\ \A a \in Accounts : <<"account", a>> \in Lock /\ <<"balance", a>> \in Lock
      /\ \A l \in LienReferences : <<"account_lien_reference", l>> \in Lock
      /\ \A x \in LienReferences \X Nat : <<"lien", x>> \in Lock
  BY DEF Lock
<1>2. \A x \in Lock : <<"lock", x>> \in Statement
  BY DEF Statement
<1>3. /\ \A k \in Keys : <<"recheck pending", k>> \in Statement /\ <<"recheck reversible", k>> \in Statement
      /\ \A a \in Accounts : <<"check funds", a>> \in Statement
      /\ \A x \in LienReferences \X Nat : <<"recheck lien", x>> \in Statement
      /\ \A what \in {"key", "event", "pending", "settled", "lien"} : <<"find", what>> \in Statement
  BY DEF Statement
<1> QED
  BY <1>1, <1>2, <1>3 DEF Take

LEMMA RequestFacts ==
    ASSUME NEW r \in Request
    PROVE  /\ r.op \in {"record", "complete", "reverse", "review", "control", "place", "release"}
           /\ r.op = "record" => r \in RecordRequest
           /\ r.op \in {"record", "review"} => r.key \in Keys /\ r.event \in Events \cup {Nil}
           /\ r.op \in {"complete", "reverse"} => r.transfer \in Keys
           /\ r.op = "complete" => r.status \in {"pending", "posted", "failed"}
           /\ r.op = "reverse" => r.key \in Keys
           /\ r.op \in {"record", "review"} => r.account \in Accounts
           /\ r.op \in {"control", "place", "release"} => r.account \in Customers
           /\ r.op \in {"place", "release"} => r.lien \in LienReferences
BY DEF Request, RecordRequest

-----------------------------------------------------------------------------
(***************************************************************************)
(* The statements of each transaction.                                     *)
(***************************************************************************)
LEMMA AccountBalanceFacts ==
    ASSUME NEW a \in Accounts
    PROVE  /\ OrderedTo(AccountBalance(a), 6)
           /\ \A y : Still(AccountBalance(a), y) <=> y \in {Take("account", a), Take("balance", a)}
BY StatementFacts, Ranks, TwoFacts DEF AccountBalance, Follows

LEMMA AccountBalancesFacts ==
    ASSUME NEW a \in Accounts, NEW b \in Accounts
    PROVE  /\ OrderedTo(TransferAccountBalances(a, b), 6)
           /\ \A y : Still(TransferAccountBalances(a, b), y)
                       <=> y \in {Take("account", a), Take("balance", a), Take("account", b), Take("balance", b)}
<1>1. ASSUME NEW c \in Accounts, NEW d \in Accounts
      PROVE  /\ OrderedTo(AccountBalance(c) \o AccountBalance(d), 6)
             /\ \A y : Still(AccountBalance(c) \o AccountBalance(d), y)
                         <=> y \in {Take("account", c), Take("balance", c), Take("account", d), Take("balance", d)}
  <2>1. ASSUME NEW y, Still(AccountBalance(d), y) PROVE Rank(y) = 6
    <3>1. y = Take("account", d) \/ y = Take("balance", d)
      BY <2>1, AccountBalanceFacts
    <3> QED
      BY <3>1, Ranks
  <2>2. \A y : Still(AccountBalance(d), y) => Rank(y) > 6 \/ (Rank(y) = 6 /\ 6 \in {1, 2, 6})
    BY <2>1
  <2>3. OrderedTo(AccountBalance(c), 6) /\ OrderedTo(AccountBalance(d), 6) /\ 6 \in 1..10 /\ 6 <= 6
    BY AccountBalanceFacts
  <2>4. /\ OrderedTo(AccountBalance(c) \o AccountBalance(d), 6)
        /\ \A y : Still(AccountBalance(c) \o AccountBalance(d), y)
                    <=> Still(AccountBalance(c), y) \/ Still(AccountBalance(d), y)
    BY <2>2, <2>3, OrderExtends
  <2> QED
    BY <2>4, AccountBalanceFacts
<1> QED
  BY <1>1 DEF TransferAccountBalances

\* The statements of a request that records a transfer, as a set.
Program(r) ==
    {Take("idempotency", r.key), <<"find", "key">>}
      \cup (IF r.event # Nil THEN {Take("provider_event", r.event), <<"find", "event">>} ELSE {})
      \cup (IF ByReference(r) THEN {Take("provider_reference", r.reference), <<"find", "pending">>,
                                    <<"find", "settled">>} ELSE {})
      \cup {Take("account", r.account), Take("balance", r.account),
            Take("account", r.clearing), Take("balance", r.clearing)}
      \cup (IF ChecksFunds(r) THEN {<<"check funds", r.account>>} ELSE {})

LEMMA RecordTransferFacts ==
    ASSUME NEW r \in RecordRequest
    PROVE  /\ OrderedTo(RecordTransfer(r), 9)
           /\ \A y : Still(RecordTransfer(r), y) <=> y \in Program(r)
<1> DEFINE a == <<Take("idempotency", r.key)>>
           b == When(r.event # Nil, <<Take("provider_event", r.event)>>)
           c == When(ByReference(r), <<Take("provider_reference", r.reference)>>)
           d == <<<<"find", "key">>>>
           e == When(r.event # Nil, <<<<"find", "event">>>>)
           f == When(ByReference(r), <<<<"find", "pending">>, <<"find", "settled">>>>)
           g == TransferAccountBalances(r.account, r.clearing)
           h == When(ChecksFunds(r), <<<<"check funds", r.account>>>>)
<1>1. /\ r.key \in Keys /\ r.event \in Events \cup {Nil} /\ r.reference \in Reference
      /\ r.account \in Accounts /\ r.clearing \in Accounts
  BY DEF RecordRequest
<1>2. OrderedTo(a, 1) /\ \A y : Still(a, y) <=> y = Take("idempotency", r.key)
  BY <1>1, StatementFacts, Ranks, OneFacts
<1>3. OrderedTo(b, 1) /\ \A y : Still(b, y) <=> r.event # Nil /\ y = Take("provider_event", r.event)
  <2>1. CASE r.event # Nil
    <3>1. Take("provider_event", r.event) \in Statement /\ Rank(Take("provider_event", r.event)) = 1
      BY <1>1, <2>1, StatementFacts, Ranks
    <3>2. /\ OrderedTo(<<Take("provider_event", r.event)>>, 1)
          /\ \A y : Still(<<Take("provider_event", r.event)>>, y) <=> y = Take("provider_event", r.event)
      BY <3>1, OneFacts
    <3> QED
      BY <3>2, WhenFacts
  <2>2. CASE r.event = Nil
    <3>1. b = <<>> /\ <<>> \in Seq(Statement)
      BY <2>2 DEF When
    <3> QED
      BY <2>2, <3>1, StillNone, OrderNone DEF OrderedTo
  <2> QED
    BY <2>1, <2>2
<1>4. OrderedTo(c, 1) /\ \A y : Still(c, y) <=> ByReference(r) /\ y = Take("provider_reference", r.reference)
  <2>1. Take("provider_reference", r.reference) \in Statement /\ Rank(Take("provider_reference", r.reference)) = 1
    BY <1>1, StatementFacts, Ranks
  <2>2. /\ OrderedTo(<<Take("provider_reference", r.reference)>>, 1)
        /\ \A y : Still(<<Take("provider_reference", r.reference)>>, y)
                    <=> y = Take("provider_reference", r.reference)
    BY <2>1, OneFacts
  <2>3. ByReference(r) \in BOOLEAN
    BY DEF ByReference
  <2> QED
    BY <2>2, <2>3, WhenFacts
<1>5. OrderedTo(d, 2) /\ \A y : Still(d, y) <=> y = <<"find", "key">>
  BY StatementFacts, Ranks, OneFacts
<1>6. OrderedTo(e, 2) /\ \A y : Still(e, y) <=> r.event # Nil /\ y = <<"find", "event">>
  <2>1. /\ OrderedTo(<<<<"find", "event">>>>, 2)
        /\ \A y : Still(<<<<"find", "event">>>>, y) <=> y = <<"find", "event">>
    BY StatementFacts, Ranks, OneFacts
  <2> QED
    BY <2>1, WhenFacts
<1>7. OrderedTo(f, 5) /\ \A y : Still(f, y) <=> ByReference(r) /\ y \in {<<"find", "pending">>, <<"find", "settled">>}
  <2>1. /\ OrderedTo(<<<<"find", "pending">>, <<"find", "settled">>>>, 5)
        /\ \A y : Still(<<<<"find", "pending">>, <<"find", "settled">>>>, y)
                    <=> y \in {<<"find", "pending">>, <<"find", "settled">>}
    <3>1. Follows(<<"find", "pending">>, <<"find", "settled">>) /\ Rank(<<"find", "settled">>) = 5
      BY DEF Follows, Rank, FindRank
    <3>2. <<"find", "pending">> \in Statement /\ <<"find", "settled">> \in Statement
      BY StatementFacts
    <3> QED
      BY <3>1, <3>2, TwoFacts
  <2>2. ByReference(r) \in BOOLEAN
    BY DEF ByReference
  <2> QED
    BY <2>1, <2>2, WhenFacts
<1>8. OrderedTo(g, 6) /\ \A y : Still(g, y) <=> y \in {Take("account", r.account), Take("balance", r.account),
                                                   Take("account", r.clearing), Take("balance", r.clearing)}
  BY <1>1, AccountBalancesFacts
<1>9. OrderedTo(h, 9) /\ \A y : Still(h, y) <=> ChecksFunds(r) /\ y = <<"check funds", r.account>>
  <2>1. /\ OrderedTo(<<<<"check funds", r.account>>>>, 9)
        /\ \A y : Still(<<<<"check funds", r.account>>>>, y) <=> y = <<"check funds", r.account>>
    BY <1>1, StatementFacts, Ranks, OneFacts
  <2>2. ChecksFunds(r) \in BOOLEAN
    BY <1>1 DEF ChecksFunds, RecordRequest
  <2>3. CASE ChecksFunds(r)
    BY <2>1, <2>3 DEF When
  <2>4. CASE ~ChecksFunds(r)
    <3>1. h = <<>> /\ <<>> \in Seq(Statement)
      BY <2>4 DEF When
    <3> QED
      BY <2>4, <3>1, StillNone, OrderNone DEF OrderedTo
  <2> QED
    BY <2>2, <2>3, <2>4
<1>10. RecordTransfer(r) = ((((((a \o b) \o c) \o d) \o e) \o f) \o g) \o h
  BY DEF RecordTransfer, ReplayKeys
<1> HIDE DEF a, b, c, d, e, f, g, h
<1>11. OrderedTo(a \o b, 1) /\ \A y : Still(a \o b, y) <=> Still(a, y) \/ Still(b, y)
  <2>1. ASSUME NEW y, Still(b, y) PROVE Rank(y) = 1 /\ 1 \in {1, 2, 6}
    BY <2>1, <1>3 DEF Rank, LockRank, FindRank, Take
  <2> QED
    BY <1>2, <1>3, <2>1, OrderExtends
<1>12. OrderedTo((a \o b) \o c, 1) /\ \A y : Still((a \o b) \o c, y) <=> Still(a \o b, y) \/ Still(c, y)
  <2>1. ASSUME NEW y, Still(c, y) PROVE Rank(y) = 1 /\ 1 \in {1, 2, 6}
    BY <2>1, <1>4 DEF Rank, LockRank, FindRank, Take
  <2> QED
    BY <1>4, <1>11, <2>1, OrderExtends
<1>13. /\ OrderedTo(((a \o b) \o c) \o d, 2)
       /\ \A y : Still(((a \o b) \o c) \o d, y) <=> Still((a \o b) \o c, y) \/ Still(d, y)
  <2>1. ASSUME NEW y, Still(d, y) PROVE Rank(y) > 1
    BY <2>1, <1>5 DEF Rank, LockRank, FindRank, Take
  <2> QED
    BY <1>5, <1>12, <2>1, OrderExtends
<1>14. /\ OrderedTo((((a \o b) \o c) \o d) \o e, 2)
       /\ \A y : Still((((a \o b) \o c) \o d) \o e, y) <=> Still(((a \o b) \o c) \o d, y) \/ Still(e, y)
  <2>1. ASSUME NEW y, Still(e, y) PROVE Rank(y) = 2 /\ 2 \in {1, 2, 6}
    BY <2>1, <1>6, Ranks
  <2> QED
    BY <1>6, <1>13, <2>1, OrderExtends
<1>15. /\ OrderedTo(((((a \o b) \o c) \o d) \o e) \o f, 5)
       /\ \A y : Still(((((a \o b) \o c) \o d) \o e) \o f, y) <=> Still((((a \o b) \o c) \o d) \o e, y) \/ Still(f, y)
  <2>1. ASSUME NEW y, Still(f, y) PROVE Rank(y) > 2
    BY <2>1, <1>7 DEF Rank, LockRank, FindRank, Take
  <2> QED
    BY <1>7, <1>14, <2>1, OrderExtends
<1>16. /\ OrderedTo((((((a \o b) \o c) \o d) \o e) \o f) \o g, 6)
       /\ \A y : Still((((((a \o b) \o c) \o d) \o e) \o f) \o g, y)
                   <=> Still(((((a \o b) \o c) \o d) \o e) \o f, y) \/ Still(g, y)
  <2>1. ASSUME NEW y, Still(g, y) PROVE Rank(y) > 5
    <3>1. y \in {Take("account", r.account), Take("balance", r.account),
                Take("account", r.clearing), Take("balance", r.clearing)}
      BY <2>1, <1>8
    <3>2. \A x : Rank(Take("account", x)) = 6 /\ Rank(Take("balance", x)) = 6
      BY DEF Rank, LockRank, Take
    <3> QED
      BY <3>1, <3>2
  <2> QED
    BY <1>8, <1>15, <2>1, OrderExtends
<1>17. /\ OrderedTo(((((((a \o b) \o c) \o d) \o e) \o f) \o g) \o h, 9)
       /\ \A y : Still(((((((a \o b) \o c) \o d) \o e) \o f) \o g) \o h, y)
                   <=> Still((((((a \o b) \o c) \o d) \o e) \o f) \o g, y) \/ Still(h, y)
  <2>1. ASSUME NEW y, Still(h, y) PROVE Rank(y) > 6
    <3>1. y = <<"check funds", r.account>>
      BY <2>1, <1>9
    <3>2. \A x : Rank(<<"check funds", x>>) = 9
      BY DEF Rank
    <3>3. Rank(y) = 9
      BY <3>1, <3>2
    <3> QED
      BY <3>3
  <2> DEFINE u == (((((a \o b) \o c) \o d) \o e) \o f) \o g
  <2>2. OrderedTo(u, 6)
    BY <1>16
  <2>4. OrderedTo(h, 9)
    BY <1>9
  <2> HIDE DEF u
  <2>3. OrderedTo(u \o h, 9) /\ \A y : Still(u \o h, y) <=> Still(u, y) \/ Still(h, y)
    BY <2>1, <2>2, <2>4, OrderExtends
  <2> QED
    BY <2>3 DEF u
<1>18. OrderedTo(RecordTransfer(r), 9)
  BY <1>10, <1>17
<1>19. ASSUME NEW y PROVE Still(RecordTransfer(r), y) <=> y \in Program(r)
  <2>1. Still(RecordTransfer(r), y)
          <=> \/ Still(a, y) \/ Still(b, y) \/ Still(c, y) \/ Still(d, y) \/ Still(e, y)
              \/ Still(f, y) \/ Still(g, y) \/ Still(h, y)
    BY <1>10, <1>11, <1>12, <1>13, <1>14, <1>15, <1>16, <1>17
  <2> QED
    BY <2>1, <1>2, <1>3, <1>4, <1>5, <1>6, <1>7, <1>8, <1>9 DEF Program
<1> QED
  BY <1>18, <1>19

-----------------------------------------------------------------------------
(***************************************************************************)
(* What a transaction knows stays so: it goes past one statement at a      *)
(* time, and the tables change only where it holds no lock.                *)
(***************************************************************************)
\* The transaction c has become d: it may have done statement z.
Past(c, d, z) ==
    /\ d.request = c.request /\ d.on = c.on
    /\ c.held \subseteq d.held /\ c.unseen \subseteq d.unseen
    /\ \A x : Secures(c, x) => Secures(d, x)
    /\ \A y : Still(c.todo, y) /\ y[1] # "lock" /\ y # z => Still(d.todo, y)

\* A row that was there is there, and keeps what it was created with; it
\* changes only while it is pending.
RowKept(k) ==
    /\ k \in Created'
    /\ transfers'[k].account = transfers[k].account /\ transfers'[k].clearing = transfers[k].clearing
    /\ transfers'[k].outbound = transfers[k].outbound
    /\ transfers'[k].reference = transfers[k].reference
    /\ transfers'[k].reversalOf = transfers[k].reversalOf
    /\ transfers[k].events \subseteq transfers'[k].events
    /\ transfers[k].status # "pending" => transfers'[k].status = transfers[k].status

\* The tables change only where c holds no lock.
Undisturbed(c, d) ==
    /\ \A k \in Created : RowKept(k)
    /\ \A k \in Created : <<"transfer", k>> \in c.held => transfers'[k] = transfers[k]
    /\ \A k \in Created' : <<"idempotency", k>> \in c.held => k \in Created
    /\ \A e \in Events : <<"provider_event", e>> \in c.held =>
          \A k \in Created' : e \in transfers'[k].events => k \in Created /\ e \in transfers[k].events
    /\ \A k \in Created' \ Created :
          /\ <<"provider_reference", transfers'[k].reference>> \in c.held
               /\ transfers'[k].reference # Nil /\ transfers'[k].reversalOf = Nil => k \in d.unseen
          /\ \A j \in Created : <<"transfer", j>> \in c.held => transfers'[k].reversalOf # j
    /\ \A a \in Customers : <<"balance", a>> \in c.held => funds'[a] = funds[a]
    /\ \A l \in LienReferences :
          /\ lien[l].number <= lien'[l].number
          /\ lien'[l].number = lien[l].number => lien'[l].account \in {lien[l].account, Nil}
          /\ <<"account_lien_reference", l>> \in c.held =>
                /\ lien'[l].number = lien[l].number
                /\ lien[l].account = Nil => lien'[l].account = Nil
          /\ <<"lien", Lien(l)>> \in c.held /\ lien[l].account # Nil => lien'[l] = lien[l]

LEMMA ReversibleStays ==
    ASSUME NEW c, NEW d, Undisturbed(c, d), NEW k \in Created, <<"transfer", k>> \in c.held
    PROVE  Reversible(k)' <=> Reversible(k)
<1>1. transfers'[k] = transfers[k]
  BY DEF Undisturbed
<1>2. \A j \in Created : j \in Created' /\ transfers'[j].reversalOf = transfers[j].reversalOf
  BY DEF Undisturbed, RowKept
<1>3. \A j \in Created' \ Created : transfers'[j].reversalOf # k
  BY DEF Undisturbed
<1>4. (\A j \in Created : transfers[j].reversalOf # k) <=> (\A j \in Created' : transfers'[j].reversalOf # k)
  BY <1>2, <1>3
<1> QED
  BY <1>1, <1>4 DEF Reversible

LEMMA NewKeyStays ==
    ASSUME NEW c, NEW d, NEW z, Past(c, d, z), Undisturbed(c, d), HasNewKey(c),
           c.request.key \in Keys, z # <<"find", "key">>
    PROVE  HasNewKey(d)'
<1> DEFINE x == <<"idempotency", c.request.key>>
<1>1. CASE Still(c.todo, <<"find", "key">>) /\ Secures(c, x)
  <2>1. <<"find", "key">>[1] # "lock"
    OBVIOUS
  <2>2. Still(d.todo, <<"find", "key">>) /\ Secures(d, x)
    BY <1>1, <2>1 DEF Past
  <2> QED
    BY <2>2 DEF HasNewKey, Learned, Past
<1>2. CASE x \in c.held /\ c.request.key \notin Created
  <2>1. x \in d.held /\ d.request = c.request /\ c.request.key \notin Created'
    BY <1>2 DEF Past, Undisturbed
  <2> QED
    BY <2>1 DEF HasNewKey, Learned
<1> QED
  BY <1>1, <1>2 DEF HasNewKey, Learned

LEMMA NewEventStays ==
    ASSUME NEW c, NEW d, NEW z, Past(c, d, z), Undisturbed(c, d), HasNewEvent(c),
           c.request.event \in Events \cup {Nil}, z # <<"find", "event">>
    PROVE  HasNewEvent(d)'
<1> DEFINE e == c.request.event
           x == <<"provider_event", e>>
<1>1. SUFFICES ASSUME e # Nil PROVE Learned(d, x, <<"find", "event">>, EventIsNew(c.request)')
  BY DEF HasNewEvent, Past, Learned
<1>2. CASE Still(c.todo, <<"find", "event">>) /\ Secures(c, x)
  <2>1. <<"find", "event">>[1] # "lock"
    OBVIOUS
  <2>2. Still(d.todo, <<"find", "event">>) /\ Secures(d, x)
    BY <1>2, <2>1 DEF Past
  <2> QED
    BY <2>2 DEF Learned
<1>3. CASE x \in c.held /\ EventIsNew(c.request)
  <2>1. e \in Events /\ x \in d.held
    BY <1>1, <1>3 DEF Past
  <2>2. \A k \in Created' : e \notin transfers'[k].events
    BY <1>3, <2>1 DEF Undisturbed, EventIsNew
  <2> QED
    BY <2>1, <2>2 DEF Learned, EventIsNew
<1> QED
  BY <1>1, <1>2, <1>3 DEF HasNewEvent, Learned

LEMMA ReferenceStays ==
    ASSUME NEW c, NEW d, NEW r, Undisturbed(c, d), ByReference(r), c.unseen \subseteq d.unseen,
           <<"provider_reference", r.reference>> \in c.held
    PROVE  /\ PendingWith(r)' \subseteq PendingWith(r) \cup d.unseen
           /\ WithReference(r)' \subseteq WithReference(r) \cup d.unseen
<1>1. SUFFICES ASSUME NEW k \in WithReference(r)', k \notin d.unseen
               PROVE  k \in WithReference(r) /\ (k \in PendingWith(r)' => k \in PendingWith(r))
  BY DEF PendingWith
<1>2. k \in Created' /\ transfers'[k].reference = r.reference /\ transfers'[k].reversalOf = Nil
  BY <1>1 DEF WithReference
<1>3. r.reference # Nil
  BY DEF ByReference
<1>4. k \in Created
  BY <1>1, <1>2, <1>3 DEF Undisturbed
<1>5. /\ transfers[k].reference = r.reference /\ transfers[k].reversalOf = Nil
      /\ transfers'[k].status = "pending" => transfers[k].status = "pending"
  BY <1>2, <1>4 DEF Undisturbed, RowKept
<1> QED
  BY <1>4, <1>5 DEF WithReference, PendingWith

LEMMA RowsWithReferenceStay ==
    ASSUME NEW c, NEW d, NEW r, Undisturbed(c, d)
    PROVE  WithReference(r) \subseteq WithReference(r)' /\ SettledWith(r) \subseteq SettledWith(r)'
<1>1. \A k \in WithReference(r) : RowKept(k) /\ transfers[k].reference = r.reference /\ transfers[k].reversalOf = Nil
  BY DEF Undisturbed, WithReference
<1>2. \A k \in WithReference(r) :
          k \in Created' /\ transfers'[k].reference = r.reference /\ transfers'[k].reversalOf = Nil
  BY <1>1 DEF RowKept
<1>3. WithReference(r) \subseteq WithReference(r)'
  BY <1>2 DEF WithReference, Created
<1>4. \A k \in SettledWith(r) : k \in WithReference(r) /\ transfers[k].status # "pending"
  BY DEF SettledWith, PendingWith
<1>5. \A k \in SettledWith(r) : transfers'[k].status # "pending"
  BY <1>1, <1>4 DEF RowKept
<1> QED
  BY <1>3, <1>4, <1>5 DEF SettledWith, PendingWith

LEMMA LookupStays ==
    ASSUME NEW c, NEW d, NEW z, Past(c, d, z), NEW kind, NEW x, kind # "lock", z[1] # kind,
           Still(c.todo, <<kind, x>>)
    PROVE  Still(d.todo, <<kind, x>>)
<1>1. <<kind, x>>[1] = kind
  OBVIOUS
<1>2. z # <<kind, x>> /\ <<kind, x>>[1] # "lock"
  BY <1>1
<1> QED
  BY <1>2 DEF Past

LEMMA KeepsReferenceStays ==
    ASSUME NEW c, NEW d, NEW z, Past(c, d, z), Undisturbed(c, d), KeepsReference(c),
           z[1] \notin {"find", "recheck pending"}
    PROVE  KeepsReference(d)'
<1> DEFINE r == c.request
           x == <<"provider_reference", r.reference>>
<1>1. SUFFICES ASSUME ByReference(r)
               PROVE  \/ Still(d.todo, <<"find", "pending">>) /\ Still(d.todo, <<"find", "settled">>) /\ Secures(d, x)
                      \/ /\ x \in d.held
                         /\ \/ /\ Still(d.todo, <<"find", "settled">>)
                               /\ \/ \E k \in Keys : Still(d.todo, <<"recheck pending", k>>)
                                  \/ SettledWith(r)' # {}
                                  \/ PendingWith(r)' \subseteq d.unseen
                            \/ WithReference(r)' \subseteq d.unseen
  BY DEF KeepsReference, Past, ByReference
<1>2. /\ x \in c.held => x \in d.held
      /\ Secures(c, x) => Secures(d, x)
      /\ c.unseen \subseteq d.unseen
  BY DEF Past
<1>3. /\ Still(c.todo, <<"find", "pending">>) => Still(d.todo, <<"find", "pending">>)
      /\ Still(c.todo, <<"find", "settled">>) => Still(d.todo, <<"find", "settled">>)
  BY LookupStays
<1>4. \A k \in Keys : Still(c.todo, <<"recheck pending", k>>) => Still(d.todo, <<"recheck pending", k>>)
  BY LookupStays
<1>5. SettledWith(r) # {} => SettledWith(r)' # {}
  BY RowsWithReferenceStay
<1>6. x \in c.held => /\ PendingWith(r) \subseteq c.unseen => PendingWith(r)' \subseteq d.unseen
                      /\ WithReference(r) \subseteq c.unseen => WithReference(r)' \subseteq d.unseen
  BY <1>1, <1>2, ReferenceStays
<1> QED
  BY <1>1, <1>2, <1>3, <1>4, <1>5, <1>6 DEF KeepsReference

LEMMA FundedStays ==
    ASSUME NEW c, NEW d, NEW z, Past(c, d, z), Undisturbed(c, d), NEW a \in Customers, IsFunded(c, a),
           z[1] # "check funds"
    PROVE  IsFunded(d, a)'
<1>1. Still(c.todo, <<"check funds", a>>) => Still(d.todo, <<"check funds", a>>)
  BY LookupStays
<1>2. <<"balance", a>> \in c.held => <<"balance", a>> \in d.held /\ funds'[a] = funds[a]
  BY DEF Past, Undisturbed
<1>3. Secures(c, <<"balance", a>>) => Secures(d, <<"balance", a>>)
  BY DEF Past
<1> QED
  BY <1>1, <1>2, <1>3 DEF IsFunded, Learned

LEMMA LacksFundsStays ==
    ASSUME NEW c, NEW d, NEW z, Past(c, d, z), Undisturbed(c, d), LacksFunds(c)
    PROVE  LacksFunds(d)'
<1>1. c.request.account \in Customers
  BY DEF LacksFunds, ChecksFunds
<1>2. /\ <<"balance", c.request.account>> \in d.held
      /\ funds'[c.request.account] = funds[c.request.account] /\ d.request = c.request
  BY <1>1 DEF LacksFunds, Past, Undisturbed
<1> QED
  BY <1>2 DEF LacksFunds, ChecksFunds

LEMMA SettlesStays ==
    ASSUME NEW c, NEW d, NEW z, Past(c, d, z), Undisturbed(c, d), Settles(c)
    PROVE  Settles(d)' /\ (c.on \in WouldSettle(c.request, Created) => c.on \in WouldSettle(c.request, Created)')
<1>1. /\ c.on \in Created /\ <<"transfer", c.on>> \in c.held /\ transfers[c.on].status = "pending"
      /\ ~(c.request.status = "pending" /\ ~transfers[c.on].outbound) => SecuresBalances(c, transfers[c.on])
  BY DEF Settles
<1>2. c.on \in Created' /\ transfers'[c.on] = transfers[c.on]
  BY <1>1 DEF Undisturbed, RowKept
<1>3. d.on = c.on /\ d.request = c.request /\ <<"transfer", c.on>> \in d.held
  BY <1>1 DEF Past
<1>4. SecuresBalances(c, transfers[c.on]) => SecuresBalances(d, transfers[c.on])
  BY DEF Past, SecuresBalances
<1>5. Settles(d)'
  BY <1>1, <1>2, <1>3, <1>4 DEF Settles, SecuresBalances
<1>6. ASSUME c.on \in WouldSettle(c.request, Created) PROVE c.on \in WouldSettle(c.request, Created)'
  BY <1>1, <1>2, <1>6 DEF WouldSettle, PendingWith, WithReference, MaySettle, ByReference
<1> QED
  BY <1>5, <1>6

LEMMA ReplayStays ==
    ASSUME NEW c, NEW d, NEW r, Undisturbed(c, d), Replayed(r)
    PROVE  Replayed(r)'
<1>1. \A k \in Created : k \in Created' /\ transfers[k].events \subseteq transfers'[k].events
  BY DEF Undisturbed, RowKept
<1> QED
  BY <1>1 DEF Replayed

LEMMA BlockStays ==
    ASSUME NEW c, NEW d, NEW r, Undisturbed(c, d), Blocks(r, Created)
    PROVE  Blocks(r, Created)'
<1>1. WithReference(r)' \subseteq Created' /\ WithReference(r) \subseteq Created
  BY DEF WithReference
<1>2. CASE SettledWith(r) # {}
  <2>1. SettledWith(r)' # {}
    BY <1>2, RowsWithReferenceStay
  <2>2. SettledWith(r)' \cap Created' # {}
    BY <1>1, <2>1 DEF SettledWith
  <2> QED
    BY <2>2 DEF Blocks, ByReference
<1>3. ASSUME NEW k \in PendingWith(r), ~MaySettle(r, k) PROVE Blocks(r, Created)'
  <2>1. k \in Created /\ k \in WithReference(r)' /\ k \in Created' /\ RowKept(k)
    <3>1. k \in WithReference(r) /\ k \in Created
      BY <1>1 DEF PendingWith
    <3>2. RowKept(k)
      BY <3>1 DEF Undisturbed
    <3> QED
      BY <1>1, <3>1, <3>2, RowsWithReferenceStay
  <2>2. ~MaySettle(r, k)'
    BY <1>3, <2>1 DEF MaySettle, RowKept
  <2>3. k \in PendingWith(r)' \/ k \in SettledWith(r)'
    BY <2>1 DEF SettledWith
  <2> QED
    BY <1>3, <2>1, <2>2, <2>3 DEF Blocks, ByReference
<1> QED
  BY <1>2, <1>3 DEF Blocks

LEMMA ReversalStays ==
    ASSUME NEW c, NEW d, NEW z, Past(c, d, z), Undisturbed(c, d), ReversesLegally(c.request),
           c.request.reversalOf # Nil =>
              c.request.reversalOf \in Created /\ <<"transfer", c.request.reversalOf>> \in c.held
    PROVE  ReversesLegally(d.request)'
<1>1. d.request = c.request
  BY DEF Past
<1>2. CASE c.request.reversalOf # Nil
  <2>1. Reversible(c.request.reversalOf)'
    BY <1>2, ReversibleStays DEF ReversesLegally
  <2> QED
    BY <1>1, <2>1 DEF ReversesLegally
<1> QED
  BY <1>1, <1>2 DEF ReversesLegally

LEMMA RecordsStays ==
    ASSUME NEW c, NEW d, NEW z, Past(c, d, z), Undisturbed(c, d), z[1] = "lock", d.writes = c.writes,
           c.request \in RecordRequest, Records(c)
    PROVE  Records(d)'
<1> DEFINE r == c.request
<1>1. d.request = r /\ d.on = c.on /\ r.key \in Keys /\ r.event \in Events \cup {Nil}
  BY DEF Past, RecordRequest
<1>2. z # <<"find", "key">> /\ z # <<"find", "event">> /\ z[1] \notin {"find", "recheck pending", "check funds"}
  OBVIOUS
<1>3. r.reversalOf # Nil => r.reversalOf \in Created /\ <<"transfer", r.reversalOf>> \in c.held
  BY DEF Records
<1>4. r.reversalOf # Nil => r.reversalOf \in Created' /\ <<"transfer", r.reversalOf>> \in d.held
  BY <1>3 DEF Past, Undisturbed, RowKept
<1>5. IsNew(c) => IsNew(d)'
  BY <1>1, <1>2, NewKeyStays, NewEventStays DEF IsNew
<1>6. KeepsReference(c) => KeepsReference(d)'
  BY <1>2, KeepsReferenceStays
<1>7. CASE /\ c.writes = "create" /\ IsNew(c) /\ KeepsReference(c) /\ SecuresBalances(c, r)
           /\ ChecksFunds(r) => IsFunded(c, r.account)
           /\ ReversesLegally(r)
  <2>1. SecuresBalances(d, r)
    BY <1>7 DEF SecuresBalances, Past
  <2>2. ChecksFunds(r) => IsFunded(d, r.account)'
    BY <1>2, <1>7, FundedStays DEF ChecksFunds
  <2>3. ReversesLegally(r)'
    BY <1>1, <1>3, <1>7, ReversalStays
  <2>4. SecuresBalances(d, d.request)' /\ (ChecksFunds(d.request)' => IsFunded(d, d.request.account)')
    BY <1>1, <2>1, <2>2 DEF SecuresBalances, ChecksFunds
  <2> QED
    BY <1>1, <1>4, <1>5, <1>6, <1>7, <2>3, <2>4 DEF Records
<1>8. CASE c.writes = "decline" /\ IsNew(c) /\ KeepsReference(c) /\ LacksFunds(c)
  <2>1. LacksFunds(d)'
    BY <1>8, LacksFundsStays
  <2> QED
    BY <1>1, <1>4, <1>5, <1>6, <1>8, <2>1 DEF Records
<1>9. CASE c.writes = "settle" /\ IsNew(c) /\ Settles(c) /\ c.on \in WouldSettle(r, Created)
  <2>1. Settles(d)' /\ c.on \in WouldSettle(r, Created)'
    BY <1>9, SettlesStays
  <2> QED
    BY <1>1, <1>4, <1>5, <1>9, <2>1 DEF Records
<1>10. CASE c.writes = "nothing" /\ (Replayed(r) \/ Blocks(r, Created) \/ LacksFunds(c))
  <2>1. Replayed(r)' \/ Blocks(r, Created)' \/ LacksFunds(d)'
    BY <1>10, ReplayStays, BlockStays, LacksFundsStays
  <2> QED
    BY <1>1, <1>4, <1>10, <2>1 DEF Records
<1> QED
  BY <1>7, <1>8, <1>9, <1>10 DEF Records

LEMMA CompletesStays ==
    ASSUME NEW c, NEW d, NEW z, Past(c, d, z), Undisturbed(c, d), z[1] = "lock", d.writes = c.writes, Completes(c)
    PROVE  Completes(d)'
<1> DEFINE k == c.request.transfer
<1>1. d.request = c.request /\ d.on = c.on
  BY DEF Past
<1>2. k \in Created /\ k \in Created' /\ (transfers[k].status # "pending" => transfers'[k].status # "pending")
  BY DEF Completes, Undisturbed, RowKept
<1>3. CASE c.writes = "nothing" /\ Still(c.todo, <<"recheck pending", k>>) /\ Secures(c, <<"transfer", k>>)
  <2>1. Still(d.todo, <<"recheck pending", k>>) /\ Secures(d, <<"transfer", k>>)
    BY <1>3, LookupStays DEF Past
  <2> QED
    BY <1>1, <1>2, <1>3, <2>1 DEF Completes
<1>4. CASE c.writes = "nothing" /\ transfers[k].status # "pending"
  BY <1>1, <1>2, <1>4 DEF Completes
<1>5. CASE c.writes = "settle" /\ c.on = k /\ Settles(c)
  BY <1>1, <1>2, <1>5, SettlesStays DEF Completes
<1> QED
  BY <1>3, <1>4, <1>5 DEF Completes

LEMMA ReversesStays ==
    ASSUME NEW c, NEW d, NEW z, Past(c, d, z), Undisturbed(c, d), z[1] = "lock", d.writes = c.writes, Reverses(c)
    PROVE  Reverses(d)'
<1> DEFINE k == c.request.transfer
           x == <<"transfer", k>>
<1>1. d.request = c.request /\ k \in Created /\ k \in Created' /\ c.writes = "nothing"
  BY DEF Past, Reverses, Undisturbed, RowKept
<1>2. CASE Still(c.todo, <<"recheck reversible", k>>) /\ Secures(c, x)
  <2>1. Still(d.todo, <<"recheck reversible", k>>) /\ Secures(d, x)
    BY <1>2, LookupStays DEF Past
  <2> QED
    BY <1>1, <2>1 DEF Reverses, Learned
<1>3. CASE x \in c.held /\ ~Reversible(k)
  <2>1. x \in d.held /\ ~Reversible(k)'
    BY <1>1, <1>3, ReversibleStays DEF Past
  <2> QED
    BY <1>1, <2>1 DEF Reverses, Learned
<1> QED
  BY <1>2, <1>3 DEF Reverses, Learned

LEMMA ReviewsStays ==
    ASSUME NEW c, NEW d, NEW z, Past(c, d, z), Undisturbed(c, d), z[1] = "lock", d.writes = c.writes, Reviews(c),
           c.request.key \in Keys, c.request.event \in Events \cup {Nil}
    PROVE  Reviews(d)'
<1>1. z # <<"find", "key">> /\ z # <<"find", "event">>
  OBVIOUS
<1>2. IsNew(c) => IsNew(d)'
  BY <1>1, NewKeyStays, NewEventStays DEF IsNew
<1>3. Replayed(c.request) => Replayed(d.request)'
  BY ReplayStays DEF Past
<1> QED
  BY <1>2, <1>3 DEF Reviews

LEMMA PlacesStays ==
    ASSUME NEW c, NEW d, NEW z, Past(c, d, z), Undisturbed(c, d), z[1] = "lock", d.writes = c.writes, Places(c),
           c.request.lien \in LienReferences, c.request.account \in Customers
    PROVE  Places(d)'
<1> DEFINE r == c.request
           l == r.lien
           x == <<"account_lien_reference", l>>
<1>1. d.request = r /\ \A y : Secures(c, y) => Secures(d, y)
  BY DEF Past
<1>2. CASE /\ c.writes = "place" /\ Secures(c, <<"balance", r.account>>)
           /\ \/ Still(c.todo, <<"find", "lien">>) /\ Secures(c, x)
              \/ x \in c.held /\ (Still(c.todo, <<"recheck lien", Lien(l)>>) \/ lien[l].account = Nil)
           /\ IsFunded(c, r.account)
  <2>1. IsFunded(d, r.account)'
    BY <1>2, FundedStays
  <2>2. \/ Still(d.todo, <<"find", "lien">>) /\ Secures(d, x)
        \/ x \in d.held /\ (Still(d.todo, <<"recheck lien", Lien(l)'>>) \/ lien'[l].account = Nil)
    <3>1. CASE Still(c.todo, <<"find", "lien">>) /\ Secures(c, x)
      BY <1>1, <3>1, LookupStays
    <3>2. CASE x \in c.held /\ Still(c.todo, <<"recheck lien", Lien(l)>>)
      <4>1. Lien(l)' = Lien(l) /\ x \in d.held
        BY <3>2 DEF Lien, Undisturbed, Past
      <4>2. Still(d.todo, <<"recheck lien", Lien(l)>>)
        BY <3>2, LookupStays
      <4> QED
        BY <4>1, <4>2
    <3>3. CASE x \in c.held /\ lien[l].account = Nil
      BY <3>3 DEF Undisturbed, Past
    <3> QED
      BY <1>2, <3>1, <3>2, <3>3
  <2> QED
    BY <1>1, <1>2, <2>1, <2>2 DEF Places
<1>3. CASE c.writes = "nothing" /\ lien[l].account # Nil /\ <<"lien", Lien(l)>> \in c.held
  <2>1. lien'[l] = lien[l] /\ <<"lien", Lien(l)>> \in d.held
    BY <1>3 DEF Undisturbed, Past
  <2>2. lien'[l].account # Nil /\ <<"lien", Lien(l)'>> \in d.held
    BY <1>3, <2>1 DEF Lien
  <2> QED
    BY <1>1, <1>3, <2>2 DEF Places
<1>4. CASE c.writes = "nothing" /\ funds[r.account] < 1 /\ <<"balance", r.account>> \in c.held
  BY <1>1, <1>4 DEF Places, Undisturbed, Past
<1> QED
  BY <1>2, <1>3, <1>4 DEF Places

LEMMA ReleasesStays ==
    ASSUME NEW c, NEW d, NEW z, Past(c, d, z), Undisturbed(c, d), z[1] = "lock", d.writes = c.writes, Releases(c),
           c.request.lien \in LienReferences, c.request.account \in Customers, Nil \notin Customers,
           lien \in [LienReferences -> [account: Customers \cup {Nil}, number: Nat]],
           lien' \in [LienReferences -> [account: Customers \cup {Nil}, number: Nat]]
    PROVE  Releases(d)'
<1> DEFINE r == c.request
           l == r.lien
           y == <<l, c.on>>
<1>1. d.request = r /\ d.on = c.on /\ \A x : Secures(c, x) => Secures(d, x)
  BY DEF Past
<1>2. /\ lien[l].number \in Nat /\ lien'[l].number \in Nat /\ c.on \in Nat /\ c.on <= lien[l].number
      /\ lien[l].number <= lien'[l].number
      /\ lien'[l].number = lien[l].number => lien'[l].account \in {lien[l].account, Nil}
  BY DEF Releases, Undisturbed
<1>3. c.on <= lien'[l].number /\ (IsActive(l, c.on)' => IsActive(l, c.on))
  <2>1. c.on <= lien'[l].number
    BY <1>2
  <2>2. ASSUME lien'[l].number = c.on PROVE lien[l].number = c.on /\ lien'[l].number = lien[l].number
    <3>1. \A i, j, k \in Nat : i <= j /\ j <= k /\ k = i => j = i
      OBVIOUS
    <3>2. c.on \in Nat /\ lien[l].number \in Nat /\ lien'[l].number \in Nat
      BY <1>2
    <3>3. c.on <= lien[l].number /\ lien[l].number <= lien'[l].number
      BY <1>2
    <3> QED
      BY <3>1, <3>2, <3>3, <2>2
  <2>3. ASSUME lien'[l].account # Nil, lien'[l].number = c.on PROVE IsActive(l, c.on)
    BY <1>2, <2>2, <2>3 DEF IsActive
  <2> QED
    BY <2>1, <2>3 DEF IsActive
<1>4. IsActive(l, c.on)' => lien'[l].account = r.account
  BY <1>2, <1>3 DEF IsActive, Releases
<1>5. CASE c.writes = "release" /\ Still(c.todo, <<"recheck lien", y>>) /\ Secures(c, <<"lien", y>>)
  <2>1. Still(d.todo, <<"recheck lien", y>>) /\ Secures(d, <<"lien", y>>)
    BY <1>1, <1>5, LookupStays
  <2> QED
    BY <1>1, <1>2, <1>3, <1>4, <1>5, <2>1 DEF Releases, Learned
<1>6. CASE c.writes = "release" /\ <<"lien", y>> \in c.held /\ IsActive(l, c.on) /\ Secures(c, <<"balance", r.account>>)
  <2>1. <<"lien", y>> \in d.held /\ lien'[l] = lien[l]
    BY <1>6 DEF IsActive, Lien, Undisturbed, Past
  <2>2. IsActive(l, c.on)' /\ Secures(d, <<"balance", r.account>>)
    BY <1>1, <1>6, <2>1 DEF IsActive
  <2> QED
    BY <1>1, <1>2, <1>3, <1>4, <1>6, <2>1, <2>2 DEF Releases, Learned, Secures
<1>7. CASE c.writes = "nothing" /\ ~IsActive(l, c.on)
  BY <1>1, <1>2, <1>3, <1>4, <1>7 DEF Releases
<1> QED
  BY <1>5, <1>6, <1>7 DEF Releases, Learned

\* What is still to come is what Knows allows.
LEMMA AllowedLookups ==
    ASSUME NEW todo, NEW S
    PROVE  (\A i \in 1..Len(todo) : todo[i][1] # "lock" => todo[i] \in S)
             <=> (\A y : Still(todo, y) /\ y[1] # "lock" => y \in S)
BY DEF Still

LEMMA LookupsStay ==
    ASSUME NEW c, NEW d, NEW z, Past(c, d, z), Undisturbed(c, d), d.writes = c.writes, c.request \in Request
    PROVE  Lookups(c) \subseteq Lookups(d)'
<1> DEFINE r == c.request
<1>1. d.request = r /\ d.on = c.on /\ \A x : Secures(c, x) => Secures(d, x)
  BY DEF Past
<1>2. r.op \in {"record", "complete", "reverse", "review", "control", "place", "release"}
      /\ (r.op = "place" => r.lien \in LienReferences)
  BY RequestFacts
<1>3. CASE r.op = "record"
  <2>1. /\ ByReference(d.request)' <=> ByReference(r)
        /\ ChecksFunds(d.request)' <=> ChecksFunds(r)
        /\ WithReference(r) \subseteq WithReference(d.request)'
    BY <1>1, RowsWithReferenceStay DEF ByReference, ChecksFunds
  <2>2. \A k : k \in WithReference(r) /\ ByReference(r) /\ Secures(c, <<"transfer", k>>)
                 => k \in WithReference(d.request)' /\ ByReference(d.request)' /\ Secures(d, <<"transfer", k>>)'
    BY <1>1, <2>1 DEF Secures
  <2>3. {<<"recheck pending", k>> : k \in {j \in WithReference(r) : ByReference(r) /\ Secures(c, <<"transfer", j>>)}}
          \subseteq {<<"recheck pending", k>> :
             k \in {j \in WithReference(d.request)' : ByReference(d.request)' /\ Secures(d, <<"transfer", j>>)'}}
    BY <2>2
  <2> QED
    BY <1>1, <1>3, <2>1, <2>3 DEF Lookups
<1>4. CASE r.op = "place"
  <2>1. ASSUME <<"account_lien_reference", r.lien>> \in c.held, Secures(c, <<"lien", Lien(r.lien)>>)
        PROVE  /\ Lien(r.lien)' = Lien(r.lien) /\ <<"account_lien_reference", r.lien>> \in d.held
               /\ Secures(d, <<"lien", Lien(r.lien)'>>)
    <3>1. Lien(r.lien)' = Lien(r.lien) /\ <<"account_lien_reference", r.lien>> \in d.held
      BY <1>2, <1>4, <2>1 DEF Past, Undisturbed, Lien
    <3> QED
      BY <1>1, <2>1, <3>1 DEF Secures
  <2> QED
    BY <1>1, <1>4, <2>1 DEF Lookups
<1>5. CASE r.op \in {"complete", "reverse", "review", "control", "release"}
  BY <1>1, <1>5 DEF Lookups
<1> QED
  BY <1>2, <1>3, <1>4, <1>5

LienType == [LienReferences -> [account: Customers \cup {Nil}, number: Nat]]

\* The lemmas above together.
LEMMA KnowsStays ==
    ASSUME NEW c, NEW d, NEW z, Past(c, d, z), Undisturbed(c, d), z[1] = "lock", d.writes = c.writes,
           Knows(c), c.request \in Request, InOrder(d.todo), lien \in LienType, lien' \in LienType,
           \A y : Still(d.todo, y) /\ y[1] # "lock" => Still(c.todo, y)
    PROVE  Knows(d)'
<1> DEFINE r == c.request
<1>1. d.request = r
  BY DEF Past
<1>2. /\ r.op \in {"record", "complete", "reverse", "review", "control", "place", "release"}
      /\ r.op = "record" => r \in RecordRequest
      /\ r.op \in {"record", "review"} => r.key \in Keys /\ r.event \in Events \cup {Nil}
      /\ r.op \in {"place", "release"} => r.account \in Customers /\ r.lien \in LienReferences
  BY RequestFacts
<1>3. \A i \in 1..Len(d.todo) : d.todo[i][1] # "lock" => d.todo[i] \in Lookups(d)'
  <2>1. \A i \in 1..Len(c.todo) : c.todo[i][1] # "lock" => c.todo[i] \in Lookups(c)
    BY DEF Knows
  <2>2. \A y : Still(c.todo, y) /\ y[1] # "lock" => y \in Lookups(c)
    BY <2>1, AllowedLookups
  <2>3. \A y : Still(d.todo, y) /\ y[1] # "lock" => y \in Lookups(d)'
    BY <2>2, LookupsStay
  <2> QED
    BY <2>3, AllowedLookups
<1>4. InOrder(d.todo)' /\ (r.op = "record" => Plain(r)') /\ Nil \notin Customers
  BY LocksAssumption DEF InOrder, Knows, Plain, Follows, Rank, LockRank, FindRank, Accounts
<1>5. r.op = "record" => Records(d)'
  BY <1>2, RecordsStays DEF Knows
<1>6. r.op = "complete" => Completes(d)'
  BY CompletesStays DEF Knows
<1>7. r.op = "reverse" => Reverses(d)'
  BY ReversesStays DEF Knows
<1>8. r.op = "review" => Reviews(d)'
  BY <1>2, ReviewsStays DEF Knows
<1>9. r.op = "place" => Places(d)'
  BY <1>2, PlacesStays DEF Knows
<1>10. r.op = "release" => Releases(d)'
  BY <1>2, <1>4, ReleasesStays DEF Knows, LienType
<1>11. r.op = "control" => d.writes = "nothing"
  BY DEF Knows
<1> QED
  BY <1>1, <1>3, <1>4, <1>5, <1>6, <1>7, <1>8, <1>9, <1>10, <1>11 DEF Knows

-----------------------------------------------------------------------------
(***************************************************************************)
(* A transaction looks something up.                                       *)
(***************************************************************************)
\* c comes to lookup h, and d is what it becomes.
LooksUp(c, d, h) ==
    /\ c.todo \in Seq(Statement) /\ c.todo # <<>> /\ h = Head(c.todo) /\ h[1] # "lock"
    /\ c.request \in Request /\ Knows(c)
    /\ d.request = c.request /\ d.held = c.held /\ d.unseen = c.unseen

\* d has still to do what c had to do after h.
GoesOn(c, d, h) ==
    /\ LooksUp(c, d, h) /\ d.writes = c.writes /\ d.on = c.on /\ d.todo \in Seq(Statement)
    /\ \A y : Still(Tail(c.todo), y) => Still(d.todo, y)

LEMMA AtLookup ==
    ASSUME NEW c, NEW d, NEW h, LooksUp(c, d, h)
    PROVE  /\ Tail(c.todo) \in Seq(Statement) /\ InOrder(Tail(c.todo))
           /\ \A y : Still(c.todo, y) <=> y = h \/ Still(Tail(c.todo), y)
           /\ \A y : Still(Tail(c.todo), y) => Follows(h, y)
           /\ h \in Lookups(c)
           /\ \A x : Secures(c, x) /\ Rank(<<"lock", x>>) < Rank(h) => x \in c.held
<1>1. c.todo \in Seq(Statement) /\ c.todo # <<>> /\ h = Head(c.todo) /\ h[1] # "lock" /\ InOrder(c.todo)
  BY DEF LooksUp, Knows
<1>2. Tail(c.todo) \in Seq(Statement)
  BY <1>1, HeadTailProperties
<1>3. \A y : Still(c.todo, y) <=> y = h \/ Still(Tail(c.todo), y)
  BY <1>1, StillHead
<1>4. InOrder(Tail(c.todo)) /\ \A y : Still(Tail(c.todo), y) => Follows(h, y)
  BY <1>1, OrderHead
<1>5. h \in Lookups(c)
  <2>1. \A i \in 1..Len(c.todo) : c.todo[i][1] # "lock" => c.todo[i] \in Lookups(c)
    BY DEF LooksUp, Knows
  <2>2. \A y : Still(c.todo, y) /\ y[1] # "lock" => y \in Lookups(c)
    BY <2>1, AllowedLookups
  <2> QED
    BY <1>1, <1>3, <2>2
<1>6. ASSUME NEW x, Secures(c, x), Rank(<<"lock", x>>) < Rank(h) PROVE x \in c.held
  <2>1. SUFFICES ASSUME Still(c.todo, <<"lock", x>>) PROVE FALSE
    BY <1>6 DEF Secures
  <2>2. <<"lock", x>>[1] = "lock"
    OBVIOUS
  <2>3. Follows(h, <<"lock", x>>)
    BY <1>1, <1>3, <1>4, <2>1, <2>2
  <2>4. Rank(h) \in 1..10 /\ Rank(<<"lock", x>>) \in 1..10
    BY RanksOfAll
  <2> QED
    BY <1>6, <2>3, <2>4 DEF Follows
<1> QED
  BY <1>2, <1>3, <1>4, <1>5, <1>6

LEMMA GoesPast ==
    ASSUME NEW c, NEW d, NEW h, GoesOn(c, d, h)
    PROVE  Past(c, d, h) /\ Lookups(c) \subseteq Lookups(d)
<1>1. LooksUp(c, d, h)
  BY DEF GoesOn
<1>2. \A y : Still(c.todo, y) /\ y # h => Still(d.todo, y)
  BY <1>1, AtLookup DEF GoesOn
<1>3. \A x : Secures(c, x) => Secures(d, x)
  <2>1. \A x : <<"lock", x>>[1] = "lock"
    OBVIOUS
  <2>2. \A x : <<"lock", x>> # h
    BY <1>1, <2>1 DEF LooksUp
  <2> QED
    BY <1>1, <1>2, <2>2 DEF Secures, LooksUp
<1>4. Past(c, d, h)
  BY <1>1, <1>2, <1>3 DEF Past, LooksUp, GoesOn
<1>5. d.request = c.request /\ d.held = c.held /\ d.writes = c.writes /\ d.on = c.on
  BY DEF GoesOn, LooksUp
<1>6. Lookups(c) \subseteq Lookups(d)
  <2>1. /\ c.request.op \in {"record", "complete", "reverse", "review", "control", "place", "release"}
    BY <1>1, RequestFacts DEF LooksUp
  <2>2. CASE c.request.op = "record"
    BY <1>3, <1>5, <2>2 DEF Lookups
  <2>3. CASE c.request.op = "place"
    BY <1>3, <1>5, <2>3 DEF Lookups
  <2>4. CASE c.request.op \notin {"record", "place"}
    BY <1>5, <2>1, <2>4 DEF Lookups
  <2> QED
    BY <2>2, <2>3, <2>4
<1> QED
  BY <1>4, <1>6

\* A transaction that goes on keeps its order and its lookups.
GoesOnFrame(d) ==
    InOrder(d.todo) /\ \A i \in 1..Len(d.todo) : d.todo[i][1] # "lock" => d.todo[i] \in Lookups(d)

LEMMA ContinueFrame ==
    ASSUME NEW c, NEW d, NEW h, GoesOn(c, d, h), d.todo = Tail(c.todo)
    PROVE  GoesOnFrame(d)
<1>1. LooksUp(c, d, h)
  BY DEF GoesOn
<1>2. \A i \in 1..Len(c.todo) : c.todo[i][1] # "lock" => c.todo[i] \in Lookups(c)
  BY <1>1 DEF LooksUp, Knows
<1>3. \A y : Still(c.todo, y) /\ y[1] # "lock" => y \in Lookups(c)
  BY <1>2, AllowedLookups
<1>4. \A y : Still(d.todo, y) /\ y[1] # "lock" => y \in Lookups(d)
  BY <1>1, <1>3, AtLookup, GoesPast
<1>5. InOrder(d.todo)
  BY <1>1, AtLookup
<1> QED
  BY <1>4, <1>5, AllowedLookups DEF GoesOnFrame

\* Only locks are left, at most one.
LEMMA NothingFrame ==
    ASSUME NEW d, NEW x, d.todo = <<>> \/ d.todo = <<<<"lock", x>>>>
    PROVE  GoesOnFrame(d)
<1>1. InOrder(d.todo)
  BY OrderNone, OrderOne
<1>2. ASSUME NEW y, Still(d.todo, y) PROVE y = <<"lock", x>>
  <2>1. CASE d.todo = <<>>
    BY <1>2, <2>1, StillNone
  <2>2. CASE d.todo = <<<<"lock", x>>>>
    <3> DEFINE z == <<"lock", x>>
    <3>1. Still(<<z>>, y)
      BY <1>2, <2>2
    <3> HIDE DEF z
    <3>2. y = z
      BY ONLY <3>1, StillOne
    <3> QED
      BY <3>2 DEF z
  <2> QED
    BY <2>1, <2>2
<1>3. \A y : Still(d.todo, y) => y[1] = "lock"
  BY <1>2
<1>4. \A y : Still(d.todo, y) /\ y[1] # "lock" => y \in Lookups(d)
  BY <1>3
<1> QED
  BY <1>1, <1>4, AllowedLookups DEF GoesOnFrame

\* Two more statements before the others.
DoesFirst(c, d, x, y) == d.todo = <<x, y>> \o Tail(c.todo)

LEMMA InsertStill ==
    ASSUME NEW c, Tail(c.todo) \in Seq(Statement), NEW d,
           NEW x \in Statement, NEW y \in Statement, DoesFirst(c, d, x, y)
    PROVE  d.todo \in Seq(Statement) /\ \A z : Still(d.todo, z) <=> z \in {x, y} \/ Still(Tail(c.todo), z)
<1>1. <<x, y>> \in Seq(Statement) /\ \A z : Still(<<x, y>>, z) <=> z \in {x, y}
  BY StillTwo
<1> DEFINE s == <<x, y>>
           t == Tail(c.todo)
<1>2. s \in Seq(Statement) /\ t \in Seq(Statement) /\ d.todo = s \o t
  BY <1>1 DEF DoesFirst
<1> HIDE DEF s, t
<1>3. d.todo \in Seq(Statement) /\ \A z : Still(s \o t, z) <=> Still(s, z) \/ Still(t, z)
  BY <1>2, StillBoth, ConcatProperties
<1> QED
  BY <1>1, <1>2, <1>3 DEF s, t

LEMMA InsertFrame ==
    ASSUME NEW c, NEW d, NEW h, GoesOn(c, d, h), NEW x \in Statement, NEW y \in Statement,
           DoesFirst(c, d, x, y), Follows(x, y), Rank(y) = Rank(h), Rank(h) \notin {1, 2, 6},
           x[1] = "lock", y \in Lookups(d)
    PROVE  GoesOnFrame(d) /\ \A z : Still(d.todo, z) <=> z \in {x, y} \/ Still(Tail(c.todo), z)
<1>1. LooksUp(c, d, h)
  BY DEF GoesOn
<1>2. <<x, y>> \in Seq(Statement) /\ InOrder(<<x, y>>) /\ \A z : Still(<<x, y>>, z) <=> z \in {x, y}
  BY OrderTwo, StillTwo
<1>3. Tail(c.todo) \in Seq(Statement) /\ InOrder(Tail(c.todo)) /\ \A z : Still(Tail(c.todo), z) => Follows(h, z)
  BY <1>1, AtLookup
<1>4. ASSUME NEW u, NEW v, Still(<<x, y>>, u), Still(Tail(c.todo), v) PROVE Follows(u, v)
  <2>1. u \in {x, y} /\ Rank(h) < Rank(v)
    BY <1>2, <1>3, <1>4 DEF Follows
  <2>2. Rank(x) \in 1..10 /\ Rank(y) \in 1..10 /\ Rank(v) \in 1..10 /\ Rank(h) \in 1..10
    BY RanksOfAll
  <2>3. Rank(x) <= Rank(y)
    BY <2>2 DEF Follows
  <2> QED
    BY <2>1, <2>2, <2>3 DEF Follows
<1>5. InOrder(d.todo) /\ \A z : Still(d.todo, z) <=> Still(<<x, y>>, z) \/ Still(Tail(c.todo), z)
  <2> DEFINE s == <<x, y>>
             t == Tail(c.todo)
  <2>1. /\ s \in Seq(Statement) /\ t \in Seq(Statement) /\ InOrder(s) /\ InOrder(t)
        /\ \A u, v : Still(s, u) /\ Still(t, v) => Follows(u, v)
    BY <1>2, <1>3, <1>4
  <2>2. d.todo = s \o t
    BY DEF DoesFirst
  <2> HIDE DEF s, t
  <2>3. InOrder(s \o t)
    BY <2>1, OrderBoth
  <2>4. \A z : Still(s \o t, z) <=> Still(s, z) \/ Still(t, z)
    BY <2>1, StillBoth
  <2> QED
    BY <2>2, <2>3, <2>4 DEF s, t
<1>6. \A i \in 1..Len(c.todo) : c.todo[i][1] # "lock" => c.todo[i] \in Lookups(c)
  BY <1>1 DEF LooksUp, Knows
<1>7. \A z : Still(c.todo, z) /\ z[1] # "lock" => z \in Lookups(c)
  BY <1>6, AllowedLookups
<1>8. \A z : Still(d.todo, z) /\ z[1] # "lock" => z \in Lookups(d)
  BY <1>1, <1>2, <1>5, <1>7, AtLookup, GoesPast
<1> QED
  BY <1>2, <1>5, <1>8, AllowedLookups DEF GoesOnFrame

\* What is still so past one statement.
LEMMA Passing ==
    ASSUME NEW c, NEW d, NEW z, Past(c, d, z)
    PROVE  /\ HasNewKey(c) /\ z # <<"find", "key">> => HasNewKey(d)
           /\ HasNewEvent(c) /\ z # <<"find", "event">> => HasNewEvent(d)
           /\ \A row : SecuresBalances(c, row) => SecuresBalances(d, row)
           /\ \A a : IsFunded(c, a) /\ z[1] # "check funds" => IsFunded(d, a)
<1>1. /\ d.request = c.request /\ c.held \subseteq d.held
      /\ \A x : Secures(c, x) => Secures(d, x)
      /\ \A what : Still(c.todo, <<"find", what>>) /\ z # <<"find", what>> => Still(d.todo, <<"find", what>>)
  <2>1. \A what : <<"find", what>>[1] # "lock"
    OBVIOUS
  <2> QED
    BY <2>1 DEF Past
<1>2. HasNewKey(c) /\ z # <<"find", "key">> => HasNewKey(d)
  BY <1>1 DEF HasNewKey, Learned
<1>3. HasNewEvent(c) /\ z # <<"find", "event">> => HasNewEvent(d)
  BY <1>1 DEF HasNewEvent, Learned
<1>4. \A row : SecuresBalances(c, row) => SecuresBalances(d, row)
  BY <1>1 DEF SecuresBalances
<1>5. ASSUME NEW a, IsFunded(c, a), z[1] # "check funds" PROVE IsFunded(d, a)
  <2>1. Still(c.todo, <<"check funds", a>>) => Still(d.todo, <<"check funds", a>>)
    BY <1>5, LookupStays
  <2> QED
    BY <1>1, <1>5, <2>1 DEF IsFunded, Learned
<1> QED
  BY <1>2, <1>3, <1>4, <1>5

LEMMA ReferencePassing ==
    ASSUME NEW c, NEW d, NEW z, Past(c, d, z), KeepsReference(c),
           z # <<"find", "pending">>, z # <<"find", "settled">>, z[1] # "recheck pending"
    PROVE  KeepsReference(d)
<1>1. /\ Still(c.todo, <<"find", "pending">>) => Still(d.todo, <<"find", "pending">>)
      /\ Still(c.todo, <<"find", "settled">>) => Still(d.todo, <<"find", "settled">>)
      /\ \A k : Still(c.todo, <<"recheck pending", k>>) => Still(d.todo, <<"recheck pending", k>>)
  <2>1. <<"find", "pending">>[1] # "lock" /\ <<"find", "settled">>[1] # "lock"
    OBVIOUS
  <2>2. \A k : Still(c.todo, <<"recheck pending", k>>) => Still(d.todo, <<"recheck pending", k>>)
    BY LookupStays
  <2> QED
    BY <2>1, <2>2 DEF Past
<1>2. /\ d.request = c.request /\ c.held \subseteq d.held /\ c.unseen \subseteq d.unseen
      /\ \A x : Secures(c, x) => Secures(d, x)
  BY DEF Past
<1> QED
  BY <1>1, <1>2 DEF KeepsReference

LEMMA RecordAtLookup ==
    ASSUME NEW c, NEW d, NEW h, LooksUp(c, d, h), c.request.op = "record"
    PROVE  /\ c.writes = "create" /\ c.request \in RecordRequest /\ Plain(c.request)
           /\ HasNewKey(c) /\ HasNewEvent(c) /\ KeepsReference(c) /\ SecuresBalances(c, c.request)
           /\ ChecksFunds(c.request) => IsFunded(c, c.request.account)
           /\ ReversesLegally(c.request)
           /\ c.request.reversalOf # Nil =>
                 c.request.reversalOf \in Created /\ <<"transfer", c.request.reversalOf>> \in c.held
<1>1. h \in Lookups(c) /\ Knows(c) /\ c.request \in Request
  BY AtLookup DEF LooksUp
<1>2. c.writes = "create"
  BY <1>1 DEF Lookups
<1>3. Records(c) /\ Plain(c.request) /\ c.request \in RecordRequest
  BY <1>1, RequestFacts DEF Knows
<1> QED
  BY <1>2, <1>3 DEF Records, IsNew

LEMMA FundedPassing ==
    ASSUME NEW c, NEW d, NEW z, NEW a, Past(c, d, z), z # <<"check funds", a>>, IsFunded(c, a)
    PROVE  IsFunded(d, a)
BY DEF Past, IsFunded, Learned

LEMMA LookupsOfRecord ==
    ASSUME NEW c, NEW y, y \in Lookups(c), c.request.op = "record"
    PROVE  \/ y = <<"find", "key">> \/ y = <<"find", "event">>
           \/ ByReference(c.request) /\ y \in {<<"find", "pending">>, <<"find", "settled">>}
           \/ \E k \in WithReference(c.request) :
                 ByReference(c.request) /\ Secures(c, <<"transfer", k>>) /\ y = <<"recheck pending", k>>
           \/ ChecksFunds(c.request) /\ y = <<"check funds", c.request.account>>
BY DEF Lookups

LEMMA RecordGoesOn ==
    ASSUME NEW c, NEW d, NEW h, GoesOn(c, d, h), c.request.op = "record", GoesOnFrame(d),
           HasNewKey(d), HasNewEvent(d), KeepsReference(d),
           ChecksFunds(c.request) => IsFunded(d, c.request.account)
    PROVE  Knows(d)
<1>1. LooksUp(c, d, h) /\ Past(c, d, h) /\ d.request = c.request /\ d.held = c.held /\ d.writes = c.writes
  BY GoesPast DEF GoesOn, LooksUp
<1>2. /\ c.writes = "create" /\ Plain(c.request) /\ SecuresBalances(c, c.request) /\ ReversesLegally(c.request)
      /\ c.request.reversalOf # Nil =>
            c.request.reversalOf \in Created /\ <<"transfer", c.request.reversalOf>> \in c.held
  BY <1>1, RecordAtLookup
<1>3. SecuresBalances(d, c.request)
  BY <1>1, <1>2, Passing
<1>4. Records(d)
  BY <1>1, <1>2, <1>3 DEF Records, IsNew
<1> QED
  BY <1>1, <1>2, <1>4 DEF Knows, GoesOnFrame

LEMMA RecordStops ==
    ASSUME NEW c, NEW d, NEW h, LooksUp(c, d, h), c.request.op = "record", GoesOnFrame(d), d.writes = "nothing",
           Replayed(c.request) \/ Blocks(c.request, Created) \/ LacksFunds(d)
    PROVE  Knows(d)
<1>1. d.request = c.request /\ d.held = c.held
  BY DEF LooksUp
<1>2. /\ Plain(c.request)
      /\ c.request.reversalOf # Nil =>
            c.request.reversalOf \in Created /\ <<"transfer", c.request.reversalOf>> \in c.held
  BY RecordAtLookup
<1>3. Records(d)
  BY <1>1, <1>2 DEF Records
<1> QED
  BY <1>1, <1>2, <1>3 DEF Knows, GoesOnFrame

\* The replay by key.
LEMMA RecordFindsKey ==
    ASSUME NEW c, NEW d, LooksUp(c, d, <<"find", "key">>), c.request.op = "record",
           \/ c.request.key \in Created /\ d.writes = "nothing" /\ d.todo = <<Take("transfer", c.request.key)>>
           \/ c.request.key \notin Created /\ GoesOn(c, d, <<"find", "key">>) /\ d.todo = Tail(c.todo)
    PROVE  Knows(d)
<1> DEFINE r == c.request
           h == <<"find", "key">>
<1>1. CASE r.key \in Created /\ d.writes = "nothing" /\ d.todo = <<Take("transfer", r.key)>>
  <2>1. GoesOnFrame(d) /\ Replayed(r)
    BY <1>1, NothingFrame DEF Take, Replayed
  <2> QED
    BY <1>1, <2>1, RecordStops
<1>2. CASE r.key \notin Created /\ GoesOn(c, d, h) /\ d.todo = Tail(c.todo)
  <2>1. Past(c, d, h) /\ GoesOnFrame(d) /\ d.request = r /\ d.held = c.held
    BY <1>2, GoesPast, ContinueFrame DEF LooksUp
  <2>2. /\ HasNewKey(c) /\ HasNewEvent(c) /\ KeepsReference(c)
        /\ ChecksFunds(r) => IsFunded(c, r.account)
    BY RecordAtLookup
  <2>3. <<"idempotency", r.key>> \in c.held
    <3>1. Rank(<<"lock", <<"idempotency", r.key>>>>) < Rank(h)
      BY DEF Rank, LockRank, FindRank
    <3>2. Secures(c, <<"idempotency", r.key>>)
      BY <2>2 DEF HasNewKey, Learned, Secures
    <3> QED
      BY <3>1, <3>2, AtLookup
  <2>4. HasNewKey(d)
    BY <1>2, <2>1, <2>3 DEF HasNewKey, Learned
  <2>5. h # <<"find", "event">> /\ h # <<"find", "pending">> /\ h # <<"find", "settled">> /\ h[1] = "find"
    OBVIOUS
  <2>6. HasNewEvent(d) /\ (ChecksFunds(r) => IsFunded(d, r.account))
    <3>1. HasNewEvent(d)
      BY <2>1, <2>2, <2>5, Passing
    <3>2. ASSUME ChecksFunds(r) PROVE IsFunded(d, r.account)
      <4>1. IsFunded(c, r.account) /\ h # <<"check funds", r.account>>
        BY <2>2, <3>2
      <4> HIDE DEF h
      <4> QED
        BY <2>1, <4>1, FundedPassing
    <3> QED
      BY <3>1, <3>2
  <2>7. KeepsReference(d)
    BY <2>1, <2>2, <2>5, ReferencePassing
  <2> QED
    BY <1>2, <2>1, <2>4, <2>6, <2>7, RecordGoesOn
<1> QED
  BY <1>1, <1>2

\* The replay by event.
LEMMA RecordFindsEvent ==
    ASSUME NEW c, NEW d, LooksUp(c, d, <<"find", "event">>), c.request.op = "record",
           \/ (\E k \in Created : c.request.event \in transfers[k].events) /\ d.writes = "nothing" /\ d.todo = <<>>
           \/ /\ ~(\E k \in Created : c.request.event \in transfers[k].events)
              /\ GoesOn(c, d, <<"find", "event">>) /\ d.todo = Tail(c.todo)
    PROVE  Knows(d)
<1> DEFINE r == c.request
           h == <<"find", "event">>
<1>1. CASE (\E k \in Created : r.event \in transfers[k].events) /\ d.writes = "nothing" /\ d.todo = <<>>
  <2>1. GoesOnFrame(d) /\ Replayed(r)
    BY <1>1, NothingFrame DEF Replayed
  <2> QED
    BY <1>1, <2>1, RecordStops
<1>2. CASE /\ ~(\E k \in Created : r.event \in transfers[k].events)
           /\ GoesOn(c, d, h) /\ d.todo = Tail(c.todo)
  <2>1. Past(c, d, h) /\ GoesOnFrame(d) /\ d.request = r /\ d.held = c.held
    BY <1>2, GoesPast, ContinueFrame DEF LooksUp
  <2>2. /\ HasNewKey(c) /\ HasNewEvent(c) /\ KeepsReference(c)
        /\ ChecksFunds(r) => IsFunded(c, r.account)
    BY RecordAtLookup
  <2>3. ASSUME r.event # Nil PROVE <<"provider_event", r.event>> \in c.held
    <3>1. Rank(<<"lock", <<"provider_event", r.event>>>>) < Rank(h)
      BY DEF Rank, LockRank, FindRank
    <3>2. Secures(c, <<"provider_event", r.event>>)
      BY <2>2, <2>3 DEF HasNewEvent, Learned, Secures
    <3> QED
      BY <3>1, <3>2, AtLookup
  <2>4. HasNewEvent(d)
    BY <1>2, <2>1, <2>3 DEF HasNewEvent, Learned, EventIsNew
  <2>5. h # <<"find", "key">> /\ h # <<"find", "pending">> /\ h # <<"find", "settled">> /\ h[1] = "find"
    OBVIOUS
  <2>6. HasNewKey(d) /\ (ChecksFunds(r) => IsFunded(d, r.account))
    <3>1. HasNewKey(d)
      BY <2>1, <2>2, <2>5, Passing
    <3>2. ASSUME ChecksFunds(r) PROVE IsFunded(d, r.account)
      <4>1. IsFunded(c, r.account) /\ h # <<"check funds", r.account>>
        BY <2>2, <3>2
      <4> HIDE DEF h
      <4> QED
        BY <2>1, <4>1, FundedPassing
    <3> QED
      BY <3>1, <3>2
  <2>7. KeepsReference(d)
    BY <2>1, <2>2, <2>5, ReferencePassing
  <2> QED
    BY <1>2, <2>1, <2>4, <2>6, <2>7, RecordGoesOn
<1> QED
  BY <1>1, <1>2

\* The lookup of a pending transfer by reference.
LEMMA RecordFindsPending ==
    ASSUME NEW c, NEW d, GoesOn(c, d, <<"find", "pending">>), c.request.op = "record",
           \/ PendingWith(c.request) = {} /\ d.todo = Tail(c.todo)
           \/ \E k \in PendingWith(c.request) : DoesFirst(c, d, Take("transfer", k), <<"recheck pending", k>>)
    PROVE  Knows(d)
<1> DEFINE r == c.request
           h == <<"find", "pending">>
           x == <<"provider_reference", r.reference>>
<1>1. LooksUp(c, d, h) /\ Past(c, d, h) /\ d.request = r /\ d.held = c.held /\ d.unseen = c.unseen
  BY GoesPast DEF GoesOn, LooksUp
<1>2. /\ HasNewKey(c) /\ HasNewEvent(c) /\ KeepsReference(c) /\ c.writes = "create"
      /\ ChecksFunds(r) => IsFunded(c, r.account)
  BY <1>1, RecordAtLookup
<1>3. h # <<"find", "key">> /\ h # <<"find", "event">> /\ h # <<"find", "settled">> /\ h[1] = "find"
  OBVIOUS
<1>4. HasNewKey(d) /\ HasNewEvent(d)
  BY <1>1, <1>2, <1>3, Passing
<1>5. ASSUME ChecksFunds(r) PROVE IsFunded(d, r.account)
  <2>1. IsFunded(c, r.account) /\ h # <<"check funds", r.account>>
    BY <1>2, <1>5
  <2> QED
    BY <1>1, <2>1, FundedPassing
<1>6. ByReference(r)
  <2>1. h \in Lookups(c)
    BY <1>1, AtLookup
  <2>2. h # <<"check funds", r.account>> /\ \A k : h # <<"recheck pending", k>>
    OBVIOUS
  <2> QED
    BY <1>3, <2>1, <2>2, LookupsOfRecord
<1>7. x \in c.held
  <2>1. Rank(<<"lock", x>>) < Rank(h)
    <3>1. Rank(<<"lock", x>>) = 1
      BY DEF Rank, LockRank
    <3>2. Rank(h) = 4
      BY DEF Rank, FindRank
    <3> QED
      BY ONLY <3>1, <3>2
  <2>2. Secures(c, x)
    BY <1>2, <1>6 DEF KeepsReference, Secures
  <2> HIDE DEF x, h
  <2> QED
    BY <1>1, <2>1, <2>2, AtLookup
<1>8. Still(c.todo, <<"find", "settled">>) => Still(d.todo, <<"find", "settled">>)
  <2>1. <<"find", "settled">>[1] # "lock"
    OBVIOUS
  <2> QED
    BY <1>1, <1>3, <2>1 DEF Past
<1>9. CASE PendingWith(r) = {} /\ d.todo = Tail(c.todo)
  <2>1. GoesOnFrame(d)
    BY <1>9, ContinueFrame
  <2>2. KeepsReference(d)
    BY <1>1, <1>2, <1>6, <1>7, <1>8, <1>9 DEF KeepsReference
  <2> QED
    BY <1>4, <1>5, <2>1, <2>2, RecordGoesOn
<1>10. ASSUME NEW k \in PendingWith(r), DoesFirst(c, d, Take("transfer", k), <<"recheck pending", k>>)
       PROVE  Knows(d)
  <2> DEFINE y == Take("transfer", k)
             z == <<"recheck pending", k>>
  <2>1. k \in Keys /\ k \in WithReference(r)
    BY <1>10 DEF PendingWith, WithReference, Created
  <2>2. y \in Statement /\ z \in Statement
    BY <2>1, StatementFacts
  <2>3. Follows(y, z) /\ Rank(z) = Rank(h) /\ Rank(h) \notin {1, 2, 6} /\ y[1] = "lock"
    <3>1. Rank(y) = 3 /\ Rank(z) = 4 /\ y[1] = "lock"
      BY DEF Rank, LockRank, Take
    <3>2. Rank(h) = 4
      BY DEF Rank, FindRank
    <3> HIDE DEF y, z, h
    <3> QED
      BY ONLY <3>1, <3>2 DEF Follows
  <2>4. y = <<"lock", <<"transfer", k>>>>
    BY DEF Take
  <2>5. Still(d.todo, y) /\ Still(d.todo, z)
    <3>1. Tail(c.todo) \in Seq(Statement)
      BY <1>1, AtLookup
    <3> QED
      BY <1>10, <2>2, <3>1, InsertStill
  <2>6. Secures(d, <<"transfer", k>>)
    BY <2>4, <2>5 DEF Secures
  <2>7. z \in Lookups(d)
    BY <1>1, <1>2, <1>6, <2>1, <2>6 DEF Lookups, GoesOn
  <2>8. GoesOnFrame(d)
    <3> HIDE DEF y, z, h
    <3> QED
      BY <1>10, <2>2, <2>3, <2>7, InsertFrame DEF y, z, h
  <2>9. \E j \in Keys : Still(d.todo, <<"recheck pending", j>>)
    BY <2>1, <2>5
  <2>10. KeepsReference(d)
    BY <1>1, <1>2, <1>6, <1>7, <1>8, <2>9 DEF KeepsReference
  <2> QED
    BY <1>4, <1>5, <2>8, <2>10, RecordGoesOn
<1> QED
  BY <1>9, <1>10

\* The lookup of a settled transfer by reference.
LEMMA RecordFindsSettled ==
    ASSUME NEW c, NEW d, LooksUp(c, d, <<"find", "settled">>), c.request.op = "record",
           \/ SettledWith(c.request) = {} /\ GoesOn(c, d, <<"find", "settled">>) /\ d.todo = Tail(c.todo)
           \/ \E k \in SettledWith(c.request) : d.writes = "nothing" /\ d.todo = <<Take("transfer", k)>>
    PROVE  Knows(d)
<1> DEFINE r == c.request
           h == <<"find", "settled">>
           x == <<"provider_reference", r.reference>>
<1>1. /\ HasNewKey(c) /\ HasNewEvent(c) /\ KeepsReference(c) /\ c.writes = "create"
      /\ ChecksFunds(r) => IsFunded(c, r.account)
  BY RecordAtLookup
<1>2. ByReference(r) /\ d.request = r /\ d.unseen = c.unseen /\ d.held = c.held
  <2>1. h \in Lookups(c)
    BY AtLookup
  <2>2. h # <<"check funds", r.account>> /\ h # <<"find", "key">> /\ h # <<"find", "event">>
        /\ \A k : h # <<"recheck pending", k>>
    OBVIOUS
  <2> QED
    BY <2>1, <2>2, LookupsOfRecord DEF LooksUp
<1>3. ASSUME NEW k \in SettledWith(r), d.writes = "nothing", d.todo = <<Take("transfer", k)>> PROVE Knows(d)
  <2>1. k \in Created
    BY <1>3 DEF SettledWith, WithReference
  <2>2. GoesOnFrame(d) /\ Blocks(r, Created)
    BY <1>2, <1>3, <2>1, NothingFrame DEF Take, Blocks
  <2> QED
    BY <1>3, <2>2, RecordStops
<1>4. CASE SettledWith(r) = {} /\ GoesOn(c, d, h) /\ d.todo = Tail(c.todo)
  <2>1. Past(c, d, h) /\ GoesOnFrame(d)
    BY <1>4, GoesPast, ContinueFrame
  <2>2. h # <<"find", "key">> /\ h # <<"find", "event">> /\ h[1] = "find"
    OBVIOUS
  <2>3. HasNewKey(d) /\ HasNewEvent(d)
    BY <1>1, <2>1, <2>2, Passing
  <2>4. ASSUME ChecksFunds(r) PROVE IsFunded(d, r.account)
    <3>1. IsFunded(c, r.account) /\ h # <<"check funds", r.account>>
      BY <1>1, <2>4
    <3> QED
      BY <2>1, <3>1, FundedPassing
  <2>5. ASSUME NEW y, Rank(y) < Rank(h), Still(c.todo, y) PROVE FALSE
    <3>1. y = h \/ Follows(h, y)
      BY <2>5, AtLookup
    <3>2. Rank(y) \in 1..10 /\ Rank(h) \in 1..10
      BY RanksOfAll
    <3> QED
      BY <2>5, <3>1, <3>2 DEF Follows
  <2>6. ~Still(c.todo, <<"find", "pending">>) /\ \A k : ~Still(c.todo, <<"recheck pending", k>>)
    <3>1. Rank(<<"find", "pending">>) < Rank(h) /\ \A k : Rank(<<"recheck pending", k>>) < Rank(h)
      BY DEF Rank, FindRank
    <3> QED
      BY <2>5, <3>1
  <2>7. x \in c.held /\ (PendingWith(r) \subseteq c.unseen \/ WithReference(r) \subseteq c.unseen)
    BY <1>1, <1>2, <1>4, <2>6 DEF KeepsReference
  <2>8. WithReference(r) \subseteq c.unseen
    BY <1>4, <2>7 DEF SettledWith
  <2>9. KeepsReference(d)
    BY <1>2, <2>7, <2>8 DEF KeepsReference
  <2> QED
    BY <1>4, <2>1, <2>3, <2>4, <2>9, RecordGoesOn
<1> QED
  BY <1>3, <1>4

\* d is to settle transfer k, as Settle says.
SettlesNext(c, d, k) ==
    LET row == transfers[k]
        accounts == IF c.request.status = "pending" /\ ~row.outbound
                    THEN AccountBalance(row.account)
                    ELSE TransferAccountBalances(row.account, row.clearing)
    IN  /\ d.todo = accounts \o When(row.outbound, <<Take("hold", k)>>)
        /\ d.writes = "settle" /\ d.on = k

LEMMA SettleFacts ==
    ASSUME NEW c, NEW d, NEW k \in Created, transfers[k] \in Row, SettlesNext(c, d, k),
           d.request = c.request, d.held = c.held, <<"transfer", k>> \in c.held, transfers[k].status = "pending"
    PROVE  d.todo \in Seq(Statement) /\ GoesOnFrame(d) /\ Settles(d)
<1> DEFINE row == transfers[k]
           a == IF c.request.status = "pending" /\ ~row.outbound
                THEN AccountBalance(row.account)
                ELSE TransferAccountBalances(row.account, row.clearing)
           b == When(row.outbound, <<Take("hold", k)>>)
<1>1. row.account \in Accounts /\ row.clearing \in Accounts /\ row.outbound \in BOOLEAN /\ k \in Keys
  BY DEF Row, Created
<1>2. OrderedTo(a, 6)
  BY <1>1, AccountBalanceFacts, AccountBalancesFacts
<1>3. OrderedTo(b, 10) /\ \A y : Still(b, y) => y = Take("hold", k)
  <2>1. Rank(Take("hold", k)) = 10 /\ Take("hold", k) \in Statement
    BY <1>1, StatementFacts DEF Rank, LockRank, Take
  <2>2. OrderedTo(<<Take("hold", k)>>, 10) /\ \A y : Still(<<Take("hold", k)>>, y) <=> y = Take("hold", k)
    BY <2>1, OneFacts
  <2> QED
    BY <1>1, <2>2, WhenFacts
<1>4. \A y : Still(a, y) => y[1] = "lock"
  <2>1. \A y : Still(a, y) => \E z : y = Take("account", z) \/ y = Take("balance", z)
    BY <1>1, AccountBalanceFacts, AccountBalancesFacts
  <2>2. \A z : Take("account", z)[1] = "lock" /\ Take("balance", z)[1] = "lock"
    BY DEF Take
  <2> QED
    BY <2>1, <2>2
<1>5. ~(c.request.status = "pending" /\ ~row.outbound) =>
         Still(a, Take("balance", row.account)) /\ Still(a, Take("balance", row.clearing))
  BY <1>1, AccountBalancesFacts
<1>6. d.todo = a \o b /\ d.writes = "settle" /\ d.on = k
  BY DEF SettlesNext
<1> HIDE DEF a, b
<1>7. OrderedTo(a \o b, 10) /\ \A y : Still(a \o b, y) <=> Still(a, y) \/ Still(b, y)
  <2>1. ASSUME NEW y, Still(b, y) PROVE Rank(y) > 6
    <3>1. Rank(Take("hold", k)) = 10
      BY ONLY DEF Rank, LockRank, Take
    <3>2. Rank(y) = 10
      BY <1>3, <2>1, <3>1
    <3> QED
      BY ONLY <3>2
  <2> QED
    BY <1>2, <1>3, <2>1, OrderExtends
<1>8. \A y : Still(d.todo, y) => y[1] = "lock"
  <2>1. Take("hold", k)[1] = "lock"
    BY DEF Take
  <2> QED
    BY <1>3, <1>4, <1>6, <1>7, <2>1
<1>9. GoesOnFrame(d)
  <2>1. \A y : Still(d.todo, y) /\ y[1] # "lock" => y \in Lookups(d)
    BY <1>8
  <2> QED
    BY <1>6, <1>7, <2>1, AllowedLookups DEF GoesOnFrame, OrderedTo
<1>10. ~(c.request.status = "pending" /\ ~row.outbound) => SecuresBalances(d, row)
  BY <1>5, <1>6, <1>7 DEF SecuresBalances, Secures, Take
<1> QED
  BY <1>6, <1>7, <1>9, <1>10 DEF Settles, OrderedTo

\* The pending transfer is looked at again once its lock is held.
LEMMA RecordRechecksPending ==
    ASSUME NEW c, NEW d, NEW k, LooksUp(c, d, <<"recheck pending", k>>), c.request.op = "record",
           \A j \in Created : transfers[j] \in Row,
           \/ transfers[k].status = "pending" /\ MaySettle(c.request, k) /\ SettlesNext(c, d, k)
           \/ transfers[k].status = "pending" /\ ~MaySettle(c.request, k) /\ d.writes = "nothing" /\ d.todo = <<>>
           \/ transfers[k].status # "pending" /\ GoesOn(c, d, <<"recheck pending", k>>) /\ d.todo = Tail(c.todo)
    PROVE  Knows(d)
<1> DEFINE r == c.request
           h == <<"recheck pending", k>>
           x == <<"provider_reference", r.reference>>
<1>1. /\ HasNewKey(c) /\ HasNewEvent(c) /\ KeepsReference(c) /\ c.writes = "create" /\ Plain(r)
      /\ ChecksFunds(r) => IsFunded(c, r.account)
      /\ r.reversalOf # Nil => r.reversalOf \in Created /\ <<"transfer", r.reversalOf>> \in c.held
  BY RecordAtLookup
<1>2. d.request = r /\ d.unseen = c.unseen /\ d.held = c.held
  BY DEF LooksUp
<1>3. k \in WithReference(r) /\ ByReference(r) /\ Secures(c, <<"transfer", k>>) /\ k \in Created
  <2>1. h \in Lookups(c)
    BY AtLookup
  <2>2. /\ h # <<"check funds", r.account>> /\ h # <<"find", "key">> /\ h # <<"find", "event">>
        /\ h # <<"find", "pending">> /\ h # <<"find", "settled">>
    BY ONLY <1>2
  <2>3. \A j : h = <<"recheck pending", j>> => j = k
    BY ONLY <1>2
  <2>4. k \in WithReference(r) /\ ByReference(r) /\ Secures(c, <<"transfer", k>>)
    BY <2>1, <2>2, <2>3, LookupsOfRecord
  <2> QED
    BY <2>4 DEF WithReference
<1>4. Rank(h) = 4
  BY ONLY DEF Rank
<1>5. ASSUME NEW y, Rank(y) < 4, Still(c.todo, y) PROVE FALSE
  <2> HIDE DEF h
  <2>1. y = h \/ Follows(h, y)
    BY <1>5, AtLookup DEF h
  <2>2. Rank(y) \in 1..10 /\ Rank(y) <= Rank(h) /\ Rank(h) \notin {1, 2, 6} /\ y # h
    BY ONLY <1>4, <1>5, RanksOfAll
  <2> QED
    BY <2>1, <2>2, NotFollowing
<1>6. ASSUME NEW y, Secures(c, y), Rank(<<"lock", y>>) < 4 PROVE y \in c.held
  BY <1>5, <1>6 DEF Secures
<1>7. CASE transfers[k].status = "pending" /\ MaySettle(r, k) /\ SettlesNext(c, d, k)
  <2>1. <<"transfer", k>> \in c.held
    <3>1. Rank(<<"lock", <<"transfer", k>>>>) = 3
      BY ONLY DEF Rank, LockRank
    <3>2. Rank(<<"lock", <<"transfer", k>>>>) < 4
      BY ONLY <3>1
    <3> QED
      BY <1>3, <1>6, <3>2
  <2>2. GoesOnFrame(d) /\ Settles(d)
    BY <1>2, <1>3, <1>7, <2>1, SettleFacts
  <2>3. ~Still(c.todo, <<"find", "key">>) /\ ~Still(c.todo, <<"find", "event">>)
    <3>1. Rank(<<"find", "key">>) = 2 /\ Rank(<<"find", "event">>) = 2
      BY ONLY DEF Rank, FindRank
    <3>2. Rank(<<"find", "key">>) < 4 /\ Rank(<<"find", "event">>) < 4
      BY ONLY <3>1
    <3> QED
      BY <1>5, <3>2
  <2>4. HasNewKey(d) /\ HasNewEvent(d)
    BY <1>1, <1>2, <2>3 DEF HasNewKey, HasNewEvent, Learned
  <2>5. d.on = k /\ d.writes = "settle"
    BY <1>7 DEF SettlesNext
  <2>6. d.on \in WouldSettle(r, Created)
    BY <1>3, <1>7, <2>5 DEF WouldSettle, PendingWith
  <2>7. Records(d)
    BY <1>1, <1>2, <2>2, <2>4, <2>5, <2>6 DEF Records, IsNew
  <2> QED
    BY <1>1, <1>2, <2>2, <2>7 DEF Knows, GoesOnFrame
<1>8. CASE transfers[k].status = "pending" /\ ~MaySettle(r, k) /\ d.writes = "nothing" /\ d.todo = <<>>
  <2>1. Blocks(r, Created)
    BY <1>3, <1>8 DEF Blocks, PendingWith
  <2>2. GoesOnFrame(d)
    BY <1>8, NothingFrame
  <2> QED
    BY <1>8, <2>1, <2>2, RecordStops
<1>9. CASE transfers[k].status # "pending" /\ GoesOn(c, d, h) /\ d.todo = Tail(c.todo)
  <2>1. Past(c, d, h) /\ GoesOnFrame(d)
    BY <1>9, GoesPast, ContinueFrame
  <2>2. /\ h # <<"find", "key">> /\ h # <<"find", "event">>
        /\ h # <<"find", "settled">> /\ h # <<"check funds", r.account>>
    BY ONLY <1>2
  <2>3. HasNewKey(d) /\ HasNewEvent(d)
    BY <1>1, <2>1, <2>2, Passing
  <2>4. ChecksFunds(r) => IsFunded(d, r.account)
    BY <1>1, <2>1, <2>2, FundedPassing
  <2>5. ~Still(c.todo, <<"find", "pending">>)
    <3> DEFINE y == <<"find", "pending">>
    <3>1. Rank(y) = 4 /\ y # h
      BY ONLY DEF Rank, FindRank
    <3> HIDE DEF h, y
    <3>2. Rank(h) \notin {1, 2, 6} /\ Rank(y) <= Rank(h)
      BY ONLY <1>4, <3>1
    <3>3. Still(c.todo, y) => Follows(h, y)
      BY <3>1, AtLookup DEF h
    <3> QED
      BY <3>2, <3>3, NotFollowing DEF y
  <2>6. Still(c.todo, <<"find", "settled">>) => Still(d.todo, <<"find", "settled">>)
    <3>1. <<"find", "settled">>[1] # "lock"
      BY ONLY <1>2
    <3> QED
      BY <2>1, <2>2, <3>1 DEF Past
  <2>7. SettledWith(r) # {}
    BY <1>3, <1>9 DEF SettledWith, PendingWith
  <2>8. KeepsReference(d)
    BY <1>1, <1>2, <1>3, <2>5, <2>6, <2>7 DEF KeepsReference
  <2> QED
    BY <1>9, <2>1, <2>3, <2>4, <2>8, RecordGoesOn
<1> QED
  BY <1>7, <1>8, <1>9

\* The check of the available balance, under its lock.
LEMMA RecordChecksFunds ==
    ASSUME NEW c, NEW d, NEW a, LooksUp(c, d, <<"check funds", a>>),
           c.request.op = "record", d.todo = Tail(c.todo) \/ d.todo = <<>>,
           \/ funds[a] >= 1 /\ GoesOn(c, d, <<"check funds", a>>) /\ d.todo = Tail(c.todo)
           \/ funds[a] < 1 /\ d.writes = "nothing" /\ d.todo = <<>>
           \/ funds[a] < 1 /\ d.writes = "decline" /\ d.on = c.on /\ d.todo = Tail(c.todo)
    PROVE  Knows(d)
<1> DEFINE r == c.request
           h == <<"check funds", a>>
<1>1. /\ HasNewKey(c) /\ HasNewEvent(c) /\ KeepsReference(c) /\ c.writes = "create" /\ Plain(r)
      /\ ChecksFunds(r) => IsFunded(c, r.account)
      /\ r.reversalOf # Nil => r.reversalOf \in Created /\ <<"transfer", r.reversalOf>> \in c.held
  BY RecordAtLookup
<1>2. d.request = r /\ d.unseen = c.unseen /\ d.held = c.held
  BY DEF LooksUp
<1>3. ChecksFunds(r) /\ a = r.account
  <2>1. h \in Lookups(c)
    BY AtLookup
  <2>2. /\ h # <<"find", "key">> /\ h # <<"find", "event">>
        /\ h # <<"find", "pending">> /\ h # <<"find", "settled">>
    BY ONLY <1>2
  <2>3. \A j : h # <<"recheck pending", j>>
    BY ONLY <1>2
  <2>4. h = <<"check funds", r.account>> => a = r.account
    BY ONLY <1>2
  <2> QED
    BY <2>1, <2>2, <2>3, <2>4, LookupsOfRecord
<1>4. <<"balance", a>> \in c.held
  <2>1. Rank(h) = 9
    BY ONLY DEF Rank
  <2>2. Rank(<<"lock", <<"balance", a>>>>) = 6
    BY ONLY DEF Rank, LockRank
  <2>3. Secures(c, <<"balance", a>>)
    BY <1>1, <1>3 DEF IsFunded, Learned, Secures
  <2> HIDE DEF h
  <2>4. Rank(<<"lock", <<"balance", a>>>>) < Rank(h)
    BY ONLY <2>1, <2>2
  <2> QED
    BY <2>3, <2>4, AtLookup DEF h
<1>5. h # <<"find", "key">> /\ h # <<"find", "event">> /\ h # <<"find", "pending">> /\ h # <<"find", "settled">>
      /\ h[1] # "recheck pending"
  BY ONLY <1>2
<1>6. CASE funds[a] >= 1 /\ GoesOn(c, d, h) /\ d.todo = Tail(c.todo)
  <2>1. Past(c, d, h) /\ GoesOnFrame(d)
    BY <1>6, GoesPast, ContinueFrame
  <2>2. HasNewKey(d) /\ HasNewEvent(d)
    BY <1>1, <1>5, <2>1, Passing
  <2>3. KeepsReference(d)
    BY <1>1, <1>5, <2>1, ReferencePassing
  <2>4. IsFunded(d, r.account)
    BY <1>2, <1>3, <1>4, <1>6 DEF IsFunded, Learned
  <2> QED
    BY <1>6, <2>1, <2>2, <2>3, <2>4, RecordGoesOn
<1>7. ASSUME funds[a] < 1 PROVE LacksFunds(d)
  BY <1>2, <1>3, <1>4, <1>7 DEF LacksFunds
<1>8. CASE funds[a] < 1 /\ d.writes = "nothing" /\ d.todo = <<>>
  <2>1. GoesOnFrame(d)
    BY <1>8, NothingFrame
  <2> QED
    BY <1>7, <1>8, <2>1, RecordStops
<1>9. CASE funds[a] < 1 /\ d.writes = "decline" /\ d.on = c.on /\ d.todo = Tail(c.todo)
  <2>1. /\ Tail(c.todo) \in Seq(Statement) /\ InOrder(Tail(c.todo))
        /\ \A y : Still(c.todo, y) <=> y = h \/ Still(Tail(c.todo), y)
        /\ \A y : Still(Tail(c.todo), y) => Follows(h, y)
    BY AtLookup
  <2>2. \A x : Secures(c, x) => Secures(d, x)
    <3>1. \A x : <<"lock", x>> # h
      BY ONLY <1>2
    <3> QED
      BY <1>2, <1>9, <2>1, <3>1 DEF Secures
  <2>3. Past(c, d, h)
    BY <1>2, <1>9, <2>1, <2>2 DEF Past
  <2>4. HasNewKey(d) /\ HasNewEvent(d)
    BY <1>1, <1>5, <2>3, Passing
  <2>5. KeepsReference(d)
    BY <1>1, <1>5, <2>3, ReferencePassing
  <2>6. Records(d)
    BY <1>1, <1>2, <1>7, <1>9, <2>4, <2>5 DEF Records, IsNew
  <2>7. ASSUME NEW y, Still(d.todo, y), y[1] # "lock" PROVE FALSE
    <3>1. y \in Lookups(c)
      <4>1. \A i \in 1..Len(c.todo) : c.todo[i][1] # "lock" => c.todo[i] \in Lookups(c)
        BY DEF LooksUp, Knows
      <4> QED
        BY <1>9, <2>1, <2>7, <4>1, AllowedLookups
    <3>2. Follows(h, y)
      BY <1>9, <2>1, <2>7
    <3>3. Rank(y) <= 9
      <4>1. Rank(<<"find", "key">>) = 2 /\ Rank(<<"find", "event">>) = 2
            /\ Rank(<<"find", "pending">>) = 4 /\ Rank(<<"find", "settled">>) = 5
        BY ONLY DEF Rank, FindRank
      <4>2. (\A j : Rank(<<"recheck pending", j>>) = 4) /\ Rank(<<"check funds", r.account>>) = 9
        BY ONLY DEF Rank
      <4>3. Rank(y) \in {2, 4, 5, 9}
        BY <1>3, <3>1, <4>1, <4>2, LookupsOfRecord
      <4> QED
        BY ONLY <4>3
    <3>4. Rank(h) = 9
      BY ONLY DEF Rank
    <3> HIDE DEF h
    <3>5. Rank(h) \notin {1, 2, 6} /\ Rank(y) <= Rank(h)
      BY ONLY <3>3, <3>4
    <3> QED
      BY <3>2, <3>5, NotFollowing
  <2>8. GoesOnFrame(d)
    BY <1>9, <2>1, <2>7, AllowedLookups DEF GoesOnFrame
  <2> QED
    BY <1>1, <1>2, <2>6, <2>8 DEF Knows, GoesOnFrame
<1> QED
  BY <1>6, <1>8, <1>9

\* CompleteInternalTransfer looks at the row again.
LEMMA CompleteRechecksPending ==
    ASSUME NEW c, NEW d, NEW k, LooksUp(c, d, <<"recheck pending", k>>), c.request.op = "complete",
           \A j \in Created : transfers[j] \in Row,
           \/ transfers[k].status = "pending" /\ SettlesNext(c, d, k)
           \/ transfers[k].status # "pending" /\ d.writes = "nothing" /\ d.todo = <<>>
    PROVE  Knows(d)
<1> DEFINE h == <<"recheck pending", k>>
<1>1. h \in Lookups(c) /\ d.request = c.request /\ d.held = c.held /\ Completes(c)
  BY AtLookup DEF LooksUp, Knows
<1>2. k = c.request.transfer /\ k \in Created
  <2>1. h = <<"recheck pending", c.request.transfer>>
    BY <1>1 DEF Lookups
  <2>2. h = <<"recheck pending", c.request.transfer>> => k = c.request.transfer
    BY ONLY <1>1
  <2> QED
    BY <1>1, <2>1, <2>2 DEF Completes
<1>3. CASE transfers[k].status = "pending" /\ SettlesNext(c, d, k)
  <2>1. Secures(c, <<"transfer", k>>)
    BY <1>1, <1>2, <1>3 DEF Completes, Settles, Secures
  <2>2. <<"transfer", k>> \in c.held
    <3>1. Rank(<<"lock", <<"transfer", k>>>>) = 3
      BY ONLY DEF Rank, LockRank
    <3>2. Rank(h) = 4
      BY ONLY DEF Rank
    <3> HIDE DEF h
    <3>3. Rank(<<"lock", <<"transfer", k>>>>) < Rank(h)
      BY ONLY <3>1, <3>2
    <3> QED
      BY <2>1, <3>3, AtLookup DEF h
  <2>3. GoesOnFrame(d) /\ Settles(d)
    BY <1>1, <1>2, <1>3, <2>2, SettleFacts
  <2>4. Completes(d)
    BY <1>1, <1>2, <1>3, <2>3 DEF Completes, SettlesNext
  <2> QED
    BY <1>1, <2>3, <2>4 DEF Knows, GoesOnFrame
<1>4. CASE transfers[k].status # "pending" /\ d.writes = "nothing" /\ d.todo = <<>>
  <2>1. GoesOnFrame(d) /\ Completes(d)
    BY <1>1, <1>2, <1>4, NothingFrame DEF Completes
  <2> QED
    BY <1>1, <2>1 DEF Knows, GoesOnFrame
<1> QED
  BY <1>3, <1>4

\* The replays of a review.
LEMMA ReviewLooksUp ==
    ASSUME NEW c, NEW d, NEW h \in {<<"find", "key">>, <<"find", "event">>}, LooksUp(c, d, h), c.request.op = "review",
           \/ /\ Replayed(c.request) /\ d.writes = "nothing"
              /\ d.todo = <<>> \/ d.todo = <<Take("transfer", c.request.key)>>
           \/ /\ h = <<"find", "key">> /\ c.request.key \notin Created
              /\ GoesOn(c, d, h) /\ d.todo = Tail(c.todo)
           \/ /\ h = <<"find", "event">> /\ ~(\E k \in Created : c.request.event \in transfers[k].events)
              /\ GoesOn(c, d, h) /\ d.todo = Tail(c.todo)
    PROVE  Knows(d)
<1> DEFINE r == c.request
<1>1. h \in Lookups(c) /\ d.request = r /\ d.held = c.held /\ Reviews(c)
  BY AtLookup DEF LooksUp, Knows
<1>2. c.writes = "create" /\ HasNewKey(c) /\ HasNewEvent(c)
  BY <1>1 DEF Lookups, Reviews, IsNew
<1>3. Rank(h) = 2
  BY ONLY h \in {<<"find", "key">>, <<"find", "event">>} DEF Rank, FindRank
<1>4. ASSUME NEW x, Secures(c, x), Rank(<<"lock", x>>) = 1 PROVE x \in c.held
  <2>1. Rank(<<"lock", x>>) < Rank(h)
    BY ONLY <1>3, <1>4
  <2> QED
    BY <1>4, <2>1, AtLookup
<1>5. CASE Replayed(r) /\ d.writes = "nothing" /\ (d.todo = <<>> \/ d.todo = <<Take("transfer", r.key)>>)
  <2>1. GoesOnFrame(d) /\ Reviews(d)
    BY <1>1, <1>5, NothingFrame DEF Reviews, Take
  <2> QED
    BY <1>1, <2>1 DEF Knows, GoesOnFrame
<1>6. CASE h = <<"find", "key">> /\ r.key \notin Created /\ GoesOn(c, d, h) /\ d.todo = Tail(c.todo)
  <2>1. Past(c, d, h) /\ GoesOnFrame(d) /\ d.writes = c.writes
    BY <1>6, GoesPast, ContinueFrame DEF GoesOn
  <2>2. <<"idempotency", r.key>> \in c.held
    <3>1. Rank(<<"lock", <<"idempotency", r.key>>>>) = 1
      BY ONLY DEF Rank, LockRank
    <3> QED
      BY <1>2, <1>4, <3>1 DEF HasNewKey, Learned, Secures
  <2>3. HasNewKey(d)
    BY <1>1, <1>6, <2>2 DEF HasNewKey, Learned
  <2>4. h # <<"find", "event">>
    BY <1>6
  <2>5. HasNewEvent(d)
    BY <1>2, <2>1, <2>4, Passing
  <2> QED
    BY <1>1, <1>2, <2>1, <2>3, <2>5 DEF Knows, GoesOnFrame, Reviews, IsNew
<1>7. CASE /\ h = <<"find", "event">> /\ ~(\E k \in Created : r.event \in transfers[k].events)
           /\ GoesOn(c, d, h) /\ d.todo = Tail(c.todo)
  <2>1. Past(c, d, h) /\ GoesOnFrame(d) /\ d.writes = c.writes
    BY <1>7, GoesPast, ContinueFrame DEF GoesOn
  <2>2. r.event # Nil => <<"provider_event", r.event>> \in c.held
    <3>1. Rank(<<"lock", <<"provider_event", r.event>>>>) = 1
      BY ONLY DEF Rank, LockRank
    <3> QED
      BY <1>2, <1>4, <3>1 DEF HasNewEvent, Learned, Secures
  <2>3. HasNewEvent(d)
    BY <1>1, <1>7, <2>2 DEF HasNewEvent, Learned, EventIsNew
  <2>4. h # <<"find", "key">>
    BY <1>7
  <2>5. HasNewKey(d)
    BY <1>2, <2>1, <2>4, Passing
  <2> QED
    BY <1>1, <1>2, <2>1, <2>3, <2>5 DEF Knows, GoesOnFrame, Reviews, IsNew
<1> QED
  BY <1>5, <1>6, <1>7

\* A transaction that is to record a transfer has all its statements to do.
LEMMA RecordBegins ==
    ASSUME NEW d, d.request \in RecordRequest, Plain(d.request), d.todo = RecordTransfer(d.request),
           d.writes = "create", ReversesLegally(d.request),
           d.request.reversalOf # Nil =>
              d.request.reversalOf \in Created /\ <<"transfer", d.request.reversalOf>> \in d.held
    PROVE  Knows(d) /\ d.todo \in Seq(Statement)
<1> DEFINE r == d.request
<1>1. r.op = "record"
  BY DEF RecordRequest
<1>2. OrderedTo(d.todo, 9) /\ \A y : Still(d.todo, y) <=> y \in Program(r)
  BY RecordTransferFacts
<1>3. d.todo \in Seq(Statement) /\ InOrder(d.todo)
  BY <1>2 DEF OrderedTo
<1>4. \A kind, x : Take(kind, x)[1] = "lock" /\ Take(kind, x) = <<"lock", <<kind, x>>>>
  BY DEF Take
<1>5. /\ Still(d.todo, <<"lock", <<"idempotency", r.key>>>>) /\ Still(d.todo, <<"find", "key">>)
      /\ r.event # Nil => Still(d.todo, <<"lock", <<"provider_event", r.event>>>>) /\ Still(d.todo, <<"find", "event">>)
      /\ ByReference(r) => /\ Still(d.todo, <<"lock", <<"provider_reference", r.reference>>>>)
                           /\ Still(d.todo, <<"find", "pending">>) /\ Still(d.todo, <<"find", "settled">>)
      /\ Still(d.todo, <<"lock", <<"balance", r.account>>>>) /\ Still(d.todo, <<"lock", <<"balance", r.clearing>>>>)
      /\ ChecksFunds(r) => Still(d.todo, <<"check funds", r.account>>)
  BY <1>2, <1>4 DEF Program
<1>6. ASSUME NEW y, Still(d.todo, y), y[1] # "lock" PROVE y \in Lookups(d)
  <2>1. y \in Program(r)
    BY <1>2, <1>6
  <2>2. \/ y \in {<<"find", "key">>, <<"find", "event">>}
        \/ ByReference(r) /\ y \in {<<"find", "pending">>, <<"find", "settled">>}
        \/ ChecksFunds(r) /\ y = <<"check funds", r.account>>
    <3>1. \A kind, x : y # Take(kind, x)
      BY <1>4, <1>6
    <3> QED
      BY <2>1, <3>1 DEF Program
  <2> QED
    BY <1>1, <2>2 DEF Lookups
<1>7. HasNewKey(d) /\ HasNewEvent(d)
  BY <1>5 DEF HasNewKey, HasNewEvent, Learned, Secures
<1>8. KeepsReference(d)
  BY <1>5 DEF KeepsReference, Secures
<1>9. SecuresBalances(d, r) /\ (ChecksFunds(r) => IsFunded(d, r.account))
  BY <1>5 DEF SecuresBalances, IsFunded, Learned, Secures
<1>10. Records(d)
  BY <1>7, <1>8, <1>9 DEF Records, IsNew
<1>11. \A i \in 1..Len(d.todo) : d.todo[i][1] # "lock" => d.todo[i] \in Lookups(d)
  BY <1>6, AllowedLookups
<1> QED
  BY <1>1, <1>3, <1>10, <1>11 DEF Knows

\* What ReverseTransfer makes of the transfer it finds.
LEMMA ReversalFacts ==
    ASSUME NEW r \in Request, r.op = "reverse", r.transfer \in Created, transfers[r.transfer] \in Row,
           Plain(transfers[r.transfer]), Reversible(r.transfer)
    PROVE  /\ ReversalRequest(r) \in RecordRequest /\ Plain(ReversalRequest(r))
           /\ ReversalRequest(r).reversalOf = r.transfer
<1> DEFINE row == transfers[r.transfer]
           new == ReversalRequest(r)
<1>1. /\ row.account \in Accounts /\ row.clearing \in Accounts /\ row.outbound \in BOOLEAN
      /\ row.reference \in References \cup {Nil}
  BY DEF Row, Reversible, Plain
<1>2. r.key \in Keys /\ r.transfer \in Keys
  BY RequestFacts
<1>3. <<"reversal", IF row.reference = Nil THEN r.transfer ELSE row.reference>> \in Reference
  BY <1>1, <1>2 DEF Reference
<1>4. new = [op |-> "record", key |-> r.key, event |-> Nil, status |-> "posted",
             reference |-> <<"reversal", IF row.reference = Nil THEN r.transfer ELSE row.reference>>,
             account |-> row.account, clearing |-> row.clearing, outbound |-> ~row.outbound,
             reversalOf |-> r.transfer]
  BY DEF ReversalRequest
<1>5. new \in RecordRequest
  BY <1>1, <1>2, <1>3, <1>4 DEF RecordRequest
<1>6. new.reversalOf = r.transfer
  BY <1>4
<1>7. Nil \notin Keys
  BY LocksAssumption
<1> QED
  BY <1>2, <1>5, <1>6, <1>7 DEF Plain

LEMMA ReverseRechecks ==
    ASSUME NEW c, NEW d, NEW k,
           c.todo \in Seq(Statement), c.todo # <<>>, Head(c.todo) = <<"recheck reversible", k>>,
           c.request \in Request, Knows(c), c.request.op = "reverse", d.held = c.held,
           \A j \in Created : transfers[j] \in Row /\ Plain(transfers[j]),
           \/ /\ Reversible(k) /\ d.request = ReversalRequest(c.request)
              /\ d.todo = RecordTransfer(d.request) /\ d.writes = "create"
           \/ ~Reversible(k) /\ d.request = c.request /\ d.writes = "nothing" /\ d.todo = <<>>
    PROVE  Knows(d) /\ d.todo \in Seq(Statement) /\ d.request \in Request
<1> DEFINE r == c.request
           h == <<"recheck reversible", k>>
<1>1. LooksUp(c, c, h)
  <2>1. h[1] # "lock"
    BY ONLY DEF Rank
  <2> QED
    BY <2>1 DEF LooksUp
<1>2. h \in Lookups(c) /\ Reverses(c)
  BY <1>1, AtLookup DEF Knows
<1>3. k = r.transfer /\ k \in Created
  <2>1. h = <<"recheck reversible", r.transfer>>
    BY <1>2 DEF Lookups
  <2>2. h = <<"recheck reversible", r.transfer>> => k = r.transfer
    BY ONLY <1>1
  <2> QED
    BY <1>2, <2>1, <2>2 DEF Reverses
<1>4. <<"transfer", k>> \in c.held
  <2>1. Rank(<<"lock", <<"transfer", k>>>>) = 3
    BY ONLY DEF Rank, LockRank
  <2>2. Rank(h) = 4
    BY ONLY DEF Rank
  <2>3. Secures(c, <<"transfer", k>>)
    BY <1>2, <1>3 DEF Reverses, Learned, Secures
  <2> HIDE DEF h
  <2>4. Rank(<<"lock", <<"transfer", k>>>>) < Rank(h)
    BY ONLY <2>1, <2>2
  <2> QED
    BY <1>1, <2>3, <2>4, AtLookup
<1>5. CASE /\ Reversible(k) /\ d.request = ReversalRequest(r)
           /\ d.todo = RecordTransfer(d.request) /\ d.writes = "create"
  <2>1. d.request \in RecordRequest /\ Plain(d.request) /\ d.request.reversalOf = k
    BY <1>3, <1>5, ReversalFacts
  <2>2. ReversesLegally(d.request)
    BY <1>5, <2>1 DEF ReversesLegally
  <2>3. d.request \in Request
    BY <2>1 DEF Request
  <2>4. d.request.reversalOf # Nil =>
           d.request.reversalOf \in Created /\ <<"transfer", d.request.reversalOf>> \in d.held
    BY <1>3, <1>4, <2>1
  <2>5. d.todo = RecordTransfer(d.request) /\ d.writes = "create"
    BY <1>5
  <2> QED
    BY <2>1, <2>2, <2>3, <2>4, <2>5, RecordBegins
<1>6. CASE ~Reversible(k) /\ d.request = r /\ d.writes = "nothing" /\ d.todo = <<>>
  <2>1. GoesOnFrame(d) /\ d.todo \in Seq(Statement)
    <3>1. GoesOnFrame(d)
      BY <1>6, NothingFrame
    <3>2. <<>> \in Seq(Statement)
      BY ONLY EmptySeq
    <3> QED
      BY <1>6, <3>1, <3>2
  <2>2. Reverses(d)
    BY <1>2, <1>3, <1>4, <1>6 DEF Reverses, Learned
  <2> QED
    BY <1>6, <2>1, <2>2 DEF Knows, GoesOnFrame
<1> QED
  BY <1>5, <1>6

-----------------------------------------------------------------------------
(***************************************************************************)
(* Liens.                                                                  *)
(***************************************************************************)
LEMMA LookupsOfPlace ==
    ASSUME NEW c, NEW y, y \in Lookups(c), c.request.op = "place"
    PROVE  /\ c.writes = "place"
           /\ \/ y = <<"find", "lien">> \/ y = <<"check funds", c.request.account>>
              \/ /\ y = <<"recheck lien", Lien(c.request.lien)>> /\ Secures(c, <<"lien", Lien(c.request.lien)>>)
                 /\ <<"account_lien_reference", c.request.lien>> \in c.held
BY DEF Lookups

LEMMA PlaceAtLookup ==
    ASSUME NEW c, NEW d, NEW h, LooksUp(c, d, h), c.request.op = "place"
    PROVE  /\ c.writes = "place" /\ Secures(c, <<"balance", c.request.account>>) /\ IsFunded(c, c.request.account)
           /\ Rank(h) > 1 => <<"account_lien_reference", c.request.lien>> \in c.held
           /\ \/ Still(c.todo, <<"find", "lien">>)
              \/ Still(c.todo, <<"recheck lien", Lien(c.request.lien)>>)
              \/ lien[c.request.lien].account = Nil
<1>1. h \in Lookups(c) /\ Places(c)
  BY AtLookup DEF LooksUp, Knows
<1>2. c.writes = "place"
  BY <1>1, LookupsOfPlace
<1>3. Secures(c, <<"account_lien_reference", c.request.lien>>)
  BY <1>1, <1>2 DEF Places, Secures
<1>4. Rank(h) > 1 => <<"account_lien_reference", c.request.lien>> \in c.held
  <2>1. Rank(<<"lock", <<"account_lien_reference", c.request.lien>>>>) = 1
    BY ONLY DEF Rank, LockRank
  <2>2. Rank(h) > 1 => Rank(<<"lock", <<"account_lien_reference", c.request.lien>>>>) < Rank(h)
    BY ONLY <2>1, RanksOfAll
  <2> QED
    BY <1>3, <2>2, AtLookup
<1> QED
  BY <1>1, <1>2, <1>4 DEF Places

\* d goes on to place its lien.
LEMMA PlaceGoesOn ==
    ASSUME NEW c, NEW d, NEW h, GoesOn(c, d, h), c.request.op = "place", GoesOnFrame(d),
           IsFunded(d, c.request.account),
           \/ Still(d.todo, <<"find", "lien">>)
           \/ /\ <<"account_lien_reference", c.request.lien>> \in c.held
              /\ Still(d.todo, <<"recheck lien", Lien(c.request.lien)>>) \/ lien[c.request.lien].account = Nil
    PROVE  Knows(d)
<1>1. LooksUp(c, d, h) /\ Past(c, d, h) /\ d.request = c.request /\ d.held = c.held /\ d.writes = c.writes
  BY GoesPast DEF GoesOn, LooksUp
<1>2. c.writes = "place" /\ Secures(c, <<"balance", c.request.account>>) /\ Places(c)
  BY <1>1, PlaceAtLookup DEF LooksUp, Knows
<1>3. Secures(c, <<"account_lien_reference", c.request.lien>>)
  BY <1>2 DEF Places, Secures
<1>4. Secures(d, <<"balance", c.request.account>>) /\ Secures(d, <<"account_lien_reference", c.request.lien>>)
  BY <1>1, <1>2, <1>3 DEF Past
<1>5. Places(d)
  BY <1>1, <1>2, <1>4 DEF Places
<1> QED
  BY <1>1, <1>5 DEF Knows, GoesOnFrame

LEMMA PlaceFindsLien ==
    ASSUME NEW c, NEW d, GoesOn(c, d, <<"find", "lien">>), c.request.op = "place",
           lien \in LienType,
           \/ lien[c.request.lien].account = Nil /\ d.todo = Tail(c.todo)
           \/ DoesFirst(c, d, Take("lien", Lien(c.request.lien)), <<"recheck lien", Lien(c.request.lien)>>)
    PROVE  Knows(d)
<1> DEFINE r == c.request
           h == <<"find", "lien">>
           x == <<"account_lien_reference", r.lien>>
<1>1. LooksUp(c, d, h) /\ Past(c, d, h) /\ d.request = r /\ d.held = c.held /\ d.writes = c.writes
  BY GoesPast DEF GoesOn, LooksUp
<1>2. Rank(h) = 8
  BY ONLY DEF Rank, FindRank
<1>3. Rank(h) > 1 /\ Rank(h) \notin {1, 2, 6}
  BY ONLY <1>2
<1>4. x \in c.held /\ IsFunded(c, r.account) /\ c.writes = "place"
  BY <1>1, <1>3, PlaceAtLookup
<1>5. IsFunded(d, r.account)
  <2>1. h # <<"check funds", r.account>>
    BY ONLY <1>2
  <2> QED
    BY <1>1, <1>4, <2>1, FundedPassing
<1>6. CASE lien[r.lien].account = Nil /\ d.todo = Tail(c.todo)
  BY <1>4, <1>5, <1>6, ContinueFrame, PlaceGoesOn
<1>7. CASE DoesFirst(c, d, Take("lien", Lien(r.lien)), <<"recheck lien", Lien(r.lien)>>)
  <2> DEFINE y == Take("lien", Lien(r.lien))
             z == <<"recheck lien", Lien(r.lien)>>
  <2>1. r.lien \in LienReferences
    BY <1>1, RequestFacts DEF LooksUp
  <2>2. Lien(r.lien) \in LienReferences \X Nat
    BY <2>1 DEF Lien, LienType
  <2>3. y \in Statement /\ z \in Statement
    BY <2>2, StatementFacts
  <2>10. DoesFirst(c, d, y, z)
    BY <1>7
  <2>4. Rank(y) = 7 /\ y[1] = "lock" /\ y = <<"lock", <<"lien", Lien(r.lien)>>>>
    BY ONLY DEF Rank, LockRank, Take
  <2>5. Rank(z) = 8
    BY ONLY DEF Rank
  <2>6. Still(d.todo, y) /\ Still(d.todo, z)
    <3>1. Tail(c.todo) \in Seq(Statement)
      BY <1>1, AtLookup
    <3> HIDE DEF y, z
    <3> QED
      BY <2>10, <2>3, <3>1, InsertStill
  <2>7. Secures(d, <<"lien", Lien(r.lien)>>)
    BY <2>4, <2>6 DEF Secures
  <2>8. z \in Lookups(d)
    BY <1>1, <1>4, <2>7 DEF Lookups, GoesOn
  <2>9. GoesOnFrame(d)
    <3> HIDE DEF h, y, z
    <3>2. GoesOn(c, d, h)
      BY DEF h
    <3>1. Follows(y, z) /\ Rank(z) = Rank(h)
      BY ONLY <1>2, <2>4, <2>5 DEF Follows
    <3> QED
      BY <1>3, <2>3, <2>4, <2>8, <2>10, <3>1, <3>2, InsertFrame
  <2> QED
    BY <1>4, <1>5, <2>6, <2>9, PlaceGoesOn
<1> QED
  BY <1>6, <1>7

\* PlaceAccountLien looks at the lien it found again.
LEMMA PlaceRechecksLien ==
    ASSUME NEW c, NEW d, NEW y, LooksUp(c, d, <<"recheck lien", y>>), c.request.op = "place", lien \in LienType,
           \/ IsActive(y[1], y[2]) /\ d.writes = "nothing" /\ d.todo = <<>>
           \/ ~IsActive(y[1], y[2]) /\ GoesOn(c, d, <<"recheck lien", y>>) /\ d.todo = Tail(c.todo)
    PROVE  Knows(d)
<1> DEFINE r == c.request
           h == <<"recheck lien", y>>
           x == <<"account_lien_reference", r.lien>>
<1>1. d.request = r /\ d.held = c.held /\ h \in Lookups(c)
  BY AtLookup DEF LooksUp
<1>2. y = Lien(r.lien) /\ Secures(c, <<"lien", Lien(r.lien)>>) /\ x \in c.held
  <2>1. h # <<"find", "lien">> /\ h # <<"check funds", r.account>>
    BY ONLY <1>1
  <2>2. h = <<"recheck lien", Lien(r.lien)>> => y = Lien(r.lien)
    BY ONLY <1>1
  <2> QED
    BY <1>1, <2>1, <2>2, LookupsOfPlace
<1>3. Rank(h) = 8
  BY ONLY DEF Rank
<1>4. y[1] = r.lien /\ y[2] = lien[r.lien].number
  BY <1>2 DEF Lien
<1>5. CASE IsActive(y[1], y[2]) /\ d.writes = "nothing" /\ d.todo = <<>>
  <2>1. Rank(<<"lock", <<"lien", Lien(r.lien)>>>>) = 7
    BY ONLY DEF Rank, LockRank
  <2>2. <<"lien", Lien(r.lien)>> \in c.held
    <3> DEFINE w == <<"lien", Lien(r.lien)>>
    <3>1. LooksUp(c, d, h) /\ Secures(c, w) /\ Rank(<<"lock", w>>) = 7
      BY <1>2, <2>1
    <3> HIDE DEF h, w
    <3>2. Rank(<<"lock", w>>) < Rank(h)
      BY ONLY <1>3, <3>1
    <3>3. w \in c.held
      BY <3>1, <3>2, AtLookup
    <3> QED
      BY <3>3 DEF w
  <2>3. GoesOnFrame(d)
    BY <1>5, NothingFrame
  <2>4. Places(d)
    BY <1>1, <1>4, <1>5, <2>2 DEF Places, IsActive
  <2> QED
    BY <1>1, <2>3, <2>4 DEF Knows, GoesOnFrame
<1>6. CASE ~IsActive(y[1], y[2]) /\ GoesOn(c, d, h) /\ d.todo = Tail(c.todo)
  <2>1. lien[r.lien].account = Nil
    BY <1>4, <1>6 DEF IsActive
  <2>2. Past(c, d, h) /\ GoesOnFrame(d)
    BY <1>6, GoesPast, ContinueFrame
  <2>3. IsFunded(d, r.account)
    <3>1. h # <<"check funds", r.account>>
      BY ONLY <1>3
    <3>2. IsFunded(c, r.account)
      BY PlaceAtLookup
    <3> QED
      BY <2>2, <3>1, <3>2, FundedPassing
  <2> QED
    BY <1>2, <1>6, <2>1, <2>2, <2>3, PlaceGoesOn
<1> QED
  BY <1>5, <1>6

LEMMA PlaceChecksFunds ==
    ASSUME NEW c, NEW d, NEW a, LooksUp(c, d, <<"check funds", a>>), c.request.op = "place",
           \/ funds[a] >= 1 /\ GoesOn(c, d, <<"check funds", a>>) /\ d.todo = Tail(c.todo)
           \/ funds[a] < 1 /\ d.writes = "nothing" /\ d.todo = <<>>
    PROVE  Knows(d)
<1> DEFINE r == c.request
           h == <<"check funds", a>>
<1>1. d.request = r /\ d.held = c.held /\ h \in Lookups(c) /\ IsFunded(c, r.account)
  BY AtLookup, PlaceAtLookup DEF LooksUp
<1>2. a = r.account
  <2>1. h # <<"find", "lien">> /\ h # <<"recheck lien", Lien(r.lien)>>
    BY ONLY <1>1
  <2>2. h = <<"check funds", r.account>> => a = r.account
    BY ONLY <1>1
  <2> QED
    BY <1>1, <2>1, <2>2, LookupsOfPlace
<1>3. Rank(h) = 9
  BY ONLY DEF Rank
<1>4. <<"balance", a>> \in c.held
  <2>1. Rank(<<"lock", <<"balance", a>>>>) = 6
    BY ONLY DEF Rank, LockRank
  <2>2. Secures(c, <<"balance", a>>)
    BY <1>1, <1>2 DEF IsFunded, Learned, Secures
  <2> HIDE DEF h
  <2>3. Rank(<<"lock", <<"balance", a>>>>) < Rank(h)
    BY ONLY <1>3, <2>1
  <2> QED
    BY <2>2, <2>3, AtLookup DEF h
<1>5. CASE funds[a] >= 1 /\ GoesOn(c, d, h) /\ d.todo = Tail(c.todo)
  <2>1. Past(c, d, h) /\ GoesOnFrame(d)
    BY <1>5, GoesPast, ContinueFrame
  <2>2. IsFunded(d, r.account)
    BY <1>1, <1>2, <1>4, <1>5 DEF IsFunded, Learned
  <2>3. ~Still(c.todo, <<"find", "lien">>) /\ ~Still(c.todo, <<"recheck lien", Lien(r.lien)>>)
    <3>1. Rank(<<"find", "lien">>) = 8 /\ <<"find", "lien">> # h
      BY ONLY DEF Rank, FindRank
    <3>2. Rank(<<"recheck lien", Lien(r.lien)>>) = 8 /\ <<"recheck lien", Lien(r.lien)>> # h
      BY ONLY DEF Rank
    <3> HIDE DEF h
    <3>3. ASSUME NEW y, Rank(y) = 8, y # h PROVE ~Still(c.todo, y)
      <4>1. Rank(h) \notin {1, 2, 6} /\ Rank(y) <= Rank(h)
        BY ONLY <1>3, <3>3
      <4>2. Still(c.todo, y) => Follows(h, y)
        BY <3>3, AtLookup DEF h
      <4> QED
        BY <4>1, <4>2, NotFollowing
    <3> QED
      BY <3>1, <3>2, <3>3
  <2>4. Rank(h) > 1
    <3> HIDE DEF h
    <3> QED
      BY ONLY <1>3
  <2>5. lien[r.lien].account = Nil /\ <<"account_lien_reference", r.lien>> \in c.held
    BY <2>3, <2>4, PlaceAtLookup
  <2> QED
    BY <1>5, <2>1, <2>2, <2>5, PlaceGoesOn
<1>6. CASE funds[a] < 1 /\ d.writes = "nothing" /\ d.todo = <<>>
  <2>1. GoesOnFrame(d)
    BY <1>6, NothingFrame
  <2>2. Places(d)
    BY <1>1, <1>2, <1>4, <1>6 DEF Places
  <2> QED
    BY <1>1, <2>1, <2>2 DEF Knows, GoesOnFrame
<1> QED
  BY <1>5, <1>6

LEMMA ReleaseRechecksLien ==
    ASSUME NEW c, NEW d, NEW y, LooksUp(c, d, <<"recheck lien", y>>), c.request.op = "release", d.on = c.on,
           \/ ~IsActive(y[1], y[2]) /\ d.writes = "nothing" /\ d.todo = <<>>
           \/ IsActive(y[1], y[2]) /\ d.writes = c.writes /\ d.todo = <<Take("balance", c.request.account)>>
    PROVE  Knows(d)
<1> DEFINE r == c.request
           h == <<"recheck lien", y>>
<1>1. d.request = r /\ d.held = c.held /\ h \in Lookups(c) /\ Releases(c)
  BY AtLookup DEF LooksUp, Knows
<1>2. y = <<r.lien, c.on>> /\ c.writes = "release"
  <2>1. h = <<"recheck lien", <<r.lien, c.on>>>> /\ c.writes = "release"
    BY <1>1 DEF Lookups
  <2>2. h = <<"recheck lien", <<r.lien, c.on>>>> => y = <<r.lien, c.on>>
    BY ONLY <1>1
  <2> QED
    BY <2>1, <2>2
<1>3. <<"lien", y>> \in c.held
  <2>1. Rank(<<"lock", <<"lien", y>>>>) = 7
    BY ONLY DEF Rank, LockRank
  <2>2. Rank(h) = 8
    BY ONLY DEF Rank
  <2>3. Secures(c, <<"lien", y>>)
    BY <1>1, <1>2 DEF Releases, Learned, Secures
  <2> HIDE DEF h
  <2>4. Rank(<<"lock", <<"lien", y>>>>) < Rank(h)
    BY ONLY <2>1, <2>2
  <2> QED
    BY <2>3, <2>4, AtLookup DEF h
<1>4. y[1] = r.lien /\ y[2] = c.on
  BY <1>2
<1>5. CASE ~IsActive(y[1], y[2]) /\ d.writes = "nothing" /\ d.todo = <<>>
  <2>1. GoesOnFrame(d)
    BY <1>5, NothingFrame
  <2>2. Releases(d)
    BY <1>1, <1>4, <1>5 DEF Releases
  <2> QED
    BY <1>1, <2>1, <2>2 DEF Knows, GoesOnFrame
<1>6. CASE IsActive(y[1], y[2]) /\ d.writes = c.writes /\ d.todo = <<Take("balance", r.account)>>
  <2>1. GoesOnFrame(d)
    BY <1>6, NothingFrame DEF Take
  <2>2. Secures(d, <<"balance", r.account>>)
    BY <1>6, StillOne DEF Secures, Take
  <2>3. Releases(d)
    BY <1>1, <1>2, <1>3, <1>4, <1>6, <2>2 DEF Releases, Learned
  <2> QED
    BY <1>1, <2>1, <2>3 DEF Knows, GoesOnFrame
<1> QED
  BY <1>5, <1>6

-----------------------------------------------------------------------------
(***************************************************************************)
(* A transaction begins.                                                   *)
(***************************************************************************)
\* d is the transaction of a call that begins with request r.
Starts(d, r) ==
    /\ d.request = r /\ d.todo = Statements(r) /\ d.writes = Intends(r)
    /\ d.on = IF r.op = "release" THEN lien[r.lien].number ELSE Nil
    /\ r.op \in {"complete", "reverse"} => r.transfer \in Created
    /\ r.op = "release" => lien[r.lien].account = r.account

\* A lock, and a lookup under it.
LEMMA PairFacts ==
    ASSUME NEW x \in Statement, NEW y \in Statement, Follows(x, y), x[1] = "lock",
           NEW d, d.todo = <<x, y>>, y \in Lookups(d)
    PROVE  d.todo \in Seq(Statement) /\ GoesOnFrame(d) /\ Still(d.todo, x) /\ Still(d.todo, y)
<1>1. <<x, y>> \in Seq(Statement) /\ InOrder(<<x, y>>) /\ \A z : Still(<<x, y>>, z) <=> z \in {x, y}
  BY OrderTwo, StillTwo
<1>2. \A z : Still(d.todo, z) /\ z[1] # "lock" => z \in Lookups(d)
  BY <1>1
<1> QED
  BY <1>1, <1>2, AllowedLookups DEF GoesOnFrame

LEMMA ControlBegins ==
    ASSUME NEW r \in Request, r.op = "control", NEW d, Starts(d, r)
    PROVE  Knows(d) /\ d.todo \in Seq(Statement)
<1>1. d.todo = <<Take("account", r.account)>> /\ d.writes = "nothing" /\ d.request = r
  BY DEF Starts, Statements, Intends
<1>2. r.account \in Accounts
  BY RequestFacts DEF Accounts
<1>3. Take("account", r.account) \in Statement
  BY <1>2, StatementFacts
<1>4. GoesOnFrame(d)
  BY <1>1, NothingFrame DEF Take
<1>5. d.todo \in Seq(Statement)
  BY <1>1, <1>3
<1> QED
  BY <1>1, <1>4, <1>5 DEF Knows, GoesOnFrame

LEMMA CompleteBegins ==
    ASSUME NEW r \in Request, r.op \in {"complete", "reverse"}, NEW d, Starts(d, r)
    PROVE  Knows(d) /\ d.todo \in Seq(Statement)
<1> DEFINE k == r.transfer
           x == Take("transfer", k)
           y == IF r.op = "complete" THEN <<"recheck pending", k>> ELSE <<"recheck reversible", k>>
<1>1. /\ d.todo = <<x, y>> /\ d.request = r /\ d.writes = "nothing" /\ k \in Created
  BY DEF Starts, Statements, Intends
<1>2. k \in Keys
  BY <1>1 DEF Created
<1>3. x \in Statement /\ y \in Statement
  BY <1>2, StatementFacts
<1>4. Rank(x) = 3 /\ x[1] = "lock" /\ x = <<"lock", <<"transfer", k>>>>
  BY ONLY DEF Rank, LockRank, Take
<1>5. Rank(y) = 4
  <2>1. Rank(<<"recheck pending", k>>) = 4 /\ Rank(<<"recheck reversible", k>>) = 4
    BY ONLY DEF Rank
  <2> QED
    BY <2>1
<1>6. y \in Lookups(d)
  BY <1>1 DEF Lookups
<1>7. d.todo \in Seq(Statement) /\ GoesOnFrame(d) /\ Still(d.todo, x) /\ Still(d.todo, y)
  <2> HIDE DEF x, y
  <2>1. Follows(x, y)
    BY ONLY <1>4, <1>5 DEF Follows
  <2> QED
    BY <1>1, <1>3, <1>4, <1>6, <2>1, PairFacts
<1>8. Secures(d, <<"transfer", k>>)
  BY <1>4, <1>7 DEF Secures
<1>9. (r.op = "complete" => Completes(d)) /\ (r.op = "reverse" => Reverses(d))
  BY <1>1, <1>7, <1>8 DEF Completes, Reverses, Learned
<1> QED
  BY <1>1, <1>7, <1>9 DEF Knows, GoesOnFrame

LEMMA ReleaseBegins ==
    ASSUME NEW r \in Request, r.op = "release", NEW d, Starts(d, r), lien \in LienType
    PROVE  Knows(d) /\ d.todo \in Seq(Statement)
<1> DEFINE l == Lien(r.lien)
           x == Take("lien", l)
           y == <<"recheck lien", l>>
<1>1. /\ d.todo = <<x, y>> /\ d.request = r /\ d.writes = "release" /\ d.on = lien[r.lien].number
      /\ lien[r.lien].account = r.account
  BY DEF Starts, Statements, Intends
<1>2. r.lien \in LienReferences /\ l \in LienReferences \X Nat /\ d.on \in Nat /\ l = <<r.lien, d.on>>
  BY <1>1, RequestFacts DEF Lien, LienType
<1>3. x \in Statement /\ y \in Statement
  BY <1>2, StatementFacts
<1>4. Rank(x) = 7 /\ x[1] = "lock" /\ x = <<"lock", <<"lien", l>>>>
  BY ONLY DEF Rank, LockRank, Take
<1>5. Rank(y) = 8
  BY ONLY DEF Rank
<1>6. y \in Lookups(d)
  BY <1>1, <1>2 DEF Lookups
<1>7. d.todo \in Seq(Statement) /\ GoesOnFrame(d) /\ Still(d.todo, x) /\ Still(d.todo, y)
  <2> HIDE DEF x, y
  <2>1. Follows(x, y)
    BY ONLY <1>4, <1>5 DEF Follows
  <2> QED
    BY <1>1, <1>3, <1>4, <1>6, <2>1, PairFacts
<1>8. Secures(d, <<"lien", l>>)
  BY <1>4, <1>7 DEF Secures
<1>9. Releases(d)
  <2>1. /\ Still(d.todo, <<"recheck lien", <<r.lien, d.on>>>>)
        /\ Secures(d, <<"lien", <<r.lien, d.on>>>>)
    BY <1>2, <1>7, <1>8
  <2>2. d.on <= lien[r.lien].number
    <3>1. d.on = lien[r.lien].number
      BY <1>1
    <3>2. d.on \in Nat
      BY <1>2
    <3> QED
      BY ONLY <3>1, <3>2
  <2> HIDE DEF l, x, y
  <2> QED
    BY <1>1, <1>2, <2>1, <2>2 DEF Releases, Learned
<1> QED
  BY <1>1, <1>7, <1>9 DEF Knows, GoesOnFrame

LEMMA RecordRequestBegins ==
    ASSUME NEW r \in Requests, r.op = "record", NEW d, Starts(d, r)
    PROVE  Knows(d) /\ d.todo \in Seq(Statement)
<1>1. d.request = r /\ d.todo = RecordTransfer(r) /\ d.writes = "create"
  BY DEF Starts, Statements, Intends
<1>2. r \in RecordRequest /\ r.reversalOf = Nil /\ Plain(r)
  BY LocksAssumption, RequestFacts
<1>3. ReversesLegally(r)
  BY <1>2 DEF ReversesLegally
<1> QED
  BY <1>1, <1>2, <1>3, RecordBegins

LEMMA ReviewBegins ==
    ASSUME NEW r \in Request, r.op = "review", NEW d, Starts(d, r)
    PROVE  Knows(d) /\ d.todo \in Seq(Statement)
<1> DEFINE a == <<Take("idempotency", r.key)>>
           b == When(r.event # Nil, <<Take("provider_event", r.event), <<"find", "event">>>>)
           e == <<<<"find", "key">>>>
           f == AccountBalance(r.account)
<1>1. r.key \in Keys /\ r.event \in Events \cup {Nil} /\ r.account \in Accounts
  BY RequestFacts
<1>2. d.request = r /\ d.writes = "create" /\ d.todo = ((a \o b) \o e) \o f
  BY DEF Starts, Statements, Intends, RecordProviderEventReview
<1>3. OrderedTo(a, 1) /\ \A y : Still(a, y) <=> y = Take("idempotency", r.key)
  BY <1>1, StatementFacts, Ranks, OneFacts
<1>4. /\ OrderedTo(b, 2)
      /\ \A y : Still(b, y) <=> r.event # Nil /\ y \in {Take("provider_event", r.event), <<"find", "event">>}
  <2>1. CASE r.event # Nil
    <3> DEFINE x == Take("provider_event", r.event)
               z == <<"find", "event">>
    <3>1. x \in Statement /\ z \in Statement
      BY <1>1, <2>1, StatementFacts
    <3>2. Rank(x) = 1
      BY ONLY DEF Rank, LockRank, Take
    <3>3. Rank(z) = 2
      BY ONLY DEF Rank, FindRank
    <3>4. b = <<x, z>>
      BY <2>1 DEF When
    <3> HIDE DEF x, z
    <3>5. Follows(x, z)
      BY ONLY <3>2, <3>3 DEF Follows
    <3>6. OrderedTo(<<x, z>>, 2) /\ \A y : Still(<<x, z>>, y) <=> y \in {x, z}
      BY <3>1, <3>3, <3>5, TwoFacts
    <3> QED
      BY <2>1, <3>4, <3>6 DEF x, z
  <2>2. CASE r.event = Nil
    <3>1. b = <<>> /\ <<>> \in Seq(Statement)
      BY <2>2 DEF When
    <3> QED
      BY <2>2, <3>1, StillNone, OrderNone DEF OrderedTo
  <2> QED
    BY <2>1, <2>2
<1>5. OrderedTo(e, 2) /\ \A y : Still(e, y) <=> y = <<"find", "key">>
  BY StatementFacts, Ranks, OneFacts
<1>6. OrderedTo(f, 6) /\ \A y : Still(f, y) <=> y \in {Take("account", r.account), Take("balance", r.account)}
  BY <1>1, AccountBalanceFacts
<1> HIDE DEF a, b, e, f
<1>7. ASSUME NEW y, Still(b, y) PROVE Rank(y) \in {1, 2}
  <2>1. y = Take("provider_event", r.event) \/ y = <<"find", "event">>
    BY <1>4, <1>7
  <2>2. Rank(Take("provider_event", r.event)) = 1 /\ Rank(<<"find", "event">>) = 2
    BY ONLY DEF Rank, LockRank, FindRank, Take
  <2> QED
    BY <2>1, <2>2
<1>8. ASSUME NEW y, Still(e, y) PROVE Rank(y) = 2
  BY <1>5, <1>8 DEF Rank, FindRank
<1>9. ASSUME NEW y, Still(f, y) PROVE Rank(y) = 6
  BY <1>6, <1>9 DEF Rank, LockRank, Take
<1>10. OrderedTo(a \o b, 2) /\ \A y : Still(a \o b, y) <=> Still(a, y) \/ Still(b, y)
  <2>1. ASSUME NEW y, Still(b, y) PROVE Rank(y) > 1 \/ (Rank(y) = 1 /\ 1 \in {1, 2, 6})
    BY <1>7, <2>1
  <2> QED
    BY <1>3, <1>4, <2>1, OrderExtends
<1>11. OrderedTo((a \o b) \o e, 2) /\ \A y : Still((a \o b) \o e, y) <=> Still(a \o b, y) \/ Still(e, y)
  <2>1. ASSUME NEW y, Still(e, y) PROVE Rank(y) > 2 \/ (Rank(y) = 2 /\ 2 \in {1, 2, 6})
    BY <1>8, <2>1
  <2> QED
    BY <1>5, <1>10, <2>1, OrderExtends
<1>12. /\ OrderedTo(((a \o b) \o e) \o f, 6)
       /\ \A y : Still(((a \o b) \o e) \o f, y) <=> Still((a \o b) \o e, y) \/ Still(f, y)
  <2>1. ASSUME NEW y, Still(f, y) PROVE Rank(y) > 2 \/ (Rank(y) = 2 /\ 2 \in {1, 2, 6})
    BY <1>9, <2>1
  <2> QED
    BY <1>6, <1>11, <2>1, OrderExtends
<1>13. \A y : Still(d.todo, y) <=> Still(a, y) \/ Still(b, y) \/ Still(e, y) \/ Still(f, y)
  BY <1>2, <1>10, <1>11, <1>12
<1>14. d.todo \in Seq(Statement) /\ InOrder(d.todo)
  BY <1>2, <1>12 DEF OrderedTo
<1>15. ASSUME NEW y, Still(d.todo, y), y[1] # "lock" PROVE y \in Lookups(d)
  <2>1. \A kind, x : Take(kind, x)[1] = "lock"
    BY DEF Take
  <2>2. y = <<"find", "event">> \/ y = <<"find", "key">>
    BY <1>3, <1>4, <1>5, <1>6, <1>13, <1>15, <2>1
  <2> QED
    BY <1>2, <2>2 DEF Lookups
<1>16. HasNewKey(d) /\ HasNewEvent(d)
  BY <1>2, <1>3, <1>4, <1>5, <1>13 DEF HasNewKey, HasNewEvent, Learned, Secures, Take
<1>17. \A i \in 1..Len(d.todo) : d.todo[i][1] # "lock" => d.todo[i] \in Lookups(d)
  BY <1>15, AllowedLookups
<1> QED
  BY <1>2, <1>14, <1>16, <1>17 DEF Knows, Reviews, IsNew

LEMMA PlaceBegins ==
    ASSUME NEW r \in Request, r.op = "place", NEW d, Starts(d, r)
    PROVE  Knows(d) /\ d.todo \in Seq(Statement)
<1> DEFINE a == <<Take("account_lien_reference", r.lien)>>
           b == AccountBalance(r.account)
           e == <<<<"find", "lien">>, <<"check funds", r.account>>>>
<1>1. r.lien \in LienReferences /\ r.account \in Customers /\ r.account \in Accounts
  BY RequestFacts DEF Accounts
<1>2. d.request = r /\ d.writes = "place" /\ d.todo = (a \o b) \o e
  BY DEF Starts, Statements, Intends, PlaceAccountLien
<1>3. OrderedTo(a, 1) /\ \A y : Still(a, y) <=> y = Take("account_lien_reference", r.lien)
  BY <1>1, StatementFacts, Ranks, OneFacts
<1>4. OrderedTo(b, 6) /\ \A y : Still(b, y) <=> y \in {Take("account", r.account), Take("balance", r.account)}
  BY <1>1, AccountBalanceFacts
<1>5. OrderedTo(e, 9) /\ \A y : Still(e, y) <=> y \in {<<"find", "lien">>, <<"check funds", r.account>>}
  <2> DEFINE x == <<"find", "lien">>
             z == <<"check funds", r.account>>
  <2>1. x \in Statement /\ z \in Statement
    BY <1>1, StatementFacts
  <2>2. Rank(x) = 8
    BY ONLY DEF Rank, FindRank
  <2>3. Rank(z) = 9
    BY ONLY DEF Rank
  <2>4. e = <<x, z>>
    OBVIOUS
  <2> HIDE DEF x, z
  <2>5. Follows(x, z)
    BY ONLY <2>2, <2>3 DEF Follows
  <2>6. OrderedTo(<<x, z>>, 9) /\ \A y : Still(<<x, z>>, y) <=> y \in {x, z}
    BY <2>1, <2>3, <2>5, TwoFacts
  <2> QED
    BY <2>4, <2>6 DEF x, z
<1> HIDE DEF a, b, e
<1>6. ASSUME NEW y, Still(b, y) PROVE Rank(y) = 6
  BY <1>4, <1>6 DEF Rank, LockRank, Take
<1>7. ASSUME NEW y, Still(e, y) PROVE Rank(y) \in {8, 9}
  <2>1. y = <<"find", "lien">> \/ y = <<"check funds", r.account>>
    BY <1>5, <1>7
  <2>2. Rank(<<"find", "lien">>) = 8 /\ Rank(<<"check funds", r.account>>) = 9
    BY ONLY DEF Rank, FindRank
  <2> QED
    BY <2>1, <2>2
<1>8. OrderedTo(a \o b, 6) /\ \A y : Still(a \o b, y) <=> Still(a, y) \/ Still(b, y)
  <2>1. ASSUME NEW y, Still(b, y) PROVE Rank(y) > 1 \/ (Rank(y) = 1 /\ 1 \in {1, 2, 6})
    BY <1>6, <2>1
  <2> QED
    BY <1>3, <1>4, <2>1, OrderExtends
<1>9. OrderedTo((a \o b) \o e, 9) /\ \A y : Still((a \o b) \o e, y) <=> Still(a \o b, y) \/ Still(e, y)
  <2>1. ASSUME NEW y, Still(e, y) PROVE Rank(y) > 6 \/ (Rank(y) = 6 /\ 6 \in {1, 2, 6})
    BY <1>7, <2>1
  <2> DEFINE u == a \o b
  <2>2. OrderedTo(u, 6) /\ OrderedTo(e, 9)
    BY <1>5, <1>8
  <2> HIDE DEF u
  <2>3. OrderedTo(u \o e, 9) /\ \A y : Still(u \o e, y) <=> Still(u, y) \/ Still(e, y)
    BY <2>1, <2>2, OrderExtends
  <2> QED
    BY <2>3 DEF u
<1>10. d.todo \in Seq(Statement) /\ InOrder(d.todo)
  BY <1>2, <1>9 DEF OrderedTo
<1>11. \A y : Still(d.todo, y) <=> Still(a, y) \/ Still(b, y) \/ Still(e, y)
  BY <1>2, <1>8, <1>9
<1>12. ASSUME NEW y, Still(d.todo, y), y[1] # "lock" PROVE y \in Lookups(d)
  <2>1. \A kind, x : Take(kind, x)[1] = "lock"
    BY DEF Take
  <2>2. y = <<"find", "lien">> \/ y = <<"check funds", r.account>>
    <3>1. \A kind, x : y # Take(kind, x)
      BY <1>12, <2>1
    <3>2. Still(e, y)
      BY <1>3, <1>4, <1>11, <1>12, <3>1
    <3> QED
      BY <1>5, <3>2
  <2> QED
    BY <1>2, <2>2 DEF Lookups
<1>13. Secures(d, <<"account_lien_reference", r.lien>>) /\ Secures(d, <<"balance", r.account>>)
  BY <1>3, <1>4, <1>11 DEF Secures, Take
<1>14. IsFunded(d, r.account) /\ Still(d.todo, <<"find", "lien">>)
  BY <1>5, <1>11, <1>13 DEF IsFunded, Learned
<1>15. \A i \in 1..Len(d.todo) : d.todo[i][1] # "lock" => d.todo[i] \in Lookups(d)
  BY <1>12, AllowedLookups
<1> QED
  BY <1>2, <1>10, <1>13, <1>14, <1>15 DEF Knows, Places

LEMMA TransactionBegins ==
    ASSUME NEW r \in Requests, NEW d, Starts(d, r), lien \in LienType
    PROVE  Knows(d) /\ d.todo \in Seq(Statement)
<1>1. r \in Request /\ r.op \in {"record", "complete", "reverse", "review", "control", "place", "release"}
  BY LocksAssumption, RequestFacts
<1>2. CASE r.op = "record"
  BY <1>2, RecordRequestBegins
<1>3. CASE r.op \in {"complete", "reverse"}
  BY <1>1, <1>3, CompleteBegins
<1>4. CASE r.op = "review"
  BY <1>1, <1>4, ReviewBegins
<1>5. CASE r.op = "control"
  BY <1>1, <1>5, ControlBegins
<1>6. CASE r.op = "place"
  BY <1>1, <1>6, PlaceBegins
<1>7. CASE r.op = "release"
  BY <1>1, <1>7, ReleaseBegins
<1> QED
  BY <1>1, <1>2, <1>3, <1>4, <1>5, <1>6, <1>7

-----------------------------------------------------------------------------
(***************************************************************************)
(* A transaction commits.                                                  *)
(***************************************************************************)
LEMMA NoneStill ==
    ASSUME NEW c, c.todo = <<>>
    PROVE  (\A y : ~Still(c.todo, y)) /\ (\A x : Secures(c, x) => x \in c.held)
BY StillNone DEF Secures

\* What a transaction holds when it creates a transfer.
LEMMA EndOfCreation ==
    ASSUME NEW c, c.todo = <<>>, Knows(c), c.request \in Request, c.writes \in {"create", "decline"}
    PROVE  /\ c.request.op \in {"record", "review"}
           /\ c.request.key \notin Created /\ <<"idempotency", c.request.key>> \in c.held
           /\ c.request.event # Nil => EventIsNew(c.request) /\ <<"provider_event", c.request.event>> \in c.held
           /\ c.request.op = "record" =>
                /\ ByReference(c.request) =>
                      /\ <<"provider_reference", c.request.reference>> \in c.held
                      /\ WithReference(c.request) \subseteq c.unseen
                /\ c.request.reversalOf # Nil =>
                      c.request.reversalOf \in Created /\ <<"transfer", c.request.reversalOf>> \in c.held
                /\ ReversesLegally(c.request) \/ c.writes = "decline"
           /\ c.writes = "create" /\ c.request.op = "record" =>
                /\ <<"balance", c.request.account>> \in c.held /\ <<"balance", c.request.clearing>> \in c.held
                /\ ChecksFunds(c.request) => funds[c.request.account] >= 1
           /\ c.writes = "decline" => c.request.op = "record" /\ LacksFunds(c)
<1> DEFINE r == c.request
<1>1. (\A y : ~Still(c.todo, y)) /\ (\A x : Secures(c, x) => x \in c.held)
  BY NoneStill
<1>2. r.op \in {"record", "complete", "reverse", "review", "control", "place", "release"}
  BY RequestFacts
<1>3. r.op \in {"record", "review"}
  BY <1>2 DEF Knows, Completes, Reverses, Places, Releases
<1>4. c.writes = "decline" => r.op = "record" /\ LacksFunds(c)
  BY <1>3 DEF Knows, Reviews, Records
<1>5. IsNew(c)
  BY <1>3 DEF Knows, Reviews, Records
<1>6. r.key \notin Created /\ <<"idempotency", r.key>> \in c.held
  BY <1>1, <1>5 DEF IsNew, HasNewKey, Learned
<1>7. r.event # Nil => EventIsNew(r) /\ <<"provider_event", r.event>> \in c.held
  BY <1>1, <1>5 DEF IsNew, HasNewEvent, Learned
<1>8. r.op = "record" => /\ KeepsReference(c)
                         /\ r.reversalOf # Nil => r.reversalOf \in Created /\ <<"transfer", r.reversalOf>> \in c.held
                         /\ ReversesLegally(r) \/ c.writes = "decline"
                         /\ c.writes = "create" => SecuresBalances(c, r) /\ (ChecksFunds(r) => IsFunded(c, r.account))
  BY DEF Knows, Records
<1>9. r.op = "record" /\ ByReference(r) =>
         <<"provider_reference", r.reference>> \in c.held /\ WithReference(r) \subseteq c.unseen
  BY <1>1, <1>8 DEF KeepsReference
<1>10. r.op = "record" /\ c.writes = "create" =>
          /\ <<"balance", r.account>> \in c.held /\ <<"balance", r.clearing>> \in c.held
          /\ ChecksFunds(r) => funds[r.account] >= 1
  BY <1>1, <1>8 DEF SecuresBalances, IsFunded, Learned
<1> QED
  BY <1>3, <1>4, <1>6, <1>7, <1>8, <1>9, <1>10

\* What it holds when it settles one.
LEMMA EndOfSettling ==
    ASSUME NEW c, c.todo = <<>>, Knows(c), c.request \in Request, c.writes = "settle"
    PROVE  /\ c.request.op \in {"record", "complete"}
           /\ c.on \in Created /\ transfers[c.on].status = "pending" /\ <<"transfer", c.on>> \in c.held
           /\ c.request.op = "complete" => c.on = c.request.transfer
           /\ c.request.op = "record" =>
                /\ c.request.event # Nil => EventIsNew(c.request) /\ <<"provider_event", c.request.event>> \in c.held
                /\ c.request.key \notin Created
                /\ c.on \in WouldSettle(c.request, Created)
           /\ c.request.status # "pending" =>
                /\ <<"balance", transfers[c.on].account>> \in c.held
                /\ <<"balance", transfers[c.on].clearing>> \in c.held
<1> DEFINE r == c.request
<1>1. (\A y : ~Still(c.todo, y)) /\ (\A x : Secures(c, x) => x \in c.held)
  BY NoneStill
<1>2. r.op \in {"record", "complete", "reverse", "review", "control", "place", "release"}
  BY RequestFacts
<1>3. r.op \in {"record", "complete"}
  BY <1>2 DEF Knows, Reverses, Reviews, Places, Releases
<1>4. Settles(c) /\ (r.op = "complete" => c.on = r.transfer)
  BY <1>3 DEF Knows, Completes, Records
<1>5. r.op = "record" => IsNew(c) /\ c.on \in WouldSettle(r, Created)
  BY DEF Knows, Records
<1>6. r.op = "record" =>
         /\ r.event # Nil => EventIsNew(r) /\ <<"provider_event", r.event>> \in c.held
         /\ r.key \notin Created
  BY <1>1, <1>5 DEF IsNew, HasNewKey, HasNewEvent, Learned
<1> QED
  BY <1>1, <1>3, <1>4, <1>5, <1>6 DEF Settles, SecuresBalances

\* What it holds when it places or releases a lien.
LEMMA EndOfLien ==
    ASSUME NEW c, c.todo = <<>>, Knows(c), c.request \in Request, c.writes \in {"place", "release"}
    PROVE  /\ c.request.op = c.writes /\ <<"balance", c.request.account>> \in c.held
           /\ c.request.lien \in LienReferences /\ c.request.account \in Customers
           /\ c.writes = "place" =>
                /\ <<"account_lien_reference", c.request.lien>> \in c.held
                /\ lien[c.request.lien].account = Nil /\ funds[c.request.account] >= 1
           /\ c.writes = "release" =>
                /\ <<"lien", <<c.request.lien, c.on>>>> \in c.held /\ IsActive(c.request.lien, c.on)
                /\ lien[c.request.lien].account = c.request.account
<1> DEFINE r == c.request
<1>1. (\A y : ~Still(c.todo, y)) /\ (\A x : Secures(c, x) => x \in c.held)
  BY NoneStill
<1>2. r.op \in {"record", "complete", "reverse", "review", "control", "place", "release"}
  BY RequestFacts
<1>3. r.op = c.writes
  <2>1. r.op \in {"place", "release"}
    BY <1>2 DEF Knows, Records, Completes, Reverses, Reviews
  <2>2. CASE r.op = "place"
    BY <2>2 DEF Knows, Places
  <2>3. CASE r.op = "release"
    BY <2>3 DEF Knows, Releases
  <2> QED
    BY <2>1, <2>2, <2>3
<1>4. r.lien \in LienReferences /\ r.account \in Customers
  BY <1>3, RequestFacts
<1>5. CASE c.writes = "place"
  <2>1. Places(c)
    BY <1>3, <1>5 DEF Knows
  <2>2. /\ <<"balance", r.account>> \in c.held /\ <<"account_lien_reference", r.lien>> \in c.held
        /\ lien[r.lien].account = Nil /\ funds[r.account] >= 1
    BY <1>1, <1>5, <2>1 DEF Places, IsFunded, Learned
  <2> QED
    BY <1>3, <1>4, <1>5, <2>2
<1>6. CASE c.writes = "release"
  <2>1. Releases(c)
    BY <1>3, <1>6 DEF Knows
  <2>2. /\ <<"balance", r.account>> \in c.held /\ <<"lien", <<r.lien, c.on>>>> \in c.held
        /\ IsActive(r.lien, c.on) /\ lien[r.lien].account = r.account
    BY <1>1, <1>6, <2>1 DEF Releases, Learned
  <2> QED
    BY <1>3, <1>4, <1>6, <2>2
<1> QED
  BY <1>5, <1>6

\* The row it creates.
LEMMA CreatedRowFacts ==
    ASSUME NEW r \in Request, r.op \in {"record", "review"}
    PROVE  /\ CreatedRow(r) \in Row /\ CreatedRow(r).events = {r.event} \ {Nil}
           /\ r.op = "record" => /\ CreatedRow(r).reference = r.reference /\ CreatedRow(r).reversalOf = r.reversalOf
                                 /\ CreatedRow(r).status = r.status /\ CreatedRow(r).outbound = r.outbound
                                 /\ CreatedRow(r).account = r.account /\ CreatedRow(r).clearing = r.clearing
           /\ r.op = "review" => /\ CreatedRow(r).reference = Nil /\ CreatedRow(r).reversalOf = Nil
                                 /\ CreatedRow(r).status = "failed"
           /\ [CreatedRow(r) EXCEPT !.status = "failed"] \in Row
<1>1. r.event \in Events \cup {Nil} /\ r.account \in Accounts
  BY RequestFacts
<1>2. CASE r.op = "record"
  <2>1. r \in RecordRequest
    BY <1>2, RequestFacts
  <2>2. CreatedRow(r) = [status |-> r.status, account |-> r.account, clearing |-> r.clearing,
                         outbound |-> r.outbound, reference |-> r.reference, events |-> {r.event} \ {Nil},
                         reversalOf |-> r.reversalOf]
    BY <1>2 DEF CreatedRow
  <2>3. CreatedRow(r) \in Row
    BY <1>1, <2>1, <2>2 DEF Row, RecordRequest
  <2> QED
    BY <1>2, <2>2, <2>3 DEF Row
<1>3. CASE r.op = "review"
  <2>1. CreatedRow(r) = [status |-> "failed", account |-> r.account, clearing |-> r.account, outbound |-> FALSE,
                         reference |-> Nil, events |-> {r.event} \ {Nil}, reversalOf |-> Nil]
    BY <1>3 DEF CreatedRow
  <2>2. CreatedRow(r) \in Row
    BY <1>1, <2>1 DEF Row, Reference
  <2>3. [CreatedRow(r) EXCEPT !.status = "failed"] \in Row
    BY <2>2 DEF Row
  <2>4. /\ CreatedRow(r).events = {r.event} \ {Nil} /\ CreatedRow(r).reference = Nil
        /\ CreatedRow(r).reversalOf = Nil /\ CreatedRow(r).status = "failed"
    BY <2>1
  <2> QED
    BY <1>3, <2>2, <2>3, <2>4
<1> QED
  BY <1>2, <1>3

\* The row it settles.
LEMMA SettledRowFacts ==
    ASSUME NEW row \in Row, NEW r \in Request, r.op \in {"record", "complete"}
    PROVE  /\ SettledRow(row, r) \in Row /\ SettledRow(row, r).status = r.status
           /\ SettledRow(row, r).account = row.account /\ SettledRow(row, r).clearing = row.clearing
           /\ SettledRow(row, r).outbound = row.outbound /\ SettledRow(row, r).reference = row.reference
           /\ SettledRow(row, r).reversalOf = row.reversalOf
           /\ row.events \subseteq SettledRow(row, r).events
           /\ \A e \in Events : e \in SettledRow(row, r).events /\ e \notin row.events =>
                r.op = "record" /\ e = r.event /\ r.event # Nil
<1>1. r.status \in {"pending", "posted", "failed"}
  BY RequestFacts DEF RecordRequest
<1>2. CASE r.op = "record"
  <2>1. r.event \in Events \cup {Nil} /\ Nil \notin Events
    BY <1>2, RequestFacts, LocksAssumption
  <2>2. SettledRow(row, r) = [row EXCEPT !.status = r.status, !.events = row.events \cup ({r.event} \ {Nil})]
    BY <1>2 DEF SettledRow
  <2>3. SettledRow(row, r).events = row.events \cup ({r.event} \ {Nil})
    BY <2>2 DEF Row
  <2>4. /\ SettledRow(row, r).status = r.status
        /\ SettledRow(row, r).account = row.account /\ SettledRow(row, r).clearing = row.clearing
        /\ SettledRow(row, r).outbound = row.outbound /\ SettledRow(row, r).reference = row.reference
        /\ SettledRow(row, r).reversalOf = row.reversalOf
    BY <2>2 DEF Row
  <2>5. SettledRow(row, r) \in Row
    <3> DEFINE events == row.events \cup ({r.event} \ {Nil})
    <3>1. events \in SUBSET Events
      BY <2>1 DEF Row
    <3> HIDE DEF events
    <3>2. [row EXCEPT !.status = r.status, !.events = events] \in Row
      BY <1>1, <3>1 DEF Row
    <3> QED
      BY <2>2, <3>2 DEF events
  <2> QED
    BY <1>2, <2>1, <2>3, <2>4, <2>5
<1>3. CASE r.op = "complete"
  <2>1. SettledRow(row, r) = [row EXCEPT !.status = r.status, !.events = row.events]
    BY <1>3 DEF SettledRow
  <2>2. /\ SettledRow(row, r).status = r.status /\ SettledRow(row, r).events = row.events
        /\ SettledRow(row, r).account = row.account /\ SettledRow(row, r).clearing = row.clearing
        /\ SettledRow(row, r).outbound = row.outbound /\ SettledRow(row, r).reference = row.reference
        /\ SettledRow(row, r).reversalOf = row.reversalOf
    BY <2>1 DEF Row
  <2>3. SettledRow(row, r) \in Row
    BY <1>1, <2>1 DEF Row
  <2> QED
    BY <1>3, <2>2, <2>3
<1> QED
  BY <1>2, <1>3

\* The tables are as their types say.
TablesOK ==
    /\ transfers \in [Keys -> Row \cup {NoRow}] /\ lien \in LienType /\ funds \in [Customers -> Int]
    /\ \A k \in Created : Plain(transfers[k])

LEMMA CreatedIsRow ==
    ASSUME TablesOK
    PROVE  /\ \A k \in Created : k \in Keys /\ transfers[k] \in Row
           /\ \A row \in Row : row # NoRow
<1>1. ASSUME NEW row \in Row PROVE row # NoRow
  <2>1. row.status \in {"pending", "posted", "failed"}
    BY DEF Row
  <2>2. NoRow.status = "none"
    BY DEF NoRow
  <2> QED
    BY <2>1, <2>2
<1> QED
  BY <1>1 DEF TablesOK, Created

LEMMA FundsStay ==
    ASSUME NEW r, NEW a \in Customers, a # r.account, a # r.clearing
    PROVE  CreatedFunds(r)[a] = 0 /\ \A status : SettledFunds(r, status)[a] = 0
<1>1. \A b, delta : a # b => Change(b, delta)[a] = 0
  BY DEF Change
<1>2. Moved(r.account, r.clearing)[a] = 0 /\ Moved(r.clearing, r.account)[a] = 0
  BY <1>1 DEF Moved
<1>3. Change(Nil, 0)[a] = 0
  BY DEF Change
<1>4. CreatedFunds(r)[a] = 0
  BY <1>1, <1>2, <1>3 DEF CreatedFunds
<1> QED
  BY <1>1, <1>2, <1>3, <1>4 DEF SettledFunds

\* What is written, for each kind of commit.
LEMMA CreationWrites ==
    ASSUME TablesOK, NEW p, Write(p), call[p].writes \in {"create", "decline"}, call[p].todo = <<>>,
           Knows(call[p]), call[p].request \in Request
    PROVE  \E row \in Row :
              /\ transfers' = [transfers EXCEPT ![call[p].request.key] = row]
              /\ Created' = Created \cup {call[p].request.key}
              /\ transfers'[call[p].request.key] = row
              /\ \A k \in Created : transfers'[k] = transfers[k]
              /\ row.events = {call[p].request.event} \ {Nil} /\ Plain(row)
              /\ call[p].request.op = "review" => row.reference = Nil /\ row.reversalOf = Nil /\ row.status = "failed"
              /\ call[p].request.op = "record" =>
                    /\ row.reference = call[p].request.reference /\ row.reversalOf = call[p].request.reversalOf
                    /\ row.account = call[p].request.account /\ row.clearing = call[p].request.clearing
                    /\ row.outbound = call[p].request.outbound
              /\ lien' = lien
<1> DEFINE r == call[p].request
           row == IF call[p].writes = "create" THEN CreatedRow(r) ELSE [CreatedRow(r) EXCEPT !.status = "failed"]
<1>1. r.op \in {"record", "review"} /\ r.key \notin Created
  BY EndOfCreation
<1>2. r.key \in Keys
  BY <1>1, RequestFacts
<1>3. transfers' = [transfers EXCEPT ![r.key] = row] /\ lien' = lien
  BY DEF Write
<1>4. row \in Row
  BY <1>1, CreatedRowFacts
<1>5. /\ row.events = {r.event} \ {Nil}
      /\ r.op = "record" => /\ row.reference = r.reference /\ row.reversalOf = r.reversalOf
                            /\ row.account = r.account /\ row.clearing = r.clearing /\ row.outbound = r.outbound
      /\ r.op = "review" => row.reference = Nil /\ row.reversalOf = Nil /\ row.status = "failed"
  BY <1>1, CreatedRowFacts DEF Row
<1>6. Plain(row)
  BY <1>1, <1>5 DEF Plain, Knows
<1> HIDE DEF row
<1>7. transfers'[r.key] = row /\ \A k \in Keys : k # r.key => transfers'[k] = transfers[k]
  BY <1>2, <1>3 DEF TablesOK
<1>8. Created' = Created \cup {r.key}
  BY <1>1, <1>2, <1>4, <1>7, CreatedIsRow DEF Created
<1>9. \A k \in Created : transfers'[k] = transfers[k]
  BY <1>1, <1>7 DEF Created
<1> QED
  BY <1>3, <1>4, <1>5, <1>6, <1>7, <1>8, <1>9

LEMMA SettlingWrites ==
    ASSUME TablesOK, NEW p, Write(p), call[p].writes = "settle", call[p].todo = <<>>,
           Knows(call[p]), call[p].request \in Request
    PROVE  /\ transfers' = [transfers EXCEPT ![call[p].on] = SettledRow(transfers[call[p].on], call[p].request)]
           /\ Created' = Created /\ transfers[call[p].on] \in Row /\ call[p].on \in Keys
           /\ transfers'[call[p].on] = SettledRow(transfers[call[p].on], call[p].request)
           /\ \A k \in Keys : k # call[p].on => transfers'[k] = transfers[k]
           /\ SettledRow(transfers[call[p].on], call[p].request) \in Row
           /\ lien' = lien
<1> DEFINE r == call[p].request
           on == call[p].on
           row == SettledRow(transfers[on], r)
<1>1. r.op \in {"record", "complete"} /\ on \in Created
  BY EndOfSettling
<1>2. on \in Keys /\ transfers[on] \in Row
  BY <1>1, CreatedIsRow
<1>3. transfers' = [transfers EXCEPT ![on] = row] /\ lien' = lien
  BY DEF Write
<1>4. row \in Row
  BY <1>1, <1>2, SettledRowFacts
<1> HIDE DEF row
<1>5. transfers'[on] = row /\ \A k \in Keys : k # on => transfers'[k] = transfers[k]
  BY <1>2, <1>3 DEF TablesOK
<1>6. Created' = Created
  BY <1>1, <1>2, <1>4, <1>5, CreatedIsRow DEF Created
<1> QED
  BY <1>2, <1>3, <1>4, <1>5, <1>6 DEF row


LEMMA NothingUndisturbs ==
    ASSUME TablesOK, UNCHANGED <<transfers, lien, funds>>, NEW c, NEW d
    PROVE  Undisturbed(c, d)
<1>1. Created' = Created /\ \A k \in Created : k \in Keys
  BY CreatedIsRow DEF Created
<1>2. \A k \in Created : RowKept(k)
  BY <1>1 DEF RowKept
<1>3. \A l \in LienReferences : lien[l].number <= lien'[l].number
  BY DEF TablesOK, LienType
<1> QED
  BY <1>1, <1>2, <1>3 DEF Undisturbed

\* p writes a new row: c does not hold the locks it is written under.
LEMMA CreationUndisturbs ==
    ASSUME TablesOK, NEW p, Write(p), call[p].writes \in {"create", "decline"}, call[p].todo = <<>>,
           Knows(call[p]), call[p].request \in Request,
           NEW c, NEW d, call[p].held \cap c.held = {}, Unannounced(p) \subseteq d.unseen
    PROVE  Undisturbed(c, d)
<1> DEFINE r == call[p].request
<1>1. PICK row \in Row :
         /\ Created' = Created \cup {r.key}
         /\ transfers'[r.key] = row
         /\ \A k \in Created : transfers'[k] = transfers[k]
         /\ row.events = {r.event} \ {Nil} /\ Plain(row)
         /\ r.op = "review" => row.reference = Nil /\ row.reversalOf = Nil
         /\ r.op = "record" => row.reference = r.reference /\ row.reversalOf = r.reversalOf
         /\ lien' = lien
  BY CreationWrites
<1>2. /\ r.op \in {"record", "review"} /\ r.key \notin Created
      /\ <<"idempotency", r.key>> \notin c.held
      /\ r.event # Nil => <<"provider_event", r.event>> \notin c.held
      /\ r.op = "record" =>
           /\ ByReference(r) => <<"provider_reference", r.reference>> \notin c.held
           /\ r.reversalOf # Nil => <<"transfer", r.reversalOf>> \notin c.held
      /\ call[p].writes = "create" /\ r.op = "record" =>
           <<"balance", r.account>> \notin c.held /\ <<"balance", r.clearing>> \notin c.held
      /\ call[p].writes = "decline" => r.op = "record"
  BY EndOfCreation
<1>3. Nil \notin Keys /\ \A k \in Created : k \in Keys
  BY LocksAssumption, CreatedIsRow
<1>4. r.key \in Keys
  BY <1>2, RequestFacts
<1>5. \A k \in Created : RowKept(k) /\ transfers'[k] = transfers[k]
  BY <1>1 DEF RowKept
<1>6. \A k \in Created' : <<"idempotency", k>> \in c.held => k \in Created
  BY <1>1, <1>2
<1>7. ASSUME NEW e \in Events, <<"provider_event", e>> \in c.held, NEW k \in Created', e \in transfers'[k].events
      PROVE  k \in Created /\ e \in transfers[k].events
  <2>1. CASE k = r.key
    <3>1. e = r.event /\ e # Nil
      BY <1>1, <1>7, <2>1
    <3> QED
      BY <1>2, <1>7, <3>1
  <2>2. CASE k \in Created
    BY <1>1, <1>7, <2>2
  <2> QED
    BY <1>1, <2>1, <2>2
<1>8. ASSUME NEW k \in Created' \ Created
      PROVE  /\ <<"provider_reference", transfers'[k].reference>> \in c.held
                   /\ transfers'[k].reference # Nil /\ transfers'[k].reversalOf = Nil => k \in d.unseen
             /\ \A j \in Created : <<"transfer", j>> \in c.held => transfers'[k].reversalOf # j
  <2>1. k = r.key
    BY <1>1
  <2>2. transfers'[k] = row /\ row # NoRow
    BY <1>1, <2>1, CreatedIsRow
  <2>3. CASE r.op = "review"
    BY <1>1, <1>3, <2>2, <2>3
  <2>4. CASE r.op = "record"
    <3>1. transfers'[k].reference = r.reference /\ transfers'[k].reversalOf = r.reversalOf
      BY <1>1, <2>2, <2>4
    <3>2. ~ByReference(r) => k \in Unannounced(p)
      BY <1>4, <2>1, <2>2, <2>4 DEF Unannounced
    <3> QED
      BY <1>2, <1>3, <2>4, <3>1, <3>2
  <2> QED
    BY <1>2, <2>3, <2>4
<1>9. ASSUME NEW a \in Customers, <<"balance", a>> \in c.held
      PROVE  funds'[a] = funds[a]
  <2>1. CASE call[p].writes = "create" /\ r.op = "record"
    <3>1. funds'[a] = funds[a] + CreatedFunds(r)[a]
      BY <2>1 DEF Write, Apply
    <3>2. a # r.account /\ a # r.clearing
      BY <1>2, <1>9, <2>1
    <3>3. CreatedFunds(r)[a] = 0
      BY <3>2, FundsStay
    <3>4. funds[a] \in Int
      BY DEF TablesOK
    <3> QED
      BY <3>1, <3>3, <3>4
  <2>2. CASE call[p].writes = "create" /\ r.op = "review"
    BY <2>2 DEF Write
  <2>3. CASE call[p].writes = "decline"
    BY <2>3 DEF Write
  <2> QED
    BY <1>2, <2>1, <2>2, <2>3
<1>10. \A l \in LienReferences : lien'[l] = lien[l] /\ lien[l].number <= lien'[l].number
  BY <1>1 DEF TablesOK, LienType
<1> QED
  BY <1>5, <1>6, <1>7, <1>8, <1>9, <1>10 DEF Undisturbed

\* p settles a transfer.
LEMMA SettlingUndisturbs ==
    ASSUME TablesOK, NEW p, Write(p), call[p].writes = "settle", call[p].todo = <<>>,
           Knows(call[p]), call[p].request \in Request,
           NEW c, NEW d, call[p].held \cap c.held = {}
    PROVE  Undisturbed(c, d)
<1> DEFINE r == call[p].request
           on == call[p].on
<1>1. /\ Created' = Created /\ transfers[on] \in Row /\ on \in Keys
      /\ transfers'[on] = SettledRow(transfers[on], r)
      /\ \A k \in Keys : k # on => transfers'[k] = transfers[k]
      /\ lien' = lien
  BY SettlingWrites
<1>2. /\ r.op \in {"record", "complete"} /\ transfers[on].status = "pending"
      /\ <<"transfer", on>> \notin c.held
      /\ r.op = "record" => (r.event # Nil => <<"provider_event", r.event>> \notin c.held)
      /\ r.status # "pending" =>
           <<"balance", transfers[on].account>> \notin c.held /\ <<"balance", transfers[on].clearing>> \notin c.held
  BY EndOfSettling
<1>3. \A k \in Created : k \in Keys
  BY CreatedIsRow
<1>4. /\ transfers'[on].account = transfers[on].account /\ transfers'[on].clearing = transfers[on].clearing
      /\ transfers'[on].outbound = transfers[on].outbound /\ transfers'[on].reference = transfers[on].reference
      /\ transfers'[on].reversalOf = transfers[on].reversalOf
      /\ transfers[on].events \subseteq transfers'[on].events
      /\ \A e \in Events : e \in transfers'[on].events /\ e \notin transfers[on].events =>
           r.op = "record" /\ e = r.event /\ r.event # Nil
  BY <1>1, <1>2, SettledRowFacts
<1>5. ASSUME NEW k \in Created PROVE RowKept(k)
  BY <1>1, <1>2, <1>3, <1>4 DEF RowKept
<1>6. \A k \in Created : <<"transfer", k>> \in c.held => transfers'[k] = transfers[k]
  BY <1>1, <1>2, <1>3
<1>7. ASSUME NEW e \in Events, <<"provider_event", e>> \in c.held, NEW k \in Created', e \in transfers'[k].events
      PROVE  k \in Created /\ e \in transfers[k].events
  BY <1>1, <1>2, <1>3, <1>4, <1>7
<1>8. ASSUME NEW a \in Customers, <<"balance", a>> \in c.held
      PROVE  funds'[a] = funds[a]
  <2>1. funds'[a] = funds[a] + SettledFunds(transfers[on], r.status)[a]
    BY DEF Write, Apply
  <2>2. SettledFunds(transfers[on], r.status)[a] = 0
    <3>1. CASE r.status = "pending"
      BY <3>1 DEF SettledFunds, Change
    <3>2. CASE r.status # "pending"
      <4>1. a # transfers[on].account /\ a # transfers[on].clearing
        BY <1>2, <1>8, <3>2
      <4> QED
        BY <4>1, FundsStay
    <3> QED
      BY <3>1, <3>2
  <2>3. funds[a] \in Int
    BY DEF TablesOK
  <2> QED
    BY <2>1, <2>2, <2>3
<1>9. \A l \in LienReferences : lien'[l] = lien[l] /\ lien[l].number <= lien'[l].number
  BY <1>1 DEF TablesOK, LienType
<1> QED
  BY <1>1, <1>5, <1>6, <1>7, <1>8, <1>9 DEF Undisturbed

\* p places or releases a lien.
LEMMA LienWrites ==
    ASSUME TablesOK, NEW p, Write(p), call[p].writes \in {"place", "release"}, call[p].todo = <<>>,
           Knows(call[p]), call[p].request \in Request
    PROVE  /\ transfers' = transfers /\ Created' = Created
           /\ \A l \in LienReferences \ {call[p].request.lien} : lien'[l] = lien[l]
           /\ call[p].request.lien \in LienReferences /\ call[p].request.account \in Customers /\ lien' \in LienType
           /\ call[p].writes = "place" =>
                /\ lien[call[p].request.lien].account = Nil
                /\ lien'[call[p].request.lien].account = call[p].request.account
                /\ lien'[call[p].request.lien].number = lien[call[p].request.lien].number + 1
                /\ \A a \in Customers : funds'[a] = funds[a] + Change(call[p].request.account, -1)[a]
           /\ call[p].writes = "release" =>
                /\ lien[call[p].request.lien].account = call[p].request.account
                /\ call[p].on = lien[call[p].request.lien].number
                /\ lien'[call[p].request.lien].account = Nil
                /\ lien'[call[p].request.lien].number = lien[call[p].request.lien].number
                /\ \A a \in Customers : funds'[a] = funds[a] + Change(call[p].request.account, 1)[a]
<1> DEFINE r == call[p].request
<1>1. r.lien \in LienReferences /\ r.account \in Customers
  BY EndOfLien
<1>2. lien[r.lien] \in [account: Customers \cup {Nil}, number: Nat]
  BY <1>1 DEF TablesOK, LienType
<1>3. CASE call[p].writes = "place"
  <2>1. /\ lien' = [lien EXCEPT ![r.lien] = [account |-> r.account, number |-> lien[r.lien].number + 1]]
        /\ Apply(Change(r.account, -1)) /\ transfers' = transfers
    BY <1>3 DEF Write
  <2>2. lien[r.lien].account = Nil
    BY <1>3, EndOfLien
  <2>3. lien' \in LienType /\ lien'[r.lien] = [account |-> r.account, number |-> lien[r.lien].number + 1]
        /\ \A l \in LienReferences \ {r.lien} : lien'[l] = lien[l]
    BY <1>1, <1>2, <2>1 DEF TablesOK, LienType
  <2> QED
    BY <1>1, <1>3, <2>1, <2>2, <2>3 DEF Apply, Created
<1>4. CASE call[p].writes = "release"
  <2>1. /\ lien' = [lien EXCEPT ![r.lien].account = Nil]
        /\ Apply(Change(r.account, 1)) /\ transfers' = transfers
    BY <1>4 DEF Write
  <2>2. IsActive(r.lien, call[p].on) /\ lien[r.lien].account = r.account
    BY <1>4, EndOfLien
  <2>3. /\ lien' \in LienType /\ lien'[r.lien].account = Nil /\ lien'[r.lien].number = lien[r.lien].number
        /\ \A l \in LienReferences \ {r.lien} : lien'[l] = lien[l]
    BY <1>1, <1>2, <2>1 DEF TablesOK, LienType
  <2> QED
    BY <1>1, <1>4, <2>1, <2>2, <2>3 DEF Apply, Created, IsActive
<1> QED
  BY <1>3, <1>4

LEMMA LienUndisturbs ==
    ASSUME TablesOK, NEW p, Write(p), call[p].writes \in {"place", "release"}, call[p].todo = <<>>,
           Knows(call[p]), call[p].request \in Request,
           NEW c, NEW d, call[p].held \cap c.held = {}
    PROVE  Undisturbed(c, d)
<1> DEFINE r == call[p].request
<1>1. transfers' = transfers /\ Created' = Created
  BY LienWrites
<1>6. \A l \in LienReferences \ {r.lien} : lien'[l] = lien[l]
  BY LienWrites
<1>7. call[p].writes = "place" =>
        /\ lien[r.lien].account = Nil /\ lien'[r.lien].number = lien[r.lien].number + 1
        /\ \A a \in Customers : funds'[a] = funds[a] + Change(r.account, -1)[a]
  BY LienWrites
<1>8. call[p].writes = "release" =>
        /\ call[p].on = lien[r.lien].number
        /\ lien'[r.lien].account = Nil /\ lien'[r.lien].number = lien[r.lien].number
        /\ \A a \in Customers : funds'[a] = funds[a] + Change(r.account, 1)[a]
  BY LienWrites
<1>2. /\ <<"balance", r.account>> \notin c.held
      /\ call[p].writes = "place" => <<"account_lien_reference", r.lien>> \notin c.held
      /\ call[p].writes = "release" => <<"lien", <<r.lien, call[p].on>>>> \notin c.held
  BY EndOfLien
<1>3. \A k \in Created : RowKept(k)
  BY <1>1 DEF RowKept
<1>4. ASSUME NEW a \in Customers, <<"balance", a>> \in c.held
      PROVE  funds'[a] = funds[a]
  <2>1. a # r.account
    BY <1>2, <1>4
  <2>2. Change(r.account, -1)[a] = 0 /\ Change(r.account, 1)[a] = 0
    BY <2>1 DEF Change
  <2>3. funds[a] \in Int
    BY DEF TablesOK
  <2>4. funds'[a] = funds[a] + Change(r.account, -1)[a] \/ funds'[a] = funds[a] + Change(r.account, 1)[a]
    BY <1>7, <1>8
  <2> QED
    BY <2>2, <2>3, <2>4
<1>5. ASSUME NEW l \in LienReferences
      PROVE  /\ lien[l].number <= lien'[l].number
             /\ lien'[l].number = lien[l].number => lien'[l].account \in {lien[l].account, Nil}
             /\ <<"account_lien_reference", l>> \in c.held =>
                   /\ lien'[l].number = lien[l].number
                   /\ lien[l].account = Nil => lien'[l].account = Nil
             /\ <<"lien", Lien(l)>> \in c.held /\ lien[l].account # Nil => lien'[l] = lien[l]
  <2>1. lien[l].number \in Nat
    BY DEF TablesOK, LienType
  <2>2. CASE l # r.lien
    <3>1. lien'[l] = lien[l]
      BY <1>6, <2>2
    <3> QED
      BY <2>1, <3>1
  <2>3. CASE l = r.lien /\ call[p].writes = "place"
    <3>1. lien[l].account = Nil /\ lien'[l].number = lien[l].number + 1
      BY <1>7, <2>3
    <3> QED
      BY <1>2, <2>1, <2>3, <3>1
  <2>4. CASE l = r.lien /\ call[p].writes = "release"
    <3>1. lien'[l].account = Nil /\ lien'[l].number = lien[l].number /\ call[p].on = lien[l].number
      BY <1>8, <2>4
    <3> QED
      BY <1>2, <2>1, <2>4, <3>1 DEF Lien
  <2> QED
    BY <2>2, <2>3, <2>4
<1> QED
  BY <1>1, <1>3, <1>4, <1>5 DEF Undisturbed


-----------------------------------------------------------------------------
(***************************************************************************)
(* The invariant, part by part.                                            *)
(***************************************************************************)
LEMMA InvariantFacts ==
    ASSUME LInv
    PROVE  /\ TablesOK
           /\ \A q \in Running : /\ q \in Calls /\ call[q] \in Transaction /\ Knows(call[q])
                                 /\ call[q].request \in Request /\ call[q].todo \in Seq(Statement)
                                 /\ call[q].held \subseteq Lock /\ call[q].unseen \subseteq Keys
<1>1. TablesOK
  BY DEF LInv, LocksTypeOK, TablesOK, LienType
<1>2. \A q \in Running : q \in Calls /\ call[q] \in Transaction /\ Knows(call[q])
  BY DEF LInv, LocksTypeOK, Running
<1>3. \A c \in Transaction : /\ c.request \in Request /\ c.todo \in Seq(Statement)
                             /\ c.held \subseteq Lock /\ c.unseen \subseteq Keys
  BY DEF Transaction
<1> QED
  BY <1>1, <1>2, <1>3

LEMMA IdleIsNone == Idle \notin Transaction
<1>1. \A c \in Transaction : c.op # "idle"
  BY DEF Transaction
<1> QED
  BY <1>1 DEF Idle

\* What a transaction knows, it knows as long as no table changes.
LEMMA KnowsAsBefore ==
    ASSUME TablesOK, UNCHANGED <<transfers, lien, funds>>, NEW d, d.request \in Request, Knows(d)
    PROVE  Knows(d)'
<1> DEFINE z == <<"lock", Nil>>
<1>1. Past(d, d, z) /\ z[1] = "lock"
  BY DEF Past
<1>2. Undisturbed(d, d)
  BY NothingUndisturbs
<1>3. lien \in LienType /\ lien' \in LienType
  BY DEF TablesOK
<1>4. InOrder(d.todo)
  BY DEF Knows
<1> HIDE DEF z
<1> QED
  BY <1>1, <1>2, <1>3, <1>4, KnowsStays

\* A step of one transaction that writes nothing.
LEMMA OneStep ==
    ASSUME LInv, NEW p \in Calls, NEW d \in Transaction \cup {Idle}, call' = [call EXCEPT ![p] = d],
           UNCHANGED <<transfers, lien, funds>>,
           d # Idle => Knows(call[p])' /\ \A q \in Running \ {p} : d.held \cap call[q].held = {}
    PROVE  LInv'
<1>1. TablesOK /\ TablesOK'
  BY InvariantFacts DEF TablesOK, Created
<1>2. call'[p] = d /\ \A q \in Calls \ {p} : call'[q] = call[q]
  BY DEF LInv, LocksTypeOK
<1>3. call' \in [Calls -> Transaction \cup {Idle}]
  BY DEF LInv, LocksTypeOK
<1>4. \A q \in Running' : q # p => q \in Running /\ call'[q] = call[q]
  BY <1>2 DEF Running
<1>5. p \in Running' => d # Idle
  BY <1>2 DEF Running
<1>6. ASSUME NEW x \in Running', NEW y \in Running', x # y
      PROVE  call'[x].held \cap call'[y].held = {}
  <2>1. CASE x = p
    BY <1>2, <1>4, <1>5, <1>6, <2>1
  <2>2. CASE y = p
    BY <1>2, <1>4, <1>5, <1>6, <2>2
  <2>3. CASE x # p /\ y # p
    BY <1>4, <1>6, <2>3 DEF LInv
  <2> QED
    BY <2>1, <2>2, <2>3
<1>7. ASSUME NEW x \in Running' PROVE Knows(call[x])'
  <2>1. CASE x = p
    BY <1>5, <1>7, <2>1
  <2>2. CASE x # p
    <3>1. x \in Running /\ call'[x] = call[x]
      BY <1>4, <1>7, <2>2
    <3>2. call[x].request \in Request /\ Knows(call[x])
      BY <3>1, InvariantFacts
    <3> QED
      BY <1>1, <3>1, <3>2, KnowsAsBefore
  <2> QED
    BY <2>1, <2>2
<1> QED
  BY <1>1, <1>3, <1>6, <1>7 DEF LInv, LocksTypeOK, TablesOK, LienType

\* A step of one transaction that takes no lock.
LEMMA LookupStep ==
    ASSUME LInv, NEW p \in Running, NEW d \in Transaction, call' = [call EXCEPT ![p] = d],
           UNCHANGED <<transfers, lien, funds>>, Knows(d), d.held = call[p].held
    PROVE  LInv'
<1>1. p \in Calls /\ TablesOK /\ d.request \in Request
  BY InvariantFacts DEF Transaction
<1>2. call'[p] = d
  BY <1>1 DEF LInv, LocksTypeOK
<1>3. Knows(call[p])'
  BY <1>1, <1>2, KnowsAsBefore
<1>4. \A q \in Running \ {p} : d.held \cap call[q].held = {}
  BY DEF LInv
<1> QED
  BY <1>1, <1>3, <1>4, OneStep


LEMMA ChangesAreWhole ==
    ASSUME NEW r, NEW a \in Customers
    PROVE  CreatedFunds(r)[a] \in Int /\ \A status : SettledFunds(r, status)[a] \in Int
<1>1. /\ Change(r.account, 1)[a] \in Int /\ Change(r.account, -1)[a] \in Int
      /\ Change(r.clearing, 1)[a] \in Int /\ Change(r.clearing, -1)[a] \in Int
      /\ Change(Nil, 0)[a] \in Int
  BY DEF Change
<1>2. Moved(r.account, r.clearing)[a] \in Int /\ Moved(r.clearing, r.account)[a] \in Int
  BY <1>1 DEF Moved
<1>3. CreatedFunds(r)[a] \in Int
  BY <1>1, <1>2 DEF CreatedFunds
<1> QED
  BY <1>1, <1>2, <1>3 DEF SettledFunds

LEMMA CommitFacts ==
    ASSUME LInv, NEW p, Commit(p)
    PROVE  /\ TablesOK /\ p \in Running /\ Write(p) /\ call[p].todo = <<>> /\ Knows(call[p])
           /\ call[p].request \in Request
           /\ call[p].writes \in {"nothing", "create", "decline", "settle", "place", "release"}
<1>1. p \in Running /\ Write(p) /\ call[p].todo = <<>>
  BY DEF Commit
<1>2. call[p] \in Transaction
  BY <1>1, InvariantFacts
<1> QED
  BY <1>1, <1>2, InvariantFacts DEF Transaction

LEMMA CommitKeepsTables ==
    ASSUME LInv, NEW p, Commit(p)
    PROVE  TablesOK'
<1> DEFINE r == call[p].request
<1>1. /\ TablesOK /\ Write(p) /\ call[p].todo = <<>> /\ Knows(call[p]) /\ r \in Request
      /\ call[p].writes \in {"nothing", "create", "decline", "settle", "place", "release"}
  BY CommitFacts
<1>2. CASE call[p].writes = "nothing"
  BY <1>1, <1>2 DEF Write, TablesOK, Created
<1>3. CASE call[p].writes \in {"create", "decline"}
  <2>1. PICK row \in Row :
           /\ transfers' = [transfers EXCEPT ![r.key] = row] /\ Created' = Created \cup {r.key}
           /\ transfers'[r.key] = row /\ \A k \in Created : transfers'[k] = transfers[k]
           /\ Plain(row) /\ lien' = lien
    BY <1>1, <1>3, CreationWrites
  <2>2. transfers' \in [Keys -> Row \cup {NoRow}] /\ lien' \in LienType
    BY <1>1, <2>1 DEF TablesOK
  <2>3. \A k \in Created' : Plain(transfers'[k])
    BY <1>1, <2>1 DEF TablesOK
  <2>4. funds' = funds \/ Apply(CreatedFunds(r))
    BY <1>1, <1>3 DEF Write
  <2>5. funds' \in [Customers -> Int]
    BY <1>1, <2>4, ChangesAreWhole DEF TablesOK, Apply
  <2> QED
    BY <2>2, <2>3, <2>5 DEF TablesOK, Plain
<1>4. CASE call[p].writes = "settle"
  <2> DEFINE on == call[p].on
  <2>1. /\ transfers' = [transfers EXCEPT ![on] = SettledRow(transfers[on], r)] /\ Created' = Created
        /\ transfers[on] \in Row /\ on \in Keys /\ transfers'[on] = SettledRow(transfers[on], r)
        /\ \A k \in Keys : k # on => transfers'[k] = transfers[k]
        /\ SettledRow(transfers[on], r) \in Row /\ lien' = lien
    BY <1>1, <1>4, SettlingWrites
  <2>2. transfers' \in [Keys -> Row \cup {NoRow}] /\ lien' \in LienType
    BY <1>1, <2>1 DEF TablesOK
  <2>3. on \in Created /\ r.op \in {"record", "complete"}
    BY <1>1, <1>4, EndOfSettling
  <2>4. transfers'[on].reference = transfers[on].reference /\ transfers'[on].reversalOf = transfers[on].reversalOf
    BY <1>1, <2>1, <2>3, SettledRowFacts
  <2>5. ASSUME NEW k \in Created' PROVE Plain(transfers'[k])
    BY <1>1, <2>1, <2>3, <2>4, CreatedIsRow DEF TablesOK, Plain
  <2>6. Apply(SettledFunds(transfers[on], r.status))
    BY <1>1, <1>4 DEF Write
  <2>7. funds' \in [Customers -> Int]
    <3>1. \A a \in Customers : SettledFunds(transfers[on], r.status)[a] \in Int
      BY ChangesAreWhole
    <3> QED
      BY <1>1, <2>6, <3>1 DEF TablesOK, Apply
  <2> QED
    BY <2>2, <2>5, <2>7 DEF TablesOK, Plain
<1>5. CASE call[p].writes \in {"place", "release"}
  <2>1. transfers' = transfers /\ Created' = Created /\ lien' \in LienType
    BY <1>1, <1>5, LienWrites
  <2>2. Apply(Change(r.account, -1)) \/ Apply(Change(r.account, 1))
    BY <1>1, <1>5 DEF Write
  <2>3. \A a \in Customers : Change(r.account, -1)[a] \in Int /\ Change(r.account, 1)[a] \in Int
    BY DEF Change
  <2>4. funds' \in [Customers -> Int]
    BY <1>1, <2>2, <2>3 DEF TablesOK, Apply
  <2> QED
    BY <1>1, <2>1, <2>4 DEF TablesOK, Plain
<1> QED
  BY <1>1, <1>2, <1>3, <1>4, <1>5

LEMMA CommitUndisturbs ==
    ASSUME LInv, NEW p, Commit(p), NEW q \in Running, q # p
    PROVE  Undisturbed(call[q], call'[q])
<1> DEFINE c == call[q]
           d == [call[q] EXCEPT !.unseen = call[q].unseen \cup Unannounced(p)]
<1>1. /\ TablesOK /\ p \in Running /\ Write(p) /\ call[p].todo = <<>> /\ Knows(call[p])
      /\ call[p].request \in Request
      /\ call[p].writes \in {"nothing", "create", "decline", "settle", "place", "release"}
  BY CommitFacts
<1>2. call[p].held \cap call[q].held = {}
  BY <1>1 DEF LInv
<1>3. q \in Calls /\ call[q] \in Transaction
  BY InvariantFacts
<1>4. call'[q] = [call[q] EXCEPT !.unseen = call[q].unseen \cup Unannounced(p)]
  BY <1>3 DEF Commit
<1>5. Unannounced(p) \subseteq call'[q].unseen
  BY <1>3, <1>4 DEF Transaction
<1>6. CASE call[p].writes = "nothing"
  <2>1. UNCHANGED <<transfers, lien, funds>>
    BY <1>1, <1>6 DEF Write
  <2> QED
    BY <1>1, <2>1, NothingUndisturbs
<1>7. CASE call[p].writes \in {"create", "decline"}
  BY <1>1, <1>2, <1>5, <1>7, CreationUndisturbs
<1>8. CASE call[p].writes = "settle"
  BY <1>1, <1>2, <1>8, SettlingUndisturbs
<1>9. CASE call[p].writes \in {"place", "release"}
  BY <1>1, <1>2, <1>9, LienUndisturbs
<1> QED
  BY <1>1, <1>6, <1>7, <1>8, <1>9

LEMMA CommitKeeps ==
    ASSUME LInv, NEW p, Commit(p)
    PROVE  LInv'
<1>1. TablesOK /\ TablesOK'
  BY CommitFacts, CommitKeepsTables
<1>2. ASSUME NEW q \in Running, q # p
      PROVE  /\ call'[q] \in Transaction /\ call'[q].held = call[q].held /\ call'[q].todo = call[q].todo
             /\ call'[q].request = call[q].request /\ call'[q].on = call[q].on
             /\ call'[q].writes = call[q].writes /\ call[q].unseen \subseteq call'[q].unseen
  <2>1. q \in Calls /\ call[q] \in Transaction
    BY InvariantFacts
  <2>2. call'[q] = [call[q] EXCEPT !.unseen = call[q].unseen \cup Unannounced(p)]
    BY <1>2, <2>1 DEF Commit
  <2>3. Unannounced(p) \subseteq Keys
    BY DEF Unannounced
  <2> QED
    BY <2>1, <2>2, <2>3 DEF Transaction
<1>3. call' = [q \in Calls |-> call'[q]] /\ \A q \in Calls : q \notin Running \ {p} => call'[q] = Idle
  BY DEF Commit
<1>4. call' \in [Calls -> Transaction \cup {Idle}]
  <2>1. \A q \in Calls : call'[q] \in Transaction \cup {Idle}
    BY <1>2, <1>3
  <2> QED
    BY <1>3, <2>1
<1>5. \A q \in Running' : q \in Running /\ q # p
  BY <1>3 DEF Running
<1>6. \A x, y \in Running' : x # y => call'[x].held \cap call'[y].held = {}
  BY <1>2, <1>5 DEF LInv
<1>7. ASSUME NEW q \in Running' PROVE Knows(call[q])'
  <2> DEFINE z == <<"lock", Nil>>
  <2>1. q \in Running /\ q # p
    BY <1>5
  <2>2. Undisturbed(call[q], call'[q])
    BY <2>1, CommitUndisturbs
  <2>3. Past(call[q], call'[q], z) /\ z[1] = "lock"
    BY <1>2, <2>1 DEF Past, Secures
  <2>4. Knows(call[q]) /\ call[q].request \in Request
    BY <2>1, InvariantFacts
  <2>5. InOrder(call'[q].todo) /\ call'[q].writes = call[q].writes
    BY <1>2, <2>1, <2>4 DEF Knows
  <2>6. \A y : Still(call'[q].todo, y) /\ y[1] # "lock" => Still(call[q].todo, y)
    BY <1>2, <2>1
  <2>7. lien \in LienType /\ lien' \in LienType
    BY <1>1 DEF TablesOK
  <2> HIDE DEF z
  <2> QED
    BY <2>2, <2>3, <2>4, <2>5, <2>6, <2>7, KnowsStays
<1> QED
  BY <1>1, <1>4, <1>6, <1>7 DEF LInv, LocksTypeOK, TablesOK, LienType


LEMMA LockStatement ==
    ASSUME NEW y \in Statement, y[1] = "lock"
    PROVE  y = <<"lock", y[2]>> /\ y[2] \in Lock
<1>1. y \in {"lock"} \X Lock
  <2>1. \A S : /\ y \in {"find"} \X S => y[1] = "find"
               /\ y \in {"recheck pending", "recheck reversible"} \X S => y[1] # "lock"
               /\ y \in {"recheck lien"} \X S => y[1] # "lock"
               /\ y \in {"check funds"} \X S => y[1] # "lock"
    OBVIOUS
  <2> QED
    BY ONLY <2>1, y \in Statement, y[1] = "lock" DEF Statement
<1> QED
  BY <1>1

LEMMA BeginKeeps ==
    ASSUME LInv, NEW p \in Calls, NEW r \in Requests, Begin(p, r)
    PROVE  LInv'
<1> DEFINE number == IF r.op = "release" THEN lien[r.lien].number ELSE Nil
           d == [op |-> r.op, request |-> r, todo |-> Statements(r), held |-> {}, writes |-> Intends(r),
                 on |-> number, unseen |-> {}]
<1>1. TablesOK /\ r \in Request
  BY InvariantFacts, LocksAssumption
<1>2. /\ call' = [call EXCEPT ![p] = d] /\ UNCHANGED <<transfers, lien, funds>>
      /\ r.op \in {"complete", "reverse"} => r.transfer \in Created
      /\ r.op = "release" => lien[r.lien].account = r.account
  BY DEF Begin
<1>3. r.op \in {"record", "complete", "reverse", "review", "control", "place", "release"}
      /\ (r.op = "release" => r.lien \in LienReferences)
  BY <1>1, RequestFacts
<1>4. number \in Nat \cup {Nil}
  BY <1>1, <1>3 DEF TablesOK, LienType
<1>5. Intends(r) \in {"nothing", "create", "decline", "settle", "place", "release"}
  BY <1>3 DEF Intends
<1>6. Starts(d, r)
  BY <1>2 DEF Starts
<1>7. Knows(d) /\ d.todo \in Seq(Statement)
  <2>1. lien \in LienType
    BY <1>1 DEF TablesOK
  <2> HIDE DEF d
  <2> QED
    BY <1>6, <2>1, TransactionBegins
<1>8. d \in Transaction
  <2>1. Statements(r) \in Seq(Statement)
    BY <1>7
  <2> HIDE DEF number
  <2> QED
    BY <1>1, <1>3, <1>4, <1>5, <2>1 DEF Transaction
<1>9. d.held = {} /\ d.request = r
  OBVIOUS
<1> HIDE DEF d
<1>10. call'[p] = d
  BY <1>2 DEF LInv, LocksTypeOK
<1>11. Knows(call[p])'
  BY <1>1, <1>2, <1>7, <1>9, <1>10, KnowsAsBefore
<1> QED
  BY <1>2, <1>8, <1>9, <1>11, OneStep

LEMMA EndKeeps ==
    ASSUME LInv, NEW p \in Calls, AbortDeadlocked(p) \/ Cancel(p)
    PROVE  LInv'
<1>1. call' = [call EXCEPT ![p] = Idle] /\ UNCHANGED <<transfers, lien, funds>>
  BY DEF AbortDeadlocked, Cancel
<1> QED
  BY <1>1, OneStep

LEMMA TakeLockKeeps ==
    ASSUME LInv, NEW p \in Calls, TakeLock(p)
    PROVE  LInv'
<1> DEFINE c == call[p]
           y == Head(call[p].todo)
           d == [call[p] EXCEPT !.todo = Tail(call[p].todo), !.held = call[p].held \cup {Argument(p)}]
<1>1. /\ p \in Running /\ c.todo # <<>> /\ y[1] = "lock" /\ Free(p, Argument(p))
      /\ call' = [call EXCEPT ![p] = d] /\ UNCHANGED <<transfers, lien, funds>>
  BY DEF TakeLock, Doing
<1>2. /\ TablesOK /\ c \in Transaction /\ Knows(c) /\ c.request \in Request /\ c.todo \in Seq(Statement)
  BY <1>1, InvariantFacts
<1>3. y \in Statement /\ Tail(c.todo) \in Seq(Statement)
  BY <1>1, <1>2, HeadTailProperties
<1>4. y = <<"lock", Argument(p)>> /\ Argument(p) \in Lock
  BY <1>1, <1>3, LockStatement DEF Argument
<1>5. d \in Transaction
  BY <1>2, <1>3, <1>4 DEF Transaction
<1>6. /\ d.request = c.request /\ d.on = c.on /\ d.unseen = c.unseen /\ d.writes = c.writes
      /\ d.todo = Tail(c.todo) /\ d.held = c.held \cup {Argument(p)}
  BY <1>2 DEF Transaction
<1>7. \A x : Still(c.todo, x) <=> x = y \/ Still(d.todo, x)
  BY <1>1, <1>2, <1>6, StillHead
<1>8. InOrder(d.todo)
  BY <1>1, <1>2, <1>6, OrderHead DEF Knows
<1>9. call'[p] = d
  BY <1>1 DEF LInv, LocksTypeOK
<1> HIDE DEF d, y
<1>10. Past(c, d, y)
  BY <1>4, <1>6, <1>7 DEF Past, Secures
<1>11. Undisturbed(c, call'[p]) /\ Past(c, call'[p], y) /\ InOrder(call'[p].todo) /\ call'[p].writes = c.writes
  BY <1>1, <1>2, <1>6, <1>8, <1>9, <1>10, NothingUndisturbs
<1>12. \A x : Still(call'[p].todo, x) /\ x[1] # "lock" => Still(c.todo, x)
  BY <1>7, <1>9
<1>13. lien \in LienType /\ lien' \in LienType
  BY <1>1, <1>2 DEF TablesOK
<1>14. Knows(call[p])'
  BY <1>1, <1>2, <1>11, <1>12, <1>13, KnowsStays
<1>15. \A q \in Running \ {p} : d.held \cap call[q].held = {}
  BY <1>1, <1>6 DEF Free, LInv
<1> QED
  BY <1>1, <1>5, <1>14, <1>15, OneStep


-----------------------------------------------------------------------------
(***************************************************************************)
(* The lookups as steps.                                                   *)
(***************************************************************************)
LEMMA StatementIsPair ==
    ASSUME NEW y \in Statement
    PROVE  y = <<y[1], y[2]>>
<1>1. \A S, T : y \in S \X T => y = <<y[1], y[2]>>
  OBVIOUS
<1> QED
  BY ONLY <1>1, y \in Statement DEF Statement

LEMMA LookupFacts ==
    ASSUME LInv, NEW p \in Calls, NEW kind, Doing(p, kind), kind # "lock"
    PROVE  /\ TablesOK /\ p \in Running /\ call[p] \in Transaction /\ Knows(call[p])
           /\ call[p].request \in Request /\ call[p].todo \in Seq(Statement) /\ call[p].todo # <<>>
           /\ Tail(call[p].todo) \in Seq(Statement)
           /\ Head(call[p].todo) = <<kind, Argument(p)>>
           /\ <<kind, Argument(p)>> \in Lookups(call[p])
<1> DEFINE c == call[p]
<1>1. p \in Running /\ c.todo # <<>> /\ Head(c.todo)[1] = kind
  BY DEF Doing
<1>2. TablesOK /\ c \in Transaction /\ Knows(c) /\ c.request \in Request /\ c.todo \in Seq(Statement)
  BY <1>1, InvariantFacts
<1>3. Head(c.todo) \in Statement /\ Tail(c.todo) \in Seq(Statement)
  BY <1>1, <1>2, HeadTailProperties
<1>4. Head(c.todo) = <<kind, Argument(p)>>
  BY <1>1, <1>3, StatementIsPair DEF Argument
<1>5. Head(c.todo) = c.todo[1] /\ 1 \in 1..Len(c.todo)
  BY <1>1, <1>2, EmptySeq, LenProperties, HeadTailProperties
<1>6. c.todo[1] \in Lookups(c)
  BY <1>1, <1>2, <1>5 DEF Knows
<1> QED
  BY <1>1, <1>2, <1>3, <1>4, <1>5, <1>6

\* Which transaction does which lookup.
LEMMA WhoLooksUp ==
    ASSUME NEW c, NEW kind, NEW x, <<kind, x>> \in Lookups(c), c.request \in Request
    PROVE  /\ kind = "find" /\ x \in {"key", "event"} => c.request.op \in {"record", "review"}
           /\ kind = "find" /\ x \in {"pending", "settled"} => c.request.op = "record"
           /\ kind = "find" /\ x = "lien" => c.request.op = "place"
           /\ kind = "recheck pending" => c.request.op \in {"record", "complete"}
           /\ kind = "recheck reversible" => c.request.op = "reverse"
           /\ kind = "recheck lien" => c.request.op \in {"place", "release"}
           /\ kind = "check funds" => c.request.op \in {"record", "place"}
           /\ kind = "find" => x \in {"key", "event", "pending", "settled", "lien"}
<1>1. c.request.op \in {"record", "complete", "reverse", "review", "control", "place", "release"}
  BY RequestFacts
<1>2. CASE c.request.op = "record"
  <2> DEFINE h == <<kind, x>>
  <2>1. h[1] = kind /\ h[2] = x /\ h \in Lookups(c)
    OBVIOUS
  <2> HIDE DEF h
  <2>2. \/ h = <<"find", "key">> \/ h = <<"find", "event">>
        \/ h \in {<<"find", "pending">>, <<"find", "settled">>}
        \/ \E k : h = <<"recheck pending", k>>
        \/ h = <<"check funds", c.request.account>>
    BY <1>2, <2>1, LookupsOfRecord
  <2>3. \/ h[1] = "find" /\ h[2] \in {"key", "event", "pending", "settled"}
        \/ h[1] = "recheck pending" \/ h[1] = "check funds"
    <3>1. \A a, b : h = <<a, b>> => h[1] = a /\ h[2] = b
      OBVIOUS
    <3> QED
      BY ONLY <2>2, <3>1
  <2> QED
    BY <1>2, <2>1, <2>3
<1>3. CASE c.request.op = "complete"
  BY <1>3 DEF Lookups
<1>4. CASE c.request.op = "reverse"
  BY <1>4 DEF Lookups
<1>5. CASE c.request.op = "review"
  BY <1>5 DEF Lookups
<1>6. CASE c.request.op = "place"
  <2> DEFINE h == <<kind, x>>
  <2>1. h[1] = kind /\ h[2] = x /\ h \in Lookups(c)
    OBVIOUS
  <2> HIDE DEF h
  <2>2. \/ h = <<"find", "lien">> \/ h = <<"check funds", c.request.account>>
        \/ h = <<"recheck lien", Lien(c.request.lien)>>
    BY <1>6, <2>1, LookupsOfPlace
  <2>3. \/ h[1] = "find" /\ h[2] = "lien"
        \/ h[1] = "check funds" \/ h[1] = "recheck lien"
    <3>1. \A a, b : h = <<a, b>> => h[1] = a /\ h[2] = b
      OBVIOUS
    <3> QED
      BY ONLY <2>2, <3>1
  <2> QED
    BY <1>6, <2>1, <2>3
<1>7. CASE c.request.op = "release"
  BY <1>7 DEF Lookups
<1>8. CASE c.request.op = "control"
  BY <1>8 DEF Lookups
<1> QED
  BY <1>1, <1>2, <1>3, <1>4, <1>5, <1>6, <1>7, <1>8

\* d is c with other statements to do.
Turns(c, d, todo) ==
    d.request = c.request /\ d.held = c.held /\ d.unseen = c.unseen /\ d.todo = todo

LEMMA ProceedsTo ==
    ASSUME LInv, NEW p \in Running, NEW todo, Proceed(p, todo)
    PROVE  \E d : /\ call' = [call EXCEPT ![p] = d] /\ UNCHANGED <<transfers, lien, funds>>
                  /\ Turns(call[p], d, todo) /\ d.writes = call[p].writes /\ d.on = call[p].on
                  /\ todo \in Seq(Statement) => d \in Transaction
<1> DEFINE d == [call[p] EXCEPT !.todo = todo]
<1>1. call' = [call EXCEPT ![p] = d] /\ UNCHANGED <<transfers, lien, funds>>
  BY DEF Proceed
<1>2. call[p] \in Transaction
  BY InvariantFacts
<1>3. Turns(call[p], d, todo) /\ d.writes = call[p].writes /\ d.on = call[p].on
  BY <1>2 DEF Transaction, Turns
<1>4. todo \in Seq(Statement) => d \in Transaction
  BY <1>2 DEF Transaction
<1> QED
  BY <1>1, <1>3, <1>4

LEMMA StopsWith ==
    ASSUME LInv, NEW p \in Running, NEW todo, WriteNothing(p, todo)
    PROVE  \E d : /\ call' = [call EXCEPT ![p] = d] /\ UNCHANGED <<transfers, lien, funds>>
                  /\ Turns(call[p], d, todo) /\ d.writes = "nothing" /\ d.on = call[p].on
                  /\ todo \in Seq(Statement) => d \in Transaction
<1> DEFINE d == [call[p] EXCEPT !.todo = todo, !.writes = "nothing"]
<1>1. call' = [call EXCEPT ![p] = d] /\ UNCHANGED <<transfers, lien, funds>>
  BY DEF WriteNothing
<1>2. call[p] \in Transaction
  BY InvariantFacts
<1>3. Turns(call[p], d, todo) /\ d.writes = "nothing" /\ d.on = call[p].on
  BY <1>2 DEF Transaction, Turns
<1>4. todo \in Seq(Statement) => d \in Transaction
  BY <1>2 DEF Transaction
<1> QED
  BY <1>1, <1>3, <1>4

\* The lookup finds nothing: the rest of the statements is left.
LEMMA Continues ==
    ASSUME LInv, NEW p \in Calls, NEW kind, Doing(p, kind), kind # "lock", Continue(p)
    PROVE  \E d \in Transaction :
              /\ call' = [call EXCEPT ![p] = d] /\ UNCHANGED <<transfers, lien, funds>>
              /\ Turns(call[p], d, Tail(call[p].todo))
              /\ GoesOn(call[p], d, <<kind, Argument(p)>>)
<1> DEFINE c == call[p]
           h == <<kind, Argument(p)>>
<1>1. /\ p \in Running /\ Knows(c) /\ c.request \in Request /\ c.todo \in Seq(Statement) /\ c.todo # <<>>
      /\ Tail(c.todo) \in Seq(Statement) /\ Head(c.todo) = h
  BY LookupFacts
<1>2. h[1] # "lock"
  OBVIOUS
<1>3. PICK d : /\ call' = [call EXCEPT ![p] = d] /\ UNCHANGED <<transfers, lien, funds>>
               /\ Turns(c, d, Tail(c.todo)) /\ d.writes = c.writes /\ d.on = c.on /\ d \in Transaction
  BY <1>1, ProceedsTo DEF Continue
<1> HIDE DEF h
<1>4. GoesOn(c, d, h)
  BY <1>1, <1>2, <1>3 DEF GoesOn, LooksUp, Turns
<1> QED
  BY <1>3, <1>4 DEF h

\* It stops here.
LEMMA Stops ==
    ASSUME LInv, NEW p \in Calls, NEW kind, Doing(p, kind), kind # "lock",
           NEW todo \in Seq(Statement), WriteNothing(p, todo)
    PROVE  \E d \in Transaction :
              /\ call' = [call EXCEPT ![p] = d] /\ UNCHANGED <<transfers, lien, funds>>
              /\ Turns(call[p], d, todo) /\ d.writes = "nothing" /\ d.on = call[p].on
              /\ LooksUp(call[p], d, <<kind, Argument(p)>>)
<1> DEFINE c == call[p]
           h == <<kind, Argument(p)>>
<1>1. /\ p \in Running /\ Knows(c) /\ c.request \in Request /\ c.todo \in Seq(Statement) /\ c.todo # <<>>
      /\ Head(c.todo) = h
  BY LookupFacts
<1>2. h[1] # "lock"
  OBVIOUS
<1>3. PICK d : /\ call' = [call EXCEPT ![p] = d] /\ UNCHANGED <<transfers, lien, funds>>
               /\ Turns(c, d, todo) /\ d.writes = "nothing" /\ d.on = c.on /\ d \in Transaction
  BY <1>1, StopsWith
<1> HIDE DEF h
<1>4. LooksUp(c, d, h)
  BY <1>1, <1>2, <1>3 DEF LooksUp, Turns
<1> QED
  BY <1>3, <1>4 DEF h

\* It first takes a lock and looks again.
LEMMA LooksAgain ==
    ASSUME LInv, NEW p \in Calls, NEW kind, Doing(p, kind), kind # "lock",
           NEW x \in Statement, NEW y \in Statement, Proceed(p, <<x, y>> \o Tail(call[p].todo))
    PROVE  \E d \in Transaction :
              /\ call' = [call EXCEPT ![p] = d] /\ UNCHANGED <<transfers, lien, funds>>
              /\ d.held = call[p].held /\ DoesFirst(call[p], d, x, y)
              /\ GoesOn(call[p], d, <<kind, Argument(p)>>)
<1> DEFINE c == call[p]
           h == <<kind, Argument(p)>>
           todo == <<x, y>> \o Tail(c.todo)
<1>1. /\ p \in Running /\ Knows(c) /\ c.request \in Request /\ c.todo \in Seq(Statement) /\ c.todo # <<>>
      /\ Tail(c.todo) \in Seq(Statement) /\ Head(c.todo) = h
  BY LookupFacts
<1>2. h[1] # "lock"
  OBVIOUS
<1>3. PICK d : /\ call' = [call EXCEPT ![p] = d] /\ UNCHANGED <<transfers, lien, funds>>
               /\ Turns(c, d, todo) /\ d.writes = c.writes /\ d.on = c.on
               /\ todo \in Seq(Statement) => d \in Transaction
  BY <1>1, ProceedsTo
<1>4. DoesFirst(c, d, x, y)
  BY <1>3 DEF DoesFirst, Turns
<1>5. d.todo \in Seq(Statement) /\ \A z : Still(d.todo, z) <=> z \in {x, y} \/ Still(Tail(c.todo), z)
  BY <1>1, <1>4, InsertStill
<1>6. d \in Transaction
  BY <1>3, <1>5 DEF Turns
<1> HIDE DEF h, todo
<1>7. GoesOn(c, d, h)
  BY <1>1, <1>2, <1>3, <1>5 DEF GoesOn, LooksUp, Turns
<1> QED
  BY <1>3, <1>4, <1>6, <1>7 DEF h, Turns


LEMMA FindKeyKeeps ==
    ASSUME LInv, NEW p \in Calls, Doing(p, "find"), Argument(p) = "key",
           IF call[p].request.key \in Created THEN WriteNothing(p, <<Take("transfer", call[p].request.key)>>)
           ELSE Continue(p)
    PROVE  LInv'
<1> DEFINE c == call[p]
           r == call[p].request
           lock == Take("transfer", call[p].request.key)
           h == <<"find", "key">>
<1>1. p \in Running /\ r \in Request /\ r.op \in {"record", "review"}
  BY LookupFacts, WhoLooksUp
<1>2. CASE r.key \in Created
  <2>1. <<lock>> \in Seq(Statement)
    BY <1>1, RequestFacts, StatementFacts, OneFacts DEF OrderedTo
  <2>2. WriteNothing(p, <<lock>>)
    BY <1>2
  <2>3. PICK d \in Transaction :
           /\ call' = [call EXCEPT ![p] = d] /\ UNCHANGED <<transfers, lien, funds>>
           /\ Turns(c, d, <<lock>>) /\ d.writes = "nothing" /\ LooksUp(c, d, h)
    BY <2>1, <2>2, Stops
  <2>4. d.todo = <<Take("transfer", r.key)>> /\ d.held = c.held
    BY <2>3 DEF Turns
  <2> HIDE DEF h, lock
  <2>5. CASE r.op = "record"
    <3>1. Knows(d)
      BY <1>2, <2>3, <2>4, <2>5, RecordFindsKey DEF h
    <3> QED
      BY <1>1, <2>3, <2>4, <3>1, LookupStep
  <2>6. CASE r.op = "review"
    <3>1. Replayed(r) /\ h \in {<<"find", "key">>, <<"find", "event">>}
      BY <1>2 DEF Replayed, h
    <3>2. Knows(d)
      BY <2>3, <2>4, <2>6, <3>1, ReviewLooksUp
    <3> QED
      BY <1>1, <2>3, <2>4, <3>2, LookupStep
  <2> QED
    BY <1>1, <2>5, <2>6
<1>3. CASE r.key \notin Created
  <2>1. PICK d \in Transaction :
           /\ call' = [call EXCEPT ![p] = d] /\ UNCHANGED <<transfers, lien, funds>>
           /\ Turns(c, d, Tail(c.todo)) /\ GoesOn(c, d, h)
    BY <1>3, Continues
  <2>2. d.todo = Tail(c.todo) /\ d.held = c.held
    BY <2>1 DEF Turns
  <2>3. LooksUp(c, d, h)
    BY <2>1 DEF GoesOn
  <2> HIDE DEF h
  <2>4. CASE r.op = "record"
    <3>1. Knows(d)
      BY <1>3, <2>1, <2>2, <2>3, <2>4, RecordFindsKey DEF h
    <3> QED
      BY <1>1, <2>1, <2>2, <3>1, LookupStep
  <2>5. CASE r.op = "review"
    <3>1. h \in {<<"find", "key">>, <<"find", "event">>} /\ h = <<"find", "key">>
      BY DEF h
    <3>2. Knows(d)
      BY <1>3, <2>1, <2>2, <2>3, <2>5, <3>1, ReviewLooksUp
    <3> QED
      BY <1>1, <2>1, <2>2, <3>2, LookupStep
  <2> QED
    BY <1>1, <2>4, <2>5
<1> QED
  BY <1>2, <1>3

LEMMA FindEventKeeps ==
    ASSUME LInv, NEW p \in Calls, Doing(p, "find"), Argument(p) = "event",
           IF \E k \in Created : call[p].request.event \in transfers[k].events THEN WriteNothing(p, <<>>)
           ELSE Continue(p)
    PROVE  LInv'
<1> DEFINE c == call[p]
           r == call[p].request
           seen == \E k \in Created : call[p].request.event \in transfers[k].events
           h == <<"find", "event">>
<1>1. p \in Running /\ r \in Request /\ r.op \in {"record", "review"}
  BY LookupFacts, WhoLooksUp
<1>2. CASE seen
  <2>1. <<>> \in Seq(Statement)
    BY EmptySeq
  <2>2. WriteNothing(p, <<>>)
    BY <1>2
  <2>3. PICK d \in Transaction :
           /\ call' = [call EXCEPT ![p] = d] /\ UNCHANGED <<transfers, lien, funds>>
           /\ Turns(c, d, <<>>) /\ d.writes = "nothing" /\ LooksUp(c, d, h)
    BY <2>1, <2>2, Stops
  <2>4. d.todo = <<>> /\ d.held = c.held
    BY <2>3 DEF Turns
  <2> HIDE DEF h
  <2>5. CASE r.op = "record"
    <3>1. Knows(d)
      BY <1>2, <2>3, <2>4, <2>5, RecordFindsEvent DEF h
    <3> QED
      BY <1>1, <2>3, <2>4, <3>1, LookupStep
  <2>6. CASE r.op = "review"
    <3>1. Replayed(r) /\ h \in {<<"find", "key">>, <<"find", "event">>}
      BY <1>2 DEF Replayed, h
    <3>2. Knows(d)
      BY <2>3, <2>4, <2>6, <3>1, ReviewLooksUp
    <3> QED
      BY <1>1, <2>3, <2>4, <3>2, LookupStep
  <2> QED
    BY <1>1, <2>5, <2>6
<1>3. CASE ~seen
  <2>1. PICK d \in Transaction :
           /\ call' = [call EXCEPT ![p] = d] /\ UNCHANGED <<transfers, lien, funds>>
           /\ Turns(c, d, Tail(c.todo)) /\ GoesOn(c, d, h)
    BY <1>3, Continues
  <2>2. d.todo = Tail(c.todo) /\ d.held = c.held
    BY <2>1 DEF Turns
  <2>3. LooksUp(c, d, h)
    BY <2>1 DEF GoesOn
  <2> HIDE DEF h
  <2>4. CASE r.op = "record"
    <3>1. Knows(d)
      BY <1>3, <2>1, <2>2, <2>3, <2>4, RecordFindsEvent DEF h
    <3> QED
      BY <1>1, <2>1, <2>2, <3>1, LookupStep
  <2>5. CASE r.op = "review"
    <3>1. h \in {<<"find", "key">>, <<"find", "event">>} /\ h = <<"find", "event">>
      BY DEF h
    <3>2. Knows(d)
      BY <1>3, <2>1, <2>2, <2>3, <2>5, <3>1, ReviewLooksUp
    <3> QED
      BY <1>1, <2>1, <2>2, <3>2, LookupStep
  <2> QED
    BY <1>1, <2>4, <2>5
<1> QED
  BY <1>2, <1>3

LEMMA FindPendingKeeps ==
    ASSUME LInv, NEW p \in Calls, Doing(p, "find"), Argument(p) = "pending",
           IF PendingWith(call[p].request) = {} THEN Continue(p)
           ELSE \E k \in PendingWith(call[p].request) :
                   Proceed(p, <<Take("transfer", k), <<"recheck pending", k>>>> \o Tail(call[p].todo))
    PROVE  LInv'
<1> DEFINE c == call[p]
           r == call[p].request
           h == <<"find", "pending">>
<1>1. p \in Running /\ r \in Request /\ r.op = "record"
  BY LookupFacts, WhoLooksUp
<1>2. CASE PendingWith(r) = {}
  <2>1. PICK d \in Transaction :
           /\ call' = [call EXCEPT ![p] = d] /\ UNCHANGED <<transfers, lien, funds>>
           /\ Turns(c, d, Tail(c.todo)) /\ GoesOn(c, d, h)
    BY <1>2, Continues
  <2>2. d.todo = Tail(c.todo) /\ d.held = c.held
    BY <2>1 DEF Turns
  <2>3. Knows(d)
    BY <1>1, <1>2, <2>1, <2>2, RecordFindsPending
  <2> QED
    BY <1>1, <2>1, <2>2, <2>3, LookupStep
<1>3. CASE PendingWith(r) # {}
  <2>1. PICK k \in PendingWith(r) :
           Proceed(p, <<Take("transfer", k), <<"recheck pending", k>>>> \o Tail(c.todo))
    BY <1>3
  <2>2. Take("transfer", k) \in Statement /\ <<"recheck pending", k>> \in Statement
    BY StatementFacts DEF PendingWith, WithReference, Created
  <2>3. PICK d \in Transaction :
           /\ call' = [call EXCEPT ![p] = d] /\ UNCHANGED <<transfers, lien, funds>>
           /\ d.held = c.held /\ DoesFirst(c, d, Take("transfer", k), <<"recheck pending", k>>)
           /\ GoesOn(c, d, h)
    BY <2>1, <2>2, LooksAgain
  <2>4. Knows(d)
    BY <1>1, <2>3, RecordFindsPending
  <2> QED
    BY <1>1, <2>3, <2>4, LookupStep
<1> QED
  BY <1>2, <1>3

LEMMA FindSettledKeeps ==
    ASSUME LInv, NEW p \in Calls, Doing(p, "find"), Argument(p) = "settled",
           IF SettledWith(call[p].request) = {} THEN Continue(p)
           ELSE \E k \in SettledWith(call[p].request) : WriteNothing(p, <<Take("transfer", k)>>)
    PROVE  LInv'
<1> DEFINE c == call[p]
           r == call[p].request
           h == <<"find", "settled">>
<1>1. p \in Running /\ r \in Request /\ r.op = "record"
  BY LookupFacts, WhoLooksUp
<1>2. CASE SettledWith(r) = {}
  <2>1. PICK d \in Transaction :
           /\ call' = [call EXCEPT ![p] = d] /\ UNCHANGED <<transfers, lien, funds>>
           /\ Turns(c, d, Tail(c.todo)) /\ GoesOn(c, d, h)
    BY <1>2, Continues
  <2>2. d.todo = Tail(c.todo) /\ d.held = c.held /\ LooksUp(c, d, h)
    BY <2>1 DEF Turns, GoesOn
  <2>3. Knows(d)
    BY <1>1, <1>2, <2>1, <2>2, RecordFindsSettled
  <2> QED
    BY <1>1, <2>1, <2>2, <2>3, LookupStep
<1>3. CASE SettledWith(r) # {}
  <2>1. PICK k \in SettledWith(r) : WriteNothing(p, <<Take("transfer", k)>>)
    BY <1>3
  <2>2. <<Take("transfer", k)>> \in Seq(Statement)
    BY StatementFacts, OneFacts DEF SettledWith, WithReference, Created, OrderedTo
  <2>3. PICK d \in Transaction :
           /\ call' = [call EXCEPT ![p] = d] /\ UNCHANGED <<transfers, lien, funds>>
           /\ Turns(c, d, <<Take("transfer", k)>>) /\ d.writes = "nothing" /\ LooksUp(c, d, h)
    BY <2>1, <2>2, Stops
  <2>4. d.todo = <<Take("transfer", k)>> /\ d.held = c.held
    BY <2>3 DEF Turns
  <2>5. Knows(d)
    BY <1>1, <2>3, <2>4, RecordFindsSettled
  <2> QED
    BY <1>1, <2>3, <2>4, <2>5, LookupStep
<1> QED
  BY <1>2, <1>3

LEMMA FindLienKeeps ==
    ASSUME LInv, NEW p \in Calls, Doing(p, "find"), Argument(p) = "lien",
           IF lien[call[p].request.lien].account = Nil THEN Continue(p)
           ELSE Proceed(p, <<Take("lien", Lien(call[p].request.lien)),
                             <<"recheck lien", Lien(call[p].request.lien)>>>> \o Tail(call[p].todo))
    PROVE  LInv'
<1> DEFINE c == call[p]
           r == call[p].request
           h == <<"find", "lien">>
           x == Take("lien", Lien(call[p].request.lien))
           y == <<"recheck lien", Lien(call[p].request.lien)>>
<1>1. /\ p \in Running /\ r \in Request /\ r.op = "place" /\ lien \in LienType
  BY LookupFacts, WhoLooksUp DEF TablesOK
<1>2. CASE lien[r.lien].account = Nil
  <2>1. PICK d \in Transaction :
           /\ call' = [call EXCEPT ![p] = d] /\ UNCHANGED <<transfers, lien, funds>>
           /\ Turns(c, d, Tail(c.todo)) /\ GoesOn(c, d, h)
    BY <1>2, Continues
  <2>2. d.todo = Tail(c.todo) /\ d.held = c.held
    BY <2>1 DEF Turns
  <2>3. Knows(d)
    BY <1>1, <1>2, <2>1, <2>2, PlaceFindsLien
  <2> QED
    BY <1>1, <2>1, <2>2, <2>3, LookupStep
<1>3. CASE lien[r.lien].account # Nil
  <2>1. Proceed(p, <<x, y>> \o Tail(c.todo))
    BY <1>3
  <2>2. Lien(r.lien) \in LienReferences \X Nat
    BY <1>1, RequestFacts DEF LienType, Lien
  <2>3. x \in Statement /\ y \in Statement
    BY <2>2, StatementFacts
  <2>4. PICK d \in Transaction :
           /\ call' = [call EXCEPT ![p] = d] /\ UNCHANGED <<transfers, lien, funds>>
           /\ d.held = c.held /\ DoesFirst(c, d, x, y) /\ GoesOn(c, d, h)
    BY <2>1, <2>3, LooksAgain
  <2>5. Knows(d)
    BY <1>1, <2>4, PlaceFindsLien
  <2> QED
    BY <1>1, <2>4, <2>5, LookupStep
<1> QED
  BY <1>2, <1>3

LEMMA FindKeeps ==
    ASSUME LInv, NEW p \in Calls, Find(p)
    PROVE  LInv'
<1>1. Doing(p, "find") /\ Argument(p) \in {"key", "event", "pending", "settled", "lien"}
  BY DEF Find
<1>2. CASE Argument(p) = "key"
  BY <1>1, <1>2, FindKeyKeeps DEF Find
<1>3. CASE Argument(p) = "event"
  BY <1>1, <1>3, FindEventKeeps DEF Find
<1>4. CASE Argument(p) = "pending"
  BY <1>1, <1>4, FindPendingKeeps DEF Find
<1>5. CASE Argument(p) = "settled"
  BY <1>1, <1>5, FindSettledKeeps DEF Find
<1>6. CASE Argument(p) = "lien"
  BY <1>1, <1>6, FindLienKeeps DEF Find
<1> QED
  BY <1>1, <1>2, <1>3, <1>4, <1>5, <1>6


LEMMA SettleStep ==
    ASSUME LInv, NEW p \in Calls, Doing(p, "recheck pending"), NEW k, k = Argument(p), Settle(p, k)
    PROVE  \E d : /\ call' = [call EXCEPT ![p] = d] /\ UNCHANGED <<transfers, lien, funds>>
                  /\ d.held = call[p].held /\ SettlesNext(call[p], d, k)
                  /\ LooksUp(call[p], d, <<"recheck pending", k>>)
                  /\ d.todo \in Seq(Statement) /\ k \in Keys => d \in Transaction
<1> DEFINE c == call[p]
           h == <<"recheck pending", k>>
           row == transfers[k]
           accounts == IF c.request.status = "pending" /\ ~row.outbound
                       THEN AccountBalance(row.account)
                       ELSE TransferAccountBalances(row.account, row.clearing)
           todo == accounts \o When(row.outbound, <<Take("hold", k)>>)
           d == [call[p] EXCEPT !.todo = todo, !.writes = "settle", !.on = k]
<1>1. /\ c \in Transaction /\ Knows(c) /\ c.request \in Request /\ c.todo \in Seq(Statement) /\ c.todo # <<>>
      /\ Head(c.todo) = h
  BY LookupFacts
<1>2. h[1] # "lock"
  OBVIOUS
<1>3. call' = [call EXCEPT ![p] = d] /\ UNCHANGED <<transfers, lien, funds>>
  BY DEF Settle
<1>4. /\ d.request = c.request /\ d.held = c.held /\ d.unseen = c.unseen /\ d.todo = todo
      /\ d.writes = "settle" /\ d.on = k
  <2> HIDE DEF todo
  <2> QED
    BY <1>1 DEF Transaction
<1>5. SettlesNext(c, d, k)
  <2> HIDE DEF d
  <2> QED
    BY <1>4 DEF SettlesNext
<1>6. d.todo \in Seq(Statement) /\ k \in Keys => d \in Transaction
  <2>1. todo \in Seq(Statement) /\ k \in Keys => d \in Transaction
    <3> HIDE DEF todo
    <3> QED
      BY <1>1 DEF Transaction
  <2> HIDE DEF d
  <2> QED
    BY <1>4, <2>1
<1> HIDE DEF h, d
<1>7. LooksUp(c, d, h)
  BY <1>1, <1>2, <1>4 DEF LooksUp
<1> QED
  BY <1>3, <1>4, <1>5, <1>6, <1>7 DEF h

LEMMA RecheckPendingKeeps ==
    ASSUME LInv, NEW p \in Calls, RecheckPending(p)
    PROVE  LInv'
<1> DEFINE c == call[p]
           r == call[p].request
           k == Argument(p)
           h == <<"recheck pending", Argument(p)>>
<1>1. Doing(p, "recheck pending")
  BY DEF RecheckPending
<1>2. /\ p \in Running /\ r \in Request /\ r.op \in {"record", "complete"} /\ TablesOK /\ Knows(c)
      /\ \A j \in Created : j \in Keys /\ transfers[j] \in Row
      /\ h \in Lookups(c)
  BY <1>1, LookupFacts, WhoLooksUp, CreatedIsRow
<1>3. CASE /\ transfers[k].status = "pending" /\ MaySettle(r, k) /\ Settle(p, k)
  <2>1. PICK d :
           /\ call' = [call EXCEPT ![p] = d] /\ UNCHANGED <<transfers, lien, funds>>
           /\ d.held = c.held /\ SettlesNext(c, d, k) /\ LooksUp(c, d, h)
           /\ d.todo \in Seq(Statement) /\ k \in Keys => d \in Transaction
    BY <1>1, <1>3, SettleStep
  <2>2. k \in Created /\ Secures(c, <<"transfer", k>>)
    <3>1. CASE r.op = "record"
      <4>1. PICK j \in WithReference(r) : Secures(c, <<"transfer", j>>) /\ h = <<"recheck pending", j>>
        <5> HIDE DEF h
        <5>1. \/ h[2] \in {"key", "event", "pending", "settled"} /\ h[1] = "find"
              \/ h[1] = "check funds"
              \/ \E j \in WithReference(r) : Secures(c, <<"transfer", j>>) /\ h = <<"recheck pending", j>>
          <6>1. \A a, b : h = <<a, b>> => h[1] = a /\ h[2] = b
            OBVIOUS
          <6>2. \/ h = <<"find", "key">> \/ h = <<"find", "event">>
                \/ h \in {<<"find", "pending">>, <<"find", "settled">>}
                \/ \E j \in WithReference(r) : Secures(c, <<"transfer", j>>) /\ h = <<"recheck pending", j>>
                \/ h = <<"check funds", r.account>>
            BY <1>2, <3>1, LookupsOfRecord
          <6> QED
            BY ONLY <6>1, <6>2
        <5>2. h[1] = "recheck pending"
          BY DEF h
        <5> QED
          BY <5>1, <5>2
      <4>2. k = j
        BY <4>1
      <4> QED
        BY <4>1, <4>2 DEF WithReference
    <3>2. CASE r.op = "complete"
      <4>1. h = <<"recheck pending", r.transfer>> /\ c.writes = "nothing"
        BY <1>2, <3>2 DEF Lookups
      <4>2. k = r.transfer
        BY <4>1
      <4>3. Completes(c)
        BY <1>2, <3>2 DEF Knows
      <4> QED
        BY <1>3, <4>1, <4>2, <4>3 DEF Completes
    <3> QED
      BY <1>2, <3>1, <3>2
  <2>3. <<"transfer", k>> \in c.held
    <3>1. Rank(<<"lock", <<"transfer", k>>>>) < Rank(h)
      <4> DEFINE x == <<"lock", <<"transfer", k>>>>
      <4>1. Rank(x) = 3 /\ Rank(h) = 4
        BY Ranks DEF Take
      <4> HIDE DEF x, h
      <4>2. Rank(x) < Rank(h)
        BY <4>1
      <4> QED
        BY <4>2 DEF x
    <3> HIDE DEF h
    <3> QED
      BY <2>1, <2>2, <3>1, AtLookup
  <2>4. d.request = c.request
    BY <2>1 DEF LooksUp
  <2>5. d.todo \in Seq(Statement)
    BY <1>2, <1>3, <2>1, <2>2, <2>3, <2>4, SettleFacts
  <2>6. d \in Transaction
    BY <1>2, <2>1, <2>2, <2>5
  <2>7. Knows(d)
    <3>1. CASE r.op = "record"
      BY <1>2, <1>3, <2>1, <3>1, RecordRechecksPending
    <3>2. CASE r.op = "complete"
      BY <1>2, <1>3, <2>1, <3>2, CompleteRechecksPending
    <3> QED
      BY <1>2, <3>1, <3>2
  <2> QED
    BY <1>2, <2>1, <2>6, <2>7, LookupStep
<1>4. CASE /\ WriteNothing(p, <<>>)
           /\ \/ transfers[k].status = "pending" /\ ~MaySettle(r, k)
              \/ transfers[k].status # "pending" /\ r.op = "complete"
  <2>1. <<>> \in Seq(Statement)
    BY EmptySeq
  <2>2. PICK d \in Transaction :
           /\ call' = [call EXCEPT ![p] = d] /\ UNCHANGED <<transfers, lien, funds>>
           /\ Turns(c, d, <<>>) /\ d.writes = "nothing" /\ LooksUp(c, d, h)
    BY <1>1, <1>4, <2>1, Stops
  <2>3. d.todo = <<>> /\ d.held = c.held
    BY <2>2 DEF Turns
  <2>4. CASE r.op = "record"
    <3>1. Knows(d)
      BY <1>2, <1>4, <2>2, <2>3, <2>4, RecordRechecksPending
    <3> QED
      BY <1>2, <2>2, <2>3, <3>1, LookupStep
  <2>5. CASE r.op = "complete"
    <3>1. transfers[k].status # "pending"
      BY <1>4, <2>5 DEF MaySettle
    <3>2. Knows(d)
      BY <1>2, <2>2, <2>3, <2>5, <3>1, CompleteRechecksPending
    <3> QED
      BY <1>2, <2>2, <2>3, <3>2, LookupStep
  <2> QED
    BY <1>2, <2>4, <2>5
<1>5. CASE transfers[k].status # "pending" /\ r.op = "record" /\ Continue(p)
  <2>1. PICK d \in Transaction :
           /\ call' = [call EXCEPT ![p] = d] /\ UNCHANGED <<transfers, lien, funds>>
           /\ Turns(c, d, Tail(c.todo)) /\ GoesOn(c, d, h)
    BY <1>1, <1>5, Continues
  <2>2. d.todo = Tail(c.todo) /\ d.held = c.held /\ LooksUp(c, d, h)
    BY <2>1 DEF Turns, GoesOn
  <2>3. Knows(d)
    BY <1>2, <1>5, <2>1, <2>2, RecordRechecksPending
  <2> QED
    BY <1>2, <2>1, <2>2, <2>3, LookupStep
<1> QED
  BY <1>3, <1>4, <1>5 DEF RecheckPending

LEMMA RecheckReversibleKeeps ==
    ASSUME LInv, NEW p \in Calls, RecheckReversible(p)
    PROVE  LInv'
<1> DEFINE c == call[p]
           r == call[p].request
           k == Argument(p)
           h == <<"recheck reversible", Argument(p)>>
<1>1. Doing(p, "recheck reversible")
  BY DEF RecheckReversible
<1>2. /\ p \in Running /\ r \in Request /\ r.op = "reverse" /\ TablesOK /\ Knows(c) /\ c \in Transaction
      /\ \A j \in Created : j \in Keys /\ transfers[j] \in Row /\ Plain(transfers[j])
      /\ c.todo \in Seq(Statement) /\ c.todo # <<>> /\ Head(c.todo) = h
  BY <1>1, LookupFacts, WhoLooksUp, CreatedIsRow DEF TablesOK
<1>3. CASE Reversible(k)
  <2> DEFINE request == ReversalRequest(r)
             d == [call[p] EXCEPT !.request = request, !.todo = RecordTransfer(request), !.writes = "create"]
  <2>1. call' = [call EXCEPT ![p] = d] /\ UNCHANGED <<transfers, lien, funds>>
    BY <1>3 DEF RecheckReversible
  <2>2. /\ d.request = request /\ d.held = c.held /\ d.todo = RecordTransfer(request) /\ d.writes = "create"
        /\ request \in Request /\ RecordTransfer(request) \in Seq(Statement) => d \in Transaction
    <3> HIDE DEF request
    <3> QED
      BY <1>2 DEF Transaction
  <2> HIDE DEF d, request, h
  <2>3. Knows(d) /\ d.todo \in Seq(Statement) /\ d.request \in Request
    BY <1>2, <1>3, <2>2, ReverseRechecks DEF h, request
  <2> QED
    BY <1>2, <2>1, <2>2, <2>3, LookupStep
<1>4. CASE ~Reversible(k)
  <2>1. <<>> \in Seq(Statement) /\ WriteNothing(p, <<>>)
    BY <1>4, EmptySeq DEF RecheckReversible
  <2>2. PICK d \in Transaction :
           /\ call' = [call EXCEPT ![p] = d] /\ UNCHANGED <<transfers, lien, funds>>
           /\ Turns(c, d, <<>>) /\ d.writes = "nothing" /\ LooksUp(c, d, h)
    BY <1>1, <2>1, Stops
  <2>3. d.todo = <<>> /\ d.held = c.held /\ d.request = c.request
    BY <2>2 DEF Turns
  <2>4. Knows(d)
    BY <1>2, <1>4, <2>2, <2>3, ReverseRechecks
  <2> QED
    BY <1>2, <2>2, <2>3, <2>4, LookupStep
<1> QED
  BY <1>3, <1>4

LEMMA RecheckLienKeeps ==
    ASSUME LInv, NEW p \in Calls, RecheckLien(p)
    PROVE  LInv'
<1> DEFINE c == call[p]
           r == call[p].request
           y == Argument(p)
           h == <<"recheck lien", Argument(p)>>
<1>1. Doing(p, "recheck lien")
  BY DEF RecheckLien
<1>2. /\ p \in Running /\ r \in Request /\ r.op \in {"place", "release"} /\ lien \in LienType
  BY <1>1, LookupFacts, WhoLooksUp DEF TablesOK
<1>3. <<>> \in Seq(Statement) /\ (r.op = "release" => <<Take("balance", r.account)>> \in Seq(Statement))
  BY <1>2, EmptySeq, RequestFacts, StatementFacts, OneFacts DEF OrderedTo, Accounts
<1>4. CASE /\ WriteNothing(p, <<>>)
           /\ \/ r.op = "place" /\ IsActive(y[1], y[2])
              \/ r.op = "release" /\ ~IsActive(y[1], y[2])
  <2>1. PICK d \in Transaction :
           /\ call' = [call EXCEPT ![p] = d] /\ UNCHANGED <<transfers, lien, funds>>
           /\ Turns(c, d, <<>>) /\ d.writes = "nothing" /\ d.on = c.on /\ LooksUp(c, d, h)
    BY <1>1, <1>3, <1>4, Stops
  <2>2. d.todo = <<>> /\ d.held = c.held
    BY <2>1 DEF Turns
  <2>3. CASE r.op = "place" /\ IsActive(y[1], y[2])
    <3>1. Knows(d)
      BY <1>2, <2>1, <2>2, <2>3, PlaceRechecksLien
    <3> QED
      BY <1>2, <2>1, <2>2, <3>1, LookupStep
  <2>4. CASE r.op = "release" /\ ~IsActive(y[1], y[2])
    <3>1. Knows(d)
      BY <1>2, <2>1, <2>2, <2>4, ReleaseRechecksLien
    <3> QED
      BY <1>2, <2>1, <2>2, <3>1, LookupStep
  <2> QED
    BY <1>4, <2>3, <2>4
<1>5. CASE Continue(p) /\ r.op = "place" /\ ~IsActive(y[1], y[2])
  <2>1. PICK d \in Transaction :
           /\ call' = [call EXCEPT ![p] = d] /\ UNCHANGED <<transfers, lien, funds>>
           /\ Turns(c, d, Tail(c.todo)) /\ GoesOn(c, d, h)
    BY <1>1, <1>5, Continues
  <2>2. d.todo = Tail(c.todo) /\ d.held = c.held /\ LooksUp(c, d, h)
    BY <2>1 DEF Turns, GoesOn
  <2>3. Knows(d)
    BY <1>2, <1>5, <2>1, <2>2, PlaceRechecksLien
  <2> QED
    BY <1>2, <2>1, <2>2, <2>3, LookupStep
<1>6. CASE Proceed(p, <<Take("balance", r.account)>>) /\ r.op = "release" /\ IsActive(y[1], y[2])
  <2>1. PICK d :
           /\ call' = [call EXCEPT ![p] = d] /\ UNCHANGED <<transfers, lien, funds>>
           /\ Turns(c, d, <<Take("balance", r.account)>>) /\ d.writes = c.writes /\ d.on = c.on
           /\ <<Take("balance", r.account)>> \in Seq(Statement) => d \in Transaction
    BY <1>2, <1>6, ProceedsTo
  <2>2. d \in Transaction /\ d.todo = <<Take("balance", r.account)>> /\ d.held = c.held
    BY <1>3, <1>6, <2>1 DEF Turns
  <2>3. LooksUp(c, d, h)
    <3>1. /\ Knows(c) /\ r \in Request /\ c.todo \in Seq(Statement) /\ c.todo # <<>> /\ Head(c.todo) = h
      BY <1>1, LookupFacts
    <3>2. h[1] # "lock"
      OBVIOUS
    <3> HIDE DEF h
    <3> QED
      BY <2>1, <3>1, <3>2 DEF LooksUp, Turns
  <2>4. Knows(d)
    BY <1>2, <1>6, <2>1, <2>2, <2>3, ReleaseRechecksLien
  <2> QED
    BY <1>2, <2>1, <2>2, <2>4, LookupStep
<1>7. \/ WriteNothing(p, <<>>) /\ r.op = "place" /\ IsActive(y[1], y[2])
      \/ WriteNothing(p, <<>>) /\ r.op = "release" /\ ~IsActive(y[1], y[2])
      \/ Continue(p) /\ r.op = "place" /\ ~IsActive(y[1], y[2])
      \/ Proceed(p, <<Take("balance", r.account)>>) /\ r.op = "release" /\ IsActive(y[1], y[2])
  BY DEF RecheckLien, IsActive
<1> QED
  BY <1>4, <1>5, <1>6, <1>7

LEMMA CheckFundsKeeps ==
    ASSUME LInv, NEW p \in Calls, CheckFunds(p)
    PROVE  LInv'
<1> DEFINE c == call[p]
           r == call[p].request
           a == Argument(p)
           h == <<"check funds", Argument(p)>>
<1>1. Doing(p, "check funds")
  BY DEF CheckFunds
<1>2. /\ p \in Running /\ r \in Request /\ r.op \in {"record", "place"} /\ c \in Transaction /\ Knows(c)
      /\ c.todo \in Seq(Statement) /\ c.todo # <<>> /\ Head(c.todo) = h /\ Tail(c.todo) \in Seq(Statement)
  BY <1>1, LookupFacts, WhoLooksUp
<1>3. CASE funds[a] >= 1 /\ Continue(p)
  <2>1. PICK d \in Transaction :
           /\ call' = [call EXCEPT ![p] = d] /\ UNCHANGED <<transfers, lien, funds>>
           /\ Turns(c, d, Tail(c.todo)) /\ GoesOn(c, d, h)
    BY <1>1, <1>3, Continues
  <2>2. d.todo = Tail(c.todo) /\ d.held = c.held /\ LooksUp(c, d, h)
    BY <2>1 DEF Turns, GoesOn
  <2>3. CASE r.op = "record"
    <3>1. Knows(d)
      BY <1>3, <2>1, <2>2, <2>3, RecordChecksFunds
    <3> QED
      BY <1>2, <2>1, <2>2, <3>1, LookupStep
  <2>4. CASE r.op = "place"
    <3>1. Knows(d)
      BY <1>3, <2>1, <2>2, <2>4, PlaceChecksFunds
    <3> QED
      BY <1>2, <2>1, <2>2, <3>1, LookupStep
  <2> QED
    BY <1>2, <2>3, <2>4
<1>4. CASE funds[a] < 1 /\ WriteNothing(p, <<>>)
  <2>1. <<>> \in Seq(Statement)
    BY EmptySeq
  <2>2. PICK d \in Transaction :
           /\ call' = [call EXCEPT ![p] = d] /\ UNCHANGED <<transfers, lien, funds>>
           /\ Turns(c, d, <<>>) /\ d.writes = "nothing" /\ LooksUp(c, d, h)
    BY <1>1, <1>4, <2>1, Stops
  <2>3. d.todo = <<>> /\ d.held = c.held
    BY <2>2 DEF Turns
  <2>4. CASE r.op = "record"
    <3>1. Knows(d)
      BY <1>4, <2>2, <2>3, <2>4, RecordChecksFunds
    <3> QED
      BY <1>2, <2>2, <2>3, <3>1, LookupStep
  <2>5. CASE r.op = "place"
    <3>1. Knows(d)
      BY <1>4, <2>2, <2>3, <2>5, PlaceChecksFunds
    <3> QED
      BY <1>2, <2>2, <2>3, <3>1, LookupStep
  <2> QED
    BY <1>2, <2>4, <2>5
<1>5. CASE /\ funds[a] < 1 /\ r.op = "record"
           /\ call' = [call EXCEPT ![p].todo = Tail(@), ![p].writes = "decline"]
           /\ UNCHANGED <<transfers, lien, funds>>
  <2> DEFINE rest == Tail(c.todo)
             d == [call[p] EXCEPT !.todo = rest, !.writes = "decline"]
  <2>1. call' = [call EXCEPT ![p] = d] /\ UNCHANGED <<transfers, lien, funds>>
    BY <1>5
  <2>2. /\ d.request = c.request /\ d.held = c.held /\ d.unseen = c.unseen /\ d.on = c.on
        /\ d.todo = rest /\ d.writes = "decline" /\ d \in Transaction
    <3>1. rest \in Seq(Statement)
      BY <1>2
    <3> HIDE DEF rest
    <3> QED
      BY <1>2, <3>1 DEF Transaction
  <2>3. h[1] # "lock"
    OBVIOUS
  <2> HIDE DEF d, h
  <2>4. LooksUp(c, d, h)
    BY <1>2, <2>2, <2>3 DEF LooksUp
  <2>5. Knows(d)
    BY <1>5, <2>2, <2>4, RecordChecksFunds DEF h
  <2> QED
    BY <1>2, <2>1, <2>2, <2>5, LookupStep
<1> QED
  BY <1>3, <1>4, <1>5 DEF CheckFunds


-----------------------------------------------------------------------------
(***************************************************************************)
(* The invariant.                                                          *)
(***************************************************************************)
\* What transfer k of a table has done to the balance of a.
MovedBy(table, k, a) == IF table[k] # NoRow THEN CreatedFunds(table[k])[a] ELSE 0

LEMMA SumOnDomain ==
    ASSUME NEW f, NEW S, DOMAIN f = S
    PROVE  SumFunction(f) = SumFunctionOnSet(f, S)
BY DEF SumFunction, SumFunctionOnSet, FoldFunction

LEMMA MovedByIsWhole ==
    ASSUME NEW table, NEW k, NEW a \in Customers
    PROVE  MovedBy(table, k, a) \in Int
BY ChangesAreWhole DEF MovedBy

LEMMA MovedIsSum ==
    ASSUME NEW a \in Customers
    PROVE  /\ MovedByTransfers(a) = SumFunctionOnSet([k \in Keys |-> MovedBy(transfers, k, a)], Keys)
           /\ MovedByTransfers(a)' = SumFunctionOnSet([k \in Keys |-> MovedBy(transfers', k, a)], Keys)
           /\ MovedByTransfers(a) \in Int /\ MovedByTransfers(a)' \in Int
<1> DEFINE f == [k \in Keys |-> MovedBy(transfers, k, a)]
           h == [k \in Keys |-> MovedBy(transfers', k, a)]
<1>1. \A k \in Keys : k \in Created <=> transfers[k] # NoRow
  BY DEF Created
<1>2. \A k \in Keys : k \in Created' <=> transfers'[k] # NoRow
  BY DEF Created
<1>3. MovedByTransfers(a) = SumFunction(f)
  <2>1. f = [k \in Keys |-> IF k \in Created THEN CreatedFunds(transfers[k])[a] ELSE 0]
    BY <1>1 DEF MovedBy
  <2> HIDE DEF f
  <2> QED
    BY <2>1 DEF MovedByTransfers
<1>4. MovedByTransfers(a)' = SumFunction(h)
  <2>1. h = [k \in Keys |-> IF k \in Created' THEN CreatedFunds(transfers'[k])[a] ELSE 0]
    BY <1>2 DEF MovedBy
  <2> HIDE DEF h
  <2> QED
    BY <2>1 DEF MovedByTransfers
<1>5. /\ DOMAIN f = Keys /\ \A k \in Keys : f[k] \in Int
      /\ DOMAIN h = Keys /\ \A k \in Keys : h[k] \in Int
  BY MovedByIsWhole
<1> HIDE DEF f, h
<1>6. SumFunction(f) = SumFunctionOnSet(f, Keys) /\ SumFunction(h) = SumFunctionOnSet(h, Keys)
  BY <1>5, SumOnDomain
<1>7. SumFunctionOnSet(f, Keys) \in Int /\ SumFunctionOnSet(h, Keys) \in Int
  BY <1>5, SumRemove, LocksAssumption
<1> QED
  BY <1>3, <1>4, <1>6, <1>7 DEF f, h

LEMMA LInvInit == LocksInit => LInv
<1> SUFFICES ASSUME LocksInit PROVE LInv
  OBVIOUS
<1>1. transfers \in [Keys -> Row \cup {NoRow}] /\ \A k \in Created : Plain(transfers[k])
  BY LocksAssumption DEF LocksInit, Created
<1>2. lien \in [LienReferences -> [account: Customers \cup {Nil}, number: Nat]]
  BY DEF LocksInit
<1>3. funds \in [Customers -> Int]
  <2>1. ASSUME NEW a \in Customers PROVE OpeningBalance + MovedByTransfers(a) \in Int
    <3>1. OpeningBalance \in Int
      BY LocksAssumption
    <3>2. MovedByTransfers(a) \in Int
      BY MovedIsSum
    <3> QED
      BY ONLY <3>1, <3>2
  <2> QED
    BY <2>1 DEF LocksInit
<1>4. call \in [Calls -> Transaction \cup {Idle}] /\ Running = {}
  BY DEF LocksInit, Running
<1> QED
  BY <1>1, <1>2, <1>3, <1>4 DEF LInv, LocksTypeOK

LEMMA LInvStutters ==
    ASSUME LInv, UNCHANGED vars
    PROVE  LInv'
<1>1. TablesOK /\ UNCHANGED <<transfers, lien, funds>> /\ call' = call /\ Created' = Created /\ Running' = Running
  BY InvariantFacts DEF vars, Created, Running
<1>2. ASSUME NEW p \in Running PROVE Knows(call[p])'
  <2>1. call[p].request \in Request /\ Knows(call[p]) /\ call'[p] = call[p]
    BY <1>1, InvariantFacts
  <2> QED
    BY <1>1, <2>1, KnowsAsBefore
<1>3. LocksTypeOK'
  BY <1>1 DEF LInv, LocksTypeOK
<1> QED
  BY <1>1, <1>2, <1>3 DEF LInv, Plain

LEMMA LInvNext ==
    ASSUME LInv, [LocksNext]_vars
    PROVE  LInv'
<1>1. CASE LocksNext
  <2>1. PICK p \in Calls : (\E r \in Requests : Begin(p, r)) \/ Advance(p) \/ AbortDeadlocked(p) \/ Cancel(p)
    BY <1>1 DEF LocksNext
  <2>2. CASE \E r \in Requests : Begin(p, r)
    BY <2>2, BeginKeeps
  <2>3. CASE Advance(p)
    BY <2>3, TakeLockKeeps, FindKeeps, RecheckPendingKeeps, RecheckReversibleKeeps, RecheckLienKeeps,
       CheckFundsKeeps, CommitKeeps DEF Advance
  <2>4. CASE AbortDeadlocked(p) \/ Cancel(p)
    BY <2>4, EndKeeps
  <2> QED
    BY <2>1, <2>2, <2>3, <2>4
<1>2. CASE UNCHANGED vars
  BY <1>2, LInvStutters
<1> QED
  BY <1>1, <1>2

LEMMA LInvKept == LocksSpec => []LInv
<1>1. LInv /\ [LocksNext]_vars => LInv'
  BY LInvNext
<1> QED
  BY <1>1, LInvInit, PTL DEF LocksSpec

\* The tables and the transactions keep their types.
THEOREM LocksTypes == LocksSpec => []LocksTypeOK
<1>1. LInv => LocksTypeOK
  BY DEF LInv
<1> QED
  BY <1>1, LInvKept, PTL

-----------------------------------------------------------------------------
(***************************************************************************)
(* What a transaction commits is what it would do alone.                   *)
(***************************************************************************)
LEMMA NilIsNoEvent ==
    ASSUME TablesOK
    PROVE  \A k \in Created : Nil \notin transfers[k].events
<1>1. \A row \in Row : Nil \notin row.events
  BY LocksAssumption DEF Row
<1> QED
  BY <1>1, CreatedIsRow

LEMMA NotReplayed ==
    ASSUME TablesOK, NEW r, r.key \notin Created, r.event # Nil => EventIsNew(r)
    PROVE  ~Replayed(r)
BY NilIsNoEvent DEF Replayed, EventIsNew

LEMMA RecordActsAlone ==
    ASSUME TablesOK, NEW c, c.todo = <<>>, Knows(c), c.request \in Request, c.request.op = "record"
    PROVE  \/ RecordsAlone(c.request, c.writes, c.on, Created)
           \/ RecordsAlone(c.request, c.writes, c.on, Created \ c.unseen)
<1> DEFINE r == c.request
<1>1. Records(c)
  BY DEF Knows
<1>2. CASE c.writes \in {"create", "decline"}
  <2>1. ~Replayed(r)
    BY <1>2, EndOfCreation, NotReplayed
  <2>2. ByReference(r) => WithReference(r) \subseteq c.unseen
    BY <1>2, EndOfCreation
  <2>3. ~Blocks(r, Created \ c.unseen) /\ WouldSettle(r, Created \ c.unseen) = {}
    BY <2>2 DEF Blocks, WouldSettle, SettledWith, PendingWith
  <2>4. CASE c.writes = "create"
    <3>1. ReversesLegally(r) /\ ~Unfunded(r)
      <4>1. ReversesLegally(r)
        BY <1>2, <2>4, EndOfCreation
      <4>2. ChecksFunds(r) => funds[r.account] >= 1
        BY <1>2, <2>4, EndOfCreation
      <4>3. ChecksFunds(r) => funds[r.account] \in Int
        BY DEF ChecksFunds, TablesOK
      <4>4. ~Unfunded(r)
        <5>1. SUFFICES ASSUME ChecksFunds(r), funds[r.account] < 1 PROVE FALSE
          BY DEF Unfunded
        <5>2. funds[r.account] >= 1 /\ funds[r.account] \in Int
          BY <4>2, <4>3, <5>1
        <5> QED
          BY ONLY <5>1, <5>2
      <4> QED
        BY <4>1, <4>4
    <3> QED
      BY <2>1, <2>3, <2>4, <3>1 DEF RecordsAlone
  <2>5. CASE c.writes = "decline"
    <3>1. Unfunded(r)
      BY <1>2, <2>5, EndOfCreation DEF LacksFunds, Unfunded
    <3> QED
      BY <2>1, <2>3, <2>5, <3>1 DEF RecordsAlone
  <2> QED
    BY <1>2, <2>4, <2>5
<1>3. CASE c.writes = "settle"
  <2>1. ~Replayed(r) /\ c.on \in WouldSettle(r, Created)
    <3>1. /\ r.key \notin Created /\ c.on \in WouldSettle(r, Created)
          /\ r.event # Nil => EventIsNew(r)
      BY <1>3, EndOfSettling
    <3> QED
      BY <3>1, NotReplayed
  <2> QED
    BY <1>3, <2>1 DEF RecordsAlone
<1>4. CASE c.writes = "nothing"
  <2>1. Replayed(r) \/ Blocks(r, Created) \/ Unfunded(r)
    BY <1>1, <1>4 DEF Records, LacksFunds, Unfunded
  <2> QED
    BY <1>4, <2>1 DEF RecordsAlone
<1> QED
  BY <1>1, <1>2, <1>3, <1>4 DEF Records

LEMMA CompleteActsAlone ==
    ASSUME NEW c, c.todo = <<>>, Knows(c), c.request.op = "complete"
    PROVE  c.writes = "settle" <=> transfers[c.request.transfer].status = "pending"
<1>1. Completes(c) /\ \A y : ~Still(c.todo, y)
  BY NoneStill DEF Knows
<1> QED
  BY <1>1 DEF Completes, Settles

LEMMA ReviewActsAlone ==
    ASSUME TablesOK, NEW c, c.todo = <<>>, Knows(c), c.request \in Request, c.request.op = "review"
    PROVE  c.writes = "create" <=> ~Replayed(c.request)
<1>1. Reviews(c)
  BY DEF Knows
<1>2. c.writes = "create" => ~Replayed(c.request)
  BY EndOfCreation, NotReplayed
<1> QED
  BY <1>1, <1>2 DEF Reviews

LEMMA PlaceActsAlone ==
    ASSUME NEW c, c.todo = <<>>, Knows(c), c.request \in Request, c.request.op = "place",
           funds \in [Customers -> Int]
    PROVE  c.writes = "place" <=> ~(lien[c.request.lien].account # Nil) /\ funds[c.request.account] >= 1
<1>1. Places(c)
  BY DEF Knows
<1>2. c.writes = "place" => lien[c.request.lien].account = Nil /\ funds[c.request.account] >= 1
  BY EndOfLien
<1>3. funds[c.request.account] \in Int
  BY RequestFacts
<1>4. c.writes # "place" => lien[c.request.lien].account # Nil \/ funds[c.request.account] < 1
  BY <1>1 DEF Places
<1> QED
  BY <1>2, <1>3, <1>4

LEMMA ReleaseActsAlone ==
    ASSUME NEW c, c.todo = <<>>, Knows(c), c.request \in Request, c.request.op = "release"
    PROVE  c.writes = "release" <=> lien[c.request.lien].account # Nil /\ lien[c.request.lien].number = c.on
<1>1. Releases(c)
  BY DEF Knows
<1>2. c.writes = "release" => IsActive(c.request.lien, c.on)
  BY EndOfLien
<1> QED
  BY <1>1, <1>2 DEF Releases, IsActive

LEMMA ActsAloneAtEnd ==
    ASSUME LInv, NEW p \in Running, call[p].todo = <<>>
    PROVE  ActsAlone(p, Created) \/ ActsAlone(p, Created \ call[p].unseen)
<1> DEFINE c == call[p]
<1>1. TablesOK /\ Knows(c) /\ c.request \in Request /\ funds \in [Customers -> Int]
  BY InvariantFacts DEF TablesOK
<1>2. c.request.op \in {"record", "complete", "reverse", "review", "control", "place", "release"}
  BY <1>1, RequestFacts
<1>3. CASE c.request.op = "record"
  BY <1>1, <1>3, RecordActsAlone DEF ActsAlone
<1>4. CASE c.request.op = "complete"
  BY <1>1, <1>4, CompleteActsAlone DEF ActsAlone
<1>5. CASE c.request.op = "reverse"
  <2>1. Reverses(c) /\ \A y : ~Still(c.todo, y)
    BY <1>1, <1>5, NoneStill DEF Knows
  <2>2. ~Reversible(c.request.transfer)
    BY <2>1 DEF Reverses, Learned
  <2> QED
    BY <1>5, <2>2 DEF ActsAlone
<1>6. CASE c.request.op = "review"
  BY <1>1, <1>6, ReviewActsAlone DEF ActsAlone
<1>7. CASE c.request.op = "control"
  BY <1>7 DEF ActsAlone
<1>8. CASE c.request.op = "place"
  BY <1>1, <1>8, PlaceActsAlone DEF ActsAlone
<1>9. CASE c.request.op = "release"
  BY <1>1, <1>9, ReleaseActsAlone DEF ActsAlone
<1> QED
  BY <1>2, <1>3, <1>4, <1>5, <1>6, <1>7, <1>8, <1>9

\* However many transactions run at the same time, each commits what it would
\* do alone, from beginning to end, in the state it commits to.
THEOREM TransactionsAreSerial == LocksSpec => []ActsOnWhatItCommitsTo
<1>1. LInv => ActsOnWhatItCommitsTo
  BY ActsAloneAtEnd DEF ActsOnWhatItCommitsTo
<1> QED
  BY <1>1, LInvKept, PTL


-----------------------------------------------------------------------------
(***************************************************************************)
(* The balances.                                                           *)
(***************************************************************************)
\* One row changes: so does what the transfers have done.
LEMMA OneRowMoves ==
    ASSUME NEW key \in Keys, \A k \in Keys : k # key => transfers'[k] = transfers[k], NEW a \in Customers
    PROVE  MovedByTransfers(a)' = MovedByTransfers(a) - MovedBy(transfers, key, a) + MovedBy(transfers', key, a)
<1> DEFINE f == [k \in Keys |-> MovedBy(transfers, k, a)]
           h == [k \in Keys |-> MovedBy(transfers', k, a)]
<1>1. MovedByTransfers(a) = SumFunctionOnSet(f, Keys) /\ MovedByTransfers(a)' = SumFunctionOnSet(h, Keys)
  BY MovedIsSum
<1>2. \A k \in Keys : k # key => MovedBy(transfers', k, a) = MovedBy(transfers, k, a)
  BY DEF MovedBy
<1>3. /\ \A k \in Keys : f[k] \in Int /\ f[k] = MovedBy(transfers, k, a)
      /\ \A k \in Keys : k # key => h[k] = f[k]
      /\ h[key] \in Int /\ h[key] = MovedBy(transfers', key, a)
  BY <1>2, MovedByIsWhole
<1> HIDE DEF f, h
<1>4. SumFunctionOnSet(h, Keys) = SumFunctionOnSet(f, Keys) - f[key] + h[key]
  BY <1>3, SumUpdate, LocksAssumption
<1> QED
  BY <1>1, <1>3, <1>4

LEMMA SameRowsMove ==
    ASSUME transfers' = transfers, NEW a \in Customers
    PROVE  MovedByTransfers(a)' = MovedByTransfers(a)
BY DEF MovedByTransfers, Created

\* What a created row has done, by its outcome.
LEMMA MovesOfRow ==
    ASSUME NEW row, NEW a \in Customers
    PROVE  /\ row.status = "posted" /\ row.outbound =>
                CreatedFunds(row)[a] = Change(row.account, -1)[a] + Change(row.clearing, 1)[a]
           /\ row.status = "posted" /\ ~row.outbound =>
                CreatedFunds(row)[a] = Change(row.clearing, -1)[a] + Change(row.account, 1)[a]
           /\ row.status = "pending" /\ row.outbound => CreatedFunds(row)[a] = Change(row.account, -1)[a]
           /\ row.status = "pending" /\ ~row.outbound => CreatedFunds(row)[a] = 0
           /\ row.status = "failed" => CreatedFunds(row)[a] = 0
BY DEF CreatedFunds, Moved, Change

LEMMA MovesOfSettling ==
    ASSUME NEW row, NEW status \in {"pending", "posted", "failed"}, NEW a \in Customers
    PROVE  /\ status = "posted" /\ row.outbound => SettledFunds(row, status)[a] = Change(row.clearing, 1)[a]
           /\ status = "posted" /\ ~row.outbound =>
                SettledFunds(row, status)[a] = Change(row.clearing, -1)[a] + Change(row.account, 1)[a]
           /\ status = "failed" /\ row.outbound => SettledFunds(row, status)[a] = Change(row.account, 1)[a]
           /\ status = "failed" /\ ~row.outbound => SettledFunds(row, status)[a] = 0
           /\ status = "pending" => SettledFunds(row, status)[a] = 0
BY DEF SettledFunds, Moved, Change

LEMMA CreationMoves ==
    ASSUME LInv, NEW p, Commit(p), call[p].writes \in {"create", "decline"}, NEW a \in Customers
    PROVE  funds'[a] - funds[a] = MovedByTransfers(a)' - MovedByTransfers(a) /\ lien' = lien
<1> DEFINE r == call[p].request
<1>1. /\ TablesOK /\ Write(p) /\ call[p].todo = <<>> /\ Knows(call[p]) /\ r \in Request
  BY CommitFacts
<1>2. r.op \in {"record", "review"} /\ r.key \notin Created /\ r.key \in Keys
      /\ (call[p].writes = "decline" => r.op = "record")
  BY <1>1, EndOfCreation, RequestFacts
<1>3. PICK row \in Row :
         /\ transfers' = [transfers EXCEPT ![r.key] = row] /\ Created' = Created \cup {r.key}
         /\ transfers'[r.key] = row /\ lien' = lien
  BY <1>1, CreationWrites
<1>4. MovedByTransfers(a)' = MovedByTransfers(a) - MovedBy(transfers, r.key, a) + MovedBy(transfers', r.key, a)
  <2>1. \A k \in Keys : k # r.key => transfers'[k] = transfers[k]
    BY <1>1, <1>2, <1>3 DEF TablesOK
  <2> QED
    BY <1>2, <2>1, OneRowMoves
<1>5. MovedBy(transfers, r.key, a) = 0 /\ MovedBy(transfers', r.key, a) = CreatedFunds(row)[a]
  BY <1>1, <1>2, <1>3, CreatedIsRow DEF MovedBy, Created
<1>6. funds'[a] = funds[a] + CreatedFunds(row)[a]
  <2>1. CASE call[p].writes = "create" /\ r.op = "record"
    <3>1. funds'[a] = funds[a] + CreatedFunds(r)[a]
      BY <1>1, <2>1 DEF Write, Apply
    <3>2. row = CreatedRow(r)
      BY <1>1, <1>2, <1>3, <2>1 DEF Write, TablesOK
    <3>3. row.status = r.status /\ row.outbound = r.outbound /\ row.account = r.account /\ row.clearing = r.clearing
      BY <1>1, <2>1, <3>2, CreatedRowFacts
    <3>4. CreatedFunds(row)[a] = CreatedFunds(r)[a]
      BY <3>3 DEF CreatedFunds
    <3> QED
      BY <3>1, <3>4
  <2>2. CASE r.op = "review"
    <3>1. funds'[a] = funds[a]
      BY <1>1, <1>2, <2>2 DEF Write
    <3>2. row = CreatedRow(r)
      BY <1>1, <1>2, <1>3, <2>2 DEF Write, TablesOK
    <3>3. CreatedFunds(row)[a] = 0
      <4>1. row.status = "failed"
        BY <1>1, <2>2, <3>2, CreatedRowFacts
      <4> QED
        BY <4>1, MovesOfRow
    <3> QED
      BY <1>1, <3>1, <3>3 DEF TablesOK
  <2>3. CASE call[p].writes = "decline"
    <3>1. funds'[a] = funds[a]
      BY <1>1, <2>3 DEF Write
    <3>2. row = [CreatedRow(r) EXCEPT !.status = "failed"]
      BY <1>1, <1>2, <1>3, <2>3 DEF Write, TablesOK
    <3>3. CreatedRow(r) \in Row
      BY <1>1, <1>2, CreatedRowFacts
    <3>4. row.status = "failed"
      BY <3>2, <3>3 DEF Row
    <3>5. CreatedFunds(row)[a] = 0
      BY <3>4, MovesOfRow
    <3> QED
      BY <1>1, <3>1, <3>5 DEF TablesOK
  <2> QED
    BY <1>2, <2>1, <2>2, <2>3
<1>7. funds[a] \in Int /\ CreatedFunds(row)[a] \in Int /\ MovedByTransfers(a) \in Int
  BY <1>1, ChangesAreWhole, MovedIsSum DEF TablesOK
<1> QED
  BY <1>3, <1>4, <1>5, <1>6, <1>7

LEMMA SettlingMoves ==
    ASSUME LInv, NEW p, Commit(p), call[p].writes = "settle", NEW a \in Customers
    PROVE  funds'[a] - funds[a] = MovedByTransfers(a)' - MovedByTransfers(a) /\ lien' = lien
<1> DEFINE r == call[p].request
           on == call[p].on
           row == transfers[call[p].on]
<1>1. /\ TablesOK /\ Write(p) /\ call[p].todo = <<>> /\ Knows(call[p]) /\ r \in Request
  BY CommitFacts
<1>2. r.op \in {"record", "complete"} /\ on \in Created /\ row.status = "pending"
  BY <1>1, EndOfSettling
<1>3. /\ Created' = Created /\ row \in Row /\ on \in Keys
      /\ transfers'[on] = SettledRow(row, r) /\ lien' = lien
      /\ \A k \in Keys : k # on => transfers'[k] = transfers[k]
  BY <1>1, SettlingWrites
<1>4. MovedByTransfers(a)' = MovedByTransfers(a) - MovedBy(transfers, on, a) + MovedBy(transfers', on, a)
  BY <1>3, OneRowMoves
<1>5. /\ MovedBy(transfers, on, a) = CreatedFunds(row)[a]
      /\ MovedBy(transfers', on, a) = CreatedFunds(SettledRow(row, r))[a]
  <2>1. transfers[on] # NoRow /\ SettledRow(row, r) # NoRow
    BY <1>1, <1>2, <1>3, SettledRowFacts, CreatedIsRow DEF Created
  <2> QED
    BY <1>3, <2>1 DEF MovedBy
<1>6. funds'[a] = funds[a] + SettledFunds(row, r.status)[a]
  BY <1>1 DEF Write, Apply
<1>7. /\ SettledRow(row, r).status = r.status /\ SettledRow(row, r).outbound = row.outbound
      /\ SettledRow(row, r).account = row.account /\ SettledRow(row, r).clearing = row.clearing
      /\ r.status \in {"pending", "posted", "failed"} /\ row.outbound \in BOOLEAN
  <2>1. r.status \in {"pending", "posted", "failed"}
    BY <1>1, <1>2, RequestFacts DEF RecordRequest
  <2>2. row.outbound \in BOOLEAN
    BY <1>3 DEF Row
  <2> QED
    BY <1>1, <1>2, <1>3, <2>1, <2>2, SettledRowFacts
<1>8. /\ Change(row.account, -1)[a] \in Int /\ Change(row.clearing, -1)[a] \in Int
      /\ Change(row.account, 1)[a] = 0 - Change(row.account, -1)[a]
      /\ Change(row.clearing, 1)[a] = 0 - Change(row.clearing, -1)[a]
  BY DEF Change
<1>9. CreatedFunds(SettledRow(row, r))[a] - CreatedFunds(row)[a] = SettledFunds(row, r.status)[a]
  <2>1. /\ row.outbound => CreatedFunds(row)[a] = Change(row.account, -1)[a]
        /\ ~row.outbound => CreatedFunds(row)[a] = 0
    BY <1>2, MovesOfRow
  <2>2. CASE r.status = "posted"
    <3>1. CASE row.outbound
      <4>1. /\ CreatedFunds(SettledRow(row, r))[a] = Change(row.account, -1)[a] + Change(row.clearing, 1)[a]
            /\ SettledFunds(row, r.status)[a] = Change(row.clearing, 1)[a]
            /\ CreatedFunds(row)[a] = Change(row.account, -1)[a]
        <5>1. CreatedFunds(SettledRow(row, r))[a] = Change(row.account, -1)[a] + Change(row.clearing, 1)[a]
          <6> DEFINE new == SettledRow(row, r)
          <6>1. /\ new.status = "posted" /\ new.outbound
                /\ new.account = row.account /\ new.clearing = row.clearing
            BY <1>7, <2>2, <3>1
          <6> HIDE DEF new
          <6>2. CreatedFunds(new)[a] = Change(new.account, -1)[a] + Change(new.clearing, 1)[a]
            BY <6>1, MovesOfRow
          <6> QED
            BY <6>1, <6>2 DEF new
        <5>2. SettledFunds(row, r.status)[a] = Change(row.clearing, 1)[a]
          BY <1>7, <2>2, <3>1, MovesOfSettling
        <5> QED
          BY <2>1, <3>1, <5>1, <5>2
      <4> QED
        BY ONLY <1>8, <4>1
    <3>2. CASE ~row.outbound
      <4>1. /\ CreatedFunds(SettledRow(row, r))[a] = Change(row.clearing, -1)[a] + Change(row.account, 1)[a]
            /\ SettledFunds(row, r.status)[a] = Change(row.clearing, -1)[a] + Change(row.account, 1)[a]
            /\ CreatedFunds(row)[a] = 0
        <5>1. CreatedFunds(SettledRow(row, r))[a] = Change(row.clearing, -1)[a] + Change(row.account, 1)[a]
          <6> DEFINE new == SettledRow(row, r)
          <6>1. /\ new.status = "posted" /\ ~new.outbound
                /\ new.account = row.account /\ new.clearing = row.clearing
            BY <1>7, <2>2, <3>2
          <6> HIDE DEF new
          <6>2. CreatedFunds(new)[a] = Change(new.clearing, -1)[a] + Change(new.account, 1)[a]
            BY <6>1, MovesOfRow
          <6> QED
            BY <6>1, <6>2 DEF new
        <5>2. SettledFunds(row, r.status)[a] = Change(row.clearing, -1)[a] + Change(row.account, 1)[a]
          BY <1>7, <2>2, <3>2, MovesOfSettling
        <5> QED
          BY <2>1, <3>2, <5>1, <5>2
      <4> QED
        BY ONLY <1>8, <4>1
    <3> QED
      BY <3>1, <3>2
  <2>3. CASE r.status = "failed"
    <3>1. CreatedFunds(SettledRow(row, r))[a] = 0
      BY <1>7, <2>3, MovesOfRow
    <3>2. CASE row.outbound
      <4>1. /\ SettledFunds(row, r.status)[a] = Change(row.account, 1)[a]
            /\ CreatedFunds(row)[a] = Change(row.account, -1)[a]
        BY <1>7, <2>1, <2>3, <3>2, MovesOfSettling
      <4> QED
        BY ONLY <1>8, <3>1, <4>1
    <3>3. CASE ~row.outbound
      <4>1. SettledFunds(row, r.status)[a] = 0 /\ CreatedFunds(row)[a] = 0
        BY <1>7, <2>1, <2>3, <3>3, MovesOfSettling
      <4> QED
        BY ONLY <3>1, <4>1
    <3> QED
      BY <3>2, <3>3
  <2>4. CASE r.status = "pending"
    <3>1. SettledFunds(row, r.status)[a] = 0
      BY <1>7, <2>4, MovesOfSettling
    <3>2. CreatedFunds(SettledRow(row, r))[a] = CreatedFunds(row)[a]
      BY <1>2, <1>7, <2>4 DEF CreatedFunds
    <3>3. CreatedFunds(row)[a] \in Int
      BY ChangesAreWhole
    <3> QED
      BY ONLY <3>1, <3>2, <3>3
  <2> QED
    BY <1>7, <2>2, <2>3, <2>4
<1>10. /\ funds[a] \in Int /\ MovedByTransfers(a) \in Int /\ CreatedFunds(row)[a] \in Int
       /\ CreatedFunds(SettledRow(row, r))[a] \in Int /\ SettledFunds(row, r.status)[a] \in Int
  BY <1>1, ChangesAreWhole, MovedIsSum DEF TablesOK
<1>11. funds'[a] - funds[a] = MovedByTransfers(a)' - MovedByTransfers(a)
  BY ONLY <1>4, <1>5, <1>6, <1>9, <1>10
<1> QED
  BY <1>3, <1>11

\* A lien set that loses a member has one member fewer.
LEMMA OneFewer ==
    ASSUME NEW S, NEW x \in S, IsFiniteSet(S)
    PROVE  Cardinality(S \ {x}) = Cardinality(S) - 1
BY FS_RemoveElement

LiensOf(a) == {l \in LienReferences : lien[l].account = a}

LEMMA LienMoves ==
    ASSUME LInv, NEW p, Commit(p), call[p].writes \in {"place", "release"}, NEW a \in Customers
    PROVE  funds'[a] - funds[a] = Cardinality(LiensOf(a)) - Cardinality(LiensOf(a)') /\ transfers' = transfers
<1> DEFINE r == call[p].request
<1>1. /\ TablesOK /\ Write(p) /\ call[p].todo = <<>> /\ Knows(call[p]) /\ r \in Request
  BY CommitFacts
<1>2. /\ transfers' = transfers /\ r.lien \in LienReferences
      /\ \A l \in LienReferences \ {r.lien} : lien'[l] = lien[l]
  BY <1>1, LienWrites
<1>3. /\ call[p].writes = "place" =>
           /\ lien[r.lien].account = Nil /\ lien'[r.lien].account = r.account
           /\ funds'[a] = funds[a] + Change(r.account, -1)[a]
      /\ call[p].writes = "release" =>
           /\ lien[r.lien].account = r.account /\ lien'[r.lien].account = Nil
           /\ funds'[a] = funds[a] + Change(r.account, 1)[a]
  BY <1>1, LienWrites
<1>4. IsFiniteSet(LiensOf(a)) /\ Cardinality(LiensOf(a)) \in Int /\ a # Nil /\ funds[a] \in Int
  <2>1. IsFiniteSet(LienReferences) /\ Nil \notin Customers
    BY LocksAssumption DEF Accounts
  <2>2. IsFiniteSet(LiensOf(a))
    BY <2>1, FS_Subset DEF LiensOf
  <2> QED
    BY <1>1, <2>1, <2>2, FS_CardinalityType DEF TablesOK
<1>5. CASE call[p].writes = "place"
  <2>1. CASE a = r.account
    <3>1. LiensOf(a)' = LiensOf(a) \cup {r.lien} /\ r.lien \notin LiensOf(a)
      BY <1>2, <1>3, <1>4, <1>5, <2>1 DEF LiensOf
    <3>2. Cardinality(LiensOf(a)') = Cardinality(LiensOf(a)) + 1
      BY <1>4, <3>1, FS_AddElement
    <3>3. funds'[a] = funds[a] + (-1)
      BY <1>3, <1>5, <2>1 DEF Change
    <3> QED
      BY <1>2, <1>4, <3>2, <3>3
  <2>2. CASE a # r.account
    <3>1. LiensOf(a)' = LiensOf(a)
      BY <1>2, <1>3, <1>4, <1>5, <2>2 DEF LiensOf
    <3>2. funds'[a] = funds[a] + 0
      BY <1>3, <1>5, <2>2 DEF Change
    <3> QED
      BY <1>2, <1>4, <3>1, <3>2
  <2> QED
    BY <2>1, <2>2
<1>6. CASE call[p].writes = "release"
  <2>1. CASE a = r.account
    <3>1. LiensOf(a)' = LiensOf(a) \ {r.lien} /\ r.lien \in LiensOf(a)
      BY <1>2, <1>3, <1>4, <1>6, <2>1 DEF LiensOf
    <3>2. Cardinality(LiensOf(a)') = Cardinality(LiensOf(a)) - 1
      <4> DEFINE liens == LiensOf(a)
                 released == r.lien
      <4>1. IsFiniteSet(liens) /\ released \in liens /\ LiensOf(a)' = liens \ {released}
        BY <1>4, <3>1
      <4> HIDE DEF liens, released
      <4>2. Cardinality(liens \ {released}) = Cardinality(liens) - 1
        BY ONLY <4>1, OneFewer
      <4> QED
        BY <4>1, <4>2 DEF liens
    <3>3. funds'[a] = funds[a] + 1
      BY <1>3, <1>6, <2>1 DEF Change
    <3> QED
      BY <1>2, <1>4, <3>2, <3>3
  <2>2. CASE a # r.account
    <3>1. LiensOf(a)' = LiensOf(a)
      BY <1>2, <1>3, <1>4, <1>6, <2>2 DEF LiensOf
    <3>2. funds'[a] = funds[a] + 0
      BY <1>3, <1>6, <2>2 DEF Change
    <3> QED
      BY <1>2, <1>4, <3>1, <3>2
  <2> QED
    BY <2>1, <2>2
<1> QED
  BY <1>5, <1>6

LEMMA OnlyCommitsWrite ==
    ASSUME [LocksNext]_vars
    PROVE  (\E p \in Calls : Commit(p)) \/ UNCHANGED <<transfers, lien, funds>>
<1> DEFINE Same == UNCHANGED <<transfers, lien, funds>>
<1>1. ASSUME NEW p \in Calls, NEW r \in Requests PROVE Begin(p, r) => Same
  BY DEF Begin
<1>9. ASSUME NEW p \in Calls PROVE AbortDeadlocked(p) \/ Cancel(p) => Same
  BY DEF AbortDeadlocked, Cancel
<1>2. ASSUME NEW p \in Calls PROVE TakeLock(p) \/ CheckFunds(p) => Same
  BY DEF TakeLock, CheckFunds, Continue, Proceed, WriteNothing
<1>3. ASSUME NEW p \in Calls PROVE Find(p) => Same
  BY DEF Find, Continue, Proceed, WriteNothing
<1>4. ASSUME NEW p \in Calls PROVE RecheckPending(p) => Same
  BY DEF RecheckPending, Settle, Continue, Proceed, WriteNothing
<1>5. ASSUME NEW p \in Calls PROVE RecheckReversible(p) \/ RecheckLien(p) => Same
  BY DEF RecheckReversible, RecheckLien, Continue, Proceed, WriteNothing
<1>6. UNCHANGED vars => Same
  BY DEF vars
<1> HIDE DEF Same
<1>7. ASSUME NEW p \in Calls, Advance(p) PROVE Commit(p) \/ Same
  BY <1>2, <1>3, <1>4, <1>5, <1>7 DEF Advance
<1>8. LocksNext => (\E p \in Calls : Commit(p)) \/ Same
  <2>1. ASSUME NEW p \in Calls, Advance(p) PROVE (\E q \in Calls : Commit(q)) \/ Same
    BY <1>7, <2>1
  <2>2. ASSUME NEW p \in Calls, (\E r \in Requests : Begin(p, r)) \/ AbortDeadlocked(p) \/ Cancel(p)
        PROVE  Same
    <3>1. CASE \E r \in Requests : Begin(p, r)
      <4>1. PICK r \in Requests : Begin(p, r)
        BY <3>1
      <4> QED
        BY ONLY <1>1, <4>1
    <3>2. CASE AbortDeadlocked(p) \/ Cancel(p)
      BY ONLY <1>9, <3>2
    <3> QED
      BY ONLY <2>2, <3>1, <3>2
  <2> QED
    BY <2>1, <2>2 DEF LocksNext
<1> QED
  BY <1>6, <1>8 DEF Same

LEMMA BalanceStep ==
    ASSUME LInv, LInv', [LocksNext]_vars, NEW a \in Customers,
           funds[a] = OpeningBalance + MovedByTransfers(a) - Cardinality(LiensOf(a))
    PROVE  funds'[a] = OpeningBalance + MovedByTransfers(a)' - Cardinality(LiensOf(a)')
<1>1. CASE UNCHANGED <<transfers, lien, funds>>
  <2>1. MovedByTransfers(a)' = MovedByTransfers(a) /\ LiensOf(a)' = LiensOf(a)
    BY <1>1, SameRowsMove DEF LiensOf
  <2> QED
    BY <1>1, <2>1
<1>2. ASSUME NEW p \in Calls, Commit(p), ~UNCHANGED <<transfers, lien, funds>>
      PROVE  funds'[a] = OpeningBalance + MovedByTransfers(a)' - Cardinality(LiensOf(a)')
  <2>0. /\ funds[a] \in Int /\ funds'[a] \in Int /\ MovedByTransfers(a) \in Int /\ OpeningBalance \in Int
        /\ Cardinality(LiensOf(a)) \in Int /\ Cardinality(LiensOf(a)') \in Int
    <3>1. IsFiniteSet(LienReferences) /\ OpeningBalance \in Int
      BY LocksAssumption
    <3>2. IsFiniteSet(LiensOf(a)) /\ IsFiniteSet(LiensOf(a)')
      BY <3>1, FS_Subset DEF LiensOf
    <3>3. Cardinality(LiensOf(a)) \in Int /\ Cardinality(LiensOf(a)') \in Int
      BY <3>2, FS_CardinalityType
    <3>4. funds[a] \in Int /\ funds'[a] \in Int
      BY DEF LInv, LocksTypeOK
    <3> QED
      BY <3>1, <3>3, <3>4, MovedIsSum
  <2>1. call[p].writes \in {"nothing", "create", "decline", "settle", "place", "release"} /\ Write(p)
    BY <1>2, CommitFacts
  <2>2. call[p].writes # "nothing"
    BY <1>2, <2>1 DEF Write
  <2>3. CASE call[p].writes \in {"create", "decline", "settle"}
    <3>1. funds'[a] - funds[a] = MovedByTransfers(a)' - MovedByTransfers(a) /\ lien' = lien
      BY <1>2, <2>3, CreationMoves, SettlingMoves
    <3>2. LiensOf(a)' = LiensOf(a)
      BY <3>1 DEF LiensOf
    <3>3. MovedByTransfers(a)' \in Int
      BY MovedIsSum
    <3> QED
      BY <2>0, <3>1, <3>2, <3>3
  <2>4. CASE call[p].writes \in {"place", "release"}
    <3>1. funds'[a] - funds[a] = Cardinality(LiensOf(a)) - Cardinality(LiensOf(a)') /\ transfers' = transfers
      BY <1>2, <2>4, LienMoves
    <3>2. MovedByTransfers(a)' = MovedByTransfers(a)
      BY <3>1, SameRowsMove
    <3> QED
      BY <2>0, <3>1, <3>2
  <2> QED
    BY <2>1, <2>2, <2>3, <2>4
<1> QED
  BY <1>1, <1>2, OnlyCommitsWrite

\* Available balances are what the rows and the active liens make of them,
\* whatever runs at the same time.
THEOREM BalancesAreOfRows == LocksSpec => []BalancesMatchRows
<1>1. LocksInit => BalancesMatchRows
  <2>1. SUFFICES ASSUME LocksInit, NEW a \in Customers
                 PROVE  funds[a] = OpeningBalance + MovedByTransfers(a)
                                     - Cardinality({l \in LienReferences : lien[l].account = a})
    BY DEF BalancesMatchRows
  <2>2. {l \in LienReferences : lien[l].account = a} = {}
    BY <2>1, LocksAssumption DEF LocksInit, Accounts
  <2>3. Cardinality({l \in LienReferences : lien[l].account = a}) = 0
    BY <2>2, FS_EmptySet
  <2>4. funds[a] = OpeningBalance + MovedByTransfers(a)
    BY <2>1 DEF LocksInit
  <2>5. OpeningBalance \in Int /\ MovedByTransfers(a) \in Int
    <3>1. OpeningBalance \in Int
      BY LocksAssumption
    <3>2. MovedByTransfers(a) \in Int
      BY MovedIsSum
    <3> QED
      BY <3>1, <3>2
  <2> QED
    BY ONLY <2>3, <2>4, <2>5
<1>2. LInv /\ LInv' /\ BalancesMatchRows /\ [LocksNext]_vars => BalancesMatchRows'
  BY BalanceStep DEF BalancesMatchRows, LiensOf
<1> QED
  BY <1>1, <1>2, LInvKept, PTL DEF LocksSpec

=============================================================================
