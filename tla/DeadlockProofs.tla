---------------------------- MODULE DeadlockProofs ----------------------------
(***************************************************************************)
(* Proofs about TransactionLocks: however many calls run at the same time, *)
(* every deadlock is one of the two that LocksProperties names.            *)
(***************************************************************************)
EXTENDS LocksProofs

-----------------------------------------------------------------------------
(***************************************************************************)
(* The order of the locks.                                                 *)
(***************************************************************************)
\* The order of the locks that are taken before anything is looked up.
KeyRank(kind) ==
    IF kind = "idempotency" THEN 1
    ELSE IF kind = "provider_event" THEN 2
    ELSE IF kind = "provider_reference" THEN 3
    ELSE 4

\* h is the row of the transfer that c reverses.
Original(c, h) == c.request.op = "record" /\ h = <<"transfer", c.request.reversalOf>>

\* h is the row of a transfer with the reference that c has locked.
Repeats(c, h) ==
    /\ c.request.op = "record" /\ h[1] = "transfer" /\ h[2] \in WithReference(c.request)
    /\ <<"provider_reference", c.request.reference>> \in c.held

\* When c may hold lock h and still take lock x.
AheadOfLock(c, h, x) ==
    \/ /\ LockRank(h[1]) < LockRank(x[1])
       /\ x[1] = "lien" => c.request.op = "place"
    \/ LockRank(h[1]) = 1 /\ LockRank(x[1]) = 1 /\ KeyRank(h[1]) < KeyRank(x[1])
    \/ /\ h[1] \in {"account", "balance"} /\ x[1] \in {"account", "balance"}
       /\ h[2] <= x[2] /\ c.request.op # "release"
    \/ h[1] = "lien" /\ x[1] = "balance" /\ c.request.op = "release"
    \/ Original(c, h) /\ x[1] \in {"idempotency", "provider_reference", "transfer"}
    \/ Repeats(c, h) /\ Repeats(c, x)

\* When c may hold lock h and still do lookup y: what the lookup finds may be
\* locked next.
AheadOfLookup(c, h, y) ==
    \/ LockRank(h[1]) = 1 /\ y[1] # "recheck reversible"
    \/ y[1] = "find" /\ y[2] \in {"key", "event", "pending", "settled"} /\ Original(c, h)
    \/ y = <<"find", "settled">> /\ Repeats(c, h)
    \/ y[1] = "recheck pending" /\ h[1] = "transfer"
    \/ y[1] = "recheck reversible" /\ h = <<"transfer", y[2]>>
    \/ y = <<"find", "lien">> /\ h[1] \in {"account", "balance"}
    \/ y[1] = "recheck lien" /\ (c.request.op = "release" => h[1] = "lien")
    \/ y[1] = "check funds"

Ahead(c, h, y) == IF y[1] = "lock" THEN AheadOfLock(c, h, y[2]) ELSE AheadOfLookup(c, h, y)

InLine(c, todo) ==
    \A i, j \in 1..Len(todo) : i < j /\ todo[i][1] = "lock" => Ahead(c, todo[i][2], todo[j])

\* A balance is locked after its account, but by a release, which locks nothing else then.
AccountsFirst(c, todo) ==
    c.request.op # "release" =>
        \A j \in 1..Len(todo) :
            todo[j][1] = "lock" /\ todo[j][2][1] = "balance" =>
                \/ <<"account", todo[j][2][2]>> \in c.held
                \/ \E i \in 1..Len(todo) : i < j /\ todo[i] = Take("account", todo[j][2][2])

Fits(c, todo) == InLine(c, todo) /\ AccountsFirst(c, todo)

HeldFirst(c) == \A h \in c.held : \A y : Still(c.todo, y) => Ahead(c, h, y)

HoldsAccounts(c) ==
    c.request.op # "release" => \A a : <<"balance", a>> \in c.held => <<"account", a>> \in c.held

Climbs(c) == HeldFirst(c) /\ Fits(c, c.todo) /\ HoldsAccounts(c)

AllClimb == \A p \in Running : Climbs(call[p])

-----------------------------------------------------------------------------
(***************************************************************************)
(* Sequences of statements that fit.                                       *)
(***************************************************************************)
LEMMA FitsNone == \A c : Fits(c, <<>>)
BY DEF Fits, InLine, AccountsFirst

LEMMA FitsOne ==
    ASSUME NEW c, NEW x, x[1] = "lock" /\ x[2][1] = "balance" => c.request.op = "release"
    PROVE  Fits(c, <<x>>)
BY DEF Fits, InLine, AccountsFirst

LEMMA FitsTwo ==
    ASSUME NEW c, NEW x, NEW y, x[1] = "lock" => Ahead(c, x[2], y),
           x[1] = "lock" /\ x[2][1] = "balance" => c.request.op = "release",
           y[1] = "lock" /\ y[2][1] = "balance" => c.request.op = "release"
    PROVE  Fits(c, <<x, y>>)
<1>1. InLine(c, <<x, y>>)
  BY DEF InLine
<1>2. AccountsFirst(c, <<x, y>>)
  BY DEF AccountsFirst
<1> QED
  BY <1>1, <1>2 DEF Fits

LEMMA FitsBoth ==
    ASSUME NEW c, NEW s \in Seq(Statement), NEW t \in Seq(Statement), Fits(c, s), Fits(c, t),
           \A x, y : Still(s, x) /\ x[1] = "lock" /\ Still(t, y) => Ahead(c, x[2], y)
    PROVE  Fits(c, s \o t)
<1>1. /\ Len(s) \in Nat /\ Len(t) \in Nat /\ Len(s \o t) = Len(s) + Len(t)
      /\ \A i \in 1..Len(s) + Len(t) : (s \o t)[i] = IF i <= Len(s) THEN s[i] ELSE t[i - Len(s)]
  BY ConcatProperties, LenProperties
<1> DEFINE u == s \o t
<1>2. /\ Len(u) = Len(s) + Len(t)
      /\ \A i \in 1..Len(s) : u[i] = s[i] /\ i \in 1..Len(u)
      /\ \A i \in 1..Len(t) : u[i + Len(s)] = t[i] /\ i + Len(s) \in 1..Len(u)
  BY <1>1
<1>3. \A i \in 1..Len(u) : (i <= Len(s) /\ i \in 1..Len(s)) \/ (i - Len(s) \in 1..Len(t) /\ i > Len(s))
  BY <1>1
<1> HIDE DEF u
<1>4. ASSUME NEW i \in 1..Len(u), NEW j \in 1..Len(u), i < j, u[i][1] = "lock"
      PROVE  Ahead(c, u[i][2], u[j])
  <2>1. CASE j <= Len(s)
    <3>1. i \in 1..Len(s) /\ j \in 1..Len(s) /\ u[i] = s[i] /\ u[j] = s[j]
      BY <1>1, <1>2, <1>3, <1>4, <2>1
    <3> QED
      BY <1>4, <3>1 DEF Fits, InLine
  <2>2. CASE i <= Len(s) /\ ~(j <= Len(s))
    <3>1. i \in 1..Len(s) /\ j - Len(s) \in 1..Len(t) /\ u[i] = s[i] /\ u[j] = t[j - Len(s)]
      BY <1>1, <1>2, <1>3, <2>2
    <3>2. Still(s, u[i]) /\ Still(t, u[j])
      BY <3>1 DEF Still
    <3> QED
      BY <1>4, <3>2
  <2>3. CASE ~(i <= Len(s))
    <3>1. /\ i - Len(s) \in 1..Len(t) /\ j - Len(s) \in 1..Len(t) /\ i - Len(s) < j - Len(s)
          /\ u[i] = t[i - Len(s)] /\ u[j] = t[j - Len(s)]
      BY <1>1, <1>2, <1>3, <1>4, <2>3
    <3> QED
      BY <1>4, <3>1 DEF Fits, InLine
  <2> QED
    BY <2>1, <2>2, <2>3
<1>5. ASSUME c.request.op # "release", NEW j \in 1..Len(u), u[j][1] = "lock", u[j][2][1] = "balance",
             <<"account", u[j][2][2]>> \notin c.held
      PROVE  \E i \in 1..Len(u) : i < j /\ u[i] = Take("account", u[j][2][2])
  <2>1. CASE j <= Len(s)
    <3>1. j \in 1..Len(s) /\ u[j] = s[j]
      BY <1>2, <1>3, <2>1
    <3>2. PICK i \in 1..Len(s) : i < j /\ s[i] = Take("account", s[j][2][2])
      BY <1>5, <3>1 DEF Fits, AccountsFirst
    <3> QED
      BY <1>2, <3>1, <3>2
  <2>2. CASE ~(j <= Len(s))
    <3>1. j - Len(s) \in 1..Len(t) /\ u[j] = t[j - Len(s)]
      BY <1>1, <1>2, <1>3, <2>2
    <3>2. PICK i \in 1..Len(t) : i < j - Len(s) /\ t[i] = Take("account", t[j - Len(s)][2][2])
      BY <1>5, <3>1 DEF Fits, AccountsFirst
    <3>3. i + Len(s) < j /\ i + Len(s) \in 1..Len(u) /\ u[i + Len(s)] = t[i]
      BY <1>1, <1>2, <1>5, <3>2
    <3> QED
      BY <3>1, <3>2, <3>3
  <2> QED
    BY <2>1, <2>2
<1>6. InLine(c, u) /\ AccountsFirst(c, u)
  BY <1>4, <1>5 DEF InLine, AccountsFirst
<1> QED
  BY <1>6 DEF u, Fits

LEMMA FitsTail ==
    ASSUME NEW c, NEW d, NEW todo \in Seq(Statement), todo # <<>>, Fits(c, todo),
           d.request = c.request, c.held \subseteq d.held,
           \A h, y : Ahead(c, h, y) => Ahead(d, h, y),
           \A a : Head(todo) = Take("account", a) => <<"account", a>> \in d.held
    PROVE  Fits(d, Tail(todo))
<1> DEFINE s == Tail(todo)
<1>1. /\ Head(todo) = todo[1] /\ Len(todo) \in Nat /\ Len(todo) >= 1
      /\ Len(s) = Len(todo) - 1 /\ \A i \in 1..Len(s) : s[i] = todo[i + 1]
  BY HeadTailProperties, EmptySeq, LenProperties
<1> HIDE DEF s
<1>2. ASSUME NEW i \in 1..Len(s), NEW j \in 1..Len(s), i < j, s[i][1] = "lock"
      PROVE  Ahead(d, s[i][2], s[j])
  <2>1. /\ i + 1 \in 1..Len(todo) /\ j + 1 \in 1..Len(todo) /\ i + 1 < j + 1
        /\ s[i] = todo[i + 1] /\ s[j] = todo[j + 1]
    BY <1>1, <1>2
  <2>2. Ahead(c, s[i][2], s[j])
    BY <1>2, <2>1 DEF Fits, InLine
  <2> QED
    BY <2>2
<1>3. ASSUME d.request.op # "release", NEW j \in 1..Len(s), s[j][1] = "lock", s[j][2][1] = "balance",
             <<"account", s[j][2][2]>> \notin d.held
      PROVE  \E i \in 1..Len(s) : i < j /\ s[i] = Take("account", s[j][2][2])
  <2>1. j + 1 \in 1..Len(todo) /\ s[j] = todo[j + 1]
    BY <1>1
  <2>2. PICK i \in 1..Len(todo) : i < j + 1 /\ todo[i] = Take("account", s[j][2][2])
    BY <1>3, <2>1 DEF Fits, AccountsFirst
  <2>3. i # 1
    BY <1>1, <1>3, <2>2
  <2>4. i - 1 \in 1..Len(s) /\ i - 1 < j /\ s[i - 1] = todo[i]
    <3>1. i - 1 \in 1..Len(s) /\ i - 1 < j /\ i - 1 + 1 = i
      BY <1>1, <2>2, <2>3
    <3> QED
      BY <1>1, <3>1
  <2> QED
    BY <2>2, <2>4
<1>4. InLine(d, s) /\ AccountsFirst(d, s)
  BY <1>2, <1>3 DEF InLine, AccountsFirst
<1> QED
  BY <1>4 DEF s, Fits

-----------------------------------------------------------------------------
(***************************************************************************)
(* The statements of each transaction fit.                                 *)
(***************************************************************************)
LEMMA LockRanks ==
    /\ \A x : LockRank(x) \in {1, 3, 6, 7, 10} /\ KeyRank(x) \in 1..4
    /\ \A x : LockRank(x) = 1 <=> x \in {"idempotency", "provider_event", "provider_reference",
                                         "account_lien_reference"}
    /\ \A x : LockRank(x) = 3 <=> x = "transfer"
    /\ \A x : LockRank(x) = 6 <=> x \in {"account", "balance"}
    /\ \A x : LockRank(x) = 7 <=> x = "lien"
BY DEF LockRank, KeyRank

\* Only locks of the first rank are taken.
KeysOnly(s) == \A x : Still(s, x) /\ x[1] = "lock" => LockRank(x[2][1]) = 1

LookupsOnly(s) == \A x : Still(s, x) => x[1] # "lock" /\ x[1] # "recheck reversible"

LEMMA NoLocksFit ==
    ASSUME NEW c, NEW s, \A x : Still(s, x) => x[1] # "lock"
    PROVE  Fits(c, s)
<1>1. \A i \in 1..Len(s) : s[i][1] # "lock"
  BY DEF Still
<1> QED
  BY <1>1 DEF Fits, InLine, AccountsFirst

LEMMA KeysThenLookups ==
    ASSUME NEW c, NEW s \in Seq(Statement), NEW t \in Seq(Statement), Fits(c, s), KeysOnly(s), LookupsOnly(t)
    PROVE  s \o t \in Seq(Statement) /\ Fits(c, s \o t) /\ KeysOnly(s \o t)
<1>1. s \o t \in Seq(Statement) /\ \A y : Still(s \o t, y) <=> Still(s, y) \/ Still(t, y)
  BY StillBoth, ConcatProperties
<1>2. KeysOnly(s \o t)
  BY <1>1 DEF KeysOnly, LookupsOnly
<1>3. ASSUME NEW x, NEW y, Still(s, x), x[1] = "lock", Still(t, y) PROVE Ahead(c, x[2], y)
  BY <1>3 DEF KeysOnly, LookupsOnly, Ahead, AheadOfLookup
<1>4. Fits(c, t)
  BY NoLocksFit DEF LookupsOnly
<1> QED
  BY <1>1, <1>2, <1>3, <1>4, FitsBoth

LEMMA WhenLookups ==
    ASSUME NEW condition \in BOOLEAN, NEW s \in Seq(Statement), LookupsOnly(s)
    PROVE  When(condition, s) \in Seq(Statement) /\ LookupsOnly(When(condition, s))
<1>1. <<>> \in Seq(Statement)
  BY EmptySeq
<1>2. LookupsOnly(<<>>)
  BY ONLY StillNone DEF LookupsOnly
<1> QED
  BY <1>1, <1>2 DEF When

LEMMA LookupsAlone ==
    ASSUME NEW x \in Statement, NEW y \in Statement,
           x[1] # "lock" /\ x[1] # "recheck reversible", y[1] # "lock" /\ y[1] # "recheck reversible"
    PROVE  /\ <<x>> \in Seq(Statement) /\ LookupsOnly(<<x>>)
           /\ <<x, y>> \in Seq(Statement) /\ LookupsOnly(<<x, y>>)
<1>1. \A z : /\ Still(<<x>>, z) => z = x
             /\ Still(<<x, y>>, z) => z = x \/ z = y
  BY StillOne, StillTwo
<1>2. LookupsOnly(<<x>>) /\ LookupsOnly(<<x, y>>)
  BY <1>1 DEF LookupsOnly
<1>3. <<x>> \in Seq(Statement)
  BY ONLY x \in Statement
<1>4. <<x, y>> \in Seq(Statement)
  BY ONLY x \in Statement, y \in Statement
<1> QED
  BY ONLY <1>2, <1>3, <1>4

LEMMA WhenFits ==
    ASSUME NEW c, NEW condition \in BOOLEAN, NEW s \in Seq(Statement), Fits(c, s)
    PROVE  When(condition, s) \in Seq(Statement) /\ Fits(c, When(condition, s))
<1>1. <<>> \in Seq(Statement) /\ Fits(c, <<>>)
  BY FitsNone
<1> QED
  BY <1>1 DEF When

LEMMA AccountBalanceFits ==
    ASSUME NEW c, c.request.op # "release", NEW a \in Accounts
    PROVE  AccountBalance(a) \in Seq(Statement) /\ Fits(c, AccountBalance(a))
<1> DEFINE x == Take("account", a)
           y == Take("balance", a)
           s == <<x, y>>
<1>1. x \in Statement /\ y \in Statement
  BY StatementFacts
<1>2. s \in Seq(Statement) /\ Len(s) = 2 /\ s[1] = x /\ s[2] = y
  BY <1>1
<1>3. /\ x[1] = "lock" /\ x[2][1] = "account" /\ x[2] = <<"account", a>>
      /\ y[1] = "lock" /\ y[2][1] = "balance" /\ y[2] = <<"balance", a>>
  BY DEF Take
<1>4. Ahead(c, x[2], y)
  <2>1. a <= a
    BY LocksAssumption
  <2>2. /\ <<"account", a>>[1] = "account" /\ <<"account", a>>[2] = a
        /\ <<"balance", a>>[1] = "balance" /\ <<"balance", a>>[2] = a
    OBVIOUS
  <2>3. AheadOfLock(c, <<"account", a>>, <<"balance", a>>)
    BY <2>1, <2>2 DEF AheadOfLock
  <2> HIDE DEF x, y
  <2> QED
    BY <1>3, <2>3 DEF Ahead
<1>5. x = Take("account", y[2][2])
  BY <1>3
<1> HIDE DEF x, y
<1>6. ASSUME NEW i \in 1..Len(s), NEW j \in 1..Len(s), i < j PROVE Ahead(c, s[i][2], s[j])
  <2>1. i = 1 /\ j = 2
    BY <1>2, <1>6
  <2> QED
    BY <1>2, <1>4, <2>1
<1>7. ASSUME NEW j \in 1..Len(s), s[j][2][1] = "balance"
      PROVE  \E i \in 1..Len(s) : i < j /\ s[i] = Take("account", s[j][2][2])
  <2>1. j = 2
    BY <1>2, <1>3, <1>7
  <2>2. 1 \in 1..Len(s) /\ 1 < j /\ s[1] = Take("account", s[j][2][2])
    BY <1>2, <1>5, <2>1
  <2> QED
    BY <2>2
<1> HIDE DEF s
<1>8. InLine(c, s) /\ AccountsFirst(c, s)
  BY <1>6, <1>7 DEF InLine, AccountsFirst
<1>9. s = AccountBalance(a)
  BY DEF s, x, y, AccountBalance
<1> QED
  BY <1>2, <1>8, <1>9 DEF Fits

LEMMA AccountBalancesFit ==
    ASSUME NEW c, c.request.op # "release", NEW a \in Accounts, NEW b \in Accounts
    PROVE  TransferAccountBalances(a, b) \in Seq(Statement) /\ Fits(c, TransferAccountBalances(a, b))
<1>1. ASSUME NEW m \in Accounts, NEW n \in Accounts, m <= n
      PROVE  /\ AccountBalance(m) \o AccountBalance(n) \in Seq(Statement)
             /\ Fits(c, AccountBalance(m) \o AccountBalance(n))
  <2>1. /\ AccountBalance(m) \in Seq(Statement) /\ Fits(c, AccountBalance(m))
        /\ AccountBalance(n) \in Seq(Statement) /\ Fits(c, AccountBalance(n))
    BY AccountBalanceFits
  <2>2. ASSUME NEW x, NEW y, Still(AccountBalance(m), x), Still(AccountBalance(n), y)
        PROVE  Ahead(c, x[2], y)
    <3>1. x \in {Take("account", m), Take("balance", m)} /\ y \in {Take("account", n), Take("balance", n)}
      BY <2>2, AccountBalanceFacts
    <3>2. x[2][1] \in {"account", "balance"} /\ x[2][2] = m
      BY <3>1 DEF Take
    <3>3. y[1] = "lock" /\ y[2][1] \in {"account", "balance"} /\ y[2][2] = n
      BY <3>1 DEF Take
    <3> QED
      BY <1>1, <3>2, <3>3 DEF Ahead, AheadOfLock
  <2> QED
    BY <2>1, <2>2, FitsBoth, ConcatProperties
<1>2. a \in Int /\ b \in Int
  BY LocksAssumption
<1>3. CASE b < a
  BY <1>1, <1>2, <1>3 DEF TransferAccountBalances
<1>4. CASE ~(b < a)
  <2>1. a <= b
    BY <1>2, <1>4
  <2> QED
    BY <1>1, <1>4, <2>1 DEF TransferAccountBalances
<1> QED
  BY <1>3, <1>4

LEMMA ReplayKeysFit ==
    ASSUME NEW c, NEW r \in RecordRequest
    PROVE  ReplayKeys(r) \in Seq(Statement) /\ Fits(c, ReplayKeys(r)) /\ KeysOnly(ReplayKeys(r))
<1> DEFINE x == Take("idempotency", r.key)
           y == Take("provider_event", r.event)
           z == Take("provider_reference", r.reference)
           s == <<x>>
           t == When(r.event # Nil, <<y>>)
           u == When(ByReference(r), <<z>>)
<1>1. r.key \in Keys /\ r.event \in Events \cup {Nil} /\ r.reference \in Reference
  BY DEF RecordRequest
<1>2. x \in Statement /\ z \in Statement /\ (r.event # Nil => y \in Statement)
  BY <1>1, StatementFacts
<1>3. /\ x[1] = "lock" /\ x[2][1] = "idempotency" /\ y[1] = "lock" /\ y[2][1] = "provider_event"
      /\ z[1] = "lock" /\ z[2][1] = "provider_reference"
  BY DEF Take
<1> HIDE DEF x, y, z
<1>4. s \in Seq(Statement) /\ Fits(c, s) /\ \A w : Still(s, w) => w = x
  BY <1>2, <1>3, FitsOne, StillOne
<1>5. t \in Seq(Statement) /\ Fits(c, t) /\ \A w : Still(t, w) => w = y
  BY <1>2, <1>3, FitsOne, StillOne, FitsNone, StillNone DEF When
<1>6. u \in Seq(Statement) /\ Fits(c, u) /\ \A w : Still(u, w) => w = z
  BY <1>2, <1>3, FitsOne, StillOne, FitsNone, StillNone DEF When
<1>7. ReplayKeys(r) = s \o t \o u
  BY DEF ReplayKeys, x, y, z
<1> HIDE DEF s, t, u
<1>8. /\ s \o t \in Seq(Statement) /\ s \o t \o u \in Seq(Statement)
      /\ \A w : Still(s \o t, w) <=> Still(s, w) \/ Still(t, w)
      /\ \A w : Still(s \o t \o u, w) <=> Still(s \o t, w) \/ Still(u, w)
  <2>1. s \o t \in Seq(Statement) /\ \A w : Still(s \o t, w) <=> Still(s, w) \/ Still(t, w)
    BY <1>4, <1>5, StillBoth, ConcatProperties
  <2> QED
    BY <1>6, <2>1, StillBoth, ConcatProperties
<1>9. /\ KeyRank("idempotency") = 1 /\ KeyRank("provider_event") = 2 /\ KeyRank("provider_reference") = 3
      /\ LockRank("idempotency") = 1 /\ LockRank("provider_event") = 1 /\ LockRank("provider_reference") = 1
  BY DEF KeyRank, LockRank
<1>10. Ahead(c, x[2], y) /\ Ahead(c, x[2], z) /\ Ahead(c, y[2], z)
  BY <1>3, <1>9 DEF Ahead, AheadOfLock
<1>11. Fits(c, s \o t)
  BY <1>4, <1>5, <1>10, FitsBoth
<1>12. Fits(c, s \o t \o u)
  <2>1. \A v, w : Still(s \o t, v) /\ v[1] = "lock" /\ Still(u, w) => Ahead(c, v[2], w)
    BY <1>4, <1>5, <1>6, <1>8, <1>10
  <2> QED
    BY <1>6, <1>8, <1>11, <2>1, FitsBoth
<1>13. KeysOnly(s \o t \o u)
  BY <1>3, <1>4, <1>5, <1>6, <1>8, <1>9 DEF KeysOnly
<1> QED
  BY <1>7, <1>8, <1>12, <1>13

LEMMA RecordFits ==
    ASSUME NEW c, c.request.op # "release", NEW r \in RecordRequest
    PROVE  Fits(c, RecordTransfer(r))
<1> DEFINE a == <<"find", "key">>
           b == <<"find", "event">>
           e == <<"find", "pending">>
           f == <<"find", "settled">>
           g == <<"check funds", r.account>>
           keys == ReplayKeys(r)
           s == <<a>>
           t == When(r.event # Nil, <<b>>)
           u == When(ByReference(r), <<e, f>>)
           v == TransferAccountBalances(r.account, r.clearing)
           w == When(ChecksFunds(r), <<g>>)
<1>1. r.account \in Accounts /\ r.clearing \in Accounts /\ ByReference(r) \in BOOLEAN /\ ChecksFunds(r) \in BOOLEAN
  BY DEF RecordRequest, ByReference, ChecksFunds
<1>2. a \in Statement /\ b \in Statement /\ e \in Statement /\ f \in Statement /\ g \in Statement
  BY <1>1, StatementFacts
<1>3. a[1] = "find" /\ b[1] = "find" /\ e[1] = "find" /\ f[1] = "find" /\ g[1] = "check funds"
  OBVIOUS
<1> HIDE DEF a, b, e, f, g
<1>4. keys \in Seq(Statement) /\ Fits(c, keys) /\ KeysOnly(keys)
  BY ReplayKeysFit
<1>5. s \in Seq(Statement) /\ LookupsOnly(s)
  BY <1>2, <1>3, LookupsAlone
<1>6. t \in Seq(Statement) /\ LookupsOnly(t)
  <2>1. <<b>> \in Seq(Statement) /\ LookupsOnly(<<b>>) /\ (r.event # Nil) \in BOOLEAN
    BY <1>2, <1>3, LookupsAlone
  <2> QED
    BY <2>1, WhenLookups
<1>7. u \in Seq(Statement) /\ LookupsOnly(u)
  <2>1. <<e, f>> \in Seq(Statement) /\ LookupsOnly(<<e, f>>)
    BY <1>2, <1>3, LookupsAlone
  <2> QED
    BY <1>1, <2>1, WhenLookups
<1>8. /\ v \in Seq(Statement) /\ Fits(c, v)
      /\ \A y : Still(v, y) => y[1] = "lock" /\ y[2][1] \in {"account", "balance"}
  <2>1. \A y : Still(v, y) => y \in {Take("account", r.account), Take("balance", r.account),
                                     Take("account", r.clearing), Take("balance", r.clearing)}
    BY <1>1, AccountBalancesFacts
  <2>2. \A x : /\ Take("account", x)[1] = "lock" /\ Take("account", x)[2][1] = "account"
               /\ Take("balance", x)[1] = "lock" /\ Take("balance", x)[2][1] = "balance"
    BY DEF Take
  <2> HIDE DEF v
  <2>3. \A y : Still(v, y) => y[1] = "lock" /\ y[2][1] \in {"account", "balance"}
    BY <2>1, <2>2
  <2> QED
    BY <1>1, <2>3, AccountBalancesFit DEF v
<1>9. w \in Seq(Statement) /\ \A y : Still(w, y) => y[1] = "check funds"
  <2>1. <<g>> \in Seq(Statement) /\ \A y : Still(<<g>>, y) => y = g
    BY <1>2, StillOne
  <2>2. <<>> \in Seq(Statement) /\ \A y : ~Still(<<>>, y)
    BY StillNone
  <2> QED
    BY <1>3, <2>1, <2>2 DEF When
<1>10. RecordTransfer(r) = keys \o s \o t \o u \o v \o w
  BY DEF RecordTransfer, a, b, e, f, g
<1> HIDE DEF keys, s, t, u, v, w
<1>11. keys \o s \in Seq(Statement) /\ Fits(c, keys \o s) /\ KeysOnly(keys \o s)
  BY <1>4, <1>5, KeysThenLookups
<1>12. keys \o s \o t \in Seq(Statement) /\ Fits(c, keys \o s \o t) /\ KeysOnly(keys \o s \o t)
  BY <1>6, <1>11, KeysThenLookups
<1>13. keys \o s \o t \o u \in Seq(Statement) /\ Fits(c, keys \o s \o t \o u) /\ KeysOnly(keys \o s \o t \o u)
  BY <1>7, <1>12, KeysThenLookups
<1> DEFINE n == keys \o s \o t \o u
<1> HIDE DEF n
<1>14. n \in Seq(Statement) /\ Fits(c, n) /\ KeysOnly(n)
  BY <1>13 DEF n
<1>15. n \o v \in Seq(Statement) /\ Fits(c, n \o v)
  <2>1. ASSUME NEW x, NEW y, Still(n, x), x[1] = "lock", Still(v, y) PROVE Ahead(c, x[2], y)
    <3>1. LockRank(x[2][1]) = 1 /\ LockRank(y[2][1]) = 6 /\ y[1] = "lock" /\ y[2][1] # "lien"
      BY <1>8, <1>14, <2>1, LockRanks DEF KeysOnly
    <3> QED
      BY <3>1 DEF Ahead, AheadOfLock
  <2> QED
    BY <1>8, <1>14, <2>1, FitsBoth, ConcatProperties
<1>16. Fits(c, n \o v \o w)
  <2>1. \A x, y : Still(w, y) => Ahead(c, x, y)
    BY <1>9 DEF Ahead, AheadOfLookup
  <2>2. Fits(c, w)
    BY <1>9, NoLocksFit
  <2> QED
    BY <1>9, <1>15, <2>1, <2>2, FitsBoth
<1> QED
  BY <1>10, <1>16 DEF n

LEMMA ReviewFits ==
    ASSUME NEW c, c.request.op # "release", NEW r \in Request, r.op = "review"
    PROVE  Fits(c, RecordProviderEventReview(r))
<1> DEFINE x == Take("idempotency", r.key)
           y == Take("provider_event", r.event)
           a == <<"find", "event">>
           b == <<"find", "key">>
           s == <<x>>
           t == When(r.event # Nil, <<y, a>>)
           u == <<b>>
           v == AccountBalance(r.account)
<1>1. r.key \in Keys /\ r.event \in Events \cup {Nil} /\ r.account \in Accounts
  BY RequestFacts
<1>2. x \in Statement /\ a \in Statement /\ b \in Statement /\ (r.event # Nil => y \in Statement)
  BY <1>1, StatementFacts
<1>3. /\ x[1] = "lock" /\ x[2][1] = "idempotency" /\ y[1] = "lock" /\ y[2][1] = "provider_event"
      /\ a[1] = "find" /\ b[1] = "find"
  BY DEF Take
<1>4. RecordProviderEventReview(r) = s \o t \o u \o v
  BY DEF RecordProviderEventReview
<1> HIDE DEF x, y, a, b
<1>5. /\ KeyRank("idempotency") = 1 /\ KeyRank("provider_event") = 2
      /\ LockRank("idempotency") = 1 /\ LockRank("provider_event") = 1
  BY DEF KeyRank, LockRank
<1>6. Ahead(c, x[2], y) /\ Ahead(c, x[2], a) /\ Ahead(c, y[2], a)
  BY <1>3, <1>5 DEF Ahead, AheadOfLock, AheadOfLookup
<1>7. s \in Seq(Statement) /\ Fits(c, s) /\ \A z : Still(s, z) => z = x
  BY <1>2, <1>3, FitsOne, StillOne
<1>8. t \in Seq(Statement) /\ Fits(c, t) /\ \A z : Still(t, z) => z \in {y, a}
  <2>1. CASE r.event # Nil
    <3>1. <<y, a>> \in Seq(Statement) /\ t = <<y, a>>
      BY <1>2, <2>1 DEF When
    <3>2. Fits(c, <<y, a>>)
      BY <1>3, <1>6, FitsTwo
    <3>3. \A z : Still(<<y, a>>, z) => z \in {y, a}
      BY StillTwo
    <3> QED
      BY <3>1, <3>2, <3>3
  <2>2. CASE r.event = Nil
    <3>1. t = <<>> /\ <<>> \in Seq(Statement)
      BY <2>2, EmptySeq DEF When
    <3> QED
      BY <3>1, FitsNone, StillNone
  <2> QED
    BY <2>1, <2>2
<1>9. u \in Seq(Statement) /\ LookupsOnly(u)
  BY <1>2, <1>3, LookupsAlone
<1>10. /\ v \in Seq(Statement) /\ Fits(c, v)
       /\ \A z : Still(v, z) => z[1] = "lock" /\ z[2][1] \in {"account", "balance"}
  <2>1. \A z : Still(v, z) => z \in {Take("account", r.account), Take("balance", r.account)}
    BY <1>1, AccountBalanceFacts
  <2>2. \A z : /\ Take("account", z)[1] = "lock" /\ Take("account", z)[2][1] = "account"
               /\ Take("balance", z)[1] = "lock" /\ Take("balance", z)[2][1] = "balance"
    BY DEF Take
  <2> HIDE DEF v
  <2>3. \A z : Still(v, z) => z[1] = "lock" /\ z[2][1] \in {"account", "balance"}
    BY <2>1, <2>2
  <2> QED
    BY <1>1, <2>3, AccountBalanceFits DEF v
<1> HIDE DEF s, t, u, v
<1>11. s \o t \in Seq(Statement) /\ Fits(c, s \o t) /\ KeysOnly(s \o t)
  <2>1. s \o t \in Seq(Statement) /\ \A z : Still(s \o t, z) <=> Still(s, z) \/ Still(t, z)
    BY <1>7, <1>8, StillBoth, ConcatProperties
  <2>2. \A z, w : Still(s, z) /\ Still(t, w) => Ahead(c, z[2], w)
    BY <1>6, <1>7, <1>8
  <2>3. Fits(c, s \o t)
    BY <1>7, <1>8, <2>2, FitsBoth
  <2>4. KeysOnly(s \o t)
    BY <1>3, <1>5, <1>7, <1>8, <2>1 DEF KeysOnly
  <2> QED
    BY <2>1, <2>3, <2>4
<1>12. s \o t \o u \in Seq(Statement) /\ Fits(c, s \o t \o u) /\ KeysOnly(s \o t \o u)
  BY <1>9, <1>11, KeysThenLookups
<1> DEFINE n == s \o t \o u
<1> HIDE DEF n
<1>13. n \in Seq(Statement) /\ Fits(c, n) /\ KeysOnly(n)
  BY <1>12 DEF n
<1>14. ASSUME NEW z, NEW w, Still(n, z), z[1] = "lock", Still(v, w) PROVE Ahead(c, z[2], w)
  <2>1. LockRank(z[2][1]) = 1 /\ LockRank(w[2][1]) = 6 /\ w[1] = "lock" /\ w[2][1] # "lien"
    BY <1>10, <1>13, <1>14, LockRanks DEF KeysOnly
  <2> QED
    BY <2>1 DEF Ahead, AheadOfLock
<1>15. Fits(c, n \o v)
  BY <1>10, <1>13, <1>14, FitsBoth
<1> QED
  BY <1>4, <1>15 DEF n

LEMMA PlaceFits ==
    ASSUME NEW c, c.request.op = "place", NEW r \in Request, r.op = "place"
    PROVE  Fits(c, PlaceAccountLien(r))
<1> DEFINE x == Take("account_lien_reference", r.lien)
           a == <<"find", "lien">>
           b == <<"check funds", r.account>>
           s == <<x>>
           t == AccountBalance(r.account)
           u == <<a, b>>
<1>1. r.account \in Accounts /\ r.lien \in LienReferences
  BY RequestFacts DEF Accounts
<1>2. x \in Statement /\ a \in Statement /\ b \in Statement
  BY <1>1, StatementFacts
<1>3. /\ x[1] = "lock" /\ x[2][1] = "account_lien_reference" /\ a[1] = "find" /\ b[1] = "check funds"
      /\ a = <<"find", "lien">>
  BY DEF Take
<1>4. PlaceAccountLien(r) = s \o t \o u
  BY DEF PlaceAccountLien
<1> HIDE DEF x, a, b
<1>5. s \in Seq(Statement) /\ Fits(c, s) /\ \A z : Still(s, z) => z = x
  <2>1. s \in Seq(Statement) /\ \A z : Still(s, z) => z = x
    BY <1>2, StillOne
  <2>2. Fits(c, s)
    BY <1>3, FitsOne
  <2> QED
    BY <2>1, <2>2
<1>6. /\ t \in Seq(Statement) /\ Fits(c, t)
      /\ \A z : Still(t, z) => z[1] = "lock" /\ z[2][1] \in {"account", "balance"}
  <2>1. \A z : Still(t, z) => z \in {Take("account", r.account), Take("balance", r.account)}
    BY <1>1, AccountBalanceFacts
  <2>2. \A z : /\ Take("account", z)[1] = "lock" /\ Take("account", z)[2][1] = "account"
               /\ Take("balance", z)[1] = "lock" /\ Take("balance", z)[2][1] = "balance"
    BY DEF Take
  <2> HIDE DEF t
  <2>3. \A z : Still(t, z) => z[1] = "lock" /\ z[2][1] \in {"account", "balance"}
    BY <2>1, <2>2
  <2> QED
    BY <1>1, <2>3, AccountBalanceFits DEF t
<1>7. u \in Seq(Statement) /\ \A z : Still(u, z) => z = a \/ z = b
  BY <1>2, StillTwo
<1> HIDE DEF s, t, u
<1>8. s \o t \in Seq(Statement) /\ \A z : Still(s \o t, z) <=> Still(s, z) \/ Still(t, z)
  BY <1>5, <1>6, StillBoth, ConcatProperties
<1>9. ASSUME NEW z, NEW w, Still(s, z), Still(t, w) PROVE Ahead(c, z[2], w)
  <2>1. LockRank(z[2][1]) = 1 /\ LockRank(w[2][1]) = 6 /\ w[1] = "lock" /\ w[2][1] # "lien"
    BY <1>3, <1>5, <1>6, <1>9, LockRanks
  <2> QED
    BY <2>1 DEF Ahead, AheadOfLock
<1>10. Fits(c, s \o t)
  BY <1>5, <1>6, <1>9, FitsBoth
<1>11. ASSUME NEW z, NEW w, Still(s \o t, z), Still(u, w) PROVE Ahead(c, z[2], w)
  <2>1. LockRank(z[2][1]) = 1 \/ z[2][1] \in {"account", "balance"}
    BY <1>3, <1>5, <1>6, <1>8, <1>11, LockRanks
  <2>2. w = a \/ w = b
    BY <1>7, <1>11
  <2> QED
    BY <1>3, <2>1, <2>2 DEF Ahead, AheadOfLookup
<1>12. \A z : Still(u, z) => z[1] # "lock"
  BY <1>3, <1>7
<1>13. Fits(c, u)
  BY <1>12, NoLocksFit
<1>14. Fits(c, s \o t \o u)
  BY <1>7, <1>8, <1>10, <1>11, <1>13, FitsBoth
<1> QED
  BY <1>4, <1>14

LEMMA StatementsFit ==
    ASSUME NEW c, NEW r \in Request, c.request = r
    PROVE  Fits(c, Statements(r))
<1>1. r.op \in {"record", "complete", "reverse", "review", "control", "place", "release"}
  BY RequestFacts
<1>2. CASE r.op = "record"
  BY <1>2, RequestFacts, RecordFits DEF Statements
<1>3. CASE r.op = "complete"
  <2> DEFINE x == Take("transfer", r.transfer)
             y == <<"recheck pending", r.transfer>>
  <2>1. x[1] = "lock" /\ x[2][1] = "transfer" /\ y[1] = "recheck pending"
    BY DEF Take
  <2>2. Statements(r) = <<x, y>>
    BY <1>3 DEF Statements
  <2> HIDE DEF x, y
  <2> QED
    BY <2>1, <2>2, FitsTwo DEF Ahead, AheadOfLookup
<1>4. CASE r.op = "reverse"
  <2> DEFINE x == Take("transfer", r.transfer)
             y == <<"recheck reversible", r.transfer>>
  <2>1. /\ x[1] = "lock" /\ x[2][1] = "transfer" /\ x[2] = <<"transfer", y[2]>>
        /\ y[1] = "recheck reversible"
    BY DEF Take
  <2>2. Statements(r) = <<x, y>>
    BY <1>4 DEF Statements
  <2> HIDE DEF x, y
  <2> QED
    BY <2>1, <2>2, FitsTwo DEF Ahead, AheadOfLookup
<1>5. CASE r.op = "review"
  BY <1>5, ReviewFits DEF Statements
<1>6. CASE r.op = "control"
  <2> DEFINE x == Take("account", r.account)
  <2>1. x[1] = "lock" /\ x[2][1] = "account"
    BY DEF Take
  <2>2. Statements(r) = <<x>>
    BY <1>6 DEF Statements
  <2> HIDE DEF x
  <2> QED
    BY <2>1, <2>2, FitsOne
<1>7. CASE r.op = "place"
  BY <1>7, PlaceFits DEF Statements
<1>8. CASE r.op = "release"
  <2> DEFINE x == Take("lien", Lien(r.lien))
             y == <<"recheck lien", Lien(r.lien)>>
  <2>1. x[1] = "lock" /\ x[2][1] = "lien" /\ y[1] = "recheck lien"
    BY DEF Take
  <2>2. Statements(r) = <<x, y>>
    BY <1>8 DEF Statements
  <2> HIDE DEF x, y
  <2> QED
    BY <2>1, <2>2, FitsTwo DEF Ahead, AheadOfLookup
<1> QED
  BY <1>1, <1>2, <1>3, <1>4, <1>5, <1>6, <1>7, <1>8

-----------------------------------------------------------------------------
(***************************************************************************)
(* Its order stays so, whatever a transaction does next.                   *)
(***************************************************************************)
LEMMA AheadGrows ==
    ASSUME NEW c, NEW d, d.request = c.request, c.held \subseteq d.held, NEW h, NEW y, Ahead(c, h, y)
    PROVE  Ahead(d, h, y)
<1>1. \A x : Original(c, x) => Original(d, x)
  BY DEF Original
<1>2. \A x : Repeats(c, x) => Repeats(d, x)
  BY DEF Repeats
<1>3. CASE y[1] = "lock"
  BY <1>1, <1>2, <1>3 DEF Ahead, AheadOfLock
<1>4. CASE y[1] # "lock"
  BY <1>1, <1>2, <1>4 DEF Ahead, AheadOfLookup
<1> QED
  BY <1>3, <1>4

\* The tables may change: a row keeps its reference.
LEMMA AheadStays ==
    ASSUME NEW c, NEW d, d.request = c.request, d.held = c.held, \A k \in Created : RowKept(k),
           NEW h, NEW y, Ahead(c, h, y)
    PROVE  Ahead(d, h, y)'
<1>1. WithReference(c.request) \subseteq WithReference(c.request)'
  BY DEF WithReference, RowKept
<1>2. \A x : Original(c, x) => Original(d, x)
  BY DEF Original
<1>3. \A x : Repeats(c, x) => Repeats(d, x)'
  BY <1>1 DEF Repeats
<1>4. CASE y[1] = "lock"
  BY <1>2, <1>3, <1>4 DEF Ahead, AheadOfLock, Original
<1>5. CASE y[1] # "lock"
  BY <1>2, <1>3, <1>5 DEF Ahead, AheadOfLookup, Original
<1> QED
  BY <1>4, <1>5

LEMMA ClimbsStays ==
    ASSUME NEW c, NEW d, d.request = c.request, d.held = c.held, d.todo = c.todo,
           \A k \in Created : RowKept(k), Climbs(c)
    PROVE  Climbs(d)'
<1>1. \A h, y : Ahead(c, h, y) => Ahead(d, h, y)'
  BY AheadStays
<1>2. HeldFirst(d)'
  BY <1>1 DEF Climbs, HeldFirst
<1>3. InLine(d, d.todo)'
  BY <1>1 DEF Climbs, Fits, InLine
<1>4. AccountsFirst(d, d.todo) /\ HoldsAccounts(d)
  BY DEF Climbs, Fits, AccountsFirst, HoldsAccounts
<1> QED
  BY <1>2, <1>3, <1>4 DEF Climbs, Fits, AccountsFirst, HoldsAccounts

LEMMA AllClimbOn ==
    ASSUME LInv, AllClimb, NEW p \in Calls, NEW d, call' = [call EXCEPT ![p] = d],
           UNCHANGED <<transfers, lien, funds>>, d # Idle => Climbs(d)
    PROVE  AllClimb'
<1>1. TablesOK
  BY InvariantFacts
<1>2. \A k \in Created : RowKept(k)
  BY <1>1, NothingUndisturbs DEF Undisturbed
<1>3. call'[p] = d /\ \A q \in Calls \ {p} : call'[q] = call[q]
  BY DEF LInv, LocksTypeOK
<1>4. ASSUME NEW q \in Running' PROVE Climbs(call[q])'
  <2>1. q \in Calls /\ call'[q] # Idle
    BY DEF Running
  <2>2. CASE q = p
    <3>1. Climbs(d) /\ call'[q] = d
      BY <1>3, <2>1, <2>2
    <3> QED
      BY <1>2, <3>1, ClimbsStays
  <2>3. CASE q # p
    <3>1. q \in Running /\ call'[q] = call[q]
      BY <1>3, <2>1, <2>3 DEF Running
    <3>2. Climbs(call[q])
      BY <3>1 DEF AllClimb
    <3> QED
      BY <1>2, <3>1, <3>2, ClimbsStays
  <2> QED
    BY <2>2, <2>3
<1> QED
  BY <1>4 DEF AllClimb

LEMMA ClimbsPast ==
    ASSUME NEW c, NEW d, c.todo \in Seq(Statement), c.todo # <<>>, Head(c.todo)[1] # "lock", Climbs(c),
           d.request = c.request, d.held = c.held, d.todo = Tail(c.todo)
    PROVE  Climbs(d)
<1>1. \A h, y : Ahead(c, h, y) => Ahead(d, h, y)
  BY AheadGrows
<1>2. HeldFirst(d)
  BY <1>1, StillHead DEF Climbs, HeldFirst
<1>3. \A a : Head(c.todo) # Take("account", a)
  BY DEF Take
<1>4. Fits(d, d.todo)
  BY <1>1, <1>3, FitsTail DEF Climbs
<1>5. HoldsAccounts(d)
  BY DEF Climbs, HoldsAccounts
<1> QED
  BY <1>2, <1>4, <1>5 DEF Climbs

LEMMA ClimbsOn ==
    ASSUME NEW c, NEW d, NEW x, c.todo \in Seq(Statement), c.todo # <<>>, Head(c.todo) = <<"lock", x>>,
           x \in Lock, Climbs(c), d.request = c.request, d.held = c.held \cup {x}, d.todo = Tail(c.todo)
    PROVE  Climbs(d)
<1>1. \A h, y : Ahead(c, h, y) => Ahead(d, h, y)
  BY AheadGrows
<1>2. /\ Head(c.todo) = c.todo[1] /\ Len(c.todo) \in Nat /\ Len(c.todo) >= 1
      /\ Len(d.todo) = Len(c.todo) - 1 /\ \A i \in 1..Len(d.todo) : d.todo[i] = c.todo[i + 1]
  BY HeadTailProperties, EmptySeq, LenProperties
<1>3. ASSUME NEW y, Still(d.todo, y) PROVE Ahead(c, x, y)
  <2>1. PICK i \in 1..Len(d.todo) : d.todo[i] = y
    BY <1>3 DEF Still
  <2>2. i + 1 \in 1..Len(c.todo) /\ 1 \in 1..Len(c.todo) /\ 1 < i + 1 /\ c.todo[i + 1] = y
    BY <1>2, <2>1
  <2>3. c.todo[1][1] = "lock" /\ c.todo[1][2] = x
    BY <1>2
  <2> QED
    BY <2>2, <2>3 DEF Climbs, Fits, InLine
<1>4. HeldFirst(d)
  <2>1. ASSUME NEW h \in c.held, NEW y, Still(d.todo, y) PROVE Ahead(c, h, y)
    BY <2>1, StillHead DEF Climbs, HeldFirst
  <2> QED
    BY <1>1, <1>3, <2>1 DEF HeldFirst
<1>5. \A a : Head(c.todo) = Take("account", a) => <<"account", a>> \in d.held
  BY DEF Take
<1>6. Fits(d, d.todo)
  BY <1>1, <1>5, FitsTail DEF Climbs
<1>7. HoldsAccounts(d)
  <2>1. ASSUME d.request.op # "release", NEW a, x = <<"balance", a>> PROVE <<"account", a>> \in d.held
    <3>1. c.todo[1] = <<"lock", <<"balance", a>>>>
      BY <1>2, <2>1
    <3>2. /\ 1 \in 1..Len(c.todo) /\ c.todo[1][1] = "lock" /\ c.todo[1][2][1] = "balance"
          /\ c.todo[1][2][2] = a
      BY <1>2, <3>1
    <3>3. ~\E i \in 1..Len(c.todo) : i < 1
      BY <1>2
    <3>4. <<"account", c.todo[1][2][2]>> \in c.held
      BY <2>1, <3>2, <3>3 DEF Climbs, Fits, AccountsFirst
    <3> QED
      BY <3>2, <3>4
  <2> QED
    BY <2>1 DEF Climbs, HoldsAccounts
<1> QED
  BY <1>4, <1>6, <1>7 DEF Climbs

LEMMA NothingClimbs ==
    ASSUME NEW c, NEW d, Climbs(c), d.request = c.request, d.held = c.held, d.todo = <<>>
    PROVE  Climbs(d)
<1>1. HeldFirst(d)
  BY StillNone DEF HeldFirst
<1>2. HoldsAccounts(d)
  BY DEF Climbs, HoldsAccounts
<1> QED
  BY <1>1, <1>2, FitsNone DEF Climbs

\* It locks one more transfer, the row it found.
LEMMA ReplayClimbs ==
    ASSUME NEW c, NEW d, NEW k, Climbs(c), d.request = c.request, d.held = c.held,
           d.todo = <<Take("transfer", k)>>, NEW what, Still(c.todo, <<"find", what>>),
           \/ what = "key"
           \/ what = "settled" /\ c.request.op = "record" /\ k \in WithReference(c.request)
    PROVE  Climbs(d)
<1> DEFINE x == <<"transfer", k>>
           y == <<"lock", x>>
           f == <<"find", what>>
<1>1. x[1] = "transfer" /\ x[2] = k /\ y[1] = "lock" /\ y[2] = x /\ d.todo = <<y>> /\ f[1] = "find" /\ f[2] = what
  BY DEF Take
<1>2. what = "settled" \/ f # <<"find", "settled">>
  OBVIOUS
<1>3. what # "lien" => f # <<"find", "lien">>
  OBVIOUS
<1> HIDE DEF x, y
<1>4. ASSUME NEW h \in c.held PROVE Ahead(d, h, y)
  <2>1. Ahead(c, h, f)
    BY DEF Climbs, HeldFirst
  <2> HIDE DEF f
  <2>2. AheadOfLookup(c, h, f)
    BY <1>1, <2>1 DEF Ahead
  <2>3. LockRank(h[1]) = 1 \/ Original(c, h) \/ (f = <<"find", "settled">> /\ Repeats(c, h))
    BY <1>1, <1>2, <1>3, <2>2 DEF AheadOfLookup
  <2>4. CASE LockRank(h[1]) = 1
    <3>1. LockRank(h[1]) < LockRank(x[1]) /\ x[1] # "lien"
      BY <1>1, <2>4, LockRanks
    <3> QED
      BY <1>1, <3>1 DEF Ahead, AheadOfLock
  <2>5. CASE Original(c, h)
    BY <1>1, <2>5 DEF Ahead, AheadOfLock, Original
  <2>6. CASE f = <<"find", "settled">> /\ Repeats(c, h)
    <3>1. what = "settled"
      BY <1>1, <2>6
    <3>2. Repeats(d, h) /\ Repeats(d, x)
      BY <1>1, <2>6, <3>1 DEF Repeats
    <3> QED
      BY <1>1, <3>2 DEF Ahead, AheadOfLock
  <2> QED
    BY <2>3, <2>4, <2>5, <2>6
<1>5. HeldFirst(d)
  BY <1>1, <1>4, StillOne DEF HeldFirst
<1>6. Fits(d, <<y>>)
  BY <1>1, FitsOne
<1>7. HoldsAccounts(d)
  BY DEF Climbs, HoldsAccounts
<1> QED
  BY <1>1, <1>5, <1>6, <1>7 DEF Climbs

\* It locks what it found, and looks again, before it goes on.
LEMMA InsertClimbs ==
    ASSUME NEW c, NEW d, NEW h, LooksUp(c, d, h), Climbs(c),
           NEW x, NEW y \in Statement, NEW z \in Statement, y[1] = "lock", y[2] = x, x[1] # "balance",
           z[1] # "lock", DoesFirst(c, d, y, z),
           \A u \in c.held : Ahead(d, u, y) /\ Ahead(d, u, z),
           Ahead(d, x, z), \A v : Still(Tail(c.todo), v) => Ahead(d, x, v)
    PROVE  Climbs(d)
<1>1. /\ d.request = c.request /\ d.held = c.held /\ c.todo \in Seq(Statement) /\ c.todo # <<>>
      /\ Head(c.todo)[1] # "lock"
  BY DEF LooksUp
<1>2. Tail(c.todo) \in Seq(Statement) /\ \A u : Still(Tail(c.todo), u) => Still(c.todo, u)
  BY AtLookup
<1>3. \A u : Still(d.todo, u) <=> u \in {y, z} \/ Still(Tail(c.todo), u)
  BY <1>2, InsertStill
<1>4. \A u, v : Ahead(c, u, v) => Ahead(d, u, v)
  BY <1>1, AheadGrows
<1>5. HeldFirst(d)
  <2>1. ASSUME NEW u \in c.held, NEW v, Still(Tail(c.todo), v) PROVE Ahead(d, u, v)
    BY <1>2, <1>4, <2>1 DEF Climbs, HeldFirst
  <2> QED
    BY <1>1, <1>3, <2>1 DEF HeldFirst
<1> DEFINE s == <<y, z>>
           rest == Tail(c.todo)
<1>6. Fits(d, rest)
  <2>1. \A a : Head(c.todo) # Take("account", a)
    BY <1>1 DEF Take
  <2> QED
    BY <1>1, <1>4, <2>1, FitsTail DEF Climbs
<1>7. Fits(d, s)
  BY FitsTwo
<1>8. s \in Seq(Statement)
  BY ONLY y \in Statement, z \in Statement
<1>9. \A u : Still(s, u) => u = y \/ u = z
  BY StillTwo
<1>10. d.todo = s \o rest
  BY DEF DoesFirst
<1>11. \A v : Still(rest, v) => Ahead(d, x, v)
  OBVIOUS
<1> HIDE DEF s, rest
<1>12. ASSUME NEW u, NEW v, Still(s, u), u[1] = "lock", Still(rest, v) PROVE Ahead(d, u[2], v)
  BY <1>9, <1>11, <1>12
<1>13. rest \in Seq(Statement)
  BY <1>2 DEF rest
<1>14. Fits(d, s \o rest)
  BY <1>6, <1>7, <1>8, <1>12, <1>13, FitsBoth
<1>15. HoldsAccounts(d)
  BY <1>1 DEF Climbs, HoldsAccounts
<1> QED
  BY <1>5, <1>10, <1>14, <1>15 DEF Climbs

LEMMA RanksOfLocks ==
    /\ LockRank("transfer") = 3 /\ LockRank("account") = 6 /\ LockRank("balance") = 6
    /\ LockRank("lien") = 7 /\ LockRank("hold") = 10
BY DEF LockRank

\* What is still to come after a lookup of a rank that occurs once.
LEMMA RestIsHigher ==
    ASSUME NEW c, NEW d, NEW h, LooksUp(c, d, h), Rank(h) \notin {1, 2, 6}, NEW u, Still(Tail(c.todo), u)
    PROVE  Rank(u) > Rank(h)
<1>1. Follows(h, u)
  BY AtLookup
<1> QED
  BY <1>1, RanksOfAll DEF Follows

\* The lock on a reference is held while the reference is looked up.
LEMMA ReferenceIsHeld ==
    ASSUME NEW c, NEW d, LooksUp(c, d, <<"find", "pending">>), c.request.op = "record"
    PROVE  <<"provider_reference", c.request.reference>> \in c.held
<1> DEFINE h == <<"find", "pending">>
           ref == <<"provider_reference", c.request.reference>>
<1>1. KeepsReference(c) /\ h \in Lookups(c)
  BY RecordAtLookup, AtLookup
<1>2. ByReference(c.request)
  <2>1. /\ h # <<"check funds", c.request.account>> /\ \A j : h # <<"recheck pending", j>>
        /\ h # <<"find", "key">> /\ h # <<"find", "event">>
    OBVIOUS
  <2> QED
    BY <1>1, <2>1, LookupsOfRecord
<1>3. Secures(c, ref)
  BY <1>1, <1>2 DEF KeepsReference, Secures
<1>4. Rank(<<"lock", ref>>) = 1 /\ Rank(h) = 4
  BY DEF Rank, LockRank, FindRank
<1>5. \A x : Secures(c, x) /\ Rank(<<"lock", x>>) < Rank(h) => x \in c.held
  BY AtLookup
<1> HIDE DEF h, ref
<1>6. Rank(<<"lock", ref>>) < Rank(h)
  BY ONLY <1>4
<1>7. ref \in c.held
  BY ONLY <1>3, <1>5, <1>6
<1> QED
  BY <1>7 DEF ref

\* Lookups after the one for pending transfers.
LEMMA LookupsAfterPending ==
    ASSUME NEW c, NEW d, LooksUp(c, d, <<"find", "pending">>), c.request.op = "record",
           NEW u, Still(Tail(c.todo), u), u[1] # "lock"
    PROVE  u = <<"find", "settled">> \/ u[1] = "check funds"
<1>1. Rank(<<"find", "pending">>) = 4
  BY Ranks
<1>2. Rank(<<"find", "pending">>) \notin {1, 2, 6}
  BY ONLY <1>1
<1>3. Rank(u) > 4
  BY <1>1, <1>2, RestIsHigher
<1>4. u \in Lookups(c)
  <2>1. \A i \in 1..Len(c.todo) : c.todo[i][1] # "lock" => c.todo[i] \in Lookups(c)
    BY DEF LooksUp, Knows
  <2>2. \A w : Still(c.todo, w) /\ w[1] # "lock" => w \in Lookups(c)
    BY <2>1, AllowedLookups
  <2>3. Still(c.todo, u)
    BY AtLookup
  <2> QED
    BY <2>2, <2>3
<1>5. \/ u = <<"find", "key">> \/ u = <<"find", "event">> \/ u = <<"find", "pending">> \/ u = <<"find", "settled">>
      \/ \E j : u = <<"recheck pending", j>>
      \/ u = <<"check funds", c.request.account>>
  BY <1>4, LookupsOfRecord
<1>6. /\ Rank(<<"find", "key">>) = 2 /\ Rank(<<"find", "event">>) = 2
      /\ \A j : Rank(<<"recheck pending", j>>) = 4
  BY Ranks
<1>7. u # <<"find", "key">> /\ u # <<"find", "event">> /\ u # <<"find", "pending">>
  <2>1. u = <<"find", "key">> => Rank(u) = 2
    BY ONLY <1>6
  <2>2. u = <<"find", "event">> => Rank(u) = 2
    BY ONLY <1>6
  <2>3. u = <<"find", "pending">> => Rank(u) = 4
    BY ONLY <1>1
  <2> QED
    BY ONLY <1>3, <2>1, <2>2, <2>3
<1>8. ASSUME NEW j, u = <<"recheck pending", j>> PROVE FALSE
  <2>1. Rank(u) = 4
    BY ONLY <1>6, <1>8
  <2> QED
    BY ONLY <1>3, <2>1
<1>9. u = <<"find", "settled">> \/ u = <<"check funds", c.request.account>>
  BY ONLY <1>5, <1>7, <1>8
<1>10. \A a : <<"check funds", a>>[1] = "check funds"
  BY ONLY TRUE
<1>11. ASSUME u = <<"check funds", c.request.account>> PROVE u[1] = "check funds"
  BY ONLY <1>10, <1>11
<1> QED
  BY ONLY <1>9, <1>11

\* It found a pending transfer with its reference, and locks it first.
LEMMA SettlingClimbs ==
    ASSUME NEW c, NEW d, NEW k \in PendingWith(c.request), LooksUp(c, d, <<"find", "pending">>),
           c.request.op = "record", DoesFirst(c, d, Take("transfer", k), <<"recheck pending", k>>), Climbs(c)
    PROVE  Climbs(d)
<1> DEFINE h == <<"find", "pending">>
           ref == <<"provider_reference", c.request.reference>>
           x == <<"transfer", k>>
           y == Take("transfer", k)
           z == <<"recheck pending", k>>
<1>1. LooksUp(c, d, h) /\ d.request = c.request /\ d.held = c.held /\ DoesFirst(c, d, y, z)
  BY DEF LooksUp
<1>2. /\ h[1] = "find" /\ h[2] = "pending" /\ h # <<"find", "settled">> /\ h # <<"find", "lien">>
      /\ z[1] = "recheck pending" /\ z[2] = k /\ y[1] = "lock" /\ y[2] = x /\ x[1] = "transfer" /\ x[2] = k
      /\ ref[1] = "provider_reference"
  BY DEF Take
<1>3. y \in Statement /\ z \in Statement /\ k \in WithReference(c.request)
  BY StatementFacts DEF PendingWith, WithReference, Created
<1>4. Still(c.todo, h)
  BY AtLookup
<1>5. Rank(h) = 4
  BY Ranks
<1>6. ref \in c.held
  BY ReferenceIsHeld
<1>7. Repeats(d, x)
  BY <1>1, <1>2, <1>3, <1>6 DEF Repeats
<1>8. \A u : Still(Tail(c.todo), u) => Still(c.todo, u)
  BY AtLookup
<1>9. \A u : Still(Tail(c.todo), u) /\ u[1] # "lock" => u = <<"find", "settled">> \/ u[1] = "check funds"
  BY LookupsAfterPending
<1> HIDE DEF h, ref, x, y, z
<1>10. \A u : Still(Tail(c.todo), u) => Rank(u) > 4
  <2>1. Rank(h) \notin {1, 2, 6}
    BY ONLY <1>5
  <2> QED
    BY <1>1, <1>5, <2>1, RestIsHigher
<1>11. LockRank(x[1]) = 3
  <2>1. x[1] = "transfer"
    BY <1>2
  <2> QED
    BY ONLY <2>1, RanksOfLocks
<1>12. ASSUME NEW u \in c.held PROVE Ahead(d, u, y) /\ Ahead(d, u, z)
  <2>1. Ahead(c, u, h)
    BY <1>4 DEF Climbs, HeldFirst
  <2>2. LockRank(u[1]) = 1 \/ Original(c, u)
    BY <1>2, <2>1 DEF Ahead, AheadOfLookup
  <2>3. CASE LockRank(u[1]) = 1
    <3>1. LockRank(u[1]) < LockRank(x[1])
      BY ONLY <1>11, <2>3
    <3>2. x[1] # "lien"
      BY <1>2
    <3> QED
      BY <1>2, <2>3, <3>1, <3>2 DEF Ahead, AheadOfLock, AheadOfLookup
  <2>4. CASE Original(c, u)
    <3>1. u[1] = "transfer" /\ Original(d, u)
      BY <1>1, <2>4 DEF Original
    <3> QED
      BY <1>2, <3>1 DEF Ahead, AheadOfLock, AheadOfLookup
  <2> QED
    BY <2>2, <2>3, <2>4
<1>13. ASSUME NEW v, Still(Tail(c.todo), v) PROVE Ahead(d, x, v)
  <2>1. CASE v[1] = "lock"
    <3>1. v[2][1] # "lien"
      <4>1. SUFFICES ASSUME v[2][1] = "lien" PROVE FALSE
        OBVIOUS
      <4>2. AheadOfLock(c, ref, v[2])
        BY <1>6, <1>8, <1>13, <2>1 DEF Climbs, HeldFirst, Ahead
      <4> QED
        BY <1>2, <4>1, <4>2, LockRanks DEF AheadOfLock, Original, Repeats
    <3>2. Rank(v) = LockRank(v[2][1]) /\ Rank(v) > 4
      BY <1>10, <1>13, <2>1 DEF Rank
    <3>3. LockRank(x[1]) < LockRank(v[2][1])
      BY ONLY <1>11, <3>2, LockRanks
    <3> QED
      BY <2>1, <3>1, <3>3 DEF Ahead, AheadOfLock
  <2>2. CASE v[1] # "lock"
    <3>1. v = <<"find", "settled">> \/ v[1] = "check funds"
      BY <1>9, <1>13, <2>2
    <3> QED
      BY <1>7, <2>2, <3>1 DEF Ahead, AheadOfLookup
  <2> QED
    BY <2>1, <2>2
<1>14. Ahead(d, x, z)
  BY <1>2 DEF Ahead, AheadOfLookup
<1>15. x[1] # "balance" /\ z[1] # "lock"
  BY <1>2
<1> QED
  BY <1>1, <1>2, <1>3, <1>12, <1>13, <1>14, <1>15, InsertClimbs

\* Nothing but a lock or a look at the balance comes after the lookups.
LEMMA HighestRank ==
    ASSUME NEW v, v[1] # "lock", Rank(v) > 8
    PROVE  v[1] = "check funds"
<1>1. Rank(v) \in 1..10 /\ Rank(v) > 8
  BY RanksOfAll
<1>2. Rank(v) # 8 /\ Rank(v) # 4 /\ Rank(v) \notin 1..8
  BY ONLY <1>1
<1>3. FindRank(v[2]) \in 1..8
  BY ONLY TRUE DEF FindRank
<1>4. v[1] # "find"
  <2>1. v[1] = "find" => Rank(v) = FindRank(v[2])
    BY ONLY TRUE DEF Rank
  <2> QED
    BY ONLY <1>2, <1>3, <2>1
<1>5. v[1] # "recheck lien"
  <2>1. v[1] = "recheck lien" => Rank(v) = 8
    BY ONLY TRUE DEF Rank
  <2> QED
    BY ONLY <1>2, <2>1
<1>6. v[1] \in {"lock", "find", "recheck lien", "check funds"}
  <2>1. v[1] \notin {"lock", "find", "recheck lien", "check funds"} => Rank(v) = 4
    BY ONLY TRUE DEF Rank
  <2> QED
    BY ONLY <1>2, <2>1
<1> QED
  BY <1>4, <1>5, <1>6

\* It found the lien it is to place, and locks it first.
LEMMA PlacingClimbs ==
    ASSUME NEW c, NEW d, NEW l \in LienReferences \X Nat, LooksUp(c, d, <<"find", "lien">>),
           c.request.op = "place", DoesFirst(c, d, Take("lien", l), <<"recheck lien", l>>), Climbs(c)
    PROVE  Climbs(d)
<1> DEFINE h == <<"find", "lien">>
           x == <<"lien", l>>
           y == Take("lien", l)
           z == <<"recheck lien", l>>
<1>1. LooksUp(c, d, h) /\ d.request = c.request /\ d.held = c.held /\ DoesFirst(c, d, y, z)
  BY DEF LooksUp
<1>2. /\ h[1] = "find" /\ h[2] = "lien" /\ h # <<"find", "settled">>
      /\ z[1] = "recheck lien" /\ y[1] = "lock" /\ y[2] = x /\ x[1] = "lien"
  BY DEF Take
<1>3. y \in Statement /\ z \in Statement
  BY StatementFacts
<1>4. Still(c.todo, h)
  BY AtLookup
<1>5. Rank(h) = 8
  BY Ranks
<1> HIDE DEF h, x, y, z
<1>6. \A u : Still(Tail(c.todo), u) => Rank(u) > 8
  <2>1. Rank(h) \notin {1, 2, 6}
    BY ONLY <1>5
  <2> QED
    BY <1>1, <1>5, <2>1, RestIsHigher
<1>7. LockRank(x[1]) = 7
  <2>1. x[1] = "lien"
    BY <1>2
  <2> QED
    BY ONLY <2>1, RanksOfLocks
<1>8. ASSUME NEW u \in c.held PROVE Ahead(d, u, y) /\ Ahead(d, u, z)
  <2>1. Ahead(c, u, h)
    BY <1>4 DEF Climbs, HeldFirst
  <2>2. LockRank(u[1]) = 1 \/ u[1] \in {"account", "balance"}
    BY <1>2, <2>1 DEF Ahead, AheadOfLookup
  <2>3. LockRank(u[1]) < LockRank(x[1])
    BY ONLY <1>7, <2>2, RanksOfLocks
  <2> QED
    BY <1>1, <1>2, <2>3 DEF Ahead, AheadOfLock, AheadOfLookup
<1>9. ASSUME NEW v, Still(Tail(c.todo), v) PROVE Ahead(d, x, v)
  <2>1. CASE v[1] = "lock"
    <3>1. Rank(v) = LockRank(v[2][1]) /\ Rank(v) > 8
      BY <1>6, <1>9, <2>1 DEF Rank
    <3>2. LockRank(x[1]) < LockRank(v[2][1])
      BY ONLY <1>7, <3>1, LockRanks
    <3> QED
      BY <1>1, <2>1, <3>2 DEF Ahead, AheadOfLock
  <2>2. CASE v[1] # "lock"
    <3>1. Rank(v) > 8
      BY <1>6, <1>9
    <3>2. v[1] = "check funds"
      BY ONLY <2>2, <3>1, HighestRank
    <3> QED
      BY <2>2, <3>2 DEF Ahead, AheadOfLookup
  <2> QED
    BY <2>1, <2>2
<1>10. Ahead(d, x, z)
  BY <1>1, <1>2 DEF Ahead, AheadOfLookup
<1>11. x[1] # "balance" /\ z[1] # "lock"
  BY <1>2
<1> QED
  BY <1>1, <1>2, <1>3, <1>8, <1>9, <1>10, <1>11, InsertClimbs

\* It settles the transfer it has locked.
LEMMA SettleClimbs ==
    ASSUME NEW c, NEW d, NEW k \in Created, transfers[k] \in Row, SettlesNext(c, d, k),
           LooksUp(c, d, <<"recheck pending", k>>), c.request.op \in {"record", "complete"}, Climbs(c)
    PROVE  Climbs(d)
<1> DEFINE h == <<"recheck pending", k>>
           row == transfers[k]
           a == IF c.request.status = "pending" /\ ~row.outbound
                THEN AccountBalance(row.account)
                ELSE TransferAccountBalances(row.account, row.clearing)
           hold == Take("hold", k)
           b == When(row.outbound, <<hold>>)
<1>1. d.request = c.request /\ d.held = c.held /\ d.request.op # "release" /\ Still(c.todo, h)
  BY AtLookup DEF LooksUp
<1>2. row.account \in Accounts /\ row.clearing \in Accounts /\ row.outbound \in BOOLEAN /\ k \in Keys
  BY DEF Row, Created
<1>3. h[1] = "recheck pending" /\ h # <<"find", "settled">> /\ h # <<"find", "lien">>
  OBVIOUS
<1>4. hold[1] = "lock" /\ hold[2][1] = "hold" /\ hold \in Statement
  BY <1>2, StatementFacts DEF Take
<1>5. a \in Seq(Statement) /\ Fits(d, a)
  BY <1>1, <1>2, AccountBalanceFits, AccountBalancesFit
<1>6. \A y : Still(a, y) => y[1] = "lock" /\ y[2][1] \in {"account", "balance"}
  <2>1. ASSUME NEW y, Still(a, y) PROVE \E z : y = Take("account", z) \/ y = Take("balance", z)
    <3>1. a = AccountBalance(row.account) \/ a = TransferAccountBalances(row.account, row.clearing)
      OBVIOUS
    <3> HIDE DEF a
    <3>2. CASE a = AccountBalance(row.account)
      BY <1>2, <2>1, <3>2, AccountBalanceFacts
    <3>3. CASE a = TransferAccountBalances(row.account, row.clearing)
      <4>1. y \in {Take("account", row.account), Take("balance", row.account),
                    Take("account", row.clearing), Take("balance", row.clearing)}
        BY <1>2, <2>1, <3>3, AccountBalancesFacts
      <4> QED
        BY ONLY <4>1
    <3> QED
      BY <3>1, <3>2, <3>3
  <2>2. \A z : /\ Take("account", z)[1] = "lock" /\ Take("account", z)[2][1] = "account"
               /\ Take("balance", z)[1] = "lock" /\ Take("balance", z)[2][1] = "balance"
    BY DEF Take
  <2> HIDE DEF a
  <2>3. ASSUME NEW y, Still(a, y) PROVE y[1] = "lock" /\ y[2][1] \in {"account", "balance"}
    <3>1. PICK z : y = Take("account", z) \/ y = Take("balance", z)
      BY <2>1, <2>3
    <3> QED
      BY ONLY <2>2, <3>1
  <2> QED
    BY <2>3
<1>7. d.todo = a \o b
  BY DEF SettlesNext
<1> HIDE DEF h, a, hold
<1>8. b \in Seq(Statement) /\ Fits(d, b)
  <2>1. \A y \in Statement : <<y>> \in Seq(Statement)
    BY ONLY TRUE
  <2>2. Fits(d, <<hold>>)
    BY <1>4, FitsOne
  <2> QED
    BY <1>2, <1>4, <2>1, <2>2, WhenFits
<1>9. \A y : Still(b, y) => y = hold
  BY StillOne, StillNone DEF When
<1> HIDE DEF b
<1>10. \A y : Still(d.todo, y) => y[1] = "lock" /\ LockRank(y[2][1]) \in {6, 10} /\ y[2][1] # "lien"
  <2>1. \A y : Still(a \o b, y) <=> Still(a, y) \/ Still(b, y)
    BY <1>5, <1>8, StillBoth
  <2>2. \A y : Still(a, y) => y[1] = "lock" /\ LockRank(y[2][1]) = 6 /\ y[2][1] # "lien"
    BY <1>6, LockRanks
  <2>3. hold[1] = "lock" /\ LockRank(hold[2][1]) = 10 /\ hold[2][1] # "lien"
    BY <1>4, RanksOfLocks
  <2> QED
    BY <1>7, <1>9, <2>1, <2>2, <2>3
<1>11. HeldFirst(d)
  <2>1. ASSUME NEW u \in c.held, NEW y, Still(d.todo, y) PROVE Ahead(d, u, y)
    <3>1. Ahead(c, u, h)
      BY <1>1 DEF Climbs, HeldFirst
    <3>2. LockRank(u[1]) = 1 \/ u[1] = "transfer"
      BY <1>3, <3>1 DEF Ahead, AheadOfLookup
    <3>3. LockRank(u[1]) \in {1, 3}
      BY ONLY <3>2, RanksOfLocks
    <3>4. LockRank(u[1]) < LockRank(y[2][1])
      BY ONLY <1>10, <2>1, <3>3
    <3> QED
      BY <1>10, <2>1, <3>4 DEF Ahead, AheadOfLock
  <2> QED
    BY <1>1, <2>1 DEF HeldFirst
<1>12. Fits(d, a \o b)
  <2>1. ASSUME NEW x, NEW y, Still(a, x), x[1] = "lock", Still(b, y) PROVE Ahead(d, x[2], y)
    <3>1. LockRank(x[2][1]) = 6
      BY <1>6, <2>1, LockRanks
    <3>2. y = hold
      BY <1>9, <2>1
    <3>3. LockRank(hold[2][1]) = 10 /\ hold[2][1] # "lien"
      BY ONLY <1>4, RanksOfLocks
    <3>4. LockRank(x[2][1]) < LockRank(y[2][1])
      BY ONLY <3>1, <3>2, <3>3
    <3> QED
      BY <1>4, <3>2, <3>3, <3>4 DEF Ahead, AheadOfLock
  <2> QED
    BY <1>5, <1>8, <2>1, FitsBoth
<1>13. HoldsAccounts(d)
  BY <1>1 DEF Climbs, HoldsAccounts
<1> QED
  BY <1>7, <1>11, <1>12, <1>13 DEF Climbs

\* It records the reversal of the transfer it has locked.
LEMMA ReversalClimbs ==
    ASSUME NEW c, NEW d, Climbs(c), Still(c.todo, <<"recheck reversible", c.request.transfer>>),
           c.request.op = "reverse", d.request \in RecordRequest, d.request.reversalOf = c.request.transfer,
           d.request.event = Nil, ~ChecksFunds(d.request),
           d.held = c.held, d.todo = RecordTransfer(d.request)
    PROVE  Climbs(d)
<1> DEFINE r == d.request
           h == <<"recheck reversible", c.request.transfer>>
<1>1. h[1] = "recheck reversible" /\ h[2] = c.request.transfer /\ Still(c.todo, h) /\ h # <<"find", "settled">>
      /\ h # <<"find", "lien">>
  OBVIOUS
<1> HIDE DEF h
<1>2. \A u \in d.held : Original(d, u)
  <2>1. \A u \in c.held : Ahead(c, u, h)
    BY <1>1 DEF Climbs, HeldFirst
  <2>2. \A u \in c.held : u = <<"transfer", c.request.transfer>>
    BY <1>1, <2>1 DEF Ahead, AheadOfLookup
  <2>3. r.op = "record"
    BY DEF RecordRequest
  <2> QED
    BY <2>2, <2>3 DEF Original
<1>3. \A y : Still(d.todo, y) => y \in Program(r)
  BY RecordTransferFacts
<1>4. ASSUME NEW u \in d.held, NEW y \in Program(r) PROVE Ahead(d, u, y)
  <2>1. Original(d, u)
    BY <1>2
  <2>2. \A a : <<"transfer", a>>[1] = "transfer"
    BY ONLY TRUE
  <2>3. u[1] = "transfer"
    BY <2>1, <2>2 DEF Original
  <2>4. \/ y \in {<<"find", "key">>, <<"find", "pending">>, <<"find", "settled">>}
        \/ \E x : y = Take("idempotency", x) \/ y = Take("provider_reference", x)
        \/ \E x : y = Take("account", x) \/ y = Take("balance", x)
    BY <1>4 DEF Program
  <2>5. CASE y \in {<<"find", "key">>, <<"find", "pending">>, <<"find", "settled">>}
    <3>1. y[1] = "find" /\ y[2] \in {"key", "event", "pending", "settled"}
      BY ONLY <2>5
    <3> QED
      BY <2>1, <3>1 DEF Ahead, AheadOfLookup
  <2>6. CASE \E x : y = Take("idempotency", x) \/ y = Take("provider_reference", x)
    <3>1. y[1] = "lock" /\ y[2][1] \in {"idempotency", "provider_reference"}
      BY ONLY <2>6 DEF Take
    <3> QED
      BY <2>1, <3>1 DEF Ahead, AheadOfLock
  <2>7. CASE \E x : y = Take("account", x) \/ y = Take("balance", x)
    <3>1. y[1] = "lock" /\ y[2][1] \in {"account", "balance"}
      BY ONLY <2>7 DEF Take
    <3>2. LockRank(u[1]) < LockRank(y[2][1])
      BY ONLY <2>3, <3>1, RanksOfLocks
    <3> QED
      BY <3>1, <3>2 DEF Ahead, AheadOfLock
  <2> QED
    BY <2>4, <2>5, <2>6, <2>7
<1>5. HeldFirst(d)
  BY <1>3, <1>4 DEF HeldFirst
<1>6. Fits(d, d.todo) /\ r.op # "release"
  <2>1. r.op # "release"
    BY DEF RecordRequest
  <2> QED
    BY <2>1, RecordFits
<1>7. HoldsAccounts(d)
  BY <1>2 DEF HoldsAccounts, Original
<1> QED
  BY <1>5, <1>6, <1>7 DEF Climbs

\* It releases the lien it has locked: the balance is all that is left to lock.
LEMMA ReleaseClimbs ==
    ASSUME NEW c, NEW d, NEW l, NEW a, LooksUp(c, d, <<"recheck lien", l>>), c.request.op = "release",
           d.todo = <<Take("balance", a)>>, Climbs(c)
    PROVE  Climbs(d)
<1> DEFINE h == <<"recheck lien", l>>
           y == Take("balance", a)
<1>1. d.request = c.request /\ d.held = c.held /\ Still(c.todo, h)
  BY AtLookup DEF LooksUp
<1>2. /\ h[1] = "recheck lien" /\ h # <<"find", "settled">> /\ h # <<"find", "lien">>
      /\ y[1] = "lock" /\ y[2][1] = "balance"
  BY DEF Take
<1> HIDE DEF h, y
<1>3. ASSUME NEW u \in d.held PROVE Ahead(d, u, y)
  <2>1. Ahead(c, u, h)
    BY <1>1 DEF Climbs, HeldFirst
  <2>2. u[1] = "lien" \/ LockRank(u[1]) = 1
    BY <1>2, <2>1 DEF Ahead, AheadOfLookup
  <2>3. LockRank(y[2][1]) = 6
    BY ONLY <1>2, RanksOfLocks
  <2>4. LockRank(u[1]) = 1 => LockRank(u[1]) < LockRank(y[2][1])
    BY ONLY <2>3
  <2> QED
    BY <1>1, <1>2, <2>2, <2>4 DEF Ahead, AheadOfLock
<1>4. d.todo = <<y>>
  BY DEF y
<1>5. HeldFirst(d)
  BY <1>3, <1>4, StillOne DEF HeldFirst
<1>6. Fits(d, <<y>>)
  BY <1>1, FitsOne
<1>7. HoldsAccounts(d)
  BY <1>1 DEF HoldsAccounts
<1> QED
  BY <1>4, <1>5, <1>6, <1>7 DEF Climbs

-----------------------------------------------------------------------------
(***************************************************************************)
(* The steps.                                                              *)
(***************************************************************************)
LEMMA ContinueClimbs ==
    ASSUME LInv, AllClimb, NEW p \in Calls, NEW kind, Doing(p, kind), kind # "lock", Continue(p)
    PROVE  AllClimb'
<1> DEFINE c == call[p]
<1>1. p \in Running /\ c.todo # <<>> /\ Head(c.todo)[1] # "lock"
  BY DEF Doing
<1>2. c.todo \in Seq(Statement)
  BY <1>1, InvariantFacts
<1>3. PICK d \in Transaction :
         /\ call' = [call EXCEPT ![p] = d] /\ UNCHANGED <<transfers, lien, funds>>
         /\ Turns(c, d, Tail(c.todo))
  BY Continues
<1>4. Climbs(d)
  BY <1>1, <1>2, <1>3, ClimbsPast DEF Turns, AllClimb
<1> QED
  BY <1>3, <1>4, AllClimbOn

LEMMA StopClimbs ==
    ASSUME LInv, AllClimb, NEW p \in Calls, NEW kind, Doing(p, kind), kind # "lock", WriteNothing(p, <<>>)
    PROVE  AllClimb'
<1>1. p \in Running /\ <<>> \in Seq(Statement)
  BY EmptySeq DEF Doing
<1>2. PICK d \in Transaction :
         /\ call' = [call EXCEPT ![p] = d] /\ UNCHANGED <<transfers, lien, funds>>
         /\ Turns(call[p], d, <<>>)
  BY <1>1, Stops
<1>3. Climbs(d)
  BY <1>1, <1>2, NothingClimbs DEF Turns, AllClimb
<1> QED
  BY <1>2, <1>3, AllClimbOn

LEMMA BeginClimbs ==
    ASSUME LInv, AllClimb, NEW p \in Calls, NEW r \in Requests, Begin(p, r)
    PROVE  AllClimb'
<1> DEFINE d == [op |-> r.op, request |-> r, todo |-> Statements(r), held |-> {}, writes |-> Intends(r),
                 on |-> IF r.op = "release" THEN lien[r.lien].number ELSE Nil, unseen |-> {}]
<1>1. r \in Request
  BY LocksAssumption
<1>2. call' = [call EXCEPT ![p] = d] /\ UNCHANGED <<transfers, lien, funds>>
  BY DEF Begin
<1>3. d.request = r /\ d.held = {} /\ d.todo = Statements(r)
  OBVIOUS
<1> HIDE DEF d
<1>4. Climbs(d)
  BY <1>1, <1>3, StatementsFit DEF Climbs, HeldFirst, HoldsAccounts
<1> QED
  BY <1>2, <1>4, AllClimbOn

LEMMA TakeLockClimbs ==
    ASSUME LInv, AllClimb, NEW p \in Calls, TakeLock(p)
    PROVE  AllClimb'
<1> DEFINE c == call[p]
           y == Head(call[p].todo)
           d == [call[p] EXCEPT !.todo = Tail(call[p].todo), !.held = call[p].held \cup {Argument(p)}]
<1>1. /\ p \in Running /\ c.todo # <<>> /\ y[1] = "lock"
      /\ call' = [call EXCEPT ![p] = d] /\ UNCHANGED <<transfers, lien, funds>>
  BY DEF TakeLock, Doing
<1>2. c \in Transaction /\ c.todo \in Seq(Statement)
  BY <1>1, InvariantFacts
<1>3. y \in Statement
  BY <1>1, <1>2, HeadTailProperties
<1>4. y = <<"lock", Argument(p)>> /\ Argument(p) \in Lock
  BY <1>1, <1>3, LockStatement DEF Argument
<1>5. d.request = c.request /\ d.todo = Tail(c.todo) /\ d.held = c.held \cup {Argument(p)}
  BY <1>2 DEF Transaction
<1> HIDE DEF d
<1>6. Climbs(d)
  BY <1>1, <1>2, <1>4, <1>5, ClimbsOn DEF AllClimb
<1> QED
  BY <1>1, <1>6, AllClimbOn

\* A call that finds its own key locks the row.
LEMMA FindKeyClimbs ==
    ASSUME LInv, AllClimb, NEW p \in Calls, Doing(p, "find"), Argument(p) = "key",
           IF call[p].request.key \in Created THEN WriteNothing(p, <<Take("transfer", call[p].request.key)>>)
           ELSE Continue(p)
    PROVE  AllClimb'
<1> DEFINE c == call[p]
           lock == Take("transfer", call[p].request.key)
           h == <<"find", "key">>
<1>1. p \in Running /\ c.request \in Request /\ c.request.op \in {"record", "review"}
  BY LookupFacts, WhoLooksUp
<1>2. CASE c.request.key \in Created
  <2>1. <<lock>> \in Seq(Statement)
    BY <1>1, RequestFacts, StatementFacts, OneFacts DEF OrderedTo
  <2>2. WriteNothing(p, <<lock>>)
    BY <1>2
  <2>3. PICK d \in Transaction :
           /\ call' = [call EXCEPT ![p] = d] /\ UNCHANGED <<transfers, lien, funds>>
           /\ Turns(c, d, <<lock>>) /\ LooksUp(c, d, h)
    BY <2>1, <2>2, Stops
  <2>4. Still(c.todo, h)
    BY <2>3, AtLookup
  <2>5. Climbs(d)
    BY <1>1, <2>3, <2>4, ReplayClimbs DEF Turns, AllClimb
  <2> QED
    BY <2>3, <2>5, AllClimbOn
<1>3. CASE c.request.key \notin Created
  BY <1>3, ContinueClimbs
<1> QED
  BY <1>2, <1>3

LEMMA FindPendingClimbs ==
    ASSUME LInv, AllClimb, NEW p \in Calls, Doing(p, "find"), Argument(p) = "pending",
           IF PendingWith(call[p].request) = {} THEN Continue(p)
           ELSE \E k \in PendingWith(call[p].request) :
                   Proceed(p, <<Take("transfer", k), <<"recheck pending", k>>>> \o Tail(call[p].todo))
    PROVE  AllClimb'
<1> DEFINE c == call[p]
           h == <<"find", "pending">>
<1>1. p \in Running /\ c.request.op = "record"
  BY LookupFacts, WhoLooksUp
<1>2. CASE PendingWith(c.request) = {}
  BY <1>2, ContinueClimbs
<1>3. CASE PendingWith(c.request) # {}
  <2>1. PICK k \in PendingWith(c.request) :
           Proceed(p, <<Take("transfer", k), <<"recheck pending", k>>>> \o Tail(c.todo))
    BY <1>3
  <2>2. Take("transfer", k) \in Statement /\ <<"recheck pending", k>> \in Statement
    BY StatementFacts DEF PendingWith, WithReference, Created
  <2>3. PICK d \in Transaction :
           /\ call' = [call EXCEPT ![p] = d] /\ UNCHANGED <<transfers, lien, funds>>
           /\ DoesFirst(c, d, Take("transfer", k), <<"recheck pending", k>>) /\ GoesOn(c, d, h)
    BY <2>1, <2>2, LooksAgain
  <2>4. LooksUp(c, d, h)
    BY <2>3 DEF GoesOn
  <2>5. Climbs(d)
    BY <1>1, <2>3, <2>4, SettlingClimbs DEF AllClimb
  <2> QED
    BY <2>3, <2>5, AllClimbOn
<1> QED
  BY <1>2, <1>3

LEMMA FindSettledClimbs ==
    ASSUME LInv, AllClimb, NEW p \in Calls, Doing(p, "find"), Argument(p) = "settled",
           IF SettledWith(call[p].request) = {} THEN Continue(p)
           ELSE \E k \in SettledWith(call[p].request) : WriteNothing(p, <<Take("transfer", k)>>)
    PROVE  AllClimb'
<1> DEFINE c == call[p]
           h == <<"find", "settled">>
<1>1. p \in Running /\ c.request.op = "record"
  BY LookupFacts, WhoLooksUp
<1>2. CASE SettledWith(c.request) = {}
  BY <1>2, ContinueClimbs
<1>3. CASE SettledWith(c.request) # {}
  <2>1. PICK k \in SettledWith(c.request) : WriteNothing(p, <<Take("transfer", k)>>)
    BY <1>3
  <2>2. <<Take("transfer", k)>> \in Seq(Statement) /\ k \in WithReference(c.request)
    BY StatementFacts, OneFacts DEF SettledWith, WithReference, Created, OrderedTo
  <2>3. PICK d \in Transaction :
           /\ call' = [call EXCEPT ![p] = d] /\ UNCHANGED <<transfers, lien, funds>>
           /\ Turns(c, d, <<Take("transfer", k)>>) /\ LooksUp(c, d, h)
    BY <2>1, <2>2, Stops
  <2>4. Still(c.todo, h)
    BY <2>3, AtLookup
  <2>5. Climbs(d)
    BY <1>1, <2>2, <2>3, <2>4, ReplayClimbs DEF Turns, AllClimb
  <2> QED
    BY <2>3, <2>5, AllClimbOn
<1> QED
  BY <1>2, <1>3

LEMMA FindLienClimbs ==
    ASSUME LInv, AllClimb, NEW p \in Calls, Doing(p, "find"), Argument(p) = "lien",
           IF lien[call[p].request.lien].account = Nil THEN Continue(p)
           ELSE Proceed(p, <<Take("lien", Lien(call[p].request.lien)),
                             <<"recheck lien", Lien(call[p].request.lien)>>>> \o Tail(call[p].todo))
    PROVE  AllClimb'
<1> DEFINE c == call[p]
           r == call[p].request
           h == <<"find", "lien">>
           l == Lien(call[p].request.lien)
<1>1. p \in Running /\ r \in Request /\ r.op = "place" /\ lien \in LienType
  BY LookupFacts, WhoLooksUp DEF TablesOK
<1>2. CASE lien[r.lien].account = Nil
  BY <1>2, ContinueClimbs
<1>3. CASE lien[r.lien].account # Nil
  <2>1. Proceed(p, <<Take("lien", l), <<"recheck lien", l>>>> \o Tail(c.todo))
    BY <1>3
  <2>2. l \in LienReferences \X Nat
    BY <1>1, RequestFacts DEF LienType, Lien
  <2> HIDE DEF l
  <2>3. Take("lien", l) \in Statement /\ <<"recheck lien", l>> \in Statement
    BY <2>2, StatementFacts
  <2>4. PICK d \in Transaction :
           /\ call' = [call EXCEPT ![p] = d] /\ UNCHANGED <<transfers, lien, funds>>
           /\ DoesFirst(c, d, Take("lien", l), <<"recheck lien", l>>) /\ GoesOn(c, d, h)
    BY <2>1, <2>3, LooksAgain
  <2>5. LooksUp(c, d, h)
    BY <2>4 DEF GoesOn
  <2>6. Climbs(d)
    BY <1>1, <2>2, <2>4, <2>5, PlacingClimbs DEF AllClimb
  <2> QED
    BY <2>4, <2>6, AllClimbOn
<1> QED
  BY <1>2, <1>3

LEMMA FindClimbs ==
    ASSUME LInv, AllClimb, NEW p \in Calls, Find(p)
    PROVE  AllClimb'
<1>1. Doing(p, "find") /\ Argument(p) \in {"key", "event", "pending", "settled", "lien"}
  BY DEF Find
<1>2. CASE Argument(p) = "key"
  BY <1>1, <1>2, FindKeyClimbs DEF Find
<1>3. CASE Argument(p) = "event"
  BY <1>1, <1>3, StopClimbs, ContinueClimbs DEF Find
<1>4. CASE Argument(p) = "pending"
  BY <1>1, <1>4, FindPendingClimbs DEF Find
<1>5. CASE Argument(p) = "settled"
  BY <1>1, <1>5, FindSettledClimbs DEF Find
<1>6. CASE Argument(p) = "lien"
  BY <1>1, <1>6, FindLienClimbs DEF Find
<1> QED
  BY <1>1, <1>2, <1>3, <1>4, <1>5, <1>6

LEMMA RecheckPendingClimbs ==
    ASSUME LInv, AllClimb, NEW p \in Calls, RecheckPending(p)
    PROVE  AllClimb'
<1> DEFINE c == call[p]
           k == Argument(p)
           h == <<"recheck pending", Argument(p)>>
<1>1. Doing(p, "recheck pending")
  BY DEF RecheckPending
<1>2. /\ p \in Running /\ c.request.op \in {"record", "complete"}
      /\ \A j \in Created : j \in Keys /\ transfers[j] \in Row
      /\ c.todo \in Seq(Statement) /\ c.todo # <<>> /\ Head(c.todo) = h
  BY <1>1, LookupFacts, WhoLooksUp, CreatedIsRow
<1>3. CASE transfers[k].status = "pending" /\ Settle(p, k)
  <2>1. PICK d :
           /\ call' = [call EXCEPT ![p] = d] /\ UNCHANGED <<transfers, lien, funds>>
           /\ SettlesNext(c, d, k) /\ LooksUp(c, d, h)
    BY <1>1, <1>3, SettleStep
  <2>2. k \in Keys
    <3>1. h \in Statement
      BY <1>2, HeadTailProperties
    <3>2. \A S, T, U : /\ <<"recheck pending", k>> \in {"recheck pending", "recheck reversible"} \X S => k \in S
                       /\ <<"recheck pending", k>> \notin {"lock"} \X T
                       /\ <<"recheck pending", k>> \notin {"find"} \X T
                       /\ <<"recheck pending", k>> \notin {"recheck lien"} \X T
                       /\ <<"recheck pending", k>> \notin {"check funds"} \X U
      OBVIOUS
    <3> QED
      BY ONLY <3>1, <3>2 DEF Statement
  <2>3. k \in Created
    BY <1>3, <2>2 DEF Created, NoRow
  <2>4. Climbs(d)
    BY <1>2, <2>1, <2>3, SettleClimbs DEF AllClimb
  <2> QED
    BY <2>1, <2>4, AllClimbOn
<1>4. CASE WriteNothing(p, <<>>)
  BY <1>1, <1>4, StopClimbs
<1>5. CASE Continue(p)
  BY <1>1, <1>5, ContinueClimbs
<1> QED
  BY <1>3, <1>4, <1>5 DEF RecheckPending

LEMMA RecheckReversibleClimbs ==
    ASSUME LInv, AllClimb, NEW p \in Calls, RecheckReversible(p)
    PROVE  AllClimb'
<1> DEFINE c == call[p]
           r == call[p].request
           k == Argument(p)
           h == <<"recheck reversible", Argument(p)>>
<1>1. Doing(p, "recheck reversible")
  BY DEF RecheckReversible
<1>2. /\ p \in Running /\ r \in Request /\ r.op = "reverse" /\ TablesOK /\ Knows(c) /\ c \in Transaction
      /\ \A j \in Created : j \in Keys /\ transfers[j] \in Row /\ Plain(transfers[j])
      /\ c.todo \in Seq(Statement) /\ c.todo # <<>> /\ Head(c.todo) = h /\ h \in Lookups(c)
  BY <1>1, LookupFacts, WhoLooksUp, CreatedIsRow DEF TablesOK
<1>3. CASE Reversible(k)
  <2> DEFINE request == ReversalRequest(r)
             d == [call[p] EXCEPT !.request = request, !.todo = RecordTransfer(request), !.writes = "create"]
  <2>1. call' = [call EXCEPT ![p] = d] /\ UNCHANGED <<transfers, lien, funds>>
    BY <1>3 DEF RecheckReversible
  <2>2. d.request = request /\ d.held = c.held /\ d.todo = RecordTransfer(request)
    <3> HIDE DEF request
    <3> QED
      BY <1>2 DEF Transaction
  <2>3. k = r.transfer /\ r.transfer \in Created
    BY <1>2 DEF Lookups, Knows, Reverses
  <2>4. request \in RecordRequest /\ request.reversalOf = r.transfer
    BY <1>2, <1>3, <2>3, ReversalFacts
  <2>5. request.event = Nil /\ ~ChecksFunds(request)
    <3>1. request.event = Nil
      BY DEF ReversalRequest
    <3>2. r.transfer # Nil
      BY <1>2, <2>3, LocksAssumption
    <3> HIDE DEF request
    <3> QED
      BY <2>4, <3>1, <3>2 DEF ChecksFunds
  <2>6. Still(c.todo, <<"recheck reversible", r.transfer>>)
    BY <1>2, <2>3, StillHead
  <2> HIDE DEF d, request, h
  <2>7. Climbs(d)
    BY <1>2, <2>2, <2>4, <2>5, <2>6, ReversalClimbs DEF AllClimb
  <2> QED
    BY <2>1, <2>7, AllClimbOn
<1>4. CASE ~Reversible(k)
  BY <1>1, <1>4, StopClimbs DEF RecheckReversible
<1> QED
  BY <1>3, <1>4

LEMMA RecheckLienClimbs ==
    ASSUME LInv, AllClimb, NEW p \in Calls, RecheckLien(p)
    PROVE  AllClimb'
<1> DEFINE c == call[p]
           r == call[p].request
           h == <<"recheck lien", Argument(p)>>
<1>1. Doing(p, "recheck lien")
  BY DEF RecheckLien
<1>2. /\ p \in Running /\ Knows(c) /\ r \in Request /\ c.todo \in Seq(Statement) /\ c.todo # <<>> /\ Head(c.todo) = h
  BY <1>1, LookupFacts
<1>3. CASE WriteNothing(p, <<>>)
  BY <1>1, <1>3, StopClimbs
<1>4. CASE Continue(p)
  BY <1>1, <1>4, ContinueClimbs
<1>5. CASE Proceed(p, <<Take("balance", r.account)>>) /\ r.op = "release"
  <2>1. PICK d :
           /\ call' = [call EXCEPT ![p] = d] /\ UNCHANGED <<transfers, lien, funds>>
           /\ Turns(c, d, <<Take("balance", r.account)>>)
    BY <1>2, <1>5, ProceedsTo
  <2>2. h[1] # "lock"
    OBVIOUS
  <2>3. LooksUp(c, d, h)
    <3> HIDE DEF h
    <3> QED
      BY <1>2, <2>1, <2>2 DEF LooksUp, Turns
  <2>4. Climbs(d)
    BY <1>2, <1>5, <2>1, <2>3, ReleaseClimbs DEF Turns, AllClimb
  <2> QED
    BY <2>1, <2>4, AllClimbOn
<1> QED
  BY <1>3, <1>4, <1>5 DEF RecheckLien

LEMMA CheckFundsClimbs ==
    ASSUME LInv, AllClimb, NEW p \in Calls, CheckFunds(p)
    PROVE  AllClimb'
<1> DEFINE c == call[p]
<1>1. Doing(p, "check funds")
  BY DEF CheckFunds
<1>2. /\ p \in Running /\ c \in Transaction /\ c.todo \in Seq(Statement) /\ c.todo # <<>>
      /\ Head(c.todo)[1] # "lock"
  BY <1>1, LookupFacts DEF Doing
<1>3. CASE Continue(p)
  BY <1>1, <1>3, ContinueClimbs
<1>4. CASE WriteNothing(p, <<>>)
  BY <1>1, <1>4, StopClimbs
<1>5. CASE /\ call' = [call EXCEPT ![p].todo = Tail(@), ![p].writes = "decline"]
           /\ UNCHANGED <<transfers, lien, funds>>
  <2> DEFINE rest == Tail(c.todo)
             d == [call[p] EXCEPT !.todo = rest, !.writes = "decline"]
  <2>1. call' = [call EXCEPT ![p] = d] /\ UNCHANGED <<transfers, lien, funds>>
    BY <1>5
  <2>2. d.request = c.request /\ d.held = c.held /\ d.todo = rest
    <3> HIDE DEF rest
    <3> QED
      BY <1>2 DEF Transaction
  <2> HIDE DEF d
  <2>3. Climbs(d)
    BY <1>2, <2>2, ClimbsPast DEF AllClimb
  <2> QED
    BY <2>1, <2>3, AllClimbOn
<1> QED
  BY <1>3, <1>4, <1>5 DEF CheckFunds

\* What a commit writes changes nothing that the others wait for.
LEMMA CommitClimbs ==
    ASSUME LInv, AllClimb, NEW p \in Calls, Commit(p)
    PROVE  AllClimb'
<1>1. ASSUME NEW q \in Running' PROVE Climbs(call[q])'
  <2>1. q \in Running /\ q # p /\ call'[q] = [call[q] EXCEPT !.unseen = call[q].unseen \cup Unannounced(p)]
    BY DEF Commit, Running
  <2>2. call[q] \in Transaction
    BY <2>1, InvariantFacts
  <2>3. call'[q].request = call[q].request /\ call'[q].held = call[q].held /\ call'[q].todo = call[q].todo
    BY <2>1, <2>2 DEF Transaction
  <2>4. \A k \in Created : RowKept(k)
    BY <2>1, CommitUndisturbs DEF Undisturbed
  <2>5. Climbs(call[q])
    BY <2>1 DEF AllClimb
  <2> DEFINE d == call'[q]
  <2>6. d.request = call[q].request /\ d.held = call[q].held /\ d.todo = call[q].todo
    BY <2>3
  <2> QED
    BY <2>4, <2>5, <2>6, ClimbsStays
<1> QED
  BY <1>1 DEF AllClimb

LEMMA EndClimbs ==
    ASSUME LInv, AllClimb, NEW p \in Calls, AbortDeadlocked(p) \/ Cancel(p)
    PROVE  AllClimb'
<1>1. call' = [call EXCEPT ![p] = Idle] /\ UNCHANGED <<transfers, lien, funds>>
  BY DEF AbortDeadlocked, Cancel
<1> QED
  BY <1>1, AllClimbOn

LEMMA AllClimbNext ==
    ASSUME LInv, AllClimb, [LocksNext]_vars
    PROVE  AllClimb'
<1>1. CASE LocksNext
  <2>1. PICK p \in Calls : (\E r \in Requests : Begin(p, r)) \/ Advance(p) \/ AbortDeadlocked(p) \/ Cancel(p)
    BY <1>1 DEF LocksNext
  <2>2. CASE \E r \in Requests : Begin(p, r)
    BY <2>2, BeginClimbs
  <2>3. CASE Advance(p)
    BY <2>3, TakeLockClimbs, FindClimbs, RecheckPendingClimbs, RecheckReversibleClimbs, RecheckLienClimbs,
       CheckFundsClimbs, CommitClimbs DEF Advance
  <2>4. CASE AbortDeadlocked(p) \/ Cancel(p)
    BY <2>4, EndClimbs
  <2> QED
    BY <2>1, <2>2, <2>3, <2>4
<1>2. CASE UNCHANGED vars
  <2>1. Running' = Running /\ call' = call /\ UNCHANGED <<transfers, lien, funds>>
    BY <1>2 DEF vars, Running
  <2>2. \A k \in Created : RowKept(k)
    BY <2>1, InvariantFacts, NothingUndisturbs DEF Undisturbed
  <2>3. ASSUME NEW q \in Running' PROVE Climbs(call[q])'
    <3>1. Climbs(call[q]) /\ call'[q] = call[q]
      BY <2>1, <2>3 DEF AllClimb
    <3> QED
      BY <2>2, <3>1, ClimbsStays
  <2> QED
    BY <2>3 DEF AllClimb
<1> QED
  BY <1>1, <1>2

LEMMA AllClimbKept == LocksSpec => [](LInv /\ AllClimb)
<1>1. LocksInit => LInv /\ AllClimb
  BY LInvInit DEF LocksInit, AllClimb, Running
<1>2. LInv /\ AllClimb /\ [LocksNext]_vars => LInv' /\ AllClimb'
  BY LInvNext, AllClimbNext
<1> QED
  BY <1>1, <1>2, PTL DEF LocksSpec

-----------------------------------------------------------------------------
(***************************************************************************)
(* The deadlocks.                                                          *)
(***************************************************************************)
\* Among finitely many elements with a number there is one with the highest.
LEMMA HighestNumber ==
    ASSUME NEW T, IsFiniteSet(T), T # {}, NEW n, \A x \in T : n[x] \in Int
    PROVE  \E x \in T : \A y \in T : n[y] <= n[x]
<1>1. SUFFICES ASSUME \A x \in T : \E y \in T : ~(n[y] <= n[x]) PROVE FALSE
  OBVIOUS
<1> DEFINE Endless(U) == U # {} /\ \A x \in U : \E y \in U : n[y] > n[x]
           B == {U \in SUBSET T : Endless(U)}
<1>2. \A x \in T : \E y \in T : n[y] > n[x]
  BY <1>1
<1>3. T \in B
  BY <1>2
<1>4. PICK U \in B : \A x \in U : U \ {x} \notin B
  <2>1. B \in SUBSET (SUBSET T) /\ B # {}
    BY <1>3
  <2> HIDE DEF B
  <2> QED
    BY <2>1, SmallestSubset
<1>5. PICK x \in U : TRUE
  BY <1>4
<1>6. U \subseteq T /\ \A y \in U : \E z \in U : n[z] > n[y]
  BY <1>4
<1>7. \E y \in U : y # x
  BY <1>5, <1>6
<1>8. ASSUME NEW y \in U \ {x} PROVE \E z \in U \ {x} : n[z] > n[y]
  <2>1. PICK z \in U : n[z] > n[y]
    BY <1>6
  <2>2. CASE z = x
    <3>1. PICK w \in U : n[w] > n[x]
      BY <1>5, <1>6
    <3>2. n[w] \in Int /\ n[x] \in Int /\ n[y] \in Int
      BY <1>5, <1>6
    <3>3. n[w] > n[y] /\ w # x
      BY <2>1, <2>2, <3>1, <3>2
    <3> QED
      BY <3>3
  <2> QED
    BY <2>1, <2>2
<1>9. U \ {x} \in B
  BY <1>6, <1>7, <1>8
<1> QED
  BY <1>4, <1>5, <1>9

\* q waits too, in a deadlock: what it waits for is ahead of what it holds.
LEMMA WaitingIsAhead ==
    ASSUME LInv, AllClimb, NEW p \in Calls, NEW q \in Calls, WaitsFor(p, q), Doing(q, "lock")
    PROVE  /\ AheadOfLock(call[q], Argument(p), Argument(q))
           /\ Argument(p) \in Lock /\ Argument(q) \in Lock /\ Argument(p) \in call[q].held /\ p # q
           /\ p \in Running /\ q \in Running /\ HoldsAccounts(call[q])
<1>1. \A o \in Calls : Doing(o, "lock") =>
         /\ o \in Running /\ call[o].todo \in Seq(Statement) /\ call[o].todo # <<>>
         /\ Head(call[o].todo) = <<"lock", Argument(o)>> /\ Argument(o) \in Lock
  <2>1. SUFFICES ASSUME NEW o \in Calls, Doing(o, "lock")
                 PROVE  /\ o \in Running /\ call[o].todo \in Seq(Statement) /\ call[o].todo # <<>>
                        /\ Head(call[o].todo) = <<"lock", Argument(o)>> /\ Argument(o) \in Lock
    OBVIOUS
  <2>2. o \in Running /\ call[o].todo # <<>> /\ Head(call[o].todo)[1] = "lock"
    BY <2>1 DEF Doing
  <2>3. call[o].todo \in Seq(Statement)
    BY <2>2, InvariantFacts
  <2>4. Head(call[o].todo) \in Statement
    BY <2>2, <2>3, HeadTailProperties
  <2> QED
    BY <2>2, <2>3, <2>4, LockStatement DEF Argument
<1>2. Doing(p, "lock") /\ p # q /\ Argument(p) \in call[q].held
  BY DEF WaitsFor
<1> DEFINE y == <<"lock", Argument(q)>>
<1>3. Still(call[q].todo, y)
  BY <1>1, StillHead
<1>4. Climbs(call[q])
  BY <1>1 DEF AllClimb
<1>5. y[1] = "lock" /\ y[2] = Argument(q)
  OBVIOUS
<1> HIDE DEF y
<1>6. Ahead(call[q], Argument(p), y)
  BY <1>2, <1>3, <1>4 DEF Climbs, HeldFirst
<1> QED
  BY <1>1, <1>2, <1>4, <1>5, <1>6 DEF Ahead, Climbs

\* A lock is held by one transaction.
LEMMA HeldByOne ==
    ASSUME LInv, NEW p \in Running, NEW q \in Running, NEW x, x \in call[p].held, x \in call[q].held
    PROVE  p = q
BY DEF LInv

\* Each of S waits for another of S, and none of the deadlocks that are known is among them.
Stuck(S) ==
    /\ S \subseteq Calls /\ Deadlocked(S)
    /\ ~\E o, p, q \in S : RepeatsReleasedLien(o, p, q) \/ ReversesUnderBusyKey(o, p, q)

Waits(S, p, q) == p \in S /\ q \in S /\ WaitsFor(p, q)

RankOf(p) == LockRank(Argument(p)[1])

LEMMA StuckFacts ==
    ASSUME LInv, AllClimb, NEW S, Stuck(S)
    PROVE  /\ \A p \in S : \E q \in S : Waits(S, p, q)
           /\ \A p, q \in S : Waits(S, p, q) =>
                 /\ AheadOfLock(call[q], Argument(p), Argument(q))
                 /\ Argument(p) \in Lock /\ Argument(q) \in Lock /\ Argument(p) \in call[q].held /\ p # q
                 /\ p \in Running /\ q \in Running /\ HoldsAccounts(call[q]) /\ Doing(q, "lock")
                 /\ WaitsFor(p, q)
<1>1. \A p \in S : p \in Calls /\ \E q \in S : WaitsFor(p, q)
  BY DEF Stuck, Deadlocked
<1>2. \A p \in S : Doing(p, "lock")
  BY <1>1 DEF WaitsFor
<1> QED
  BY <1>1, <1>2, WaitingIsAhead DEF Waits

\* A call that waits for one that reverses the transfer it waits for is among those known.
LEMMA NoReversal ==
    ASSUME LInv, AllClimb, NEW S, Stuck(S), NEW p \in S, NEW q \in S, Waits(S, p, q)
    PROVE  ~(Original(call[q], Argument(p)) /\ Argument(q)[1] \in {"idempotency", "provider_reference", "transfer"})
<1>1. SUFFICES ASSUME Original(call[q], Argument(p)),
                      Argument(q)[1] \in {"idempotency", "provider_reference", "transfer"}
               PROVE  FALSE
  OBVIOUS
<1>2. PICK z \in S : Waits(S, q, z)
  BY StuckFacts
<1>3. WaitsFor(p, q) /\ WaitsFor(q, z)
  BY <1>2 DEF Waits
<1>4. ReversesUnderBusyKey(p, q, z)
  BY <1>1, <1>3 DEF ReversesUnderBusyKey, Original
<1> QED
  BY <1>4 DEF Stuck

\* The hold of a transfer is locked last.
LEMMA NoneWaitsForHold ==
    ASSUME LInv, AllClimb, NEW S, Stuck(S), NEW p \in S
    PROVE  RankOf(p) \in {1, 3, 6, 7}
<1>1. PICK q \in S : Waits(S, p, q)
  BY StuckFacts
<1>2. AheadOfLock(call[q], Argument(p), Argument(q))
  BY <1>1, StuckFacts
<1>3. RankOf(p) \in {1, 3, 6, 7, 10} /\ RankOf(q) \in {1, 3, 6, 7, 10}
  BY LockRanks DEF RankOf
<1>4. RankOf(p) # 10
  <2>1. SUFFICES ASSUME RankOf(p) = 10 PROVE FALSE
    OBVIOUS
  <2>2. ~(RankOf(p) < RankOf(q))
    BY ONLY <1>3, <2>1
  <2>3. Argument(p)[1] \notin {"account", "balance", "lien", "transfer"}
    BY <2>1, RanksOfLocks DEF RankOf
  <2>4. Argument(p)[1] # "transfer" => ~Original(call[q], Argument(p)) /\ ~Repeats(call[q], Argument(p))
    BY DEF Original, Repeats
  <2> QED
    BY <1>2, <2>1, <2>2, <2>3, <2>4 DEF AheadOfLock, RankOf
<1> QED
  BY <1>3, <1>4

\* Who waits for a lien waits for its release, which waits for a balance.
LEMMA LienIsReleased ==
    ASSUME LInv, AllClimb, NEW S, Stuck(S), NEW p \in S, NEW q \in S, Waits(S, p, q), Argument(p)[1] = "lien"
    PROVE  call[q].request.op = "release" /\ Argument(q)[1] = "balance"
<1>1. AheadOfLock(call[q], Argument(p), Argument(q))
  BY StuckFacts
<1>2. RankOf(p) = 7 /\ RankOf(q) \in {1, 3, 6, 7}
  BY NoneWaitsForHold, RanksOfLocks DEF RankOf
<1>3. ~(RankOf(p) < RankOf(q)) /\ RankOf(p) # 1
  BY ONLY <1>2
<1>4. ~Original(call[q], Argument(p)) /\ ~Repeats(call[q], Argument(p))
  BY DEF Original, Repeats
<1> QED
  BY <1>1, <1>3, <1>4 DEF AheadOfLock, RankOf

\* Accounts and their balances are waited for in the order of the accounts.
LEMMA AccountsInOrder ==
    ASSUME LInv, AllClimb, NEW S, Stuck(S), NEW p \in S, NEW q \in S, Waits(S, p, q),
           Argument(p)[1] \in {"account", "balance"}
    PROVE  /\ Argument(q)[1] \in {"account", "balance"}
           /\ Argument(p)[2] <= Argument(q)[2] /\ call[q].request.op # "release"
<1>1. AheadOfLock(call[q], Argument(p), Argument(q)) /\ WaitsFor(p, q)
  BY StuckFacts
<1>2. RankOf(p) = 6 /\ RankOf(q) \in {1, 3, 6, 7}
  BY NoneWaitsForHold, RanksOfLocks DEF RankOf
<1>3. Argument(p)[1] # "transfer" /\ Argument(p)[1] # "lien"
  BY ONLY Argument(p)[1] \in {"account", "balance"}
<1>4. ~Original(call[q], Argument(p)) /\ ~Repeats(call[q], Argument(p))
  BY <1>3 DEF Original, Repeats
<1>5. ~(RankOf(p) < RankOf(q) /\ (Argument(q)[1] = "lien" => call[q].request.op = "place"))
  <2>1. SUFFICES ASSUME RankOf(p) < RankOf(q), Argument(q)[1] = "lien" => call[q].request.op = "place"
                 PROVE  FALSE
    OBVIOUS
  <2>2. RankOf(q) = 7
    BY ONLY <1>2, <2>1
  <2>3. Argument(q)[1] = "lien" /\ call[q].request.op = "place"
    BY <2>1, <2>2, LockRanks DEF RankOf
  <2>4. PICK z \in S : Waits(S, q, z)
    BY StuckFacts
  <2>5. WaitsFor(q, z) /\ Doing(z, "lock") /\ call[z].request.op = "release" /\ Argument(z)[1] = "balance"
    BY <2>3, <2>4, StuckFacts, LienIsReleased
  <2>6. RepeatsReleasedLien(p, q, z)
    BY <1>1, <2>3, <2>5 DEF RepeatsReleasedLien
  <2> QED
    BY <2>6 DEF Stuck
<1>6. RankOf(p) # 1
  BY ONLY <1>2
<1> QED
  BY <1>1, <1>3, <1>4, <1>5, <1>6 DEF AheadOfLock, RankOf

\* Those that wait for an account or its balance do not wait in a ring.
LEMMA NoneWaitsForAccount ==
    ASSUME LInv, AllClimb, NEW S, Stuck(S), NEW p \in S
    PROVE  Argument(p)[1] \notin {"account", "balance"}
<1> DEFINE T == {o \in S : Argument(o)[1] \in {"account", "balance"}}
           n == [o \in S |-> Argument(o)[2]]
<1>1. SUFFICES ASSUME T # {} PROVE FALSE
  OBVIOUS
<1>2. \A o \in T : o \in S /\ n[o] = Argument(o)[2] /\ n[o] \in Int
  <2>1. SUFFICES ASSUME NEW o \in T PROVE Argument(o)[2] \in Int
    OBVIOUS
  <2>2. Argument(o) \in Lock
    BY StuckFacts
  <2>3. \A x \in Lock : x[1] \in {"account", "balance"} => x[2] \in Accounts
    BY DEF Lock
  <2> QED
    BY <2>2, <2>3, LocksAssumption
<1>3. IsFiniteSet(T)
  <2>1. T \in SUBSET Calls
    BY DEF Stuck
  <2> QED
    BY <2>1, FS_Subset, LocksAssumption
<1>4. \A o, q \in S : o \in T /\ Waits(S, o, q) =>
         q \in T /\ n[o] <= n[q] /\ call[q].request.op # "release"
  BY <1>2, AccountsInOrder
<1> HIDE DEF T, n
<1>5. PICK o \in T : \A q \in T : n[q] <= n[o]
  BY <1>1, <1>2, <1>3, HighestNumber
<1>6. PICK q \in S : Waits(S, o, q)
  BY <1>2, <1>5, StuckFacts
<1>7. q \in T /\ n[q] = n[o] /\ call[q].request.op # "release"
  BY <1>2, <1>4, <1>5, <1>6
<1>8. PICK z \in S : Waits(S, q, z)
  BY <1>2, <1>7, StuckFacts
<1>9. z \in T /\ n[z] = n[o] /\ call[z].request.op # "release"
  BY <1>2, <1>4, <1>5, <1>7, <1>8
<1>10. ASSUME NEW u \in T, NEW v \in S, Waits(S, u, v), call[v].request.op # "release"
       PROVE  <<"account", n[u]>> \in call[v].held
  <2>1. Argument(u) \in Lock /\ Argument(u) \in call[v].held /\ HoldsAccounts(call[v])
    BY <1>2, <1>10, StuckFacts
  <2>2. Argument(u)[1] \in {"account", "balance"} /\ n[u] = Argument(u)[2]
    BY <1>2 DEF T
  <2>3. \A x \in Lock : x = <<x[1], x[2]>>
    <3>1. \A U, V, x : x \in U \X V => x = <<x[1], x[2]>>
      OBVIOUS
    <3> QED
      BY ONLY <3>1 DEF Lock
  <2>4. Argument(u) = <<Argument(u)[1], n[u]>>
    BY <2>1, <2>2, <2>3
  <2>5. <<"account", n[u]>> \in call[v].held \/ <<"balance", n[u]>> \in call[v].held
    BY <2>1, <2>2, <2>4
  <2> QED
    BY <1>10, <2>1, <2>5 DEF HoldsAccounts
<1>11. <<"account", n[o]>> \in call[q].held /\ <<"account", n[o]>> \in call[z].held
  BY <1>5, <1>6, <1>7, <1>8, <1>9, <1>10
<1>12. q # z /\ q \in Running /\ z \in Running
  BY <1>2, <1>7, <1>8, StuckFacts
<1> QED
  BY <1>11, <1>12, HeldByOne

\* Nor do those that wait for rows of transfers.
LEMMA NoneWaitsForTransfer ==
    ASSUME LInv, AllClimb, NEW S, Stuck(S), NEW p \in S
    PROVE  RankOf(p) = 1
<1>1. \A o \in S : RankOf(o) \in {1, 3}
  <2>1. SUFFICES ASSUME NEW o \in S PROVE RankOf(o) \in {1, 3}
    OBVIOUS
  <2>2. PICK q \in S : Waits(S, o, q)
    BY StuckFacts
  <2>3. Argument(o)[1] \notin {"account", "balance", "lien"}
    BY <2>2, LienIsReleased, NoneWaitsForAccount
  <2> QED
    BY <2>3, NoneWaitsForHold, LockRanks DEF RankOf
<1>2. ASSUME NEW o \in S, NEW q \in S, Waits(S, o, q), RankOf(o) = 3
      PROVE  Repeats(call[q], Argument(o)) /\ Repeats(call[q], Argument(q)) /\ RankOf(q) = 3
  <2>1. AheadOfLock(call[q], Argument(o), Argument(q))
    BY <1>2, StuckFacts
  <2>2. Argument(o)[1] = "transfer" /\ ~(RankOf(o) < RankOf(q)) /\ RankOf(o) # 1
    <3>1. RankOf(q) \in {1, 3}
      BY <1>1
    <3>2. ~(RankOf(o) < RankOf(q)) /\ RankOf(o) # 1
      BY ONLY <1>2, <3>1
    <3> QED
      BY <1>2, <3>2, LockRanks DEF RankOf
  <2>3. Repeats(call[q], Argument(o)) /\ Repeats(call[q], Argument(q))
    BY <1>2, <2>1, <2>2, NoReversal DEF AheadOfLock, RankOf
  <2>4. Argument(q)[1] = "transfer"
    BY <2>3 DEF Repeats
  <2> QED
    BY <2>3, <2>4, RanksOfLocks DEF RankOf
<1>3. SUFFICES ASSUME RankOf(p) = 3 PROVE FALSE
  BY <1>1
<1>4. PICK q \in S : Waits(S, p, q)
  BY StuckFacts
<1>5. PICK z \in S : Waits(S, q, z)
  BY StuckFacts
<1>6. Repeats(call[q], Argument(q)) /\ Repeats(call[z], Argument(q))
  BY <1>2, <1>3, <1>4, <1>5
<1>7. call[q].request.reference = call[z].request.reference
  BY <1>6 DEF Repeats, WithReference
<1>8. <<"provider_reference", call[q].request.reference>> \in call[q].held \cap call[z].held
  BY <1>6, <1>7 DEF Repeats
<1>9. q # z /\ q \in Running /\ z \in Running
  BY <1>5, StuckFacts
<1> QED
  BY <1>8, <1>9, HeldByOne

\* And those that wait for the locks before the first lookup wait in their order.
LEMMA NoneIsStuck ==
    ASSUME LInv, AllClimb, NEW S, Stuck(S)
    PROVE  FALSE
<1> DEFINE n == [o \in S |-> KeyRank(Argument(o)[1])]
<1>1. \A o \in S : n[o] = KeyRank(Argument(o)[1]) /\ n[o] \in Int
  <2>1. \A x : KeyRank(x) \in Int
    BY DEF KeyRank
  <2> QED
    BY <2>1
<1> HIDE DEF n
<1>2. S # {} /\ IsFiniteSet(S)
  BY FS_Subset, LocksAssumption DEF Stuck, Deadlocked
<1>3. PICK p \in S : \A q \in S : n[q] <= n[p]
  BY <1>1, <1>2, HighestNumber
<1>4. PICK q \in S : Waits(S, p, q)
  BY StuckFacts
<1>5. AheadOfLock(call[q], Argument(p), Argument(q))
  BY <1>4, StuckFacts
<1>6. RankOf(p) = 1 /\ RankOf(q) = 1
  BY NoneWaitsForTransfer
<1>7. ~(RankOf(p) < RankOf(q)) /\ Argument(p)[1] \notin {"transfer", "account", "balance", "lien"}
  <2>1. ~(RankOf(p) < RankOf(q))
    BY ONLY <1>6
  <2> QED
    BY <1>6, <2>1, LockRanks DEF RankOf
<1>8. Argument(p)[1] # "transfer" => ~Original(call[q], Argument(p)) /\ ~Repeats(call[q], Argument(p))
  BY DEF Original, Repeats
<1>9. KeyRank(Argument(p)[1]) < KeyRank(Argument(q)[1])
  BY <1>5, <1>7, <1>8 DEF AheadOfLock, RankOf
<1> QED
  BY <1>1, <1>3, <1>9

\* OnlyKnownDeadlocks, for any number of calls: of the transactions of the
\* repository that wait for each other, however many they are, three in a row
\* are a repeated PlaceAccountLien against ReleaseAccountLien, or a
\* ReverseTransfer that waits for its own record while it holds the row that
\* another call waits for.
THEOREM DeadlocksAreKnown == LocksSpec => []OnlyKnownDeadlocks
<1>1. ASSUME LInv, AllClimb PROVE OnlyKnownDeadlocks
  <2>1. SUFFICES ASSUME NEW S \in SUBSET Calls, Deadlocked(S)
                 PROVE  \E o, p, q \in S : RepeatsReleasedLien(o, p, q) \/ ReversesUnderBusyKey(o, p, q)
    BY DEF OnlyKnownDeadlocks
  <2> QED
    BY <1>1, <2>1, NoneIsStuck DEF Stuck
<1> QED
  BY <1>1, AllClimbKept, PTL

=============================================================================
