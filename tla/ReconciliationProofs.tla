----------------------- MODULE ReconciliationProofs ------------------------
(***************************************************************************)
(* Proofs about the reconciliation list: the marks and walks of operators  *)
(* leave the spine's transactions as they are, a walk through the list     *)
(* shows every item that stays on it once, and the provider's word and the *)
(* books disagree only where no money can move.                            *)
(***************************************************************************)
EXTENDS ReconciliationProperties, TransactionProofs, FiniteSetTheorems

-----------------------------------------------------------------------------
(***************************************************************************)
(* The order of the list.                                                  *)
(***************************************************************************)
Stamped == createdAt \in [Transfer -> Nat]

LEMMA NewerIsOrder ==
    ASSUME Stamped
    PROVE  /\ \A t \in Transfer : ~Newer(t, t)
           /\ \A t, u \in Transfer : t # u => Newer(t, u) \/ Newer(u, t)
           /\ \A t, u, v \in Transfer : Newer(t, u) /\ Newer(u, v) => Newer(t, v)
<1>1. Transfer \subseteq Nat
  BY SpineAssumption DEF Transfer
<1>2. \A t \in Transfer : createdAt[t] \in Nat
  BY DEF Stamped
<1>3. \A t \in Transfer : ~Newer(t, t)
  BY <1>1, <1>2 DEF Newer
<1>4. \A t, u \in Transfer : t # u => Newer(t, u) \/ Newer(u, t)
  BY <1>1, <1>2 DEF Newer
<1>5. \A t, u, v \in Transfer : Newer(t, u) /\ Newer(u, v) => Newer(t, v)
  BY <1>1, <1>2 DEF Newer
<1> QED
  BY <1>3, <1>4, <1>5

\* The place of an item among those of S.
Ahead(S, t) == {u \in S : Newer(u, t)}

Place(S, t) == Cardinality(Ahead(S, t)) + 1

LEMMA TransferFinite == \A S \in SUBSET Transfer : IsFiniteSet(S) /\ Cardinality(S) \in Nat
<1>1. IsFiniteSet(Transfer)
  <2>1. 1 \in Int /\ MaxTransfers \in Int
    BY SpineAssumption
  <2> QED
    BY <2>1, FS_Interval DEF Transfer
<1> QED
  BY <1>1, FS_Subset, FS_CardinalityType

LEMMA Places ==
    ASSUME Stamped, NEW S \in SUBSET Transfer
    PROVE  /\ \A t \in S : Place(S, t) \in 1..Cardinality(S)
           /\ \A t, u \in S : Newer(t, u) <=> Place(S, t) < Place(S, u)
           /\ \A i \in 1..Cardinality(S) : \E t \in S : Place(S, t) = i
<1>1. IsFiniteSet(S) /\ Cardinality(S) \in Nat
  BY TransferFinite
<1>2. \A A \in SUBSET S : /\ Cardinality(A) \in Nat /\ Cardinality(A) <= Cardinality(S)
                          /\ IsFiniteSet(A)
                          /\ A # S => Cardinality(A) < Cardinality(S)
  BY <1>1, FS_Subset, FS_CardinalityType
<1>3. ASSUME NEW t \in S PROVE Place(S, t) \in 1..Cardinality(S)
  <2>1. Ahead(S, t) \in SUBSET S /\ t \notin Ahead(S, t)
    BY NewerIsOrder DEF Ahead
  <2>2. /\ Cardinality(Ahead(S, t)) \in Nat
        /\ Cardinality(Ahead(S, t)) < Cardinality(S)
    BY <1>2, <2>1
  <2> QED
    BY <1>1, <2>2 DEF Place
<1>4. ASSUME NEW t \in S, NEW u \in S, Newer(t, u) PROVE Place(S, t) < Place(S, u)
  <2>1. Ahead(S, t) \subseteq Ahead(S, u) /\ t \in Ahead(S, u) /\ t \notin Ahead(S, t)
    BY <1>4, NewerIsOrder DEF Ahead
  <2>2. Ahead(S, u) \in SUBSET S /\ Ahead(S, t) \in SUBSET S
    BY DEF Ahead
  <2>3. IsFiniteSet(Ahead(S, u)) /\ Cardinality(Ahead(S, u)) \in Nat /\ Cardinality(Ahead(S, t)) \in Nat
    BY <1>2, <2>2
  <2>4. Cardinality(Ahead(S, t)) < Cardinality(Ahead(S, u))
    BY <2>1, <2>3, FS_Subset
  <2> QED
    BY <2>3, <2>4 DEF Place
<1>5. \A t, u \in S : Newer(t, u) <=> Place(S, t) < Place(S, u)
  <2>1. SUFFICES ASSUME NEW t \in S, NEW u \in S, Place(S, t) < Place(S, u) PROVE Newer(t, u)
    BY <1>4
  <2>2. Place(S, t) \in Int /\ Place(S, u) \in Int
    BY <1>3
  <2>3. t # u /\ ~Newer(u, t)
    BY <1>4, <2>1, <2>2
  <2> QED
    BY <2>3, NewerIsOrder
<1>6. ASSUME NEW i \in 1..Cardinality(S) PROVE \E t \in S : Place(S, t) = i
  <2> DEFINE f == [t \in S |-> Place(S, t)]
             T == 1..Cardinality(S)
  <2>1. \A t, u \in S : Place(S, t) = Place(S, u) => t = u
    <3>1. SUFFICES ASSUME NEW t \in S, NEW u \in S, t # u, Place(S, t) = Place(S, u) PROVE FALSE
      OBVIOUS
    <3>2. Place(S, t) \in Int
      BY <1>3
    <3>3. Newer(t, u) \/ Newer(u, t)
      BY <3>1, NewerIsOrder
    <3> QED
      BY <1>4, <3>1, <3>2, <3>3
  <2>2. f \in Injection(S, T)
    BY <1>3, <2>1 DEF Injection, IsInjective
  <2>3. IsFiniteSet(T) /\ Cardinality(T) = Cardinality(S)
    <3>1. 1 \in Int /\ Cardinality(S) \in Int
      BY <1>1
    <3>2. IsFiniteSet(T) /\ Cardinality(T) = IF 1 > Cardinality(S) THEN 0 ELSE Cardinality(S) - 1 + 1
      BY <3>1, FS_Interval
    <3> QED
      BY <1>1, <3>2
  <2>4. f \in Surjection(S, T)
    <3> HIDE DEF f, T
    <3> QED
      BY <2>2, <2>3, FS_Injection
  <2> QED
    BY <2>4 DEF Surjection
<1> QED
  BY <1>3, <1>5, <1>6

-----------------------------------------------------------------------------
(***************************************************************************)
(* A page is the first items of the set, in order.                         *)
(***************************************************************************)
Size(S) == IF Cardinality(S) < PageLimit THEN Cardinality(S) ELSE PageLimit

LEMMA PageItems ==
    ASSUME Stamped, NEW S \in SUBSET Transfer
    PROVE  /\ Size(S) \in Nat /\ Size(S) <= PageLimit /\ Size(S) <= Cardinality(S)
           /\ Page(S) \in Seq(S) /\ Len(Page(S)) = Size(S)
           /\ \A i \in 1..Size(S) : Page(S)[i] \in S /\ Place(S, Page(S)[i]) = i
<1>1. Page(S) = [i \in 1..Size(S) |-> CHOOSE t \in S : Place(S, t) = i]
  BY DEF Page, Place, Ahead, Size
<1>2. Cardinality(S) \in Nat /\ PageLimit \in Nat
  BY TransferFinite, ReconciliationAssumption
<1>3. Size(S) \in Nat /\ Size(S) <= PageLimit /\ Size(S) <= Cardinality(S)
  BY <1>2 DEF Size
<1> HIDE DEF Size
<1>4. ASSUME NEW i \in 1..Size(S) PROVE Page(S)[i] \in S /\ Place(S, Page(S)[i]) = i
  <2>1. i \in 1..Cardinality(S)
    BY <1>2, <1>3
  <2>2. \E t \in S : Place(S, t) = i
    BY <2>1, Places
  <2> QED
    BY <1>1, <2>2
<1>5. Page(S) \in [1..Size(S) -> S]
  BY <1>1, <1>4
<1>6. Page(S) \in Seq(S) /\ Len(Page(S)) = Size(S)
  BY <1>3, <1>5
<1> QED
  BY <1>3, <1>4, <1>6

LEMMA PageFacts ==
    ASSUME Stamped, NEW S \in SUBSET Transfer
    PROVE  /\ Page(S) \in Seq(S) /\ Len(Page(S)) \in Nat /\ Len(Page(S)) <= PageLimit
           /\ \A i \in 1..Len(Page(S)) : Page(S)[i] \in S
           /\ \A i, j \in 1..Len(Page(S)) : i < j => Newer(Page(S)[i], Page(S)[j])
           /\ \A t \in S : \/ \E i \in 1..Len(Page(S)) : Page(S)[i] = t
                           \/ /\ Len(Page(S)) = PageLimit
                              /\ PageLimit > 0 => Newer(Page(S)[Len(Page(S))], t)
<1>1. /\ Size(S) \in Nat /\ Size(S) <= PageLimit /\ Size(S) <= Cardinality(S)
      /\ Page(S) \in Seq(S) /\ Len(Page(S)) = Size(S)
      /\ \A i \in 1..Size(S) : Page(S)[i] \in S /\ Place(S, Page(S)[i]) = i
  BY PageItems
<1>2. \A t, u \in S : Newer(t, u) <=> Place(S, t) < Place(S, u)
  BY Places
<1>3. ASSUME NEW i \in 1..Size(S), NEW j \in 1..Size(S), i < j
      PROVE  Newer(Page(S)[i], Page(S)[j])
  BY <1>1, <1>2, <1>3
<1>4. ASSUME NEW t \in S, ~\E i \in 1..Size(S) : Page(S)[i] = t
      PROVE  Size(S) = PageLimit /\ (PageLimit > 0 => Newer(Page(S)[Size(S)], t))
  <2>0. Place(S, t) \in 1..Cardinality(S) /\ Cardinality(S) \in Nat /\ PageLimit \in Nat
    BY Places, TransferFinite, ReconciliationAssumption
  <2>1. ~(Place(S, t) <= Size(S))
    <3>1. SUFFICES ASSUME Place(S, t) <= Size(S) PROVE FALSE
      OBVIOUS
    <3> DEFINE i == Place(S, t)
    <3>2. i \in 1..Size(S)
      BY <1>1, <2>0, <3>1
    <3>3. Page(S)[i] \in S /\ Place(S, Page(S)[i]) = Place(S, t)
      BY <1>1, <3>2
    <3>4. Page(S)[i] = t
      <4>1. ~Newer(Page(S)[i], t) /\ ~Newer(t, Page(S)[i])
        BY <1>2, <2>0, <3>3
      <4> QED
        BY <3>3, <4>1, NewerIsOrder
    <3> HIDE DEF i
    <3> QED
      BY <1>4, <3>2, <3>4
  <2>2. Size(S) < Cardinality(S) /\ Size(S) = PageLimit
    BY <1>1, <2>0, <2>1 DEF Size
  <2>3. ASSUME PageLimit > 0 PROVE Newer(Page(S)[Size(S)], t)
    <3>1. Size(S) \in 1..Size(S)
      BY <1>1, <2>2, <2>3
    <3>2. Page(S)[Size(S)] \in S /\ Place(S, Page(S)[Size(S)]) = Size(S)
      BY <1>1, <3>1
    <3>3. Size(S) < Place(S, t)
      BY <1>1, <2>0, <2>1
    <3> QED
      BY <1>2, <3>2, <3>3
  <2> QED
    BY <2>2, <2>3
<1> QED
  BY <1>1, <1>3, <1>4

-----------------------------------------------------------------------------
(***************************************************************************)
(* Operators do not change transfers.                                      *)
(***************************************************************************)
LEMMA OnlyTransacts == [ReconciliationNext]_reconciliationVars => [Next]_vars
BY DEF ReconciliationNext, reconciliationVars, Transact, Tick, MarkReconciliationItemReviewed,
       BeginWalk, ListReconciliationItems

\* Everything proved of the spine holds while operators page and mark.
THEOREM SpineUnchanged == ReconciliationSpec => Spec
<1>1. ReconciliationInit => Init
  BY DEF ReconciliationInit
<1> QED
  BY <1>1, OnlyTransacts, PTL DEF ReconciliationSpec, Spec

\* Rows stay, and only a new one may appear.
LEMMA RowsStay ==
    ASSUME IInv, [Next]_vars
    PROVE  /\ count \in Nat /\ (count' = count \/ (count' = count + 1 /\ count' \in Transfer))
           /\ Existing \subseteq Existing' /\ Existing' \subseteq Existing \cup {count'}
           /\ Existing \subseteq Transfer
<1>1. count \in Nat /\ Existing \subseteq Transfer
  BY SpineAssumption, ExistingFacts DEF IInv, TypeOK
<1>2. count' = count \/ (count' = count + 1 /\ count' \in Transfer)
  <2>1. StepShape
    BY NextStep DEF GoodStep
  <2>2. CASE UNCHANGED <<count, transfers, hold, journal>>
    BY <2>2
  <2>3. ASSUME NEW t \in Transfer, NEW row \in Row, NEW h \in HoldStatus, NEW j \in Seq(Entry),
               RowStep(t, row, h, j)
        PROVE  count' = count \/ (count' = count + 1 /\ count' \in Transfer)
    BY <2>3 DEF RowStep
  <2> QED
    BY <2>1, <2>2, <2>3 DEF StepShape
<1> QED
  BY <1>1, <1>2 DEF Existing

-----------------------------------------------------------------------------
(***************************************************************************)
(* Types.                                                                  *)
(***************************************************************************)
LEMMA PageSequence ==
    ASSUME ReconciliationTypeOK, NEW S \in SUBSET Transfer
    PROVE  Page(S) \in Seq(Transfer)
<1>1. Stamped
  BY ReconciliationAssumption DEF ReconciliationTypeOK, Stamped
<1>2. Page(S) \in Seq(S)
  BY <1>1, PageFacts
<1> QED
  BY <1>2

\* The walk after another page.
LEMMA NextPage ==
    ASSUME walk \in [seen : Seq(Transfer), due : SUBSET Transfer, done : BOOLEAN],
           NEW s, NEW d, walk' = [walk EXCEPT !.seen = s, !.done = d]
    PROVE  walk' = [seen |-> s, due |-> walk.due, done |-> d]
<1>1. walk = [seen |-> walk.seen, due |-> walk.due, done |-> walk.done]
  OBVIOUS
<1>2. [walk EXCEPT !.seen = s] = [seen |-> s, due |-> walk.due, done |-> walk.done]
  BY <1>1
<1>3. [[seen |-> s, due |-> walk.due, done |-> walk.done] EXCEPT !.done = d]
          = [seen |-> s, due |-> walk.due, done |-> d]
  OBVIOUS
<1>4. walk' = [[walk EXCEPT !.seen = s] EXCEPT !.done = d]
  OBVIOUS
<1> QED
  BY <1>2, <1>3, <1>4

LEMMA ReconciliationTypeStep ==
    ASSUME IInv, ReconciliationTypeOK, [ReconciliationNext]_reconciliationVars
    PROVE  ReconciliationTypeOK'
<1>0. /\ now \in 0..MaxTime /\ now \in Nat /\ MaxTime \in Nat
      /\ createdAt \in [Transfer -> 0..MaxTime]
      /\ \A t \in Existing : createdAt[t] <= now
      /\ review \in [Transfer -> {NotReviewed} \cup [status : ReviewStatuses, reason : ReviewReasons]]
      /\ walk \in [seen : Seq(Transfer), due : SUBSET Transfer, done : BOOLEAN]
  BY ReconciliationAssumption DEF ReconciliationTypeOK
<1>1. /\ count \in Nat /\ (count' = count \/ (count' = count + 1 /\ count' \in Transfer))
      /\ Existing \subseteq Existing' /\ Existing' \subseteq Existing \cup {count'}
      /\ Existing \subseteq Transfer
  BY OnlyTransacts, RowsStay
<1>2. Items \subseteq Transfer
  BY <1>1 DEF Items
<1>3. ASSUME StillDue
      PROVE  walk' \in [seen : Seq(Transfer), due : SUBSET Transfer, done : BOOLEAN]
  BY <1>0, <1>3 DEF StillDue
<1>4. CASE Transact
  <2>1. /\ now' = now /\ review' = review
        /\ walk' \in [seen : Seq(Transfer), due : SUBSET Transfer, done : BOOLEAN]
    BY <1>3, <1>4 DEF Transact
  <2>2. CASE count' > count
    <3>1. PICK at \in 0..now : createdAt' = [createdAt EXCEPT ![count'] = at]
      BY <1>4, <2>2 DEF Transact
    <3>2. at \in 0..MaxTime /\ at <= now
      BY <1>0
    <3>3. createdAt' \in [Transfer -> 0..MaxTime]
      BY <1>0, <3>1, <3>2
    <3>4. \A t \in Existing' : createdAt'[t] <= now'
      <4>1. ASSUME NEW t \in Existing' PROVE createdAt'[t] <= now'
        <5>1. CASE t = count'
          BY <1>0, <1>1, <2>1, <2>2, <3>1, <3>2, <5>1
        <5>2. CASE t # count'
          BY <1>0, <1>1, <2>1, <3>1, <5>2
        <5> QED
          BY <5>1, <5>2
      <4> QED
        BY <4>1
    <3> QED
      BY <1>0, <2>1, <3>3, <3>4 DEF ReconciliationTypeOK
  <2>3. CASE ~(count' > count)
    <3>1. createdAt' = createdAt /\ Existing' = Existing
      BY <1>1, <1>4, <2>3 DEF Transact, Existing
    <3> QED
      BY <1>0, <2>1, <3>1 DEF ReconciliationTypeOK
  <2> QED
    BY <2>2, <2>3
<1>5. CASE Tick
  <2>1. /\ now' = now + 1 /\ now' \in 0..MaxTime /\ createdAt' = createdAt /\ review' = review
        /\ Existing' = Existing
        /\ walk' \in [seen : Seq(Transfer), due : SUBSET Transfer, done : BOOLEAN]
    BY <1>0, <1>3, <1>5 DEF Tick, vars, Existing
  <2>2. \A t \in Existing' : createdAt'[t] <= now'
    BY <1>0, <1>1, <2>1
  <2> QED
    BY <1>0, <2>1, <2>2 DEF ReconciliationTypeOK
<1>6. ASSUME NEW t \in Transfer, NEW status \in Resolutions, MarkReconciliationItemReviewed(t, status)
      PROVE  ReconciliationTypeOK'
  <2>1. /\ now' = now /\ createdAt' = createdAt /\ Existing' = Existing
        /\ walk' \in [seen : Seq(Transfer), due : SUBSET Transfer, done : BOOLEAN]
    BY <1>3, <1>6 DEF MarkReconciliationItemReviewed, vars, Existing
  <2>2. ReviewReason(t) \in ReviewReasons /\ status \in ReviewStatuses
    BY ReconciliationAssumption DEF ReviewReason, ReviewReasons
  <2>3. review' = [review EXCEPT ![t] = [status |-> status, reason |-> ReviewReason(t)]]
    BY <1>6 DEF MarkReconciliationItemReviewed
  <2>4. review' \in [Transfer -> {NotReviewed} \cup [status : ReviewStatuses, reason : ReviewReasons]]
    BY <1>0, <2>2, <2>3
  <2> QED
    BY <1>0, <2>1, <2>4 DEF ReconciliationTypeOK
<1>7. CASE BeginWalk
  <2>1. UNCHANGED <<now, createdAt, review>> /\ Existing' = Existing
    BY <1>7 DEF BeginWalk, vars, Existing
  <2>2. Page(Items) \in Seq(Transfer)
    BY <1>2, PageSequence
  <2>3. walk' \in [seen : Seq(Transfer), due : SUBSET Transfer, done : BOOLEAN]
    BY <1>2, <1>7, <2>2 DEF BeginWalk
  <2> QED
    BY <1>0, <2>1, <2>3 DEF ReconciliationTypeOK
<1>8. CASE ListReconciliationItems
  <2> DEFINE page == Page({t \in Items : Before(t)})
  <2>1. UNCHANGED <<now, createdAt, review>> /\ Existing' = Existing
    BY <1>8 DEF ListReconciliationItems, vars, Existing
  <2>2. page \in Seq(Transfer)
    BY <1>2, PageSequence
  <2>3. walk' = [walk EXCEPT !.seen = @ \o page, !.done = Len(page) < PageLimit]
    BY <1>8 DEF ListReconciliationItems
  <2> HIDE DEF page
  <2>4. walk.seen \o page \in Seq(Transfer)
    BY <1>0, <2>2
  <2>5. walk' = [seen |-> walk.seen \o page, due |-> walk.due, done |-> Len(page) < PageLimit]
    BY <1>0, <2>3, NextPage
  <2>6. walk' \in [seen : Seq(Transfer), due : SUBSET Transfer, done : BOOLEAN]
    BY <1>0, <2>4, <2>5
  <2> QED
    BY <1>0, <2>1, <2>6 DEF ReconciliationTypeOK
<1>9. CASE UNCHANGED reconciliationVars
  BY <1>9 DEF reconciliationVars, vars, ReconciliationTypeOK, Existing
<1> QED
  BY <1>4, <1>5, <1>6, <1>7, <1>8, <1>9 DEF ReconciliationNext

LEMMA ReconciliationTypeInit == ReconciliationInit => ReconciliationTypeOK
<1> SUFFICES ASSUME ReconciliationInit PROVE ReconciliationTypeOK
  OBVIOUS
<1>1. Existing = {}
  BY DEF ReconciliationInit, Init, Existing
<1>2. NoWalk \in [seen : Seq(Transfer), due : SUBSET Transfer, done : BOOLEAN]
  BY DEF NoWalk
<1> QED
  BY <1>1, <1>2, ReconciliationAssumption DEF ReconciliationInit, ReconciliationTypeOK

-----------------------------------------------------------------------------
(***************************************************************************)
(* Walks.                                                                  *)
(***************************************************************************)
\* The items seen so far are in order, and those due are seen or come later.
InOrder(seen) ==
    /\ \A i \in 1..Len(seen) : seen[i] \in Existing
    /\ \A i, j \in 1..Len(seen) : i < j => Newer(seen[i], seen[j])

Shown(seen, done, t) ==
    \/ \E i \in 1..Len(seen) : seen[i] = t
    \/ ~done /\ Newer(seen[Len(seen)], t)

WalkInv ==
    /\ InOrder(walk.seen)
    /\ ~walk.done => Len(walk.seen) > 0
    /\ walk.due \subseteq Items
    /\ \A t \in walk.due : Shown(walk.seen, walk.done, t)

\* The order of what is there does not change.
LEMMA OrderStays ==
    ASSUME IInv, ReconciliationTypeOK, [ReconciliationNext]_reconciliationVars
    PROVE  /\ Existing \subseteq Existing' /\ Existing \subseteq Transfer
           /\ \A t \in Existing : createdAt'[t] = createdAt[t]
           /\ \A t, u \in Existing : Newer(t, u)' <=> Newer(t, u)
<1>1. /\ count \in Nat /\ Existing \subseteq Existing' /\ Existing \subseteq Transfer
  BY OnlyTransacts, RowsStay
<1>2. \A t \in Existing : createdAt'[t] = createdAt[t]
  <2>1. CASE UNCHANGED createdAt
    BY <2>1
  <2>2. CASE Transact /\ count' > count
    <3>1. PICK at \in 0..now : createdAt' = [createdAt EXCEPT ![count'] = at]
      BY <2>2 DEF Transact
    <3>2. \A t \in Existing : t # count'
      BY <1>1, <2>2 DEF Existing
    <3> QED
      BY <1>1, <3>1, <3>2 DEF ReconciliationTypeOK
  <2> QED
    BY <2>1, <2>2 DEF ReconciliationNext, reconciliationVars, Transact, Tick,
       MarkReconciliationItemReviewed, BeginWalk, ListReconciliationItems
<1> QED
  BY <1>1, <1>2 DEF Newer

LEMMA WalkInit == ReconciliationInit => WalkInv
<1> SUFFICES ASSUME ReconciliationInit PROVE WalkInv
  OBVIOUS
<1>1. walk.seen = <<>> /\ walk.done = TRUE /\ walk.due = {}
  BY DEF ReconciliationInit, NoWalk
<1> QED
  BY <1>1 DEF WalkInv, InOrder, Shown

\* Between two pages.
LEMMA WalkWaits ==
    ASSUME IInv, ReconciliationTypeOK, WalkInv, [ReconciliationNext]_reconciliationVars, StillDue
    PROVE  WalkInv'
<1>1. /\ Existing \subseteq Existing' /\ Existing \subseteq Transfer
      /\ \A t, u \in Existing : Newer(t, u)' <=> Newer(t, u)
  BY OrderStays
<1>2. /\ walk'.seen = walk.seen /\ walk'.done = walk.done
      /\ walk'.due = {t \in walk.due : Listed(t)'}
      /\ walk.seen \in Seq(Transfer) /\ Len(walk.seen) \in Nat
  BY DEF StillDue, ReconciliationTypeOK
<1>3. \A i \in 1..Len(walk.seen) : walk.seen[i] \in Existing
  BY DEF WalkInv, InOrder
<1>4. InOrder(walk.seen)'
  BY <1>1, <1>2, <1>3 DEF WalkInv, InOrder
<1>5. walk'.due \subseteq Items'
  BY <1>1, <1>2 DEF WalkInv, Items
<1>6. ASSUME NEW t \in walk'.due PROVE Shown(walk.seen, walk.done, t)'
  <2>1. t \in walk.due /\ t \in Existing
    BY <1>2, <1>6 DEF WalkInv, Items
  <2>2. CASE \E i \in 1..Len(walk.seen) : walk.seen[i] = t
    BY <1>2, <2>2 DEF Shown
  <2>3. CASE ~walk.done /\ Newer(walk.seen[Len(walk.seen)], t)
    <3>1. walk.seen[Len(walk.seen)] \in Existing
      BY <1>2, <1>3, <2>3 DEF WalkInv
    <3> QED
      BY <1>1, <1>2, <2>1, <2>3, <3>1 DEF Shown
  <2> QED
    BY <2>1, <2>2, <2>3 DEF WalkInv, Shown
<1>7. ~walk'.done => Len(walk'.seen) > 0
  BY <1>2 DEF WalkInv
<1> QED
  BY <1>4, <1>5, <1>6, <1>7 DEF WalkInv

LEMMA WalkBegins ==
    ASSUME IInv, ReconciliationTypeOK, BeginWalk
    PROVE  WalkInv'
<1> DEFINE page == Page(Items)
<1>1. /\ PageLimit > 0 /\ PageLimit \in Nat /\ UNCHANGED <<vars, now, createdAt, review>>
      /\ walk' = [seen |-> page, due |-> Items, done |-> Len(page) < PageLimit]
  BY ReconciliationAssumption DEF BeginWalk
<1>2. Items' = Items /\ Existing' = Existing /\ Items \subseteq Existing /\ Existing \subseteq Transfer
  BY <1>1, ExistingFacts DEF vars, Items, Existing, Listed, Issue, Stale
<1>3. \A t, u : Newer(t, u)' <=> Newer(t, u)
  BY <1>1 DEF Newer
<1>4. /\ page \in Seq(Items) /\ Len(page) \in Nat /\ Len(page) <= PageLimit
      /\ \A i \in 1..Len(page) : page[i] \in Items
      /\ \A i, j \in 1..Len(page) : i < j => Newer(page[i], page[j])
      /\ \A t \in Items : \/ \E i \in 1..Len(page) : page[i] = t
                          \/ /\ Len(page) = PageLimit
                             /\ PageLimit > 0 => Newer(page[Len(page)], t)
  <2>1. Stamped
    BY ReconciliationAssumption DEF ReconciliationTypeOK, Stamped
  <2> QED
    BY <1>2, <2>1, PageFacts
<1> HIDE DEF page
<1>5. walk'.seen = page /\ walk'.due = Items /\ (walk'.done <=> Len(page) < PageLimit)
  BY <1>1
<1>6. InOrder(walk.seen)'
  BY <1>2, <1>3, <1>4, <1>5 DEF InOrder
<1>7. ASSUME NEW t \in Items PROVE Shown(walk.seen, walk.done, t)'
  BY <1>1, <1>3, <1>4, <1>5 DEF Shown
<1>8. ~walk'.done => Len(walk'.seen) > 0
  BY <1>1, <1>4, <1>5
<1> QED
  BY <1>2, <1>5, <1>6, <1>7, <1>8 DEF WalkInv

LEMMA WalkContinues ==
    ASSUME IInv, ReconciliationTypeOK, WalkInv, ListReconciliationItems
    PROVE  WalkInv'
<1> DEFINE S == {t \in Items : Before(t)}
           page == Page(S)
           seen == walk.seen
           last == seen[Len(seen)]
<1>1. /\ UNCHANGED <<vars, now, createdAt, review>> /\ ~walk.done
      /\ walk' = [walk EXCEPT !.seen = seen \o page, !.done = Len(page) < PageLimit]
      /\ PageLimit \in Nat
  BY ReconciliationAssumption DEF ListReconciliationItems
<1>2. Items' = Items /\ Existing' = Existing /\ Items \subseteq Existing /\ Existing \subseteq Transfer
  BY <1>1, ExistingFacts DEF vars, Items, Existing, Listed, Issue, Stale
<1>3. \A t, u : Newer(t, u)' <=> Newer(t, u)
  BY <1>1 DEF Newer
<1>4. Stamped
  BY ReconciliationAssumption DEF ReconciliationTypeOK, Stamped
<1>5. /\ page \in Seq(S) /\ Len(page) \in Nat /\ Len(page) <= PageLimit
      /\ \A i \in 1..Len(page) : page[i] \in S
      /\ \A i, j \in 1..Len(page) : i < j => Newer(page[i], page[j])
      /\ \A t \in S : \/ \E i \in 1..Len(page) : page[i] = t
                      \/ /\ Len(page) = PageLimit
                         /\ PageLimit > 0 => Newer(page[Len(page)], t)
  <2>1. S \subseteq Transfer
    BY <1>2
  <2> HIDE DEF S
  <2> QED
    BY <1>4, <2>1, PageFacts
<1>6. /\ seen \in Seq(Transfer) /\ Len(seen) \in Nat /\ Len(seen) > 0
      /\ \A i \in 1..Len(seen) : seen[i] \in Existing
      /\ \A i, j \in 1..Len(seen) : i < j => Newer(seen[i], seen[j])
      /\ walk.due \subseteq Items
      /\ \A t \in walk.due : (\E i \in 1..Len(seen) : seen[i] = t) \/ Newer(last, t)
  BY <1>1 DEF WalkInv, InOrder, Shown, ReconciliationTypeOK
<1>7. \A t \in Items : t \in S <=> Newer(last, t)
  BY <1>6 DEF Before
<1>8. S \subseteq Items
  OBVIOUS
<1> DEFINE all == seen \o page
<1>9. page \in Seq(Transfer)
  BY <1>2, <1>5, <1>8
<1>10. /\ walk'.seen = all /\ walk'.due = walk.due /\ walk'.done = (Len(page) < PageLimit)
  <2>1. walk' = [seen |-> all, due |-> walk.due, done |-> Len(page) < PageLimit]
    <3> HIDE DEF page
    <3> QED
      BY <1>1, NextPage DEF ReconciliationTypeOK
  <2> QED
    BY <2>1
<1> HIDE DEF S, page, seen
<1>11. /\ all \in Seq(Transfer) /\ Len(all) = Len(seen) + Len(page)
       /\ \A i \in 1..Len(seen) : all[i] = seen[i]
       /\ \A i \in 1..Len(page) : all[Len(seen) + i] = page[i]
       /\ \A i \in 1..Len(all) : i > Len(seen) => all[i] = page[i - Len(seen)] /\ i - Len(seen) \in 1..Len(page)
  BY <1>5, <1>6, <1>9
<1> HIDE DEF all, last
<1>12. last \in Existing /\ \A i \in 1..Len(seen) : seen[i] = last \/ Newer(seen[i], last)
  <2>1. Len(seen) \in 1..Len(seen) /\ last = seen[Len(seen)]
    BY <1>6 DEF last
  <2>2. ASSUME NEW i \in 1..Len(seen) PROVE seen[i] = last \/ Newer(seen[i], last)
    <3>1. i = Len(seen) \/ i < Len(seen)
      BY <1>6
    <3> QED
      BY <1>6, <2>1, <3>1
  <2> QED
    BY <1>6, <2>1, <2>2
<1>13. \A i \in 1..Len(all) : all[i] \in Existing
  <2>1. ASSUME NEW i \in 1..Len(all) PROVE all[i] \in Existing
    <3>1. CASE i \in 1..Len(seen)
      BY <1>6, <1>11, <3>1
    <3>2. CASE i > Len(seen)
      BY <1>2, <1>5, <1>8, <1>11, <2>1, <3>2
    <3> QED
      BY <1>6, <1>11, <2>1, <3>1, <3>2
  <2> QED
    BY <2>1
<1>14. ASSUME NEW i \in 1..Len(all), NEW j \in 1..Len(all), i < j PROVE Newer(all[i], all[j])
  <2>1. CASE j \in 1..Len(seen)
    <3>1. i \in 1..Len(seen)
      BY <1>6, <1>14, <2>1
    <3> QED
      BY <1>6, <1>11, <1>14, <2>1, <3>1
  <2>2. CASE i > Len(seen)
    <3>1. /\ j > Len(seen) /\ i - Len(seen) < j - Len(seen)
      BY <1>6, <1>11, <1>14, <2>2
    <3>2. /\ all[i] = page[i - Len(seen)] /\ i - Len(seen) \in 1..Len(page)
          /\ all[j] = page[j - Len(seen)] /\ j - Len(seen) \in 1..Len(page)
      BY <1>11, <2>2, <3>1
    <3> QED
      BY <1>5, <3>1, <3>2
  <2>3. CASE i \in 1..Len(seen) /\ j > Len(seen)
    <3>1. all[j] \in S
      BY <1>5, <1>11, <2>3
    <3>2. Newer(last, all[j])
      BY <1>7, <1>8, <3>1
    <3>3. all[i] = last \/ Newer(all[i], last)
      BY <1>11, <1>12, <2>3
    <3>4. all[i] \in Transfer /\ all[j] \in Transfer /\ last \in Transfer
      BY <1>2, <1>12, <1>13
    <3> QED
      BY <1>4, <3>2, <3>3, <3>4, NewerIsOrder
  <2> QED
    BY <1>6, <1>11, <1>14, <2>1, <2>2, <2>3
<1>15. InOrder(walk.seen)'
  BY <1>2, <1>3, <1>10, <1>13, <1>14 DEF InOrder
<1>16. ASSUME NEW t \in walk.due
       PROVE  \/ \E i \in 1..Len(all) : all[i] = t
              \/ ~(Len(page) < PageLimit) /\ Newer(all[Len(all)], t)
  <2>1. CASE \E i \in 1..Len(seen) : seen[i] = t
    <3>1. PICK i \in 1..Len(seen) : seen[i] = t
      BY <2>1
    <3>2. i \in 1..Len(all) /\ all[i] = t
      BY <1>5, <1>6, <1>11, <3>1
    <3> QED
      BY <3>2
  <2>2. CASE Newer(last, t)
    <3>1. t \in S
      BY <1>6, <1>7, <1>16, <2>2
    <3>2. CASE \E i \in 1..Len(page) : page[i] = t
      <4>1. PICK i \in 1..Len(page) : page[i] = t
        BY <3>2
      <4>2. Len(seen) + i \in 1..Len(all) /\ all[Len(seen) + i] = t
        BY <1>5, <1>6, <1>11, <4>1
      <4> QED
        BY <4>2
    <3>3. CASE Len(page) = PageLimit /\ (PageLimit > 0 => Newer(page[Len(page)], t))
      <4>1. CASE PageLimit > 0
        <5>1. Len(page) \in 1..Len(page) /\ Len(all) = Len(seen) + Len(page)
          BY <1>5, <1>11, <3>3, <4>1
        <5>2. all[Len(all)] = page[Len(page)]
          BY <1>11, <5>1
        <5> QED
          BY <1>1, <1>5, <3>3, <4>1, <5>2
      <4>2. CASE PageLimit = 0
        <5>1. Len(all) = Len(seen) /\ all[Len(all)] = last
          BY <1>6, <1>11, <3>3, <4>2 DEF last
        <5> QED
          BY <1>1, <1>5, <2>2, <3>3, <5>1
      <4> QED
        BY <1>1, <4>1, <4>2
    <3> QED
      BY <1>5, <3>1, <3>2, <3>3
  <2> QED
    BY <1>6, <2>1, <2>2
<1>17. \A t \in walk'.due : Shown(walk.seen, walk.done, t)'
  BY <1>3, <1>10, <1>16 DEF Shown
<1>18. ~walk'.done => Len(walk'.seen) > 0
  BY <1>5, <1>6, <1>10, <1>11
<1> QED
  BY <1>2, <1>6, <1>10, <1>15, <1>17, <1>18 DEF WalkInv

LEMMA WalkStep ==
    ASSUME IInv, ReconciliationTypeOK, WalkInv, [ReconciliationNext]_reconciliationVars
    PROVE  WalkInv'
<1>1. CASE Transact \/ Tick \/ \E t \in Transfer, status \in Resolutions :
                                    MarkReconciliationItemReviewed(t, status)
  <2>1. StillDue
    BY <1>1 DEF Transact, Tick, MarkReconciliationItemReviewed
  <2> QED
    BY <2>1, WalkWaits
<1>2. CASE BeginWalk
  BY <1>2, WalkBegins
<1>3. CASE ListReconciliationItems
  BY <1>3, WalkContinues
<1>4. CASE UNCHANGED reconciliationVars
  BY <1>4 DEF reconciliationVars, vars, WalkInv, InOrder, Shown, Newer, Items, Existing, Listed, Issue, Stale
<1> QED
  BY <1>1, <1>2, <1>3, <1>4 DEF ReconciliationNext

-----------------------------------------------------------------------------
(***************************************************************************)
(* The theorems.                                                           *)
(***************************************************************************)
LEMMA ReconciliationInvariance == ReconciliationSpec => [](RInv /\ ReconciliationTypeOK /\ WalkInv)
<1>1. ReconciliationInit => ReconciliationTypeOK /\ WalkInv
  BY ReconciliationTypeInit, WalkInit
<1>2. RInv /\ ReconciliationTypeOK /\ WalkInv /\ [ReconciliationNext]_reconciliationVars
          => ReconciliationTypeOK' /\ WalkInv'
  BY ReconciliationTypeStep, WalkStep DEF RInv
<1>3. ReconciliationSpec => []RInv
  BY SpineUnchanged, RecordsInvariance, PTL
<1> QED
  BY <1>1, <1>2, <1>3, PTL DEF ReconciliationSpec

\* Every reachable state is well typed: in particular a page is a sequence of
\* transfers, whatever order rows were created and committed in
\* (ListReconciliationItems, sql_reconciliation_repository.go).
THEOREM ReconciliationTypeCorrect == ReconciliationSpec => []ReconciliationTypeOK
BY ReconciliationInvariance, PTL

\* Walking the list by (created_at, id) with any page size shows every item that
\* stays on the list, and none twice, while transactions commit late, items come
\* and go and operators mark others.
THEOREM WalksCoverList == ReconciliationSpec => []WalkCoversList
<1>1. ReconciliationTypeOK /\ WalkInv => WalkCoversList
  <2>1. SUFFICES ASSUME ReconciliationTypeOK, WalkInv
                 PROVE  IsInjective(walk.seen) /\ (walk.done => walk.due \subseteq Range(walk.seen))
    BY DEF WalkCoversList
  <2>2. walk.seen \in Seq(Transfer) /\ DOMAIN walk.seen = 1..Len(walk.seen) /\ Len(walk.seen) \in Nat
    BY <2>1 DEF ReconciliationTypeOK
  <2>3. Stamped
    BY <2>1, ReconciliationAssumption DEF ReconciliationTypeOK, Stamped
  <2>4. ASSUME NEW i \in 1..Len(walk.seen), NEW j \in 1..Len(walk.seen), walk.seen[i] = walk.seen[j]
        PROVE  i = j
    <3>1. walk.seen[i] \in Transfer /\ ~Newer(walk.seen[i], walk.seen[i])
      BY <2>2, <2>3, NewerIsOrder
    <3>2. ~(i < j) /\ ~(j < i)
      BY <2>1, <2>4, <3>1 DEF WalkInv, InOrder
    <3> QED
      BY <2>2, <3>2
  <2>5. IsInjective(walk.seen)
    BY <2>2, <2>4 DEF IsInjective
  <2>6. ASSUME walk.done, NEW t \in walk.due PROVE t \in Range(walk.seen)
    BY <2>1, <2>2, <2>6 DEF WalkInv, Shown, Range
  <2> QED
    BY <2>5, <2>6
<1> QED
  BY <1>1, ReconciliationInvariance, PTL

\* The condition of the list and the reason of its items agree on every transfer
\* (the SQL of ListReconciliationItems, and reviewReason beside it).
THEOREM ListMatches == ReconciliationSpec => []ListMatchesReviewState
<1>1. ListMatchesReviewState
  BY DEF ListMatchesReviewState, Issue, ReviewReason
<1> QED
  BY <1>1, PTL

\* Where the provider's word and the books disagree, the transfer is over and
\* holds nothing: no history of completions, requeries, reviews and reversals
\* posts what the provider failed, or leaves money waiting for what it made.
THEOREM BooksFollow == ReconciliationSpec => []BooksFollowProvider
<1>1. RInv => BooksFollowProvider
  <2>1. SUFFICES ASSUME RInv, NEW t \in Existing
                 PROVE  /\ ReviewReason(t) # "provider_failed_ledger_posted"
                        /\ ReviewReason(t) = "provider_succeeded_ledger_not_posted" =>
                               ~IsOpen(t) /\ hold[t] # "active" /\ journal[t] = <<>>
    BY DEF BooksFollowProvider
  <2>2. /\ Consistent(transfers[t], hold[t], journal[t]) /\ Recorded(transfers[t], journal[t])
        /\ transfers[t] \in Row /\ journal[t] \in Seq(Entry)
    BY <2>1, ExistingFacts DEF RInv
  <2>3. transfers[t].ledgerStatus = "posted" => transfers[t].providerStatus = "succeeded"
    BY <2>2 DEF Consistent, Recorded, ProviderSaidSo
  <2>4. ReviewReason(t) # "provider_failed_ledger_posted"
    BY <2>3 DEF ReviewReason
  <2>5. ASSUME ReviewReason(t) = "provider_succeeded_ledger_not_posted"
        PROVE  ~IsOpen(t) /\ hold[t] # "active" /\ journal[t] = <<>>
    <3>1. /\ transfers[t].providerStatus = "succeeded"
          /\ transfers[t].ledgerStatus \notin {"posted", "reversal_deficit"}
      BY <2>5 DEF ReviewReason
    <3>2. transfers[t].status # "succeeded" /\ transfers[t].status # "pending"
      BY <2>2, <3>1 DEF Consistent, Recorded, ProviderSaidSo
    <3>3. hold[t] # "active" /\ Len(journal[t]) = 0
      BY <2>2, <3>2 DEF Consistent
    <3> QED
      BY <2>2, <3>2, <3>3 DEF IsOpen
  <2> QED
    BY <2>4, <2>5
<1> QED
  BY <1>1, ReconciliationInvariance, PTL

=============================================================================
