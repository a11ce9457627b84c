--------------------------- MODULE Console_proofs ---------------------------
(***************************************************************************)
(* Proofs about the console.                                               *)
(*                                                                         *)
(* The invariant ConsoleInv is proved conjunct by conjunct, each over all  *)
(* actions, from the whole of it: first what the operations on a list make *)
(* of it, then the lists, the loads, the calls that wait, the main loop,   *)
(* what is drawn, and what of each file is in the list of records.  The    *)
(* last part adds PanelInv: what a change of the list makes of its         *)
(* selection, who has yet to report it, and what the panel shows of it.    *)
(***************************************************************************)
EXTENDS Console, FiniteSetTheorems, SequenceTheorems, WellFoundedInduction, TLAPS

\* Induction, of a set of numbers.
LEMMA NatSet ==
  ASSUME NEW S \in SUBSET Nat, 0 \in S, \A n \in S : n + 1 \in S
  PROVE  S = Nat
<1> DEFINE Less == OpToRel(<, Nat)
<1> DEFINE Rest == Nat \ S
<1>1. SUFFICES ASSUME Rest # {} PROVE FALSE
  OBVIOUS
<1>2. IsWellFoundedOn(Less, Nat)
  BY NatLessThanWellFounded, Zenon
<1>3. \A j, k \in Nat : j < k => <<j, k>> \in Less
  BY Zenon DEF OpToRel
<1>4. PICK n \in Rest : \A m \in Rest : ~(<<m, n>> \in Less)
  <2> HIDE DEF Less
  <2>1. Rest \subseteq Nat
    OBVIOUS
  <2> HIDE DEF Rest
  <2>2. QED
    BY <1>1, <1>2, <2>1, WFMin
<1> HIDE DEF Less
<1>5. n # 0 /\ n - 1 \in Nat /\ n - 1 < n
  BY <1>4
<1>6. n - 1 \in S
  BY <1>3, <1>4, <1>5
<1>7. QED
  BY <1>4, <1>5, <1>6

-----------------------------------------------------------------------------
(* What the operations on a list make of it *)

LEMMA LongerPlaces ==
  ASSUME NEW l, NEW n \in Nat, NEW m \in Nat, n <= m, NEW p, ArePlaces(p, l, n, m),
         NEW q, q = IF Matches(l, l.items[m + 1]) THEN Append(p, m + 1) ELSE p
  PROVE  ArePlaces(q, l, n, m + 1)
<1>1. /\ p \in Seq((n + 1)..m) /\ Len(p) \in Nat /\ DOMAIN p = 1..Len(p)
      /\ \A r \in DOMAIN p : p[r] \in (n + 1)..m
  BY DEF ArePlaces
<1>2. CASE ~Matches(l, l.items[m + 1])
  <2>1. q = p
    BY <1>2
  <2>2. q \in Seq((n + 1)..(m + 1))
    <3>1. (n + 1)..m \subseteq (n + 1)..(m + 1)
      OBVIOUS
    <3>2. QED
      BY <1>1, <2>1, <3>1, SeqMonotonic
  <2>3. \A k \in (n + 1)..(m + 1) : Matches(l, l.items[k]) => k \in (n + 1)..m
    BY <1>2
  <2>4. QED
    BY <2>1, <2>2, <2>3 DEF ArePlaces
<1>3. CASE Matches(l, l.items[m + 1])
  <2>1. q = Append(p, m + 1)
    BY <1>3
  <2>2. q \in Seq((n + 1)..(m + 1))
    <3>1. (n + 1)..m \subseteq (n + 1)..(m + 1) /\ m + 1 \in (n + 1)..(m + 1)
      OBVIOUS
    <3>2. p \in Seq((n + 1)..(m + 1))
      BY <1>1, <3>1, SeqMonotonic
    <3> DEFINE Q == (n + 1)..(m + 1)
    <3>3. p \in Seq(Q) /\ m + 1 \in Q
      BY <3>1, <3>2
    <3> HIDE DEF Q
    <3>4. Append(p, m + 1) \in Seq(Q)
      BY <3>3
    <3>5. QED
      BY <2>1, <3>4 DEF Q
  <2>3. /\ DOMAIN q = 1..(Len(p) + 1) /\ q[Len(p) + 1] = m + 1
        /\ \A r \in DOMAIN p : q[r] = p[r]
    BY <1>1, <2>1
  <2>4. \A r \in DOMAIN q : Matches(l, l.items[q[r]])
    BY <1>1, <1>3, <2>3 DEF ArePlaces
  <2>5. ASSUME NEW r \in DOMAIN q, NEW s \in DOMAIN q, r < s PROVE q[r] < q[s]
    <3>1. r \in DOMAIN p
      BY <1>1, <2>3, <2>5
    <3>2. CASE s \in DOMAIN p
      BY <2>3, <2>5, <3>1, <3>2 DEF ArePlaces
    <3>3. CASE s = Len(p) + 1
      BY <1>1, <2>3, <3>1, <3>3
    <3>4. QED
      BY <1>1, <2>3, <3>2, <3>3
  <2>6. ASSUME NEW k \in (n + 1)..(m + 1), Matches(l, l.items[k])
        PROVE  \E r \in DOMAIN q : q[r] = k
    <3>1. CASE k = m + 1
      BY <1>1, <2>3, <3>1
    <3>2. CASE k # m + 1
      <4>1. PICK r \in DOMAIN p : p[r] = k
        BY <2>6, <3>2 DEF ArePlaces
      <4>2. QED
        BY <1>1, <2>3, <4>1
    <3>3. QED
      BY <3>1, <3>2
  <2>7. QED
    BY <2>2, <2>4, <2>5, <2>6 DEF ArePlaces
<1>4. QED
  BY <1>2, <1>3

LEMMA NoPlaces == ASSUME NEW l, NEW n \in Nat PROVE ArePlaces(<<>>, l, n, n)
<1>1. <<>> \in Seq((n + 1)..n) /\ (n + 1)..n = {}
  OBVIOUS
<1>2. QED
  BY <1>1 DEF ArePlaces

\* Places lists what it is said to.
LEMMA PlacesAre ==
  ASSUME NEW l, Len(l.items) \in Nat, NEW n \in 0..Len(l.items)
  PROVE  ArePlaces(Places(l, n), l, n, Len(l.items))
<1> DEFINE Step(f, k) ==
      IF k = n THEN <<>>
      ELSE IF Matches(l, l.items[k]) THEN Append(f[k - 1], k) ELSE f[k - 1]
<1> DEFINE S == {m \in Nat : \E f : f = [k \in n..(n + m) |-> Step(f, k)]}
<1>1. 0 \in S
  <2>1. [k \in n..(n + 0) |-> <<>>] = [k \in n..(n + 0) |-> Step([j \in n..(n + 0) |-> <<>>], k)]
    OBVIOUS
  <2>2. QED
    BY <2>1
<1>2. ASSUME NEW m \in S PROVE m + 1 \in S
  <2>1. PICK f : f = [k \in n..(n + m) |-> Step(f, k)]
    OBVIOUS
  <2> DEFINE g == [k \in n..(n + m + 1) |-> Step(f, k)]
  <2>2. ASSUME NEW k \in n..(n + m + 1) PROVE Step(f, k) = Step(g, k)
    <3>1. CASE k = n
      BY <3>1
    <3>2. CASE k # n
      <4>1. k - 1 \in n..(n + m) /\ k - 1 \in n..(n + m + 1)
        BY <3>2
      <4>2. g[k - 1] = f[k - 1]
        BY <2>1, <4>1
      <4> HIDE DEF g
      <4>3. QED
        BY <3>2, <4>2
    <3>3. QED
      BY <3>1, <3>2
  <2>3. n + m + 1 = n + (m + 1)
    OBVIOUS
  <2>4. g = [k \in n..(n + m + 1) |-> Step(g, k)]
    BY <2>2
  <2> HIDE DEF g
  <2>5. QED
    BY <2>3, <2>4
<1>3. S = Nat
  <2>1. S \in SUBSET Nat
    OBVIOUS
  <2> HIDE DEF S
  <2>2. QED
    BY <1>1, <1>2, <2>1, NatSet
<1>4. Len(l.items) - n \in S
  <2> HIDE DEF S
  <2>1. QED
    BY <1>3
<1>5. \E f : f = [k \in n..Len(l.items) |-> Step(f, k)]
  <2>1. n + (Len(l.items) - n) = Len(l.items)
    OBVIOUS
  <2>2. QED
    BY <1>4, <2>1
<1> DEFINE shown == CHOOSE f : f = [k \in n..Len(l.items) |-> Step(f, k)]
<1>6. shown = [k \in n..Len(l.items) |-> Step(shown, k)]
  BY <1>5
<1>7. Places(l, n) = shown[Len(l.items)]
  BY DEF Places
<1> HIDE DEF shown, S
<1> DEFINE T == {m \in Nat : n + m <= Len(l.items) => ArePlaces(shown[n + m], l, n, n + m)}
<1>8. 0 \in T
  <2>1. shown[n] = <<>>
    BY <1>6
  <2>2. QED
    BY <2>1, NoPlaces
<1>9. ASSUME NEW m \in T PROVE m + 1 \in T
  <2>1. SUFFICES ASSUME n + (m + 1) <= Len(l.items)
                 PROVE  ArePlaces(shown[n + (m + 1)], l, n, n + (m + 1))
    OBVIOUS
  <2>2. ArePlaces(shown[n + m], l, n, n + m)
    BY <2>1
  <2>3. n + (m + 1) = (n + m) + 1 /\ n + m + 1 \in n..Len(l.items) /\ n + m + 1 # n
    BY <2>1
  <2> DEFINE k == n + m
  <2>4. n \in Nat /\ k \in Nat /\ n <= k /\ k + 1 \in n..Len(l.items) /\ k + 1 # n /\ k + 1 - 1 = k
    BY <2>3
  <2> HIDE DEF k, T
  <2>5. shown[k + 1] = IF Matches(l, l.items[k + 1]) THEN Append(shown[k], k + 1) ELSE shown[k]
    <3>1. shown[k + 1] = Step(shown, k + 1)
      BY <1>6, <2>4
    <3>2. QED
      BY <2>4, <3>1
  <2>6. ArePlaces(shown[k], l, n, k)
    BY <2>2 DEF k
  <2> HIDE DEF Step
  <2>7. ArePlaces(shown[k + 1], l, n, k + 1)
    BY <2>4, <2>5, <2>6, LongerPlaces
  <2>8. QED
    BY <2>3, <2>7 DEF k
<1>10. T = Nat
  <2>1. T \in SUBSET Nat
    OBVIOUS
  <2> HIDE DEF T
  <2>2. QED
    BY <1>8, <1>9, <2>1, NatSet
<1>11. Len(l.items) - n \in T
  <2> HIDE DEF T
  <2>1. QED
    BY <1>10
<1>12. n + (Len(l.items) - n) = Len(l.items)
  OBVIOUS
<1>13. QED
  BY <1>7, <1>11, <1>12

\* The places depend on the items, the filter and the types.
LEMMA SamePlaces ==
  ASSUME NEW l, NEW r, NEW p, NEW n \in Nat, NEW m \in Nat,
         r.filter = l.filter, r.types = l.types,
         \A k \in (n + 1)..m : r.items[k] = l.items[k],
         ArePlaces(p, l, n, m)
  PROVE  ArePlaces(p, r, n, m)
<1>1. \A k \in (n + 1)..m : Matches(r, r.items[k]) <=> Matches(l, l.items[k])
  BY DEF Matches
<1>2. \A i \in DOMAIN p : p[i] \in (n + 1)..m
  BY DEF ArePlaces
<1>3. QED
  BY <1>1, <1>2 DEF ArePlaces

LEMMA ListShape ==
  ASSUME NEW I, NEW T, NEW K, NEW l \in ListType(I, T, K)
  PROVE  /\ l.items \in Seq([item : I, search : T, type : K]) /\ Len(l.items) \in Nat
         /\ DOMAIN l.items = 1..Len(l.items)
         /\ \A k \in DOMAIN l.items : l.items[k].item \in I
         /\ l.visible \in Seq(Nat) /\ Len(l.visible) \in Nat
         /\ DOMAIN l.visible = 1..Len(l.visible)
         /\ l.selected \in Nat /\ l.filter \in SUBSET T /\ l.types \in SUBSET K
<1> DEFINE E == [item : I, search : T, type : K]
<1>1. /\ l.items \in Seq(E) /\ l.visible \in Seq(Nat)
      /\ l.selected \in Nat /\ l.filter \in SUBSET T /\ l.types \in SUBSET K
  BY DEF ListType
<1>2. \A e \in E : e.item \in I
  OBVIOUS
<1> HIDE DEF E
<1>3. /\ Len(l.items) \in Nat /\ DOMAIN l.items = 1..Len(l.items)
      /\ \A k \in DOMAIN l.items : l.items[k] \in E
  BY <1>1
<1>4. Len(l.visible) \in Nat /\ DOMAIN l.visible = 1..Len(l.visible)
  BY <1>1
<1>5. QED
  BY <1>1, <1>2, <1>3, <1>4 DEF E

LEMMA PlacesOfList ==
  ASSUME NEW I, NEW T, NEW K, NEW l \in ListType(I, T, K), ListInv(l)
  PROVE  /\ \A r \in DOMAIN l.visible : l.visible[r] \in DOMAIN l.items
         /\ Place(l) \in 0..Len(l.items) /\ SelectedItem(l) \in I \cup {None}
         /\ Place(l) = 0 <=> l.selected = 0
<1>0. /\ Len(l.items) \in Nat /\ DOMAIN l.items = 1..Len(l.items)
      /\ \A k \in DOMAIN l.items : l.items[k].item \in I
      /\ Len(l.visible) \in Nat /\ DOMAIN l.visible = 1..Len(l.visible)
      /\ l.selected \in Nat
  <2>1. \A k \in DOMAIN l.items : l.items[k].item \in I
    BY ListShape, Zenon
  <2>2. Len(l.items) \in Nat /\ DOMAIN l.items = 1..Len(l.items)
    BY ListShape
  <2>3. Len(l.visible) \in Nat /\ DOMAIN l.visible = 1..Len(l.visible)
    BY ListShape
  <2>4. l.selected \in Nat
    BY ListShape
  <2>5. QED
    BY <2>1, <2>2, <2>3, <2>4
<1>1. \A r \in DOMAIN l.visible : l.visible[r] \in 1..Len(l.items)
  BY <1>0 DEF ListInv, ArePlaces
<1>2. l.selected = 0 \/ l.selected \in DOMAIN l.visible
  BY <1>0 DEF ListInv
<1>3. Place(l) \in 0..Len(l.items) /\ (Place(l) = 0 <=> l.selected = 0)
  BY <1>0, <1>1, <1>2 DEF Place
<1>4. SelectedItem(l) \in I \cup {None}
  BY <1>0, <1>3 DEF SelectedItem
<1>5. QED
  BY <1>0, <1>1, <1>3, <1>4

LEMMA NearestIn ==
  ASSUME NEW k \in Nat, NEW n \in Nat
  PROVE  Nearest(k, n) \in Nat /\ Nearest(k, n) <= n /\ (n # 0 => Nearest(k, n) # 0)
BY DEF Nearest

LEMMA RebuildVisibleGood ==
  ASSUME NEW I, NEW T, NEW K, NEW l \in ListType(I, T, K), NEW r, r = RebuildVisible(l)
  PROVE  /\ r \in ListType(I, T, K) /\ ListInv(r)
         /\ r.items = l.items /\ r.filter = l.filter /\ r.types = l.types
<1> DEFINE p == Places(l, 0)
<1>1. ArePlaces(p, l, 0, Len(l.items))
  BY ListShape, PlacesAre
<1>2. p \in Seq(Nat) /\ Len(p) \in Nat
  <2>1. p \in Seq((0 + 1)..Len(l.items)) /\ (0 + 1)..Len(l.items) \subseteq Nat
    BY <1>1, ListShape DEF ArePlaces
  <2> HIDE DEF p
  <2>2. QED
    BY <2>1, SeqMonotonic
<1> DEFINE sel == Nearest(l.selected, Len(p))
<1>3. r = [l EXCEPT !.visible = p, !.selected = sel]
  BY DEF RebuildVisible
<1>4. sel \in Nat /\ sel <= Len(p)
  BY <1>2, ListShape, NearestIn
<1> HIDE DEF p, sel
<1>5. /\ r \in ListType(I, T, K) /\ r.visible = p /\ r.selected = sel
      /\ r.items = l.items /\ r.filter = l.filter /\ r.types = l.types
  BY <1>2, <1>3, <1>4 DEF ListType
<1>6. ArePlaces(p, r, 0, Len(l.items))
  BY <1>1, <1>5, ListShape, SamePlaces
<1>7. QED
  BY <1>4, <1>5, <1>6 DEF ListInv

LEMMA RebuiltGood ==
  ASSUME NEW I, NEW T, NEW K, NEW l \in ListType(I, T, K),
         NEW f \in SUBSET T, NEW t \in SUBSET K, NEW r, r = Rebuilt(l, f, t)
  PROVE  /\ r \in ListType(I, T, K) /\ ListInv(r) /\ r.items = l.items
         /\ r.filter = f /\ r.types = t
<1> DEFINE m == [l EXCEPT !.filter = f, !.types = t]
<1>1. m \in ListType(I, T, K) /\ m.items = l.items /\ m.filter = f /\ m.types = t
  BY DEF ListType
<1> HIDE DEF m
<1>2. r = RebuildVisible(m)
  BY DEF Rebuilt, m
<1>3. QED
  BY <1>1, <1>2, RebuildVisibleGood

LEMMA WithItemsGood ==
  ASSUME NEW I, NEW T, NEW K, NEW l \in ListType(I, T, K),
         NEW e \in Seq([item : I, search : T, type : K]), NEW r, r = WithItems(l, e)
  PROVE  r \in ListType(I, T, K) /\ ListInv(r) /\ r.items = e
<1> DEFINE m == [l EXCEPT !.items = e]
<1> DEFINE v == RebuildVisible(m)
<1>1. m \in ListType(I, T, K) /\ m.items = e
  BY DEF ListType
<1> HIDE DEF m
<1>2. v \in ListType(I, T, K) /\ ListInv(v) /\ v.items = e
  BY <1>1, RebuildVisibleGood
<1> DEFINE s == IF v.visible = <<>> THEN v.selected ELSE 1
<1>3. r = [v EXCEPT !.selected = s]
  BY DEF WithItems, m
<1> HIDE DEF v
<1>4. /\ r \in ListType(I, T, K) /\ r.items = e /\ r.visible = v.visible /\ r.filter = v.filter
      /\ r.types = v.types /\ r.selected = s
  <2>1. s \in Nat
    BY <1>2, ListShape
  <2> HIDE DEF s
  <2>2. QED
    BY <1>2, <1>3, <2>1 DEF ListType
<1>5. r.selected <= Len(r.visible)
  <2>1. Len(v.visible) \in Nat /\ (v.visible # <<>> => Len(v.visible) # 0) /\ v.selected \in Nat
    <3>1. v.visible \in Seq(Nat) /\ v.selected \in Nat
      BY <1>2, ListShape
    <3>2. QED
      BY <3>1, EmptySeq
  <2>2. QED
    BY <1>2, <1>4, <2>1 DEF ListInv
<1>6. ArePlaces(r.visible, r, 0, Len(r.items))
  BY <1>2, <1>4, ListShape, SamePlaces DEF ListInv
<1>7. QED
  BY <1>4, <1>5, <1>6 DEF ListInv

LEMMA EmptiedGood ==
  ASSUME NEW I, NEW T, NEW K, NEW l \in ListType(I, T, K), NEW r, r = Emptied(l)
  PROVE  r \in ListType(I, T, K) /\ ListInv(r) /\ r.items = <<>> /\ r.visible = <<>> /\ r.selected = 0
<1>0. <<>> \in Seq([item : I, search : T, type : K]) /\ <<>> \in Seq(Nat)
  BY EmptySeq
<1>1. r \in ListType(I, T, K) /\ r.items = <<>> /\ r.visible = <<>> /\ r.selected = 0
  BY <1>0 DEF Emptied, ListType
<1>2. ArePlaces(r.visible, r, 0, Len(r.items))
  BY <1>1, NoPlaces
<1>3. QED
  BY <1>1, <1>2 DEF ListInv

LEMMA NewListGood ==
  ASSUME NEW I, NEW T, NEW K, NEW r, r = NewList(T, K)
  PROVE  r \in ListType(I, T, K) /\ ListInv(r) /\ r.items = <<>>
<1>1. /\ r \in ListType(I, T, K) /\ r.items = <<>> /\ r.visible = <<>> /\ r.selected = 0
  BY DEF NewList, ListType
<1>2. ArePlaces(r.visible, r, 0, Len(r.items))
  BY <1>1, NoPlaces
<1>3. QED
  BY <1>1, <1>2 DEF ListInv

\* What changes the selection alone.
LEMMA SelectGood ==
  ASSUME NEW I, NEW T, NEW K, NEW l \in ListType(I, T, K), ListInv(l),
         NEW s \in Nat, s <= Len(l.visible), NEW r, r = [l EXCEPT !.selected = s]
  PROVE  /\ r \in ListType(I, T, K) /\ ListInv(r) /\ r.items = l.items
         /\ r.visible = l.visible /\ r.selected = s /\ r.filter = l.filter /\ r.types = l.types
<1>1. /\ r \in ListType(I, T, K) /\ r.items = l.items /\ r.visible = l.visible
      /\ r.selected = s /\ r.filter = l.filter /\ r.types = l.types
  BY DEF ListType
<1>2. ArePlaces(r.visible, r, 0, Len(r.items))
  <2>1. ArePlaces(l.visible, l, 0, Len(l.items)) /\ Len(l.items) \in Nat
    BY ListShape DEF ListInv
  <2>2. ArePlaces(l.visible, r, 0, Len(l.items))
    BY <1>1, <2>1, SamePlaces
  <2>3. QED
    BY <1>1, <2>2
<1>3. QED
  BY <1>1, <1>2 DEF ListInv

LEMMA MovedGood ==
  ASSUME NEW I, NEW T, NEW K, NEW l \in ListType(I, T, K), ListInv(l),
         NEW k \in Nat, NEW r, r = Moved(l, k)
  PROVE  /\ r \in ListType(I, T, K) /\ ListInv(r) /\ r.items = l.items
         /\ r.visible = l.visible /\ r.filter = l.filter /\ r.types = l.types
<1>1. /\ Nearest(k, Len(l.visible)) \in Nat /\ Nearest(k, Len(l.visible)) <= Len(l.visible)
  BY ListShape, NearestIn
<1>2. r = [l EXCEPT !.selected = Nearest(k, Len(l.visible))]
  BY DEF Moved
<1>3. QED
  BY <1>1, <1>2, SelectGood

LEMMA AddedGood ==
  ASSUME NEW I, NEW T, NEW K, NEW l \in ListType(I, T, K), ListInv(l),
         NEW e \in Seq([item : I, search : T, type : K]), NEW r, r = Added(l, e)
  PROVE  /\ r \in ListType(I, T, K) /\ ListInv(r) /\ r.items = l.items \o e
         /\ \A k \in DOMAIN l.visible : k \in DOMAIN r.visible /\ r.visible[k] = l.visible[k]
         /\ Len(l.visible) <= Len(r.visible)
         /\ r.selected = IF Place(l) = 0 /\ r.visible # <<>> THEN 1 ELSE l.selected
<1> DEFINE E == [item : I, search : T, type : K]
<1> DEFINE n == Len(l.items)
<1> DEFINE m == n + Len(e)
<1> DEFINE items == l.items \o e
<1> DEFINE more == [l EXCEPT !.items = items]
<1> DEFINE p == Places(more, n)
<1> DEFINE q == l.visible \o p
<1>1. l.items \in Seq(E) /\ l.visible \in Seq(Nat) /\ n \in Nat /\ e \in Seq(E) /\ Len(e) \in Nat
      /\ Len(l.visible) \in Nat /\ m \in Nat
  BY ListShape, LenProperties
<1>2. /\ items \in Seq(E) /\ Len(items) = m
      /\ \A k \in 1..n : items[k] = l.items[k]
  <2> HIDE DEF E
  <2>1. QED
    BY <1>1
<1>3. more \in ListType(I, T, K) /\ more.items = items
      /\ more.filter = l.filter /\ more.types = l.types
  BY <1>2 DEF ListType
<1> HIDE DEF E, more, items
<1>4. ArePlaces(p, more, n, m)
  <2>1. Len(more.items) = m /\ n \in 0..m
    BY <1>1, <1>2, <1>3
  <2> HIDE DEF m, n
  <2>2. QED
    BY <1>1, <2>1, PlacesAre
<1>5. ArePlaces(l.visible, more, 0, n)
  <2>1. ArePlaces(l.visible, l, 0, n)
    BY DEF ListInv
  <2>2. \A k \in (0 + 1)..n : more.items[k] = l.items[k]
    BY <1>2, <1>3
  <2> HIDE DEF n
  <2>3. QED
    BY <1>1, <1>3, <2>1, <2>2, SamePlaces
<1> HIDE DEF p
<1>6. /\ p \in Seq((n + 1)..m) /\ Len(p) \in Nat /\ DOMAIN p = 1..Len(p)
      /\ \A k \in DOMAIN p : p[k] \in (n + 1)..m
  BY <1>4 DEF ArePlaces
<1>7. /\ l.visible \in Seq(1..n) /\ DOMAIN l.visible = 1..Len(l.visible)
      /\ \A k \in DOMAIN l.visible : l.visible[k] \in 1..n
  BY <1>5 DEF ArePlaces
<1>8. /\ q \in Seq(1..m) /\ Len(q) = Len(l.visible) + Len(p)
      /\ DOMAIN q = 1..(Len(l.visible) + Len(p))
      /\ \A k \in DOMAIN l.visible : q[k] = l.visible[k]
      /\ \A k \in DOMAIN p : q[Len(l.visible) + k] = p[k]
  <2> DEFINE M == 1..m
  <2>1. 1..n \subseteq M /\ (n + 1)..m \subseteq M
    BY <1>1
  <2> HIDE DEF M
  <2>2. l.visible \in Seq(M) /\ p \in Seq(M)
    BY <1>6, <1>7, <2>1, SeqMonotonic
  <2>3. q \in Seq(M) /\ Len(q) = Len(l.visible) + Len(p)
    BY <2>2
  <2>4. DOMAIN q = 1..(Len(l.visible) + Len(p))
    BY <2>3
  <2>5. \A k \in DOMAIN l.visible : q[k] = l.visible[k]
    BY <2>2
  <2>6. \A k \in DOMAIN p : q[Len(l.visible) + k] = p[k]
    BY <2>2
  <2>7. QED
    BY <2>3, <2>4, <2>5, <2>6 DEF M
<1> HIDE DEF q
<1>9. \A k \in DOMAIN q : k \in DOMAIN l.visible
        \/ \E j \in DOMAIN p : k = Len(l.visible) + j
  <2>1. SUFFICES ASSUME NEW k \in DOMAIN q, k \notin DOMAIN l.visible
                 PROVE  k - Len(l.visible) \in DOMAIN p /\ k = Len(l.visible) + (k - Len(l.visible))
    OBVIOUS
  <2>2. QED
    BY <1>1, <1>6, <1>7, <1>8, <2>1
<1>10. ArePlaces(q, more, 0, m)
  <2>1. ASSUME NEW k \in DOMAIN q PROVE Matches(more, more.items[q[k]])
    <3>1. CASE k \in DOMAIN l.visible
      <4>1. Matches(more, more.items[l.visible[k]])
        BY <1>5, <3>1 DEF ArePlaces
      <4>2. QED
        BY <1>8, <3>1, <4>1
    <3>2. CASE k \notin DOMAIN l.visible
      <4>1. PICK j \in DOMAIN p : k = Len(l.visible) + j
        BY <1>9, <2>1, <3>2
      <4>2. Matches(more, more.items[p[j]])
        BY <1>4, <4>1 DEF ArePlaces
      <4>3. QED
        BY <1>8, <4>1, <4>2
    <3>3. QED
      BY <3>1, <3>2
  <2>2. ASSUME NEW j \in DOMAIN q, NEW k \in DOMAIN q, j < k PROVE q[j] < q[k]
    <3>1. CASE j \in DOMAIN l.visible /\ k \in DOMAIN l.visible
      BY <1>5, <1>8, <2>2, <3>1 DEF ArePlaces
    <3>2. CASE j \in DOMAIN l.visible /\ k \notin DOMAIN l.visible
      <4>1. PICK i \in DOMAIN p : k = Len(l.visible) + i
        BY <1>9, <3>2
      <4>2. q[j] \in 1..n /\ q[k] \in (n + 1)..m
        BY <1>6, <1>7, <1>8, <3>2, <4>1
      <4>3. QED
        BY <1>1, <4>2
    <3>3. CASE j \notin DOMAIN l.visible
      <4>1. k \notin DOMAIN l.visible
        BY <1>1, <1>7, <1>8, <2>2, <3>3
      <4>2. PICK a \in DOMAIN p : j = Len(l.visible) + a
        BY <1>9, <3>3
      <4>3. PICK b \in DOMAIN p : k = Len(l.visible) + b
        BY <1>9, <4>1
      <4>4. a < b
        BY <1>1, <1>6, <2>2, <4>2, <4>3
      <4>5. p[a] < p[b]
        BY <1>4, <4>4 DEF ArePlaces
      <4>6. QED
        BY <1>8, <4>2, <4>3, <4>5
    <3>4. QED
      BY <3>1, <3>2, <3>3
  <2>3. ASSUME NEW k \in 1..m, Matches(more, more.items[k])
        PROVE  \E j \in DOMAIN q : q[j] = k
    <3>1. CASE k <= n
      <4>1. PICK j \in DOMAIN l.visible : l.visible[j] = k
        BY <1>1, <1>5, <2>3, <3>1 DEF ArePlaces
      <4>2. j \in DOMAIN q
        BY <1>1, <1>6, <1>7, <1>8, <4>1
      <4>3. QED
        BY <1>8, <4>1, <4>2
    <3>2. CASE k > n
      <4>1. k \in (n + 1)..m
        BY <1>1, <3>2
      <4>2. PICK j \in DOMAIN p : p[j] = k
        BY <1>4, <2>3, <4>1 DEF ArePlaces
      <4>3. Len(l.visible) + j \in 1..(Len(l.visible) + Len(p))
        BY <1>1, <1>6, <4>2
      <4>4. Len(l.visible) + j \in DOMAIN q
        BY <1>8, <4>3
      <4>5. QED
        BY <1>8, <4>2, <4>4
    <3>3. QED
      BY <1>1, <3>1, <3>2
  <2>4. QED
    BY <1>8, <2>1, <2>2, <2>3 DEF ArePlaces
<1> DEFINE sel == IF Place(l) = 0 /\ q # <<>> THEN 1 ELSE l.selected
<1>11. sel \in Nat /\ sel <= Len(q)
  <2>1. l.selected \in Nat /\ l.selected <= Len(l.visible)
    BY ListShape DEF ListInv
  <2>2. q # <<>> => Len(q) # 0
    BY <1>8
  <2>3. QED
    BY <1>1, <1>6, <1>8, <2>1, <2>2
<1>12. r = [l EXCEPT !.items = items, !.visible = q, !.selected = sel]
  BY DEF Added, items, q, p, more
<1> HIDE DEF sel
<1>13. q \in Seq(Nat)
  <2>1. 1..m \subseteq Nat
    BY <1>1
  <2>2. QED
    BY <1>8, <2>1, SeqMonotonic
<1>14. /\ r \in ListType(I, T, K) /\ r.items = items /\ r.visible = q /\ r.selected = sel
       /\ r.filter = l.filter /\ r.types = l.types
  BY <1>2, <1>11, <1>12, <1>13 DEF ListType, E
<1>15. ArePlaces(q, r, 0, m)
  BY <1>1, <1>3, <1>10, <1>14, SamePlaces
<1>16. QED
  BY <1>1, <1>2, <1>6, <1>7, <1>8, <1>11, <1>14, <1>15 DEF ListInv, items, sel

LEMMA DrawingGood ==
  ASSUME NEW I, NEW T, NEW K, NEW l \in ListType(I, T, K), ListInv(l)
  PROVE  /\ Drawing(l) \in [rows : Seq(I), mark : Nat] /\ Drawing(l).mark <= Len(l.visible)
         /\ DOMAIN Drawing(l).rows = DOMAIN l.visible
         /\ \A r \in DOMAIN l.visible : Drawing(l).rows[r] = l.items[l.visible[r]].item
<1> DEFINE rows == [r \in DOMAIN l.visible |-> l.items[l.visible[r]].item]
<1>1. /\ \A k \in DOMAIN l.items : l.items[k].item \in I
      /\ Len(l.visible) \in Nat /\ DOMAIN l.visible = 1..Len(l.visible)
  <2>1. \A k \in DOMAIN l.items : l.items[k].item \in I
    BY ListShape, Zenon
  <2>2. Len(l.visible) \in Nat /\ DOMAIN l.visible = 1..Len(l.visible)
    BY ListShape
  <2>3. QED
    BY <2>1, <2>2
<1>2. rows \in [1..Len(l.visible) -> I]
  <2>1. \A r \in DOMAIN l.visible : l.visible[r] \in DOMAIN l.items
    BY PlacesOfList, Zenon
  <2>2. QED
    BY <1>1, <2>1
<1>3. rows \in Seq(I)
  BY <1>1, <1>2, SeqDef
<1>4. Drawing(l) = [rows |-> rows, mark |-> Nearest(l.selected, Len(l.visible))]
  BY DEF Drawing
<1>5. /\ Nearest(l.selected, Len(l.visible)) \in Nat
      /\ Nearest(l.selected, Len(l.visible)) <= Len(l.visible)
  BY ListShape, NearestIn
<1>6. QED
  BY <1>3, <1>4, <1>5

-----------------------------------------------------------------------------
(* The calls handed to gui.Update *)

\* d is the sum of two bags, and what is left of one when e is taken from it.
IsSum(d, b, c) ==
  /\ DOMAIN d = DOMAIN b \cup DOMAIN c
  /\ d = [x \in DOMAIN d |-> (IF x \in DOMAIN b THEN b[x] ELSE 0)
                             + (IF x \in DOMAIN c THEN c[x] ELSE 0)]

IsRest(d, b, e) ==
  d = LET B == [x \in DOMAIN b |-> IF x \in DOMAIN SetToBag({e}) THEN b[x] - SetToBag({e})[x]
                                   ELSE b[x]]
      IN  [x \in {y \in DOMAIN B : B[y] > 0} |-> B[x]]

LEMMA BagAdd ==
  ASSUME NEW b, NEW c, IsABag(b), IsABag(c), NEW d, IsSum(d, b, c)
  PROVE  /\ IsABag(d) /\ DOMAIN d = DOMAIN b \cup DOMAIN c
         /\ \A x \in DOMAIN b : x \notin DOMAIN c => d[x] = b[x]
         /\ \A x \in DOMAIN c : x \notin DOMAIN b => d[x] = c[x]
<1>1. /\ DOMAIN d = DOMAIN b \cup DOMAIN c
      /\ \A x \in DOMAIN d : d[x] = (IF x \in DOMAIN b THEN b[x] ELSE 0)
                                      + (IF x \in DOMAIN c THEN c[x] ELSE 0)
      /\ d = [x \in DOMAIN d |-> d[x]]
  BY DEF IsSum
<1>2. /\ \A x \in DOMAIN b : b[x] \in Nat /\ b[x] > 0
      /\ \A x \in DOMAIN c : c[x] \in Nat /\ c[x] > 0
  BY DEF IsABag
<1>3. \A x \in DOMAIN d : d[x] \in Nat /\ d[x] > 0
  BY <1>1, <1>2
<1>4. d \in [DOMAIN d -> {n \in Nat : n > 0}]
  BY <1>1, <1>3
<1>5. IsABag(d)
  BY <1>4 DEF IsABag
<1>6. /\ \A x \in DOMAIN b : x \notin DOMAIN c => d[x] = b[x]
      /\ \A x \in DOMAIN c : x \notin DOMAIN b => d[x] = c[x]
  BY <1>1, <1>2
<1>7. QED
  BY <1>1, <1>5, <1>6

LEMMA BagOfSet ==
  ASSUME NEW S
  PROVE  /\ IsABag(SetToBag(S)) /\ DOMAIN SetToBag(S) = S /\ \A x \in S : SetToBag(S)[x] = 1
BY DEF IsABag, SetToBag

LEMMA BagTake ==
  ASSUME NEW b, IsABag(b), NEW e \in DOMAIN b, NEW d, IsRest(d, b, e)
  PROVE  /\ IsABag(d) /\ DOMAIN d \subseteq DOMAIN b
         /\ \A x \in DOMAIN b : x # e => x \in DOMAIN d /\ d[x] = b[x]
         /\ b[e] = 1 <=> e \notin DOMAIN d
<1>1. \A x \in DOMAIN b : b[x] \in Nat /\ b[x] > 0
  BY DEF IsABag
<1>2. DOMAIN SetToBag({e}) = {e} /\ SetToBag({e})[e] = 1
  BY BagOfSet
<1> DEFINE B == [x \in DOMAIN b |-> IF x \in DOMAIN SetToBag({e}) THEN b[x] - SetToBag({e})[x]
                                    ELSE b[x]]
<1>3. DOMAIN B = DOMAIN b /\ B[e] = b[e] - 1 /\ \A x \in DOMAIN b : x # e => B[x] = b[x]
  BY <1>2
<1>4. d = [x \in {y \in DOMAIN B : B[y] > 0} |-> B[x]]
  BY DEF IsRest
<1> HIDE DEF B
<1>5. DOMAIN d = {y \in DOMAIN b : B[y] > 0} /\ \A x \in DOMAIN d : d[x] = B[x]
  BY <1>3, <1>4
<1>6. \A x \in DOMAIN b : B[x] \in Int
  BY <1>1, <1>3
<1>7. d \in [DOMAIN d -> {n \in Nat : n > 0}]
  BY <1>4, <1>5, <1>6
<1>8. IsABag(d)
  BY <1>7 DEF IsABag
<1>9. b[e] = 1 <=> e \notin DOMAIN d
  BY <1>1, <1>3, <1>5
<1>10. \A x \in DOMAIN b : x # e => x \in DOMAIN d /\ d[x] = b[x]
  BY <1>1, <1>3, <1>5
<1>11. QED
  BY <1>5, <1>8, <1>9, <1>10

PanelType == [run : {"panel"}, item : Item \cup {None}]

LEMMA PanelCallsGood ==
  ASSUME NEW report \in Seq(Item \cup {None})
  PROVE  /\ IsABag(PanelCalls(report)) /\ DOMAIN PanelCalls(report) \subseteq PanelType
         /\ FlushCall \notin DOMAIN PanelCalls(report)
<1> DEFINE S == {[run |-> "panel", item |-> report[i]] : i \in DOMAIN report}
<1>1. PanelCalls(report) = SetToBag(S)
  BY DEF PanelCalls
<1>2. \A i \in DOMAIN report : report[i] \in Item \cup {None}
  OBVIOUS
<1>3. S \subseteq PanelType
  BY <1>2 DEF PanelType
<1>4. FlushCall \notin PanelType
  BY DEF FlushCall, PanelType
<1>5. QED
  BY <1>1, <1>3, <1>4, BagOfSet

CallsInv == CallTypes /\ QueueInv

\* A report adds calls of the panel.
LEMMA CallsReport ==
  ASSUME CallsInv, NEW report \in Seq(Item \cup {None}), NEW more, more = PanelCalls(report),
         NEW sum, IsSum(sum, calls, more)
  PROVE  /\ IsABag(sum) /\ DOMAIN sum \subseteq {FlushCall} \cup PanelType
         /\ queued <=> FlushCall \in DOMAIN sum
         /\ queued => sum[FlushCall] = 1
<1>1. IsABag(calls) /\ DOMAIN calls \subseteq {FlushCall} \cup PanelType
  BY DEF CallsInv, CallTypes, PanelType
<1>2. IsABag(more) /\ DOMAIN more \subseteq PanelType /\ FlushCall \notin DOMAIN more
  BY PanelCallsGood
<1>3. /\ IsABag(sum) /\ DOMAIN sum = DOMAIN calls \cup DOMAIN more
      /\ \A x \in DOMAIN calls : x \notin DOMAIN more => sum[x] = calls[x]
  <2>1. IsABag(sum)
    BY <1>1, <1>2, BagAdd
  <2>2. DOMAIN sum = DOMAIN calls \cup DOMAIN more
    BY <1>1, <1>2, BagAdd
  <2>3. ASSUME NEW x \in DOMAIN calls, x \notin DOMAIN more PROVE sum[x] = calls[x]
    <3>1. x \in DOMAIN sum /\ calls[x] \in Nat
      BY <1>1, <2>2 DEF IsABag
    <3>2. sum[x] = calls[x] + 0
      BY <2>3, <3>1 DEF IsSum
    <3>3. QED
      BY <3>1, <3>2
  <2>4. QED
    BY <2>1, <2>2, <2>3
<1>4. QED
  BY <1>1, <1>2, <1>3 DEF CallsInv, QueueInv

\* A request for a flush makes sure that one is among the calls.
LEMMA CallsFlush ==
  ASSUME queued \in BOOLEAN, NEW b, IsABag(b), DOMAIN b \subseteq {FlushCall} \cup PanelType,
         queued <=> FlushCall \in DOMAIN b, queued => b[FlushCall] = 1,
         calls' = b (+) FlushCalls, queued' = TRUE
  PROVE  CallsInv'
<1>1. CASE queued
  <2>1. FlushCalls = SetToBag({})
    BY <1>1 DEF FlushCalls, EmptyBag
  <2>2. IsABag(FlushCalls) /\ DOMAIN FlushCalls = {}
    BY <2>1, BagOfSet
  <2>3. /\ IsABag(calls') /\ DOMAIN calls' = DOMAIN b /\ calls'[FlushCall] = 1
    <3>1. IsSum(calls', b, FlushCalls)
      BY DEF (+), IsSum
    <3>2. QED
      BY <1>1, <2>2, <3>1, BagAdd
  <2>4. QED
    BY <1>1, <2>3 DEF CallsInv, CallTypes, QueueInv, PanelType
<1>2. CASE ~queued
  <2>1. FlushCalls = SetToBag({FlushCall})
    BY <1>2 DEF FlushCalls, FlushCall
  <2>2. IsABag(FlushCalls) /\ DOMAIN FlushCalls = {FlushCall} /\ FlushCalls[FlushCall] = 1
    BY <2>1, BagOfSet
  <2>3. /\ IsABag(calls') /\ DOMAIN calls' = DOMAIN b \cup {FlushCall} /\ calls'[FlushCall] = 1
    <3>1. IsSum(calls', b, FlushCalls)
      BY DEF (+), IsSum
    <3>2. QED
      BY <1>2, <2>2, <3>1, BagAdd
  <2>4. QED
    BY <2>3 DEF CallsInv, CallTypes, QueueInv, PanelType
<1>3. QED
  BY <1>1, <1>2

LEMMA CallsDispatch ==
  ASSUME CallsInv, NEW report \in Seq(Item \cup {None}), Dispatch(report)
  PROVE  CallsInv' /\ queued'
<1> DEFINE b == calls (+) PanelCalls(report)
<1>1. calls' = b (+) FlushCalls /\ queued' = TRUE
  BY DEF Dispatch
<1> HIDE DEF b
<1>2. /\ IsABag(b) /\ DOMAIN b \subseteq {FlushCall} \cup PanelType
      /\ queued <=> FlushCall \in DOMAIN b
      /\ queued => b[FlushCall] = 1
  <2>1. IsSum(b, calls, PanelCalls(report))
    BY DEF (+), IsSum, b
  <2>2. QED
    BY <2>1, CallsReport
<1>3. queued \in BOOLEAN
  BY DEF CallsInv, CallTypes
<1>4. QED
  BY <1>1, <1>2, <1>3, CallsFlush

-----------------------------------------------------------------------------
(* The goroutines *)

LEMMA LoadShape ==
  ASSUME LoadTypes, NEW i \in DOMAIN loads
  PROVE  /\ Len(loads) \in Nat /\ DOMAIN loads = 1..Len(loads)
         /\ loads[i].file \in Files /\ loads[i].at \in States /\ loads[i].pos \in Nat
         /\ loads[i].batch \in Seq(Item) /\ loads[i].report \in Seq(Item \cup {None})
         /\ loads[i].cancelled \in BOOLEAN
<1> DEFINE L == LoadType
<1>1. loads \in Seq(L)
  BY DEF LoadTypes
<1>2. \A l \in L : /\ l.file \in Files /\ l.at \in States /\ l.pos \in Nat
                   /\ l.batch \in Seq(Item) /\ l.report \in Seq(Item \cup {None})
                   /\ l.cancelled \in BOOLEAN
  BY DEF LoadType
<1> HIDE DEF L
<1>3. Len(loads) \in Nat /\ DOMAIN loads = 1..Len(loads) /\ loads[i] \in L
  BY <1>1
<1>4. QED
  BY <1>2, <1>3

\* The records of a batch are entries of the list.
LEMMA EntriesGood ==
  ASSUME LoadTypes, NEW i \in DOMAIN loads, BatchInv(i, loads[i]), NEW e, e = EntriesOf(loads[i].batch)
  PROVE  /\ e \in Seq([item : Item, search : AnyText, type : Kinds])
         /\ Len(e) = Len(loads[i].batch) /\ DOMAIN e = 1..Len(e)
         /\ \A k \in DOMAIN e :
              /\ e[k].item = <<i, loads[i].pos - Len(loads[i].batch) + k>>
<1> DEFINE l == loads[i]
<1> DEFINE n == Len(l.batch)
<1> DEFINE R == [text : AnyText, type : Kinds]
<1>1. /\ i \in Nat /\ l.file \in Files /\ l.pos \in Nat /\ n \in Nat /\ DOMAIN l.batch = 1..n
      /\ n <= l.pos /\ l.pos <= Len(Contents[l.file])
      /\ \A k \in 1..n : l.batch[k] = <<i, l.pos - n + k>> /\ l.batch[k] \in Item
  <2>1. l.batch \in Seq(Item) /\ l.file \in Files /\ l.pos \in Nat /\ i \in Nat
    BY LoadShape
  <2>2. n \in Nat /\ DOMAIN l.batch = 1..n /\ \A k \in 1..n : l.batch[k] \in Item
    BY <2>1
  <2>3. /\ n <= l.pos /\ l.pos <= Len(Contents[l.file])
        /\ \A k \in 1..n : l.batch[k] = <<i, l.pos - n + k>>
    BY DEF BatchInv
  <2>4. QED
    BY <2>1, <2>2, <2>3
<1>2. Contents[l.file] \in Seq(R)
  BY <1>1, ConsoleAssumption
<1>3. \A k \in 1..Len(Contents[l.file]) : Contents[l.file][k] \in R
  <2> HIDE DEF R, l
  <2>1. QED
    BY <1>2
<1>4. \A r \in R : r.text \in AnyText /\ r.type \in Kinds
  OBVIOUS
<1>5. ASSUME NEW k \in 1..n
      PROVE  /\ RecordOf(l.batch[k]) \in R
             /\ EntryOf(l.batch[k], RecordOf(l.batch[k]).text, RecordOf(l.batch[k]).type)
                  \in [item : Item, search : AnyText, type : Kinds]
  <2>1. l.batch[k] = <<i, l.pos - n + k>> /\ l.batch[k] \in Item
    BY <1>1
  <2>2. l.batch[k][1] = i /\ l.batch[k][2] = l.pos - n + k
    BY <2>1
  <2>3. RecordOf(l.batch[k]) = Contents[l.file][l.pos - n + k]
    BY <2>2 DEF RecordOf, FileOf
  <2>4. Len(Contents[l.file]) \in Nat
    <3> HIDE DEF R, l
    <3>1. QED
      BY <1>2
  <2> HIDE DEF n, l, R
  <2>5. l.pos - n + k \in 1..Len(Contents[l.file])
    BY <1>1, <2>4
  <2>6. RecordOf(l.batch[k]) \in R
    BY <1>3, <2>3, <2>5
  <2>7. RecordOf(l.batch[k]).text \in AnyText /\ RecordOf(l.batch[k]).type \in Kinds
    BY <1>4, <2>6
  <2>8. QED
    BY <2>1, <2>6, <2>7 DEF EntryOf
<1>6. e = [k \in 1..n |-> EntryOf(l.batch[k], RecordOf(l.batch[k]).text, RecordOf(l.batch[k]).type)]
  BY <1>1 DEF EntriesOf
<1> HIDE DEF n, l, R
<1>7. e \in [1..n -> [item : Item, search : AnyText, type : Kinds]]
  BY <1>5, <1>6
<1>8. e \in Seq([item : Item, search : AnyText, type : Kinds]) /\ Len(e) = n /\ DOMAIN e = 1..n
  <2> DEFINE E == [item : Item, search : AnyText, type : Kinds]
  <2>1. e \in [1..n -> E]
    BY <1>7
  <2> HIDE DEF E
  <2>2. e \in Seq(E)
    BY <1>1, <2>1, SeqDef
  <2>3. Len(e) = n /\ DOMAIN e = 1..n
    BY <1>1, <2>1, <2>2
  <2>4. QED
    BY <2>2, <2>3 DEF E
<1>9. \A k \in 1..n : e[k].item = l.batch[k]
  BY <1>6 DEF EntryOf
<1>10. QED
  BY <1>1, <1>8, <1>9 DEF n, l

\* The files in some order.
LEMMA FilesInOrder ==
  /\ SetToSeq(Files) \in Seq(Files)
  /\ DOMAIN SetToSeq(Files) = 1..Len(SetToSeq(Files)) /\ Len(SetToSeq(Files)) \in Nat
<1>1. IsFiniteSet(Files)
  BY ConsoleAssumption
<1>2. Cardinality(Files) \in Nat /\ ExistsBijection(1..Cardinality(Files), Files)
  BY <1>1, FS_CardinalityType
<1>3. \E f \in [1..Cardinality(Files) -> Files] : IsInjective(f)
  BY <1>2 DEF ExistsBijection, Bijection, Injection, IsInjective
<1>4. SetToSeq(Files) \in [1..Cardinality(Files) -> Files]
  BY <1>3 DEF SetToSeq
<1>5. SetToSeq(Files) \in Seq(Files)
  BY <1>2, <1>4, SeqDef
<1>6. QED
  BY <1>2, <1>4, <1>5

\* What a change of a list reports is an item of it, or that there is none.
LEMMA ReportsGood ==
  ASSUME NEW I, NEW T, NEW K, NEW l, NEW r \in ListType(I, T, K), ListInv(r)
  PROVE  /\ MoveReport(l, r) \in Seq(I \cup {None})
         /\ RebuildReport(l, r) \in Seq(I \cup {None})
         /\ AddReport(l, r) \in Seq(I \cup {None})
         /\ <<SelectedItem(r)>> \in Seq(I \cup {None})
<1>1. SelectedItem(r) \in I \cup {None}
  BY PlacesOfList
<1>2. <<SelectedItem(r)>> \in Seq(I \cup {None}) /\ <<>> \in Seq(I \cup {None})
  BY <1>1
<1>3. QED
  BY <1>2 DEF MoveReport, RebuildReport, AddReport

-----------------------------------------------------------------------------
(* The lists *)

\* Neither list changes, nor is the list copied.
ListsKept ==
  /\ files' = files /\ records' = records
  /\ gui'.at = "draw" => gui' = gui

LEMMA ListsAreKept ==
  ASSUME ListTypes, ListsInv, ListsKept
  PROVE  (ListTypes /\ ListsInv)'
BY DEF ListTypes, ListsInv, ListsKept

\* The main loop is idle, or will be.
LEMMA SelectingNoDraw ==
  ASSUME NEW report, Selecting(report) PROVE gui'.at # "draw"
BY DEF Selecting, Idle

LEMMA ListsStep ==
  ASSUME ConsoleInv, [Next]_vars
  PROVE  (ListTypes /\ ListsInv)'
<1> USE DEF ConsoleInv
<1>0. /\ ListTypes /\ ListsInv /\ LoadTypes
      /\ files \in ListType(Files, Files, {"file"}) /\ ListInv(files)
      /\ records \in ListType(Item, AnyText, Kinds) /\ ListInv(records)
  BY DEF TypeOK, ListTypes, ListsInv
<1>1. CASE UNCHANGED vars
  BY <1>0, <1>1, ListsAreKept DEF ListsKept, vars, listVars
<1>2. ASSUME NEW i \in DOMAIN loads, ReadRecord(i) PROVE ListsKept
  BY <1>2 DEF ReadRecord, ListsKept, listVars
<1>3. ASSUME NEW i \in DOMAIN loads, AddElements(i) PROVE (ListTypes /\ ListsInv)'
  <2> DEFINE e == EntriesOf(loads[i].batch)
  <2>1. BatchInv(i, loads[i])
    BY DEF LoadInv
  <2>2. e \in Seq([item : Item, search : AnyText, type : Kinds])
    BY <1>0, <2>1, EntriesGood
  <2>3. records' = Added(records, e) /\ files' = files /\ gui' = gui
    BY <1>3 DEF AddElements
  <2> HIDE DEF e
  <2>4. /\ records' \in ListType(Item, AnyText, Kinds) /\ ListInv(records')
        /\ Len(records.visible) <= Len(records'.visible)
    BY <1>0, <2>2, <2>3, AddedGood
  <2>5. gui.at = "draw" => gui.drawing.mark <= Len(records'.visible)
    <3>1. ASSUME gui.at = "draw" PROVE gui.drawing.mark \in Nat
      BY <3>1 DEF TypeOK, GuiTypes, DrawingType
    <3>2. Len(records.visible) \in Nat /\ Len(records'.visible) \in Nat
      BY <1>0, <2>4, ListShape
    <3>3. QED
      BY <1>0, <2>4, <3>1, <3>2 DEF ListsInv
  <2>6. QED
    BY <1>0, <2>3, <2>4, <2>5 DEF ListTypes, ListsInv
<1>4. ASSUME NEW i \in DOMAIN loads, ReportAdded(i) PROVE ListsKept
  BY <1>4 DEF ReportAdded, ListsKept, listVars
<1>5. ASSUME NEW i \in DOMAIN loads, RequestFlush(i) PROVE ListsKept
  BY <1>5 DEF RequestFlush, ListsKept
<1>6. CASE PopulateFiles
  <2> DEFINE names == SetToSeq(Files)
  <2> DEFINE e == [j \in DOMAIN names |-> EntryOf(names[j], names[j], "file")]
  <2>1. names \in Seq(Files) /\ Len(names) \in Nat /\ DOMAIN names = 1..Len(names)
    BY FilesInOrder
  <2>2. files' = WithItems(files, e) /\ Selecting(<<SelectedItem(files')>>) /\ records' = records
    BY <1>6 DEF PopulateFiles, listVars
  <2> HIDE DEF names
  <2>3. e \in [1..Len(names) -> [item : Files, search : Files, type : {"file"}]]
    BY <2>1 DEF EntryOf
  <2> HIDE DEF e
  <2>4. e \in Seq([item : Files, search : Files, type : {"file"}])
    <3> DEFINE E == [item : Files, search : Files, type : {"file"}]
    <3>1. e \in [1..Len(names) -> E]
      BY <2>3
    <3> HIDE DEF E
    <3>2. e \in Seq(E)
      BY <2>1, <3>1, SeqDef
    <3>3. QED
      BY <3>2 DEF E
  <2>5. files' \in ListType(Files, Files, {"file"}) /\ ListInv(files')
    BY <1>0, <2>2, <2>4, WithItemsGood
  <2>6. QED
    BY <1>0, <2>2, <2>5, SelectingNoDraw DEF ListTypes, ListsInv
<1>7. CASE CancelLoad
  <2>1. ListsKept
    BY <1>7 DEF CancelLoad, ListsKept, listVars
  <2>2. QED
    BY <1>0, <2>1, ListsAreKept
<1>8. CASE ClearRecords
  <2>1. records' = Emptied(records) /\ files' = files /\ gui'.at = "start"
    <3>1. gui' = [gui EXCEPT !.at = "start"] /\ gui.at = "clear"
      BY <1>8 DEF ClearRecords
    <3>2. gui'.at = "start"
      BY <3>1 DEF TypeOK, GuiTypes
    <3>3. QED
      BY <1>8, <3>2 DEF ClearRecords
  <2>2. records' \in ListType(Item, AnyText, Kinds) /\ ListInv(records')
    BY <1>0, <2>1, EmptiedGood
  <2>3. QED
    BY <1>0, <2>1, <2>2 DEF ListTypes, ListsInv
<1>9. CASE StartLoad
  <2>1. ListsKept
    BY <1>9 DEF StartLoad, ListsKept, listVars, Idle
  <2>2. QED
    BY <1>0, <2>1, ListsAreKept
<1>10. CASE MoveFile
  <2>1. PICK k \in 1..Len(files.items) : files' = Moved(files, k) /\ Selecting(MoveReport(files, files'))
    BY <1>10 DEF MoveFile
  <2>2. k \in Nat
    OBVIOUS
  <2>3. files' \in ListType(Files, Files, {"file"}) /\ ListInv(files')
    BY <1>0, <2>1, <2>2, MovedGood
  <2>4. QED
    BY <1>0, <1>10, <2>1, <2>3, SelectingNoDraw DEF ListTypes, ListsInv, MoveFile, listVars
<1>11. CASE SearchFiles
  <2>1. PICK found \in FileFilters :
          files' = Rebuilt(files, found, files.types) /\ Selecting(RebuildReport(files, files'))
    BY <1>11 DEF SearchFiles
  <2>2. found \in SUBSET Files /\ files.types \in SUBSET {"file"}
    BY <1>0, ConsoleAssumption, ListShape
  <2>3. files' \in ListType(Files, Files, {"file"}) /\ ListInv(files')
    BY <1>0, <2>1, <2>2, RebuiltGood
  <2>4. QED
    BY <1>0, <1>11, <2>1, <2>3, SelectingNoDraw DEF ListTypes, ListsInv, SearchFiles, listVars
<1>12. CASE MoveRecord
  <2>1. PICK k \in 1..Len(records.items) : records' = Moved(records, k)
    BY <1>12 DEF MoveRecord
  <2>2. k \in Nat
    OBVIOUS
  <2>3. records' \in ListType(Item, AnyText, Kinds) /\ ListInv(records')
    BY <1>0, <2>1, <2>2, MovedGood
  <2>4. QED
    BY <1>0, <1>12, <2>3 DEF ListTypes, ListsInv, MoveRecord, Command
<1>13. ASSUME NEW f \in SUBSET AnyText, NEW t \in SUBSET Kinds, Command, Rebuild(f, t)
       PROVE  (ListTypes /\ ListsInv)'
  <2>1. records' = Rebuilt(records, f, t)
    BY <1>13 DEF Rebuild
  <2>2. records' \in ListType(Item, AnyText, Kinds) /\ ListInv(records')
    BY <1>0, <2>1, RebuiltGood
  <2>3. QED
    BY <1>0, <1>13, <2>2 DEF ListTypes, ListsInv, Rebuild, Command
<1>14. CASE SearchRecords
  <2>1. PICK f \in Filters : Rebuild(f, records.types)
    BY <1>14 DEF SearchRecords
  <2>2. f \in SUBSET AnyText /\ records.types \in SUBSET Kinds
    BY <1>0, ConsoleAssumption, ListShape
  <2>3. QED
    BY <1>13, <1>14, <2>1, <2>2 DEF SearchRecords
<1>15. CASE ToggleRecordType
  <2>1. PICK t \in Types : Rebuild(records.filter, t)
    BY <1>15 DEF ToggleRecordType
  <2>2. t \in SUBSET Kinds /\ records.filter \in SUBSET AnyText
    BY <1>0, ConsoleAssumption, ListShape
  <2>3. QED
    BY <1>13, <1>15, <2>1, <2>2 DEF ToggleRecordType
<1>16. CASE ToggleLineEndings \/ ChangeView \/ ShowRecord \/ Layout \/ TakeFlush
  <2>1. ListsKept
    <3>1. CASE ToggleLineEndings
      BY <3>1 DEF ToggleLineEndings, ListsKept, listVars
    <3>2. CASE ChangeView
      BY <3>2 DEF ChangeView, ListsKept, listVars
    <3>3. CASE ShowRecord
      <4> HIDE DEF ConsoleInv
      <4>1. UNCHANGED <<files, listVars, loadVars, gui, drawn, commands, raced>>
        BY <3>3, Zenon DEF ShowRecord
      <4>2. QED
        BY <4>1 DEF ListsKept, listVars
    <3>4. CASE Layout \/ TakeFlush
      BY <3>4 DEF Layout, TakeFlush, ListsKept, listVars
    <3>5. QED
      BY <1>16, <3>1, <3>2, <3>3, <3>4
  <2>2. QED
    BY <1>0, <2>1, ListsAreKept
<1>17. CASE CopyList
  <2>1. gui' = [at |-> "draw", drawing |-> Drawing(records)] /\ files' = files /\ records' = records
    BY <1>17 DEF CopyList, listVars
  <2>2. Drawing(records).mark <= Len(records.visible)
    BY <1>0, DrawingGood
  <2>3. QED
    BY <1>0, <2>1, <2>2 DEF ListTypes, ListsInv
<1>18. CASE DrawList
  <2>1. /\ gui.at = "draw" /\ gui'.at = "idle" /\ files' = files
        /\ records' = [records EXCEPT !.selected = gui.drawing.mark]
    BY <1>18 DEF DrawList, Idle
  <2>2. gui.drawing.mark \in Nat /\ gui.drawing.mark <= Len(records.visible)
    BY <2>1 DEF TypeOK, GuiTypes, DrawingType, ListsInv
  <2>3. records' \in ListType(Item, AnyText, Kinds) /\ ListInv(records')
    BY <1>0, <2>1, <2>2, SelectGood
  <2>4. QED
    BY <1>0, <2>1, <2>3 DEF ListTypes, ListsInv
<1>19. QED
  BY <1>0, <1>1, <1>2, <1>3, <1>4, <1>5, <1>6, <1>7, <1>8, <1>9, <1>10, <1>11, <1>12, <1>14,
     <1>15, <1>16, <1>17, <1>18, ListsAreKept DEF Next, MainLoop, Load

-----------------------------------------------------------------------------
(* The loads *)

\* One load goes on.
OneLoad(i, r) == /\ DOMAIN loads' = DOMAIN loads
                 /\ loads'[i] = r /\ \A j \in DOMAIN loads : j # i => loads'[j] = loads[j]

LEMMA OneLoadType ==
  ASSUME LoadTypes, NEW i \in DOMAIN loads, NEW r \in LoadType, loads' = [loads EXCEPT ![i] = r]
  PROVE  loads' \in Seq(LoadType) /\ Len(loads') = Len(loads) /\ OneLoad(i, r)
<1>1. loads \in Seq(LoadType)
  BY DEF LoadTypes
<1>2. loads' \in Seq(LoadType) /\ Len(loads') = Len(loads)
  BY <1>1
<1>3. QED
  BY <1>1, <1>2 DEF OneLoad

LEMMA LoadIs ==
  ASSUME LoadTypes, NEW i \in DOMAIN loads
  PROVE  loads[i] \in LoadType /\ i \in Nat \ {0} /\ loads \in Seq(LoadType)
BY DEF LoadTypes

\* What a step makes of a load.
Makes(r, l, at, pos, batch, report) ==
  r = [l EXCEPT !.at = at, !.pos = pos, !.batch = batch, !.report = report]

Made(r, l, at, pos, batch, report) ==
  /\ r \in LoadType /\ r.at = at /\ r.pos = pos /\ r.batch = batch /\ r.report = report
  /\ r.file = l.file /\ r.cancelled = l.cancelled

LEMMA LoadMade ==
  ASSUME NEW l \in LoadType, NEW at \in States, NEW pos \in Nat, NEW batch \in Seq(Item),
         NEW report \in Seq(Item \cup {None}), NEW r,
         Makes(r, l, at, pos, batch, report)
  PROVE  Made(r, l, at, pos, batch, report)
<1> DEFINE P == Seq(Item)
<1> DEFINE Q == Seq(Item \cup {None})
<1>1. l \in [file : Files, at : States, pos : Nat, batch : P, report : Q, cancelled : BOOLEAN]
      /\ batch \in P /\ report \in Q
  BY DEF LoadType
<1> HIDE DEF P, Q
<1>2. r \in [file : Files, at : States, pos : Nat, batch : P, report : Q, cancelled : BOOLEAN]
      /\ r.at = at /\ r.pos = pos /\ r.batch = batch /\ r.report = report
      /\ r.file = l.file /\ r.cancelled = l.cancelled
  BY <1>1 DEF Makes
<1>3. QED
  BY <1>2 DEF LoadType, P, Q, Made

\* What is true of every load by itself.
EachLoad ==
  /\ LoadTypes
  /\ gui.at \in {"clear", "start"} => current = 0
  /\ \A i \in DOMAIN loads : BatchInv(i, loads[i]) /\ (loads[i].cancelled <=> i # current)

LEMMA OneLoadGood ==
  ASSUME EachLoad, NEW i \in DOMAIN loads, NEW r \in LoadType, loads' = [loads EXCEPT ![i] = r],
         BatchInv(i, r), r.cancelled = loads[i].cancelled, current' = current, gui' = gui
  PROVE  EachLoad'
<1>1. loads' \in Seq(LoadType) /\ Len(loads') = Len(loads) /\ OneLoad(i, r)
  BY OneLoadType DEF EachLoad
<1>2. current \in 0..Len(loads)
  BY DEF EachLoad, LoadTypes
<1>3. LoadTypes'
  BY <1>1, <1>2 DEF LoadTypes
<1>4. ASSUME NEW j \in DOMAIN loads'
      PROVE  BatchInv(j, loads'[j]) /\ (loads'[j].cancelled <=> j # current')
  BY <1>1, <1>4 DEF OneLoad, EachLoad
<1>5. QED
  BY <1>3, <1>4 DEF EachLoad

\* The same loads.
LEMMA SameLoadsGood ==
  ASSUME EachLoad, UNCHANGED <<loads, current>>,
         gui'.at \in {"clear", "start"} => gui.at \in {"clear", "start"}
  PROVE  EachLoad'
BY DEF EachLoad, LoadTypes

LEMMA ReadRecordGood ==
  ASSUME EachLoad, NEW i \in DOMAIN loads, ReadRecord(i)
  PROVE  EachLoad'
<1> DEFINE l == loads[i]
<1> DEFINE n == Len(l.batch)
<1> DEFINE end == l.pos = Len(Contents[l.file])
<1> DEFINE bad == ~end /\ Contents[l.file][l.pos + 1].type = "bad"
<1> DEFINE batch == Append(l.batch, <<i, l.pos + 1>>)
<1>1. l \in LoadType /\ i \in Nat \ {0}
  BY LoadIs DEF EachLoad
<1>2. /\ l.at = "read" /\ BatchInv(i, l) /\ UNCHANGED <<current, gui>>
  BY DEF ReadRecord, EachLoad
<1>3. /\ l.file \in Files /\ l.pos \in Nat /\ l.batch \in Seq(Item) /\ n \in Nat
      /\ n < recordBatchSize /\ n <= l.pos /\ l.pos <= Len(Contents[l.file])
      /\ DOMAIN l.batch = 1..n /\ \A k \in 1..n : l.batch[k] = <<i, l.pos - n + k>>
      /\ recordBatchSize \in Nat /\ Len(Contents[l.file]) \in Nat
  <2>1. l.file \in Files /\ l.pos \in Nat /\ l.batch \in Seq(Item)
    BY <1>1 DEF LoadType
  <2>2. n \in Nat /\ DOMAIN l.batch = 1..n
    BY <2>1
  <2>3. /\ n < recordBatchSize /\ n <= l.pos /\ l.pos <= Len(Contents[l.file])
        /\ \A k \in 1..n : l.batch[k] = <<i, l.pos - n + k>>
    BY <1>2 DEF BatchInv
  <2>4. recordBatchSize \in Nat /\ Contents[l.file] \in Seq([text : AnyText, type : Kinds])
    BY <2>1, ConsoleAssumption
  <2>5. QED
    BY <2>1, <2>2, <2>3, <2>4, LenProperties
<1>4. \/ loads' = [loads EXCEPT ![i] = [l EXCEPT !.at = IF l.batch = <<>> THEN "done" ELSE "add"]]
      \/ loads' = [loads EXCEPT ![i] = [l EXCEPT !.at = "done", !.batch = <<>>]]
      \/ ~end /\ loads' = [loads EXCEPT ![i] =
           [l EXCEPT !.pos = @ + 1, !.batch = batch,
                     !.at = IF Len(batch) >= recordBatchSize THEN "add" ELSE "read"]]
  BY DEF ReadRecord, Goto
<1> HIDE DEF l, n, batch
<1>5. CASE loads' = [loads EXCEPT ![i] = [l EXCEPT !.at = IF l.batch = <<>> THEN "done" ELSE "add"]]
  <2> DEFINE at == IF l.batch = <<>> THEN "done" ELSE "add"
  <2> DEFINE r == [l EXCEPT !.at = at]
  <2>1. r \in LoadType /\ r.batch = l.batch /\ r.pos = l.pos /\ r.file = l.file
        /\ r.cancelled = l.cancelled /\ r.at = at
    BY <1>1 DEF LoadType, States
  <2>2. at = "done" => n = 0
    BY DEF n
  <2>3. at \in {"done", "add"}
    OBVIOUS
  <2> HIDE DEF r, at
  <2>4. BatchInv(i, r)
    BY <1>3, <2>1, <2>2, <2>3 DEF BatchInv, n
  <2>5. QED
    BY <1>2, <1>5, <2>1, <2>4, OneLoadGood DEF r, at, l
<1>6. CASE loads' = [loads EXCEPT ![i] = [l EXCEPT !.at = "done", !.batch = <<>>]]
  <2> DEFINE r == [l EXCEPT !.at = "done", !.batch = <<>>]
  <2>1. r \in LoadType /\ r.batch = <<>> /\ r.pos = l.pos /\ r.file = l.file
        /\ r.cancelled = l.cancelled /\ r.at = "done"
    <3>1. Makes(r, l, "done", l.pos, <<>>, l.report)
      BY <1>1 DEF LoadType, Makes
    <3>2. "done" \in States /\ l.pos \in Nat /\ <<>> \in Seq(Item)
          /\ l.report \in Seq(Item \cup {None})
      BY <1>1 DEF LoadType, States
    <3> HIDE DEF r
    <3>3. Made(r, l, "done", l.pos, <<>>, l.report)
      BY <1>1, <3>1, <3>2, LoadMade
    <3>4. QED
      BY <3>2, <3>3 DEF Made
  <2> HIDE DEF r
  <2>2. BatchInv(i, r)
    BY <1>3, <2>1 DEF BatchInv
  <2>3. QED
    BY <1>2, <1>6, <2>1, <2>2, OneLoadGood DEF r, l
<1>7. CASE ~end /\ loads' = [loads EXCEPT ![i] =
           [l EXCEPT !.pos = @ + 1, !.batch = batch,
                     !.at = IF Len(batch) >= recordBatchSize THEN "add" ELSE "read"]]
  <2> DEFINE at == IF Len(batch) >= recordBatchSize THEN "add" ELSE "read"
  <2> DEFINE r == [l EXCEPT !.pos = l.pos + 1, !.batch = batch, !.at = at]
  <2>1. <<i, l.pos + 1>> \in Item
    BY <1>1, <1>3 DEF Item
  <2>2. batch \in Seq(Item) /\ Len(batch) = n + 1 /\ batch[n + 1] = <<i, l.pos + 1>>
        /\ \A k \in 1..n : batch[k] = l.batch[k]
    BY <1>3, <2>1 DEF batch, n
  <2>3. r \in LoadType /\ r.batch = batch /\ r.pos = l.pos + 1 /\ r.file = l.file
        /\ r.cancelled = l.cancelled /\ r.at = at
    <3>1. Makes(r, l, at, l.pos + 1, batch, l.report)
      BY <1>1 DEF LoadType, Makes
    <3>2. at \in States /\ l.pos + 1 \in Nat /\ l.report \in Seq(Item \cup {None})
      BY <1>1, <1>3 DEF LoadType, States
    <3> HIDE DEF r, at
    <3>3. Made(r, l, at, l.pos + 1, batch, l.report)
      BY <1>1, <2>2, <3>1, <3>2, LoadMade
    <3>4. QED
      BY <3>2, <3>3 DEF Made
  <2>4. at \in {"add", "read"} /\ (at = "read" => n + 1 < recordBatchSize)
    BY <1>3, <2>2
  <2>5. \A k \in 1..(n + 1) : batch[k] = <<i, l.pos + 1 - (n + 1) + k>>
    <3>1. SUFFICES ASSUME NEW k \in 1..(n + 1)
                   PROVE  batch[k] = <<i, l.pos + 1 - (n + 1) + k>>
      OBVIOUS
    <3>2. l.pos \in Nat /\ n \in Nat /\ k \in Nat /\ (k \in 1..n \/ k = n + 1)
      BY <1>3
    <3> DEFINE pos == l.pos
    <3> HIDE DEF pos
    <3>3. pos + 1 - (n + 1) + k = pos - n + k /\ pos - n + (n + 1) = pos + 1
      BY <3>2 DEF pos
    <3>4. CASE k = n + 1
      BY <2>2, <3>3, <3>4 DEF pos
    <3>5. CASE k \in 1..n
      BY <1>3, <2>2, <3>3, <3>5 DEF pos
    <3>6. QED
      BY <3>2, <3>4, <3>5
  <2>6. loads' = [loads EXCEPT ![i] = r]
    BY <1>7
  <2> HIDE DEF r, at
  <2>7. l.pos + 1 <= Len(Contents[l.file])
    BY <1>3, <1>7
  <2>8. BatchInv(i, r)
    BY <1>3, <2>2, <2>3, <2>4, <2>5, <2>7 DEF BatchInv
  <2>9. QED
    BY <1>2, <2>3, <2>6, <2>8, OneLoadGood DEF l
<1>8. QED
  BY <1>4, <1>5, <1>6, <1>7

LEMMA LoadsStep ==
  ASSUME ConsoleInv, [Next]_vars
  PROVE  EachLoad'
<1>1. EachLoad /\ ListTypes /\ ListsInv
  BY DEF ConsoleInv, TypeOK, LoadInv, EachLoad
<1>2. CASE UNCHANGED vars
  BY <1>1, <1>2, SameLoadsGood DEF vars, loadVars
<1>3. ASSUME NEW i \in DOMAIN loads, ReadRecord(i) PROVE EachLoad'
  BY <1>1, <1>3, ReadRecordGood
<1>4. ASSUME NEW i \in DOMAIN loads, AddElements(i) PROVE EachLoad'
  <2> DEFINE report == AddReport(records, records')
  <2> DEFINE r == [loads[i] EXCEPT !.batch = <<>>, !.report = report, !.at = AfterAdding(report)]
  <2>1. /\ loads[i].at = "add" /\ UNCHANGED <<current, gui>>
        /\ loads' = [loads EXCEPT ![i] = r]
    BY <1>4 DEF AddElements
  <2>2. report \in Seq(Item \cup {None})
    <3>1. (ListTypes /\ ListsInv)'
      BY ListsStep
    <3>2. records' \in ListType(Item, AnyText, Kinds) /\ ListInv(records')
      BY <3>1 DEF ListTypes, ListsInv
    <3>3. QED
      BY <3>2, ReportsGood
  <2>3. AfterAdding(report) \in {"report", "flush"}
    BY DEF AfterAdding
  <2>4. loads[i] \in LoadType
    BY <1>1, LoadIs DEF EachLoad
  <2> HIDE DEF report
  <2>5. r \in LoadType /\ r.batch = <<>> /\ r.pos = loads[i].pos /\ r.file = loads[i].file
        /\ r.cancelled = loads[i].cancelled /\ r.at \in {"report", "flush"}
    <3> DEFINE l == loads[i]
    <3> DEFINE at == AfterAdding(report)
    <3>1. Makes(r, l, at, l.pos, <<>>, report)
      BY <2>4 DEF LoadType, Makes
    <3>2. at \in States /\ l.pos \in Nat /\ <<>> \in Seq(Item)
      BY <2>3, <2>4 DEF LoadType, States
    <3> HIDE DEF r, l, at
    <3>3. Made(r, l, at, l.pos, <<>>, report)
      BY <2>2, <2>3, <2>4, <3>1, <3>2, LoadMade DEF l
    <3>4. QED
      BY <2>3, <3>2, <3>3 DEF Made, l, at
  <2> HIDE DEF r
  <2>6. BatchInv(i, r)
    <3>1. BatchInv(i, loads[i]) /\ recordBatchSize \in Nat /\ r.pos \in Nat
      BY <1>1, <2>5, ConsoleAssumption DEF EachLoad, LoadType
    <3>2. QED
      BY <2>5, <3>1 DEF BatchInv
  <2>7. QED
    BY <1>1, <2>1, <2>5, <2>6, OneLoadGood
<1>5. ASSUME NEW i \in DOMAIN loads, ReportAdded(i) \/ RequestFlush(i) PROVE EachLoad'
  <2> DEFINE r == IF loads[i].at = "report" THEN [loads[i] EXCEPT !.at = "flush", !.report = <<>>]
                  ELSE [loads[i] EXCEPT !.at = "read"]
  <2>1. /\ loads[i].at \in {"report", "flush"} /\ UNCHANGED <<current, gui>>
        /\ loads' = [loads EXCEPT ![i] = r]
    BY <1>5 DEF ReportAdded, RequestFlush, Goto
  <2>2. loads[i] \in LoadType
    BY <1>1, LoadIs DEF EachLoad
  <2>3. r \in LoadType /\ r.batch = loads[i].batch /\ r.pos = loads[i].pos
        /\ r.file = loads[i].file
        /\ r.cancelled = loads[i].cancelled /\ r.at \in {"flush", "read"}
    <3> DEFINE l == loads[i]
    <3> DEFINE at == IF l.at = "report" THEN "flush" ELSE "read"
    <3> DEFINE report == IF l.at = "report" THEN <<>> ELSE l.report
    <3>1. Makes(r, l, at, l.pos, l.batch, report)
      BY <2>2 DEF LoadType, Makes
    <3>2. /\ at \in {"flush", "read"} /\ at \in States /\ l.pos \in Nat /\ l.batch \in Seq(Item)
          /\ report \in Seq(Item \cup {None})
      BY <2>2 DEF LoadType, States
    <3> HIDE DEF r, l, at, report
    <3>3. Made(r, l, at, l.pos, l.batch, report)
      BY <2>2, <3>1, <3>2, LoadMade DEF l
    <3>4. QED
      BY <3>2, <3>3 DEF Made, l
  <2> HIDE DEF r
  <2>4. BatchInv(i, r)
    <3>1. BatchInv(i, loads[i]) /\ recordBatchSize \in Nat \ {0} /\ r.pos \in Nat
      BY <1>1, <2>3, ConsoleAssumption DEF EachLoad, LoadType
    <3>2. QED
      BY <2>1, <2>3, <3>1 DEF BatchInv
  <2>5. QED
    BY <1>1, <2>1, <2>3, <2>4, OneLoadGood
<1>6. CASE CancelLoad
  <2>1. /\ loads' = [j \in DOMAIN loads |-> IF j = current
                       THEN [loads[j] EXCEPT !.cancelled = TRUE] ELSE loads[j]]
        /\ current' = 0
    BY <1>6 DEF CancelLoad
  <2>2. loads \in Seq(LoadType) /\ Len(loads) \in Nat /\ DOMAIN loads = 1..Len(loads)
        /\ \A j \in DOMAIN loads : loads[j] \in LoadType
    BY <1>1 DEF EachLoad, LoadTypes
  <2>3. ASSUME NEW j \in DOMAIN loads
        PROVE  /\ loads'[j] \in LoadType /\ loads'[j].cancelled = TRUE
               /\ loads'[j].file = loads[j].file /\ loads'[j].pos = loads[j].pos
               /\ loads'[j].batch = loads[j].batch /\ loads'[j].at = loads[j].at
    BY <1>1, <2>1, <2>2 DEF EachLoad, LoadType
  <2>4. loads' \in Seq(LoadType) /\ DOMAIN loads' = DOMAIN loads
    <3>1. loads' \in [1..Len(loads) -> LoadType]
      BY <2>1, <2>2, <2>3
    <3>2. QED
      BY <2>1, <2>2, <3>1, SeqDef
  <2>5. ASSUME NEW j \in DOMAIN loads PROVE BatchInv(j, loads'[j])
    <3>1. BatchInv(j, loads[j])
      BY <1>1 DEF EachLoad
    <3>2. QED
      BY <2>3, <3>1 DEF BatchInv
  <2>6. 0 \in 0..Len(loads') /\ \A j \in DOMAIN loads : j # 0
    BY <2>2, <2>4
  <2>7. QED
    BY <2>1, <2>3, <2>4, <2>5, <2>6 DEF EachLoad, LoadTypes
<1>7. CASE StartLoad
  <2>1. current = 0 /\ gui'.at = "idle"
    BY <1>1, <1>7 DEF StartLoad, EachLoad, Idle
  <2>2. CASE gui.item = None
    BY <1>1, <1>7, <2>1, <2>2, SameLoadsGood DEF StartLoad, loadVars
  <2>3. CASE gui.item # None
    <3>1. PICK opened \in BOOLEAN :
            loads' = Append(loads, [file |-> gui.item, at |-> IF opened THEN "read" ELSE "failed",
                                    pos |-> 0, batch |-> <<>>, report |-> <<>>,
                                    cancelled |-> FALSE])
      BY <1>7, <2>3 DEF StartLoad
    <3> DEFINE r == [file |-> gui.item, at |-> IF opened THEN "read" ELSE "failed",
                     pos |-> 0, batch |-> <<>>, report |-> <<>>, cancelled |-> FALSE]
    <3>2. gui.item \in Files
      BY <1>7, <2>3 DEF StartLoad, ConsoleInv, TypeOK, GuiTypes
    <3>3. r \in LoadType
      BY <3>2 DEF LoadType, States
    <3>4. r.pos = 0 /\ r.batch = <<>> /\ r.at \in {"read", "failed"} /\ r.file \in Files
          /\ r.cancelled = FALSE
      BY <3>2
    <3>5. loads' = Append(loads, r) /\ current' = Len(loads')
      BY <1>7, <2>3, <3>1 DEF StartLoad
    <3> HIDE DEF r
    <3>6. loads \in Seq(LoadType)
      BY <1>1 DEF EachLoad, LoadTypes
    <3>7. /\ loads' \in Seq(LoadType) /\ Len(loads') = Len(loads) + 1 /\ Len(loads) \in Nat
          /\ DOMAIN loads = 1..Len(loads) /\ DOMAIN loads' = 1..(Len(loads) + 1)
          /\ loads'[Len(loads) + 1] = r /\ \A j \in DOMAIN loads : loads'[j] = loads[j]
      BY <3>3, <3>5, <3>6
    <3>8. ASSUME NEW j \in DOMAIN loads'
          PROVE  BatchInv(j, loads'[j]) /\ (loads'[j].cancelled <=> j # current')
      <4>1. CASE j \in DOMAIN loads
        <5>1. loads[j].cancelled /\ BatchInv(j, loads[j])
          BY <1>1, <2>1, <3>7, <4>1 DEF EachLoad
        <5>2. QED
          BY <3>5, <3>7, <4>1, <5>1
      <4>2. CASE j = Len(loads) + 1
        <5>1. Contents[r.file] \in Seq([text : AnyText, type : Kinds])
              /\ recordBatchSize \in Nat \ {0}
          BY <3>4, ConsoleAssumption
        <5>2. 0 <= Len(Contents[r.file])
          BY <5>1, LenProperties
        <5>3. BatchInv(j, r)
          BY <3>4, <5>1, <5>2 DEF BatchInv
        <5>4. QED
          BY <3>4, <3>5, <3>7, <4>2, <5>3
      <4>3. QED
        BY <3>7, <4>1, <4>2
    <3>9. LoadTypes'
      BY <3>5, <3>7 DEF LoadTypes
    <3>10. QED
      BY <2>1, <3>8, <3>9 DEF EachLoad
  <2>4. QED
    BY <2>2, <2>3
<1>8. CASE ClearRecords
  <2>1. UNCHANGED <<loads, current>> /\ gui.at = "clear"
    BY <1>8 DEF ClearRecords, loadVars
  <2>2. QED
    BY <1>1, <2>1, SameLoadsGood
<1>9. ASSUME UNCHANGED <<loads, current>>, gui'.at \notin {"clear", "start"} \/ gui' = gui
      PROVE  EachLoad'
  BY <1>1, <1>9, SameLoadsGood
<1>10. CASE PopulateFiles \/ MoveFile \/ SearchFiles
  <2>1. UNCHANGED <<loads, current>>
    BY <1>10 DEF PopulateFiles, MoveFile, SearchFiles, loadVars
  <2>2. \E report : Selecting(report)
    BY <1>10 DEF PopulateFiles, MoveFile, SearchFiles
  <2>3. gui'.at \in {"idle", "cancel"}
    BY <2>2 DEF Selecting, Idle
  <2>4. QED
    BY <1>9, <2>1, <2>3
<1>11. CASE MoveRecord \/ SearchRecords \/ ToggleRecordType
  <2>1. UNCHANGED <<loads, current, gui>>
    BY <1>11 DEF MoveRecord, SearchRecords, ToggleRecordType, Rebuild, loadVars
  <2>2. QED
    BY <1>9, <2>1
<1>12. CASE ToggleLineEndings \/ ChangeView \/ Layout
  <2>1. UNCHANGED <<loads, current, gui>>
    BY <1>12 DEF ToggleLineEndings, ChangeView, Layout, loadVars
  <2>2. QED
    BY <1>9, <2>1
<1>13. CASE ShowRecord
  <2>1. UNCHANGED <<files, listVars, loadVars, gui, drawn, commands, raced>>
    BY <1>13, Zenon DEF ShowRecord
  <2>2. QED
    BY <1>9, <2>1 DEF loadVars
<1>14. CASE TakeFlush \/ CopyList \/ DrawList
  <2>1. UNCHANGED <<loads, current>> /\ gui'.at \in {"copy", "draw", "idle"}
    BY <1>14 DEF TakeFlush, CopyList, DrawList, loadVars, Idle
  <2>2. QED
    BY <1>9, <2>1
<1>15. QED
  BY <1>2, <1>3, <1>4, <1>5, <1>6, <1>7, <1>8, <1>10, <1>11, <1>12, <1>13, <1>14
     DEF Next, MainLoop, Load

LEMMA CallsStep ==
  ASSUME ConsoleInv, [Next]_vars
  PROVE  CallsInv'
<1>0. /\ CallsInv /\ CallTypes /\ QueueInv /\ queued \in BOOLEAN
      /\ LoadTypes /\ ListTypes /\ (ListTypes /\ ListsInv)'
  BY ListsStep DEF ConsoleInv, TypeOK, CallsInv, CallTypes
<1>1. ASSUME UNCHANGED <<calls, queued>> PROVE CallsInv'
  BY <1>0, <1>1 DEF CallsInv, CallTypes, QueueInv
<1>2. CASE UNCHANGED vars
  BY <1>1, <1>2 DEF vars, listVars
<1>3. ASSUME NEW i \in DOMAIN loads, ReadRecord(i) \/ AddElements(i) PROVE CallsInv'
  <2>1. UNCHANGED <<calls, queued>>
    BY <1>3 DEF ReadRecord, AddElements, listVars
  <2>2. QED
    BY <1>1, <2>1
<1>4. ASSUME NEW i \in DOMAIN loads, ReportAdded(i) PROVE CallsInv'
  <2>1. loads[i].report \in Seq(Item \cup {None})
    BY <1>0, LoadShape
  <2>2. IsSum(calls', calls, PanelCalls(loads[i].report)) /\ queued' = queued
    BY <1>4 DEF ReportAdded, IsSum, (+), listVars
  <2>3. /\ IsABag(calls') /\ DOMAIN calls' \subseteq {FlushCall} \cup PanelType
        /\ queued <=> FlushCall \in DOMAIN calls'
        /\ queued => calls'[FlushCall] = 1
    BY <1>0, <2>1, <2>2, CallsReport
  <2>4. QED
    BY <1>0, <2>2, <2>3 DEF CallsInv, CallTypes, QueueInv, PanelType
<1>5. ASSUME NEW i \in DOMAIN loads, RequestFlush(i) PROVE CallsInv'
  <2>1. calls' = calls (+) FlushCalls /\ queued' = TRUE
    BY <1>5 DEF RequestFlush
  <2>2. /\ IsABag(calls) /\ DOMAIN calls \subseteq {FlushCall} \cup PanelType
        /\ queued <=> FlushCall \in DOMAIN calls
        /\ queued => calls[FlushCall] = 1
    BY <1>0 DEF CallTypes, QueueInv, PanelType
  <2>3. QED
    BY <1>0, <2>1, <2>2, CallsFlush
<1>6. ASSUME NEW report \in Seq(Item \cup {None}), Dispatch(report) PROVE CallsInv'
  BY <1>0, <1>6, CallsDispatch
<1>7. CASE ClearRecords
  <2>1. Dispatch(<<None>>) /\ <<None>> \in Seq(Item \cup {None})
    BY <1>7 DEF ClearRecords
  <2>2. QED
    BY <1>6, <2>1
<1>8. records' \in ListType(Item, AnyText, Kinds) /\ ListInv(records')
  BY <1>0 DEF ListTypes, ListsInv
<1>9. CASE MoveRecord
  <2>1. CASE UNCHANGED <<calls, queued>>
    BY <1>1, <2>1
  <2>2. CASE Dispatch(MoveReport(records, records'))
    <3>1. MoveReport(records, records') \in Seq(Item \cup {None})
      BY <1>8, ReportsGood
    <3>2. QED
      BY <1>6, <2>2, <3>1
  <2>3. QED
    BY <1>9, <2>1, <2>2 DEF MoveRecord
<1>10. CASE SearchRecords \/ ToggleRecordType
  <2>1. Dispatch(RebuildReport(records, records'))
    BY <1>10 DEF SearchRecords, ToggleRecordType, Rebuild
  <2>2. RebuildReport(records, records') \in Seq(Item \cup {None})
    BY <1>8, ReportsGood
  <2>3. QED
    BY <1>6, <2>1, <2>2
<1>11. CASE ShowRecord
  <2>1. PICK c \in BagToSet(calls) : c.run = "panel" /\ calls' = calls (-) SetToBag({c})
                                     /\ queued' = queued
    BY <1>11 DEF ShowRecord, listVars
  <2>2. IsABag(calls) /\ c \in DOMAIN calls /\ c # FlushCall
    BY <1>0, <2>1 DEF CallTypes, BagToSet, FlushCall
  <2>3. /\ IsABag(calls') /\ DOMAIN calls' \subseteq DOMAIN calls
        /\ FlushCall \in DOMAIN calls => FlushCall \in DOMAIN calls' /\ calls'[FlushCall] = calls[FlushCall]
    <3>1. IsRest(calls', calls, c)
      BY <2>1 DEF IsRest, (-)
    <3>2. QED
      BY <2>2, <3>1, BagTake
  <2>4. QED
    BY <1>0, <2>1, <2>2, <2>3 DEF CallsInv, CallTypes, QueueInv
<1>12. CASE TakeFlush
  <2>1. calls' = calls (-) SetToBag({FlushCall}) /\ queued' = FALSE /\ FlushCall \in DOMAIN calls
    BY <1>12 DEF TakeFlush, BagIn, BagToSet, FlushCall
  <2>2. IsABag(calls') /\ DOMAIN calls' \subseteq DOMAIN calls /\ FlushCall \notin DOMAIN calls'
    <3>1. IsRest(calls', calls, FlushCall)
      BY <2>1 DEF IsRest, (-)
    <3>2. IsABag(calls) /\ calls[FlushCall] = 1
      BY <1>0, <2>1 DEF CallTypes, QueueInv
    <3>3. QED
      BY <2>1, <3>1, <3>2, BagTake
  <2>3. QED
    BY <1>0, <2>1, <2>2 DEF CallsInv, CallTypes, QueueInv
<1>13. CASE PopulateFiles \/ CancelLoad \/ StartLoad \/ MoveFile \/ SearchFiles
  <2>1. UNCHANGED <<calls, queued>>
    BY <1>13 DEF PopulateFiles, CancelLoad, StartLoad, MoveFile, SearchFiles, listVars
  <2>2. QED
    BY <1>1, <2>1
<1>14. CASE ToggleLineEndings \/ ChangeView \/ Layout \/ CopyList \/ DrawList
  <2>1. UNCHANGED <<calls, queued>>
    BY <1>14 DEF ToggleLineEndings, ChangeView, Layout, CopyList, DrawList, listVars
  <2>2. QED
    BY <1>1, <2>1
<1>15. QED
  BY <1>2, <1>3, <1>4, <1>5, <1>7, <1>9, <1>10, <1>11, <1>12, <1>13, <1>14
     DEF Next, MainLoop, Load

-----------------------------------------------------------------------------
(* The main loop and the screen *)

LEMMA GuiKept ==
  ASSUME GuiTypes, UNCHANGED <<gui, drawn>> PROVE GuiTypes'
BY DEF GuiTypes

LEMMA SelectingGood ==
  ASSUME GuiTypes, NEW report \in Seq(Files \cup {None}), Selecting(report), drawn' = drawn
  PROVE  GuiTypes'
<1>1. CASE report = <<>>
  BY <1>1 DEF GuiTypes, Selecting, Idle
<1>2. CASE report # <<>>
  <2>1. report[1] \in Files \cup {None}
    BY <1>2
  <2>2. gui' = [at |-> "cancel", item |-> report[1]]
    BY <1>2 DEF Selecting
  <2>3. gui' \in [at : {"cancel", "clear", "start"}, item : Files \cup {None}]
    BY <2>1, <2>2
  <2>4. QED
    BY <2>3 DEF GuiTypes
<1>3. QED
  BY <1>1, <1>2

LEMMA GuiStep ==
  ASSUME ConsoleInv, [Next]_vars
  PROVE  GuiTypes'
<1>0. /\ GuiTypes /\ ListTypes /\ ListsInv /\ (ListTypes /\ ListsInv)'
      /\ records \in ListType(Item, AnyText, Kinds) /\ ListInv(records)
      /\ files' \in ListType(Files, Files, {"file"}) /\ ListInv(files')
  BY ListsStep DEF ConsoleInv, TypeOK, ListTypes, ListsInv
<1>1. CASE UNCHANGED vars
  BY <1>0, <1>1, GuiKept DEF vars, viewVars
<1>2. ASSUME NEW i \in DOMAIN loads, Load(i) PROVE GuiTypes'
  <2>1. UNCHANGED <<gui, drawn>>
    BY <1>2 DEF Load, ReadRecord, AddElements, ReportAdded, RequestFlush, viewVars
  <2>2. QED
    BY <1>0, <2>1, GuiKept
<1>3. CASE PopulateFiles
  <2>1. Selecting(<<SelectedItem(files')>>) /\ drawn' = drawn
    BY <1>3 DEF PopulateFiles, viewVars
  <2>2. <<SelectedItem(files')>> \in Seq(Files \cup {None})
    BY <1>0, ReportsGood
  <2>3. QED
    BY <1>0, <2>1, <2>2, SelectingGood
<1>4. CASE MoveFile \/ SearchFiles
  <2>1. /\ Selecting(MoveReport(files, files')) \/ Selecting(RebuildReport(files, files'))
        /\ drawn' = drawn
    BY <1>4 DEF MoveFile, SearchFiles
  <2>2. MoveReport(files, files') \in Seq(Files \cup {None})
        /\ RebuildReport(files, files') \in Seq(Files \cup {None})
    BY <1>0, ReportsGood
  <2>3. QED
    BY <1>0, <2>1, <2>2, SelectingGood
<1>5. CASE CancelLoad \/ ClearRecords
  <2>1. /\ gui.at \in {"cancel", "clear"} /\ drawn' = drawn
        /\ gui' = [gui EXCEPT !.at = "clear"] \/ gui' = [gui EXCEPT !.at = "start"]
    BY <1>5 DEF CancelLoad, ClearRecords, viewVars
  <2>2. gui \in [at : {"cancel", "clear", "start"}, item : Files \cup {None}]
    BY <1>0, <2>1 DEF GuiTypes
  <2>3. gui' \in [at : {"cancel", "clear", "start"}, item : Files \cup {None}]
    BY <2>1, <2>2
  <2>4. QED
    BY <1>0, <2>1, <2>3 DEF GuiTypes
<1>6. CASE StartLoad
  BY <1>0, <1>6 DEF StartLoad, GuiTypes, Idle, viewVars
<1>7. CASE MoveRecord \/ SearchRecords \/ ToggleRecordType
  <2>1. UNCHANGED <<gui, drawn>>
    BY <1>7 DEF MoveRecord, SearchRecords, ToggleRecordType, Rebuild
  <2>2. QED
    BY <1>0, <2>1, GuiKept
<1>8. CASE ToggleLineEndings \/ ChangeView \/ Layout
  <2>1. UNCHANGED <<gui, drawn>>
    BY <1>8 DEF ToggleLineEndings, ChangeView, Layout
  <2>2. QED
    BY <1>0, <2>1, GuiKept
<1>9. CASE ShowRecord
  <2>1. UNCHANGED <<files, listVars, loadVars, gui, drawn, commands, raced>>
    BY <1>9, Zenon DEF ShowRecord
  <2>2. QED
    BY <1>0, <2>1, GuiKept
<1>10. CASE TakeFlush
  BY <1>0, <1>10 DEF TakeFlush, GuiTypes, viewVars
<1>11. CASE CopyList
  <2>1. gui' = [at |-> "draw", drawing |-> Drawing(records)] /\ drawn' = drawn
    BY <1>11 DEF CopyList, viewVars
  <2>2. Drawing(records) \in DrawingType
    BY <1>0, DrawingGood DEF DrawingType
  <2>3. gui' \in [at : {"draw"}, drawing : DrawingType]
    BY <2>1, <2>2
  <2>4. QED
    BY <1>0, <2>1, <2>3 DEF GuiTypes
<1>12. CASE DrawList
  <2>1. gui.at = "draw" /\ gui' = Idle /\ drawn' = gui.drawing
    BY <1>12 DEF DrawList
  <2>2. gui.drawing \in DrawingType
    BY <1>0, <2>1 DEF GuiTypes
  <2>3. QED
    BY <2>1, <2>2 DEF GuiTypes, Idle
<1>13. QED
  BY <1>1, <1>2, <1>3, <1>4, <1>5, <1>6, <1>7, <1>8, <1>9, <1>10, <1>11, <1>12 DEF Next, MainLoop

-----------------------------------------------------------------------------
(* What is drawn *)

\* A goroutine has yet to ask for a flush.
LoadComes == \E i \in DOMAIN loads : loads[i].at \in {"report", "flush"}

LEMMA DrawKept ==
  ASSUME DrawInv, queued => queued', LoadComes => LoadComes', UNCHANGED <<records, drawn>>,
         gui' = gui \/ (gui.at \notin {"copy", "draw"} /\ gui'.at # "draw")
  PROVE  DrawInv'
<1>1. CASE FlushComes
  BY <1>1 DEF DrawInv, FlushComes, LoadComes
<1>2. CASE UpToDate
  <2>1. UpToDate'
    BY <1>2 DEF UpToDate
  <2>2. QED
    BY <2>1 DEF DrawInv
<1>3. QED
  BY <1>1, <1>2 DEF DrawInv

LEMMA DrawStep ==
  ASSUME ConsoleInv, [Next]_vars
  PROVE  DrawInv'
<1>0. DrawInv /\ LoadTypes /\ EachLoad
  BY DEF ConsoleInv, TypeOK, EachLoad, LoadInv
<1>1. CASE UNCHANGED vars
  <2>1. UNCHANGED <<loads, records, drawn, gui, queued>>
    BY <1>1 DEF vars, listVars, loadVars, viewVars
  <2>2. LoadComes => LoadComes'
    BY <2>1 DEF LoadComes
  <2>3. QED
    BY <1>0, <2>1, <2>2, DrawKept
<1>2. ASSUME NEW i \in DOMAIN loads, ReadRecord(i) PROVE DrawInv'
  <2>1. UNCHANGED <<records, drawn, gui, queued>> /\ loads[i].at = "read"
    BY <1>2 DEF ReadRecord, listVars, viewVars
  <2>2. DOMAIN loads' = DOMAIN loads /\ \A j \in DOMAIN loads : j # i => loads'[j] = loads[j]
    BY <1>2 DEF ReadRecord, Goto
  <2>3. LoadComes => LoadComes'
    BY <2>1, <2>2 DEF LoadComes
  <2>4. QED
    BY <1>0, <2>1, <2>3, DrawKept
<1>3. ASSUME NEW i \in DOMAIN loads, i \in DOMAIN loads', loads'[i].at \in {"report", "flush"}
      PROVE  DrawInv'
  BY <1>3 DEF DrawInv, FlushComes
<1>4. ASSUME NEW i \in DOMAIN loads, AddElements(i) PROVE DrawInv'
  <2> DEFINE report == AddReport(records, records')
  <2>1. loads' = [loads EXCEPT ![i] =
          [loads[i] EXCEPT !.batch = <<>>, !.report = report, !.at = AfterAdding(report)]]
    BY <1>4 DEF AddElements
  <2> HIDE DEF report
  <2>2. loads[i] \in LoadType
    BY <1>0, LoadIs
  <2>3. i \in DOMAIN loads' /\ loads'[i].at = AfterAdding(report)
    BY <2>1, <2>2 DEF LoadType
  <2>4. QED
    BY <1>3, <2>3 DEF AfterAdding
<1>5. ASSUME NEW i \in DOMAIN loads, ReportAdded(i) PROVE DrawInv'
  <2>1. loads' = [loads EXCEPT ![i] = [loads[i] EXCEPT !.at = "flush", !.report = <<>>]]
    BY <1>5 DEF ReportAdded
  <2>2. loads[i] \in LoadType
    BY <1>0, LoadIs
  <2>3. i \in DOMAIN loads' /\ loads'[i].at = "flush"
    BY <2>1, <2>2 DEF LoadType
  <2>4. QED
    BY <1>3, <2>3
<1>6. ASSUME queued' PROVE DrawInv'
  BY <1>6 DEF DrawInv, FlushComes
<1>7. ASSUME NEW i \in DOMAIN loads, RequestFlush(i) PROVE DrawInv'
  BY <1>6, <1>7 DEF RequestFlush
<1>8. ASSUME NEW report, Dispatch(report) PROVE DrawInv'
  BY <1>6, <1>8 DEF Dispatch
<1>9. CASE ClearRecords
  BY <1>8, <1>9 DEF ClearRecords
<1>10. CASE MoveRecord
  <2>1. CASE queued' = queued /\ records' = records
    <3>1. UNCHANGED <<records, drawn, gui, queued, loads>>
      BY <1>10, <2>1 DEF MoveRecord, loadVars
    <3>2. LoadComes => LoadComes'
      BY <3>1 DEF LoadComes
    <3>3. QED
      BY <1>0, <3>1, <3>2, DrawKept
  <2>2. CASE Dispatch(MoveReport(records, records'))
    BY <1>8, <2>2
  <2>3. QED
    BY <1>10, <2>1, <2>2 DEF MoveRecord
<1>11. CASE SearchRecords \/ ToggleRecordType
  BY <1>8, <1>11 DEF SearchRecords, ToggleRecordType, Rebuild
<1>12. CASE PopulateFiles \/ MoveFile \/ SearchFiles
  <2>1. UNCHANGED <<records, drawn, queued, loads>> /\ gui.at \in {"populate", "idle"}
    BY <1>12 DEF PopulateFiles, MoveFile, SearchFiles, Command, listVars, loadVars, viewVars
  <2>2. \E report : Selecting(report)
    BY <1>12 DEF PopulateFiles, MoveFile, SearchFiles
  <2>3. gui'.at # "draw"
    BY <2>2, SelectingNoDraw
  <2>4. LoadComes => LoadComes'
    BY <2>1 DEF LoadComes
  <2>5. QED
    BY <1>0, <2>1, <2>3, <2>4, DrawKept
<1>13. CASE CancelLoad
  <2>1. UNCHANGED <<records, drawn, queued>> /\ gui.at = "cancel" /\ gui' = [gui EXCEPT !.at = "clear"]
    BY <1>13 DEF CancelLoad, listVars, viewVars
  <2>2. gui'.at = "clear"
    BY <2>1 DEF ConsoleInv, TypeOK, GuiTypes
  <2>3. DOMAIN loads' = DOMAIN loads /\ \A j \in DOMAIN loads : loads'[j].at = loads[j].at
    <3>1. \A j \in DOMAIN loads : loads[j] \in LoadType
      BY <1>0, LoadIs
    <3>2. QED
      BY <1>13, <3>1 DEF CancelLoad, LoadType
  <2>4. LoadComes => LoadComes'
    BY <2>3 DEF LoadComes
  <2>5. QED
    BY <1>0, <2>1, <2>2, <2>4, DrawKept
<1>14. CASE StartLoad
  <2>1. UNCHANGED <<records, drawn, queued>> /\ gui.at = "start" /\ gui'.at = "idle"
    BY <1>14 DEF StartLoad, Idle, listVars, viewVars
  <2>2. loads' = loads \/ \E r : loads' = Append(loads, r)
    BY <1>14 DEF StartLoad, loadVars
  <2>3. \A j \in DOMAIN loads : j \in DOMAIN loads' /\ loads'[j] = loads[j]
    <3>1. loads \in Seq(LoadType)
      BY <1>0 DEF LoadTypes
    <3>2. QED
      BY <2>2, <3>1
  <2>4. LoadComes => LoadComes'
    BY <2>3 DEF LoadComes
  <2>5. QED
    BY <1>0, <2>1, <2>4, DrawKept
<1>15. CASE ToggleLineEndings \/ ChangeView \/ Layout \/ ShowRecord
  <2>1. UNCHANGED <<records, drawn, gui, queued, loads>>
    <3>1. CASE ShowRecord
      <4>1. UNCHANGED <<files, listVars, loadVars, gui, drawn, commands, raced>>
        BY <3>1, Zenon DEF ShowRecord
      <4>2. QED
        BY <4>1 DEF listVars, loadVars
    <3>2. CASE ToggleLineEndings \/ ChangeView \/ Layout
      BY <3>2 DEF ToggleLineEndings, ChangeView, Layout, listVars, loadVars
    <3>3. QED
      BY <1>15, <3>1, <3>2
  <2>2. LoadComes => LoadComes'
    BY <2>1 DEF LoadComes
  <2>3. QED
    BY <1>0, <2>1, <2>2, DrawKept
<1>16. CASE TakeFlush
  BY <1>16 DEF TakeFlush, DrawInv, FlushComes
<1>17. CASE CopyList
  <2>1. gui' = [at |-> "draw", drawing |-> Drawing(records)] /\ records' = records
    BY <1>17 DEF CopyList, listVars
  <2>2. QED
    BY <2>1 DEF DrawInv, UpToDate
<1>18. CASE DrawList
  <2>1. /\ gui.at = "draw" /\ gui'.at = "idle" /\ drawn' = gui.drawing
        /\ records' = [records EXCEPT !.selected = gui.drawing.mark]
        /\ UNCHANGED <<queued, loads>>
    BY <1>18 DEF DrawList, Idle, loadVars
  <2>2. CASE FlushComes
    BY <2>1, <2>2 DEF DrawInv, FlushComes
  <2>3. CASE UpToDate
    <3>1. gui.drawing = Drawing(records)
      BY <2>1, <2>3 DEF UpToDate
    <3>2. /\ records'.items = records.items /\ records'.visible = records.visible
          /\ records'.selected = gui.drawing.mark
      BY <2>1 DEF ConsoleInv, TypeOK, ListTypes, ListType
    <3>3. Drawing(records').rows = Drawing(records).rows
      BY <3>2 DEF Drawing
    <3>4. drawn'.rows = Drawing(records').rows /\ drawn'.mark = records'.selected
      BY <2>1, <3>1, <3>2, <3>3
    <3>5. UpToDate'
      BY <2>1, <3>4 DEF UpToDate
    <3>6. QED
      BY <3>5 DEF DrawInv
  <2>4. QED
    BY <1>0, <2>2, <2>3 DEF DrawInv
<1>19. QED
  BY <1>1, <1>2, <1>4, <1>5, <1>7, <1>9, <1>10, <1>11, <1>12, <1>13, <1>14, <1>15, <1>16, <1>17,
     <1>18 DEF Next, MainLoop, Load

-----------------------------------------------------------------------------
(* What is in the list of records *)

\* A batch that is added to a list.
Longer(t, s, e) ==
  /\ Len(s) \in Nat /\ DOMAIN s = 1..Len(s) /\ Len(e) \in Nat /\ DOMAIN e = 1..Len(e)
  /\ DOMAIN t = 1..(Len(s) + Len(e))
  /\ \A k \in DOMAIN s : t[k] = s[k]
  /\ \A k \in DOMAIN e : t[Len(s) + k] = e[k]

LEMMA AppendedIsLonger ==
  ASSUME NEW E, NEW s \in Seq(E), NEW e \in Seq(E), NEW t, t = s \o e
  PROVE  Longer(t, s, e)
BY DEF Longer

\* The items of the batch are of load i, those of the other loads stay.
MoreListed(t, s, e, i) ==
  /\ ListedIn(t, i) = ListedIn(s, i) \cup (Len(s) + 1)..(Len(s) + Len(e))
  /\ \A j : j # i => ListedIn(t, j) = ListedIn(s, j)

LEMMA AddedListed ==
  ASSUME NEW s, NEW e, NEW t, Longer(t, s, e), NEW i, NEW m,
         \A k \in DOMAIN e : e[k].item = <<i, m + k>>
  PROVE  MoreListed(t, s, e, i)
<1>1. \A k \in DOMAIN s : k \in DOMAIN t /\ t[k] = s[k]
  BY DEF Longer
<1>2. \A k \in DOMAIN t : k \in DOMAIN s
        \/ (k \in (Len(s) + 1)..(Len(s) + Len(e)) /\ k \notin DOMAIN s /\ t[k].item[1] = i)
  <2>1. SUFFICES ASSUME NEW k \in DOMAIN t, k \notin DOMAIN s
                 PROVE  k \in (Len(s) + 1)..(Len(s) + Len(e)) /\ t[k].item[1] = i
    OBVIOUS
  <2>2. k \in (Len(s) + 1)..(Len(s) + Len(e)) /\ k - Len(s) \in DOMAIN e /\ Len(s) + (k - Len(s)) = k
    BY <2>1 DEF Longer
  <2>3. t[k] = e[k - Len(s)] /\ e[k - Len(s)].item = <<i, m + (k - Len(s))>>
    BY <2>2 DEF Longer
  <2>4. QED
    BY <2>2, <2>3
<1>3. \A k \in (Len(s) + 1)..(Len(s) + Len(e)) : k \in DOMAIN t /\ k \notin DOMAIN s
  BY DEF Longer
<1>4. ListedIn(t, i) = ListedIn(s, i) \cup (Len(s) + 1)..(Len(s) + Len(e))
  BY <1>1, <1>2, <1>3 DEF ListedIn
<1>5. ASSUME NEW j, j # i PROVE ListedIn(t, j) = ListedIn(s, j)
  BY <1>1, <1>2, <1>5 DEF ListedIn
<1>6. QED
  BY <1>4, <1>5 DEF MoreListed

BatchListed(t, s, e, i, l, r) ==
  /\ InOrder(s, i, l) => InOrder(t, i, r)
  /\ Whole(s, i, l) => Whole(t, i, r)
  /\ ListedIn(s, i) = {} => ListedIn(t, i) = (Len(s) + 1)..(Len(s) + Len(e))

\* A batch comes behind what there is of its load, and what there is of others stays.
LEMMA AddedInOrder ==
  ASSUME NEW s, NEW e, NEW t, Longer(t, s, e), NEW i, NEW l, NEW r,
         l.pos \in Nat, Len(l.batch) \in Nat, r.pos = l.pos, Len(r.batch) = 0,
         Len(e) = Len(l.batch), Len(l.batch) <= l.pos,
         \A k \in DOMAIN s : s[k].item[2] \in Nat \ {0},
         \A k \in DOMAIN e : e[k].item = <<i, l.pos - Len(l.batch) + k>>
  PROVE  BatchListed(t, s, e, i, l, r)
<1> DEFINE n == Len(l.batch)
<1> DEFINE m == l.pos - n
<1>1. n \in Nat /\ m \in Nat /\ m + n = l.pos /\ r.pos - Len(r.batch) = m + n /\ Len(s) \in Nat
      /\ Len(e) = n
  BY DEF Longer
<1>2. MoreListed(t, s, e, i)
  BY AddedListed
<1>3. \A k \in DOMAIN e : e[k].item = <<i, m + k>>
  OBVIOUS
<1>4. m = l.pos - Len(l.batch)
  OBVIOUS
<1> HIDE DEF n, m
<1>5. ListedIn(t, i) = ListedIn(s, i) \cup (Len(s) + 1)..(Len(s) + n)
  BY <1>1, <1>2 DEF MoreListed
<1>6. ASSUME NEW k \in ListedIn(s, i)
      PROVE  t[k] = s[k] /\ k \in Nat /\ k <= Len(s) /\ s[k].item[2] \in Nat \ {0}
  BY DEF ListedIn, Longer
<1>7. ASSUME NEW k \in (Len(s) + 1)..(Len(s) + n)
      PROVE  t[k].item[2] = m + (k - Len(s)) /\ k - Len(s) \in 1..n /\ k \in Nat
  <2>1. k - Len(s) \in DOMAIN e /\ k - Len(s) \in 1..n /\ Len(s) + (k - Len(s)) = k /\ k \in Nat
    BY <1>1 DEF Longer
  <2>2. t[k] = e[k - Len(s)]
    BY <2>1 DEF Longer
  <2>3. QED
    BY <1>3, <2>1, <2>2
<1>8. ASSUME InOrder(s, i, l) PROVE InOrder(t, i, r)
  <2>1. /\ \A j, k \in ListedIn(s, i) : j < k => s[j].item[2] < s[k].item[2]
        /\ \A k \in ListedIn(s, i) : s[k].item[2] <= m
    BY <1>4, <1>8 DEF InOrder
  <2>2. ASSUME NEW j \in ListedIn(t, i), NEW k \in ListedIn(t, i), j < k
        PROVE  t[j].item[2] < t[k].item[2]
    <3>1. CASE k \in ListedIn(s, i)
      <4>1. j \in ListedIn(s, i)
        BY <1>1, <1>5, <1>6, <1>7, <2>2, <3>1
      <4>2. QED
        BY <1>6, <2>1, <2>2, <3>1, <4>1
    <3>2. CASE k \in (Len(s) + 1)..(Len(s) + n) /\ j \in ListedIn(s, i)
      <4>1. s[j].item[2] <= m /\ t[j].item[2] = s[j].item[2] /\ s[j].item[2] \in Nat
        BY <1>6, <2>1, <3>2
      <4>2. t[k].item[2] = m + (k - Len(s)) /\ k - Len(s) \in 1..n
        BY <1>7, <3>2
      <4>3. QED
        BY <1>1, <4>1, <4>2
    <3>3. CASE /\ k \in (Len(s) + 1)..(Len(s) + n)
               /\ j \in (Len(s) + 1)..(Len(s) + n)
      <4>1. t[j].item[2] = m + (j - Len(s)) /\ j \in Nat
        BY <1>7, <3>3
      <4>2. t[k].item[2] = m + (k - Len(s)) /\ k \in Nat
        BY <1>7, <3>3
      <4>3. QED
        BY <1>1, <2>2, <4>1, <4>2
    <3>4. QED
      BY <1>5, <3>1, <3>2, <3>3
  <2>3. ASSUME NEW k \in ListedIn(t, i) PROVE t[k].item[2] <= m + n
    <3>1. CASE k \in ListedIn(s, i)
      BY <1>1, <1>6, <2>1, <3>1
    <3>2. CASE k \in (Len(s) + 1)..(Len(s) + n)
      BY <1>1, <1>7, <3>2
    <3>3. QED
      BY <1>5, <3>1, <3>2
  <2>4. QED
    BY <1>1, <2>2, <2>3 DEF InOrder
<1>9. ASSUME Whole(s, i, l) PROVE Whole(t, i, r)
  <2>1. {s[k].item[2] : k \in ListedIn(s, i)} = 1..m
    BY <1>4, <1>9 DEF Whole
  <2>2. ASSUME NEW k \in ListedIn(t, i) PROVE t[k].item[2] \in 1..(m + n)
    <3>1. CASE k \in ListedIn(s, i)
      <4>1. s[k].item[2] \in 1..m
        BY <2>1, <3>1
      <4>2. QED
        BY <1>1, <1>6, <3>1, <4>1
    <3>2. CASE k \in (Len(s) + 1)..(Len(s) + n)
      BY <1>1, <1>7, <3>2
    <3>3. QED
      BY <1>5, <3>1, <3>2
  <2>3. ASSUME NEW v \in 1..(m + n) PROVE \E k \in ListedIn(t, i) : t[k].item[2] = v
    <3>1. CASE v <= m
      <4>1. v \in {s[k].item[2] : k \in ListedIn(s, i)}
        BY <1>1, <2>1, <3>1
      <4>2. PICK k \in ListedIn(s, i) : s[k].item[2] = v
        BY <4>1
      <4>3. QED
        BY <1>5, <1>6, <4>2
    <3>2. CASE v > m
      <4>1. Len(s) + (v - m) \in (Len(s) + 1)..(Len(s) + n)
        BY <1>1, <3>2
      <4>2. m + (Len(s) + (v - m) - Len(s)) = v
        BY <1>1, <3>2
      <4> DEFINE k == Len(s) + (v - m)
      <4> HIDE DEF k
      <4>3. t[k].item[2] = m + (k - Len(s)) /\ k \in ListedIn(t, i)
        BY <1>5, <1>7, <4>1 DEF k
      <4>4. m + (k - Len(s)) = v
        BY <1>1, <4>2 DEF k
      <4>5. QED
        BY <4>3, <4>4
    <3>3. QED
      BY <1>1, <3>1, <3>2
  <2>4. {t[k].item[2] : k \in ListedIn(t, i)} = 1..(m + n)
    BY <2>2, <2>3
  <2>5. QED
    BY <1>1, <2>4 DEF Whole
<1>10. QED
  BY <1>1, <1>5, <1>8, <1>9 DEF BatchListed

\* The other loads.
LEMMA AddedOthers ==
  ASSUME NEW s, NEW e, NEW t, Longer(t, s, e), NEW i, NEW j, j # i, NEW l,
         MoreListed(t, s, e, i)
  PROVE  /\ InOrder(s, j, l) => InOrder(t, j, l)
         /\ Whole(s, j, l) => Whole(t, j, l)
         /\ Kept(s, j, l) => Kept(t, j, l)
<1>1. ListedIn(t, j) = ListedIn(s, j) /\ \A k \in ListedIn(s, j) : t[k] = s[k]
  BY DEF MoreListed, ListedIn, Longer
<1>2. {t[k].item[2] : k \in ListedIn(t, j)} = {s[k].item[2] : k \in ListedIn(s, j)}
  BY <1>1
<1>3. QED
  BY <1>1, <1>2 DEF InOrder, Whole, Kept

\* The numbers of the records in the list.
LEMMA ItemsShape ==
  ASSUME ListTypes
  PROVE  \A k \in DOMAIN records.items :
           /\ records.items[k].item \in Item
           /\ records.items[k].item[1] \in Nat \ {0} /\ records.items[k].item[2] \in Nat \ {0}
<1>1. records \in ListType(Item, AnyText, Kinds)
  BY DEF ListTypes
<1>2. \A k \in DOMAIN records.items : records.items[k].item \in Item
  BY <1>1, ListShape, Zenon
<1>3. QED
  BY <1>2 DEF Item

\* The list and the loads stay as they are.
LEMMA LoadInvKept ==
  ASSUME LoadInv, EachLoad', records'.items = records.items, UNCHANGED <<loads, current>>,
         gui.at = "clear" => gui'.at = "clear"
  PROVE  LoadInv'
<1>1. ASSUME NEW i \in DOMAIN loads
      PROVE  InList(i, loads[i], records.items, current, gui'.at)
  <2>1. InList(i, loads[i], records.items, current, gui.at)
    BY DEF LoadInv
  <2>2. QED
    BY <2>1 DEF InList
<1>2. \A k \in DOMAIN records'.items : records'.items[k].item[1] \in DOMAIN loads'
  BY DEF LoadInv
<1>3. QED
  BY <1>1, <1>2 DEF LoadInv, EachLoad

\* A load goes on and the list stays.
LEMMA LoadGoesOn ==
  ASSUME LoadInv, EachLoad', UNCHANGED <<records, current, gui>>,
         NEW i \in DOMAIN loads, NEW r, OneLoad(i, r),
         InList(i, r, records.items, current, gui.at)
  PROVE  LoadInv'
<1>1. ASSUME NEW j \in DOMAIN loads'
      PROVE  InList(j, loads'[j], records.items, current, gui.at)
  BY <1>1 DEF OneLoad, LoadInv
<1>2. \A k \in DOMAIN records'.items : records'.items[k].item[1] \in DOMAIN loads'
  BY DEF LoadInv, OneLoad
<1>3. QED
  BY <1>1, <1>2 DEF LoadInv, EachLoad

LEMMA ReadRecordInList ==
  ASSUME LoadInv, EachLoad, ListTypes, NEW i \in DOMAIN loads, ReadRecord(i)
  PROVE  \E r : OneLoad(i, r) /\ InList(i, r, records.items, current, gui.at)
<1> DEFINE l == loads[i]
<1> DEFINE n == Len(l.batch)
<1> DEFINE end == l.pos = Len(Contents[l.file])
<1> DEFINE bad == ~end /\ Contents[l.file][l.pos + 1].type = "bad"
<1> DEFINE batch == Append(l.batch, <<i, l.pos + 1>>)
<1> DEFINE s == records.items
<1>0. l \in LoadType /\ i \in Nat \ {0} /\ loads \in Seq(LoadType)
  BY LoadIs DEF EachLoad
<1>1. /\ l.at = "read" /\ BatchInv(i, l) /\ (l.cancelled <=> i # current)
      /\ InList(i, l, s, current, gui.at)
  BY DEF ReadRecord, EachLoad, LoadInv
<1>2. /\ l.file \in Files /\ l.pos \in Nat /\ l.batch \in Seq(Item) /\ n \in Nat
      /\ n <= l.pos /\ l.pos <= Len(Contents[l.file])
      /\ Len(Contents[l.file]) \in Nat /\ DOMAIN Contents[l.file] = 1..Len(Contents[l.file])
  <2>1. l.file \in Files /\ l.pos \in Nat /\ l.batch \in Seq(Item)
    BY <1>0 DEF LoadType
  <2>2. n <= l.pos /\ l.pos <= Len(Contents[l.file])
    BY <1>1 DEF BatchInv
  <2>3. Contents[l.file] \in Seq([text : AnyText, type : Kinds])
    BY <2>1, ConsoleAssumption
  <2>4. QED
    BY <2>1, <2>2, <2>3, LenProperties
<1>3. \/ loads' = [loads EXCEPT ![i] = [l EXCEPT !.at = IF l.batch = <<>> THEN "done" ELSE "add"]]
      \/ ~MakesItem(l, bad) /\ loads' = [loads EXCEPT ![i] = [l EXCEPT !.at = "done", !.batch = <<>>]]
      \/ ~end /\ MakesItem(l, bad) /\ loads' = [loads EXCEPT ![i] =
           [l EXCEPT !.pos = @ + 1, !.batch = batch,
                     !.at = IF Len(batch) >= recordBatchSize THEN "add" ELSE "read"]]
  BY DEF ReadRecord, Goto
<1> HIDE DEF l, n, batch, s
<1>4. ASSUME NEW r, loads' = [loads EXCEPT ![i] = r] PROVE OneLoad(i, r)
  BY <1>0, <1>4 DEF OneLoad
<1>5. CASE loads' = [loads EXCEPT ![i] = [l EXCEPT !.at = IF l.batch = <<>> THEN "done" ELSE "add"]]
  <2> DEFINE r == [l EXCEPT !.at = IF l.batch = <<>> THEN "done" ELSE "add"]
  <2>1. r.pos = l.pos /\ r.batch = l.batch /\ r.file = l.file
        /\ (l.batch = <<>> => r.at = "done")
    BY <1>0 DEF LoadType
  <2>2. OneLoad(i, r)
    BY <1>4, <1>5
  <2> HIDE DEF r
  <2>3. InOrder(s, i, l) => InOrder(s, i, r)
    BY <2>1 DEF InOrder
  <2>4. Whole(s, i, l) => Whole(s, i, r)
    BY <2>1 DEF Whole
  <2>5. Kept(s, i, l) => Kept(s, i, r)
    BY <2>1 DEF Kept
  <2>6. InList(i, r, s, current, gui.at)
    BY <1>1, <2>1, <2>3, <2>4, <2>5 DEF InList
  <2>7. QED
    BY <2>2, <2>6 DEF s
<1>6. CASE ~MakesItem(l, bad) /\ loads' = [loads EXCEPT ![i] = [l EXCEPT !.at = "done", !.batch = <<>>]]
  <2> DEFINE r == [l EXCEPT !.at = "done", !.batch = <<>>]
  <2>1. r.pos = l.pos /\ r.batch = <<>> /\ r.file = l.file /\ r.at = "done" /\ Len(r.batch) = 0
    BY <1>0 DEF LoadType
  <2>2. OneLoad(i, r)
    BY <1>4, <1>6
  <2> HIDE DEF r
  <2>3. l.cancelled /\ i # current
    BY <1>1, <1>6 DEF MakesItem
  <2>4. InOrder(s, i, r)
    <3>1. \A j, k \in ListedIn(s, i) : j < k => s[j].item[2] < s[k].item[2]
      BY <1>1 DEF InList, InOrder
    <3>2. ASSUME NEW k \in ListedIn(s, i) PROVE s[k].item[2] <= r.pos - Len(r.batch)
      <4>1. s[k].item[2] <= l.pos - n
        BY <1>1 DEF InList, InOrder, n
      <4>2. s[k].item[2] \in Nat
        BY ItemsShape DEF s, ListedIn
      <4>3. QED
        BY <1>2, <2>1, <4>1, <4>2
    <3>3. QED
      BY <3>1, <3>2 DEF InOrder
  <2>5. Kept(s, i, l) => Kept(s, i, r)
    BY <2>1 DEF Kept
  <2>6. InList(i, r, s, current, gui.at)
    BY <1>1, <2>1, <2>3, <2>4, <2>5 DEF InList
  <2>7. QED
    BY <2>2, <2>6 DEF s
<1>7. CASE ~end /\ MakesItem(l, bad) /\ loads' = [loads EXCEPT ![i] =
           [l EXCEPT !.pos = @ + 1, !.batch = batch,
                     !.at = IF Len(batch) >= recordBatchSize THEN "add" ELSE "read"]]
  <2> DEFINE r == [l EXCEPT !.pos = l.pos + 1, !.batch = batch,
                            !.at = IF Len(batch) >= recordBatchSize THEN "add" ELSE "read"]
  <2>1. r.pos = l.pos + 1 /\ r.batch = batch /\ r.file = l.file
    BY <1>0 DEF LoadType
  <2>2. OneLoad(i, r)
    BY <1>4, <1>7
  <2> HIDE DEF r
  <2>3. r.pos - Len(r.batch) = l.pos - Len(l.batch)
    <3>1. Len(batch) = n + 1
      BY <1>0, <1>2 DEF batch, n, Item
    <3>2. QED
      BY <1>2, <2>1, <3>1 DEF n
  <2>4. InOrder(s, i, l) => InOrder(s, i, r)
    BY <2>3 DEF InOrder
  <2>5. Whole(s, i, l) => Whole(s, i, r)
    BY <2>3 DEF Whole
  <2>6. i = current \/ HasErrors(l.file)
    <3>1. CASE ~l.cancelled
      BY <1>1, <3>1
    <3>2. CASE l.cancelled
      <4>1. Contents[l.file][l.pos + 1].type = "bad"
        BY <1>7, <3>2 DEF MakesItem
      <4>2. l.pos + 1 \in DOMAIN Contents[l.file]
        BY <1>2, <1>7
      <4>3. QED
        BY <4>1, <4>2 DEF HasErrors
    <3>3. QED
      BY <3>1, <3>2
  <2>7. InList(i, r, s, current, gui.at)
    BY <1>1, <2>1, <2>4, <2>5, <2>6 DEF InList
  <2>8. QED
    BY <2>2, <2>7 DEF s
<1>8. QED
  BY <1>3, <1>5, <1>6, <1>7

LEMMA AddElementsInv ==
  ASSUME ConsoleInv, EachLoad', NEW i \in DOMAIN loads, AddElements(i)
  PROVE  LoadInv'
<1> DEFINE l == loads[i]
<1> DEFINE n == Len(l.batch)
<1> DEFINE s == records.items
<1> DEFINE t == records'.items
<1> DEFINE e == EntriesOf(l.batch)
<1> DEFINE report == AddReport(records, records')
<1> DEFINE r == [l EXCEPT !.batch = <<>>, !.report = report, !.at = AfterAdding(report)]
<1> DEFINE E == [item : Item, search : AnyText, type : Kinds]
<1>0. /\ LoadInv /\ EachLoad /\ LoadTypes /\ ListTypes /\ BatchInv(i, l)
      /\ records \in ListType(Item, AnyText, Kinds) /\ ListInv(records)
      /\ l \in LoadType
  <2>1. LoadInv /\ EachLoad /\ LoadTypes /\ ListTypes /\ ListsInv
    BY DEF ConsoleInv, TypeOK, EachLoad, LoadInv
  <2>2. QED
    BY <2>1, LoadIs DEF EachLoad, ListTypes, ListsInv
<1>1. l.at = "add" /\ records' = Added(records, e) /\ UNCHANGED <<current, gui>>
  BY DEF AddElements
<1>2. loads' = [loads EXCEPT ![i] = r]
  BY DEF AddElements
<1>3. /\ e \in Seq(E) /\ Len(e) = n
      /\ \A k \in DOMAIN e : e[k].item = <<i, l.pos - n + k>>
  BY <1>0, EntriesGood
<1>4. s \in Seq(E)
  BY <1>0, ListShape
<1>5. t = s \o e
  <2> HIDE DEF e
  <2>1. QED
    BY <1>0, <1>1, <1>3, AddedGood
<1>6. r.batch = <<>> /\ r.pos = l.pos /\ r.file = l.file /\ r.at \in {"report", "flush"}
  <2>1. AfterAdding(report) \in {"report", "flush"}
    BY DEF AfterAdding
  <2> HIDE DEF report
  <2>2. QED
    BY <1>0, <2>1 DEF LoadType
<1> HIDE DEF report, r
<1>7. OneLoad(i, r)
  BY <1>0, <1>2 DEF OneLoad, LoadTypes
<1>8. l.pos \in Nat /\ n \in Nat /\ n <= l.pos /\ n <= recordBatchSize /\ i \in Nat \ {0}
      /\ recordBatchSize \in Nat
  <2>1. l.pos \in Nat /\ l.batch \in Seq(Item)
    BY <1>0 DEF LoadType
  <2>2. QED
    BY <1>0, <2>1, LoadIs, ConsoleAssumption DEF BatchInv
<1> HIDE DEF e, l
<1>9. Longer(t, s, e)
  <2> HIDE DEF E, s, t
  <2>1. QED
    BY <1>3, <1>4, <1>5, AppendedIsLonger
<1>10. /\ \A k \in DOMAIN s : s[k].item[1] \in DOMAIN loads /\ s[k].item[2] \in Nat \ {0}
       /\ InList(i, l, s, current, gui.at)
  BY <1>0, ItemsShape DEF LoadInv, l
<1> HIDE DEF s, t, E
<1>11. MoreListed(t, s, e, i)
  <2> DEFINE m == l.pos - n
  <2>1. \A k \in DOMAIN e : e[k].item = <<i, m + k>>
    BY <1>3
  <2> HIDE DEF m
  <2>2. QED
    BY <1>9, <2>1, AddedListed
<1>12. /\ InOrder(s, i, l) => InOrder(t, i, r)
       /\ Whole(s, i, l) => Whole(t, i, r)
       /\ ListedIn(s, i) = {} => ListedIn(t, i) = (Len(s) + 1)..(Len(s) + Len(e))
  <2>1. Len(r.batch) = 0
    BY <1>6
  <2>2. Len(e) = Len(l.batch) /\ \A k \in DOMAIN e : e[k].item = <<i, l.pos - Len(l.batch) + k>>
    BY <1>3
  <2>3. BatchListed(t, s, e, i, l, r)
    BY <1>6, <1>8, <1>9, <1>10, <2>1, <2>2, AddedInOrder
  <2>4. QED
    BY <2>3 DEF BatchListed
<1>13. Kept(s, i, l) => Kept(t, i, r)
  <2>1. SUFFICES ASSUME Kept(s, i, l) PROVE Kept(t, i, r)
    OBVIOUS
  <2>2. ListedIn(s, i) = {}
    BY <1>1, <2>1 DEF Kept, l
  <2>3. ListedIn(t, i) = (Len(s) + 1)..(Len(s) + n)
    BY <1>3, <1>12, <2>2
  <2>4. Len(s) \in Nat /\ Len(s) + 1 \in Int /\ Len(s) + n \in Int
    BY <1>8, <1>9 DEF Longer
  <2>5. Cardinality((Len(s) + 1)..(Len(s) + n)) = n
    <3> DEFINE a == Len(s) + 1
    <3> DEFINE b == Len(s) + n
    <3>1. a \in Int /\ b \in Int /\ b - a + 1 = n /\ (a > b => n = 0)
      BY <1>8, <2>4
    <3> HIDE DEF a, b
    <3>2. Cardinality(a..b) = IF a > b THEN 0 ELSE b - a + 1
      BY <3>1, FS_Interval
    <3>3. Cardinality(a..b) = n
      BY <3>1, <3>2
    <3>4. QED
      BY <3>3 DEF a, b
  <2>6. QED
    BY <1>6, <1>8, <2>3, <2>5 DEF Kept
<1>14. ASSUME NEW j \in DOMAIN loads
       PROVE  InList(j, loads'[j], t, current, gui.at)
  <2>1. CASE j = i
    <3>1. InList(i, r, t, current, gui.at)
      BY <1>6, <1>10, <1>12, <1>13 DEF InList
    <3>2. QED
      BY <1>7, <2>1, <3>1 DEF OneLoad
  <2>2. CASE j # i
    <3>1. loads'[j] = loads[j]
      BY <1>7, <2>2 DEF OneLoad
    <3>2. InList(j, loads[j], s, current, gui.at)
      BY <1>0 DEF LoadInv, s
    <3> DEFINE k == loads[j]
    <3> HIDE DEF k
    <3>3. /\ InOrder(s, j, k) => InOrder(t, j, k)
          /\ Whole(s, j, k) => Whole(t, j, k)
          /\ Kept(s, j, k) => Kept(t, j, k)
      BY <1>9, <1>11, <2>2, AddedOthers
    <3>4. InList(j, k, t, current, gui.at)
      BY <3>2, <3>3 DEF InList, k
    <3>5. QED
      BY <3>1, <3>4 DEF k
  <2>3. QED
    BY <2>1, <2>2
<1>15. \A k \in DOMAIN t : t[k].item[1] \in DOMAIN loads
  <2>1. SUFFICES ASSUME NEW k \in DOMAIN t PROVE t[k].item[1] \in DOMAIN loads
    OBVIOUS
  <2>2. CASE k \in DOMAIN s
    BY <1>9, <1>10, <2>2 DEF Longer
  <2>3. CASE k \notin DOMAIN s
    <3>1. k \in ListedIn(t, i)
      <4>1. k \in (Len(s) + 1)..(Len(s) + Len(e))
        BY <1>9, <2>3 DEF Longer
      <4>2. QED
        BY <1>11, <4>1 DEF MoreListed
    <3>2. QED
      BY <3>1 DEF ListedIn
  <2>4. QED
    BY <2>2, <2>3
<1>16. QED
  <2>1. DOMAIN loads' = DOMAIN loads
    BY <1>7 DEF OneLoad
  <2>2. QED
    BY <1>1, <1>14, <1>15, <2>1 DEF LoadInv, EachLoad, t

LEMMA LoadStep ==
  ASSUME ConsoleInv, [Next]_vars
  PROVE  LoadInv'
<1>0. LoadInv /\ EachLoad /\ EachLoad' /\ LoadTypes /\ ListTypes /\ GuiTypes /\ ListsInv
  BY LoadsStep DEF ConsoleInv, TypeOK, EachLoad, LoadInv
<1>1. CASE UNCHANGED vars
  <2>1. UNCHANGED <<records, loads, current, gui>>
    BY <1>1 DEF vars, listVars, loadVars
  <2>2. QED
    BY <1>0, <2>1, LoadInvKept
<1>2. ASSUME NEW i \in DOMAIN loads, ReadRecord(i) PROVE LoadInv'
  <2>1. PICK r : OneLoad(i, r) /\ InList(i, r, records.items, current, gui.at)
    BY <1>0, <1>2, ReadRecordInList
  <2>2. UNCHANGED <<records, current, gui>>
    BY <1>2 DEF ReadRecord, listVars
  <2>3. QED
    BY <1>0, <2>1, <2>2, LoadGoesOn
<1>3. ASSUME NEW i \in DOMAIN loads, AddElements(i) PROVE LoadInv'
  BY <1>0, <1>3, AddElementsInv
<1>4. ASSUME NEW i \in DOMAIN loads, ReportAdded(i) \/ RequestFlush(i) PROVE LoadInv'
  <2> DEFINE l == loads[i]
  <2> DEFINE r == IF l.at = "report" THEN [l EXCEPT !.at = "flush", !.report = <<>>]
                  ELSE [l EXCEPT !.at = "read"]
  <2>1. /\ l.at \in {"report", "flush"} /\ UNCHANGED <<records, current, gui>>
        /\ loads' = [loads EXCEPT ![i] = r]
    BY <1>4 DEF ReportAdded, RequestFlush, Goto, listVars
  <2>2. l \in LoadType
    BY <1>0, LoadIs
  <2>3. r.batch = l.batch /\ r.pos = l.pos /\ r.file = l.file /\ r.at \in {"flush", "read"}
    BY <2>1, <2>2 DEF LoadType
  <2> HIDE DEF r
  <2>4. OneLoad(i, r)
    BY <1>0, <2>1 DEF OneLoad, LoadTypes
  <2>5. InList(i, l, records.items, current, gui.at)
    BY <1>0 DEF LoadInv
  <2> HIDE DEF l
  <2>6. /\ InOrder(records.items, i, l) => InOrder(records.items, i, r)
        /\ Whole(records.items, i, l) => Whole(records.items, i, r)
        /\ Kept(records.items, i, l) => Kept(records.items, i, r)
    BY <2>3 DEF InOrder, Whole, Kept
  <2>7. InList(i, r, records.items, current, gui.at)
    BY <2>3, <2>5, <2>6 DEF InList
  <2>8. QED
    BY <1>0, <2>1, <2>4, <2>7, LoadGoesOn
<1>5. CASE CancelLoad
  <2>1. /\ records' = records /\ current' = 0 /\ gui'.at = "clear"
        /\ loads' = [j \in DOMAIN loads |-> IF j = current
                       THEN [loads[j] EXCEPT !.cancelled = TRUE] ELSE loads[j]]
    <3>1. gui'.at = "clear"
      BY <1>0, <1>5 DEF CancelLoad, GuiTypes
    <3>2. QED
      BY <1>5, <3>1 DEF CancelLoad, listVars
  <2>2. ASSUME NEW j \in DOMAIN loads
        PROVE  /\ loads'[j].file = loads[j].file /\ loads'[j].pos = loads[j].pos
               /\ loads'[j].batch = loads[j].batch
    <3>1. loads[j] \in LoadType
      BY <1>0, LoadIs
    <3>2. QED
      BY <2>1, <3>1 DEF LoadType
  <2>3. ASSUME NEW j \in DOMAIN loads PROVE InList(j, loads'[j], records.items, 0, "clear")
    <3>1. InOrder(records.items, j, loads[j])
      BY <1>0 DEF LoadInv, InList
    <3>2. InOrder(records.items, j, loads'[j])
      BY <2>2, <3>1 DEF InOrder
    <3>3. j # 0
      BY <1>0, LoadIs
    <3>4. QED
      BY <3>2, <3>3 DEF InList
  <2>4. \A k \in DOMAIN records.items : records.items[k].item[1] \in DOMAIN loads'
    BY <1>0, <2>1 DEF LoadInv
  <2>5. QED
    BY <1>0, <2>1, <2>3, <2>4 DEF LoadInv, EachLoad
<1>6. CASE ClearRecords
  <2>1. /\ records'.items = <<>> /\ UNCHANGED <<loads, current>> /\ gui'.at = "start"
        /\ gui.at = "clear"
    <3>1. records' = Emptied(records) /\ records \in ListType(Item, AnyText, Kinds)
      BY <1>0, <1>6 DEF ClearRecords, ListTypes
    <3>2. records'.items = <<>>
      BY <3>1, EmptiedGood
    <3>3. gui'.at = "start"
      BY <1>0, <1>6 DEF ClearRecords, GuiTypes
    <3>4. QED
      BY <1>6, <3>2, <3>3 DEF ClearRecords, loadVars
  <2>2. current = 0 /\ DOMAIN records'.items = {}
    BY <1>0, <2>1 DEF LoadInv
  <2>3. \A j : ListedIn(records'.items, j) = {}
    BY <2>2 DEF ListedIn
  <2>4. ASSUME NEW j \in DOMAIN loads PROVE InList(j, loads[j], records'.items, current, gui'.at)
    <3>1. j # current
      BY <1>0, <2>2, LoadIs
    <3>2. QED
      BY <2>3, <3>1 DEF InList, InOrder, Kept
  <2>5. QED
    BY <1>0, <2>1, <2>2, <2>4 DEF LoadInv, EachLoad
<1>7. CASE StartLoad
  <2>1. records' = records /\ gui.at = "start" /\ gui'.at = "idle" /\ current = 0
    BY <1>0, <1>7 DEF StartLoad, Idle, listVars, LoadInv
  <2>2. CASE gui.item = None
    <3>1. UNCHANGED <<loads, current>>
      BY <1>7, <2>2 DEF StartLoad, loadVars
    <3>2. QED
      BY <1>0, <2>1, <3>1, LoadInvKept
  <2>3. CASE gui.item # None
    <3>0. PICK opened \in BOOLEAN :
            loads' = Append(loads, [file |-> gui.item, at |-> IF opened THEN "read" ELSE "failed",
                                    pos |-> 0, batch |-> <<>>, report |-> <<>>,
                                    cancelled |-> FALSE])
      BY <1>7, <2>3 DEF StartLoad
    <3> DEFINE r == [file |-> gui.item, at |-> IF opened THEN "read" ELSE "failed",
                     pos |-> 0, batch |-> <<>>, report |-> <<>>, cancelled |-> FALSE]
    <3>1. loads' = Append(loads, r) /\ current' = Len(loads') /\ r.pos = 0 /\ r.batch = <<>>
      BY <1>7, <2>3, <3>0 DEF StartLoad
    <3> HIDE DEF r
    <3>2. /\ Len(loads) \in Nat /\ DOMAIN loads = 1..Len(loads) /\ current' = Len(loads) + 1
          /\ DOMAIN loads' = 1..(Len(loads) + 1)
          /\ loads'[Len(loads) + 1] = r /\ \A j \in DOMAIN loads : loads'[j] = loads[j]
      <4>1. loads \in Seq(LoadType)
        BY <1>0 DEF LoadTypes
      <4>2. QED
        BY <3>1, <4>1
    <3>3. ListedIn(records.items, Len(loads) + 1) = {}
      <4>1. \A k \in DOMAIN records.items : records.items[k].item[1] \in DOMAIN loads
        BY <1>0 DEF LoadInv
      <4>2. Len(loads) + 1 \notin DOMAIN loads
        BY <3>2
      <4>3. QED
        BY <4>1, <4>2 DEF ListedIn
    <3>4. ASSUME NEW j \in DOMAIN loads'
          PROVE  InList(j, loads'[j], records.items, current', gui'.at)
      <4>1. CASE j \in DOMAIN loads
        <5>1. InList(j, loads[j], records.items, current, gui.at) /\ j # current /\ j # current'
          BY <1>0, <2>1, <3>2, <4>1, LoadIs DEF LoadInv
        <5>2. InList(j, loads[j], records.items, current', gui'.at)
          BY <2>1, <5>1 DEF InList
        <5>3. QED
          BY <3>2, <4>1, <5>2
      <4>2. CASE j = Len(loads) + 1
        <5>1. 1..(r.pos - Len(r.batch)) = {}
          BY <3>1
        <5>2. InOrder(records.items, j, r) /\ Whole(records.items, j, r)
          BY <3>3, <4>2, <5>1 DEF InOrder, Whole
        <5>3. QED
          BY <3>2, <4>2, <5>2 DEF InList
      <4>3. QED
        BY <3>2, <4>1, <4>2
    <3>5. \A k \in DOMAIN records.items : records.items[k].item[1] \in DOMAIN loads'
      BY <1>0, <3>2 DEF LoadInv
    <3>6. QED
      BY <1>0, <2>1, <3>4, <3>5 DEF LoadInv, EachLoad
  <2>4. QED
    BY <2>2, <2>3
<1>8. CASE PopulateFiles \/ MoveFile \/ SearchFiles
  <2>1. UNCHANGED <<records, loads, current>> /\ gui.at \in {"populate", "idle"}
    BY <1>8 DEF PopulateFiles, MoveFile, SearchFiles, Command, listVars, loadVars
  <2>2. QED
    BY <1>0, <2>1, LoadInvKept
<1>9. ASSUME records'.items = records.items, UNCHANGED <<loads, current, gui>> PROVE LoadInv'
  BY <1>0, <1>9, LoadInvKept
<1>10. records \in ListType(Item, AnyText, Kinds) /\ ListInv(records)
  BY <1>0 DEF ListTypes, ListsInv
<1>11. CASE MoveRecord
  <2>1. PICK k \in 1..Len(records.items) : records' = Moved(records, k)
    BY <1>11 DEF MoveRecord
  <2>2. k \in Nat
    OBVIOUS
  <2>3. records'.items = records.items
    BY <1>10, <2>1, <2>2, MovedGood
  <2>4. QED
    BY <1>9, <1>11, <2>3 DEF MoveRecord, loadVars
<1>12. CASE SearchRecords
  <2>1. PICK f \in Filters : Rebuild(f, records.types)
    BY <1>12 DEF SearchRecords
  <2>2. f \in SUBSET AnyText /\ records.types \in SUBSET Kinds
    BY <1>10, ConsoleAssumption, ListShape
  <2>3. records' = Rebuilt(records, f, records.types) /\ UNCHANGED <<loads, current, gui>>
    BY <2>1 DEF Rebuild, loadVars
  <2>4. records'.items = records.items
    BY <1>10, <2>2, <2>3, RebuiltGood
  <2>5. QED
    BY <1>9, <2>3, <2>4
<1>13. CASE ToggleRecordType
  <2>1. PICK t \in Types : Rebuild(records.filter, t)
    BY <1>13 DEF ToggleRecordType
  <2>2. t \in SUBSET Kinds /\ records.filter \in SUBSET AnyText
    BY <1>10, ConsoleAssumption, ListShape
  <2>3. records' = Rebuilt(records, records.filter, t) /\ UNCHANGED <<loads, current, gui>>
    BY <2>1 DEF Rebuild, loadVars
  <2>4. records'.items = records.items
    BY <1>10, <2>2, <2>3, RebuiltGood
  <2>5. QED
    BY <1>9, <2>3, <2>4
<1>14. CASE ToggleLineEndings \/ ChangeView \/ Layout
  <2>1. UNCHANGED <<records, loads, current, gui>>
    BY <1>14 DEF ToggleLineEndings, ChangeView, Layout, listVars, loadVars
  <2>2. QED
    BY <1>9, <2>1
<1>15. CASE ShowRecord
  <2>1. UNCHANGED <<files, listVars, loadVars, gui, drawn, commands, raced>>
    BY <1>15, Zenon DEF ShowRecord
  <2>2. QED
    BY <1>9, <2>1 DEF listVars, loadVars
<1>16. CASE TakeFlush \/ CopyList \/ DrawList
  <2>1. gui.at # "clear" /\ UNCHANGED <<loads, current>>
        /\ (records' = records \/ records' = [records EXCEPT !.selected = gui.drawing.mark])
    BY <1>16 DEF TakeFlush, CopyList, DrawList, listVars, loadVars
  <2>2. records'.items = records.items
    BY <1>10, <2>1 DEF ListType
  <2>3. QED
    BY <1>0, <2>1, <2>2, LoadInvKept
<1>17. QED
  BY <1>1, <1>2, <1>3, <1>4, <1>5, <1>6, <1>7, <1>8, <1>11, <1>12, <1>13, <1>14, <1>15, <1>16
     DEF Next, MainLoop, Load

-----------------------------------------------------------------------------
(* The theorems *)

LEMMA ConsoleInit == Init => ConsoleInv
<1> SUFFICES ASSUME Init PROVE ConsoleInv
  OBVIOUS
<1>1. /\ files \in ListType(Files, Files, {"file"}) /\ ListInv(files)
  BY NewListGood DEF Init
<1>2. /\ records \in ListType(Item, AnyText, Kinds) /\ ListInv(records) /\ records.items = <<>>
  BY NewListGood DEF Init, AnyType
<1>3. loads = <<>> /\ current = 0 /\ gui = [at |-> "populate"]
  BY DEF Init
<1>4. LoadTypes
  BY <1>3 DEF LoadTypes
<1>5. IsABag(calls) /\ DOMAIN calls = {FlushCall} /\ calls[FlushCall] = 1 /\ queued = TRUE
  BY BagOfSet DEF Init, FlushCall
<1>6. CallTypes /\ QueueInv
  BY <1>5 DEF CallTypes, QueueInv
<1>7. Drawing(records) \in DrawingType
  BY <1>2, DrawingGood DEF DrawingType
<1>8. drawn \in DrawingType
  BY <1>7 DEF Init
<1>9. GuiTypes
  BY <1>3, <1>8 DEF GuiTypes
<1>10. DrawInv
  BY <1>5 DEF DrawInv, FlushComes
<1>11. LoadInv
  BY <1>2, <1>3 DEF LoadInv
<1>12. QED
  BY <1>1, <1>2, <1>3, <1>4, <1>6, <1>9, <1>10, <1>11
     DEF ConsoleInv, TypeOK, ListTypes, ListsInv

\* The inductive invariant of the console: the lists are what is left of their items, a flush
\* that was asked for is among the calls, and each load has put its records into the list up
\* to its batch.
THEOREM ConsoleInvariance == Spec => []ConsoleInv
<1>1. ASSUME ConsoleInv, [Next]_vars PROVE ConsoleInv'
  <2>1. (ListTypes /\ ListsInv)' /\ EachLoad' /\ CallsInv' /\ GuiTypes' /\ DrawInv' /\ LoadInv'
    BY <1>1, ListsStep, LoadsStep, CallsStep, GuiStep, DrawStep, LoadStep
  <2>2. QED
    BY <2>1 DEF ConsoleInv, TypeOK, CallsInv, EachLoad
<1>2. QED
  BY ConsoleInit, <1>1, PTL DEF Spec

\* Every variable of the console stays in its type.
THEOREM ConsoleTypeCorrect == Spec => []TypeOK
<1>1. ConsoleInv => TypeOK
  BY DEF ConsoleInv
<1>2. QED
  BY ConsoleInvariance, <1>1, PTL

\* However many goroutines change the list and ask for it to be drawn, once nothing is under
\* way what is drawn is the list (widget_list.go: requestFlush, flush).
THEOREM NoLostDrawing == Spec => []DrawnIsList
<1>1. ASSUME ConsoleInv, Quiet
      PROVE  /\ \E place \in [DOMAIN drawn.rows -> Shown] :
                  /\ \A r, s \in DOMAIN place : r < s => place[r] < place[s]
                  /\ \A k \in Shown : \E r \in DOMAIN place : place[r] = k
                  /\ \A r \in DOMAIN place : drawn.rows[r] = records.items[place[r]].item
             /\ drawn.mark = records.selected
  <2> DEFINE v == records.visible
  <2>1. records \in ListType(Item, AnyText, Kinds) /\ ListInv(records)
    BY <1>1 DEF ConsoleInv, TypeOK, ListTypes, ListsInv
  <2>2. UpToDate
    <3>1. gui.at = "idle" /\ calls = EmptyBag
      BY <1>1 DEF Quiet
    <3>2. FlushCall \notin DOMAIN calls
      BY <3>1, BagOfSet DEF EmptyBag
    <3>3. ~queued
      BY <1>1, <3>2 DEF ConsoleInv, QueueInv
    <3>4. \A i \in DOMAIN loads : loads[i].at \notin {"report", "flush"}
      BY <1>1 DEF Quiet, Ended
    <3>5. QED
      BY <1>1, <3>1, <3>3, <3>4 DEF ConsoleInv, DrawInv, FlushComes
  <2>3. drawn.rows = Drawing(records).rows /\ drawn.mark = records.selected
    BY <1>1, <2>2 DEF UpToDate, Quiet
  <2>4. /\ DOMAIN drawn.rows = DOMAIN v
        /\ \A r \in DOMAIN v : drawn.rows[r] = records.items[v[r]].item
    BY <2>1, <2>3, DrawingGood
  <2>5. v = [r \in DOMAIN v |-> v[r]] /\ DOMAIN records.items = 1..Len(records.items)
    <3>1. v \in Seq(Nat)
      BY <2>1 DEF ListType
    <3>2. DOMAIN records.items = 1..Len(records.items)
      BY <2>1, ListShape
    <3> HIDE DEF v
    <3>3. QED
      BY <3>1, <3>2
  <2>6. /\ \A r \in DOMAIN v : Matches(records, records.items[v[r]])
        /\ \A r, s \in DOMAIN v : r < s => v[r] < v[s]
        /\ \A k \in 1..Len(records.items) :
             Matches(records, records.items[k]) => \E r \in DOMAIN v : v[r] = k
    BY <2>1 DEF ListInv, ArePlaces
  <2>7. \A r \in DOMAIN v : v[r] \in DOMAIN records.items
    BY <2>1, PlacesOfList, Zenon
  <2> HIDE DEF v
  <2>8. v \in [DOMAIN drawn.rows -> Shown]
    BY <2>4, <2>5, <2>6, <2>7 DEF Shown
  <2>9. \A k \in Shown : \E r \in DOMAIN v : v[r] = k
    BY <2>5, <2>6 DEF Shown
  <2>10. QED
    BY <2>3, <2>4, <2>6, <2>8, <2>9
<1>2. ConsoleInv => DrawnIsList
  BY <1>1 DEF DrawnIsList
<1>3. QED
  BY ConsoleInvariance, <1>2, PTL

\* However loads are started and cancelled, the list holds the records of the file selected
\* last as far as they were read, each once and in order, and of a load that was cancelled no
\* more than one batch (app.go: onFileSelected, loadRecords).
THEOREM ListedInFull == Spec => []RecordsComplete
<1>1. ASSUME ConsoleInv, NEW i \in DOMAIN loads
      PROVE  /\ \A j, k \in Listed(i) : j < k => Number(j) < Number(k)
             /\ IF i = current
                THEN {Number(k) : k \in Listed(i)} = 1..(loads[i].pos - Len(loads[i].batch))
                ELSE \/ gui.at \in {"clear", "start"}
                     \/ HasErrors(loads[i].file)
                     \/ Cardinality(Listed(i)) <= recordBatchSize
  <2>1. InList(i, loads[i], records.items, current, gui.at)
    BY <1>1 DEF ConsoleInv, LoadInv
  <2>2. recordBatchSize \in Nat
    BY ConsoleAssumption
  <2>3. Listed(i) = {} => Cardinality(Listed(i)) <= recordBatchSize
    BY <2>2, FS_EmptySet
  <2>4. Kept(records.items, i, loads[i]) => Cardinality(Listed(i)) <= recordBatchSize
    BY <2>3 DEF Kept, Listed
  <2>5. QED
    BY <2>1, <2>4 DEF InList, InOrder, Whole, Listed, Number
<1>2. ConsoleInv => RecordsComplete
  BY <1>1 DEF RecordsComplete
<1>3. QED
  BY ConsoleInvariance, <1>2, PTL

-----------------------------------------------------------------------------
(* The views *)

\* A screen with its focus on one of its views.
Focused(s) ==
  /\ s = [panel |-> s.panel, views |-> s.views, focus |-> s.focus]
  /\ Len(s.views) \in Nat \ {0} /\ DOMAIN s.views = 1..Len(s.views)
  /\ s.focus \in 1..Len(s.views)

LEMMA PanelFocused ==
  ASSUME NEW s, Focused(s), NEW p, NEW t, t = [s EXCEPT !.panel = p] PROVE Focused(t)
BY DEF Focused

LEMMA LayoutFocused == ASSUME NEW s, Focused(s) PROVE Focused(ScreenLayout(s))
<1> DEFINE panel == PanelLayout(s.panel)
<1> DEFINE views == <<"Files", "Records">> \o ViewNames(panel)
<1> DEFINE V == {"Files", "Records", "Header", "Errors"}
<1>1. <<"Files", "Records">> \in Seq(V) /\ ViewNames(panel) \in Seq(V)
  <2> HIDE DEF panel
  <2>1. "Files" \in V /\ "Records" \in V /\ "Header" \in V /\ "Errors" \in V
    OBVIOUS
  <2> HIDE DEF V
  <2>2. <<"Files", "Records">> \in Seq(V) /\ <<"Errors">> \in Seq(V)
        /\ <<"Header", "Errors">> \in Seq(V) /\ <<"Header">> \in Seq(V)
    BY <2>1
  <2>3. QED
    BY <2>2 DEF ViewNames
<1>2. /\ Len(views) = 2 + Len(ViewNames(panel)) /\ Len(ViewNames(panel)) \in Nat
      /\ DOMAIN views = 1..Len(views)
  <2> HIDE DEF panel, V
  <2>1. QED
    BY <1>1
<1> HIDE DEF views, panel
<1>3. Clamp(s.focus, views) \in 1..Len(views)
  BY <1>2 DEF Clamp, Focused
<1>4. ScreenLayout(s) = [panel |-> panel, views |-> views, focus |-> Clamp(s.focus, views)]
  BY DEF ScreenLayout, views, panel
<1>5. QED
  BY <1>2, <1>3, <1>4 DEF Focused

LEMMA FocusedFirst == ASSUME Init PROVE Focused(screen)
<1>1. Len(NewScreen.views) = 3 /\ DOMAIN NewScreen.views = 1..3 /\ NewScreen.focus = 1
  BY DEF NewScreen
<1>2. NewScreen = [panel |-> NewScreen.panel, views |-> NewScreen.views,
                   focus |-> NewScreen.focus]
  BY DEF NewScreen
<1>3. QED
  BY <1>1, <1>2 DEF Init, Focused

LEMMA FocusStep == ASSUME Focused(screen), [Next]_vars PROVE Focused(screen)'
<1>1. ASSUME screen' = screen PROVE Focused(screen)'
  BY <1>1
<1>2. CASE ChangeView
  BY <1>2 DEF ChangeView, NextView, PrevView, Focused
<1>3. CASE Layout
  BY <1>3, LayoutFocused DEF Layout
<1>4. CASE ToggleLineEndings \/ ShowRecord
  <2>1. screen' = screen \/ \E p : screen' = [screen EXCEPT !.panel = p]
    BY <1>4, Zenon DEF ToggleLineEndings, ShowRecord
  <2>2. QED
    BY <1>1, <2>1, PanelFocused
<1>5. CASE \E i \in DOMAIN loads : Load(i)
  BY <1>1, <1>5 DEF Load, ReadRecord, AddElements, ReportAdded, RequestFlush, viewVars
<1>6. CASE PopulateFiles \/ CancelLoad \/ ClearRecords \/ StartLoad \/ MoveFile \/ SearchFiles
  BY <1>1, <1>6 DEF PopulateFiles, CancelLoad, ClearRecords, StartLoad, MoveFile, SearchFiles,
     viewVars
<1>7. CASE \/ MoveRecord \/ SearchRecords \/ ToggleRecordType
           \/ TakeFlush \/ CopyList \/ DrawList \/ UNCHANGED vars
  BY <1>1, <1>7 DEF MoveRecord, SearchRecords, ToggleRecordType, Rebuild, TakeFlush, CopyList,
     DrawList, vars, viewVars
<1>8. QED
  BY <1>2, <1>3, <1>4, <1>5, <1>6, <1>7 DEF Next, MainLoop

\* The focus stays on a view there is, in whatever order the panel is filled and cleared,
\* laid out and the focus moved (app.go: Layout, onNextView, onPrevView).
THEOREM FocusStays == Spec => []FocusExists
<1>1. Focused(screen) => FocusExists
  BY DEF Focused, FocusExists
<1>2. QED
  BY FocusedFirst, FocusStep, <1>1, PTL DEF Spec

-----------------------------------------------------------------------------
(* What the operations on a list make of its selection *)

\* Something is selected where something is shown.
Selects(l) == l.visible # <<>> => l.selected # 0

\* A report is of the item selected now, and none is made while that stays the same.
Tells(report, l, r) ==
  \/ report = <<>> /\ SelectedItem(r) = SelectedItem(l)
  \/ report = <<SelectedItem(r)>>

LEMMA SameSelected ==
  ASSUME NEW I, NEW T, NEW K, NEW l \in ListType(I, T, K), ListInv(l), NEW r,
         Place(r) = Place(l), \A k \in DOMAIN l.items : r.items[k] = l.items[k]
  PROVE  SelectedItem(r) = SelectedItem(l)
<1>1. Place(l) \in 0..Len(l.items) /\ DOMAIN l.items = 1..Len(l.items) /\ Len(l.items) \in Nat
  BY ListShape, PlacesOfList
<1>2. CASE Place(l) = 0
  BY <1>2 DEF SelectedItem
<1>3. CASE Place(l) # 0
  <2>1. Place(l) \in DOMAIN l.items
    BY <1>1, <1>3
  <2>2. QED
    BY <1>3, <2>1 DEF SelectedItem
<1>4. QED
  BY <1>2, <1>3

\* What is selected is an item of the list.
LEMMA SelectedIs ==
  ASSUME NEW I, NEW T, NEW K, NEW l \in ListType(I, T, K), ListInv(l), l.selected # 0
  PROVE  \E k \in DOMAIN l.items : SelectedItem(l) = l.items[k].item /\ SelectedItem(l) \in I
<1>1. Place(l) \in 0..Len(l.items) /\ DOMAIN l.items = 1..Len(l.items) /\ Len(l.items) \in Nat
  BY ListShape, PlacesOfList
<1>2. Place(l) # 0
  BY PlacesOfList
<1>3. Place(l) \in DOMAIN l.items
  BY <1>1, <1>2
<1>4. SelectedItem(l) = l.items[Place(l)].item
  BY <1>2 DEF SelectedItem
<1>5. l.items[Place(l)].item \in I
  BY <1>3, ListShape, Zenon
<1>6. QED
  BY <1>3, <1>4, <1>5

LEMMA RebuiltSelects ==
  ASSUME NEW I, NEW T, NEW K, NEW l \in ListType(I, T, K), ListInv(l),
         NEW f \in SUBSET T, NEW t \in SUBSET K, NEW r, r = Rebuilt(l, f, t)
  PROVE  Selects(r) /\ Tells(RebuildReport(l, r), l, r)
<1>1. r.items = l.items
  BY RebuiltGood
<1>2. Selects(r)
  <2> DEFINE m == [l EXCEPT !.filter = f, !.types = t]
  <2>1. m \in ListType(I, T, K)
    BY DEF ListType
  <2>2. r = RebuildVisible(m)
    BY DEF Rebuilt
  <2> HIDE DEF m
  <2>3. m.selected \in Nat /\ Len(m.items) \in Nat
    BY <2>1, ListShape
  <2> DEFINE p == Places(m, 0)
  <2>4. r = [m EXCEPT !.visible = p, !.selected = Nearest(m.selected, Len(p))]
    BY <2>2 DEF RebuildVisible
  <2>5. p \in Seq(1..Len(m.items))
    BY <2>3, PlacesAre DEF ArePlaces
  <2> HIDE DEF p
  <2>6. Len(p) \in Nat /\ (p # <<>> => Len(p) # 0)
    BY <2>5
  <2>7. r.visible = p /\ r.selected = Nearest(m.selected, Len(p))
    BY <2>1, <2>4 DEF ListType
  <2>8. QED
    BY <2>3, <2>6, <2>7, NearestIn DEF Selects
<1>3. CASE Place(r) = Place(l)
  BY <1>1, <1>2, <1>3, SameSelected DEF RebuildReport, Tells
<1>4. CASE Place(r) # Place(l)
  BY <1>2, <1>4 DEF RebuildReport, Tells
<1>5. QED
  BY <1>3, <1>4

LEMMA MovedSelects ==
  ASSUME NEW I, NEW T, NEW K, NEW l \in ListType(I, T, K), ListInv(l),
         NEW k \in Nat, NEW r, r = Moved(l, k)
  PROVE  Selects(r) /\ Tells(MoveReport(l, r), l, r)
<1>1. r.items = l.items /\ r.visible = l.visible
  BY MovedGood
<1>2. Selects(r)
  <2>1. Len(l.visible) \in Nat /\ (l.visible # <<>> => Len(l.visible) # 0)
    BY ListShape
  <2>2. r.selected = Nearest(k, Len(l.visible))
    BY DEF Moved, ListType
  <2>3. QED
    BY <1>1, <2>1, <2>2, NearestIn DEF Selects
<1>3. CASE r.selected = l.selected
  <2>1. Place(r) = Place(l)
    BY <1>1, <1>3 DEF Place
  <2>2. QED
    BY <1>1, <1>2, <1>3, <2>1, SameSelected DEF MoveReport, Tells
<1>4. CASE r.selected # l.selected
  BY <1>2, <1>4 DEF MoveReport, Tells
<1>5. QED
  BY <1>3, <1>4

LEMMA AddedSelects ==
  ASSUME NEW I, NEW T, NEW K, NEW l \in ListType(I, T, K), ListInv(l), Selects(l),
         NEW e \in Seq([item : I, search : T, type : K]), NEW r, r = Added(l, e)
  PROVE  /\ Selects(r) /\ (l.selected # 0 => r.selected = l.selected)
         /\ \/ AddReport(l, r) = <<>> /\ SelectedItem(r) = SelectedItem(l)
            \/ /\ AddReport(l, r) = <<SelectedItem(r)>>
               /\ SelectedItem(r) \in I /\ SelectedItem(l) = None
<1> DEFINE E == [item : I, search : T, type : K]
<1>1. /\ r \in ListType(I, T, K) /\ ListInv(r) /\ r.items = l.items \o e
      /\ \A k \in DOMAIN l.visible : k \in DOMAIN r.visible /\ r.visible[k] = l.visible[k]
      /\ r.selected = IF Place(l) = 0 /\ r.visible # <<>> THEN 1 ELSE l.selected
  BY AddedGood
<1>2. /\ l.items \in Seq(E) /\ l.selected \in Nat
      /\ Place(l) = 0 <=> l.selected = 0
      /\ l.visible \in Seq(Nat) /\ r.visible \in Seq(Nat)
      /\ Place(r) = 0 <=> r.selected = 0
  BY <1>1, ListShape, PlacesOfList
<1>3. \A k \in DOMAIN l.items : r.items[k] = l.items[k]
  <2> HIDE DEF E
  <2>1. e \in Seq(E)
    BY DEF E
  <2>2. QED
    BY <1>1, <1>2, <2>1
<1> HIDE DEF E
<1>4. CASE Place(l) # 0
  <2>1. r.selected = l.selected /\ l.selected # 0
    BY <1>1, <1>2, <1>4
  <2>2. l.selected \in DOMAIN l.visible
    BY <1>4 DEF Place
  <2>3. Place(r) = Place(l)
    BY <1>1, <2>1, <2>2 DEF Place
  <2>4. SelectedItem(r) = SelectedItem(l)
    BY <1>3, <2>3, SameSelected
  <2>5. AddReport(l, r) = <<>>
    BY <1>4 DEF AddReport
  <2>6. QED
    BY <2>1, <2>4, <2>5 DEF Selects
<1>5. CASE Place(l) = 0 /\ r.visible # <<>>
  <2>1. r.selected = 1 /\ AddReport(l, r) = <<SelectedItem(r)>>
    BY <1>1, <1>5 DEF AddReport
  <2>2. SelectedItem(r) \in I
    BY <1>1, <2>1, SelectedIs
  <2>3. SelectedItem(l) = None
    BY <1>5 DEF SelectedItem
  <2>4. QED
    BY <1>2, <1>5, <2>1, <2>2, <2>3 DEF Selects
<1>6. CASE Place(l) = 0 /\ r.visible = <<>>
  <2>1. AddReport(l, r) = <<>> /\ r.selected = l.selected /\ Place(r) = 0
    BY <1>1, <1>2, <1>6 DEF AddReport
  <2>2. QED
    BY <1>6, <2>1 DEF Selects, SelectedItem
<1>7. QED
  BY <1>4, <1>5, <1>6

-----------------------------------------------------------------------------
(* The selection *)

LEMMA SelectionStep ==
  ASSUME ConsoleInv, [Next]_vars, SelectionInv, ~raced'
  PROVE  SelectionInv'
<1>0. /\ ListTypes /\ ListsInv /\ LoadTypes /\ Selects(records)
      /\ records \in ListType(Item, AnyText, Kinds) /\ ListInv(records)
  BY DEF ConsoleInv, TypeOK, ListTypes, ListsInv, SelectionInv, Selects
<1>1. ASSUME records' = records, gui'.at = "draw" => gui' = gui PROVE SelectionInv'
  BY <1>1 DEF SelectionInv
<1>2. ASSUME Selects(records'), gui'.at # "draw" PROVE SelectionInv'
  BY <1>2 DEF SelectionInv, Selects
<1>3. CASE UNCHANGED vars
  BY <1>1, <1>3 DEF vars, listVars
<1>4. ASSUME NEW i \in DOMAIN loads, ReadRecord(i) \/ ReportAdded(i) \/ RequestFlush(i)
      PROVE  SelectionInv'
  <2>1. records' = records /\ gui' = gui
    BY <1>4 DEF ReadRecord, ReportAdded, RequestFlush, listVars
  <2>2. QED
    BY <1>1, <2>1
<1>5. ASSUME NEW i \in DOMAIN loads, AddElements(i) PROVE SelectionInv'
  <2> DEFINE e == EntriesOf(loads[i].batch)
  <2>1. BatchInv(i, loads[i])
    BY DEF ConsoleInv, LoadInv
  <2>2. e \in Seq([item : Item, search : AnyText, type : Kinds])
    BY <1>0, <2>1, EntriesGood
  <2>3. records' = Added(records, e) /\ gui' = gui
    BY <1>5 DEF AddElements
  <2> HIDE DEF e
  <2>4. Selects(records') /\ (records.selected # 0 => records'.selected = records.selected)
    BY <1>0, <2>2, <2>3, AddedSelects
  <2>5. QED
    BY <2>3, <2>4 DEF SelectionInv, Selects
<1>6. CASE ClearRecords
  <2>1. records' = Emptied(records) /\ gui' = [gui EXCEPT !.at = "start"] /\ gui.at = "clear"
    BY <1>6 DEF ClearRecords
  <2>2. gui'.at = "start"
    BY <2>1 DEF ConsoleInv, TypeOK, GuiTypes
  <2>3. records'.visible = <<>>
    BY <1>0, <2>1, EmptiedGood
  <2>4. QED
    BY <1>2, <2>2, <2>3 DEF Selects
<1>7. CASE MoveRecord
  <2>1. PICK k \in 1..Len(records.items) : records' = Moved(records, k)
    BY <1>7 DEF MoveRecord
  <2>2. k \in Nat
    OBVIOUS
  <2>3. Selects(records')
    BY <1>0, <2>1, <2>2, MovedSelects
  <2>4. gui'.at = "idle"
    BY <1>7 DEF MoveRecord, Command
  <2>5. QED
    BY <1>2, <2>3, <2>4
<1>8. ASSUME NEW f \in SUBSET AnyText, NEW t \in SUBSET Kinds, Command, Rebuild(f, t)
      PROVE  SelectionInv'
  <2>1. records' = Rebuilt(records, f, t) /\ gui'.at = "idle"
    BY <1>8 DEF Rebuild, Command
  <2>2. Selects(records')
    BY <1>0, <2>1, RebuiltSelects
  <2>3. QED
    BY <1>2, <2>1, <2>2
<1>9. CASE SearchRecords
  <2>1. PICK f \in Filters : Rebuild(f, records.types)
    BY <1>9 DEF SearchRecords
  <2>2. f \in SUBSET AnyText /\ records.types \in SUBSET Kinds
    BY <1>0, ConsoleAssumption, ListShape
  <2>3. QED
    BY <1>8, <1>9, <2>1, <2>2 DEF SearchRecords
<1>10. CASE ToggleRecordType
  <2>1. PICK t \in Types : Rebuild(records.filter, t)
    BY <1>10 DEF ToggleRecordType
  <2>2. t \in SUBSET Kinds /\ records.filter \in SUBSET AnyText
    BY <1>0, ConsoleAssumption, ListShape
  <2>3. QED
    BY <1>8, <1>10, <2>1, <2>2 DEF ToggleRecordType
<1>11. CASE CopyList
  <2>1. gui' = [at |-> "draw", drawing |-> Drawing(records)] /\ records' = records
    BY <1>11 DEF CopyList, listVars
  <2>2. Drawing(records).mark = Nearest(records.selected, Len(records.visible))
    BY DEF Drawing
  <2>3. /\ Len(records.visible) \in Nat /\ records.selected \in Nat
        /\ records.selected <= Len(records.visible)
        /\ Len(records.visible) # 0 => records.selected # 0
    <3>1. records.visible = <<>> => Len(records.visible) = 0
      OBVIOUS
    <3>2. QED
      BY <1>0, <3>1, ListShape DEF ListInv, Selects
  <2>4. Drawing(records).mark \in {0, records.selected}
    BY <2>2, <2>3 DEF Nearest
  <2>5. QED
    BY <2>1, <2>4 DEF SelectionInv
<1>12. CASE DrawList
  <2>1. /\ gui.at = "draw" /\ gui'.at = "idle"
        /\ records' = [records EXCEPT !.selected = gui.drawing.mark]
        /\ ~(records.selected # 0 /\ gui.drawing.mark = 0)
    BY <1>12 DEF DrawList, Idle
  <2>2. gui.drawing.mark = records.selected
    BY <2>1 DEF SelectionInv
  <2>3. records' = records
    BY <1>0, <2>1, <2>2 DEF ListType
  <2>4. QED
    BY <1>1, <2>1, <2>3
<1>13. CASE PopulateFiles \/ MoveFile \/ SearchFiles
  <2>1. records' = records /\ \E report : Selecting(report)
    BY <1>13 DEF PopulateFiles, MoveFile, SearchFiles, listVars
  <2>2. QED
    BY <1>1, <2>1, SelectingNoDraw
<1>14. CASE CancelLoad \/ StartLoad
  <2>1. records' = records
    BY <1>14 DEF CancelLoad, StartLoad, listVars
  <2>2. gui'.at # "draw"
    <3>1. CASE CancelLoad
      <4>1. gui' = [gui EXCEPT !.at = "clear"] /\ gui.at = "cancel"
        BY <3>1 DEF CancelLoad
      <4>2. gui'.at = "clear"
        BY <4>1 DEF ConsoleInv, TypeOK, GuiTypes
      <4>3. QED
        BY <4>2
    <3>2. CASE StartLoad
      BY <3>2 DEF StartLoad, Idle
    <3>3. QED
      BY <1>14, <3>1, <3>2
  <2>3. QED
    BY <1>1, <2>1, <2>2
<1>15. CASE ToggleLineEndings \/ ChangeView \/ ShowRecord \/ Layout
  <2>1. records' = records /\ gui' = gui
    <3>1. CASE ToggleLineEndings \/ ShowRecord
      BY <3>1, Zenon DEF ToggleLineEndings, ShowRecord, listVars
    <3>2. CASE ChangeView \/ Layout
      BY <3>2 DEF ChangeView, Layout, listVars
    <3>3. QED
      BY <1>15, <3>1, <3>2
  <2>2. QED
    BY <1>1, <2>1
<1>16. CASE TakeFlush
  BY <1>1, <1>16 DEF TakeFlush, listVars
<1>17. QED
  BY <1>3, <1>4, <1>5, <1>6, <1>7, <1>9, <1>10, <1>11, <1>12, <1>13, <1>14, <1>15, <1>16
     DEF Next, MainLoop, Load

LEMMA PanelEmptied ==
  ASSUME NEW p, p = [main |-> p.main, hasErrors |-> p.hasErrors, errorsOnly |-> p.errorsOnly,
                     pending |-> p.pending, errors |-> p.errors],
         NEW blank, NEW no
  PROVE  [p EXCEPT !.main = blank, !.hasErrors = no, !.errorsOnly = no, !.pending = blank]
           = [main |-> blank, hasErrors |-> no, errorsOnly |-> no, pending |-> blank,
              errors |-> p.errors]
<1> SUFFICES ASSUME NEW q, q = [p EXCEPT !.main = blank, !.hasErrors = no, !.errorsOnly = no,
                                         !.pending = blank]
             PROVE  q = [main |-> blank, hasErrors |-> no, errorsOnly |-> no,
                         pending |-> blank, errors |-> p.errors]
  BY Zenon
<1> QED
  OBVIOUS

\* A panel with every detail of an item in it, and what the next layout makes of a panel.
LEMMA PanelOperations ==
  ASSUME NEW p \in Panels, NEW item \in Item
  PROVE  /\ Clear(p) \in Panels /\ PanelLayout(Clear(p)).main = Blank
         /\ PanelLayout(Clear(p)).errors = NoView
         /\ PanelLayout(p) \in Panels /\ PanelLayout(PanelLayout(p)) = PanelLayout(p)
         /\ PopulateContent(p, item) \in Panels
         /\ RenderErrors(p, item) \in Panels /\ RenderReadError(p, item) \in Panels
<1> item \notin {Blank, NoView} /\ Blank \notin Item /\ NoView \notin Item /\ Blank # NoView
  BY ConsoleAssumption
<1>1. /\ p = [main |-> p.main, hasErrors |-> p.hasErrors, errorsOnly |-> p.errorsOnly,
              pending |-> p.pending, errors |-> p.errors]
      /\ p.main \in Item \cup {Blank} /\ p.hasErrors \in BOOLEAN /\ p.errorsOnly \in BOOLEAN
      /\ p.pending \in Item \cup {Blank} /\ p.errors \in Item \cup {Blank, NoView}
  BY DEF Panels
<1>2. Clear(p) = [main |-> Blank, hasErrors |-> FALSE, errorsOnly |-> FALSE,
                  pending |-> Blank, errors |-> p.errors]
  <2>1. p = [main |-> p.main, hasErrors |-> p.hasErrors, errorsOnly |-> p.errorsOnly,
             pending |-> p.pending, errors |-> p.errors]
    BY <1>1
  <2>2. QED
    BY <2>1, PanelEmptied, Zenon DEF Clear
<1>3. Clear(p) \in Panels
  BY <1>1, <1>2 DEF Panels
<1>4. PanelLayout(Clear(p)).main = Blank /\ PanelLayout(Clear(p)).errors = NoView
  BY <1>2 DEF PanelLayout
<1>5. PanelLayout(p) \in Panels /\ PanelLayout(PanelLayout(p)) = PanelLayout(p)
  <2>1. CASE ~p.hasErrors
    BY <1>1, <2>1 DEF PanelLayout, Panels
  <2>2. CASE p.hasErrors /\ p.pending # Blank
    BY <1>1, <2>2 DEF PanelLayout, Panels
  <2>3. CASE p.hasErrors /\ p.pending = Blank
    BY <1>1, <2>3 DEF PanelLayout, Panels
  <2>4. QED
    BY <1>1, <2>1, <2>2, <2>3
<1>6. PopulateContent(p, item) \in Panels
  BY <1>1 DEF PopulateContent, Panels
<1>7. RenderErrors(p, item) \in Panels
  BY <1>1 DEF RenderErrors, WriteErrors, Panels
<1>8. RenderReadError(p, item) \in Panels
  BY <1>1 DEF RenderReadError, WriteErrors, Panels
<1>9. QED
  BY <1>3, <1>4, <1>5, <1>6, <1>7, <1>8

\* Errors that are found are seen after the next layout.
LEMMA ErrorsSeen ==
  ASSUME NEW p \in Panels, NEW item \in Item,
         NEW q \in {RenderErrors(p, item), RenderReadError(p, item)}
  PROVE  PanelLayout(q).main = p.main /\ PanelLayout(q).errors = item
<1> item \notin {Blank, NoView}
  BY ConsoleAssumption
<1>1. p = [main |-> p.main, hasErrors |-> p.hasErrors, errorsOnly |-> p.errorsOnly,
           pending |-> p.pending, errors |-> p.errors]
  BY DEF Panels
<1>2. CASE p.errors = NoView
  BY <1>1, <1>2 DEF RenderErrors, RenderReadError, WriteErrors, PanelLayout
<1>3. CASE p.errors # NoView
  BY <1>1, <1>3 DEF RenderErrors, RenderReadError, WriteErrors, PanelLayout
<1>4. QED
  BY <1>2, <1>3

-----------------------------------------------------------------------------
(* The reports of a selection *)

PanelsOf(b) == {c \in DOMAIN b : c.run = "panel"}

LEMMA PanelsSum ==
  ASSUME NEW b, NEW c, IsABag(b), IsABag(c), NEW d, IsSum(d, b, c)
  PROVE  /\ PanelsOf(c) = {} => /\ PanelsOf(d) = PanelsOf(b)
                                /\ \A x \in PanelsOf(b) : d[x] = b[x]
         /\ PanelsOf(b) = {} => /\ PanelsOf(d) = PanelsOf(c)
                                /\ \A x \in PanelsOf(c) : d[x] = c[x]
<1>1. /\ IsABag(d) /\ DOMAIN d = DOMAIN b \cup DOMAIN c
      /\ \A x \in DOMAIN b : x \notin DOMAIN c => d[x] = b[x]
      /\ \A x \in DOMAIN c : x \notin DOMAIN b => d[x] = c[x]
  BY BagAdd
<1>2. QED
  BY <1>1, Zenon DEF PanelsOf

\* What a report adds to the calls that draw the panel.
LEMMA PanelCallsAre ==
  /\ PanelsOf(PanelCalls(<<>>)) = {}
  /\ \A x : LET c == [run |-> "panel", item |-> x]
            IN PanelsOf(PanelCalls(<<x>>)) = {c} /\ PanelCalls(<<x>>)[c] = 1
<1>1. PanelsOf(PanelCalls(<<>>)) = {}
  <2>1. PanelCalls(<<>>) = SetToBag({})
    BY DEF PanelCalls
  <2>2. DOMAIN PanelCalls(<<>>) = {}
    BY <2>1, BagOfSet
  <2>3. QED
    BY <2>2 DEF PanelsOf
<1>2. ASSUME NEW x, NEW c, c = [run |-> "panel", item |-> x]
      PROVE  PanelsOf(PanelCalls(<<x>>)) = {c} /\ PanelCalls(<<x>>)[c] = 1
  <2> DEFINE S == {[run |-> "panel", item |-> <<x>>[i]] : i \in DOMAIN <<x>>}
  <2>1. S = {c}
    BY <1>2
  <2>2. PanelCalls(<<x>>) = SetToBag(S)
    BY DEF PanelCalls
  <2> HIDE DEF S
  <2>3. DOMAIN PanelCalls(<<x>>) = {c} /\ PanelCalls(<<x>>)[c] = 1
    BY <2>1, <2>2, BagOfSet
  <2>4. c.run = "panel"
    BY <1>2
  <2>5. QED
    BY <2>3, <2>4 DEF PanelsOf
<1>3. QED
  BY <1>1, <1>2

LEMMA FlushCallsAre == IsABag(FlushCalls) /\ PanelsOf(FlushCalls) = {}
<1>1. FlushCalls \in {SetToBag({}), SetToBag({FlushCall})}
  BY DEF FlushCalls, FlushCall, EmptyBag
<1>2. IsABag(FlushCalls) /\ DOMAIN FlushCalls \subseteq {FlushCall}
  BY <1>1, BagOfSet
<1>3. QED
  BY <1>2 DEF PanelsOf, FlushCall

\* Neither the calls that draw the panel change nor the goroutines that have yet to report.
SameReports ==
  /\ Reporting' = Reporting /\ \A i \in Reporting : loads'[i].report = loads[i].report
  /\ Reports' = Reports /\ \A c \in Reports : calls'[c] = calls[c]

\* The selected item stays, and what is known of it.
SameSelection ==
  /\ SelectedItem(records') = SelectedItem(records)
  /\ SelectedItem(records) # None /\ SelectedItem(records)[1] = current' =>
       /\ current' = current
       /\ RecordOf(SelectedItem(records))' = RecordOf(SelectedItem(records))

LEMMA ReportsKept ==
  ASSUME ReportsInv, SameReports, SameSelection,
         PanelLayout(screen.panel)' = PanelLayout(screen.panel)
  PROVE  ReportsInv'
<1> DEFINE item == SelectedItem(records)
<1> DEFINE p == PanelLayout(screen.panel)
<1>1. item' = item /\ p' = p
  BY DEF SameSelection
<1>2. Shows(p, item) => Shows(p, item)'
  <2>1. CASE item = None
    BY <1>1, <2>1 DEF Shows
  <2>2. CASE item # None
    <3>1. item[1] = current' => current' = current /\ RecordOf(item)' = RecordOf(item)
      BY <2>2 DEF SameSelection
    <3> HIDE DEF item, p
    <3>2. QED
      BY <1>1, <2>2, <3>1 DEF Shows
  <2>3. QED
    BY <2>1, <2>2
<1>3. /\ \A i, j \in Reporting : i = j
      /\ \A i \in Reporting : loads[i].report = <<item>> /\ item # None
      /\ \A c, d \in Reports : c = d /\ calls[c] = 1
      /\ Reporting = {} => \A c \in Reports : c.item = item
      /\ Reporting = {} /\ Reports = {} => Shows(p, item)
  BY DEF ReportsInv
<1> HIDE DEF item, p
<1>4. /\ \A i, j \in Reporting' : i = j
      /\ \A i \in Reporting' : loads'[i].report = <<item'>> /\ item' # None
      /\ \A c, d \in Reports' : c = d /\ calls'[c] = 1
      /\ Reporting' = {} => \A c \in Reports' : c.item = item'
      /\ Reporting' = {} /\ Reports' = {} => Shows(p, item)'
  BY <1>1, <1>2, <1>3 DEF SameReports
<1>5. QED
  BY <1>4 DEF ReportsInv, item, p

\* A report that does not cross another is the only one under way.
LEMMA OneReport ==
  ASSUME Reporting' = {}, NEW x, x = SelectedItem(records'),
         Reports' = {[run |-> "panel", item |-> x]},
         calls'[[run |-> "panel", item |-> x]] = 1
  PROVE  ReportsInv'
<1> DEFINE c == [run |-> "panel", item |-> x]
<1>1. c.item = x /\ Reports' = {c} /\ calls'[c] = 1
  OBVIOUS
<1> HIDE DEF c
<1>2. QED
  BY <1>1 DEF ReportsInv

LEMMA DispatchReports ==
  ASSUME CallsInv, ReportsInv, NEW report \in Seq(Item \cup {None}), Dispatch(report), ~raced',
         UNCHANGED <<loads, current, screen>>, Tells(report, records, records')
  PROVE  ReportsInv'
<1> DEFINE b == calls (+) PanelCalls(report)
<1>1. IsABag(calls) /\ IsABag(PanelCalls(report)) /\ IsABag(FlushCalls)
  BY PanelCallsGood, FlushCallsAre DEF CallsInv, CallTypes
<1>2. IsSum(b, calls, PanelCalls(report))
  BY DEF (+), IsSum
<1> HIDE DEF b
<1>3. IsSum(calls', b, FlushCalls)
  BY DEF Dispatch, b, (+), IsSum
<1>4. IsABag(b)
  BY <1>1, <1>2, BagAdd
<1>5. Reports = PanelsOf(calls) /\ Reports' = PanelsOf(calls')
  BY DEF Reports, PanelsOf
<1>6. PanelsOf(calls') = PanelsOf(b) /\ \A x \in PanelsOf(b) : calls'[x] = b[x]
  BY <1>1, <1>3, <1>4, PanelsSum, FlushCallsAre
<1>7. CASE report = <<>>
  <2>1. PanelsOf(b) = PanelsOf(calls) /\ \A x \in PanelsOf(calls) : b[x] = calls[x]
    BY <1>1, <1>2, <1>7, PanelsSum, PanelCallsAre
  <2>2. SameReports
    BY <1>5, <1>6, <2>1 DEF SameReports, Reporting
  <2>3. SelectedItem(records') = SelectedItem(records)
    BY <1>7 DEF Tells
  <2>4. SameSelection
    BY <2>3 DEF SameSelection, RecordOf, FileOf
  <2>5. QED
    BY <2>2, <2>4, ReportsKept
<1>8. CASE report # <<>>
  <2> DEFINE x == SelectedItem(records')
  <2>1. report = <<x>>
    BY <1>8 DEF Tells
  <2>2. ~Crossing(DOMAIN loads)
    BY <1>8 DEF Dispatch
  <2>3. Reports = {} /\ Reporting' = {}
    BY <2>2 DEF Crossing, Reports, Reporting, BagToSet
  <2> HIDE DEF x
  <2>4. PanelsOf(b) = PanelsOf(PanelCalls(report))
        /\ \A y \in PanelsOf(b) : b[y] = PanelCalls(report)[y]
    <3>1. PanelsOf(calls) = {}
      BY <1>5, <2>3
    <3>2. QED
      BY <1>1, <1>2, <3>1, PanelsSum
  <2>5. PanelsOf(b) = {[run |-> "panel", item |-> x]} /\ b[[run |-> "panel", item |-> x]] = 1
    BY <2>1, <2>4, PanelCallsAre
  <2>6. Reports' = {[run |-> "panel", item |-> x]} /\ calls'[[run |-> "panel", item |-> x]] = 1
    BY <1>5, <1>6, <2>5
  <2>7. QED
    BY <2>3, <2>6, OneReport DEF x
<1>9. QED
  BY <1>7, <1>8

LEMMA SelectedRecord ==
  ASSUME ConsoleInv, SelectedItem(records) # None
  PROVE  /\ SelectedItem(records) \in Item /\ SelectedItem(records)[1] \in DOMAIN loads
         /\ SelectedItem(records)[1] \in 1..Len(loads) /\ Len(loads) \in Nat
         /\ RecordOf(SelectedItem(records)).type \in Kinds
<1> DEFINE item == SelectedItem(records)
<1>1. /\ ListTypes /\ LoadTypes /\ LoadInv /\ records \in ListType(Item, AnyText, Kinds)
      /\ ListInv(records)
  BY DEF ConsoleInv, TypeOK, ListTypes, ListsInv
<1>2. records.selected # 0
  <2>1. records.selected = 0 => Place(records) = 0
    BY <1>1, PlacesOfList
  <2>2. QED
    BY <2>1 DEF SelectedItem
<1>3. PICK k \in DOMAIN records.items : item = records.items[k].item /\ item \in Item
  BY <1>1, <1>2, SelectedIs
<1> HIDE DEF item
<1>4. item[1] \in DOMAIN loads /\ item[1] \in Nat \ {0} /\ item[2] \in Nat \ {0}
  BY <1>1, <1>3 DEF LoadInv, Item
<1> DEFINE l == loads[item[1]]
<1>5. InOrder(records.items, item[1], l) /\ BatchInv(item[1], l)
  BY <1>1, <1>4 DEF LoadInv, InList
<1>6. k \in ListedIn(records.items, item[1])
  BY <1>3 DEF ListedIn
<1>7. l.pos \in Nat /\ Len(l.batch) \in Nat /\ l.file \in Files /\ l.batch \in Seq(Item)
  BY <1>1, <1>4, LoadShape
<1>8. item[2] <= l.pos - Len(l.batch)
  BY <1>3, <1>5, <1>6 DEF InOrder
<1>9. l.pos <= Len(Contents[l.file])
  BY <1>5 DEF BatchInv
<1> HIDE DEF l
<1> DEFINE R == [text : AnyText, type : Kinds]
<1>10. Contents[l.file] \in Seq(R) /\ \A r \in R : r.type \in Kinds
  BY <1>7, ConsoleAssumption
<1> HIDE DEF R
<1>11. Len(Contents[l.file]) \in Nat /\ item[2] \in 1..Len(Contents[l.file])
  BY <1>4, <1>7, <1>8, <1>9, <1>10
<1>12. Contents[l.file][item[2]] \in R
  BY <1>10, <1>11
<1>13. RecordOf(item).type \in Kinds
  BY <1>10, <1>12 DEF RecordOf, FileOf, l
<1>14. item[1] \in 1..Len(loads) /\ Len(loads) \in Nat
  BY <1>1, <1>4, LoadShape
<1>15. QED
  BY <1>3, <1>4, <1>13, <1>14 DEF item

\* A load stays one of its file.
FilesStay == \A j \in DOMAIN loads : j \in DOMAIN loads' /\ loads'[j].file = loads[j].file

LEMMA SelectionStays ==
  ASSUME ConsoleInv, FilesStay, current' = current,
         SelectedItem(records') = SelectedItem(records)
  PROVE  SameSelection
<1> DEFINE item == SelectedItem(records)
<1>1. item' = item
  OBVIOUS
<1>2. ASSUME item # None PROVE RecordOf(item)' = RecordOf(item)
  <2>1. item[1] \in DOMAIN loads
    BY <1>2, SelectedRecord
  <2> HIDE DEF item
  <2>2. QED
    BY <1>1, <2>1 DEF RecordOf, FileOf, FilesStay
<1>3. QED
  BY <1>1, <1>2 DEF SameSelection

\* A load that neither has to report nor will has no part in the reports.
LEMMA NotReporting ==
  ASSUME NEW i \in DOMAIN loads, NEW r, OneLoad(i, r), r.file = loads[i].file
  PROVE  /\ FilesStay
         /\ loads[i].at # "report" /\ r.at # "report" =>
              /\ Reporting' = Reporting /\ \A j \in Reporting : loads'[j] = loads[j]
BY DEF OneLoad, FilesStay, Reporting

\* What becomes of a load in a step of its own.
LEMMA LoadGoes ==
  ASSUME LoadTypes, NEW i \in DOMAIN loads
  PROVE  /\ ReadRecord(i) => \E r : /\ OneLoad(i, r) /\ r.file = loads[i].file
                                    /\ loads[i].at = "read" /\ r.at \in {"read", "add", "done"}
         /\ AddElements(i) => \E r : /\ OneLoad(i, r) /\ r.file = loads[i].file
                                     /\ loads[i].at = "add"
                                     /\ r.at = AfterAdding(AddReport(records, records'))
                                     /\ r.report = AddReport(records, records')
         /\ ReportAdded(i) => \E r : /\ OneLoad(i, r) /\ r.file = loads[i].file
                                     /\ loads[i].at = "report" /\ r.at = "flush"
         /\ RequestFlush(i) => \E r : /\ OneLoad(i, r) /\ r.file = loads[i].file
                                      /\ loads[i].at = "flush" /\ r.at = "read"
<1> DEFINE l == loads[i]
<1>1. l \in LoadType /\ loads \in Seq(LoadType)
  BY LoadIs
<1>2. ASSUME NEW r, loads' = [loads EXCEPT ![i] = r] PROVE OneLoad(i, r)
  BY <1>2 DEF OneLoad
<1>3. ASSUME ReadRecord(i)
      PROVE  \E r : /\ OneLoad(i, r) /\ r.file = l.file
                    /\ l.at = "read" /\ r.at \in {"read", "add", "done"}
  <2>1. l.at = "read"
    BY <1>3 DEF ReadRecord
  <2>2. PICK r : loads' = [loads EXCEPT ![i] = r] /\ r.file = l.file /\ r.at \in {"read", "add", "done"}
    <3>1. ASSUME NEW at \in {"add", "done"}, Goto(i, at),
                 NEW r, r = [l EXCEPT !.at = at]
          PROVE  loads' = [loads EXCEPT ![i] = r] /\ r.file = l.file /\ r.at = at
      BY <1>1, <3>1 DEF Goto, LoadType
    <3>2. ASSUME NEW r, r = [l EXCEPT !.at = "done", !.batch = <<>>]
          PROVE  r.file = l.file /\ r.at = "done"
      BY <1>1, <3>2 DEF LoadType
    <3> DEFINE batch == Append(l.batch, <<i, l.pos + 1>>)
    <3> DEFINE at == IF Len(batch) >= recordBatchSize THEN "add" ELSE "read"
    <3>3. ASSUME NEW r, r = [l EXCEPT !.pos = l.pos + 1, !.batch = batch, !.at = at]
          PROVE  r.file = l.file /\ r.at \in {"add", "read"}
      <4> HIDE DEF batch
      <4>1. QED
        BY <1>1, <3>3 DEF LoadType
    <3>4. \/ \E at1 \in {"add", "done"} : Goto(i, at1)
          \/ loads' = [loads EXCEPT ![i] = [l EXCEPT !.at = "done", !.batch = <<>>]]
          \/ loads' = [loads EXCEPT ![i] = [l EXCEPT !.pos = l.pos + 1, !.batch = batch, !.at = at]]
      BY <1>3 DEF ReadRecord
    <3> HIDE DEF l, batch, at
    <3>5. QED
      BY <3>1, <3>2, <3>3, <3>4
  <2>3. OneLoad(i, r)
    BY <1>2, <2>2
  <2>4. QED
    BY <2>1, <2>2, <2>3
<1>4. ASSUME AddElements(i)
      PROVE  \E r : /\ OneLoad(i, r) /\ r.file = l.file /\ l.at = "add"
                    /\ r.at = AfterAdding(AddReport(records, records'))
                    /\ r.report = AddReport(records, records')
  <2> DEFINE report == AddReport(records, records')
  <2> DEFINE at == AfterAdding(report)
  <2> DEFINE r == [l EXCEPT !.batch = <<>>, !.report = report, !.at = at]
  <2>1. l.at = "add" /\ loads' = [loads EXCEPT ![i] = r]
    BY <1>4 DEF AddElements
  <2> HIDE DEF at, report
  <2>2. r.file = l.file /\ r.at = at /\ r.report = report
    BY <1>1 DEF LoadType
  <2>3. OneLoad(i, r)
    BY <1>2, <2>1
  <2> HIDE DEF r
  <2>4. QED
    BY <2>1, <2>2, <2>3 DEF at, report
<1>5. ASSUME ReportAdded(i)
      PROVE  \E r : OneLoad(i, r) /\ r.file = l.file /\ l.at = "report" /\ r.at = "flush"
  <2> DEFINE r == [l EXCEPT !.at = "flush", !.report = <<>>]
  <2>1. l.at = "report" /\ loads' = [loads EXCEPT ![i] = r]
    BY <1>5 DEF ReportAdded
  <2>2. r.file = l.file /\ r.at = "flush"
    BY <1>1 DEF LoadType
  <2>3. OneLoad(i, r)
    BY <1>2, <2>1
  <2> HIDE DEF r
  <2>4. QED
    BY <2>1, <2>2, <2>3
<1>6. ASSUME RequestFlush(i)
      PROVE  \E r : OneLoad(i, r) /\ r.file = l.file /\ l.at = "flush" /\ r.at = "read"
  <2> DEFINE r == [l EXCEPT !.at = "read"]
  <2>1. l.at = "flush" /\ loads' = [loads EXCEPT ![i] = r]
    BY <1>6 DEF RequestFlush, Goto
  <2>2. r.file = l.file /\ r.at = "read"
    BY <1>1 DEF LoadType
  <2>3. OneLoad(i, r)
    BY <1>2, <2>1
  <2> HIDE DEF r
  <2>4. QED
    BY <2>1, <2>2, <2>3
<1>7. QED
  BY <1>3, <1>4, <1>5, <1>6

\* What the main loop does to the loads.
LEMMA LoadsStay ==
  ASSUME ConsoleInv, [Next]_vars, ~\E i \in DOMAIN loads : Load(i)
  PROVE  /\ FilesStay /\ Reporting' = Reporting
         /\ \A i \in Reporting : loads'[i].report = loads[i].report
         /\ current' = current \/ current' = 0 \/ current' = Len(loads) + 1
         /\ current' = current \/ current' = 0 \/ file' = loads'[current'].file
         /\ current' = current => file' = file
<1>0. LoadTypes /\ current \in 0..Len(loads) /\ (gui.at = "start" => current = 0)
  BY DEF ConsoleInv, TypeOK, LoadTypes, LoadInv
<1>1. ASSUME loads' = loads PROVE /\ FilesStay /\ Reporting' = Reporting
                                  /\ \A i \in Reporting : loads'[i].report = loads[i].report
  BY <1>1 DEF FilesStay, Reporting
<1>2. CASE UNCHANGED loadVars
  BY <1>1, <1>2 DEF loadVars
<1>3. CASE CancelLoad
  <2>1. /\ loads' = [j \in DOMAIN loads |-> IF j = current
                       THEN [loads[j] EXCEPT !.cancelled = TRUE] ELSE loads[j]]
        /\ current' = 0 /\ file' = file
    BY <1>3 DEF CancelLoad
  <2>2. \A j \in DOMAIN loads : loads[j] \in LoadType
    BY <1>0, LoadIs
  <2>3. ASSUME NEW j \in DOMAIN loads
        PROVE  /\ loads'[j].file = loads[j].file /\ loads'[j].at = loads[j].at
               /\ loads'[j].report = loads[j].report
    BY <2>1, <2>2 DEF LoadType
  <2>4. DOMAIN loads' = DOMAIN loads
    BY <2>1
  <2>5. QED
    BY <2>1, <2>3, <2>4 DEF FilesStay, Reporting
<1>4. CASE StartLoad /\ gui.item # None
  <2>1. PICK opened \in BOOLEAN :
          loads' = Append(loads, [file |-> gui.item, at |-> IF opened THEN "read" ELSE "failed",
                                  pos |-> 0, batch |-> <<>>, report |-> <<>>,
                                  cancelled |-> FALSE])
    BY <1>4 DEF StartLoad
  <2> DEFINE r == [file |-> gui.item, at |-> IF opened THEN "read" ELSE "failed",
                   pos |-> 0, batch |-> <<>>, report |-> <<>>, cancelled |-> FALSE]
  <2>2. r.at \in {"read", "failed"} /\ r.file = gui.item
    OBVIOUS
  <2>3. loads' = Append(loads, r) /\ current' = Len(loads') /\ file' = gui.item
    BY <1>4, <2>1 DEF StartLoad
  <2> HIDE DEF r
  <2>4. loads \in Seq(LoadType)
    BY <1>0 DEF LoadTypes
  <2>5. /\ Len(loads') = Len(loads) + 1 /\ Len(loads) \in Nat
        /\ DOMAIN loads = 1..Len(loads) /\ DOMAIN loads' = 1..(Len(loads) + 1)
        /\ loads'[Len(loads) + 1] = r /\ \A j \in DOMAIN loads : loads'[j] = loads[j]
    BY <2>3, <2>4
  <2>6. DOMAIN loads' = DOMAIN loads \cup {Len(loads) + 1}
    BY <2>5
  <2>7. FilesStay
    BY <2>5, <2>6 DEF FilesStay
  <2>8. Reporting' = Reporting /\ \A i \in Reporting : loads'[i].report = loads[i].report
    BY <2>2, <2>5, <2>6 DEF Reporting
  <2>9. current' = Len(loads) + 1 /\ current' # current /\ file' = loads'[current'].file
    BY <1>0, <2>2, <2>3, <2>5
  <2>10. QED
    BY <2>7, <2>8, <2>9
<1>5. CASE MainLoop /\ ~CancelLoad /\ ~StartLoad
  <2>1. UNCHANGED loadVars
    <3>1. CASE ShowRecord
      BY <3>1, Zenon DEF ShowRecord
    <3>2. CASE ToggleLineEndings
      BY <3>2, Zenon DEF ToggleLineEndings
    <3>3. QED
      BY <1>5, <3>1, <3>2 DEF MainLoop, PopulateFiles, ClearRecords, MoveFile, SearchFiles,
         MoveRecord, SearchRecords, ToggleRecordType, Rebuild, ChangeView, Layout, TakeFlush,
         CopyList, DrawList
  <2>2. QED
    BY <1>2, <2>1
<1>6. QED
  <2>1. StartLoad /\ gui.item = None => UNCHANGED loadVars
    BY DEF StartLoad
  <2>2. UNCHANGED vars => UNCHANGED loadVars
    BY DEF vars
  <2>3. QED
    BY <1>2, <1>3, <1>4, <1>5, <2>1, <2>2 DEF Next, MainLoop

LEMMA RacedBefore == ASSUME [Next]_vars, ~raced' PROVE ~raced
<1>1. CASE UNCHANGED vars
  BY <1>1 DEF vars
<1>2. ASSUME NEW report, Dispatch(report) PROVE ~raced
  BY <1>2 DEF Dispatch
<1>3. CASE MoveRecord \/ SearchRecords \/ ToggleRecordType \/ ClearRecords
  BY <1>2, <1>3 DEF MoveRecord, SearchRecords, ToggleRecordType, Rebuild, ClearRecords
<1>4. CASE ShowRecord \/ ToggleLineEndings
  BY <1>4, Zenon DEF ShowRecord, ToggleLineEndings
<1>5. ASSUME NEW i \in DOMAIN loads, Load(i) PROVE ~raced
  BY <1>5 DEF Load, ReadRecord, AddElements, ReportAdded, RequestFlush
<1>6. CASE \/ PopulateFiles \/ CancelLoad \/ StartLoad \/ MoveFile \/ SearchFiles
           \/ ChangeView \/ Layout \/ TakeFlush \/ CopyList \/ DrawList
  BY <1>6 DEF PopulateFiles, CancelLoad, StartLoad, MoveFile, SearchFiles, ChangeView, Layout,
     TakeFlush, CopyList, DrawList
<1>7. QED
  BY <1>1, <1>3, <1>4, <1>5, <1>6 DEF Next, MainLoop

\* What the panel shows of an item that was looked for.
LEMMA DetailsArePanels ==
  ASSUME NEW p \in Panels, NEW item \in Item, NEW f, NEW q \in Details(p, item, f)
  PROVE  q \in Panels
<1> DEFINE c == Clear(p)
<1> DEFINE r == PopulateContent(c, item)
<1>1. c \in Panels
  BY PanelOperations
<1>2. q \in {r, RenderErrors(r, item), RenderErrors(c, item), RenderReadError(c, item)}
  BY DEF Details
<1> HIDE DEF c, r
<1>3. r \in Panels
  BY <1>1, PanelOperations DEF r
<1>4. QED
  BY <1>1, <1>2, <1>3, PanelOperations

LEMMA DetailsShow ==
  ASSUME NEW p \in Panels, NEW item \in Item, RecordOf(item).type \in Kinds,
         NEW q \in Details(p, item, FileOf(item))
  PROVE  /\ PanelLayout(q).main = IF RecordOf(item).type = "bad" THEN Blank ELSE item
         /\ PanelLayout(q).errors = IF RecordOf(item).type = "plain" THEN NoView ELSE item
<1> DEFINE c == Clear(p)
<1> DEFINE r == PopulateContent(c, item)
<1> DEFINE own == RecordOf(item).type
<1>1. c \in Panels /\ c.main = Blank /\ c.hasErrors = FALSE
  <2>1. c \in Panels
    BY PanelOperations
  <2>2. c.main = Blank /\ c.hasErrors = FALSE
    BY DEF Clear, Panels
  <2>3. QED
    BY <2>1, <2>2
<1>2. r \in Panels
  BY <1>1, PanelOperations
<1>3. r.main = item /\ r.hasErrors = FALSE
  <2> HIDE DEF c
  <2>1. QED
    BY <1>1 DEF PopulateContent, Panels
<1>4. /\ own = "bad" => q = RenderReadError(c, item)
      /\ own = "invalid" => q = RenderErrors(r, item)
      /\ own \notin {"bad", "invalid"} => q = r
  BY DEF Details
<1>5. own \in {"plain", "invalid", "bad"}
  BY DEF Kinds
<1> HIDE DEF c, r, own
<1>6. CASE own = "bad"
  <2>1. PanelLayout(q).main = c.main /\ PanelLayout(q).errors = item
    BY <1>1, <1>4, <1>6, ErrorsSeen
  <2>2. QED
    BY <1>1, <1>6, <2>1 DEF own
<1>7. CASE own = "invalid"
  <2>1. PanelLayout(q).main = r.main /\ PanelLayout(q).errors = item
    BY <1>2, <1>4, <1>7, ErrorsSeen
  <2>2. QED
    BY <1>3, <1>7, <2>1 DEF own
<1>8. CASE own = "plain"
  <2>1. q = r
    BY <1>4, <1>8
  <2>2. PanelLayout(q).main = item /\ PanelLayout(q).errors = NoView
    BY <1>2, <1>3, <2>1 DEF PanelLayout, Panels
  <2>3. QED
    BY <1>8, <2>2 DEF own
<1>9. QED
  BY <1>5, <1>6, <1>7, <1>8

LEMMA LoadReports ==
  ASSUME ConsoleInv, CallsInv, SelectionInv, ReportsInv, NEW i \in DOMAIN loads, Load(i), ~raced'
  PROVE  ReportsInv'
<1> DEFINE item == SelectedItem(records)
<1>0. /\ LoadTypes /\ ListTypes /\ IsABag(calls)
      /\ records \in ListType(Item, AnyText, Kinds) /\ ListInv(records) /\ Selects(records)
  BY DEF ConsoleInv, TypeOK, ListTypes, ListsInv, CallTypes, SelectionInv, Selects
<1>1. UNCHANGED <<current, screen>>
  BY DEF Load, ReadRecord, AddElements, ReportAdded, RequestFlush, viewVars
<1>2. ASSUME NEW r, OneLoad(i, r), r.file = loads[i].file, loads[i].at # "report",
             r.at # "report", Reports' = Reports, \A c \in Reports : calls'[c] = calls[c],
             SelectedItem(records') = SelectedItem(records)
      PROVE  ReportsInv'
  <2>1. FilesStay /\ Reporting' = Reporting /\ \A j \in Reporting : loads'[j] = loads[j]
    BY <1>2, NotReporting
  <2>2. SameReports
    BY <1>2, <2>1 DEF SameReports
  <2>3. SameSelection
    BY <1>1, <1>2, <2>1, SelectionStays
  <2>4. QED
    BY <1>1, <2>2, <2>3, ReportsKept
<1>3. ASSUME calls' = calls PROVE Reports' = Reports /\ \A c \in Reports : calls'[c] = calls[c]
  BY <1>3 DEF Reports
<1>4. CASE ReadRecord(i)
  <2>1. PICK r : /\ OneLoad(i, r) /\ r.file = loads[i].file
                 /\ loads[i].at = "read" /\ r.at \in {"read", "add", "done"}
    BY <1>0, <1>4, LoadGoes
  <2>2. records' = records /\ calls' = calls
    BY <1>4 DEF ReadRecord, listVars
  <2>3. QED
    BY <1>2, <1>3, <2>1, <2>2
<1>5. CASE AddElements(i)
  <2> DEFINE e == EntriesOf(loads[i].batch)
  <2> DEFINE report == AddReport(records, records')
  <2>1. PICK r : /\ OneLoad(i, r) /\ r.file = loads[i].file /\ loads[i].at = "add"
                 /\ r.at = AfterAdding(report) /\ r.report = report
    BY <1>0, <1>5, LoadGoes
  <2>2. records' = Added(records, e) /\ calls' = calls
    BY <1>5 DEF AddElements
  <2>3. e \in Seq([item : Item, search : AnyText, type : Kinds])
    <3>1. BatchInv(i, loads[i])
      BY DEF ConsoleInv, LoadInv
    <3>2. QED
      BY <1>0, <3>1, EntriesGood
  <2> HIDE DEF e
  <2>4. \/ report = <<>> /\ SelectedItem(records') = item
        \/ /\ report = <<SelectedItem(records')>>
           /\ SelectedItem(records') \in Item /\ item = None
    <3>1. \A r1 : r1 = Added(records, e) =>
            \/ AddReport(records, r1) = <<>> /\ SelectedItem(r1) = SelectedItem(records)
            \/ /\ AddReport(records, r1) = <<SelectedItem(r1)>>
               /\ SelectedItem(r1) \in Item /\ SelectedItem(records) = None
      BY <1>0, <2>3, AddedSelects
    <3>2. QED
      BY <2>2, <3>1, Zenon
  <2>5. CASE report = <<>> /\ SelectedItem(records') = item
    <3>1. r.at = "flush"
      BY <2>1, <2>5 DEF AfterAdding
    <3>2. QED
      BY <1>2, <1>3, <2>1, <2>2, <2>5, <3>1
  <2>6. CASE /\ report = <<SelectedItem(records')>>
             /\ SelectedItem(records') \in Item /\ item = None
    <3>1. r.at = "report"
      BY <2>1, <2>6 DEF AfterAdding
    <3>2. Reporting = {}
      BY <2>6 DEF ReportsInv
    <3>3. Reporting' = {i}
      BY <2>1, <3>1, <3>2 DEF OneLoad, Reporting
    <3>4. loads'[i].report = <<SelectedItem(records')>> /\ SelectedItem(records') # None
      BY <2>1, <2>6, ConsoleAssumption DEF OneLoad
    <3>5. \A c, d \in Reports' : c = d /\ calls'[c] = 1
      BY <2>2 DEF ReportsInv, Reports
    <3>6. QED
      BY <3>3, <3>4, <3>5 DEF ReportsInv
  <2>7. QED
    BY <2>4, <2>5, <2>6
<1>6. CASE ReportAdded(i)
  <2>1. PICK r : /\ OneLoad(i, r) /\ r.file = loads[i].file
                 /\ loads[i].at = "report" /\ r.at = "flush"
    BY <1>0, <1>6, LoadGoes
  <2>2. /\ records' = records /\ calls' = calls (+) PanelCalls(loads[i].report)
        /\ ~Crossing(DOMAIN loads \ {i})
    BY <1>6 DEF ReportAdded, listVars
  <2>3. loads[i].report = <<item>>
    BY <2>1 DEF ReportsInv, Reporting
  <2>4. Reports = {} /\ Reporting' = {}
    BY <2>1, <2>2 DEF Crossing, Reports, Reporting, BagToSet, OneLoad
  <2> HIDE DEF item
  <2>5. IsSum(calls', calls, PanelCalls(<<item>>))
    BY <2>2, <2>3 DEF IsSum, (+)
  <2>6. IsABag(PanelCalls(<<item>>))
    <3>1. loads[i].report \in Seq(Item \cup {None})
      BY <1>0, LoadShape
    <3>2. QED
      BY <2>3, <3>1, PanelCallsGood
  <2>7. PanelsOf(calls) = {}
    BY <2>4 DEF Reports, PanelsOf
  <2>8. /\ PanelsOf(calls') = PanelsOf(PanelCalls(<<item>>))
        /\ \A y \in PanelsOf(PanelCalls(<<item>>)) : calls'[y] = PanelCalls(<<item>>)[y]
    BY <1>0, <2>5, <2>6, <2>7, PanelsSum
  <2>9. /\ PanelsOf(calls') = {[run |-> "panel", item |-> item]}
        /\ calls'[[run |-> "panel", item |-> item]] = 1
    BY <2>8, PanelCallsAre
  <2>10. Reports' = {[run |-> "panel", item |-> item]}
    BY <2>9 DEF Reports, PanelsOf
  <2>11. item = SelectedItem(records')
    BY <2>2 DEF item
  <2>12. QED
    BY <2>4, <2>9, <2>10, <2>11, OneReport
<1>7. CASE RequestFlush(i)
  <2>1. PICK r : /\ OneLoad(i, r) /\ r.file = loads[i].file
                 /\ loads[i].at = "flush" /\ r.at = "read"
    BY <1>0, <1>7, LoadGoes
  <2>2. records' = records /\ calls' = calls (+) FlushCalls
    BY <1>7 DEF RequestFlush
  <2>3. IsSum(calls', calls, FlushCalls)
    BY <2>2 DEF IsSum, (+)
  <2>4. PanelsOf(calls') = PanelsOf(calls) /\ \A x \in PanelsOf(calls) : calls'[x] = calls[x]
    BY <1>0, <2>3, FlushCallsAre, PanelsSum
  <2>5. Reports' = Reports /\ \A c \in Reports : calls'[c] = calls[c]
    BY <2>4 DEF Reports, PanelsOf
  <2>6. QED
    BY <1>2, <2>1, <2>2, <2>5
<1>8. QED
  BY <1>4, <1>5, <1>6, <1>7 DEF Load

\* The file that is selected is that of the current load.
FileInv == current # 0 => file = loads[current].file

LEMMA FileStep ==
  ASSUME ConsoleInv, FileInv, [Next]_vars
  PROVE  FileInv'
<1>0. LoadTypes /\ current \in 0..Len(loads) /\ Len(loads) \in Nat /\ DOMAIN loads = 1..Len(loads)
  BY DEF ConsoleInv, TypeOK, LoadTypes
<1>1. ASSUME FilesStay, current' = current, file' = file PROVE FileInv'
  BY <1>0, <1>1 DEF FileInv, FilesStay
<1>2. ASSUME NEW i \in DOMAIN loads, Load(i) PROVE FileInv'
  <2>1. current' = current /\ file' = file
    BY <1>2 DEF Load, ReadRecord, AddElements, ReportAdded, RequestFlush
  <2>2. \E r : OneLoad(i, r) /\ r.file = loads[i].file
    BY <1>0, <1>2, LoadGoes, Zenon DEF Load
  <2>3. QED
    BY <1>1, <2>1, <2>2, NotReporting
<1>3. CASE ~\E i \in DOMAIN loads : Load(i)
  <2>1. /\ FilesStay
        /\ current' = current \/ current' = 0 \/ file' = loads'[current'].file
        /\ current' = current => file' = file
    BY <1>3, LoadsStay
  <2>2. QED
    BY <1>1, <2>1 DEF FileInv
<1>4. QED
  BY <1>2, <1>3

-----------------------------------------------------------------------------
(* The panel *)

\* The panel shows the selected item once its details, or nothing, are put there.
LEMMA PanelShown ==
  ASSUME ConsoleInv, FileInv, NEW p \in Panels, NEW item, item = SelectedItem(records),
         NEW q, IF item = None THEN q = Clear(p) ELSE q \in Details(p, item, file)
  PROVE  Shows(PanelLayout(q), item)
<1>1. CASE item = None
  <2>1. <<1, 1>> \in Item
    BY DEF Item
  <2>2. PanelLayout(Clear(p)).main = Blank /\ PanelLayout(Clear(p)).errors = NoView
    BY <2>1, PanelOperations
  <2>3. QED
    BY <1>1, <2>2 DEF Shows
<1>2. CASE item # None
  <2>1. /\ item \in Item /\ item[1] \in 1..Len(loads) /\ Len(loads) \in Nat
        /\ RecordOf(item).type \in Kinds
    BY <1>2, SelectedRecord
  <2>2. ASSUME item[1] = current
        PROVE  /\ PanelLayout(q).main = IF RecordOf(item).type = "bad" THEN Blank ELSE item
               /\ PanelLayout(q).errors = IF RecordOf(item).type = "plain" THEN NoView ELSE item
    <3>1. file = FileOf(item)
      BY <2>1, <2>2 DEF FileInv, FileOf
    <3>2. q \in Details(p, item, FileOf(item))
      BY <1>2, <3>1
    <3>3. QED
      BY <2>1, <3>2, DetailsShow
  <2>3. QED
    BY <1>2, <2>2 DEF Shows
<1>3. QED
  BY <1>1, <1>2

\* A step that only takes calls and changes the panel.
LEMMA PanelReports ==
  ASSUME ReportsInv, UNCHANGED <<records, loads, current>>,
         Reports' \subseteq Reports, \A c \in Reports' : calls'[c] = calls[c],
         Reporting = {} /\ Reports' = {} =>
           Shows(PanelLayout(screen'.panel), SelectedItem(records))
  PROVE  ReportsInv'
<1> DEFINE item == SelectedItem(records)
<1> DEFINE p == PanelLayout(screen.panel)
<1>1. item' = item /\ Reporting' = Reporting
      /\ \A i \in Reporting : loads'[i].report = loads[i].report
  BY DEF Reporting
<1>2. Shows(PanelLayout(screen'.panel), item) => Shows(p, item)'
  BY DEF Shows, RecordOf, FileOf
<1>3. /\ \A i, j \in Reporting : i = j
      /\ \A i \in Reporting : loads[i].report = <<item>> /\ item # None
      /\ \A c, d \in Reports : c = d /\ calls[c] = 1
      /\ Reporting = {} => \A c \in Reports : c.item = item
  BY DEF ReportsInv
<1> HIDE DEF item, p
<1>4. /\ \A i, j \in Reporting' : i = j
      /\ \A i \in Reporting' : loads'[i].report = <<item'>> /\ item' # None
      /\ \A c, d \in Reports' : c = d /\ calls'[c] = 1
      /\ Reporting' = {} => \A c \in Reports' : c.item = item'
    BY <1>1, <1>3
<1>5. Reporting' = {} /\ Reports' = {} => Shows(p, item)'
  BY <1>1, <1>2 DEF item
<1>6. QED
  BY <1>4, <1>5 DEF ReportsInv, item, p

\* The panel after a step.
PanelStays ==
  \/ screen'.panel = screen.panel
  \/ screen'.panel = PanelLayout(screen.panel)

LEMMA ReportsStep ==
  ASSUME ConsoleInv, SelectionInv, ReportsInv, FileInv, screen.panel \in Panels,
         Focused(screen), [Next]_vars, ~raced'
  PROVE  ReportsInv'
<1> DEFINE item == SelectedItem(records)
<1>0. /\ CallsInv /\ IsABag(calls) /\ ListTypes /\ ListsInv /\ LoadTypes
      /\ records \in ListType(Item, AnyText, Kinds) /\ ListInv(records)
      /\ records' \in ListType(Item, AnyText, Kinds) /\ ListInv(records')
  BY ListsStep DEF ConsoleInv, TypeOK, ListTypes, ListsInv, CallsInv, CallTypes
<1>1. CASE \E i \in DOMAIN loads : Load(i)
  BY <1>0, <1>1, LoadReports
<1>2. ASSUME ~\E i \in DOMAIN loads : Load(i), records' = records, PanelStays,
             Reports' = Reports, \A c \in Reports : calls'[c] = calls[c]
      PROVE  ReportsInv'
  <2>1. /\ FilesStay /\ Reporting' = Reporting
        /\ \A i \in Reporting : loads'[i].report = loads[i].report
        /\ current' = current \/ current' = 0 \/ current' = Len(loads) + 1
    BY <1>2, LoadsStay
  <2>2. SameReports
    BY <1>2, <2>1 DEF SameReports
  <2>3. SameSelection
    <3>1. CASE current' = current
      BY <1>2, <2>1, <3>1, SelectionStays
    <3>2. CASE current' = 0 \/ current' = Len(loads) + 1
      <4>1. item # None => item[1] \in 1..Len(loads) /\ Len(loads) \in Nat
        BY SelectedRecord
      <4>2. item' = item
        BY <1>2
      <4> HIDE DEF item
      <4>3. item # None => item[1] # current'
        BY <3>2, <4>1
      <4>4. QED
        BY <4>2, <4>3 DEF SameSelection, item
    <3>3. QED
      BY <2>1, <3>1, <3>2
  <2>4. PanelLayout(screen.panel)' = PanelLayout(screen.panel)
    <3>1. <<1, 1>> \in Item
      BY DEF Item
    <3>2. PanelLayout(PanelLayout(screen.panel)) = PanelLayout(screen.panel)
      BY <3>1, PanelOperations
    <3>3. QED
      BY <1>2, <3>2 DEF PanelStays
  <2>5. QED
    BY <2>2, <2>3, <2>4, ReportsKept
<1>3. ASSUME calls' = calls PROVE Reports' = Reports /\ \A c \in Reports : calls'[c] = calls[c]
  BY <1>3 DEF Reports
<1>4. ASSUME NEW p, screen' = [screen EXCEPT !.panel = p] PROVE screen'.panel = p
  BY <1>4 DEF Focused
<1>5. CASE /\ ~\E i \in DOMAIN loads : Load(i)
           /\ \/ PopulateFiles \/ CancelLoad \/ StartLoad \/ MoveFile \/ SearchFiles
              \/ CopyList \/ UNCHANGED vars
  <2>1. records' = records /\ calls' = calls /\ screen' = screen
    BY <1>5 DEF PopulateFiles, CancelLoad, StartLoad, MoveFile, SearchFiles, CopyList, vars,
       listVars, viewVars
  <2>2. QED
    BY <1>2, <1>3, <1>5, <2>1 DEF PanelStays
<1>6. CASE /\ ~\E i \in DOMAIN loads : Load(i)
           /\ ChangeView \/ Layout \/ DrawList
  <2>1. calls' = calls
    BY <1>6 DEF ChangeView, Layout, DrawList
  <2>2. PanelStays
    <3>1. CASE ChangeView
      BY <3>1 DEF ChangeView, NextView, PrevView, Focused, PanelStays
    <3>2. CASE Layout
      BY <3>2 DEF Layout, ScreenLayout, PanelStays
    <3>3. CASE DrawList
      BY <3>3 DEF DrawList, PanelStays
    <3>4. QED
      BY <1>6, <3>1, <3>2, <3>3
  <2>3. records' = records
    <3>1. CASE DrawList
      <4>1. gui.drawing.mark = records.selected
        BY <3>1 DEF DrawList, SelectionInv
      <4>2. records' = [records EXCEPT !.selected = records.selected]
        BY <3>1, <4>1 DEF DrawList
      <4>3. QED
        BY <1>0, <4>2 DEF ListType
    <3>2. QED
      BY <1>6, <3>1 DEF ChangeView, Layout, listVars
  <2>4. QED
    BY <1>2, <1>3, <1>6, <2>1, <2>2, <2>3
<1>7. CASE TakeFlush /\ ~\E i \in DOMAIN loads : Load(i)
  <2>1. /\ IsRest(calls', calls, FlushCall) /\ FlushCall \in DOMAIN calls
        /\ records' = records /\ screen' = screen
    BY <1>7 DEF TakeFlush, BagIn, BagToSet, FlushCall, IsRest, (-), viewVars
  <2>2. /\ DOMAIN calls' \subseteq DOMAIN calls
        /\ \A x \in DOMAIN calls : x # FlushCall => x \in DOMAIN calls' /\ calls'[x] = calls[x]
    BY <1>0, <2>1, BagTake
  <2>3. \A c \in Reports : c # FlushCall
    BY DEF Reports, FlushCall
  <2>4. Reports' = Reports /\ \A c \in Reports : calls'[c] = calls[c]
    BY <2>2, <2>3 DEF Reports
  <2>5. QED
    BY <1>2, <1>7, <2>1, <2>4 DEF PanelStays
<1>8. ASSUME NEW report \in Seq(Item \cup {None}), Dispatch(report),
             UNCHANGED <<loadVars, screen>>, Tells(report, records, records')
      PROVE  ReportsInv'
  <2>1. UNCHANGED <<loads, current, screen>>
    BY <1>8 DEF loadVars
  <2>2. QED
    BY <1>0, <1>8, <2>1, DispatchReports
<1>9. CASE ClearRecords
  <2>1. Dispatch(<<None>>) /\ UNCHANGED <<loadVars, screen>> /\ records' = Emptied(records)
    BY <1>9 DEF ClearRecords, viewVars
  <2>2. SelectedItem(records') = None
    <3>1. records'.selected = 0
      BY <1>0, <2>1, EmptiedGood
    <3>2. Place(records') = 0
      BY <1>0, <3>1, PlacesOfList
    <3>3. QED
      BY <3>2 DEF SelectedItem
  <2>3. Tells(<<None>>, records, records') /\ <<None>> \in Seq(Item \cup {None})
    BY <2>2 DEF Tells
  <2>4. QED
    BY <1>8, <2>1, <2>3
<1>10. CASE MoveRecord /\ ~\E i \in DOMAIN loads : Load(i)
  <2>1. PICK k \in 1..Len(records.items) :
          /\ records' = Moved(records, k)
          /\ IF records.visible # <<>> /\ records' = records
             THEN UNCHANGED <<calls, queued, raced>>
             ELSE Dispatch(MoveReport(records, records'))
    BY <1>10 DEF MoveRecord
  <2>2. UNCHANGED <<loadVars, screen>>
    BY <1>10 DEF MoveRecord
  <2>3. CASE records' = records /\ calls' = calls
    BY <1>2, <1>3, <1>10, <2>2, <2>3 DEF PanelStays
  <2>4. CASE Dispatch(MoveReport(records, records'))
    <3>1. MoveReport(records, records') \in Seq(Item \cup {None})
      BY <1>0, ReportsGood
    <3>2. Tells(MoveReport(records, records'), records, records')
      <4>1. k \in Nat
        OBVIOUS
      <4>2. \A r : r = Moved(records, k) => Tells(MoveReport(records, r), records, r)
        BY <1>0, <4>1, MovedSelects
      <4>3. QED
        BY <2>1, <4>2, Zenon
    <3>3. QED
      BY <1>8, <2>2, <2>4, <3>1, <3>2
  <2>5. QED
    BY <2>1, <2>3, <2>4
<1>11. ASSUME NEW f \in SUBSET AnyText, NEW t \in SUBSET Kinds, Rebuild(f, t),
              screen' = screen
       PROVE  ReportsInv'
  <2>1. records' = Rebuilt(records, f, t) /\ Dispatch(RebuildReport(records, records'))
        /\ UNCHANGED loadVars
    BY <1>11 DEF Rebuild
  <2>2. RebuildReport(records, records') \in Seq(Item \cup {None})
    BY <1>0, ReportsGood
  <2>3. \A r : r = Rebuilt(records, f, t) => Tells(RebuildReport(records, r), records, r)
    BY <1>0, RebuiltSelects
  <2>4. Tells(RebuildReport(records, records'), records, records')
    BY <2>1, <2>3, Zenon
  <2>5. QED
    BY <1>8, <1>11, <2>1, <2>2, <2>4
<1>12. CASE SearchRecords \/ ToggleRecordType
  <2>1. records.filter \in SUBSET AnyText /\ records.types \in SUBSET Kinds
    BY <1>0, ListShape
  <2>2. Filters \subseteq SUBSET AnyText /\ Types \subseteq SUBSET Kinds
    BY ConsoleAssumption
  <2>3. \E f \in SUBSET AnyText, t \in SUBSET Kinds : Rebuild(f, t)
    BY <1>12, <2>1, <2>2, Zenon DEF SearchRecords, ToggleRecordType
  <2>4. screen' = screen
    BY <1>12 DEF SearchRecords, ToggleRecordType, Rebuild
  <2>5. QED
    BY <1>11, <2>3, <2>4
<1>13. CASE ToggleLineEndings /\ ~\E i \in DOMAIN loads : Load(i)
  <2>1. UNCHANGED <<records, loads, current, calls>>
    BY <1>13, Zenon DEF ToggleLineEndings, listVars, loadVars
  <2>2. CASE screen' = screen
    BY <1>2, <1>3, <1>13, <2>1, <2>2 DEF PanelStays
  <2>3. ASSUME NEW q \in Details(screen.panel, item, file), item # None,
               screen' = [screen EXCEPT !.panel = q]
        PROVE  ReportsInv'
    <3>1. screen'.panel = q
      BY <1>4, <2>3
    <3>2. Shows(PanelLayout(q), item)
      BY <2>3, PanelShown
    <3>3. QED
      BY <1>3, <2>1, <3>1, <3>2, PanelReports
  <2>4. QED
    BY <1>13, <2>2, <2>3, Zenon DEF ToggleLineEndings
<1>14. CASE ShowRecord
  <2>1. PICK c \in BagToSet(calls) :
          /\ c.run = "panel" /\ calls' = calls (-) SetToBag({c})
          /\ \E q \in IF c.item = None THEN {Clear(screen.panel)}
                      ELSE Details(screen.panel, c.item, file) :
               screen' = [screen EXCEPT !.panel = q]
          /\ UNCHANGED <<listVars, loadVars>>
    BY <1>14, Zenon DEF ShowRecord
  <2>2. PICK q \in IF c.item = None THEN {Clear(screen.panel)}
                   ELSE Details(screen.panel, c.item, file) :
               screen' = [screen EXCEPT !.panel = q]
    BY <2>1
  <2>3. c \in Reports /\ c \in DOMAIN calls /\ IsRest(calls', calls, c)
        /\ UNCHANGED <<records, loads, current>>
    BY <2>1 DEF Reports, BagToSet, IsRest, (-), listVars, loadVars
  <2>4. calls[c] = 1 /\ \A d \in Reports : d = c
    BY <2>3 DEF ReportsInv
  <2>5. DOMAIN calls' \subseteq DOMAIN calls /\ c \notin DOMAIN calls'
    BY <1>0, <2>3, <2>4, BagTake
  <2>6. Reports' = {}
    BY <2>4, <2>5 DEF Reports
  <2>7. Reporting = {} => Shows(PanelLayout(screen'.panel), item)
    <3>1. SUFFICES ASSUME Reporting = {} PROVE Shows(PanelLayout(screen'.panel), item)
      OBVIOUS
    <3>2. c.item = item
      BY <2>3, <3>1 DEF ReportsInv
    <3>3. screen'.panel = q
      BY <1>4, <2>2
    <3> HIDE DEF item
    <3>4. IF item = None THEN q = Clear(screen.panel) ELSE q \in Details(screen.panel, item, file)
      BY <2>2, <3>2
    <3>5. Shows(PanelLayout(q), item)
      BY <3>4, PanelShown DEF item
    <3>6. QED
      BY <3>3, <3>5
  <2>8. QED
    BY <2>3, <2>6, <2>7, PanelReports
<1>15. QED
  BY <1>1, <1>5, <1>6, <1>7, <1>9, <1>10, <1>12, <1>13, <1>14 DEF Next, MainLoop

ScreenInv ==
  screen.panel \in Panels /\ (laid => PanelLayout(screen.panel) = screen.panel)

LEMMA ScreenStep ==
  ASSUME ConsoleInv, ScreenInv, Focused(screen), [Next]_vars
  PROVE  ScreenInv'
<1>0. screen.panel \in Panels /\ CallTypes
  BY DEF ScreenInv, ConsoleInv, TypeOK
<1>1. ASSUME UNCHANGED <<screen, laid>> PROVE ScreenInv'
  BY <1>1 DEF ScreenInv
<1>2. ASSUME screen'.panel \in Panels, laid' = FALSE PROVE ScreenInv'
  BY <1>2 DEF ScreenInv
<1>3. ASSUME NEW item \in Item \cup {None},
             NEW q \in IF item = None THEN {Clear(screen.panel)}
                       ELSE Details(screen.panel, item, file),
             screen' = [screen EXCEPT !.panel = q], laid' = FALSE
      PROVE  ScreenInv'
  <2>1. screen'.panel = q
    BY <1>3 DEF Focused
  <2>2. <<1, 1>> \in Item
    BY DEF Item
  <2>3. Clear(screen.panel) \in Panels
    BY <1>0, <2>2, PanelOperations
  <2>4. q \in Panels
    BY <1>0, <1>3, <2>3, DetailsArePanels
  <2>5. QED
    BY <1>2, <1>3, <2>1, <2>4
<1>4. CASE ShowRecord
  <2>1. PICK c \in BagToSet(calls) :
          /\ c.run = "panel" /\ laid' = FALSE
          /\ \E q \in IF c.item = None THEN {Clear(screen.panel)}
                      ELSE Details(screen.panel, c.item, file) :
               screen' = [screen EXCEPT !.panel = q]
    BY <1>4, Zenon DEF ShowRecord
  <2>2. c.item \in Item \cup {None}
    BY <1>0, <2>1 DEF CallTypes, BagToSet, FlushCall
  <2>3. QED
    BY <1>3, <2>1, <2>2
<1>5. CASE ToggleLineEndings
  <2> DEFINE item == SelectedItem(records)
  <2>1. laid' = FALSE
    BY <1>5, Zenon DEF ToggleLineEndings, Command
  <2>2. CASE screen' = screen
    BY <1>0, <1>2, <2>1, <2>2
  <2>3. CASE /\ item # None
             /\ \E q \in Details(screen.panel, item, file) : screen' = [screen EXCEPT !.panel = q]
    <3>1. item \in Item
      BY <2>3, SelectedRecord
    <3> HIDE DEF item
    <3>2. QED
      BY <1>3, <2>1, <2>3, <3>1
  <2>4. QED
    BY <1>5, <2>2, <2>3, Zenon DEF ToggleLineEndings
<1>6. CASE ChangeView
  <2>1. screen'.panel = screen.panel /\ laid' = FALSE
    BY <1>6 DEF ChangeView, Command, NextView, PrevView, Focused
  <2>2. QED
    BY <1>0, <1>2, <2>1
<1>7. CASE Layout
  <2>1. screen'.panel = PanelLayout(screen.panel)
    BY <1>7 DEF Layout, ScreenLayout
  <2>2. <<1, 1>> \in Item
    BY DEF Item
  <2>3. /\ PanelLayout(screen.panel) \in Panels
        /\ PanelLayout(PanelLayout(screen.panel)) = PanelLayout(screen.panel)
    BY <1>0, <2>2, PanelOperations
  <2>4. QED
    BY <2>1, <2>3 DEF ScreenInv
<1>8. CASE MoveFile \/ SearchFiles \/ MoveRecord \/ SearchRecords \/ ToggleRecordType \/ DrawList
  <2>1. screen' = screen /\ laid' = FALSE
    BY <1>8 DEF MoveFile, SearchFiles, MoveRecord, SearchRecords, ToggleRecordType, Rebuild,
       DrawList, Command
  <2>2. QED
    BY <1>0, <1>2, <2>1
<1>9. CASE PopulateFiles \/ CancelLoad \/ ClearRecords \/ StartLoad \/ TakeFlush \/ CopyList
  BY <1>1, <1>9 DEF PopulateFiles, CancelLoad, ClearRecords, StartLoad, TakeFlush, CopyList,
     viewVars
<1>10. CASE \E i \in DOMAIN loads : Load(i)
  BY <1>1, <1>10 DEF Load, ReadRecord, AddElements, ReportAdded, RequestFlush, viewVars
<1>11. CASE UNCHANGED vars
  BY <1>1, <1>11 DEF vars, viewVars
<1>12. QED
  BY <1>4, <1>5, <1>6, <1>7, <1>8, <1>9, <1>10, <1>11 DEF Next, MainLoop

LEMMA PanelFirst == ASSUME Init PROVE PanelInv
<1>1. screen.panel = NewPanel
  BY DEF Init, NewScreen
<1>2. PanelLayout(NewPanel) = NewPanel /\ NewPanel \in Panels
  BY DEF NewPanel, PanelLayout, Panels
<1>3. records = NewList(AnyText, AnyType) /\ gui.at = "populate" /\ loads = <<>> /\ current = 0
  BY DEF Init
<1>4. records.visible = <<>> /\ records.selected = 0 /\ SelectedItem(records) = None
  BY <1>3 DEF NewList, SelectedItem, Place
<1>5. Reporting = {}
  BY <1>3 DEF Reporting
<1>6. Reports = {}
  <2>1. DOMAIN calls = {FlushCall}
    BY BagOfSet DEF Init, FlushCall
  <2>2. QED
    BY <2>1 DEF Reports, FlushCall
<1>7. Shows(NewPanel, None)
  BY DEF Shows, NewPanel
<1>8. QED
  BY <1>1, <1>2, <1>3, <1>4, <1>5, <1>6, <1>7 DEF PanelInv, SelectionInv, ReportsInv

LEMMA PanelInvariance == Spec => []PanelInv
<1>1. ASSUME ConsoleInv, Focused(screen), PanelInv, [Next]_vars PROVE PanelInv'
  <2>1. ScreenInv /\ FileInv
    BY <1>1 DEF PanelInv, ScreenInv, FileInv
  <2>2. ScreenInv' /\ FileInv'
    BY <1>1, <2>1, ScreenStep, FileStep
  <2>3. ASSUME ~raced' PROVE SelectionInv' /\ ReportsInv'
    <3>1. SelectionInv /\ ReportsInv /\ screen.panel \in Panels
      BY <1>1, <2>3, RacedBefore DEF PanelInv
    <3>2. QED
      BY <1>1, <2>1, <2>3, <3>1, SelectionStep, ReportsStep
  <2>4. QED
    BY <2>2, <2>3 DEF PanelInv, ScreenInv, FileInv
<1>2. QED
  BY ConsoleInvariance, PanelFirst, FocusedFirst, FocusStep, <1>1, PTL DEF Spec

\* Unless two reports of a selection were under way together, once nothing is under way the
\* panel shows the record that is selected in the file selected last, with its errors, or
\* nothing when none is selected (app.go: onRecordSelected).
THEOREM SelectionShown == Spec => []PanelShowsSelection
<1>1. ASSUME PanelInv PROVE PanelShowsSelection
  <2> DEFINE item == SelectedItem(records)
  <2> DEFINE p == screen.panel
  <2>1. ASSUME Quiet, ~raced PROVE Shows(p, item)
    <3>1. Reporting = {}
      BY <2>1 DEF Quiet, Ended, Reporting
    <3>2. Reports = {}
      BY <2>1, BagOfSet DEF Quiet, Reports, EmptyBag
    <3>3. PanelLayout(p) = p
      BY <1>1, <2>1 DEF PanelInv, Quiet
    <3>4. Shows(PanelLayout(p), item)
      BY <1>1, <2>1, <3>1, <3>2 DEF PanelInv, ReportsInv
    <3>5. QED
      BY <3>3, <3>4
  <2>2. QED
    BY <2>1 DEF PanelShowsSelection
<1>2. QED
  BY PanelInvariance, <1>1, PTL
=============================================================================
