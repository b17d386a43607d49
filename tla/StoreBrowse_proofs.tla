-------------------------- MODULE StoreBrowse_proofs --------------------------
(* The list of stores, for any stores, texts and names: what a search keeps, that
   the table never asks for a row that is not there, that it counts every store
   that matches, and that the store handed on is the one the tapped row shows.
   What a search keeps is defined along the list; facts about it are proved by
   looking at the shortest beginning of the list for which they would fail. *)
EXTENDS StoreBrowse, FiniteSetTheorems, WellFoundedInduction, TLAPS

(* Numbers of which there are some have a least one. *)
LEMMA LeastNat ==
    ASSUME NEW T, T \subseteq Nat, T # {}
    PROVE  \E n \in T : \A m \in T : ~(m < n)
<1>1. \E x \in T : \A y \in T : <<y, x>> \notin OpToRel(<, Nat)
  BY NatLessThanWellFounded, WFMin
<1>2. \A x, y \in Nat : x < y => <<x, y>> \in OpToRel(<, Nat)
  BY Zenon DEF OpToRel
<1> QED BY <1>1, <1>2

-----------------------------------------------------------------------------
(* What a search keeps.                                                      *)

(* What it keeps of the first n stores, from what it keeps of those before. *)
KeptOf(list, txt, kept, n) ==
    IF n = 0 THEN <<>>
    ELSE IF list[n] \in Matching[txt] THEN Append(kept[n - 1], list[n])
    ELSE kept[n - 1]

Keeps(list, txt, m, kept) == kept = [n \in 0..m |-> KeptOf(list, txt, kept, n)]

(* The recursion has a solution for every beginning of the list. *)
LEMMA KeepsExists ==
    ASSUME NEW list \in Seq(Stores), NEW txt
    PROVE  \A m \in 0..Len(list) : \E kept : Keeps(list, txt, m, kept)
<1> DEFINE T == {m \in 0..Len(list) : ~\E kept : Keeps(list, txt, m, kept)}
<1> SUFFICES ASSUME T # {} PROVE FALSE
  OBVIOUS
<1>1. PICK m \in T : \A k \in T : ~(k < m)
  <2>1. T \subseteq Nat
    OBVIOUS
  <2> HIDE DEF T
  <2> QED BY <2>1, LeastNat
<1>2. CASE m = 0
  <2>1. Keeps(list, txt, 0, [n \in 0..0 |-> <<>>])
    BY DEF Keeps, KeptOf
  <2> QED BY <1>2, <2>1
<1>3. CASE m # 0
  <2>0. m \in Nat /\ m - 1 \in 0..Len(list) /\ m - 1 < m /\ m - 1 \notin T
    BY <1>1, <1>3
  <2>1. PICK kept : Keeps(list, txt, m - 1, kept)
    BY <2>0
  <2> DEFINE more == [n \in 0..m |-> IF n = m THEN KeptOf(list, txt, kept, m) ELSE kept[n]]
  <2>2. ASSUME NEW n \in 0..m PROVE more[n] = KeptOf(list, txt, more, n)
    <3>1. ASSUME n # 0 PROVE more[n - 1] = kept[n - 1]
      <4>1. n - 1 \in 0..m /\ n - 1 # m
        BY <2>0, <3>1
      <4> QED BY <4>1
    <3>2. more[n] = IF n = m THEN KeptOf(list, txt, kept, m) ELSE kept[n]
      OBVIOUS
    <3>3. ASSUME n # m PROVE kept[n] = KeptOf(list, txt, kept, n)
      <4>1. n \in 0..(m - 1)
        BY <2>0, <3>3
      <4> QED BY <2>1, <4>1 DEF Keeps
    <3> HIDE DEF more
    <3>4. KeptOf(list, txt, more, n) = KeptOf(list, txt, kept, n)
      BY <3>1 DEF KeptOf
    <3> QED BY <3>2, <3>3, <3>4
  <2>3. Keeps(list, txt, m, more)
    BY <2>2 DEF Keeps
  <2> QED BY <2>3
<1> QED BY <1>2, <1>3

LEMMA FilteredSolves ==
    ASSUME NEW list \in Seq(Stores), NEW txt
    PROVE  \E kept : Keeps(list, txt, Len(list), kept) /\ Filtered(list, txt) = kept[Len(list)]
<1>1. \E kept : Keeps(list, txt, Len(list), kept)
  <2>1. Len(list) \in 0..Len(list)
    OBVIOUS
  <2> QED BY <2>1, KeepsExists
<1>2. Filtered(list, txt) = (CHOOSE kept : Keeps(list, txt, Len(list), kept))[Len(list)]
  BY DEF Filtered, Keeps, KeptOf
<1> QED BY <1>1, <1>2

Distinct(list) == \A i, j \in DOMAIN list : list[i] = list[j] => i = j

Matches(list, txt, n) == {r \in 1..n : list[r] \in Matching[txt]}

(* Every store of `some` is one of the first n of the list that match, and the
   order is that of the list. *)
Ordered(some, list, txt, n) ==
    /\ \A i \in DOMAIN some : \E j \in Matches(list, txt, n) : some[i] = list[j]
    /\ \A i, k \in DOMAIN some :
          i < k => \E j, m \in 1..n : j < m /\ some[i] = list[j] /\ some[k] = list[m]

(* What is kept of the first n: stores among them that match, in their order, none
   twice, and all of them. *)
KeptRight(list, txt, kept, n) ==
    /\ kept[n] \in Seq(Stores)
    /\ Ordered(kept[n], list, txt, n)
    /\ \A j \in Matches(list, txt, n) : \E i \in DOMAIN kept[n] : kept[n][i] = list[j]
    /\ Distinct(kept[n])
    /\ Len(kept[n]) <= n
    /\ Len(kept[n]) = Cardinality(Matches(list, txt, n))

(* One more store is either kept, and one more matches, or not. *)
LEMMA KeptRightStep ==
    ASSUME NEW list \in Seq(Stores), Distinct(list), NEW txt, NEW kept,
           Keeps(list, txt, Len(list), kept),
           NEW n \in 1..Len(list), KeptRight(list, txt, kept, n - 1)
    PROVE  KeptRight(list, txt, kept, n)
<1> DEFINE before == kept[n - 1]
<1>1. /\ n \in Nat /\ n - 1 \in Nat /\ n - 1 \in 0..Len(list) /\ n # 0
      /\ list[n] \in Stores /\ n \in DOMAIN list
  OBVIOUS
<1>2. /\ before \in Seq(Stores)
      /\ Ordered(before, list, txt, n - 1)
      /\ \A j \in Matches(list, txt, n - 1) : \E i \in DOMAIN before : before[i] = list[j]
      /\ Distinct(before)
      /\ Len(before) <= n - 1
      /\ Len(before) = Cardinality(Matches(list, txt, n - 1))
  BY DEF KeptRight
<1>e. \A j \in Matches(list, txt, n - 1) : j \in 1..(n - 1) /\ j < n /\ j # n /\ j \in 1..n
  BY <1>1 DEF Matches
<1>3. kept[n] = IF list[n] \in Matching[txt] THEN Append(before, list[n]) ELSE before
  <2>1. n \in 0..Len(list)
    OBVIOUS
  <2>2. kept[n] = KeptOf(list, txt, kept, n)
    BY <2>1 DEF Keeps
  <2> QED BY <1>1, <2>2 DEF KeptOf
<1>4. IsFiniteSet(Matches(list, txt, n - 1))
  <2>1. IsFiniteSet(1..(n - 1))
    BY <1>1, FS_Interval
  <2> QED BY <2>1, FS_Subset DEF Matches
<1> HIDE DEF before
<1>5. CASE list[n] \in Matching[txt]
  <2>1. Matches(list, txt, n) = Matches(list, txt, n - 1) \cup {n} /\ n \notin Matches(list, txt, n - 1)
    BY <1>1, <1>5 DEF Matches
  <2>2. Cardinality(Matches(list, txt, n)) = Cardinality(Matches(list, txt, n - 1)) + 1
    BY <1>4, <2>1, FS_AddElement
  <2>3. kept[n] = Append(before, list[n])
    BY <1>3, <1>5
  <2>4. /\ Append(before, list[n]) \in Seq(Stores)
        /\ Len(Append(before, list[n])) = Len(before) + 1
        /\ DOMAIN Append(before, list[n]) = 1..(Len(before) + 1)
        /\ DOMAIN before = 1..Len(before) /\ Len(before) \in Nat
        /\ \A i \in DOMAIN before : Append(before, list[n])[i] = before[i]
        /\ Append(before, list[n])[Len(before) + 1] = list[n]
    BY <1>1, <1>2
  <2>a. \A i \in DOMAIN kept[n] : i = Len(before) + 1 \/ i \in DOMAIN before
    BY <2>3, <2>4
  <2>b. \A i \in DOMAIN before : i \in DOMAIN kept[n] /\ kept[n][i] = before[i]
    BY <2>3, <2>4
  <2>c. Len(before) + 1 \in DOMAIN kept[n] /\ kept[n][Len(before) + 1] = list[n]
    BY <2>3, <2>4
  <2>d. ASSUME NEW i \in DOMAIN before
        PROVE  \E j \in Matches(list, txt, n - 1) : j \in 1..n /\ j < n /\ before[i] = list[j]
    BY <1>2, <1>e DEF Ordered
  <2>5. Ordered(kept[n], list, txt, n)
    <3>1. ASSUME NEW i \in DOMAIN kept[n] PROVE \E j \in Matches(list, txt, n) : kept[n][i] = list[j]
      <4>1. CASE i = Len(before) + 1
        BY <2>1, <2>c, <4>1
      <4>2. CASE i \in DOMAIN before
        BY <2>1, <2>b, <2>d, <4>2
      <4> QED BY <2>a, <4>1, <4>2
    <3>2. ASSUME NEW i \in DOMAIN kept[n], NEW k \in DOMAIN kept[n], i < k
          PROVE  \E j, m \in 1..n : j < m /\ kept[n][i] = list[j] /\ kept[n][k] = list[m]
      <4>1. i \in DOMAIN before
        BY <2>3, <2>4, <3>2
      <4>2. CASE k = Len(before) + 1
        <5>1. PICK j \in 1..n : j < n /\ before[i] = list[j]
          BY <2>d, <4>1
        <5>2. n \in 1..n
          BY <1>1
        <5> QED BY <2>b, <2>c, <4>1, <4>2, <5>1, <5>2
      <4>3. CASE k \in DOMAIN before
        <5>1. PICK j \in 1..(n - 1), m \in 1..(n - 1) :
                 j < m /\ before[i] = list[j] /\ before[k] = list[m]
          BY <1>2, <3>2, <4>1, <4>3 DEF Ordered
        <5>2. j \in 1..n /\ m \in 1..n
          BY <1>1
        <5> QED BY <2>b, <4>1, <4>3, <5>1, <5>2
      <4> QED BY <2>a, <4>2, <4>3
    <3> QED BY <3>1, <3>2 DEF Ordered
  <2>e. ASSUME NEW j \in Matches(list, txt, n) PROVE \E i \in DOMAIN kept[n] : kept[n][i] = list[j]
    <3>1. CASE j = n
      BY <2>c, <3>1
    <3>2. CASE j \in Matches(list, txt, n - 1)
      BY <1>2, <2>b, <3>2
    <3> QED BY <2>1, <3>1, <3>2
  <2>6. ASSUME NEW i \in DOMAIN before PROVE before[i] # list[n]
    <3>1. PICK j \in 1..n : j < n /\ before[i] = list[j]
      BY <2>d
    <3>2. j \in DOMAIN list /\ j # n
      BY <1>1, <3>1
    <3> QED BY <1>1, <3>1, <3>2 DEF Distinct
  <2>7. Distinct(kept[n])
    <3>1. Distinct(before)
      BY <1>2
    <3> QED BY <2>a, <2>b, <2>c, <2>6, <3>1 DEF Distinct
  <2>8. Len(kept[n]) <= n /\ Len(kept[n]) = Cardinality(Matches(list, txt, n))
    BY <1>1, <1>2, <2>2, <2>3, <2>4
  <2> QED BY <2>3, <2>4, <2>5, <2>e, <2>7, <2>8 DEF KeptRight
<1>6. CASE list[n] \notin Matching[txt]
  <2>1. Matches(list, txt, n) = Matches(list, txt, n - 1)
    BY <1>1, <1>6 DEF Matches
  <2>2. kept[n] = before
    BY <1>3, <1>6
  <2>3. Ordered(before, list, txt, n)
    <3>1. \A j \in 1..(n - 1) : j \in 1..n
      BY <1>1
    <3>2. \A i \in DOMAIN before : \E j \in Matches(list, txt, n) : before[i] = list[j]
      BY <1>2, <2>1 DEF Ordered
    <3>3. ASSUME NEW i \in DOMAIN before, NEW k \in DOMAIN before, i < k
          PROVE  \E j, m \in 1..n : j < m /\ before[i] = list[j] /\ before[k] = list[m]
      <4>1. PICK j \in 1..(n - 1), m \in 1..(n - 1) :
               j < m /\ before[i] = list[j] /\ before[k] = list[m]
        BY <1>2, <3>3 DEF Ordered
      <4> QED BY <3>1, <4>1
    <3> QED BY <3>2, <3>3 DEF Ordered
  <2>4. Len(before) <= n
    BY <1>1, <1>2
  <2>5. \A j \in Matches(list, txt, n) : \E i \in DOMAIN before : before[i] = list[j]
    BY <1>2, <2>1
  <2>6. Len(before) = Cardinality(Matches(list, txt, n))
    BY <1>2, <2>1
  <2> QED BY <1>2, <2>2, <2>3, <2>4, <2>5, <2>6 DEF KeptRight
<1> QED BY <1>5, <1>6

(* A search keeps the stores of the list that match, in the order of the list,
   each of them and none twice. *)
THEOREM FilteredRight ==
    ASSUME NEW list \in Seq(Stores), Distinct(list), NEW txt
    PROVE  /\ Filtered(list, txt) \in Seq(Stores)
           /\ Distinct(Filtered(list, txt))
           /\ Ordered(Filtered(list, txt), list, txt, Len(list))
           /\ \A j \in Matches(list, txt, Len(list)) :
                 \E i \in DOMAIN Filtered(list, txt) : Filtered(list, txt)[i] = list[j]
           /\ Len(Filtered(list, txt)) <= Len(list)
           /\ Len(Filtered(list, txt)) = Cardinality(Matches(list, txt, Len(list)))
<1>1. PICK kept : Keeps(list, txt, Len(list), kept) /\ Filtered(list, txt) = kept[Len(list)]
  BY FilteredSolves
<1> DEFINE T == {n \in 0..Len(list) : ~KeptRight(list, txt, kept, n)}
<1>2. 0 \notin T
  <2>1. kept[0] = <<>>
    <3>1. 0 \in 0..Len(list)
      OBVIOUS
    <3>2. kept[0] = KeptOf(list, txt, kept, 0)
      BY <1>1, <3>1 DEF Keeps
    <3> QED BY <3>2 DEF KeptOf
  <2>2. Matches(list, txt, 0) = {}
    BY DEF Matches
  <2>3. Cardinality(Matches(list, txt, 0)) = 0
    BY <2>2, FS_EmptySet
  <2>4. /\ kept[0] \in Seq(Stores) /\ Len(kept[0]) = 0 /\ DOMAIN kept[0] = {}
    BY <2>1
  <2>5. KeptRight(list, txt, kept, 0)
    BY <2>2, <2>3, <2>4 DEF KeptRight, Ordered, Distinct
  <2> QED BY <2>5
<1>3. T = {}
  <2> SUFFICES ASSUME T # {} PROVE FALSE
    OBVIOUS
  <2>1. PICK n \in T : \A k \in T : ~(k < n)
    <3>1. T \subseteq Nat
      OBVIOUS
    <3> HIDE DEF T
    <3> QED BY <3>1, LeastNat
  <2>2. n \in 1..Len(list) /\ n - 1 \in 0..Len(list) /\ n - 1 < n
    BY <1>2, <2>1
  <2>3. KeptRight(list, txt, kept, n - 1)
    BY <2>1, <2>2
  <2> QED BY <1>1, <2>1, <2>2, <2>3, KeptRightStep
<1>4. KeptRight(list, txt, kept, Len(list))
  BY <1>3
<1> QED BY <1>1, <1>4 DEF KeptRight

-----------------------------------------------------------------------------
(* The table and its rows.                                                   *)

LEMMA ListsAre ==
    ASSUME NEW list
    PROVE  list \in Lists <=> /\ list \in Seq(Stores) /\ Distinct(list)
                              /\ Len(list) <= Cardinality(Stores)
<1>0. Cardinality(Stores) \in Nat
  BY BrowseAssumption, FS_CardinalityType
<1>1. ASSUME list \in Lists
      PROVE  list \in Seq(Stores) /\ Distinct(list) /\ Len(list) <= Cardinality(Stores)
  <2>1. PICK n \in 0..Cardinality(Stores) : list \in [1..n -> Stores]
    BY <1>1 DEF Lists
  <2>2. list \in Seq(Stores) /\ Len(list) = n
    BY <1>0, <2>1
  <2> QED BY <1>0, <1>1, <2>1, <2>2 DEF Lists, Distinct
<1>2. ASSUME list \in Seq(Stores), Distinct(list), Len(list) <= Cardinality(Stores)
      PROVE  list \in Lists
  <2>1. list \in [1..Len(list) -> Stores] /\ Len(list) \in 0..Cardinality(Stores)
    BY <1>0, <1>2
  <2> QED BY <1>2, <2>1 DEF Lists, Distinct
<1> QED BY <1>1, <1>2

LEMMA FilteredLists ==
    ASSUME NEW list \in Lists, NEW txt
    PROVE  /\ Filtered(list, txt) \in Lists
           /\ Len(Filtered(list, txt)) <= Len(list)
           /\ Len(Filtered(list, txt)) =
                Cardinality({r \in DOMAIN list : list[r] \in Matching[txt]})
<1>1. list \in Seq(Stores) /\ Distinct(list) /\ Len(list) <= Cardinality(Stores)
  BY ListsAre
<1>2. /\ Filtered(list, txt) \in Seq(Stores)
      /\ Distinct(Filtered(list, txt))
      /\ Len(Filtered(list, txt)) <= Len(list)
      /\ Len(Filtered(list, txt)) = Cardinality(Matches(list, txt, Len(list)))
  BY <1>1, FilteredRight
<1>3. Matches(list, txt, Len(list)) = {r \in DOMAIN list : list[r] \in Matching[txt]}
  BY <1>1 DEF Matches
<1>4. Len(Filtered(list, txt)) <= Cardinality(Stores)
  <2>1. Cardinality(Stores) \in Nat
    BY BrowseAssumption, FS_CardinalityType
  <2> QED BY <1>1, <1>2, <2>1
<1>5. Filtered(list, txt) \in Lists
  BY <1>2, <1>4, ListsAre
<1> QED BY <1>2, <1>3, <1>5

(* What the rows are looked up in, now. *)
Current == IF text # EmptyText THEN filteredStores ELSE stores

(* The table was told of the rows there are now, the filter never has more than
   the list, and it is what the search keeps of the stores unless the text is older
   than they are. *)
RowsAreCounted ==
    /\ stores \in Lists /\ filteredStores \in Lists
    /\ text \in Texts /\ fetched \in BOOLEAN /\ typedLate \in BOOLEAN
    /\ rows = Len(Current)
    /\ Len(filteredStores) <= Len(stores)
    /\ ~fetched => stores = <<>> /\ filteredStores = <<>> /\ ~typedLate
    /\ fetched /\ typedLate => filteredStores = Filtered(stores, text)

(* Every row in sight still shows what a lookup by its index would find. *)
RowsAreCurrent == \A r \in DOMAIN shown : r \in DOMAIN Current /\ shown[r] = Current[r]

TapsAreTyped == tapped \in [shown: Stores \cup {Nothing}, passed: Stores \cup {Nothing}]

IInv == RowsAreCounted /\ RowsAreCurrent /\ TapsAreTyped /\ TappedIsShown

LEMMA EmptyList == <<>> \in Lists /\ \A txt : Len(Filtered(<<>>, txt)) = 0
<1>1. <<>> \in Lists
  <2>1. Cardinality(Stores) \in Nat
    BY BrowseAssumption, FS_CardinalityType
  <2>2. <<>> \in Seq(Stores) /\ Len(<<>>) = 0 /\ Distinct(<<>>)
    BY DEF Distinct
  <2>3. Len(<<>>) <= Cardinality(Stores)
    BY <2>1, <2>2
  <2>4. \A list : list \in Seq(Stores) /\ Distinct(list) /\ Len(list) <= Cardinality(Stores) =>
                    list \in Lists
    BY ListsAre
  <2> QED BY <2>2, <2>3, <2>4
<1>2. ASSUME NEW txt PROVE Len(Filtered(<<>>, txt)) = 0
  <2>1. Len(Filtered(<<>>, txt)) <= 0 /\ Filtered(<<>>, txt) \in Lists
    BY <1>1, FilteredLists
  <2>2. Filtered(<<>>, txt) \in Seq(Stores)
    BY <2>1, ListsAre
  <2> QED BY <2>1, <2>2
<1> QED BY <1>1, <1>2

(* At first no row is in sight and none was tapped. *)
LEMMA InvInit == Init => IInv
<1> SUFFICES ASSUME Init PROVE IInv
  OBVIOUS
<1>1. RowsAreCounted
  <2>1. stores = <<>> /\ filteredStores = <<>> /\ Current = <<>> /\ rows = Len(<<>>)
    BY DEF Init, Current
  <2>2. fetched = FALSE /\ typedLate = FALSE /\ text \in Texts
    BY BrowseAssumption DEF Init
  <2>3. stores \in Lists /\ filteredStores \in Lists
    BY <2>1, EmptyList
  <2>4. rows = Len(Current) /\ Len(filteredStores) <= Len(stores)
    BY <2>1
  <2> QED BY <2>1, <2>2, <2>3, <2>4 DEF RowsAreCounted
<1>2. RowsAreCurrent /\ TapsAreTyped /\ TappedIsShown
  BY DEF Init, RowsAreCurrent, TapsAreTyped, TappedIsShown
<1> QED BY <1>1, <1>2 DEF IInv

(* A step that leaves the lists and the text alone keeps the count. *)
LEMMA CountKept ==
    ASSUME RowsAreCounted, UNCHANGED <<stores, filteredStores, text, fetched, rows, typedLate>>
    PROVE  RowsAreCounted' /\ Current' = Current
<1>1. Current' = Current
  BY DEF Current
<1> QED BY <1>1 DEF RowsAreCounted

(* A step that changes the list gives back every row and counts anew. *)
LEMMA InvNext == IInv /\ [Next]_vars => IInv'
<1> SUFFICES ASSUME IInv, [Next]_vars PROVE IInv'
  OBVIOUS
<1> USE DEF IInv
<1>0. CASE UNCHANGED vars
  <2>1. UNCHANGED <<stores, filteredStores, text, fetched, rows, shown, tapped, typedLate>>
    BY <1>0 DEF vars
  <2> QED BY <2>1, CountKept DEF RowsAreCurrent, TapsAreTyped, TappedIsShown
<1>1. CASE StoresArrive
  <2>1. shown' = <<>> /\ UNCHANGED tapped
    BY <1>1 DEF StoresArrive, Reload
  <2>2. RowsAreCurrent' /\ TapsAreTyped' /\ TappedIsShown'
    BY <2>1 DEF RowsAreCurrent, TapsAreTyped, TappedIsShown
  <2>3. /\ fetched' = TRUE /\ stores' \in Lists /\ UNCHANGED <<filteredStores, text, typedLate>>
        /\ rows' = IF text # EmptyText THEN Len(filteredStores) ELSE Len(stores')
    BY <1>1 DEF StoresArrive, Reload
  <2>4. filteredStores = <<>> /\ ~typedLate
    BY <1>1 DEF StoresArrive, RowsAreCounted
  <2>5. Len(filteredStores') <= Len(stores')
    <3>1. stores' \in Seq(Stores)
      BY <2>3, ListsAre
    <3> QED BY <2>3, <2>4, <3>1
  <2>6. rows' = Len(Current')
    BY <2>3 DEF Current
  <2>7. RowsAreCounted'
    BY <2>3, <2>4, <2>5, <2>6 DEF RowsAreCounted
  <2> QED BY <2>2, <2>7
<1>2. ASSUME NEW txt \in Texts, Type(txt) PROVE IInv'
  <2>1. shown' = <<>> /\ UNCHANGED tapped
    BY <1>2 DEF Type, Reload
  <2>2. RowsAreCurrent' /\ TapsAreTyped' /\ TappedIsShown'
    BY <2>1 DEF RowsAreCurrent, TapsAreTyped, TappedIsShown
  <2>3. /\ text' = txt /\ filteredStores' = Filtered(stores, txt)
        /\ rows' = IF txt # EmptyText THEN Len(filteredStores') ELSE Len(stores)
        /\ typedLate' = fetched /\ UNCHANGED <<stores, fetched>>
    BY <1>2 DEF Type, Reload
  <2>4. stores \in Lists
    BY DEF RowsAreCounted
  <2>5. filteredStores' \in Lists /\ Len(filteredStores') <= Len(stores')
    BY <2>3, <2>4, FilteredLists
  <2>6. ~fetched' => stores' = <<>> /\ filteredStores' = <<>> /\ ~typedLate'
    <3> SUFFICES ASSUME ~fetched' PROVE stores' = <<>> /\ filteredStores' = <<>> /\ ~typedLate'
      OBVIOUS
    <3>1. stores = <<>> /\ fetched = FALSE
      BY <2>3 DEF RowsAreCounted
    <3>2. Len(filteredStores') = 0 /\ filteredStores' \in Seq(Stores)
      BY <2>3, <2>5, <3>1, EmptyList, ListsAre
    <3> QED BY <2>3, <3>1, <3>2
  <2>7. rows' = Len(Current')
    BY <2>3 DEF Current
  <2>8. RowsAreCounted'
    BY <2>3, <2>4, <2>5, <2>6, <2>7 DEF RowsAreCounted
  <2> QED BY <2>2, <2>8
<1>3. ASSUME NEW r \in 1..Cardinality(Stores), ShowRow(r) PROVE IInv'
  <2>0. UNCHANGED <<stores, filteredStores, text, fetched, rows, tapped, typedLate>>
    BY <1>3 DEF ShowRow
  <2>1. r \in DOMAIN Current
    BY <1>3 DEF ShowRow, Current
  <2>2. shown' = [q \in DOMAIN shown \cup {r} |-> IF q # r THEN shown[q] ELSE Current[r]]
    BY <1>3 DEF ShowRow, Current
  <2>3. RowsAreCounted' /\ Current' = Current
    BY <2>0, CountKept
  <2> QED BY <2>0, <2>1, <2>2, <2>3 DEF RowsAreCurrent, TapsAreTyped, TappedIsShown
<1>4. ASSUME NEW r \in 1..Cardinality(Stores), HideRow(r) PROVE IInv'
  <2>0. UNCHANGED <<stores, filteredStores, text, fetched, rows, tapped, typedLate>>
    BY <1>4 DEF HideRow
  <2>1. shown' = [q \in DOMAIN shown \ {r} |-> shown[q]]
    BY <1>4 DEF HideRow
  <2>2. RowsAreCounted' /\ Current' = Current
    BY <2>0, CountKept
  <2> QED BY <2>0, <2>1, <2>2 DEF RowsAreCurrent, TapsAreTyped, TappedIsShown
<1>5. ASSUME NEW r \in 1..Cardinality(Stores), Select(r) PROVE IInv'
  <2>0. UNCHANGED <<stores, filteredStores, text, fetched, rows, shown, typedLate>>
    BY <1>5 DEF Select, HandOn
  <2>1. RowsAreCounted' /\ Current' = Current
    BY <2>0, CountKept
  <2>2. r \in DOMAIN shown /\ r \in DOMAIN Current /\ shown[r] = Current[r]
    BY <1>5 DEF Select, HandOn, RowsAreCurrent
  <2>3. tapped' = [shown |-> shown[r], passed |-> Current[r]]
    BY <1>5, <2>2 DEF Select, HandOn, Current
  <2>4. Current[r] \in Stores
    <3>1. Current \in Seq(Stores)
      BY ListsAre DEF RowsAreCounted, Current
    <3> QED BY <2>2, <3>1
  <2> QED BY <2>0, <2>1, <2>2, <2>3, <2>4 DEF RowsAreCurrent, TapsAreTyped, TappedIsShown
<1> QED BY <1>0, <1>1, <1>2, <1>3, <1>4, <1>5 DEF Next

(* The table and its rows go together in every state. *)
THEOREM Invariance == Spec => []IInv
BY InvInit, InvNext, PTL DEF Spec

(* Every variable keeps its type. *)
THEOREM TypeCorrect == Spec => []TypeOK
<1>1. IInv => TypeOK
  <2> SUFFICES ASSUME IInv PROVE TypeOK
    OBVIOUS
  <2>1. Current \in Lists /\ rows = Len(Current)
    BY DEF IInv, RowsAreCounted, Current
  <2>2. Current \in Seq(Stores) /\ Len(Current) <= Cardinality(Stores)
    BY <2>1, ListsAre
  <2>3. Cardinality(Stores) \in Nat
    BY BrowseAssumption, FS_CardinalityType
  <2>4. rows \in 0..Cardinality(Stores)
    BY <2>1, <2>2, <2>3
  <2>5. DOMAIN shown \subseteq 1..rows /\ \A r \in DOMAIN shown : shown[r] \in Stores
    BY <2>1, <2>2 DEF IInv, RowsAreCurrent
  <2> QED BY <2>4, <2>5 DEF TypeOK, IInv, RowsAreCounted, TapsAreTyped
<1> QED BY <1>1, Invariance, PTL

(* However long ago the table was told how many rows there are, each of them can
   still be looked up in both lists. *)
THEOREM NoRowIsMissing == Spec => []RowsExist
<1>1. IInv => RowsExist
  <2> SUFFICES ASSUME IInv PROVE RowsExist
    OBVIOUS
  <2>1. stores \in Seq(Stores) /\ filteredStores \in Seq(Stores)
    BY ListsAre DEF IInv, RowsAreCounted
  <2>2. /\ Len(filteredStores) <= Len(stores)
        /\ rows = IF text # EmptyText THEN Len(filteredStores) ELSE Len(stores)
    BY DEF IInv, RowsAreCounted, Current
  <2> QED BY <2>1, <2>2 DEF RowsExist
<1> QED BY <1>1, Invariance, PTL

(* The table counts every store that matches, for any list and any search, unless
   the text was typed before the stores came and left alone since. *)
THEOREM EveryMatchIsCounted == Spec => []ListIsComplete
<1>1. IInv => ListIsComplete
  <2> SUFFICES ASSUME IInv, fetched PROVE ListIsComplete
    BY DEF ListIsComplete
  <2>1. rows = IF text # EmptyText THEN Len(filteredStores) ELSE Len(stores)
    BY DEF IInv, RowsAreCounted, Current
  <2>2. typedLate => filteredStores = Filtered(stores, text)
    BY DEF IInv, RowsAreCounted
  <2>3. Len(Filtered(stores, text)) = Cardinality({r \in DOMAIN stores : stores[r] \in Matching[text]})
    BY FilteredLists DEF IInv, RowsAreCounted
  <2> QED BY <2>1, <2>2, <2>3 DEF ListIsComplete
<1> QED BY <1>1, Invariance, PTL

(* Whatever is typed, fetched and scrolled between a row's coming into sight and
   its being tapped, the next screen gets the store the row shows. *)
THEOREM TappedStoreIsPassed == Spec => []TappedIsShown
BY Invariance, PTL DEF IInv

=============================================================================
