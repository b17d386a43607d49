---------------------------- MODULE StoreBrowse ----------------------------
(* The iOS client's list of stores (Store/StoreViewController.swift): the stores
   are fetched once, a search text filters them, and the rows of the table index
   into one list or the other. The table asks for a row when it comes into sight,
   long after it asked how many there are. What the cells fetch for themselves is
   in RowImages. The storyboard is taken to connect what the classes declare. *)
EXTENDS Naturals, Sequences, FiniteSets

CONSTANTS
    Stores,
    Texts,         \* what the search bar may hold
    EmptyText,
    Matching,      \* Texts -> the stores whose name contains the text
    Nothing

(* The empty text is part of no name: range(of: "") is nil. *)
ASSUME BrowseAssumption ==
    /\ IsFiniteSet(Stores)
    /\ EmptyText \in Texts
    /\ Matching \in [Texts -> SUBSET Stores]
    /\ Matching[EmptyText] = {}
    /\ Nothing \notin Stores

VARIABLES
    stores, filteredStores,
    text,        \* SearchBar.text
    fetched,     \* whether the completion of getStores has run
    rows,        \* how many rows the table was last told of
    shown,       \* the store in each row that has a cell
    tapped,      \* history: the row tapped last: what it shows, what is handed on
    typedLate    \* history: whether the text changed after the stores came

vars == <<stores, filteredStores, text, fetched, rows, shown, tapped, typedLate>>

Lists == {s \in UNION {[1..n -> Stores] : n \in 0..Cardinality(Stores)} :
            \A i, j \in DOMAIN s : s[i] = s[j] => i = j}

TypeOK ==
    /\ stores \in Lists
    /\ filteredStores \in Lists
    /\ text \in Texts
    /\ fetched \in BOOLEAN
    /\ rows \in 0..Cardinality(Stores)
    /\ DOMAIN shown \subseteq 1..rows
    /\ \A r \in DOMAIN shown : shown[r] \in Stores
    /\ tapped \in [shown: Stores \cup {Nothing}, passed: Stores \cup {Nothing}]
    /\ typedLate \in BOOLEAN

Init ==
    /\ stores = <<>> /\ filteredStores = <<>>
    /\ text = EmptyText
    /\ fetched = FALSE
    /\ rows = 0
    /\ shown = <<>>
    /\ tapped = [shown |-> Nothing, passed |-> Nothing]
    /\ typedLate = FALSE

(* Slip: the cells on screen stay. *)
ReloadKeepingCells(list, filtered, txt) ==
    /\ rows' = IF txt # EmptyText THEN Len(filtered) ELSE Len(list)
    /\ UNCHANGED shown

(* reloadData: the rows are counted anew and every cell is given back. *)
Reload(list, filtered, txt) ==
    /\ rows' = IF txt # EmptyText THEN Len(filtered) ELSE Len(list)
    /\ shown' = <<>>

(* The completion of getStores leaves the filter as it is. *)
StoresArrive ==
    /\ ~fetched
    /\ fetched' = TRUE
    /\ \E list \in Lists :
          /\ stores' = list
          /\ Reload(list, filteredStores, text)
    /\ UNCHANGED <<filteredStores, text, tapped, typedLate>>

(* filter: the stores whose name contains the text, in the order of the list. *)
Filtered(list, txt) ==
    LET kept[n \in 0..Len(list)] ==
          IF n = 0 THEN <<>>
          ELSE IF list[n] \in Matching[txt] THEN Append(kept[n - 1], list[n])
          ELSE kept[n - 1]
    IN  kept[Len(list)]

(* Slip: the table is not told that the filter changed. *)
TypeSilently(txt) ==
    /\ txt # text
    /\ text' = txt
    /\ filteredStores' = Filtered(stores, txt)
    /\ typedLate' = fetched
    /\ UNCHANGED <<stores, fetched, rows, shown, tapped>>

(* Slip: a text narrows what the text before it has left. *)
TypeNarrowing(txt) ==
    /\ txt # text
    /\ text' = txt
    /\ filteredStores' = Filtered(IF text = EmptyText THEN stores ELSE filteredStores, txt)
    /\ Reload(stores, filteredStores', txt)
    /\ typedLate' = fetched
    /\ UNCHANGED <<stores, fetched, tapped>>

(* textDidChange filters the stores there are by now. *)
Type(txt) ==
    /\ txt # text
    /\ text' = txt
    /\ filteredStores' = Filtered(stores, txt)
    /\ Reload(stores, filteredStores', txt)
    /\ typedLate' = fetched
    /\ UNCHANGED <<stores, fetched, tapped>>

(* cellForRowAt indexes into stores in any case and then into filteredStores. An
   index out of range ends the program, which RowsExist excludes. *)
ShowRow(r) ==
    /\ r \in 1..rows \ DOMAIN shown
    /\ r \in DOMAIN stores
    /\ text # EmptyText => r \in DOMAIN filteredStores
    /\ shown' = [q \in DOMAIN shown \cup {r} |->
                   IF q # r THEN shown[q]
                   ELSE IF text # EmptyText THEN filteredStores[r] ELSE stores[r]]
    /\ UNCHANGED <<stores, filteredStores, text, fetched, rows, tapped, typedLate>>

(* A row that is scrolled out of sight gives its cell back. *)
HideRow(r) ==
    /\ r \in DOMAIN shown
    /\ shown' = [q \in DOMAIN shown \ {r} |-> shown[q]]
    /\ UNCHANGED <<stores, filteredStores, text, fetched, rows, tapped, typedLate>>

HandOn(r, list) ==
    /\ r \in DOMAIN shown
    /\ tapped' = [shown |-> shown[r],
                  passed |-> IF r \in DOMAIN list THEN list[r] ELSE Nothing]
    /\ UNCHANGED <<stores, filteredStores, text, fetched, rows, shown, typedLate>>

(* Slip: the filter is forgotten. *)
SelectUnfiltered(r) == HandOn(r, stores)

(* prepare(for:) hands the store of the tapped row to the next screen, looked up
   again at the row's index; Nothing stands for an index out of range. *)
Select(r) == HandOn(r, IF text # EmptyText THEN filteredStores ELSE stores)

Next ==
    \/ StoresArrive
    \/ \E txt \in Texts : Type(txt)
    \/ \E r \in 1..Cardinality(Stores) : ShowRow(r) \/ HideRow(r) \/ Select(r)

Spec == Init /\ [][Next]_vars

-----------------------------------------------------------------------------

(* Every row the table may ask for exists in both lists it is looked up in,
   although the table was told their number earlier: cellForRowAt never traps. *)
RowsExist ==
    \A r \in 1..rows : r \in DOMAIN stores /\ (text # EmptyText => r \in DOMAIN filteredStores)

(* The store handed to the next screen, looked up by the row's index when it is
   tapped, is the one that the row shows, looked up when it came into sight. *)
TappedIsShown == tapped.passed = tapped.shown

(* Once the stores are there, what the table counts is every store that matches
   the text: unless the text was typed before they came and left alone since. *)
ListIsComplete ==
    fetched =>
        /\ text = EmptyText => rows = Len(stores)
        /\ text # EmptyText /\ typedLate =>
              rows = Cardinality({r \in DOMAIN stores : stores[r] \in Matching[text]})

=============================================================================
