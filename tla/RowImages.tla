----------------------------- MODULE RowImages -----------------------------
(* The images in the rows of the iOS client's lists of stores and of groceries
   (Store/StoreCell.swift, Store/GroceryCell.swift).  A cell is given a row's
   item, asks for its image, and may be given another row's item before the
   image has come; the table reuses its cells as the user scrolls.  Requests end
   in any order, and what a cell does with an image does not depend on which
   item it is for by then. *)
EXTENDS Naturals

CONSTANTS
    Items,
    Pictured,                  \* the items whose URL is one
    StoreCells, GroceryCells,  \* the cells of either class
    Slots,                     \* bound: requests out at a time
    Nothing                    \* no item, no image

ASSUME ImagesAssumption ==
    /\ Pictured \subseteq Items
    /\ Nothing \notin Items \cup StoreCells \cup GroceryCells
    /\ StoreCells \cap GroceryCells = {}

Cells == StoreCells \cup GroceryCells

VARIABLES
    item,       \* cell -> its store or grocery
    image,      \* cell -> the item whose image it shows
    request,    \* the image requests that are out
    late,       \* history, per cell: another item's request was out when it got its item
    failed      \* history, per cell: a request for its item brought no data

vars == <<item, image, request, late, failed>>

Requests == [cell: Cells, for: Pictured]
NoRequest == [cell |-> Nothing, for |-> Nothing]

TypeOK ==
    /\ item \in [Cells -> Items \cup {Nothing}]
    /\ image \in [Cells -> Items \cup {Nothing}]
    /\ request \in [Slots -> Requests \cup {NoRequest}]
    /\ late \in [Cells -> BOOLEAN]
    /\ failed \in [Cells -> BOOLEAN]

Init ==
    /\ item = [c \in Cells |-> Nothing]
    /\ image = [c \in Cells |-> Nothing]
    /\ request = [s \in Slots |-> NoRequest]
    /\ late = [c \in Cells |-> FALSE]
    /\ failed = [c \in Cells |-> FALSE]

Out(c, i) == \E s \in Slots : request[s] = [cell |-> c, for |-> i]

Ask(c, i) ==
    \E s \in Slots : /\ request[s] = NoRequest
                     /\ request' = [request EXCEPT ![s] = [cell |-> c, for |-> i]]

(* What both classes do in didSet. *)
Become(c, i) ==
    /\ item' = [item EXCEPT ![c] = i]
    /\ late' = [late EXCEPT ![c] = \E j \in Items \ {i} : Out(c, j)]
    /\ failed' = [failed EXCEPT ![c] = FALSE]

(* Slip: the image of the row before stays until the next one comes. *)
BecomeStoreUncleared(c, i) ==
    /\ Become(c, i)
    /\ UNCHANGED image
    /\ IF i \in Pictured THEN Ask(c, i) ELSE UNCHANGED request

(* Slip: a URL is taken for one without a look. *)
BecomeStoreUnchecked(c, i) ==
    /\ Become(c, i)
    /\ image' = [image EXCEPT ![c] = Nothing]
    /\ Ask(c, i)

(* StoreCell.updateUI: the image is cleared, and asked for if there is a URL. *)
BecomeStore(c, i) ==
    /\ Become(c, i)
    /\ image' = [image EXCEPT ![c] = Nothing]
    /\ IF i \in Pictured THEN Ask(c, i) ELSE UNCHANGED request

(* GroceryCell.updateUI: the image of the row before stays, and the URL is
   unwrapped: a grocery without one would end the program. *)
BecomeGrocery(c, i) ==
    /\ i \in Pictured
    /\ Become(c, i)
    /\ Ask(c, i)
    /\ UNCHANGED image

End(s) == request[s] # NoRequest /\ request' = [request EXCEPT ![s] = NoRequest]

(* A response with data: the image, or none if the data is no image. *)
Receive(s) ==
    /\ End(s)
    /\ \E picture \in {request[s].for, Nothing} :
          image' = [image EXCEPT ![request[s].cell] = picture]
    /\ UNCHANGED <<item, late, failed>>

(* A response without data is passed over. *)
ReceiveNothing(s) ==
    /\ End(s)
    /\ LET c == request[s].cell
       IN  failed' = [failed EXCEPT ![c] = @ \/ item[c] = request[s].for]
    /\ UNCHANGED <<item, image, late>>

Next ==
    \/ \E i \in Items : \/ \E c \in StoreCells : BecomeStore(c, i)
                        \/ \E c \in GroceryCells : BecomeGrocery(c, i)
    \/ \E s \in Slots : Receive(s) \/ ReceiveNothing(s)

Spec == Init /\ [][Next]_vars

-----------------------------------------------------------------------------

(* A row shows the image of its own item or none.  A store's shows another one
   only if that one was still being fetched, for the row the cell had before,
   when the cell was reused (StoreCell.swift:35 does not look whose image it
   got).  A grocery's, which is not cleared, also shows it while its own is on
   its way, and for good if that fails. *)
ForeignImageIsExplained ==
    \A c \in Cells :
        image[c] \notin {Nothing, item[c]} =>
            \/ late[c]
            \/ c \in GroceryCells /\ (failed[c] \/ Out(c, item[c]))

=============================================================================
