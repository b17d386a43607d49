-------------------------------- MODULE Cart --------------------------------
(* The iOS client's cart (Customer/Cart.swift), one object for all screens, and
   the screens that fill and list it: Store/GroceryDetailViewController.swift and
   Customer/CartViewController.swift, up to the payment screen, whose button ends
   the program. What is put into the cart gets there when an animation ends, a
   second after the tap: the screen may be covered or gone by then, and the order
   in which animations end is not promised. Nothing in the source gives a detail
   screen its grocery and store; the model assumes that whoever opens it does, and
   that the storyboard connects the actions the classes declare. Prices, images
   and the map are left out. *)
EXTENDS Naturals, Sequences

CONSTANTS
    Offers,      \* records of a store and of the id of a grocery in it
    Nothing,
    MaxQuantity, \* 99 in the code
    MaxTaps      \* bound: taps on the button, per launch

ASSUME CartAssumption ==
    /\ \A o \in Offers : o = [store |-> o.store, grocery |-> o.grocery]
    /\ Nothing \notin Offers /\ \A o \in Offers : o.store # Nothing
    /\ MaxQuantity \in Nat \ {0}
    /\ MaxTaps \in Nat

VARIABLES
    store, items, address,   \* the cart; an item remembers the store it is from
    screen,      \* the screen on top: "ended" when the program is not running
    offer,       \* what the open detail screen offers
    quantity,    \* its quantity
    badge,       \* its badge, 0 when it has none
    alert,       \* the alert on it
    flying,      \* its animations towards the cart
    turning,     \* its animations of the cart's button
    strays,      \* animations towards the cart, of screens that are gone, by offer
    listed,      \* what the cart screen on top, or under the payment, lists
    kept,        \* what the cart screen in the tab bar listed when it was loaded
    taps,
    badgeOld,    \* history: a screen that is gone has changed the cart since the badge
    listOld,     \* history: the cart has changed since the list
    heard        \* history: a tap on the open detail screen landed in sight, and no
                 \* alert was cancelled since

cart == <<store, items, address>>
detail == <<offer, quantity, badge, alert, flying, turning, strays, badgeOld>>
lists == <<listed, kept, listOld>>
vars == <<cart, screen, detail, lists, taps, heard>>

StoresOf == {o.store : o \in Offers}
GroceriesOf == {o.grocery : o \in Offers}
Item == [store: StoresOf, grocery: GroceriesOf, quantity: Nat]
NoAlert == [kind |-> "none", index |-> 0]
AskNew == [kind |-> "new", index |-> 0]
AskMore(i) == [kind |-> "more", index |-> i]
NotLoaded == [loaded |-> FALSE, list |-> <<>>]
Loaded(list) == [loaded |-> TRUE, list |-> list]

(* All but the badge, whose type is that of a sum. *)
Types ==
    /\ store \in StoresOf \cup {Nothing}
    /\ items \in Seq(Item)
    /\ store = Nothing <=> items = <<>>
    /\ address \in {"nil", "empty", "given"}
    /\ screen \in {"shop", "detail", "cart", "tab", "payment", "tabPayment", "ended"}
    /\ offer \in Offers \cup {Nothing}
    /\ screen \in {"detail", "cart", "payment"} => offer # Nothing
    /\ quantity \in 0..MaxQuantity
    /\ alert \in [kind: {"none", "new", "more"}, index: Nat]
    /\ alert.kind # "none" => screen = "detail"
    /\ flying \in Nat /\ turning \in Nat
    /\ flying > 0 => offer # Nothing
    /\ strays \in [Offers -> Nat]
    /\ listed \in Seq(Item)
    /\ kept \in [loaded: BOOLEAN, list: Seq(Item)]
    /\ taps \in 0..MaxTaps
    /\ badgeOld \in BOOLEAN /\ listOld \in BOOLEAN /\ heard \in BOOLEAN

TypeOK == Types /\ badge \in Nat

Init ==
    /\ store = Nothing /\ items = <<>> /\ address = "nil"
    /\ screen = "shop"
    /\ offer = Nothing /\ quantity = 1 /\ badge = 0 /\ alert = NoAlert
    /\ flying = 0 /\ turning = 0
    /\ strays = [o \in Offers |-> 0]
    /\ listed = <<>> /\ kept = NotLoaded
    /\ taps = 0
    /\ badgeOld = FALSE /\ listOld = FALSE /\ heard = FALSE

TotalQuantity(list) ==
    LET total[n \in 0..Len(list)] ==
          IF n = 0 THEN 0 ELSE total[n - 1] + list[n].quantity
    IN  total[Len(list)]

(* Slip: the item put in last is compared only. *)
FoundLast(grocery) == {i \in DOMAIN items : i = Len(items) /\ items[i].grocery = grocery}

Found(grocery) == {i \in DOMAIN items : items[i].grocery = grocery}

(* CartItem.init ignores the quantity it is given: there is one of it. *)
ItemOf(o) == [store |-> o.store, grocery |-> o.grocery, quantity |-> 1]

-----------------------------------------------------------------------------

(* A detail screen comes up, with a badge when the cart has items. *)
OpenDetail(o) ==
    /\ screen = "shop"
    /\ screen' = "detail"
    /\ offer' = o /\ quantity' = 1
    /\ badge' = TotalQuantity(items) /\ badgeOld' = FALSE
    /\ alert' = NoAlert /\ flying' = 0 /\ turning' = 0
    /\ heard' = FALSE
    /\ UNCHANGED <<cart, strays, lists, taps>>

(* It goes; its animations end on their own. *)
CloseDetail ==
    /\ screen = "detail" /\ alert.kind = "none"
    /\ screen' = "shop"
    /\ offer' = Nothing
    /\ strays' = [strays EXCEPT ![offer] = @ + flying]
    /\ flying' = 0 /\ turning' = 0
    /\ heard' = FALSE
    /\ UNCHANGED <<cart, quantity, badge, alert, badgeOld, lists, taps>>

AddQuantity ==
    /\ screen = "detail" /\ alert.kind = "none"
    /\ quantity < MaxQuantity
    /\ quantity' = quantity + 1
    /\ UNCHANGED <<cart, screen, offer, badge, alert, flying, turning, strays, badgeOld, lists, taps, heard>>

DecreasedQuantity ==
    /\ screen = "detail" /\ alert.kind = "none"
    /\ quantity > 0
    /\ quantity' = quantity - 1
    /\ UNCHANGED <<cart, screen, offer, badge, alert, flying, turning, strays, badgeOld, lists, taps, heard>>

(* The tap only starts the two animations. *)
AddToCart ==
    /\ screen = "detail" /\ alert.kind = "none"
    /\ taps < MaxTaps
    /\ taps' = taps + 1
    /\ flying' = flying + 1
    /\ turning' = turning + 1
    /\ UNCHANGED <<cart, screen, offer, quantity, badge, alert, strays, badgeOld, lists, heard>>

(* Slip: the grocery is appended whatever store the cart is of. *)
LandedAnywhere(o, presenting) ==
    \/ /\ Found(o.grocery) = {}
       /\ store' = IF store = Nothing THEN o.store ELSE store
       /\ items' = Append(items, ItemOf(o))
       /\ UNCHANGED alert
    \/ /\ Found(o.grocery) # {}
       /\ alert' = IF presenting
                   THEN AskMore(CHOOSE i \in Found(o.grocery) : TRUE)
                   ELSE alert
       /\ UNCHANGED <<store, items>>

(* Slip: a new grocery is put in first. *)
LandedFirst(o, presenting) ==
    \/ /\ store = Nothing \/ (store = o.store /\ Found(o.grocery) = {})
       /\ store' = o.store
       /\ items' = <<ItemOf(o)>> \o items
       /\ UNCHANGED alert
    \/ /\ store = o.store /\ Found(o.grocery) # {}
       /\ alert' = IF presenting
                   THEN AskMore(CHOOSE i \in Found(o.grocery) : TRUE)
                   ELSE alert
       /\ UNCHANGED <<store, items>>
    \/ /\ store \notin {Nothing, o.store}
       /\ alert' = IF presenting THEN AskNew ELSE alert
       /\ UNCHANGED <<store, items>>

(* The grocery has reached the button: it is put in, unless the cart has it or is
   of another store; then an alert asks, which comes up only on a screen that is
   in sight and has none. The index it will use is the one found now. *)
Landed(o, presenting) ==
    \/ /\ store = Nothing \/ (store = o.store /\ Found(o.grocery) = {})
       /\ store' = o.store
       /\ items' = Append(items, ItemOf(o))
       /\ UNCHANGED alert
    \/ /\ store = o.store /\ Found(o.grocery) # {}
       /\ alert' = IF presenting
                   THEN AskMore(CHOOSE i \in Found(o.grocery) : TRUE)
                   ELSE alert
       /\ UNCHANGED <<store, items>>
    \/ /\ store \notin {Nothing, o.store}
       /\ alert' = IF presenting THEN AskNew ELSE alert
       /\ UNCHANGED <<store, items>>

(* The end of an animation of the open screen, which may be covered. *)
Land ==
    /\ flying > 0
    /\ flying' = flying - 1
    /\ Landed(offer, screen = "detail" /\ alert.kind = "none")
    /\ badge' = TotalQuantity(items') /\ badgeOld' = FALSE
    /\ listOld' = (listOld \/ items' # items)
    /\ heard' = (heard \/ (screen = "detail" /\ alert.kind = "none"))
    /\ UNCHANGED <<address, screen, offer, quantity, turning, strays, listed, kept, taps>>

(* The end of an animation of a screen that is gone: no alert can come up. *)
LandStray(o) ==
    /\ strays[o] > 0
    /\ strays' = [strays EXCEPT ![o] = @ - 1]
    /\ Landed(o, FALSE)
    /\ badgeOld' = (badgeOld \/ items' # items)
    /\ listOld' = (listOld \/ items' # items)
    /\ UNCHANGED <<address, screen, offer, quantity, badge, flying, turning, listed, kept, taps, heard>>

(* The button has turned: the badge is brought up to date. *)
Turned ==
    /\ turning > 0
    /\ turning' = turning - 1
    /\ badge' = TotalQuantity(items) /\ badgeOld' = FALSE
    /\ UNCHANGED <<cart, screen, offer, quantity, alert, flying, strays, lists, taps, heard>>

(* Slip: the button is not turned. *)
SureQuietly ==
    /\ alert.kind = "more"
    /\ items' = [items EXCEPT ![alert.index].quantity = @ + quantity]
    /\ alert' = NoAlert
    /\ UNCHANGED <<store, address, screen, offer, quantity, badge, flying, turning, strays, badgeOld, lists, taps, heard>>

(* Sure! to more of the same. *)
SureMore ==
    /\ alert.kind = "more"
    /\ items' = [items EXCEPT ![alert.index].quantity = @ + quantity]
    /\ alert' = NoAlert
    /\ turning' = turning + 1
    /\ UNCHANGED <<store, address, screen, offer, quantity, badge, flying, strays, badgeOld, lists, taps, heard>>

(* Slip: the cart is reset after it is filled. *)
SureNewReset ==
    /\ alert.kind = "new"
    /\ store' = Nothing /\ address' = "nil"
    /\ items' = <<>>
    /\ alert' = NoAlert
    /\ turning' = turning + 1
    /\ UNCHANGED <<screen, offer, quantity, badge, flying, strays, badgeOld, lists, taps, heard>>

(* Slip: the cart's store is left as reset leaves it. *)
SureNewStoreless ==
    /\ alert.kind = "new"
    /\ store' = Nothing /\ address' = "nil"
    /\ items' = <<ItemOf(offer)>>
    /\ alert' = NoAlert
    /\ turning' = turning + 1
    /\ UNCHANGED <<screen, offer, quantity, badge, flying, strays, badgeOld, lists, taps, heard>>

(* Sure! to a new cart: it is reset, then filled. *)
SureNew ==
    /\ alert.kind = "new"
    /\ store' = offer.store /\ address' = "nil"
    /\ items' = <<ItemOf(offer)>>
    /\ alert' = NoAlert
    /\ turning' = turning + 1
    /\ UNCHANGED <<screen, offer, quantity, badge, flying, strays, badgeOld, lists, taps, heard>>

Cancel ==
    /\ alert.kind # "none"
    /\ alert' = NoAlert /\ heard' = FALSE
    /\ UNCHANGED <<cart, screen, offer, quantity, badge, flying, turning, strays, badgeOld, lists, taps>>

-----------------------------------------------------------------------------

(* Slip: a list that was loaded once is kept. *)
OpenCartOnce ==
    /\ screen = "detail" /\ alert.kind = "none"
    /\ screen' = "cart"
    /\ listed' = IF listed = <<>> THEN items ELSE listed
    /\ listOld' = FALSE
    /\ UNCHANGED <<cart, detail, kept, taps, heard>>

(* The cart screen over a detail screen is a new one and lists the cart. *)
OpenCart ==
    /\ screen = "detail" /\ alert.kind = "none"
    /\ screen' = "cart"
    /\ listed' = items /\ listOld' = FALSE
    /\ UNCHANGED <<cart, detail, kept, taps, heard>>

(* The one in the tab bar is loaded the first time and stays as it is. *)
OpenTab ==
    /\ screen = "shop"
    /\ screen' = "tab"
    /\ IF ~kept.loaded
       THEN listed' = items /\ kept' = Loaded(items) /\ listOld' = FALSE
       ELSE listed' = kept.list /\ listOld' = TRUE /\ UNCHANGED kept
    /\ UNCHANGED <<cart, detail, taps, heard>>

CloseCart ==
    /\ screen \in {"cart", "tab"}
    /\ screen' = IF screen = "cart" THEN "detail" ELSE "shop"
    /\ UNCHANGED <<cart, detail, lists, taps, heard>>

(* textFieldShouldReturn: the address is the field's text, empty or not; there is
   a field only on a screen that was loaded with items. *)
EnterAddress(text) ==
    /\ screen \in {"cart", "tab"} /\ listed # <<>>
    /\ address' = text
    /\ UNCHANGED <<store, items, screen, detail, lists, taps, heard>>

AtPayment == screen \in {"payment", "tabPayment"}

(* Slip: the button is there for an empty cart, too. *)
AddPaymentAlways ==
    /\ screen \in {"cart", "tab"}
    /\ address' = "given"
    /\ screen' = IF screen = "cart" THEN "payment" ELSE "tabPayment"
    /\ UNCHANGED <<store, items, detail, lists, taps, heard>>

(* addPayment, with a text in the field; without one it only says so. Its button,
   too, is there only on a screen that was loaded with items. *)
AddPayment ==
    /\ screen \in {"cart", "tab"} /\ listed # <<>>
    /\ address' = "given"
    /\ screen' = IF screen = "cart" THEN "payment" ELSE "tabPayment"
    /\ UNCHANGED <<store, items, detail, lists, taps, heard>>

(* The payment screen is put away, and the cart screen it came from is there. *)
ClosePayment ==
    /\ AtPayment
    /\ screen' = IF screen = "payment" THEN "cart" ELSE "tab"
    /\ UNCHANGED <<cart, detail, lists, taps, heard>>

(* The program ends, and with it everything, which is only in memory. *)
Ended ==
    /\ screen' = "ended"
    /\ store' = Nothing /\ items' = <<>> /\ address' = "nil"
    /\ offer' = Nothing /\ quantity' = 1 /\ badge' = 0 /\ alert' = NoAlert
    /\ flying' = 0 /\ turning' = 0
    /\ strays' = [o \in Offers |-> 0]
    /\ listed' = <<>> /\ kept' = NotLoaded
    /\ taps' = 0
    /\ badgeOld' = FALSE /\ listOld' = FALSE /\ heard' = FALSE

(* Both placing an order and the screen that tracks it first ask for the latest
   order of the current user, and unwrap an id which no code sets. *)
PlaceOrder == AtPayment /\ Ended
OpenTrack == screen = "shop" /\ Ended

Relaunch ==
    /\ screen = "ended"
    /\ screen' = "shop"
    /\ UNCHANGED <<cart, detail, lists, taps, heard>>

Next ==
    \/ \E o \in Offers : OpenDetail(o) \/ LandStray(o)
    \/ CloseDetail \/ AddQuantity \/ DecreasedQuantity \/ AddToCart
    \/ Land \/ Turned
    \/ SureMore \/ SureNew \/ Cancel
    \/ OpenCart \/ OpenTab \/ CloseCart
    \/ \E text \in {"empty", "given"} : EnterAddress(text)
    \/ AddPayment \/ ClosePayment \/ PlaceOrder
    \/ OpenTrack \/ Relaunch

Spec == Init /\ [][Next]_vars

-----------------------------------------------------------------------------

(* Whatever screens the groceries in the cart were tapped on, and however late
   they got there, all of them are from the cart's store ("Ensure store = cart's
   store"). *)
OneStore == \A i \in DOMAIN items : items[i].store = store

(* A grocery is in the cart once, however fast it was tapped: more of it is more
   of the same item. *)
AddedOnce ==
    \A i, j \in DOMAIN items : items[i].grocery = items[j].grocery => i = j

(* The index an alert has captured is still, when the user answers, that of the
   grocery the alert is about. *)
AlertIsCurrent ==
    alert.kind = "more" =>
        /\ alert.index \in DOMAIN items
        /\ items[alert.index].grocery = offer.grocery

(* A tap gets its grocery into the cart, to stay there while its screen is open,
   whatever else lands and whatever the alerts of other taps are answered, unless
   an alert is cancelled: a tap is swallowed only if it lands while an alert is up
   or the screen covered, when its own alert cannot come up. *)
TapGetsThere ==
    heard /\ alert.kind = "none" =>
        \E i \in DOMAIN items : items[i].store = offer.store /\ items[i].grocery = offer.grocery

(* Once the button of the cart has come to rest, its badge is the number of things
   in the cart: unless a screen that is gone has put something in meanwhile. *)
BadgeIsRight ==
    screen = "detail" /\ turning = 0 /\ ~badgeOld => badge = TotalQuantity(items)

(* What is about to be paid is what the cart screen has listed, also when the user
   has gone back and forth: unless something has landed in between or the screen
   is the tab bar's, loaded long ago. *)
ListedIsPaid ==
    (screen \in {"cart", "tab"} \/ AtPayment) /\ ~listOld => listed = items

(* Whoever gets to the payment has a store, items and an address in the cart, also
   by the button of the tab bar's screen, which was shown for the cart of the time
   it was loaded: a new cart has no address until that screen gives it one. *)
PaymentIsReady ==
    AtPayment => store # Nothing /\ items # <<>> /\ address = "given"

(* The payment screen's button leads to a new order or to a word about the open
   one ("if the latest order is complete || nil then create a new order"): it does
   not end the program. *)
PlacingGoesOn == [][AtPayment => screen' # "ended"]_vars

=============================================================================
