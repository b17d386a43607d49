----------------------------- MODULE Cart_proofs -----------------------------
(* The cart for any offers, any number of taps in flight and any limit of the
   quantity: its groceries are of one store and in it once, the index an alert
   has captured stays right, the badge counts what is in it, and the payment is
   of what was listed. The number on the badge is a sum along the cart; a fact
   about it is proved by looking at the shortest beginning of the cart for which
   it would fail. *)
EXTENDS Cart, WellFoundedInduction, TLAPS

(* A screen that lists something lists it of a cart that is not empty. *)
ListsAreOfTheCart ==
    /\ screen \in {"cart", "tab"} /\ listed # <<>> => items # <<>>
    /\ AtPayment => listed # <<>>
    /\ kept.list # <<>> => items # <<>>

IInv ==
    /\ Types
    /\ OneStore /\ AddedOnce
    /\ AlertIsCurrent
    /\ ListsAreOfTheCart /\ ListedIsPaid /\ PaymentIsReady

-----------------------------------------------------------------------------

(* What is put in comes after what the cart has, and is typed like it. *)
LEMMA ItemTyped == ASSUME NEW o \in Offers PROVE ItemOf(o) \in Item
BY DEF ItemOf, Item, StoresOf, GroceriesOf

(* The end of an animation, of whatever screen: the cart keeps what it has where
   it is, and an alert that comes up has found the grocery it is about. *)
LEMMA LandedKeeps ==
    ASSUME Types, OneStore, AddedOnce, AlertIsCurrent,
           NEW o \in Offers, NEW presenting \in BOOLEAN,
           presenting => o = offer,
           Landed(o, presenting)
    PROVE  /\ store' \in StoresOf
           /\ items' \in Seq(Item) /\ items' # <<>>
           /\ \A i \in DOMAIN items : i \in DOMAIN items' /\ items'[i] = items[i]
           /\ \A i \in DOMAIN items' : items'[i].store = store'
           /\ AddedOnce'
           /\ alert' \in [kind: {"none", "new", "more"}, index: Nat]
           /\ alert'.kind # "none" => alert.kind # "none" \/ presenting
           /\ alert'.kind = "more" =>
                 /\ alert'.index \in DOMAIN items'
                 /\ items'[alert'.index].grocery = offer.grocery
<1> USE DEF Types, OneStore, AddedOnce, AlertIsCurrent
<1>0. o.store \in StoresOf /\ o.store # Nothing
  BY CartAssumption DEF StoresOf
<1>1. CASE /\ store = Nothing \/ (store = o.store /\ Found(o.grocery) = {})
           /\ store' = o.store
           /\ items' = Append(items, ItemOf(o))
           /\ UNCHANGED alert
  <2>1. ItemOf(o) \in Item /\ ItemOf(o).store = o.store /\ ItemOf(o).grocery = o.grocery
    BY ItemTyped DEF ItemOf
  <2>2. /\ items' \in Seq(Item) /\ items' # <<>>
        /\ DOMAIN items = 1..Len(items) /\ Len(items) \in Nat
        /\ DOMAIN items' = 1..(Len(items) + 1)
        /\ items'[Len(items) + 1] = ItemOf(o)
        /\ \A i \in 1..Len(items) : items'[i] = items[i]
    BY <1>1, <2>1
  <2>3. \A i \in DOMAIN items : i \in DOMAIN items' /\ items'[i] = items[i]
    BY <2>2
  <2>4. \A i \in DOMAIN items : items[i].store = o.store /\ items[i].grocery # o.grocery
    BY <1>1, <2>2 DEF Found
  <2>5. \A i \in DOMAIN items' : i \in DOMAIN items \/ i = Len(items) + 1
    BY <2>2
  <2>6. \A i \in DOMAIN items' : items'[i].store = store'
    BY <1>1, <2>1, <2>2, <2>3, <2>4, <2>5
  <2>7. AddedOnce'
    BY <2>1, <2>2, <2>3, <2>4, <2>5
  <2> QED BY <1>0, <1>1, <2>2, <2>3, <2>6, <2>7
<1>2. CASE /\ store = o.store /\ Found(o.grocery) # {}
           /\ alert' = IF presenting
                       THEN AskMore(CHOOSE i \in Found(o.grocery) : TRUE)
                       ELSE alert
           /\ UNCHANGED <<store, items>>
  <2>1. PICK i \in Found(o.grocery) : i = CHOOSE j \in Found(o.grocery) : TRUE
    BY <1>2
  <2>2. i \in DOMAIN items /\ i \in Nat /\ items[i].grocery = o.grocery
    BY <2>1 DEF Found
  <2> QED BY <1>0, <1>2, <2>1, <2>2 DEF AskMore
<1>3. CASE /\ store \notin {Nothing, o.store}
           /\ alert' = IF presenting THEN AskNew ELSE alert
           /\ UNCHANGED <<store, items>>
  BY <1>3 DEF AskNew
<1> QED BY <1>1, <1>2, <1>3 DEF Landed

-----------------------------------------------------------------------------

(* The invariant holds of a program without a past, running or not. *)
Fresh ==
    /\ store = Nothing /\ items = <<>> /\ address = "nil"
    /\ screen \in {"shop", "ended"}
    /\ offer = Nothing /\ quantity = 1 /\ badge = 0 /\ alert = NoAlert
    /\ flying = 0 /\ turning = 0
    /\ strays = [o \in Offers |-> 0]
    /\ listed = <<>> /\ kept = NotLoaded
    /\ taps = 0
    /\ badgeOld = FALSE /\ listOld = FALSE /\ heard = FALSE

LEMMA InvFresh == Fresh => IInv
<1> SUFFICES ASSUME Fresh PROVE IInv
  OBVIOUS
<1>1. <<>> \in Seq(Item) /\ DOMAIN <<>> = {}
  OBVIOUS
<1>2. 1 \in 0..MaxQuantity /\ 0 \in 0..MaxTaps
  BY CartAssumption
<1>3. /\ NoAlert \in [kind: {"none", "new", "more"}, index: Nat]
      /\ NotLoaded \in [loaded: BOOLEAN, list: Seq(Item)]
      /\ NoAlert.kind = "none"
  BY <1>1 DEF NoAlert, NotLoaded
<1>4. strays \in [Offers -> Nat]
  BY DEF Fresh
<1>5. items \in Seq(Item) /\ listed \in Seq(Item) /\ items = <<>> /\ listed = <<>>
  BY <1>1 DEF Fresh
<1>6. /\ alert \in [kind: {"none", "new", "more"}, index: Nat] /\ alert.kind = "none"
      /\ kept \in [loaded: BOOLEAN, list: Seq(Item)] /\ kept.list = <<>>
  BY <1>3 DEF Fresh, NotLoaded
<1>7. /\ store = Nothing /\ offer = Nothing /\ screen \in {"shop", "ended"}
      /\ address = "nil"
      /\ quantity \in 0..MaxQuantity /\ taps \in 0..MaxTaps
      /\ flying = 0 /\ turning = 0
      /\ badgeOld = FALSE /\ listOld = FALSE /\ heard = FALSE
  BY <1>2 DEF Fresh
<1>8. Types
  <2>1. /\ store = Nothing <=> items = <<>>
        /\ screen \in {"detail", "cart", "payment"} => offer # Nothing
        /\ alert.kind # "none" => screen = "detail"
        /\ flying > 0 => offer # Nothing
    BY <1>5, <1>6, <1>7
  <2>2. flying \in Nat /\ turning \in Nat
    BY <1>7
  <2> QED BY <1>4, <1>5, <1>6, <1>7, <2>1, <2>2 DEF Types
<1> QED BY <1>1, <1>5, <1>6, <1>7, <1>8 DEF IInv, OneStore, AddedOnce, AlertIsCurrent,
           ListsAreOfTheCart, ListedIsPaid, PaymentIsReady, AtPayment

LEMMA InvInit == Init => IInv
BY InvFresh DEF Init, Fresh

(* However the program ends, it leaves nothing behind. *)
LEMMA EndedKeeps == Ended => IInv'
<1>1. Ended => Fresh'
  BY DEF Ended, Fresh
<1>2. Fresh' => IInv'
  BY InvFresh, PTL
<1> QED BY <1>1, <1>2

(* Every step keeps it. *)
LEMMA InvNext == IInv /\ [Next]_vars => IInv'
<1> SUFFICES ASSUME IInv, [Next]_vars PROVE IInv'
  OBVIOUS
<1> USE DEF IInv
<1>0. CASE UNCHANGED vars
  BY <1>0 DEF vars, cart, detail, lists, Types, OneStore, AddedOnce, AlertIsCurrent,
     ListsAreOfTheCart, ListedIsPaid, PaymentIsReady, AtPayment
<1>1. ASSUME NEW o \in Offers, OpenDetail(o) PROVE IInv'
  <2>1. 1 \in 0..MaxQuantity /\ o # Nothing
    BY CartAssumption
  <2>2. Types'
    BY <1>1, <2>1 DEF OpenDetail, cart, lists, Types, NoAlert
  <2> QED BY <1>1, <2>2 DEF OpenDetail, cart, lists, OneStore, AddedOnce, AlertIsCurrent,
             ListsAreOfTheCart, ListedIsPaid, PaymentIsReady, AtPayment, NoAlert
<1>2. ASSUME NEW o \in Offers, LandStray(o) PROVE IInv'
  <2>1. /\ store' \in StoresOf
        /\ items' \in Seq(Item) /\ items' # <<>>
        /\ \A i \in DOMAIN items' : items'[i].store = store'
        /\ AddedOnce'
        /\ alert' \in [kind: {"none", "new", "more"}, index: Nat]
        /\ alert'.kind # "none" => alert.kind # "none"
        /\ alert'.kind = "more" =>
              /\ alert'.index \in DOMAIN items'
              /\ items'[alert'.index].grocery = offer.grocery
    BY <1>2, LandedKeeps DEF LandStray
  <2>2. Nothing \notin StoresOf
    BY CartAssumption DEF StoresOf
  <2>3. Types'
    BY <1>2, <2>1, <2>2 DEF LandStray, Types
  <2>4. OneStore' /\ AlertIsCurrent'
    BY <1>2, <2>1 DEF LandStray, OneStore, AlertIsCurrent
  <2>5. ListsAreOfTheCart' /\ PaymentIsReady'
    BY <1>2, <2>1, <2>2 DEF LandStray, ListsAreOfTheCart, PaymentIsReady, AtPayment
  <2>6. ListedIsPaid'
    BY <1>2 DEF LandStray, ListedIsPaid, AtPayment, Types
  <2> QED BY <2>1, <2>3, <2>4, <2>5, <2>6
<1>3. CASE CloseDetail
  <2>1. strays' \in [Offers -> Nat]
    BY <1>3 DEF CloseDetail, Types
  <2>2. /\ flying' = 0 /\ turning' = 0 /\ heard' = FALSE
        /\ screen' = "shop" /\ offer' = Nothing /\ alert.kind = "none"
        /\ UNCHANGED <<cart, quantity, alert, badgeOld, lists, taps>>
    BY <1>3 DEF CloseDetail
  <2>3. Types'
    <3>1. flying' \in Nat /\ turning' \in Nat /\ ~(flying' > 0)
      BY <2>2
    <3>2. heard' \in BOOLEAN /\ badgeOld' \in BOOLEAN /\ listOld' \in BOOLEAN
      BY <2>2 DEF lists, Types
    <3>3. /\ store' \in StoresOf \cup {Nothing} /\ items' \in Seq(Item)
          /\ store' = Nothing <=> items' = <<>>
          /\ address' \in {"nil", "empty", "given"}
      BY <2>2 DEF cart, Types
    <3>4. /\ listed' \in Seq(Item) /\ kept' \in [loaded: BOOLEAN, list: Seq(Item)]
          /\ quantity' \in 0..MaxQuantity /\ taps' \in 0..MaxTaps
          /\ alert' \in [kind: {"none", "new", "more"}, index: Nat]
      BY <2>2 DEF lists, Types
    <3>5. /\ screen' \in {"shop", "detail", "cart", "tab", "payment", "tabPayment", "ended"}
          /\ offer' \in Offers \cup {Nothing}
          /\ screen' \in {"detail", "cart", "payment"} => offer' # Nothing
          /\ alert'.kind # "none" => screen' = "detail"
          /\ flying' > 0 => offer' # Nothing
      BY <2>2, <3>1
    <3> QED BY <2>1, <3>1, <3>2, <3>3, <3>4, <3>5 DEF Types
  <2>4. OneStore' /\ AddedOnce'
    BY <2>2 DEF cart, OneStore, AddedOnce
  <2>5. AlertIsCurrent'
    BY <2>2 DEF AlertIsCurrent
  <2>6. ListsAreOfTheCart'
    BY <2>2 DEF cart, lists, ListsAreOfTheCart, AtPayment
  <2>7. ListedIsPaid' /\ PaymentIsReady'
    BY <2>2 DEF ListedIsPaid, PaymentIsReady, AtPayment
  <2> QED BY <2>3, <2>4, <2>5, <2>6, <2>7
<1>4. CASE AddQuantity \/ DecreasedQuantity
  <2>1. quantity' \in 0..MaxQuantity
    BY <1>4, CartAssumption DEF AddQuantity, DecreasedQuantity, Types
  <2>2. UNCHANGED <<cart, screen, offer, alert, flying, turning, strays, badgeOld, lists, taps, heard>>
    BY <1>4 DEF AddQuantity, DecreasedQuantity
  <2>3. Types'
    BY <2>1, <2>2 DEF cart, lists, Types
  <2> QED BY <2>2, <2>3 DEF cart, lists, OneStore, AddedOnce, AlertIsCurrent,
             ListsAreOfTheCart, ListedIsPaid, PaymentIsReady, AtPayment
<1>5. CASE AddToCart
  <2>1. taps' \in 0..MaxTaps /\ flying' \in Nat /\ turning' \in Nat /\ offer # Nothing
    BY <1>5, CartAssumption DEF AddToCart, Types
  <2>2. UNCHANGED <<cart, screen, offer, quantity, alert, strays, badgeOld, lists, heard>>
    BY <1>5 DEF AddToCart
  <2>3. Types'
    BY <2>1, <2>2 DEF cart, lists, Types
  <2> QED BY <2>2, <2>3 DEF cart, lists, OneStore, AddedOnce, AlertIsCurrent,
             ListsAreOfTheCart, ListedIsPaid, PaymentIsReady, AtPayment
<1>6. CASE Land
  <2>0. offer \in Offers /\ (screen = "detail" /\ alert.kind = "none") \in BOOLEAN
    BY <1>6 DEF Land, Types
  <2>1. /\ store' \in StoresOf
        /\ items' \in Seq(Item) /\ items' # <<>>
        /\ \A i \in DOMAIN items' : items'[i].store = store'
        /\ AddedOnce'
        /\ alert' \in [kind: {"none", "new", "more"}, index: Nat]
        /\ alert'.kind # "none" => alert.kind # "none" \/ screen = "detail"
        /\ alert'.kind = "more" =>
              /\ alert'.index \in DOMAIN items'
              /\ items'[alert'.index].grocery = offer.grocery
    BY <1>6, <2>0, LandedKeeps DEF Land
  <2>2. Nothing \notin StoresOf
    BY CartAssumption DEF StoresOf
  <2>3. Types'
    <3>1. flying' \in Nat /\ offer' # Nothing
      BY <1>6, <2>0, CartAssumption DEF Land, Types
    <3> QED BY <1>6, <2>0, <2>1, <2>2, <3>1 DEF Land, Types
  <2>4. OneStore' /\ AlertIsCurrent'
    BY <1>6, <2>1 DEF Land, OneStore, AlertIsCurrent
  <2>5. ListsAreOfTheCart' /\ PaymentIsReady'
    BY <1>6, <2>1, <2>2 DEF Land, ListsAreOfTheCart, PaymentIsReady, AtPayment
  <2>6. ListedIsPaid'
    BY <1>6 DEF Land, ListedIsPaid, AtPayment, Types
  <2> QED BY <2>1, <2>3, <2>4, <2>5, <2>6
<1>7. CASE Turned \/ Cancel
  <2>1. turning' \in Nat
    BY <1>7 DEF Turned, Cancel, Types
  <2>2. /\ alert' \in [kind: {"none", "new", "more"}, index: Nat]
        /\ alert'.kind = "none" \/ alert' = alert
    BY <1>7 DEF Turned, Cancel, Types, NoAlert
  <2>3. badgeOld' \in BOOLEAN /\ heard' \in BOOLEAN
    BY <1>7 DEF Turned, Cancel, Types
  <2>4. UNCHANGED <<cart, screen, offer, quantity, flying, strays, lists, taps>>
    BY <1>7 DEF Turned, Cancel
  <2>5. Types'
    BY <2>1, <2>2, <2>3, <2>4 DEF cart, lists, Types
  <2> QED BY <2>2, <2>4, <2>5 DEF cart, lists, OneStore, AddedOnce, AlertIsCurrent,
             ListsAreOfTheCart, ListedIsPaid, PaymentIsReady, AtPayment
<1>8. CASE SureMore
  <2>1. alert.index \in DOMAIN items /\ screen = "detail"
    BY <1>8 DEF SureMore, AlertIsCurrent, Types
  <2>2. items[alert.index] \in Item /\ quantity \in Nat
    BY <2>1, CartAssumption DEF Types
  <2>3. /\ items' \in Seq(Item) /\ items' # <<>> /\ DOMAIN items' = DOMAIN items
        /\ \A i \in DOMAIN items : /\ items'[i].store = items[i].store
                                   /\ items'[i].grocery = items[i].grocery
    <3> DEFINE more == [items[alert.index] EXCEPT !.quantity = @ + quantity]
    <3>1. more \in Item /\ more.store = items[alert.index].store
                        /\ more.grocery = items[alert.index].grocery
      BY <2>2 DEF Item
    <3>2. items' = [items EXCEPT ![alert.index] = more]
      BY <1>8 DEF SureMore
    <3> HIDE DEF more
    <3>3. items \in Seq(Item) /\ DOMAIN items = 1..Len(items)
      BY DEF Types
    <3>4. items' \in Seq(Item) /\ DOMAIN items' = DOMAIN items
      BY <2>1, <3>1, <3>2, <3>3
    <3> QED BY <2>1, <3>1, <3>2, <3>3, <3>4
  <2>4. Types'
    BY <1>8, <2>1, <2>3 DEF SureMore, Types, NoAlert, lists
  <2> QED BY <1>8, <2>1, <2>3, <2>4 DEF SureMore, lists, OneStore, AddedOnce, AlertIsCurrent,
             ListsAreOfTheCart, ListedIsPaid, PaymentIsReady, AtPayment, NoAlert
<1>9. CASE SureNew
  <2>1. screen = "detail" /\ offer \in Offers
    BY <1>9 DEF SureNew, Types
  <2>2. offer.store \in StoresOf /\ offer.store # Nothing
    BY <2>1, CartAssumption DEF StoresOf
  <2>3. /\ items' \in Seq(Item) /\ items' # <<>> /\ DOMAIN items' = {1}
        /\ items'[1].store = store'
    BY <1>9, <2>1, ItemTyped DEF SureNew, ItemOf
  <2>4. Types'
    BY <1>9, <2>1, <2>2, <2>3 DEF SureNew, Types, NoAlert, lists
  <2> QED BY <1>9, <2>1, <2>3, <2>4 DEF SureNew, lists, OneStore, AddedOnce, AlertIsCurrent,
             ListsAreOfTheCart, ListedIsPaid, PaymentIsReady, AtPayment, NoAlert
<1>10. CASE OpenCart
  BY <1>10 DEF OpenCart, cart, detail, Types, OneStore, AddedOnce, AlertIsCurrent,
     ListsAreOfTheCart, ListedIsPaid, PaymentIsReady, AtPayment
<1>11. CASE OpenTab
  <2>1. /\ listed' \in Seq(Item) /\ kept' \in [loaded: BOOLEAN, list: Seq(Item)]
        /\ listOld' \in BOOLEAN
    <3>1. items \in Seq(Item) /\ kept.list \in Seq(Item)
      BY DEF Types
    <3>2. Loaded(items) \in [loaded: BOOLEAN, list: Seq(Item)]
      BY <3>1 DEF Loaded
    <3>3. CASE ~kept.loaded
      BY <1>11, <3>1, <3>2, <3>3 DEF OpenTab
    <3>4. CASE kept.loaded
      BY <1>11, <3>1, <3>4 DEF OpenTab, Types
    <3> QED BY <3>3, <3>4 DEF Types
  <2>2. /\ listed' # <<>> => items # <<>>
        /\ kept'.list # <<>> => items # <<>>
        /\ ~listOld' => listed' = items
    BY <1>11 DEF OpenTab, Types, Loaded, ListsAreOfTheCart
  <2>3. Types'
    BY <1>11, <2>1 DEF OpenTab, cart, detail, Types
  <2> QED BY <1>11, <2>2, <2>3 DEF OpenTab, cart, detail, OneStore, AddedOnce, AlertIsCurrent,
             ListsAreOfTheCart, ListedIsPaid, PaymentIsReady, AtPayment
<1>12. CASE CloseCart
  BY <1>12 DEF CloseCart, cart, detail, lists, Types, OneStore, AddedOnce, AlertIsCurrent,
     ListsAreOfTheCart, ListedIsPaid, PaymentIsReady, AtPayment
<1>13. ASSUME NEW text \in {"empty", "given"}, EnterAddress(text) PROVE IInv'
  BY <1>13 DEF EnterAddress, detail, lists, Types, OneStore, AddedOnce, AlertIsCurrent,
     ListsAreOfTheCart, ListedIsPaid, PaymentIsReady, AtPayment
<1>14. CASE AddPayment
  BY <1>14 DEF AddPayment, detail, lists, Types, OneStore, AddedOnce, AlertIsCurrent,
     ListsAreOfTheCart, ListedIsPaid, PaymentIsReady, AtPayment
<1>15. CASE ClosePayment
  BY <1>15 DEF ClosePayment, cart, detail, lists, Types, OneStore, AddedOnce, AlertIsCurrent,
     ListsAreOfTheCart, ListedIsPaid, PaymentIsReady, AtPayment
<1>16. CASE PlaceOrder \/ OpenTrack
  <2>1. Ended
    BY <1>16 DEF PlaceOrder, OpenTrack
  <2> QED BY <2>1, EndedKeeps
<1>17. CASE Relaunch
  BY <1>17 DEF Relaunch, cart, detail, lists, Types, OneStore, AddedOnce, AlertIsCurrent,
     ListsAreOfTheCart, ListedIsPaid, PaymentIsReady, AtPayment
<1> QED
  BY <1>0, <1>1, <1>2, <1>3, <1>4, <1>5, <1>6, <1>7, <1>8, <1>9, <1>10, <1>11, <1>12, <1>13,
     <1>14, <1>15, <1>16, <1>17 DEF Next

-----------------------------------------------------------------------------

InCart(o) == \E i \in DOMAIN items : items[i].store = o.store /\ items[i].grocery = o.grocery

(* A tap that landed in sight is in the cart, or the question of a new cart is up. *)
HeardIsKept ==
    /\ heard => offer # Nothing
    /\ heard /\ alert.kind # "new" => InCart(offer)
    /\ alert.kind = "more" => offer.store = store

(* More of an item is an item of the same store and grocery. *)
LEMMA MoreIsInCart ==
    ASSUME Types, AlertIsCurrent, SureMore, NEW o \in Offers, InCart(o)
    PROVE  InCart(o)'
<1>1. DOMAIN items' = DOMAIN items
  BY DEF SureMore, Types
<1>2. ASSUME NEW i \in DOMAIN items
      PROVE  items'[i].store = items[i].store /\ items'[i].grocery = items[i].grocery
  <2>1. items[i] \in Item /\ items \in Seq(Item)
    BY DEF Types
  <2>2. CASE i = alert.index
    <3>1. items'[i] = [items[i] EXCEPT !.quantity = items[i].quantity + quantity]
      BY <2>1, <2>2 DEF SureMore
    <3> QED BY <2>1, <3>1 DEF Item
  <2>3. CASE i # alert.index
    BY <2>1, <2>3 DEF SureMore
  <2> QED BY <2>2, <2>3
<1> QED BY <1>1, <1>2 DEF InCart

LEMMA HeardNext == IInv /\ HeardIsKept /\ [Next]_vars => HeardIsKept'
<1> SUFFICES ASSUME IInv, HeardIsKept, [Next]_vars PROVE HeardIsKept'
  OBVIOUS
<1> USE DEF HeardIsKept
<1>0. ASSUME UNCHANGED <<store, items, offer, alert, heard>> PROVE HeardIsKept'
  BY <1>0 DEF InCart
<1>1. ASSUME NEW o \in Offers, OpenDetail(o) PROVE HeardIsKept'
  BY <1>1 DEF OpenDetail, NoAlert
<1>2. ASSUME NEW o \in Offers, LandStray(o) PROVE HeardIsKept'
  <2>1. /\ \A i \in DOMAIN items : i \in DOMAIN items' /\ items'[i] = items[i]
        /\ UNCHANGED <<offer, heard>>
    BY <1>2, LandedKeeps DEF LandStray, IInv
  <2>2. heard /\ alert.kind # "new" => InCart(offer)'
    BY <2>1 DEF InCart
  <2>3. alert' = alert /\ (store = Nothing \/ store' = store)
    BY <1>2 DEF LandStray, Landed
  <2>4. alert.kind = "more" => offer.store # Nothing
    BY CartAssumption DEF IInv, Types
  <2> QED BY <2>1, <2>2, <2>3, <2>4
<1>3. CASE CloseDetail
  BY <1>3 DEF CloseDetail
<1>4. CASE AddQuantity \/ DecreasedQuantity \/ AddToCart \/ Turned
  BY <1>0, <1>4 DEF AddQuantity, DecreasedQuantity, AddToCart, Turned, cart
<1>5. CASE Land
  <2> DEFINE insight == screen = "detail" /\ alert.kind = "none"
  <2>1. /\ offer \in Offers /\ offer # Nothing /\ insight \in BOOLEAN
        /\ UNCHANGED offer /\ heard' = (heard \/ insight)
        /\ Landed(offer, insight)
    BY <1>5, CartAssumption DEF Land, IInv, Types
  <2> HIDE DEF insight
  <2>2. \A i \in DOMAIN items : i \in DOMAIN items' /\ items'[i] = items[i]
    BY <2>1, LandedKeeps DEF IInv
  <2>3. InCart(offer) => InCart(offer)'
    BY <2>1, <2>2 DEF InCart
  <2>4. CASE /\ store = Nothing \/ (store = offer.store /\ Found(offer.grocery) = {})
             /\ store' = offer.store
             /\ items' = Append(items, ItemOf(offer))
             /\ UNCHANGED alert
    <3>1. Len(items) + 1 \in DOMAIN items' /\ items'[Len(items) + 1] = ItemOf(offer)
      BY <2>1, <2>4, ItemTyped DEF IInv, Types
    <3>2. InCart(offer)'
      BY <2>1, <3>1 DEF InCart, ItemOf
    <3>3. alert.kind = "more" => store # Nothing
      BY <2>1, CartAssumption
    <3> QED BY <2>1, <2>4, <3>2
  <2>5. CASE /\ store = offer.store /\ Found(offer.grocery) # {}
             /\ alert' = IF insight
                         THEN AskMore(CHOOSE i \in Found(offer.grocery) : TRUE)
                         ELSE alert
             /\ UNCHANGED <<store, items>>
    <3>1. InCart(offer)'
      BY <2>1, <2>5 DEF Found, InCart, IInv, OneStore
    <3> QED BY <2>1, <2>5, <3>1
  <2>6. CASE /\ store \notin {Nothing, offer.store}
             /\ alert' = IF insight THEN AskNew ELSE alert
             /\ UNCHANGED <<store, items>>
    BY <2>1, <2>3, <2>6 DEF AskNew
  <2> QED BY <2>1, <2>4, <2>5, <2>6 DEF Landed
<1>6. CASE SureMore
  <2>1. offer \in Offers
    BY <1>6 DEF SureMore, IInv, Types
  <2>2. UNCHANGED <<offer, heard>> /\ alert.kind = "more" /\ alert'.kind = "none"
    BY <1>6 DEF SureMore, NoAlert
  <2>3. heard => InCart(offer)'
    <3>1. \A o \in Offers : InCart(o) => InCart(o)'
      BY <1>6, MoreIsInCart DEF IInv
    <3> QED BY <2>1, <2>2, <3>1 DEF InCart
  <2> QED BY <2>2, <2>3
<1>7. CASE SureNew
  <2>1. items'[1] = ItemOf(offer) /\ 1 \in DOMAIN items'
    BY <1>7 DEF SureNew
  <2>2. UNCHANGED <<offer, heard>> /\ alert'.kind = "none"
    BY <1>7 DEF SureNew, NoAlert
  <2>3. InCart(offer)'
    BY <2>1, <2>2 DEF InCart, ItemOf
  <2> QED BY <2>2, <2>3
<1>8. CASE Cancel
  BY <1>8 DEF Cancel, NoAlert
<1>9. CASE OpenCart \/ OpenTab \/ CloseCart \/ AddPayment \/ ClosePayment \/ Relaunch
  BY <1>0, <1>9 DEF OpenCart, OpenTab, CloseCart, AddPayment, ClosePayment, Relaunch, cart, detail
<1>10. ASSUME NEW text \in {"empty", "given"}, EnterAddress(text) PROVE HeardIsKept'
  BY <1>0, <1>10 DEF EnterAddress, detail
<1>11. CASE PlaceOrder \/ OpenTrack
  BY <1>11 DEF PlaceOrder, OpenTrack, Ended, NoAlert
<1>12. CASE UNCHANGED vars
  BY <1>0, <1>12 DEF vars, cart, detail
<1> QED
  BY <1>1, <1>2, <1>3, <1>4, <1>5, <1>6, <1>7, <1>8, <1>9, <1>10, <1>11, <1>12 DEF Next

-----------------------------------------------------------------------------
(* The badge.                                                                *)

(* Numbers of which there are some have a least one. *)
LEMMA LeastNat ==
    ASSUME NEW T, T \subseteq Nat, T # {}
    PROVE  \E n \in T : \A m \in T : ~(m < n)
<1>1. \E x \in T : \A y \in T : <<y, x>> \notin OpToRel(<, Nat)
  BY NatLessThanWellFounded, WFMin
<1>2. \A x, y \in Nat : x < y => <<x, y>> \in OpToRel(<, Nat)
  BY Zenon DEF OpToRel
<1> QED BY <1>1, <1>2

(* The sum of the first n, from that of those before. *)
TotalOf(list, total, n) == IF n = 0 THEN 0 ELSE total[n - 1] + list[n].quantity

Totals(list, m, total) == total = [n \in 0..m |-> TotalOf(list, total, n)]

(* The recursion has a solution for every beginning of the list. *)
LEMMA TotalsExist ==
    ASSUME NEW list \in Seq(Item)
    PROVE  \A m \in 0..Len(list) : \E total : Totals(list, m, total)
<1> DEFINE T == {m \in 0..Len(list) : ~\E total : Totals(list, m, total)}
<1> SUFFICES ASSUME T # {} PROVE FALSE
  OBVIOUS
<1>1. PICK m \in T : \A k \in T : ~(k < m)
  <2>1. T \subseteq Nat
    OBVIOUS
  <2> HIDE DEF T
  <2> QED BY <2>1, LeastNat
<1>2. CASE m = 0
  <2>1. Totals(list, 0, [n \in 0..0 |-> 0])
    BY DEF Totals, TotalOf
  <2> QED BY <1>2, <2>1
<1>3. CASE m # 0
  <2>0. m \in Nat /\ m - 1 \in 0..Len(list) /\ m - 1 < m /\ m - 1 \notin T
    BY <1>1, <1>3
  <2>1. PICK total : Totals(list, m - 1, total)
    BY <2>0
  <2> DEFINE more == [n \in 0..m |-> IF n = m THEN TotalOf(list, total, m) ELSE total[n]]
  <2>2. ASSUME NEW n \in 0..m PROVE more[n] = TotalOf(list, more, n)
    <3>1. ASSUME n # 0 PROVE more[n - 1] = total[n - 1]
      <4>1. n - 1 \in 0..m /\ n - 1 # m
        BY <2>0, <3>1
      <4> QED BY <4>1
    <3>2. more[n] = IF n = m THEN TotalOf(list, total, m) ELSE total[n]
      OBVIOUS
    <3>3. ASSUME n # m PROVE total[n] = TotalOf(list, total, n)
      <4>1. n \in 0..(m - 1)
        BY <2>0, <3>3
      <4> QED BY <2>1, <4>1 DEF Totals
    <3> HIDE DEF more
    <3>4. TotalOf(list, more, n) = TotalOf(list, total, n)
      BY <3>1 DEF TotalOf
    <3> QED BY <3>2, <3>3, <3>4
  <2>3. Totals(list, m, more)
    BY <2>2 DEF Totals
  <2> QED BY <2>3
<1> QED BY <1>2, <1>3

(* What is in the cart adds up to a number. *)
LEMMA TotalIsNat ==
    ASSUME NEW list \in Seq(Item)
    PROVE  TotalQuantity(list) \in Nat
<1>0. Len(list) \in Nat /\ Len(list) \in 0..Len(list)
  OBVIOUS
<1>1. \E total : Totals(list, Len(list), total)
  BY <1>0, TotalsExist
<1>2. TotalQuantity(list) = (CHOOSE total : Totals(list, Len(list), total))[Len(list)]
  BY DEF TotalQuantity, Totals, TotalOf
<1>3. PICK total : Totals(list, Len(list), total) /\ TotalQuantity(list) = total[Len(list)]
  BY <1>1, <1>2
<1> DEFINE T == {n \in 0..Len(list) : total[n] \notin Nat}
<1>4. T = {}
  <2> SUFFICES ASSUME T # {} PROVE FALSE
    OBVIOUS
  <2>1. PICK n \in T : \A k \in T : ~(k < n)
    <3>1. T \subseteq Nat
      OBVIOUS
    <3> HIDE DEF T
    <3> QED BY <3>1, LeastNat
  <2>2. n \in 0..Len(list) /\ total[n] \notin Nat
    BY <2>1
  <2>3. total[n] = TotalOf(list, total, n)
    BY <1>3, <2>2 DEF Totals
  <2>4. n # 0
    BY <2>2, <2>3 DEF TotalOf
  <2>5. n - 1 \in 0..Len(list) /\ n - 1 < n /\ n \in 1..Len(list)
    BY <1>0, <2>2, <2>4
  <2>6. total[n - 1] \in Nat
    BY <2>1, <2>5
  <2>7. list[n].quantity \in Nat
    <3>1. list[n] \in Item
      BY <2>5
    <3> QED BY <3>1 DEF Item
  <2>8. total[n] = total[n - 1] + list[n].quantity
    BY <2>3, <2>4 DEF TotalOf
  <2> QED BY <2>2, <2>6, <2>7, <2>8
<1> QED BY <1>0, <1>3, <1>4

LEMMA EmptyTotal == TotalQuantity(<<>>) = 0
<1>1. <<>> \in Seq(Item) /\ Len(<<>>) = 0
  OBVIOUS
<1>2. \E total : Totals(<<>>, 0, total)
  <2>1. Totals(<<>>, 0, [n \in 0..0 |-> 0])
    BY DEF Totals, TotalOf
  <2> QED BY <2>1
<1>3. TotalQuantity(<<>>) = (CHOOSE total : Totals(<<>>, 0, total))[0]
  BY <1>1 DEF TotalQuantity, Totals, TotalOf
<1>4. PICK total : Totals(<<>>, 0, total) /\ TotalQuantity(<<>>) = total[0]
  BY <1>2, <1>3
<1>5. total[0] = TotalOf(<<>>, total, 0)
  BY <1>4 DEF Totals
<1> QED BY <1>4, <1>5 DEF TotalOf

(* The badge of an open screen is right, covered or not, unless the button has yet
   to turn or something landed behind its back. *)
BadgeCounts ==
    /\ badge \in Nat
    /\ screen \in {"detail", "cart", "payment"} /\ turning = 0 /\ ~badgeOld =>
          badge = TotalQuantity(items)

LEMMA BadgeNext == IInv /\ IInv' /\ BadgeCounts /\ [Next]_vars => BadgeCounts'
<1> SUFFICES ASSUME IInv, IInv', BadgeCounts, [Next]_vars PROVE BadgeCounts'
  OBVIOUS
<1> USE DEF BadgeCounts
<1>0. TotalQuantity(items) \in Nat /\ TotalQuantity(items') \in Nat
  BY TotalIsNat DEF IInv, Types
(* Nothing that the badge depends on changes, and no screen is opened. *)
<1>a. ASSUME UNCHANGED <<items, badge>>,
             turning' = 0 /\ ~badgeOld' => turning = 0 /\ ~badgeOld,
             screen' \in {"detail", "cart", "payment"} =>
                screen \in {"detail", "cart", "payment"}
      PROVE  BadgeCounts'
  <2>1. TotalQuantity(items') = TotalQuantity(items)
    BY <1>a
  <2> QED BY <1>a, <2>1
<1>1. ASSUME NEW o \in Offers, OpenDetail(o) PROVE BadgeCounts'
  <2>1. badge' = TotalQuantity(items) /\ items' = items
    BY <1>1 DEF OpenDetail, cart
  <2> QED BY <1>0, <2>1
<1>2. ASSUME NEW o \in Offers, LandStray(o) PROVE BadgeCounts'
  <2>1. badgeOld' = (badgeOld \/ items' # items) /\ UNCHANGED <<badge, turning, screen>>
    BY <1>2 DEF LandStray
  <2>2. CASE items' = items
    BY <1>a, <2>1, <2>2
  <2>3. CASE items' # items
    BY <2>1, <2>3
  <2> QED BY <2>2, <2>3
<1>3. CASE CloseDetail
  BY <1>3 DEF CloseDetail
<1>4. CASE Land
  BY <1>0, <1>4 DEF Land
<1>5. CASE Turned
  <2>1. badge' = TotalQuantity(items) /\ items' = items
    BY <1>5 DEF Turned, cart
  <2> QED BY <1>0, <2>1
<1>6. CASE AddToCart \/ SureMore \/ SureNew
  <2>1. turning \in Nat
    BY DEF IInv, Types
  <2>2. UNCHANGED badge /\ turning' = turning + 1
    BY <1>6 DEF AddToCart, SureMore, SureNew
  <2> QED BY <2>1, <2>2
<1>7. CASE AddQuantity \/ DecreasedQuantity \/ Cancel \/ OpenCart \/ OpenTab \/ CloseCart
           \/ AddPayment \/ ClosePayment
  <2>1. UNCHANGED <<items, badge, turning, badgeOld>>
    BY <1>7 DEF AddQuantity, DecreasedQuantity, Cancel, OpenCart, OpenTab, CloseCart,
       AddPayment, ClosePayment, cart, detail
  <2>2. screen' \in {"detail", "cart", "payment"} => screen \in {"detail", "cart", "payment"}
    BY <1>7 DEF AddQuantity, DecreasedQuantity, Cancel, OpenCart, OpenTab, CloseCart,
       AddPayment, ClosePayment, AtPayment
  <2> QED BY <1>a, <2>1, <2>2
<1>8. ASSUME NEW text \in {"empty", "given"}, EnterAddress(text) PROVE BadgeCounts'
  BY <1>a, <1>8 DEF EnterAddress, detail
<1>9. CASE PlaceOrder \/ OpenTrack
  BY <1>9 DEF PlaceOrder, OpenTrack, Ended
<1>10. CASE Relaunch
  BY <1>10 DEF Relaunch, detail
<1>11. CASE UNCHANGED vars
  BY <1>a, <1>11 DEF vars, cart, detail
<1> QED
  BY <1>1, <1>2, <1>3, <1>4, <1>5, <1>6, <1>7, <1>8, <1>9, <1>10, <1>11 DEF Next

-----------------------------------------------------------------------------

(* The invariant of the cart. *)
THEOREM Invariance == Spec => []IInv
BY InvInit, InvNext, PTL DEF Spec

LEMMA BadgeAlways == Spec => []BadgeCounts
<1>1. Init => BadgeCounts
  BY DEF Init, BadgeCounts
<1> QED BY <1>1, BadgeNext, Invariance, PTL DEF Spec

(* Every variable keeps its type; the badge is a number, as the sum is one. *)
THEOREM TypeCorrect == Spec => []TypeOK
<1>1. IInv /\ BadgeCounts => TypeOK
  BY DEF IInv, BadgeCounts, TypeOK
<1> QED BY <1>1, Invariance, BadgeAlways, PTL

(* The badge counts what is in the cart once the button has come to rest, unless a
   screen that is gone has put something in meanwhile. *)
THEOREM BadgeOfTheCart == Spec => []BadgeIsRight
<1>1. BadgeCounts => BadgeIsRight
  BY DEF BadgeCounts, BadgeIsRight
<1> QED BY <1>1, BadgeAlways, PTL

(* Whatever is tapped on whichever screens, the cart is of one store. *)
THEOREM CartOfOneStore == Spec => []OneStore
BY Invariance, PTL DEF IInv

(* However fast it is tapped, a grocery is in the cart once. *)
THEOREM GroceriesOnce == Spec => []AddedOnce
BY Invariance, PTL DEF IInv

(* The index an alert has captured is still right when the user answers. *)
THEOREM AlertsStayCurrent == Spec => []AlertIsCurrent
BY Invariance, PTL DEF IInv

(* A tap that landed in sight is in the cart, or its question is up. *)
THEOREM TapsGetThere == Spec => []TapGetsThere
<1>1. Init => HeardIsKept
  BY DEF Init, HeardIsKept, NoAlert
<1>2. HeardIsKept => TapGetsThere
  BY DEF HeardIsKept, InCart, TapGetsThere
<1> QED BY <1>1, <1>2, HeardNext, Invariance, PTL DEF Spec

(* What createOrder unwraps is there on the payment screen, whichever cart screen
   it came from. *)
THEOREM Payment == Spec => []PaymentIsReady
BY Invariance, PTL DEF IInv

(* What will be paid was listed, unless something landed in between or the list
   is the tab bar's old one. *)
THEOREM ListedPayment == Spec => []ListedIsPaid
BY Invariance, PTL DEF IInv

=============================================================================
