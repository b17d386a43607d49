-------------------------- MODULE RowImages_proofs --------------------------
(* Which image a row may show, for any cells, items and requests out.  The
   argument: unless a cell was reused too early, every request of it that is out
   is for the item it has. *)
EXTENDS RowImages, TLAPS

OutIsOwn ==
    \A c \in Cells : ~late[c] =>
        \A s \in Slots : request[s] # NoRequest /\ request[s].cell = c => request[s].for = item[c]

IInv == TypeOK /\ OutIsOwn /\ ForeignImageIsExplained

(* A request that is out is one of a cell. *)
LEMMA OutIsRequest ==
    ASSUME TypeOK, NEW s \in Slots, request[s] # NoRequest
    PROVE  /\ request[s].cell \in Cells /\ request[s].for \in Pictured
           /\ request[s] = [cell |-> request[s].cell, for |-> request[s].for]
BY DEF TypeOK, Requests

LEMMA AskEffect ==
    ASSUME TypeOK, NEW c \in Cells, NEW i \in Pictured, Ask(c, i)
    PROVE  /\ request' \in [Slots -> Requests \cup {NoRequest}]
           /\ \A t \in Slots : request'[t] = request[t] \/ request'[t] = [cell |-> c, for |-> i]
           /\ \A t \in Slots : request[t] # NoRequest => request'[t] = request[t]
           /\ \E t \in Slots : request'[t] = [cell |-> c, for |-> i]
<1>1. [cell |-> c, for |-> i] \in Requests
  BY DEF Requests
<1> QED BY <1>1 DEF TypeOK, Ask

(* Cells other than the one that gets a row, or whose request ends, keep theirs. *)
LEMMA OthersKept ==
    ASSUME IInv, NEW c \in Cells, NEW d \in Cells, c # d,
           item'[d] = item[d], image'[d] = image[d], late'[d] = late[d], failed'[d] = failed[d],
           \A s \in Slots : request[s] # NoRequest /\ request[s].cell = d => request'[s] = request[s]
    PROVE  image'[d] \notin {Nothing, item'[d]} =>
              \/ late'[d]
              \/ d \in GroceryCells /\ (failed'[d] \/ \E s \in Slots : request'[s] = [cell |-> d, for |-> item'[d]])
<1>1. ASSUME NEW s \in Slots, request[s] = [cell |-> d, for |-> item[d]] PROVE request'[s] = request[s]
  <2>1. request[s].cell = d
    BY <1>1
  <2>2. NoRequest.cell = Nothing /\ Nothing # d
    BY ImagesAssumption DEF NoRequest, Cells
  <2> QED BY <2>1, <2>2
<1>2. CASE image[d] \in {Nothing, item[d]}
  BY <1>2
<1>3. CASE late[d] \/ (d \in GroceryCells /\ failed[d])
  BY <1>3
<1>4. CASE d \in GroceryCells /\ Out(d, item[d])
  BY <1>1, <1>4 DEF Out
<1> QED BY <1>2, <1>3, <1>4 DEF IInv, ForeignImageIsExplained

LEMMA NextIInv == IInv /\ [Next]_vars => IInv'
<1> SUFFICES ASSUME IInv, [Next]_vars PROVE IInv'
  OBVIOUS
<1>0. CASE UNCHANGED vars
  BY <1>0 DEF vars, IInv, TypeOK, OutIsOwn, ForeignImageIsExplained, Out
<1>1. ASSUME NEW c \in Cells, NEW i \in Items, Become(c, i),
             \/ c \in StoreCells /\ image' = [image EXCEPT ![c] = Nothing]
             \/ c \in GroceryCells /\ UNCHANGED image /\ i \in Pictured /\ Ask(c, i),
             (i \in Pictured /\ Ask(c, i)) \/ UNCHANGED request
      PROVE  IInv'
  <2>1. /\ item' = [item EXCEPT ![c] = i]
        /\ failed' = [failed EXCEPT ![c] = FALSE]
        /\ late' = [late EXCEPT ![c] = \E j \in Items \ {i} : Out(c, j)]
    BY <1>1 DEF Become
  <2>2. /\ request' \in [Slots -> Requests \cup {NoRequest}]
        /\ \A s \in Slots : request'[s] = request[s] \/ request'[s] = [cell |-> c, for |-> i]
        /\ \A s \in Slots : request[s] # NoRequest => request'[s] = request[s]
    BY <1>1, AskEffect DEF IInv, TypeOK
  <2>3. TypeOK'
    BY <1>1, <2>1, <2>2 DEF IInv, TypeOK
  <2>4. OutIsOwn'
    <3> SUFFICES ASSUME NEW d \in Cells, ~late'[d], NEW s \in Slots,
                        request'[s] # NoRequest, request'[s].cell = d
                 PROVE  request'[s].for = item'[d]
      BY DEF OutIsOwn
    <3>1. CASE request'[s] = [cell |-> c, for |-> i]
      BY <2>1, <3>1 DEF IInv, TypeOK
    <3>2. CASE request'[s] = request[s] /\ d # c
      BY <2>1, <3>2 DEF IInv, TypeOK, OutIsOwn
    <3>3. CASE request'[s] = request[s] /\ d = c
      <4>1. request[s] = [cell |-> c, for |-> request[s].for] /\ request[s].for \in Items
        BY <3>3, OutIsRequest, ImagesAssumption DEF IInv
      <4>2. ~\E j \in Items \ {i} : Out(c, j)
        BY <2>1, <3>3 DEF IInv, TypeOK
      <4>3. request[s].for = i
        BY <4>1, <4>2 DEF Out
      <4> QED BY <2>1, <3>3, <4>3 DEF IInv, TypeOK
    <3> QED BY <2>2, <3>1, <3>2, <3>3
  <2>5. ForeignImageIsExplained'
    <3> SUFFICES ASSUME NEW d \in Cells, image'[d] \notin {Nothing, item'[d]}
                 PROVE  \/ late'[d]
                        \/ /\ d \in GroceryCells
                           /\ \/ failed'[d]
                              \/ \E s \in Slots : request'[s] = [cell |-> d, for |-> item'[d]]
      BY DEF ForeignImageIsExplained, Out
    <3>1. CASE d # c
      BY <1>1, <2>1, <2>2, <3>1, OthersKept DEF IInv, TypeOK
    <3>2. CASE d = c /\ c \in StoreCells /\ image' = [image EXCEPT ![c] = Nothing]
      BY <3>2 DEF IInv, TypeOK
    <3>3. CASE d = c /\ c \in GroceryCells /\ i \in Pictured /\ Ask(c, i)
      BY <2>1, <3>3, AskEffect DEF IInv, TypeOK
    <3> QED BY <1>1, <3>1, <3>2, <3>3
  <2> QED BY <2>3, <2>4, <2>5 DEF IInv
<1>2. ASSUME NEW s \in Slots, Receive(s) \/ ReceiveNothing(s) PROVE IInv'
  <2> DEFINE c == request[s].cell
             i == request[s].for
  <2>1. /\ c \in Cells /\ i \in Items /\ request[s] = [cell |-> c, for |-> i]
        /\ request[s] # NoRequest
    BY <1>2, OutIsRequest, ImagesAssumption DEF Receive, ReceiveNothing, End, IInv
  <2>2. request' = [request EXCEPT ![s] = NoRequest] /\ UNCHANGED <<item, late>>
    BY <1>2 DEF Receive, ReceiveNothing, End
  <2>3. \/ /\ UNCHANGED failed
           /\ image' = [image EXCEPT ![c] = i] \/ image' = [image EXCEPT ![c] = Nothing]
        \/ /\ UNCHANGED image
           /\ failed' = [failed EXCEPT ![c] = failed[c] \/ item[c] = i]
    BY <1>2 DEF Receive, ReceiveNothing
  <2>4. ~late[c] => i = item[c]
    BY <2>1 DEF IInv, OutIsOwn
  <2> HIDE DEF c, i
  <2>5. TypeOK'
    BY <2>1, <2>2, <2>3 DEF IInv, TypeOK
  <2>6. OutIsOwn'
    BY <2>2 DEF IInv, TypeOK, OutIsOwn
  <2>7. ForeignImageIsExplained'
    <3> SUFFICES ASSUME NEW d \in Cells, image'[d] \notin {Nothing, item'[d]}
                 PROVE  \/ late'[d]
                        \/ /\ d \in GroceryCells
                           /\ \/ failed'[d]
                              \/ \E t \in Slots : request'[t] = [cell |-> d, for |-> item'[d]]
      BY DEF ForeignImageIsExplained, Out
    <3>1. CASE d # c
      <4>1. \A t \in Slots : request[t] # NoRequest /\ request[t].cell = d => request'[t] = request[t]
        BY <2>1, <2>2, <3>1 DEF IInv, TypeOK
      <4>2. image'[d] = image[d] /\ failed'[d] = failed[d]
        BY <2>1, <2>3, <3>1 DEF IInv, TypeOK
      <4> QED BY <2>1, <2>2, <3>1, <4>1, <4>2, OthersKept
    <3>2. CASE d = c /\ (image' = [image EXCEPT ![c] = i] \/ image' = [image EXCEPT ![c] = Nothing])
      <4>1. image'[c] = i \/ image'[c] = Nothing
        BY <2>1, <3>2 DEF IInv, TypeOK
      <4> QED BY <2>2, <2>4, <3>2, <4>1
    <3>3. CASE d = c /\ UNCHANGED image /\ failed' = [failed EXCEPT ![c] = failed[c] \/ item[c] = i]
      <4>1. ~late[c] => failed'[c]
        <5>1. failed'[c] = (failed[c] \/ item[c] = i)
          BY <2>1, <3>3 DEF IInv, TypeOK
        <5> QED BY <2>4, <5>1
      <4>2. c \in GroceryCells \/ late[c]
        BY <2>1, <2>2, <3>3 DEF IInv, ForeignImageIsExplained
      <4> QED BY <2>2, <3>3, <4>1, <4>2
    <3> QED BY <2>3, <3>1, <3>2, <3>3
  <2> QED BY <2>5, <2>6, <2>7 DEF IInv
<1>3. ASSUME NEW i \in Items, NEW c \in StoreCells, BecomeStore(c, i) PROVE IInv'
  BY <1>1, <1>3 DEF BecomeStore, Cells
<1>4. ASSUME NEW i \in Items, NEW c \in GroceryCells, BecomeGrocery(c, i) PROVE IInv'
  BY <1>1, <1>4 DEF BecomeGrocery, Cells
<1> QED BY <1>0, <1>2, <1>3, <1>4 DEF Next

LEMMA Invariance == Spec => []IInv
<1>1. Init => IInv
  BY ImagesAssumption DEF Init, IInv, TypeOK, OutIsOwn, ForeignImageIsExplained
<1> QED BY <1>1, NextIInv, PTL DEF Spec

(* The variables keep their types; in particular no image is asked for without a
   URL. *)
THEOREM TypeCorrect == Spec => []TypeOK
BY Invariance, PTL DEF IInv

(* A row shows another item's image for no other reason than those listed, in
   whatever order requests end and cells are reused. *)
THEOREM ForeignImages == Spec => []ForeignImageIsExplained
BY Invariance, PTL DEF IInv

=============================================================================
