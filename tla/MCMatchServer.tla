--------------------------- MODULE MCMatchServer ---------------------------
(***************************************************************************)
(* MatchServer on small instances.  One volunteer, customer and token are  *)
(* enough for every race on a document; a second request lets a volunteer  *)
(* be accepted twice, and a request id with no document stands for one     *)
(* that was completed, or never added, before.                             *)
(***************************************************************************)
EXTENDS MatchServer, TLC

CONSTANTS v1, r1, r2, k1, tokV, tokK

MCVolunteers == {v1}
MCRequests   == {r1, r2}
MCCustomers  == {k1}
MCTokens     == {tokV, tokK}

Volunteer(s) == [state |-> s, customer |-> Undefined, token |-> tokV]
Request(s)   == [state |-> s, customer |-> k1, token |-> tokK]
Customer     == [state |-> Undefined, customer |-> Undefined, token |-> tokK]

Store(v, r) == [d \in Docs |-> CASE d = v1 -> v [] d = r1 -> r [] d = k1 -> Customer
                                 [] OTHER -> Undefined]

(* The volunteer and the first request are there; the second request is not.*)
FreshStores == {Store(Volunteer("free"), Request(Undefined))}

(* In addition: stores where the volunteer or the request is missing.      *)
SparseStores == FreshStores \cup {Store(Undefined, Request(Undefined)),
                                  Store(Volunteer("free"), Undefined)}

(* A completion is due, or an earlier one removed the request but did not  *)
(* get to free the volunteer.                                              *)
InterruptedStores == {Store(Volunteer("in progress"), r) : r \in {Request("in progress"), Undefined}}

(* The volunteer is free, or busy with a request that is there or gone.    *)
MatchStores == FreshStores \cup InterruptedStores

NoQuery == [op |-> "getDoc", authorized |-> TRUE, doc |-> Undefined, data |-> NoFields,
            vol |-> Undefined, req |-> Undefined, cust |-> Undefined]

DocCall(op, d, f) == [NoQuery EXCEPT !.op = op, !.doc = d, !.data = f]
AcceptReq(v, r)   == [NoQuery EXCEPT !.op = "acceptReq", !.vol = v, !.req = r]
AcceptVol(v, r)   == [NoQuery EXCEPT !.op = "acceptVol", !.vol = v, !.req = r]
CompReq(v, r, k)  == [NoQuery EXCEPT !.op = "compReq", !.vol = v, !.req = r, !.cust = k]

(* Everything that may meet on the volunteer and his request.              *)
MatchTraffic ==
    {AcceptVol(v1, r1), AcceptVol(v1, r2), CompReq(v1, r1, k1), DocCall("deleteDoc", r1, NoFields)}

(* One of every call, well-formed or not, that a client can make.          *)
AnyTraffic ==
    {AcceptReq(v1, r1), AcceptVol(v1, r1), CompReq(v1, r1, k1),
     AcceptReq(v1, Undefined), CompReq(v1, r1, Undefined),
     [AcceptVol(v1, r1) EXCEPT !.authorized = FALSE],
     DocCall("getDoc", v1, NoFields), DocCall("addDoc", r1, Request(Undefined)),
     DocCall("updateDoc", r1, NoFields), DocCall("updateDoc", v1, StateOnly("free")),
     DocCall("deleteDoc", r1, NoFields)}

(* Every handler that can be left waiting, beside calls that take its      *)
(* documents away.                                                         *)
HandlerTraffic ==
    {AcceptReq(v1, r1), AcceptVol(v1, r1), CompReq(v1, r1, k1),
     DocCall("updateDoc", r1, StateOnly("free")), DocCall("deleteDoc", r1, NoFields)}

CompletionTraffic == {CompReq(v1, r1, k1)}
AcceptReqTraffic  == {AcceptReq(v1, r1)}
AcceptVolTraffic  == {AcceptVol(v1, r1)}

(* Calls are interchangeable: no definition tells one from another.        *)
CallSymmetry == Permutations(Calls)
=============================================================================
