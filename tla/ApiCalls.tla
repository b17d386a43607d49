------------------------------ MODULE ApiCalls ------------------------------
(***************************************************************************)
(* The HTTP interface of the API server: which calls there are, and what   *)
(* the four plain document calls ask of the store.                         *)
(***************************************************************************)
EXTENDS DocumentStore

CONSTANTS
    Calls,          \* HTTP calls the clients make
    Traffic,        \* the requests these calls may be
    InitialStores   \* the contents the store may start with

CrudOps  == {"getDoc", "addDoc", "updateDoc", "deleteDoc"}
MatchOps == {"acceptReq", "acceptVol", "compReq"}

HttpRequest == [op         : CrudOps \cup MatchOps,
                authorized : BOOLEAN,
                doc        : Docs \cup {Undefined},       \* route parameter
                data       : Document,                    \* query as a document
                vol        : Volunteers \cup {Undefined}, \* query parameters
                req        : Requests \cup {Undefined},
                cust       : Customers \cup {Undefined}]

(* HTTP status codes; 0 is the connection reset a dying process causes.    *)
Answer == [code : {0, 200, 401, 404, 500}, body : Document \cup {Undefined}]

(* A document call reaches its handler only through a route that names a   *)
(* document.                                                               *)
ASSUME CallsAssumption ==
    /\ Traffic \subseteq HttpRequest
    /\ Undefined \notin HttpRequest \cup Answer
    /\ \A h \in Traffic : h.op \in CrudOps => h.doc \in Docs
    /\ InitialStores \subseteq Contents

(* A matching call without one of its query parameters is answered 404.    *)
MissingParameter(h) ==
    \/ h.op \in MatchOps /\ Undefined \in {h.vol, h.req}
    \/ h.op = "compReq" /\ h.cust = Undefined

CrudRpc(h) == CASE h.op = "getDoc"    -> Get(h.doc)
                [] h.op = "addDoc"    -> Set(h.doc, h.data)
                [] h.op = "updateDoc" -> Update(h.doc, h.data)
                [] h.op = "deleteDoc" -> Delete(h.doc)
=============================================================================
