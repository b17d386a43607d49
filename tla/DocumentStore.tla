--------------------------- MODULE DocumentStore ---------------------------
(***************************************************************************)
(* The cloud document store behind the API, as far as dbConnect.js uses    *)
(* it: three collections of documents that can be read, overwritten        *)
(* (`set`), merged into (`update`) and deleted one document at a time,     *)
(* each operation being atomic.  The store itself is a hosted service; the *)
(* definitions below say what the client library promises its callers.     *)
(*                                                                         *)
(* A document keeps only the fields some code decides on: the `state` of a *)
(* volunteer or a request, the `customer` a request belongs to, and the    *)
(* messaging `token` of a person.  `Undefined` is JavaScript's undefined:  *)
(* a field that is not there, and also a document that is not there.       *)
(***************************************************************************)

CONSTANTS
    Volunteers,     \* document ids of the collection "volunteers"
    Requests,       \* document ids of the collection "requests"
    Customers,      \* document ids of the collection "customers"
    Tokens,         \* device tokens of the messaging service
    Undefined       \* no such field, no such document

Docs == Volunteers \cup Requests \cup Customers

States == {"free", "in progress"}

Document == [state    : States \cup {Undefined},
             customer : Customers \cup {Undefined},
             token    : Tokens \cup {Undefined}]

(* Ids of different collections are different documents, and Undefined is  *)
(* no value of any field.                                                  *)
ASSUME CollectionsAssumption ==
    /\ Volunteers \cap Requests = {}
    /\ Volunteers \cap Customers = {}
    /\ Requests \cap Customers = {}
    /\ Undefined \notin Docs \cup States \cup Tokens
    /\ Undefined \notin Document

NoFields == [state |-> Undefined, customer |-> Undefined, token |-> Undefined]

StateOnly(s) == [NoFields EXCEPT !.state = s]

(* The contents of the store: every id has a document or has none.         *)
Contents == [Docs -> Document \cup {Undefined}]

-----------------------------------------------------------------------------
(* One call of the client library.                                         *)

StoreCall == [kind : {"get", "set", "update", "delete"},
              doc  : Docs \cup {Undefined},
              data : Document]

Get(d)         == [kind |-> "get",    doc |-> d, data |-> NoFields]
Set(d, f)      == [kind |-> "set",    doc |-> d, data |-> f]
Update(d, f)   == [kind |-> "update", doc |-> d, data |-> f]
Delete(d)      == [kind |-> "delete", doc |-> d, data |-> NoFields]

(* dbConnect.getDoc fetches the whole collection and picks the document    *)
(* whose id was asked for: an id that names nothing gives undefined.       *)
Lookup(db, d) == IF d \in Docs THEN db[d] ELSE Undefined

(* Only `update` has a precondition: it never creates a document, and it   *)
(* must be given a field to write.                                         *)
Accepted(db, rpc) ==
    rpc.kind = "update" => Lookup(db, rpc.doc) # Undefined /\ rpc.data # NoFields

Given(new, old) == IF new = Undefined THEN old ELSE new

Merge(old, new) == [state    |-> Given(new.state, old.state),
                    customer |-> Given(new.customer, old.customer),
                    token    |-> Given(new.token, old.token)]

(* The store after a call it accepted.                                     *)
Applied(db, rpc) ==
    CASE rpc.kind = "get"    -> db
      [] rpc.kind = "set"    -> [db EXCEPT ![rpc.doc] = rpc.data]
      [] rpc.kind = "update" -> [db EXCEPT ![rpc.doc] = Merge(@, rpc.data)]
      [] rpc.kind = "delete" -> [db EXCEPT ![rpc.doc] = Undefined]

(* What the call's promise resolves with: the document read, or nothing    *)
(* the server looks at.                                                    *)
Delivered(db, rpc) ==
    IF rpc.kind = "get" THEN Lookup(db, rpc.doc) ELSE Undefined
=============================================================================
