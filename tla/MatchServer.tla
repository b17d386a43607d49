---------------------------- MODULE MatchServer ----------------------------
(***************************************************************************)
(* The API server (src/API): one Node process that answers HTTP calls by   *)
(* reading and writing the document store.                                 *)
(*                                                                         *)
(* A handler runs up to its next await in one step.  What it has asked the *)
(* store for is a promise in `promise`, and requests to the store travel   *)
(* concurrently: they take effect one by one in any order, whatever the    *)
(* order they were issued in, and whether or not the handler waits for     *)
(* them.  Where a handler stands follows from its promises, so there is no *)
(* program counter.                                                        *)
(***************************************************************************)
EXTENDS ApiCalls, Naturals, FiniteSets

CONSTANTS
    MaxFaults,      \* bound: store requests that fail
    MaxCrashes      \* bound: times the server process dies

ASSUME ServerAssumption == MaxFaults \in Nat /\ MaxCrashes \in Nat

VARIABLES
    db,         \* the store: document id -> document or Undefined
    call,       \* call -> its HTTP request, Undefined until it arrives
    promise,    \* call -> local variable of its handler -> promise
    answer,     \* call -> the HTTP response, Undefined until it is sent
    push,       \* call -> what became of `communicate`, Undefined if not called
    faults,     \* store requests that have failed so far
    crashes     \* times the process has died so far

vars == <<db, call, promise, answer, push, faults, crashes>>

(* The promises a handler holds, named after its local variables; the two  *)
(* writes of the matching calls are promises the code does not keep.       *)
Slots == {"doc", "volData", "reqData", "custData", "volWrite", "reqWrite"}

Promise == [st : {"none", "pending", "ok", "rejected"}, val : Document \cup {Undefined}]

NoPromise == [st |-> "none",     val |-> Undefined]
Pending   == [st |-> "pending",  val |-> Undefined]
Rejected  == [st |-> "rejected", val |-> Undefined]
Resolved(v) == [st |-> "ok",     val |-> v]

Push == [token : Tokens \cup {Undefined}, sent : BOOLEAN]

TypeOK ==
    /\ db \in Contents
    /\ call \in [Calls -> HttpRequest \cup {Undefined}]
    /\ promise \in [Calls -> [Slots -> Promise]]
    /\ answer \in [Calls -> Answer \cup {Undefined}]
    /\ push \in [Calls -> Push \cup {Undefined}]
    /\ faults \in 0..MaxFaults
    /\ crashes \in 0..MaxCrashes

-----------------------------------------------------------------------------
(* What each handler asks of the store.                                    *)

AcceptRequestRpc(h) == [volData |-> Get(h.vol), reqData |-> Get(h.req)]

CustomerOf(reqData) == IF reqData = Undefined THEN Undefined ELSE reqData.customer

(* Slips the properties are measured against: the request marked by `set`  *)
(* instead of `update`, and the volunteer's id used for both documents.    *)
AcceptVolRpcSetting(h, reqData) ==
    [volWrite |-> Update(h.vol, StateOnly("in progress")),
     volData  |-> Get(h.vol),
     reqData  |-> Get(h.req),
     reqWrite |-> Set(h.req, StateOnly("in progress")),
     custData |-> Get(CustomerOf(reqData))]

AcceptVolRpcOneId(h, reqData) ==
    [AcceptVolRpcSetting(h, reqData) EXCEPT !.reqWrite = Update(h.vol, StateOnly("in progress"))]

AcceptVolRpc(h, reqData) ==
    [volWrite |-> Update(h.vol, StateOnly("in progress")),
     volData  |-> Get(h.vol),
     reqData  |-> Get(h.req),
     reqWrite |-> Update(h.req, StateOnly("in progress")),
     custData |-> Get(CustomerOf(reqData))]

(* Slip: a state nobody else knows of.                                     *)
CompReqRpcTypo(h) ==
    [volData  |-> Get(h.vol),
     reqData  |-> Get(h.req),
     custData |-> Get(h.cust),
     volWrite |-> Update(h.vol, StateOnly("Free")),
     reqWrite |-> Delete(h.req)]

CompReqRpc(h) ==
    [volData  |-> Get(h.vol),
     reqData  |-> Get(h.req),
     custData |-> Get(h.cust),
     volWrite |-> Update(h.vol, StateOnly("free")),
     reqWrite |-> Delete(h.req)]

Rpc(c, s) ==
    LET h == call[c]
    IN  CASE h.op = "acceptReq" -> AcceptRequestRpc(h)[s]
          [] h.op = "acceptVol" -> AcceptVolRpc(h, promise[c].reqData.val)[s]
          [] h.op = "compReq"   -> CompReqRpc(h)[s]
          [] OTHER              -> CrudRpc(h)

(* Slip: compReq sends its writes off before it has read anything.         *)
FirstRpcsEager(h) == IF h.op = "compReq" THEN {"volData", "reqData", "custData", "volWrite", "reqWrite"}
                     ELSE IF h.op = "acceptReq" THEN {"volData", "reqData"}
                     ELSE IF h.op = "acceptVol" THEN {"volWrite", "volData", "reqData"}
                     ELSE {"doc"}

(* The store requests a handler makes before its first await.              *)
FirstRpcs(h) == CASE h.op = "acceptReq" -> {"volData", "reqData"}
                  [] h.op = "acceptVol" -> {"volWrite", "volData", "reqData"}
                  [] h.op = "compReq"   -> {"volData", "reqData", "custData"}
                  [] OTHER              -> {"doc"}

Arrived(c)  == call[c] # Undefined
Answered(c) == answer[c] # Undefined
Running(c, op) == Arrived(c) /\ ~Answered(c) /\ call[c].op = op

St(c, s)  == promise[c][s].st
Val(c, s) == promise[c][s].val

Issue(c, S) ==
    promise' = [promise EXCEPT ![c] = [s \in Slots |-> IF s \in S THEN Pending ELSE @[s]]]

Respond(c, code, body) ==
    answer' = [answer EXCEPT ![c] = [code |-> code, body |-> body]]

-----------------------------------------------------------------------------
(* communicate(token, data) hands a message to the messaging library, which*)
(* refuses it at once unless it has a token to go to and every value in    *)
(* its data is a string.  `kinds` is the set of types of these values.     *)

Sendable(token, kinds) == token \in Tokens /\ kinds \subseteq {"string"}

Communicate(token, kinds) == [token |-> token, sent |-> Sendable(token, kinds)]

(* A promise has no property `token`: reading one gives undefined.         *)
TokenOfPromise == Undefined

-----------------------------------------------------------------------------
(* Arrival of a call.                                                      *)

Arrive(c, h) == call[c] = Undefined /\ call' = [call EXCEPT ![c] = h]

(* The token check runs before any handler.                                *)
Unauthorized(c, h) ==
    /\ Arrive(c, h)
    /\ ~h.authorized
    /\ Respond(c, 401, Undefined)
    /\ UNCHANGED <<db, promise, push, faults, crashes>>

NotFound(c, h) ==
    /\ Arrive(c, h)
    /\ h.authorized /\ MissingParameter(h)
    /\ Respond(c, 404, Undefined)
    /\ UNCHANGED <<db, promise, push, faults, crashes>>

Start(c, h) ==
    /\ Arrive(c, h)
    /\ h.authorized /\ ~MissingParameter(h)
    /\ Issue(c, FirstRpcs(h))
    /\ UNCHANGED <<db, answer, push, faults, crashes>>

-----------------------------------------------------------------------------
(* The store carries out, refuses or fails a request that is in flight.    *)

Settle(c, s, p) == promise' = [promise EXCEPT ![c][s] = p]

Resolve(c, s) ==
    /\ St(c, s) = "pending"
    /\ Accepted(db, Rpc(c, s))
    /\ db' = Applied(db, Rpc(c, s))
    /\ Settle(c, s, Resolved(Delivered(db, Rpc(c, s))))
    /\ UNCHANGED <<call, answer, push, faults, crashes>>

Refuse(c, s) ==
    /\ St(c, s) = "pending"
    /\ ~Accepted(db, Rpc(c, s))
    /\ Settle(c, s, Rejected)
    /\ UNCHANGED <<db, call, answer, push, faults, crashes>>

(* A failed request may have taken effect before its answer was lost.      *)
Fault(c, s) ==
    /\ faults < MaxFaults
    /\ St(c, s) = "pending"
    /\ db' \in {db} \cup (IF Accepted(db, Rpc(c, s)) THEN {Applied(db, Rpc(c, s))} ELSE {})
    /\ Settle(c, s, Rejected)
    /\ faults' = faults + 1
    /\ UNCHANGED <<call, answer, push, crashes>>

-----------------------------------------------------------------------------
(* getDoc, addDoc, updateDoc, deleteDoc: answer when the store has.        *)

(* Slip: a missing await, so that success is reported at once.             *)
CrudAnswerAtOnce(c) ==
    /\ \E op \in CrudOps : Running(c, op)
    /\ \/ St(c, "doc") \in {"pending", "ok"} /\ Respond(c, 200, Val(c, "doc"))
       \/ St(c, "doc") = "rejected" /\ Respond(c, 500, Undefined)
    /\ UNCHANGED <<db, call, promise, push, faults, crashes>>

CrudAnswer(c) ==
    /\ \E op \in CrudOps : Running(c, op)
    /\ \/ St(c, "doc") = "ok" /\ Respond(c, 200, Val(c, "doc"))
       \/ St(c, "doc") = "rejected" /\ Respond(c, 500, Undefined)
    /\ UNCHANGED <<db, call, promise, push, faults, crashes>>

(* Awaiting promises one after another: the handler goes on once all are   *)
(* there, and fails at the first rejected one in the order of its awaits.  *)
(* Slip: a read that finds no document never resolves.                     *)
AllReadFound(c, S) == \A s \in S : St(c, s) = "ok" /\ Val(c, s) # Undefined

AllRead(c, S) == \A s \in S : St(c, s) = "ok"

(* Slip: only the first read has its error handled.                        *)
ReadFailsFirst(c, order) == St(c, order[1]) = "rejected"

ReadFails(c, order) ==
    \E i \in DOMAIN order :
        St(c, order[i]) = "rejected" /\ \A j \in 1..(i - 1) : St(c, order[j]) = "ok"

(* acceptReq: the two reads are awaited, but what is passed on are the     *)
(* promises, so the token communicated to is that of a promise.            *)
AcceptReqCommunicate(c) ==
    /\ Running(c, "acceptReq")
    /\ AllRead(c, {"volData", "reqData"})
    /\ LET message == Communicate(TokenOfPromise, {})
       IN  /\ push' = [push EXCEPT ![c] = message]
           /\ Respond(c, IF message.sent THEN 200 ELSE 500, Undefined)
    /\ UNCHANGED <<db, call, promise, faults, crashes>>

AcceptReqFail(c) ==
    /\ Running(c, "acceptReq")
    /\ ReadFails(c, <<"volData", "reqData">>)
    /\ Respond(c, 500, Undefined)
    /\ UNCHANGED <<db, call, promise, push, faults, crashes>>

-----------------------------------------------------------------------------
(* acceptVol, after `await this.getDoc(db, "requests", req)`: the request  *)
(* is marked, then its customer is looked up.                              *)

AcceptVolMark(c) ==
    /\ Running(c, "acceptVol")
    /\ St(c, "reqData") = "ok" /\ Val(c, "reqData") # Undefined
    /\ St(c, "reqWrite") = "none"
    /\ Issue(c, {"reqWrite", "custData"})
    /\ UNCHANGED <<db, call, answer, push, faults, crashes>>

(* There is no such request: reading its customer throws, after the update *)
(* has been sent off.                                                      *)
AcceptVolMarkNothing(c) ==
    /\ Running(c, "acceptVol")
    /\ St(c, "reqData") = "ok" /\ Val(c, "reqData") = Undefined
    /\ St(c, "reqWrite") = "none"
    /\ Issue(c, {"reqWrite"})
    /\ Respond(c, 500, Undefined)
    /\ UNCHANGED <<db, call, push, faults, crashes>>

AcceptVolFail(c) ==
    /\ Running(c, "acceptVol")
    /\ \/ St(c, "reqData") = "rejected"
       \/ St(c, "reqWrite") # "none" /\ ReadFails(c, <<"volData", "custData">>)
    /\ Respond(c, 500, Undefined)
    /\ UNCHANGED <<db, call, promise, push, faults, crashes>>

(* The message carries two documents, not strings, and nobody waits for    *)
(* it: the answer is 200 whatever becomes of it.                           *)
AcceptVolAnswer(c) ==
    /\ Running(c, "acceptVol")
    /\ AllRead(c, {"reqData", "volData", "custData"})
    /\ Val(c, "volData") # Undefined
    /\ push' = [push EXCEPT ![c] = Communicate(Val(c, "volData").token, {"object"})]
    /\ Respond(c, 200, Undefined)
    /\ UNCHANGED <<db, call, promise, faults, crashes>>

(* There is no such volunteer: reading the token throws.                   *)
AcceptVolNobody(c) ==
    /\ Running(c, "acceptVol")
    /\ AllRead(c, {"reqData", "volData", "custData"})
    /\ Val(c, "volData") = Undefined
    /\ Respond(c, 500, Undefined)
    /\ UNCHANGED <<db, call, promise, push, faults, crashes>>

-----------------------------------------------------------------------------
(* Slip: the request is deleted, but the volunteer is never freed.         *)
CompReqWriteHalf(c) ==
    /\ Running(c, "compReq")
    /\ AllRead(c, {"volData", "reqData", "custData"})
    /\ Issue(c, {"reqWrite"})
    /\ LET message == Communicate(TokenOfPromise, {"object"})
       IN  /\ push' = [push EXCEPT ![c] = message]
           /\ Respond(c, IF message.sent THEN 200 ELSE 500, Undefined)
    /\ UNCHANGED <<db, call, faults, crashes>>

(* compReq, once its three reads are there: both writes are sent off and   *)
(* the customer is told; only the telling is awaited, and it fails.        *)

CompReqWrite(c) ==
    /\ Running(c, "compReq")
    /\ AllRead(c, {"volData", "reqData", "custData"})
    /\ Issue(c, {"volWrite", "reqWrite"})
    /\ LET message == Communicate(TokenOfPromise, {"object"})
       IN  /\ push' = [push EXCEPT ![c] = message]
           /\ Respond(c, IF message.sent THEN 200 ELSE 500, Undefined)
    /\ UNCHANGED <<db, call, faults, crashes>>

(* Slip: the writes go out although a read has failed.                     *)
CompReqFailWriting(c) ==
    /\ Running(c, "compReq")
    /\ ReadFails(c, <<"volData", "reqData", "custData">>)
    /\ Issue(c, {"volWrite", "reqWrite"})
    /\ Respond(c, 500, Undefined)
    /\ UNCHANGED <<db, call, push, faults, crashes>>

CompReqFail(c) ==
    /\ Running(c, "compReq")
    /\ ReadFails(c, <<"volData", "reqData", "custData">>)
    /\ Respond(c, 500, Undefined)
    /\ UNCHANGED <<db, call, promise, push, faults, crashes>>

-----------------------------------------------------------------------------
(* The process dies: nobody answers the open calls any more, and of the    *)
(* requests to the store some are lost and some are still on their way.    *)
Crash ==
    /\ crashes < MaxCrashes
    /\ crashes' = crashes + 1
    /\ answer' = [c \in Calls |-> IF Arrived(c) /\ ~Answered(c)
                                  THEN [code |-> 0, body |-> Undefined] ELSE answer[c]]
    /\ \E lost \in SUBSET {cs \in Calls \X Slots : St(cs[1], cs[2]) = "pending"} :
          promise' = [c \in Calls |-> [s \in Slots |->
                         IF <<c, s>> \in lost THEN Rejected ELSE promise[c][s]]]
    /\ UNCHANGED <<db, call, push, faults>>

(* Every call has been answered and no request is under way.               *)
Quiet == \A c \in Calls : Answered(c) /\ \A s \in Slots : St(c, s) # "pending"

Idle == Quiet /\ UNCHANGED vars

Continue(c) ==
    \/ CrudAnswer(c)
    \/ AcceptReqCommunicate(c) \/ AcceptReqFail(c)
    \/ AcceptVolMark(c) \/ AcceptVolMarkNothing(c)
    \/ AcceptVolFail(c) \/ AcceptVolAnswer(c) \/ AcceptVolNobody(c)
    \/ CompReqWrite(c) \/ CompReqFail(c)

Init ==
    /\ db \in InitialStores
    /\ call = [c \in Calls |-> Undefined]
    /\ promise = [c \in Calls |-> [s \in Slots |-> NoPromise]]
    /\ answer = [c \in Calls |-> Undefined]
    /\ push = [c \in Calls |-> Undefined]
    /\ faults = 0
    /\ crashes = 0

Next ==
    \/ \E c \in Calls :
          \/ \E h \in Traffic : Unauthorized(c, h) \/ NotFound(c, h) \/ Start(c, h)
          \/ \E s \in Slots : Resolve(c, s) \/ Refuse(c, s) \/ Fault(c, s)
          \/ Continue(c)
    \/ Crash
    \/ Idle

Spec == Init /\ [][Next]_vars

(* As long as a call can go on, because the store can settle a request of  *)
(* it (the client library has a deadline) or the event loop can run its    *)
(* handler, one of these happens sooner or later.  Nothing obliges a client*)
(* to call, a store request to fail or the process to die.                 *)
Fairness ==
    \A c \in Calls : WF_vars(Continue(c) \/ \E s \in Slots : Resolve(c, s) \/ Refuse(c, s))

FairSpec == Spec /\ Fairness
-----------------------------------------------------------------------------
(* Safety.                                                                 *)

Rewrites(c, d) == call[c].op \in {"addDoc", "updateDoc", "deleteDoc"} /\ call[c].doc = d

Frees(c, v)    == call[c].op = "compReq" /\ call[c].vol = v
Removes(c, r)  == call[c].op = "compReq" /\ call[c].req = r

(* Only addDoc brings a document into being.  In particular the mark that  *)
(* acceptVol sends off without waiting, should it arrive after compReq has *)
(* deleted the request, does not bring the request back (dbConnect.js:118  *)
(* is an update, not a set).                                               *)
NoResurrection ==
    [][\A d \in Docs :
          db[d] = Undefined /\ db'[d] # Undefined =>
             \E c \in Calls : /\ Arrived(c) /\ call[c].op = "addDoc" /\ call[c].doc = d
                              /\ St(c, "doc") = "pending"]_db

(* A document disappears only through deleteDoc, or through a compReq that *)
(* had read the volunteer, the request and the customer without an error   *)
(* before it deleted the request (the awaits of dbConnect.js:187-189).     *)
RemovedOnPurpose ==
    [][\A d \in Docs :
          db[d] # Undefined /\ db'[d] = Undefined =>
             \E c \in Calls :
                /\ Arrived(c)
                /\ \/ call[c].op = "deleteDoc" /\ call[c].doc = d
                   \/ /\ Removes(c, d)
                      /\ AllRead(c, {"volData", "reqData", "custData"})]_db

(* A volunteer marked by acceptVol stays "in progress" until somebody      *)
(* completes a request with him, having read everything compReq reads, or  *)
(* rewrites his document.  No failed, refused or interrupted call, and no  *)
(* other acceptance, makes him free again.                                 *)
BusyUntilFreed ==
    \A c \in Calls :
       Arrived(c) /\ call[c].op = "acceptVol" /\ St(c, "volWrite") = "ok" =>
          LET v == call[c].vol
          IN  \/ db[v] # Undefined /\ db[v].state = "in progress"
              \/ \E k \in Calls : /\ Arrived(k)
                                  /\ \/ Rewrites(k, v) /\ St(k, "doc") \in {"ok", "rejected"}
                                     \/ /\ Frees(k, v)
                                        /\ AllRead(k, {"volData", "reqData", "custData"})

(* What the store settles in a step, and whose write of a document it is.  *)
Settled(c, s) == St(c, s) = "pending" /\ St(c, s)' # "pending"

Rewritten(d) == \E k \in Calls : Settled(k, "doc") /\ Rewrites(k, d)

Added(d) == \E k \in Calls : Settled(k, "doc") /\ call[k].op = "addDoc" /\ call[k].doc = d

Marked(v) ==
    \E k \in Calls : Settled(k, "volWrite") /\ call[k].op = "acceptVol" /\ call[k].vol = v

Completed(d) ==
    \E k \in Calls : \/ Settled(k, "volWrite") /\ Frees(k, d)
                     \/ Settled(k, "reqWrite") /\ Removes(k, d)

(* A matching call writes the volunteer and the request that it names.     *)
Writes == {"volWrite", "reqWrite"}

Written(c, s) == IF s = "volWrite" THEN call[c].vol ELSE call[c].req

(* The store has carried out a write of acceptVol, or the call reports     *)
(* success and never made it, and the document is not "in progress".       *)
AcceptanceLost(c, s) ==
    /\ Arrived(c) /\ call[c].op = "acceptVol"
    /\ \/ St(c, s) = "ok"
       \/ St(c, s) = "none" /\ Answered(c) /\ answer[c].code = 200
    /\ \/ db[Written(c, s)] = Undefined
       \/ db[Written(c, s)].state # "in progress"

(* acceptVol waits for neither of its writes, but both are made before it  *)
(* reports success, and each holds from the moment the store carries it    *)
(* out: it comes to nothing only in a step in which the store settles the  *)
(* write of a completion or of a rewrite of that document, never by one    *)
(* that was settled before, by a failed call or by another acceptance.     *)
AcceptanceTakesHold ==
    [][\A c \in Calls, s \in Writes :
          ~AcceptanceLost(c, s) /\ AcceptanceLost(c, s)' =>
             Rewritten(Written(c, s)) \/ Completed(Written(c, s))]_vars

(* compReq has read all it reads and has answered, the store has carried   *)
(* out a write of it, or it was never made, and the volunteer is not free, *)
(* or the request not gone.                                                *)
CompletionLost(c, s) ==
    /\ Arrived(c) /\ call[c].op = "compReq"
    /\ Answered(c) /\ answer[c].code # 0
    /\ AllRead(c, {"volData", "reqData", "custData"})
    /\ St(c, s) \in {"none", "ok"}
    /\ db[Written(c, s)] # Undefined
    /\ s = "volWrite" => db[Written(c, s)].state # "free"

(* compReq always reports 500 and waits for neither of its writes, but once*)
(* it has read all it reads each of them holds from the moment the store   *)
(* carries it out, whatever became of the other.  The volunteer is free    *)
(* until a step in which the store settles somebody's mark or rewrite of   *)
(* him: the writes are unordered, so this may be the late mark of the very *)
(* acceptance that is completed, but never a mark settled before.  The     *)
(* request is gone until it is added anew.                                 *)
CompletionTakesHold ==
    [][\A c \in Calls :
          /\ ~CompletionLost(c, "volWrite") /\ CompletionLost(c, "volWrite")' =>
                Rewritten(Written(c, "volWrite")) \/ Marked(Written(c, "volWrite"))
          /\ ~CompletionLost(c, "reqWrite") /\ CompletionLost(c, "reqWrite")' =>
                Added(Written(c, "reqWrite"))]_vars

(* What the code behind an await of an open call waits for is there: all   *)
(* it reads, or an error among it that no earlier await holds back.        *)
CanGoOn(c) ==
    \/ \E op \in CrudOps : Running(c, op) /\ St(c, "doc") \in {"ok", "rejected"}
    \/ /\ Running(c, "acceptReq")
       /\ AllRead(c, {"volData", "reqData"}) \/ ReadFails(c, <<"volData", "reqData">>)
    \/ /\ Running(c, "acceptVol") /\ St(c, "reqWrite") = "none"
       /\ St(c, "reqData") \in {"ok", "rejected"}
    \/ /\ Running(c, "acceptVol") /\ St(c, "reqWrite") # "none"
       /\ \/ AllRead(c, {"reqData", "volData", "custData"})
          \/ ReadFails(c, <<"volData", "custData">>)
    \/ /\ Running(c, "compReq")
       /\ \/ AllRead(c, {"volData", "reqData", "custData"})
          \/ ReadFails(c, <<"volData", "reqData", "custData">>)

(* No call hangs: as long as one is open, the store has a request of it to *)
(* settle or its handler can go on, whatever was refused, failed or found  *)
(* missing.  No handler awaits a promise that was never made, and no error *)
(* passes between its awaits.                                              *)
NoCallHangs ==
    \A c \in Calls :
       Arrived(c) /\ ~Answered(c) => (\E s \in Slots : St(c, s) = "pending") \/ CanGoOn(c)

(* Clients see document calls happen atomically, and matching calls do to  *)
(* the store nothing but what AtomicStore allows them.                     *)
OutcomeOf(p) == [st  |-> CASE p.st = "ok"       -> "done"
                           [] p.st = "rejected" -> "failed"
                           [] OTHER             -> "open",
                 val |-> p.val]

Outcome == [c \in Calls |-> OutcomeOf(promise[c].doc)]

Atomic == INSTANCE AtomicStore WITH outcome <- Outcome

AtomicDocumentCalls == Atomic!Spec

(* Liveness.                                                               *)

(* Every call is answered, whichever of its store requests is refused or  *)
(* fails: no path through a handler or its catch is left without a        *)
(* response.                                                              *)
EveryCallAnswered == \A c \in Calls : Arrived(c) ~> Answered(c)

(* compReq always reports 500, and a store request of it may really fail.  *)
(* A client that repeats the same compReq more often than store requests   *)
(* fail gets there: in the end the request is gone and the volunteer free. *)
(* A request that is already gone does not stop the later attempts.        *)
Repaired(h) ==
    /\ db[h.req] = Undefined
    /\ db[h.vol] # Undefined => db[h.vol].state = "free"

RetriesRepair ==
    \A h \in Traffic :
       h.op = "compReq" /\ Cardinality({c \in Calls : call[c] = h}) > MaxFaults ~> Repaired(h)

-----------------------------------------------------------------------------
(* What comments in the source say of communicate.                         *)

(* dbConnect.js:163: `token` is "the token of the client to communicate    *)
(* to".  The client is the one of the request in acceptReq, the volunteer  *)
(* in acceptVol and the customer in compReq.                               *)
Addressee(c) == CASE call[c].op = "acceptReq" -> Val(c, "reqData")
                  [] call[c].op = "acceptVol" -> Val(c, "volData")
                  [] call[c].op = "compReq"   -> Val(c, "custData")

CommunicateHasToken ==
    \A c \in Calls :
       push[c] # Undefined /\ Addressee(c) # Undefined => push[c].token = Addressee(c).token

(* controller.js:100-103: acceptVol "will communicate to the volunteer his *)
(* data so that he can fulfill the request": when it reports success, the  *)
(* message has gone out, provided the volunteer has a device.              *)
VolunteerInformed ==
    \A c \in Calls :
       Answered(c) /\ call[c].op = "acceptVol" /\ answer[c].code = 200
          /\ Val(c, "volData").token # Undefined
       => push[c].sent
=============================================================================
