------------------------ MODULE MatchServer_proofs ------------------------
(***************************************************************************)
(* Proofs about MatchServer for any number of documents and calls, any     *)
(* traffic, any store to start from and any number of faults and crashes.  *)
(***************************************************************************)
EXTENDS MatchServer, TLAPS

-----------------------------------------------------------------------------
(* The document store.                                                     *)

(* Merging fields into a document gives a document.                        *)
LEMMA MergeType ==
    ASSUME NEW old \in Document, NEW new \in Document
    PROVE  Merge(old, new) \in Document
BY DEF Merge, Given, Document

(* A call the store accepts leaves it with documents or none at every id.  *)
LEMMA AppliedType ==
    ASSUME NEW base \in Contents, NEW rpc \in StoreCall, Accepted(base, rpc)
    PROVE  Applied(base, rpc) \in Contents
<1>1. CASE rpc.kind = "get"
  BY <1>1 DEF Applied
<1>2. CASE rpc.kind = "set"
  <2>1. rpc.data \in Document
    BY DEF StoreCall
  <2> QED BY <1>2, <2>1 DEF Applied, Contents
<1>3. CASE rpc.kind = "update"
  <2>1. rpc.doc \in Docs /\ base[rpc.doc] # Undefined
    BY <1>3 DEF Accepted, Lookup
  <2>2. base[rpc.doc] \in Document /\ rpc.data \in Document
    BY <2>1 DEF Contents, StoreCall
  <2>3. Merge(base[rpc.doc], rpc.data) \in Document
    BY <2>2, MergeType
  <2> QED BY <1>3, <2>3 DEF Applied, Contents
<1>4. CASE rpc.kind = "delete"
  BY <1>4 DEF Applied, Contents
<1> QED BY <1>1, <1>2, <1>3, <1>4 DEF StoreCall

(* What a call delivers is a document or nothing.                          *)
LEMMA DeliveredType ==
    ASSUME NEW base \in Contents, NEW rpc \in StoreCall
    PROVE  Delivered(base, rpc) \in Document \cup {Undefined}
BY DEF Delivered, Lookup, Contents

(* A call changes no document but the one it names, and a read none.       *)
LEMMA AppliedElsewhere ==
    ASSUME NEW base \in Contents, NEW rpc \in StoreCall, NEW d \in Docs,
           rpc.doc # d \/ rpc.kind = "get"
    PROVE  Applied(base, rpc)[d] = base[d]
<1>1. CASE rpc.kind = "get"
  BY <1>1 DEF Applied
<1>2. CASE rpc.kind = "set"
  BY <1>2 DEF Applied, Contents
<1>3. CASE rpc.kind = "update"
  BY <1>3 DEF Applied, Contents
<1>4. CASE rpc.kind = "delete"
  BY <1>4 DEF Applied, Contents
<1> QED BY <1>1, <1>2, <1>3, <1>4 DEF StoreCall

(* What it does to the one it names.                                       *)
LEMMA AppliedThere ==
    ASSUME NEW base \in Contents, NEW rpc \in StoreCall, rpc.doc \in Docs
    PROVE  /\ rpc.kind = "set"    => Applied(base, rpc)[rpc.doc] = rpc.data
           /\ rpc.kind = "update" => Applied(base, rpc)[rpc.doc] = Merge(base[rpc.doc], rpc.data)
           /\ rpc.kind = "delete" => Applied(base, rpc)[rpc.doc] = Undefined
BY DEF Applied, Contents

-----------------------------------------------------------------------------
(* The promises a handler may hold, by the call it serves.                 *)
SlotsOf(op) == CASE op = "acceptReq" -> {"volData", "reqData"}
                 [] op = "acceptVol" -> {"volWrite", "volData", "reqData", "reqWrite", "custData"}
                 [] op = "compReq"   -> {"volData", "reqData", "custData", "volWrite", "reqWrite"}
                 [] OTHER            -> {"doc"}

(* A handler holds only the promises of its call, which is what makes Rpc a*)
(* store call at all; acceptVol looks the customer up after it has marked  *)
(* the request; compReq writes only after its reads and last of all, so    *)
(* that no promise is ever made a second time.                             *)
Discipline(c) ==
    /\ Arrived(c) => call[c] \in Traffic
    /\ \A s \in Slots : St(c, s) # "none" =>
          Arrived(c) /\ ~MissingParameter(call[c]) /\ s \in SlotsOf(call[c].op)
    /\ Arrived(c) /\ call[c].op = "compReq"
          /\ (St(c, "volWrite") # "none" \/ St(c, "reqWrite") # "none")
       => AllRead(c, {"volData", "reqData", "custData"}) /\ Answered(c)
    /\ Arrived(c) /\ call[c].op = "acceptVol" /\ St(c, "custData") # "none"
       => St(c, "reqWrite") # "none"

IInv == TypeOK /\ \A c \in Calls : Discipline(c)

(* Every request in flight is a proper store call.                         *)
LEMMA RpcType ==
    ASSUME IInv, NEW c \in Calls, NEW s \in Slots, St(c, s) # "none"
    PROVE  Rpc(c, s) \in StoreCall
<1> DEFINE h == call[c]
<1>1. h \in HttpRequest /\ ~MissingParameter(h) /\ s \in SlotsOf(h.op)
  BY DEF IInv, TypeOK, Discipline, Arrived
<1>2. promise[c].reqData.val \in Document \cup {Undefined}
  BY DEF IInv, TypeOK, Promise, Slots
<1>3. CustomerOf(promise[c].reqData.val) \in Docs \cup {Undefined}
  BY <1>2 DEF CustomerOf, Document, Docs
<1>4. NoFields \in Document /\ \A t \in States : StateOnly(t) \in Document
  BY DEF NoFields, StateOnly, Document
<1>5. h.vol \in Docs \cup {Undefined} /\ h.req \in Docs \cup {Undefined}
      /\ h.cust \in Docs \cup {Undefined} /\ h.doc \in Docs \cup {Undefined} /\ h.data \in Document
  BY <1>1 DEF HttpRequest, Docs
<1>6. \A d \in Docs \cup {Undefined} : Get(d) \in StoreCall /\ Delete(d) \in StoreCall
  BY <1>4 DEF Get, Delete, StoreCall
<1>7. \A d \in Docs \cup {Undefined}, f \in Document : Set(d, f) \in StoreCall /\ Update(d, f) \in StoreCall
  BY DEF Set, Update, StoreCall
<1>8. CASE h.op = "acceptReq"
  BY <1>1, <1>5, <1>6, <1>8 DEF Rpc, AcceptRequestRpc, SlotsOf
<1>9. CASE h.op = "acceptVol"
  <2>1. StateOnly("in progress") \in Document
    BY <1>4 DEF States
  <2> DEFINE rpcs == AcceptVolRpc(h, promise[c].reqData.val)
  <2>2. Rpc(c, s) = rpcs[s]
    BY <1>9 DEF Rpc
  <2>3. rpcs.volWrite \in StoreCall /\ rpcs.reqWrite \in StoreCall
    BY <1>5, <1>7, <2>1 DEF AcceptVolRpc
  <2>4. rpcs.volData \in StoreCall /\ rpcs.reqData \in StoreCall /\ rpcs.custData \in StoreCall
    BY <1>3, <1>5, <1>6 DEF AcceptVolRpc
  <2>5. s \in {"volWrite", "volData", "reqData", "reqWrite", "custData"}
    BY <1>1, <1>9 DEF SlotsOf
  <2> QED BY <2>2, <2>3, <2>4, <2>5
<1>10. CASE h.op = "compReq"
  <2>1. StateOnly("free") \in Document
    BY <1>4 DEF States
  <2> QED BY <1>1, <1>5, <1>6, <1>7, <1>10, <2>1 DEF Rpc, CompReqRpc, SlotsOf
<1>11. CASE h.op \in CrudOps
  BY <1>5, <1>6, <1>7, <1>11 DEF Rpc, CrudRpc, CrudOps
<1> QED BY <1>1, <1>8, <1>9, <1>10, <1>11 DEF HttpRequest, MatchOps

-----------------------------------------------------------------------------
(* How the helpers change promises and answers.                            *)

LEMMA IssueEffect ==
    ASSUME TypeOK, NEW c \in Calls, NEW S, Issue(c, S)
    PROVE  /\ promise' \in [Calls -> [Slots -> Promise]]
           /\ \A k \in Calls : k # c => promise'[k] = promise[k]
           /\ \A s \in Slots : promise'[c][s] = IF s \in S THEN Pending ELSE promise[c][s]
<1>1. Pending \in Promise
  BY DEF Pending, Promise
<1> QED BY <1>1 DEF TypeOK, Issue

LEMMA SettleEffect ==
    ASSUME TypeOK, NEW c \in Calls, NEW s \in Slots, NEW p \in Promise, Settle(c, s, p)
    PROVE  /\ promise' \in [Calls -> [Slots -> Promise]]
           /\ \A k \in Calls, t \in Slots :
                 promise'[k][t] = IF k = c /\ t = s THEN p ELSE promise[k][t]
BY DEF TypeOK, Settle

LEMMA RespondType ==
    ASSUME TypeOK, NEW c \in Calls, NEW code \in {0, 200, 401, 404, 500},
           NEW body \in Document \cup {Undefined}, Respond(c, code, body)
    PROVE  /\ answer' \in [Calls -> Answer \cup {Undefined}]
           /\ Answered(c)'
           /\ \A k \in Calls : k # c => answer'[k] = answer[k]
<1>1. [code |-> code, body |-> body] \in Answer
  BY DEF Answer
<1> QED BY <1>1, CallsAssumption DEF TypeOK, Respond, Answered

LEMMA PromiseTypes ==
    /\ Pending \in Promise /\ Rejected \in Promise /\ NoPromise \in Promise
    /\ \A v \in Document \cup {Undefined} : Resolved(v) \in Promise
BY DEF Pending, Rejected, NoPromise, Resolved, Promise

LEMMA CommunicateType ==
    ASSUME NEW token \in Tokens \cup {Undefined}, NEW kinds
    PROVE  Communicate(token, kinds) \in Push /\ Communicate(token, kinds).sent \in BOOLEAN
BY DEF Communicate, Sendable, Push

(* A promise in flight belongs to a call that has arrived.                 *)
LEMMA InFlight ==
    ASSUME IInv, NEW c \in Calls, NEW s \in Slots, St(c, s) = "pending"
    PROVE  Arrived(c) /\ Rpc(c, s) \in StoreCall
BY RpcType DEF IInv, Discipline

-----------------------------------------------------------------------------
LEMMA InitIInv == Init => IInv
<1> SUFFICES ASSUME Init PROVE IInv
  OBVIOUS
<1>1. TypeOK
  BY PromiseTypes, CallsAssumption, ServerAssumption DEF Init, TypeOK
<1>2. ASSUME NEW c \in Calls PROVE Discipline(c)
  BY DEF Init, Discipline, Arrived, St, NoPromise, Slots
<1> QED BY <1>1, <1>2 DEF IInv

(* Discipline looks only at the call's own request, promises and answer.   *)
LEMMA DisciplineFrame ==
    ASSUME NEW c \in Calls, Discipline(c), call'[c] = call[c],
           Answered(c) => Answered(c)',
           \A s \in Slots : promise'[c][s].st = promise[c][s].st
    PROVE  Discipline(c)'
BY DEF Discipline, Arrived, St, AllRead, Slots

(* Settling promises of a call keeps its discipline.                       *)
LEMMA DisciplineSettled ==
    ASSUME NEW c \in Calls, Discipline(c), call'[c] = call[c],
           Answered(c) => Answered(c)',
           \A s \in Slots : \/ promise'[c][s].st = promise[c][s].st
                            \/ promise[c][s].st = "pending" /\ promise'[c][s].st \in {"ok", "rejected"}
    PROVE  Discipline(c)'
<1>1. \A s \in Slots : promise'[c][s].st # "none" => promise[c][s].st # "none"
  OBVIOUS
<1>2. \A s \in Slots : promise[c][s].st = "ok" => promise'[c][s].st = "ok"
  OBVIOUS
<1>3. \A s \in Slots : promise[c][s].st # "none" => promise'[c][s].st # "none"
  OBVIOUS
<1> QED BY <1>1, <1>2, <1>3 DEF Discipline, Arrived, St, AllRead, Slots

(* A call that arrives holds no promise yet.                               *)
LEMMA FreshCall ==
    ASSUME IInv, NEW c \in Calls, call[c] = Undefined, NEW s \in Slots
    PROVE  promise[c][s].st = "none"
BY DEF IInv, Discipline, Arrived, St

LEMMA ArriveEffect ==
    ASSUME TypeOK, NEW c \in Calls, NEW h \in Traffic, Arrive(c, h)
    PROVE  /\ call' \in [Calls -> HttpRequest \cup {Undefined}]
           /\ call'[c] = h /\ h # Undefined /\ h \in HttpRequest
           /\ \A k \in Calls : k # c => call'[k] = call[k]
BY CallsAssumption DEF TypeOK, Arrive

(* TypeOK and Discipline are preserved by every step.                      *)
LEMMA NextIInv == IInv /\ [Next]_vars => IInv'
<1> SUFFICES ASSUME IInv, [Next]_vars PROVE IInv'
  OBVIOUS
<1> USE DEF IInv
<1>1. ASSUME NEW c \in Calls, NEW h \in Traffic, Unauthorized(c, h) \/ NotFound(c, h)
      PROVE  IInv'
  <2>1. TypeOK'
    <3>1. Undefined \in Document \cup {Undefined}
      OBVIOUS
    <3> QED BY <1>1, <3>1, ArriveEffect, RespondType DEF Unauthorized, NotFound, TypeOK
  <2>2. ASSUME NEW k \in Calls PROVE Discipline(k)'
    <3>1. UNCHANGED promise /\ Arrive(c, h)
      BY <1>1 DEF Unauthorized, NotFound
    <3>2. CASE k = c
      <4>1. \A s \in Slots : promise'[k][s].st = "none"
        BY <3>1, <3>2, FreshCall DEF Arrive
      <4> QED BY <3>1, <3>2, <4>1, ArriveEffect DEF Discipline, St, Arrived, AllRead, Slots
    <3>3. CASE k # c
      <4>1. Answered(k) => Answered(k)'
        BY <1>1, <3>3, RespondType DEF Unauthorized, NotFound, Answered
      <4> QED BY <3>1, <3>3, <4>1, ArriveEffect, DisciplineFrame
    <3> QED BY <3>2, <3>3
  <2> QED BY <2>1, <2>2
<1>2. ASSUME NEW c \in Calls, NEW h \in Traffic, Start(c, h) PROVE IInv'
  <2>1. TypeOK'
    BY <1>2, ArriveEffect, IssueEffect DEF Start, TypeOK
  <2>2. ASSUME NEW k \in Calls PROVE Discipline(k)'
    <3>1. Arrive(c, h) /\ Issue(c, FirstRpcs(h)) /\ ~MissingParameter(h)
      BY <1>2 DEF Start
    <3>2. CASE k = c
      <4>1. \A s \in Slots : promise'[k][s].st # "none" => s \in FirstRpcs(h)
        BY <3>1, <3>2, FreshCall, IssueEffect DEF Arrive
      <4>2. FirstRpcs(h) \subseteq SlotsOf(h.op)
        BY DEF FirstRpcs, SlotsOf
      <4>3. /\ h.op = "compReq" => "volWrite" \notin FirstRpcs(h) /\ "reqWrite" \notin FirstRpcs(h)
            /\ h.op = "acceptVol" => "custData" \notin FirstRpcs(h)
        BY DEF FirstRpcs
      <4>4. call'[k] = h
        BY <3>1, <3>2, ArriveEffect
      <4>5. h # Undefined
        BY <3>1, ArriveEffect
      <4> QED BY <3>1, <3>2, <4>1, <4>2, <4>3, <4>4, <4>5
              DEF Discipline, St, Arrived, AllRead, Slots
    <3>3. CASE k # c
      <4>1. Answered(k) => Answered(k)'
        BY <1>2 DEF Start, Answered
      <4> QED BY <3>1, <3>3, <4>1, ArriveEffect, IssueEffect, DisciplineFrame
    <3> QED BY <3>2, <3>3
  <2> QED BY <2>1, <2>2
<1>3. ASSUME NEW c \in Calls, NEW s \in Slots, Resolve(c, s) PROVE IInv'
  <2>1. Rpc(c, s) \in StoreCall
    BY <1>3, InFlight DEF Resolve
  <2>2. Applied(db, Rpc(c, s)) \in Contents
    BY <1>3, <2>1, AppliedType DEF Resolve, TypeOK
  <2>3. Resolved(Delivered(db, Rpc(c, s))) \in Promise
    BY <2>1, DeliveredType, PromiseTypes DEF TypeOK
  <2>4. TypeOK'
    BY <1>3, <2>2, <2>3, SettleEffect DEF Resolve, TypeOK
  <2>5. ASSUME NEW k \in Calls PROVE Discipline(k)'
    <3>1. \A t \in Slots : \/ promise'[k][t].st = promise[k][t].st
                           \/ promise[k][t].st = "pending" /\ promise'[k][t].st \in {"ok", "rejected"}
      BY <1>3, <2>3, SettleEffect DEF Resolve, St, Resolved
    <3> QED BY <1>3, <3>1, DisciplineSettled DEF Resolve, Answered
  <2> QED BY <2>4, <2>5
<1>4. ASSUME NEW c \in Calls, NEW s \in Slots, Refuse(c, s) \/ Fault(c, s) PROVE IInv'
  <2>1. Rpc(c, s) \in StoreCall
    BY <1>4, InFlight DEF Refuse, Fault
  <2>2. db' \in Contents
    BY <1>4, <2>1, AppliedType DEF Refuse, Fault, TypeOK
  <2>3. Settle(c, s, Rejected) /\ UNCHANGED <<call, answer, push, crashes>> /\ St(c, s) = "pending"
    BY <1>4 DEF Refuse, Fault
  <2>4. faults' \in 0..MaxFaults
    BY <1>4, ServerAssumption DEF Refuse, Fault, TypeOK
  <2>5. TypeOK'
    BY <2>2, <2>3, <2>4, SettleEffect, PromiseTypes DEF TypeOK
  <2>6. ASSUME NEW k \in Calls PROVE Discipline(k)'
    <3>1. \A t \in Slots : \/ promise'[k][t].st = promise[k][t].st
                           \/ promise[k][t].st = "pending" /\ promise'[k][t].st \in {"ok", "rejected"}
      BY <2>3, SettleEffect, PromiseTypes DEF St, Rejected
    <3> QED BY <2>3, <3>1, DisciplineSettled DEF Answered
  <2> QED BY <2>5, <2>6
<1>5. ASSUME NEW c \in Calls, UNCHANGED <<db, call, promise, faults, crashes>>,
             answer' \in [Calls -> Answer \cup {Undefined}], push' \in [Calls -> Push \cup {Undefined}],
             \A k \in Calls : Answered(k) => Answered(k)'
      PROVE  IInv'
  BY <1>5, DisciplineFrame DEF TypeOK
<1>6. ASSUME NEW c \in Calls,
             \/ CrudAnswer(c) \/ AcceptReqFail(c) \/ AcceptVolFail(c)
             \/ AcceptVolNobody(c) \/ CompReqFail(c)
      PROVE  IInv'
  <2>1. promise[c].doc.val \in Document \cup {Undefined}
    BY DEF TypeOK, Promise, Slots
  <2>2. /\ answer' \in [Calls -> Answer \cup {Undefined}]
        /\ \A k \in Calls : Answered(k) => Answered(k)'
    <3>1. \E code \in {200, 500}, body \in Document \cup {Undefined} : Respond(c, code, body)
      BY <1>6, <2>1
         DEF CrudAnswer, AcceptReqFail, AcceptVolFail, AcceptVolNobody, CompReqFail, Val
    <3> QED BY <3>1, RespondType DEF Answered
  <2>3. UNCHANGED <<db, call, promise, push, faults, crashes>>
    BY <1>6 DEF CrudAnswer, AcceptReqFail, AcceptVolFail, AcceptVolNobody, CompReqFail
  <2>4. push' \in [Calls -> Push \cup {Undefined}]
    BY <2>3 DEF TypeOK
  <2> QED BY <1>5, <2>2, <2>3, <2>4
<1>7. ASSUME NEW c \in Calls, AcceptReqCommunicate(c) PROVE IInv'
  <2> DEFINE message == Communicate(TokenOfPromise, {})
  <2>1. message \in Push /\ message.sent \in BOOLEAN
    BY CommunicateType DEF TokenOfPromise
  <2>2. \E code \in {200, 500} : Respond(c, code, Undefined)
    BY <1>7, <2>1 DEF AcceptReqCommunicate
  <2>3. /\ answer' \in [Calls -> Answer \cup {Undefined}]
        /\ \A k \in Calls : Answered(k) => Answered(k)'
    BY <2>2, RespondType DEF Answered
  <2>4. push' \in [Calls -> Push \cup {Undefined}]
    BY <1>7, <2>1 DEF AcceptReqCommunicate, TypeOK
  <2> QED BY <1>5, <1>7, <2>3, <2>4 DEF AcceptReqCommunicate
<1>8. ASSUME NEW c \in Calls, AcceptVolAnswer(c) PROVE IInv'
  <2> DEFINE message == Communicate(Val(c, "volData").token, {"object"})
  <2>1. Val(c, "volData") \in Document
    BY <1>8 DEF AcceptVolAnswer, Val, TypeOK, Promise, Slots
  <2>2. message \in Push
    BY <2>1, CommunicateType DEF Document
  <2>3. /\ answer' \in [Calls -> Answer \cup {Undefined}]
        /\ \A k \in Calls : Answered(k) => Answered(k)'
    BY <1>8, RespondType DEF AcceptVolAnswer, Answered
  <2>4. push' \in [Calls -> Push \cup {Undefined}]
    BY <1>8, <2>2 DEF AcceptVolAnswer, TypeOK
  <2> QED BY <1>5, <1>8, <2>3, <2>4 DEF AcceptVolAnswer
<1>9. ASSUME NEW c \in Calls, AcceptVolMark(c) \/ AcceptVolMarkNothing(c) PROVE IInv'
  <2>1. \E S \in {{"reqWrite", "custData"}, {"reqWrite"}} : Issue(c, S)
    BY <1>9 DEF AcceptVolMark, AcceptVolMarkNothing
  <2>2. UNCHANGED <<db, call, push, faults, crashes>>
    BY <1>9 DEF AcceptVolMark, AcceptVolMarkNothing
  <2>3. /\ answer' \in [Calls -> Answer \cup {Undefined}]
        /\ \A k \in Calls : Answered(k) => Answered(k)'
    BY <1>9, RespondType DEF AcceptVolMark, AcceptVolMarkNothing, TypeOK, Answered
  <2>4. TypeOK'
    BY <2>1, <2>2, <2>3, IssueEffect DEF TypeOK
  <2>5. ASSUME NEW k \in Calls PROVE Discipline(k)'
    <3>1. CASE k = c
      <4>1. call'[k] = call[k] /\ Arrived(k) /\ call[k].op = "acceptVol"
        BY <1>9, <2>2, <3>1 DEF AcceptVolMark, AcceptVolMarkNothing, Running
      <4>2. ~MissingParameter(call[k])
        BY <1>9, <3>1 DEF AcceptVolMark, AcceptVolMarkNothing, Discipline, Slots
      <4>3. \A s \in Slots : promise'[k][s].st # "none" => s \in SlotsOf("acceptVol")
        BY <2>1, <3>1, <4>1, IssueEffect DEF Discipline, St, SlotsOf
      <4>4. promise'[k]["reqWrite"].st # "none"
        BY <2>1, <3>1, IssueEffect DEF Slots, Pending
      <4> QED BY <4>1, <4>2, <4>3, <4>4 DEF Discipline, Arrived, St
    <3>2. CASE k # c
      BY <2>1, <2>2, <2>3, <3>2, IssueEffect, DisciplineFrame
    <3> QED BY <3>1, <3>2
  <2> QED BY <2>4, <2>5
<1>10. ASSUME NEW c \in Calls, CompReqWrite(c) PROVE IInv'
  <2> DEFINE message == Communicate(TokenOfPromise, {"object"})
  <2>1. Issue(c, {"volWrite", "reqWrite"})
    BY <1>10 DEF CompReqWrite
  <2>2. UNCHANGED <<db, call, faults, crashes>>
    BY <1>10 DEF CompReqWrite
  <2>3. message \in Push /\ message.sent \in BOOLEAN
    BY CommunicateType DEF TokenOfPromise
  <2>4. \E code \in {200, 500} : Respond(c, code, Undefined)
    BY <1>10, <2>3 DEF CompReqWrite
  <2>5. /\ answer' \in [Calls -> Answer \cup {Undefined}]
        /\ Answered(c)'
        /\ \A k \in Calls : Answered(k) => Answered(k)'
    BY <2>4, RespondType DEF Answered
  <2>6. push' \in [Calls -> Push \cup {Undefined}]
    BY <1>10, <2>3 DEF CompReqWrite, TypeOK
  <2>7. TypeOK'
    BY <2>1, <2>2, <2>5, <2>6, IssueEffect DEF TypeOK
  <2>8. ASSUME NEW k \in Calls PROVE Discipline(k)'
    <3>1. CASE k = c
      <4>1. call'[k] = call[k] /\ Arrived(k) /\ call[k].op = "compReq"
        BY <1>10, <2>2, <3>1 DEF CompReqWrite, Running
      <4>2. AllRead(k, {"volData", "reqData", "custData"})
        BY <1>10, <3>1 DEF CompReqWrite
      <4>3. ~MissingParameter(call[k])
        BY <4>2 DEF Discipline, AllRead, Slots
      <4>4. \A s \in Slots : promise'[k][s].st # "none" => s \in SlotsOf("compReq")
        BY <2>1, <3>1, <4>1, IssueEffect DEF Discipline, St, SlotsOf
      <4>5. AllRead(k, {"volData", "reqData", "custData"})'
        BY <2>1, <3>1, <4>2, IssueEffect DEF AllRead, St, Slots
      <4> QED BY <2>5, <3>1, <4>1, <4>3, <4>4, <4>5 DEF Discipline, Arrived, St
    <3>2. CASE k # c
      BY <2>1, <2>2, <2>5, <3>2, IssueEffect, DisciplineFrame
    <3> QED BY <3>1, <3>2
  <2> QED BY <2>7, <2>8
<1>11. CASE Crash
  <2>1. UNCHANGED <<db, call, push, faults>> /\ crashes' \in 0..MaxCrashes
    BY <1>11, ServerAssumption DEF Crash, TypeOK
  <2>2. /\ answer' \in [Calls -> Answer \cup {Undefined}]
        /\ \A k \in Calls : Answered(k) => Answered(k)'
    BY <1>11 DEF Crash, TypeOK, Answer, Answered
  <2>3. \A k \in Calls, s \in Slots : \/ promise'[k][s] = promise[k][s]
                                      \/ promise[k][s].st = "pending" /\ promise'[k][s] = Rejected
    <3>1. PICK lost \in SUBSET {cs \in Calls \X Slots : St(cs[1], cs[2]) = "pending"} :
            promise' = [c \in Calls |-> [s \in Slots |->
                          IF <<c, s>> \in lost THEN Rejected ELSE promise[c][s]]]
      BY <1>11 DEF Crash
    <3>2. \A k \in Calls, s \in Slots : <<k, s>> \in lost => St(k, s) = "pending"
      OBVIOUS
    <3>3. \A k \in Calls, s \in Slots :
            promise'[k][s] = IF <<k, s>> \in lost THEN Rejected ELSE promise[k][s]
      BY <3>1
    <3> QED BY <3>2, <3>3 DEF St
  <2>4. promise' \in [Calls -> [Slots -> Promise]]
    BY <1>11, PromiseTypes DEF Crash, TypeOK
  <2>5. TypeOK'
    BY <2>1, <2>2, <2>4 DEF TypeOK
  <2>6. ASSUME NEW k \in Calls PROVE Discipline(k)'
    BY <2>1, <2>2, <2>3, DisciplineSettled DEF Rejected
  <2> QED BY <2>5, <2>6
<1>12. CASE UNCHANGED vars
  BY <1>12, DisciplineFrame DEF vars, TypeOK, Answered
<1> QED BY <1>1, <1>2, <1>3, <1>4, <1>6, <1>7, <1>8, <1>9, <1>10, <1>11, <1>12
        DEF Next, Continue, Idle

(* Whatever the clients do, and however requests to the store fail, the    *)
(* variables keep their types.                                             *)
THEOREM TypeCorrect == Spec => []TypeOK
<1>1. IInv => TypeOK
  BY DEF IInv
<1> QED BY InitIInv, NextIInv, <1>1, PTL DEF Spec

THEOREM Invariance == Spec => []IInv
BY InitIInv, NextIInv, PTL DEF Spec

-----------------------------------------------------------------------------
(* No call hangs.                                                          *)

(* An open call has made the promises its handler awaits.                  *)
Awaits(c) ==
    Arrived(c) /\ ~Answered(c) =>
       /\ \A s \in FirstRpcs(call[c]) : St(c, s) # "none"
       /\ call[c].op = "acceptVol" /\ St(c, "reqWrite") # "none" =>
             St(c, "reqData") = "ok" /\ St(c, "custData") # "none"

LEMMA FirstAre ==
    ASSUME NEW h
    PROVE  /\ FirstRpcs(h) \subseteq Slots
           /\ "reqWrite" \notin FirstRpcs(h)
           /\ h.op = "acceptReq" => FirstRpcs(h) = {"volData", "reqData"}
           /\ h.op = "acceptVol" => FirstRpcs(h) = {"volWrite", "volData", "reqData"}
           /\ h.op = "compReq"   => FirstRpcs(h) = {"volData", "reqData", "custData"}
           /\ h.op \in CrudOps   => FirstRpcs(h) = {"doc"}
<1>1. CASE h.op = "acceptReq"
  BY <1>1 DEF FirstRpcs, Slots, CrudOps
<1>2. CASE h.op = "acceptVol"
  BY <1>2 DEF FirstRpcs, Slots, CrudOps
<1>3. CASE h.op = "compReq"
  BY <1>3 DEF FirstRpcs, Slots, CrudOps
<1>4. CASE h.op \notin {"acceptReq", "acceptVol", "compReq"}
  BY <1>4 DEF FirstRpcs, Slots, CrudOps
<1> QED BY <1>1, <1>2, <1>3, <1>4

(* Settling promises of a call leaves it those it has made.                *)
LEMMA AwaitsKept ==
    ASSUME NEW c \in Calls, Awaits(c), call'[c] = call[c],
           Answered(c) => Answered(c)',
           \A s \in Slots : \/ promise'[c][s].st = promise[c][s].st
                            \/ promise[c][s].st = "pending" /\ promise'[c][s].st \in {"ok", "rejected"}
    PROVE  Awaits(c)'
<1>1. \A s \in Slots : promise'[c][s].st = "none" <=> promise[c][s].st = "none"
  OBVIOUS
<1>2. \A s \in Slots : promise[c][s].st = "ok" => promise'[c][s].st = "ok"
  OBVIOUS
<1>3. {"reqWrite", "reqData", "custData"} \subseteq Slots /\ FirstRpcs(call[c]) \subseteq Slots
  BY FirstAre DEF Slots
<1> QED BY <1>1, <1>2, <1>3 DEF Awaits, Arrived, St

(* A handler goes on with new promises, or ends with an answer.            *)
LEMMA AwaitsNext == IInv /\ (\A c \in Calls : Awaits(c)) /\ [Next]_vars => (\A c \in Calls : Awaits(c))'
<1> SUFFICES ASSUME IInv, \A c \in Calls : Awaits(c), [Next]_vars, NEW k \in Calls
             PROVE  Awaits(k)'
  OBVIOUS
<1> USE DEF IInv
<1>0. ASSUME call'[k] = call[k], Answered(k) => Answered(k)', promise'[k] = promise[k]
      PROVE  Awaits(k)'
  BY <1>0, AwaitsKept
<1>1. ASSUME NEW c \in Calls, NEW h \in Traffic, Unauthorized(c, h) \/ NotFound(c, h)
      PROVE  Awaits(k)'
  <2>1. UNCHANGED promise /\ Arrive(c, h) /\ \E code \in {401, 404} : Respond(c, code, Undefined)
    BY <1>1 DEF Unauthorized, NotFound
  <2>2. Answered(c)' /\ \A j \in Calls : j # c => answer'[j] = answer[j]
    BY <2>1, RespondType
  <2>3. CASE k = c
    BY <2>2, <2>3 DEF Awaits
  <2>4. CASE k # c
    BY <1>0, <2>1, <2>2, <2>4, ArriveEffect DEF Answered
  <2> QED BY <2>3, <2>4
<1>2. ASSUME NEW c \in Calls, NEW h \in Traffic, Start(c, h) PROVE Awaits(k)'
  <2>1. Arrive(c, h) /\ Issue(c, FirstRpcs(h)) /\ UNCHANGED answer
    BY <1>2 DEF Start
  <2>2. CASE k = c
    <3>1. call'[k] = h /\ FirstRpcs(h) \subseteq Slots
      BY <2>1, <2>2, ArriveEffect, FirstAre
    <3>2. \A s \in Slots : promise'[k][s] = IF s \in FirstRpcs(h) THEN Pending ELSE promise[k][s]
      BY <2>1, <2>2, IssueEffect
    <3>3. \A s \in FirstRpcs(h) : promise'[k][s].st = "pending"
      BY <3>1, <3>2 DEF Pending
    <3>4. promise'[k]["reqWrite"].st = "none"
      <4>1. "reqWrite" \in Slots /\ "reqWrite" \notin FirstRpcs(h) /\ call[k] = Undefined
        BY <2>1, <2>2, FirstAre DEF Slots, Arrive
      <4> QED BY <3>2, <4>1, FreshCall
    <3> QED BY <3>1, <3>3, <3>4 DEF Awaits, St
  <2>3. CASE k # c
    BY <1>0, <2>1, <2>3, ArriveEffect, IssueEffect DEF Answered
  <2> QED BY <2>2, <2>3
<1>3. ASSUME NEW c \in Calls, NEW s \in Slots, Resolve(c, s) \/ Refuse(c, s) \/ Fault(c, s)
      PROVE  Awaits(k)'
  <2>1. PICK p \in Promise : Settle(c, s, p) /\ p.st \in {"ok", "rejected"}
    <3>1. CASE Resolve(c, s)
      <4>1. Rpc(c, s) \in StoreCall
        BY <3>1, InFlight DEF Resolve
      <4>2. Resolved(Delivered(db, Rpc(c, s))) \in Promise
        BY <4>1, DeliveredType, PromiseTypes DEF TypeOK
      <4>3. Resolved(Delivered(db, Rpc(c, s))).st = "ok"
        BY DEF Resolved
      <4> QED BY <3>1, <4>2, <4>3 DEF Resolve
    <3>2. CASE Refuse(c, s) \/ Fault(c, s)
      <4>1. Rejected \in Promise /\ Rejected.st = "rejected"
        BY PromiseTypes DEF Rejected
      <4> QED BY <3>2, <4>1 DEF Refuse, Fault
    <3> QED BY <1>3, <3>1, <3>2
  <2>2. St(c, s) = "pending" /\ UNCHANGED <<call, answer>>
    BY <1>3 DEF Resolve, Refuse, Fault
  <2>3. \A t \in Slots : \/ promise'[k][t].st = promise[k][t].st
                         \/ promise[k][t].st = "pending" /\ promise'[k][t].st \in {"ok", "rejected"}
    BY <2>1, <2>2, SettleEffect DEF St
  <2> QED BY <2>2, <2>3, AwaitsKept DEF Answered
<1>4. ASSUME NEW c \in Calls, AcceptVolMark(c) PROVE Awaits(k)'
  <2>1. Issue(c, {"reqWrite", "custData"}) /\ UNCHANGED <<call, answer>>
    BY <1>4 DEF AcceptVolMark
  <2>2. CASE k = c
    <3>1. Arrived(k) /\ ~Answered(k) /\ call[k].op = "acceptVol" /\ St(k, "reqData") = "ok"
      BY <1>4, <2>2 DEF AcceptVolMark, Running
    <3>2. \A s \in Slots :
             promise'[k][s] = IF s \in {"reqWrite", "custData"} THEN Pending ELSE promise[k][s]
      BY <2>1, <2>2, IssueEffect
    <3>3. \A s \in FirstRpcs(call[k]) : promise[k][s].st # "none" /\ s \in Slots
      BY <3>1, FirstAre DEF Awaits, St
    <3>4. /\ \A s \in FirstRpcs(call[k]) : promise'[k][s].st # "none"
          /\ promise'[k]["reqData"].st = "ok" /\ promise'[k]["custData"].st # "none"
      BY <3>1, <3>2, <3>3 DEF Slots, Pending, St
    <3> QED BY <2>1, <3>4 DEF Awaits, St
  <2>3. CASE k # c
    BY <1>0, <2>1, <2>3, IssueEffect DEF Answered
  <2> QED BY <2>2, <2>3
<1>5. ASSUME NEW c \in Calls,
             \/ CrudAnswer(c) \/ AcceptReqCommunicate(c) \/ AcceptReqFail(c)
             \/ AcceptVolMarkNothing(c) \/ AcceptVolFail(c) \/ AcceptVolAnswer(c)
             \/ AcceptVolNobody(c) \/ CompReqWrite(c) \/ CompReqFail(c)
      PROVE  Awaits(k)'
  <2>1. promise[c].doc.val \in Document \cup {Undefined}
    BY DEF TypeOK, Promise, Slots
  <2>2. \E code \in {200, 500}, body \in Document \cup {Undefined} : Respond(c, code, body)
    <3>1. CASE AcceptReqCommunicate(c) \/ CompReqWrite(c)
      BY <3>1 DEF AcceptReqCommunicate, CompReqWrite
    <3> QED BY <1>5, <2>1, <3>1
            DEF CrudAnswer, AcceptReqFail, AcceptVolMarkNothing, AcceptVolFail, AcceptVolAnswer,
                AcceptVolNobody, CompReqFail, Val
  <2>3. Answered(c)' /\ \A j \in Calls : j # c => answer'[j] = answer[j]
    BY <2>2, RespondType
  <2>4. UNCHANGED call
    BY <1>5 DEF CrudAnswer, AcceptReqCommunicate, AcceptReqFail, AcceptVolMarkNothing, AcceptVolFail,
       AcceptVolAnswer, AcceptVolNobody, CompReqWrite, CompReqFail
  <2>5. UNCHANGED promise \/ \E S : Issue(c, S)
    BY <1>5 DEF CrudAnswer, AcceptReqCommunicate, AcceptReqFail, AcceptVolMarkNothing, AcceptVolFail,
       AcceptVolAnswer, AcceptVolNobody, CompReqWrite, CompReqFail
  <2>6. CASE k = c
    BY <2>3, <2>6 DEF Awaits
  <2>7. CASE k # c
    <3>1. promise'[k] = promise[k]
      BY <2>5, <2>7, IssueEffect
    <3> QED BY <1>0, <2>3, <2>4, <2>7, <3>1 DEF Answered
  <2> QED BY <2>6, <2>7
<1>6. CASE Crash
  <2>1. answer'[k] = IF Arrived(k) /\ ~Answered(k) THEN [code |-> 0, body |-> Undefined] ELSE answer[k]
    BY <1>6 DEF Crash
  <2>2. [code |-> 0, body |-> Undefined] # Undefined
    BY CallsAssumption DEF Answer
  <2>3. Arrived(k) => Answered(k)'
    BY <2>1, <2>2 DEF Answered
  <2>4. UNCHANGED call
    BY <1>6 DEF Crash
  <2> QED BY <2>3, <2>4 DEF Awaits, Arrived
<1>7. CASE UNCHANGED vars
  BY <1>0, <1>7 DEF vars, Answered
<1> QED BY <1>1, <1>2, <1>3, <1>4, <1>5, <1>6, <1>7 DEF Next, Continue, Idle

(* Promises that are all settled are all there, or the first that is not   *)
(* is an error the handler gets to see.                                    *)
LEMMA TwoReadOrFailed ==
    ASSUME NEW c, NEW a, NEW b,
           St(c, a) \in {"ok", "rejected"}, St(c, b) \in {"ok", "rejected"}
    PROVE  AllRead(c, {a, b}) \/ ReadFails(c, <<a, b>>)
<1>1. CASE St(c, a) = "rejected"
  <2>1. ReadFails(c, <<a, b>>)
    BY <1>1 DEF ReadFails
  <2> QED BY <2>1
<1>2. CASE St(c, a) = "ok" /\ St(c, b) = "rejected"
  <2>1. ReadFails(c, <<a, b>>)
    BY <1>2 DEF ReadFails
  <2> QED BY <2>1
<1>3. CASE St(c, a) = "ok" /\ St(c, b) = "ok"
  BY <1>3 DEF AllRead
<1> QED BY <1>1, <1>2, <1>3

LEMMA ThreeReadOrFailed ==
    ASSUME NEW c, NEW a, NEW b, NEW d,
           St(c, a) \in {"ok", "rejected"}, St(c, b) \in {"ok", "rejected"},
           St(c, d) \in {"ok", "rejected"}
    PROVE  AllRead(c, {a, b, d}) \/ ReadFails(c, <<a, b, d>>)
<1>1. CASE St(c, a) = "rejected"
  <2>1. ReadFails(c, <<a, b, d>>)
    BY <1>1 DEF ReadFails
  <2> QED BY <2>1
<1>2. CASE St(c, a) = "ok" /\ St(c, b) = "rejected"
  <2>1. ReadFails(c, <<a, b, d>>)
    BY <1>2 DEF ReadFails
  <2> QED BY <2>1
<1>3. CASE St(c, a) = "ok" /\ St(c, b) = "ok" /\ St(c, d) = "rejected"
  <2>1. ReadFails(c, <<a, b, d>>)
    BY <1>3 DEF ReadFails
  <2> QED BY <2>1
<1>4. CASE St(c, a) = "ok" /\ St(c, b) = "ok" /\ St(c, d) = "ok"
  BY <1>4 DEF AllRead
<1> QED BY <1>1, <1>2, <1>3, <1>4

(* No call hangs, for any number of calls, faults and crashes: an open one *)
(* has a request under way, or its handler can go on.                      *)
THEOREM OpenCallsGoOn == Spec => []NoCallHangs
<1>1. Init => \A c \in Calls : Awaits(c)
  BY DEF Init, Awaits, Arrived
<1>2. IInv /\ (\A c \in Calls : Awaits(c)) => NoCallHangs
  <2> SUFFICES ASSUME IInv, NEW c \in Calls, Awaits(c), Arrived(c), ~Answered(c),
                      ~\E s \in Slots : St(c, s) = "pending"
               PROVE  CanGoOn(c)
    BY DEF NoCallHangs
  <2>1. \A s \in Slots : St(c, s) # "none" => St(c, s) \in {"ok", "rejected"}
    BY DEF IInv, TypeOK, Promise, St
  <2>2. \A s \in FirstRpcs(call[c]) : St(c, s) \in {"ok", "rejected"}
    BY <2>1, FirstAre DEF Awaits
  <2>3. CASE call[c].op \in CrudOps
    BY <2>2, <2>3, FirstAre DEF CanGoOn, Running
  <2>4. CASE call[c].op = "acceptReq"
    <3>1. St(c, "volData") \in {"ok", "rejected"} /\ St(c, "reqData") \in {"ok", "rejected"}
      BY <2>2, <2>4, FirstAre
    <3>2. AllRead(c, {"volData", "reqData"}) \/ ReadFails(c, <<"volData", "reqData">>)
      BY <3>1, TwoReadOrFailed
    <3> QED BY <2>4, <3>2 DEF CanGoOn, Running
  <2>5. CASE call[c].op = "acceptVol"
    <3>1. St(c, "volData") \in {"ok", "rejected"} /\ St(c, "reqData") \in {"ok", "rejected"}
      BY <2>2, <2>5, FirstAre
    <3>2. CASE St(c, "reqWrite") = "none"
      BY <2>5, <3>1, <3>2 DEF CanGoOn, Running
    <3>3. CASE St(c, "reqWrite") # "none"
      <4>1. St(c, "reqData") = "ok" /\ St(c, "custData") \in {"ok", "rejected"}
        BY <2>1, <2>5, <3>3 DEF Awaits, Slots
      <4>2. AllRead(c, {"volData", "custData"}) \/ ReadFails(c, <<"volData", "custData">>)
        BY <3>1, <4>1, TwoReadOrFailed
      <4>3. AllRead(c, {"volData", "custData"}) => AllRead(c, {"reqData", "volData", "custData"})
        BY <4>1 DEF AllRead
      <4> QED BY <2>5, <3>3, <4>2, <4>3 DEF CanGoOn, Running
    <3> QED BY <3>2, <3>3
  <2>6. CASE call[c].op = "compReq"
    <3>1. /\ St(c, "volData") \in {"ok", "rejected"} /\ St(c, "reqData") \in {"ok", "rejected"}
          /\ St(c, "custData") \in {"ok", "rejected"}
      BY <2>2, <2>6, FirstAre
    <3>2. \/ AllRead(c, {"volData", "reqData", "custData"})
          \/ ReadFails(c, <<"volData", "reqData", "custData">>)
      BY <3>1, ThreeReadOrFailed
    <3> QED BY <2>6, <3>2 DEF CanGoOn, Running
  <2>7. call[c].op \in CrudOps \cup MatchOps
    BY DEF IInv, TypeOK, HttpRequest, Arrived
  <2> QED BY <2>3, <2>4, <2>5, <2>6, <2>7 DEF MatchOps
<1> QED BY <1>1, <1>2, AwaitsNext, Invariance, PTL DEF Spec

-----------------------------------------------------------------------------
(* What a step may do to a call, a promise and a document.                 *)

(* A call keeps its request.                                               *)
LEMMA CallStays ==
    ASSUME IInv, [Next]_vars, NEW c \in Calls, Arrived(c)
    PROVE  call'[c] = call[c] /\ Arrived(c)'
<1>1. CASE \E k \in Calls, h \in Traffic : Arrive(k, h)
  BY <1>1, ArriveEffect DEF IInv, Arrive, Arrived
<1>2. CASE UNCHANGED call
  BY <1>2 DEF Arrived
<1> QED BY <1>1, <1>2
        DEF Next, Continue, Idle, vars, Unauthorized, NotFound, Start, Resolve, Refuse, Fault,
            CrudAnswer, AcceptReqCommunicate, AcceptReqFail, AcceptVolMark, AcceptVolMarkNothing,
            AcceptVolFail, AcceptVolAnswer, AcceptVolNobody, CompReqWrite, CompReqFail, Crash

(* A settled promise stays as it is.                                       *)
LEMMA SettledStays ==
    ASSUME IInv, [Next]_vars, NEW c \in Calls, NEW s \in Slots, St(c, s) \in {"ok", "rejected"}
    PROVE  promise'[c][s] = promise[c][s]
<1> USE DEF IInv
<1>1. ASSUME NEW k \in Calls, NEW S, Issue(k, S), k = c => s \notin S
      PROVE  promise'[c][s] = promise[c][s]
  BY <1>1, IssueEffect
<1>2. ASSUME NEW k \in Calls, NEW h \in Traffic, Start(k, h) PROVE promise'[c][s] = promise[c][s]
  <2>1. k # c
    BY <1>2, FreshCall DEF Start, Arrive, St
  <2> QED BY <1>1, <1>2, <2>1 DEF Start
<1>3. ASSUME NEW k \in Calls, AcceptVolMark(k) PROVE promise'[c][s] = promise[c][s]
  <2>1. St(k, "reqWrite") = "none" /\ St(k, "custData") = "none"
    BY <1>3 DEF AcceptVolMark, Running, Discipline
  <2>2. k = c => s \notin {"reqWrite", "custData"}
    BY <2>1
  <2> QED BY <1>1, <1>3, <2>2 DEF AcceptVolMark
<1>4. ASSUME NEW k \in Calls, AcceptVolMarkNothing(k) PROVE promise'[c][s] = promise[c][s]
  <2>1. k = c => s \notin {"reqWrite"}
    BY <1>4 DEF AcceptVolMarkNothing
  <2> QED BY <1>1, <1>4, <2>1 DEF AcceptVolMarkNothing
<1>5. ASSUME NEW k \in Calls, CompReqWrite(k) PROVE promise'[c][s] = promise[c][s]
  <2>1. St(k, "volWrite") = "none" /\ St(k, "reqWrite") = "none"
    BY <1>5 DEF CompReqWrite, Running, Discipline
  <2>2. k = c => s \notin {"volWrite", "reqWrite"}
    BY <2>1
  <2> QED BY <1>1, <1>5, <2>2 DEF CompReqWrite
<1>6. ASSUME NEW k \in Calls, NEW t \in Slots, Resolve(k, t) \/ Refuse(k, t) \/ Fault(k, t)
      PROVE  promise'[c][s] = promise[c][s]
  <2>1. St(k, t) = "pending" /\ \E p : Settle(k, t, p)
    BY <1>6 DEF Resolve, Refuse, Fault
  <2>2. ~(k = c /\ t = s)
    BY <2>1
  <2> QED BY <2>1, <2>2 DEF Settle, TypeOK
<1>7. CASE Crash
  <2>1. PICK lost \in SUBSET {cs \in Calls \X Slots : St(cs[1], cs[2]) = "pending"} :
          promise' = [k \in Calls |-> [t \in Slots |->
                        IF <<k, t>> \in lost THEN Rejected ELSE promise[k][t]]]
    BY <1>7 DEF Crash
  <2>2. <<c, s>> \notin lost
    OBVIOUS
  <2> QED BY <2>1, <2>2
<1>8. CASE UNCHANGED promise
  BY <1>8
<1> QED BY <1>2, <1>3, <1>4, <1>5, <1>6, <1>7, <1>8
        DEF Next, Continue, Idle, vars, Unauthorized, NotFound, CrudAnswer, AcceptReqCommunicate,
            AcceptReqFail, AcceptVolFail, AcceptVolAnswer, AcceptVolNobody, CompReqFail

(* Only a store request that takes effect changes a document, the one it   *)
(* names; its promise is settled by the same step.                         *)
LEMMA StoreStep ==
    ASSUME IInv, [Next]_vars, NEW d \in Docs, db'[d] # db[d]
    PROVE  \E c \in Calls, s \in Slots :
              /\ St(c, s) = "pending" /\ promise'[c][s].st \in {"ok", "rejected"}
              /\ Arrived(c) /\ Rpc(c, s) \in StoreCall
              /\ Rpc(c, s).kind # "get" /\ Rpc(c, s).doc = d
              /\ Accepted(db, Rpc(c, s)) /\ db' = Applied(db, Rpc(c, s))
<1> USE DEF IInv
<1>1. PICK c \in Calls, s \in Slots : Resolve(c, s) \/ Fault(c, s)
  BY DEF Next, Continue, Idle, vars, Unauthorized, NotFound, Start, Refuse,
         CrudAnswer, AcceptReqCommunicate, AcceptReqFail, AcceptVolMark, AcceptVolMarkNothing,
         AcceptVolFail, AcceptVolAnswer, AcceptVolNobody, CompReqWrite, CompReqFail, Crash
<1>2. St(c, s) = "pending" /\ Accepted(db, Rpc(c, s)) /\ db' = Applied(db, Rpc(c, s))
  BY <1>1 DEF Resolve, Fault
<1>3. Arrived(c) /\ Rpc(c, s) \in StoreCall
  BY <1>2, InFlight
<1>4. promise'[c][s].st \in {"ok", "rejected"}
  BY <1>1 DEF Resolve, Fault, Settle, TypeOK, Resolved, Rejected
<1>5. Rpc(c, s).kind # "get" /\ Rpc(c, s).doc = d
  BY <1>2, <1>3, AppliedElsewhere DEF TypeOK
<1> QED BY <1>2, <1>3, <1>4, <1>5

(* The calls that write, and what they write.                              *)
LEMMA Writers ==
    ASSUME IInv, NEW c \in Calls, NEW s \in Slots, St(c, s) # "none", Rpc(c, s).kind # "get"
    PROVE  LET h   == call[c]
               rpc == Rpc(c, s)
           IN  \/ rpc.kind = "set" /\ h.op = "addDoc" /\ s = "doc" /\ rpc.doc = h.doc
               \/ rpc.kind = "update" /\ h.op = "updateDoc" /\ s = "doc" /\ rpc.doc = h.doc
               \/ rpc.kind = "delete" /\ h.op = "deleteDoc" /\ s = "doc" /\ rpc.doc = h.doc
               \/ /\ rpc.kind = "update" /\ h.op = "acceptVol" /\ s = "volWrite"
                  /\ rpc.doc = h.vol /\ rpc.data = StateOnly("in progress")
               \/ /\ rpc.kind = "update" /\ h.op = "acceptVol" /\ s = "reqWrite"
                  /\ rpc.doc = h.req /\ rpc.data = StateOnly("in progress")
               \/ /\ rpc.kind = "update" /\ h.op = "compReq" /\ s = "volWrite"
                  /\ rpc.doc = h.vol /\ rpc.data = StateOnly("free")
               \/ rpc.kind = "delete" /\ h.op = "compReq" /\ s = "reqWrite" /\ rpc.doc = h.req
<1> DEFINE h == call[c]
<1>1. h \in HttpRequest /\ s \in SlotsOf(h.op)
  BY DEF IInv, TypeOK, Discipline, Arrived
<1>2. CASE h.op = "acceptReq"
  BY <1>1, <1>2 DEF Rpc, AcceptRequestRpc, SlotsOf, Get
<1>3. CASE h.op = "acceptVol"
  <2> DEFINE rpcs == AcceptVolRpc(h, promise[c].reqData.val)
  <2>1. Rpc(c, s) = rpcs[s]
    BY <1>3 DEF Rpc
  <2>2. rpcs.volData.kind = "get" /\ rpcs.reqData.kind = "get" /\ rpcs.custData.kind = "get"
    BY DEF AcceptVolRpc, Get
  <2>3. /\ rpcs.volWrite.doc = h.vol /\ rpcs.volWrite.data = StateOnly("in progress")
        /\ rpcs.reqWrite.doc = h.req /\ rpcs.reqWrite.data = StateOnly("in progress")
    BY DEF AcceptVolRpc, Update
  <2>4. s \in {"volWrite", "volData", "reqData", "reqWrite", "custData"}
    BY <1>1, <1>3 DEF SlotsOf
  <2>5. rpcs.volWrite.kind = "update" /\ rpcs.reqWrite.kind = "update"
    BY DEF AcceptVolRpc, Update
  <2> HIDE DEF rpcs
  <2> QED BY <1>3, <2>1, <2>2, <2>3, <2>4, <2>5
<1>4. CASE h.op = "compReq"
  BY <1>1, <1>4 DEF Rpc, CompReqRpc, SlotsOf, Get, Update, Delete
<1>5. CASE h.op \in CrudOps
  BY <1>1, <1>5 DEF Rpc, CrudRpc, CrudOps, SlotsOf, Get, Set, Update, Delete
<1> QED BY <1>1, <1>2, <1>3, <1>4, <1>5 DEF HttpRequest, MatchOps

-----------------------------------------------------------------------------
(* Only addDoc brings a document into being.                               *)
THEOREM NoDocumentResurrected == Spec => NoResurrection
<1> DEFINE Step == \A d \in Docs :
                      db[d] = Undefined /\ db'[d] # Undefined =>
                         \E c \in Calls : /\ Arrived(c) /\ call[c].op = "addDoc" /\ call[c].doc = d
                                          /\ St(c, "doc") = "pending"
<1>1. IInv /\ [Next]_vars => Step
  <2> SUFFICES ASSUME IInv, [Next]_vars, NEW d \in Docs, db[d] = Undefined, db'[d] # Undefined
               PROVE  \E c \in Calls : /\ Arrived(c) /\ call[c].op = "addDoc" /\ call[c].doc = d
                                       /\ St(c, "doc") = "pending"
    OBVIOUS
  <2>1. PICK c \in Calls, s \in Slots :
              /\ St(c, s) = "pending" /\ Arrived(c) /\ Rpc(c, s) \in StoreCall
              /\ Rpc(c, s).kind # "get" /\ Rpc(c, s).doc = d
              /\ Accepted(db, Rpc(c, s)) /\ db' = Applied(db, Rpc(c, s))
    BY StoreStep
  <2>2. Rpc(c, s).kind # "update"
    BY <2>1 DEF Accepted, Lookup
  <2>3. Rpc(c, s).kind # "delete"
    BY <2>1, AppliedThere DEF IInv, TypeOK
  <2>4. call[c].op = "addDoc" /\ s = "doc" /\ Rpc(c, s).doc = call[c].doc
    BY <2>1, <2>2, <2>3, Writers
  <2> QED BY <2>1, <2>4
<1>2. IInv /\ [Next]_vars => [Step]_db
  BY <1>1
<1> QED BY <1>2, Invariance, PTL DEF Spec, NoResurrection

(* A document disappears only through deleteDoc or through a compReq that  *)
(* has read everything it reads.                                           *)
THEOREM NoDocumentLost == Spec => RemovedOnPurpose
<1> DEFINE Purpose(c, d) == /\ Arrived(c)
                            /\ \/ call[c].op = "deleteDoc" /\ call[c].doc = d
                               \/ /\ Removes(c, d)
                                  /\ AllRead(c, {"volData", "reqData", "custData"})
<1> DEFINE Step == \A d \in Docs :
                      db[d] # Undefined /\ db'[d] = Undefined => \E c \in Calls : Purpose(c, d)
<1>1. IInv /\ [Next]_vars => Step
  <2> SUFFICES ASSUME IInv, [Next]_vars, NEW d \in Docs, db[d] # Undefined, db'[d] = Undefined
               PROVE  \E c \in Calls : Purpose(c, d)
    OBVIOUS
  <2>1. PICK c \in Calls, s \in Slots :
              /\ St(c, s) = "pending" /\ Arrived(c) /\ Rpc(c, s) \in StoreCall
              /\ Rpc(c, s).kind # "get" /\ Rpc(c, s).doc = d
              /\ Accepted(db, Rpc(c, s)) /\ db' = Applied(db, Rpc(c, s))
    BY StoreStep
  <2>2. Rpc(c, s).data \in Document /\ db[d] \in Document /\ Undefined \notin Document
    BY <2>1, CollectionsAssumption DEF StoreCall, IInv, TypeOK, Contents
  <2>3. Rpc(c, s).kind # "set"
    BY <2>1, <2>2, AppliedThere DEF IInv, TypeOK
  <2>4. Rpc(c, s).kind # "update"
    BY <2>1, <2>2, AppliedThere, MergeType DEF IInv, TypeOK
  <2>5. \/ call[c].op = "deleteDoc" /\ Rpc(c, s).doc = call[c].doc
        \/ call[c].op = "compReq" /\ s = "reqWrite" /\ Rpc(c, s).doc = call[c].req
    BY <2>1, <2>3, <2>4, Writers
  <2>6. call[c].op = "compReq" /\ s = "reqWrite" => AllRead(c, {"volData", "reqData", "custData"})
    BY <2>1 DEF IInv, Discipline
  <2> QED BY <2>1, <2>5, <2>6 DEF Removes
<1>2. IInv /\ [Next]_vars => [Step]_db
  BY <1>1
<1> QED BY <1>2, Invariance, PTL DEF Spec, RemovedOnPurpose

-----------------------------------------------------------------------------
(* A promise is fulfilled only by the store carrying its request out.      *)
LEMMA FulfilledByStore ==
    ASSUME IInv, [Next]_vars, NEW c \in Calls, NEW s \in Slots,
           St(c, s) # "ok", St(c, s)' = "ok"
    PROVE  Resolve(c, s)
<1> USE DEF IInv
<1>1. ASSUME NEW k \in Calls, NEW S, Issue(k, S) PROVE FALSE
  BY <1>1, IssueEffect DEF St, Pending
<1>2. ASSUME NEW k \in Calls, NEW t \in Slots, Resolve(k, t) PROVE k = c /\ t = s
  BY <1>2 DEF Resolve, Settle, St, TypeOK
<1>3. ASSUME NEW k \in Calls, NEW t \in Slots, Settle(k, t, Rejected) PROVE FALSE
  BY <1>3, SettleEffect, PromiseTypes DEF St, Rejected
<1>4. CASE Crash
  <2>1. PICK lost : promise' = [k \in Calls |-> [t \in Slots |->
                                  IF <<k, t>> \in lost THEN Rejected ELSE promise[k][t]]]
    BY <1>4 DEF Crash
  <2> QED BY <2>1 DEF St, Rejected
<1>5. CASE UNCHANGED promise
  BY <1>5 DEF St
<1> QED BY <1>1, <1>2, <1>3, <1>4, <1>5
        DEF Next, Continue, Idle, vars, Unauthorized, NotFound, Start, Refuse, Fault, CrudAnswer,
            AcceptReqCommunicate, AcceptReqFail, AcceptVolMark, AcceptVolMarkNothing,
            AcceptVolFail, AcceptVolAnswer, AcceptVolNobody, CompReqWrite, CompReqFail

(* Writing a state leaves a document in that state.                        *)
LEMMA StateSet ==
    ASSUME IInv, NEW d \in Docs, db[d] # Undefined, NEW t \in {"in progress", "free"},
           NEW rpc \in StoreCall, rpc.kind = "update", rpc.doc = d, rpc.data = StateOnly(t)
    PROVE  Applied(db, rpc)[d] # Undefined /\ Applied(db, rpc)[d].state = t
<1>0. db \in Contents /\ t \in States
  BY DEF IInv, TypeOK, States
<1>1. Applied(db, rpc)[d] = Merge(db[d], StateOnly(t))
  BY <1>0, AppliedThere
<1>2. db[d] \in Document /\ StateOnly(t) \in Document
  BY <1>0 DEF Contents, StateOnly, NoFields, Document
<1>3. Merge(db[d], StateOnly(t)) \in Document /\ Merge(db[d], StateOnly(t)).state = t
  BY <1>0, <1>2, MergeType, CollectionsAssumption DEF Merge, Given, StateOnly, NoFields
<1> QED BY <1>1, <1>3, CollectionsAssumption

(* The volunteer and the request a matching call names, once it has made a *)
(* promise, are documents of different collections.                        *)
LEMMA Named ==
    ASSUME IInv, NEW c \in Calls, NEW s \in Slots, St(c, s) # "none", call[c].op \in MatchOps
    PROVE  call[c].vol \in Volunteers /\ call[c].req \in Requests
           /\ call[c].vol \in Docs /\ call[c].req \in Docs
BY DEF IInv, TypeOK, Discipline, Arrived, MissingParameter, HttpRequest, Docs

(* What makes a volunteer marked "in progress" free again.                 *)
Excused(v) ==
    \E k \in Calls : /\ Arrived(k)
                     /\ \/ Rewrites(k, v) /\ St(k, "doc") \in {"ok", "rejected"}
                        \/ Frees(k, v) /\ AllRead(k, {"volData", "reqData", "custData"})

(* An excuse does not go away.                                             *)
LEMMA ExcuseStays ==
    ASSUME IInv, [Next]_vars, NEW v, Excused(v)
    PROVE  Excused(v)'
<1>1. PICK k \in Calls : /\ Arrived(k)
                         /\ \/ Rewrites(k, v) /\ St(k, "doc") \in {"ok", "rejected"}
                            \/ Frees(k, v) /\ AllRead(k, {"volData", "reqData", "custData"})
  BY DEF Excused
<1>2. Arrived(k)' /\ call'[k] = call[k]
  BY <1>1, CallStays
<1>3. \A s \in Slots : St(k, s) \in {"ok", "rejected"} => St(k, s)' = St(k, s)
  BY SettledStays DEF St
<1>4. CASE Rewrites(k, v) /\ St(k, "doc") \in {"ok", "rejected"}
  <2>1. Rewrites(k, v)' /\ St(k, "doc")' \in {"ok", "rejected"}
    BY <1>2, <1>3, <1>4 DEF Rewrites, Slots
  <2> QED BY <1>2, <2>1 DEF Excused
<1>5. CASE Frees(k, v) /\ AllRead(k, {"volData", "reqData", "custData"})
  <2>1. Frees(k, v)' /\ AllRead(k, {"volData", "reqData", "custData"})'
    BY <1>2, <1>3, <1>5 DEF Frees, AllRead, Slots
  <2> QED BY <1>2, <2>1 DEF Excused
<1> QED BY <1>1, <1>4, <1>5

(* A volunteer who is "in progress" stays so, or somebody gets the excuse. *)
LEMMA BusyStays ==
    ASSUME IInv, [Next]_vars, NEW v \in Volunteers,
           db[v] # Undefined, db[v].state = "in progress"
    PROVE  (db[v] # Undefined /\ db[v].state = "in progress")' \/ Excused(v)'
<1>1. v \in Docs
  BY DEF Docs
<1>2. CASE db'[v] = db[v]
  BY <1>2
<1>3. CASE db'[v] # db[v]
  <2>1. PICK k \in Calls, s \in Slots :
              /\ St(k, s) = "pending" /\ promise'[k][s].st \in {"ok", "rejected"}
              /\ Arrived(k) /\ Rpc(k, s) \in StoreCall
              /\ Rpc(k, s).kind # "get" /\ Rpc(k, s).doc = v
              /\ Accepted(db, Rpc(k, s)) /\ db' = Applied(db, Rpc(k, s))
    BY <1>1, <1>3, StoreStep
  <2>2. Arrived(k)' /\ call'[k] = call[k]
    BY <2>1, CallStays
  <2>3. CASE call[k].op \in CrudOps
    <3>1. Rewrites(k, v) /\ s = "doc"
      BY <2>1, <2>3, Writers DEF CrudOps, Rewrites
    <3>2. Rewrites(k, v)' /\ St(k, "doc")' \in {"ok", "rejected"}
      BY <2>1, <2>2, <3>1 DEF Rewrites, St
    <3> QED BY <2>2, <3>2 DEF Excused
  <2>4. CASE call[k].op \in MatchOps
    <3>1. call[k].vol \in Volunteers /\ call[k].req \in Requests
      BY <2>1, <2>4, Named
    <3>2. s # "reqWrite"
      <4>1. SUFFICES ASSUME s = "reqWrite" PROVE FALSE
        OBVIOUS
      <4>2. Rpc(k, s).doc = call[k].req
        BY <2>1, <2>4, <4>1, Writers DEF MatchOps
      <4> QED BY <2>1, <3>1, <4>2, CollectionsAssumption
    <3>3. CASE call[k].op = "acceptVol"
      <4>1. Rpc(k, s).kind = "update" /\ Rpc(k, s).data = StateOnly("in progress")
        BY <2>1, <3>2, <3>3, Writers
      <4>2. db'[v] # Undefined /\ db'[v].state = "in progress"
        BY <1>1, <2>1, <4>1, StateSet
      <4> QED BY <4>2
    <3>4. CASE call[k].op = "compReq"
      <4>1. s = "volWrite" /\ Rpc(k, s).doc = call[k].vol
        BY <2>1, <3>2, <3>4, Writers
      <4>2. Frees(k, v) /\ AllRead(k, {"volData", "reqData", "custData"})
        BY <2>1, <3>4, <4>1 DEF Frees, IInv, Discipline
      <4>3. Excused(v)
        BY <2>1, <4>2 DEF Excused
      <4> QED BY <4>3, ExcuseStays
    <3>5. call[k].op # "acceptReq"
      BY <2>1, Writers
    <3> QED BY <2>4, <3>3, <3>4, <3>5 DEF MatchOps
  <2> QED BY <2>1, <2>3, <2>4 DEF IInv, TypeOK, Arrived, HttpRequest
<1> QED BY <1>2, <1>3

LEMMA NextBusy == IInv /\ BusyUntilFreed /\ [Next]_vars => BusyUntilFreed'
<1> SUFFICES ASSUME IInv, BusyUntilFreed, [Next]_vars, NEW c \in Calls,
                    Arrived(c)', call'[c].op = "acceptVol", St(c, "volWrite")' = "ok"
             PROVE  (db[call[c].vol] # Undefined /\ db[call[c].vol].state = "in progress")'
                    \/ Excused(call[c].vol)'
  BY DEF BusyUntilFreed, Excused
<1>1. IInv'
  BY NextIInv
<1>2. CASE St(c, "volWrite") = "ok"
  <2>1. Arrived(c)
    BY <1>2 DEF IInv, Discipline, Slots
  <2>2. call'[c] = call[c]
    BY <2>1, CallStays
  <2>3. call[c].vol \in Volunteers
    BY <1>2, <2>2, Named DEF Slots, MatchOps
  <2>4. \/ db[call[c].vol] # Undefined /\ db[call[c].vol].state = "in progress"
        \/ Excused(call[c].vol)
    BY <1>2, <2>1, <2>2 DEF BusyUntilFreed, Excused
  <2> DEFINE v == call[c].vol
  <2>5. (db[v] # Undefined /\ db[v].state = "in progress")' \/ Excused(v)' 
    BY <2>2, <2>3, <2>4, BusyStays, ExcuseStays
  <2> QED BY <2>2, <2>5
<1>3. CASE St(c, "volWrite") # "ok"
  <2>1. Resolve(c, "volWrite")
    BY <1>3, FulfilledByStore DEF Slots
  <2>2. Arrived(c) /\ Rpc(c, "volWrite") \in StoreCall
    BY <2>1, InFlight DEF Resolve, Slots
  <2>3. call'[c] = call[c]
    BY <2>2, CallStays
  <2>4. call[c].vol \in Docs
    BY <2>1, <2>3, Named DEF Resolve, Slots, MatchOps
  <2>5. LET rpc == Rpc(c, "volWrite")
        IN  rpc.kind = "update" /\ rpc.doc = call[c].vol /\ rpc.data = StateOnly("in progress")
    BY <2>3 DEF Rpc, AcceptVolRpc, Update
  <2>6. Accepted(db, Rpc(c, "volWrite")) /\ db' = Applied(db, Rpc(c, "volWrite"))
    BY <2>1 DEF Resolve
  <2>7. db[call[c].vol] # Undefined
    BY <2>4, <2>5, <2>6 DEF Accepted, Lookup
  <2>8. (db'[call[c].vol] # Undefined /\ db'[call[c].vol].state = "in progress")
    BY <2>2, <2>4, <2>5, <2>6, <2>7, StateSet
  <2> QED BY <2>3, <2>8
<1> QED BY <1>2, <1>3

(* A volunteer marked by acceptVol stays "in progress" until a completion  *)
(* that read everything it reads, or a rewrite of his document, frees him. *)
THEOREM BusyVolunteers == Spec => []BusyUntilFreed
<1>1. Init => BusyUntilFreed
  BY DEF Init, BusyUntilFreed, Arrived
<1>2. IInv /\ BusyUntilFreed /\ [Next]_vars => BusyUntilFreed'
  BY NextBusy
<1> QED BY <1>1, <1>2, Invariance, PTL DEF Spec
=============================================================================
