---------------------------- MODULE Atomic_proofs ----------------------------
(***************************************************************************)
(* The server implements AtomicStore, for any documents, calls, traffic,   *)
(* faults and crashes: the store carrying out a document call's request is *)
(* the instant at which that call happens, and whatever else reaches the   *)
(* store is an effect that its matching call may have.                     *)
(***************************************************************************)
EXTENDS Matching_proofs

(* A promise that was not fulfilled has no value; promises are made only   *)
(* for calls that were let in.                                             *)
Promises ==
    \A c \in Calls, s \in Slots :
       /\ St(c, s) # "ok" => Val(c, s) = Undefined
       /\ St(c, s) # "none" => call[c].authorized

RInv == IInv /\ Promises /\ \A c \in Calls : ~Arrived(c) => answer[c] = Undefined

LEMMA NextPromises == IInv /\ Promises /\ [Next]_vars => Promises'
<1> SUFFICES ASSUME IInv, Promises, [Next]_vars, NEW c \in Calls, NEW s \in Slots
             PROVE  /\ St(c, s)' # "ok" => Val(c, s)' = Undefined
                    /\ St(c, s)' # "none" => call'[c].authorized
  BY DEF Promises
<1> USE DEF IInv
<1>0. St(c, s) # "none" => call'[c] = call[c]
  BY CallStays DEF Discipline
<1>1. ASSUME NEW k \in Calls, NEW S, Issue(k, S), call'[k].authorized
      PROVE  /\ St(c, s)' # "ok" => Val(c, s)' = Undefined
             /\ St(c, s)' # "none" => call'[c].authorized
  BY <1>0, <1>1, IssueEffect DEF Promises, St, Val, Pending
<1>2. ASSUME NEW k \in Calls, NEW h \in Traffic, Start(k, h) PROVE call'[k].authorized
  BY <1>2, ArriveEffect DEF Start
<1>3. ASSUME NEW k \in Calls, AcceptVolMark(k) \/ AcceptVolMarkNothing(k) \/ CompReqWrite(k)
      PROVE  call'[k].authorized
  BY <1>3 DEF AcceptVolMark, AcceptVolMarkNothing, CompReqWrite, AllRead, Promises, Slots
<1>4. ASSUME NEW k \in Calls, NEW t \in Slots, Resolve(k, t) \/ Refuse(k, t) \/ Fault(k, t)
      PROVE  /\ St(c, s)' # "ok" => Val(c, s)' = Undefined
             /\ St(c, s)' # "none" => call'[c].authorized
  <2>1. CASE k = c /\ t = s
    BY <1>0, <1>4, <2>1
       DEF Resolve, Refuse, Fault, Settle, St, Val, Resolved, Rejected, TypeOK, Promises
  <2>2. CASE ~(k = c /\ t = s)
    BY <1>0, <1>4, <2>2 DEF Resolve, Refuse, Fault, Settle, St, Val, TypeOK, Promises
  <2> QED BY <2>1, <2>2
<1>5. CASE Crash
  BY <1>0, <1>5 DEF Crash, St, Val, Rejected, Promises
<1>6. CASE UNCHANGED promise
  BY <1>0, <1>6 DEF St, Val, Promises
<1> QED BY <1>1, <1>2, <1>3, <1>4, <1>5, <1>6
        DEF Next, Continue, Idle, vars, Unauthorized, NotFound, Start, CrudAnswer,
            AcceptReqCommunicate, AcceptReqFail, AcceptVolMark, AcceptVolMarkNothing,
            AcceptVolFail, AcceptVolAnswer, AcceptVolNobody, CompReqWrite, CompReqFail

(* What is known between the call's arrival and its answer.                *)
LEMMA NextR == RInv /\ [Next]_vars => RInv'
<1> SUFFICES ASSUME RInv, [Next]_vars PROVE RInv'
  OBVIOUS
<1>1. IInv' /\ Promises'
  BY NextIInv, NextPromises DEF RInv
<1>2. ASSUME NEW c \in Calls, ~Arrived(c)' PROVE answer'[c] = Undefined
  <2>1. ~Arrived(c) /\ answer[c] = Undefined
    BY <1>2, CallStays DEF RInv
  <2> QED BY <1>2, <2>1, ArriveEffect
    DEF RInv, IInv, TypeOK, Next, Continue, Idle, vars, Unauthorized, NotFound, Start, Arrived,
        Respond, Running, Resolve, Refuse, Fault, CrudAnswer, AcceptReqCommunicate, AcceptReqFail,
        AcceptVolMark, AcceptVolMarkNothing, AcceptVolFail, AcceptVolAnswer, AcceptVolNobody,
        CompReqWrite, CompReqFail, Crash
<1> QED BY <1>1, <1>2 DEF RInv

-----------------------------------------------------------------------------
(* The outcome of a call depends on its promise `doc` alone.               *)
LEMMA OutcomeKept ==
    ASSUME \A c \in Calls : OutcomeOf(promise'[c].doc) = OutcomeOf(promise[c].doc)
    PROVE  UNCHANGED Outcome
BY DEF Outcome

LEMMA OutcomeOfUnkept ==
    ASSUME NEW p, NEW q, p.st \in {"none", "pending"}, q.st \in {"none", "pending"}, p.val = q.val
    PROVE  OutcomeOf(p) = OutcomeOf(q)
BY DEF OutcomeOf

(* A handler that makes promises gets no outcome by that.                  *)
LEMMA OutcomeIssued ==
    ASSUME RInv, NEW c \in Calls, NEW S, Issue(c, S),
           "doc" \in S => St(c, "doc") = "none"
    PROVE  UNCHANGED Outcome
<1>1. ASSUME NEW k \in Calls PROVE OutcomeOf(promise'[k].doc) = OutcomeOf(promise[k].doc)
  <2>1. CASE k = c /\ "doc" \in S
    <3>1. promise'[k].doc = Pending
      BY <2>1, IssueEffect DEF RInv, IInv, Slots
    <3>2. promise[k].doc.st = "none" /\ promise[k].doc.val = Undefined
      BY <2>1 DEF RInv, Promises, St, Val, Slots
    <3> QED BY <3>1, <3>2, OutcomeOfUnkept DEF Pending
  <2>2. CASE ~(k = c /\ "doc" \in S)
    <3>1. promise'[k].doc = promise[k].doc
      BY <2>2, IssueEffect DEF RInv, IInv, Slots
    <3> QED BY <3>1
  <2> QED BY <2>1, <2>2
<1> QED BY <1>1, OutcomeKept

(* Nor by promises other than `doc` being settled.                         *)
LEMMA OutcomeSettledElsewhere ==
    ASSUME RInv, NEW c \in Calls, NEW s \in Slots \ {"doc"}, NEW p, Settle(c, s, p)
    PROVE  UNCHANGED Outcome
<1>1. ASSUME NEW k \in Calls PROVE promise'[k].doc = promise[k].doc
  BY DEF RInv, IInv, TypeOK, Settle, Slots
<1> QED BY <1>1, OutcomeKept

LEMMA OutcomeSettled ==
    ASSUME RInv, NEW c \in Calls, NEW p, Settle(c, "doc", p)
    PROVE  Outcome' = [Outcome EXCEPT ![c] = OutcomeOf(p)]
<1>1. \A k \in Calls : promise'[k].doc = IF k = c THEN p ELSE promise[k].doc
  BY DEF RInv, IInv, TypeOK, Settle, Slots
<1> QED BY <1>1 DEF Outcome

LEMMA OutcomeValue ==
    ASSUME RInv, NEW c \in Calls
    PROVE  /\ Outcome[c] = OutcomeOf(promise[c].doc)
           /\ St(c, "doc") \in {"none", "pending"} => Outcome[c] = Atomic!Open
           /\ St(c, "doc") = "ok" => Outcome[c] = Atomic!Done(Val(c, "doc"))
           /\ St(c, "doc") = "rejected" => Outcome[c] = Atomic!Failed
           /\ Outcome[c] = Atomic!Open => St(c, "doc") \in {"none", "pending"}
<1>1. Outcome[c] = OutcomeOf(promise[c].doc)
  BY DEF Outcome
<1>2. promise[c].doc.st \in {"none", "pending", "ok", "rejected"}
  BY DEF RInv, IInv, TypeOK, Promise, Slots
<1>3. promise[c].doc.st # "ok" => promise[c].doc.val = Undefined
  BY DEF RInv, Promises, St, Val, Slots
<1> QED BY <1>1, <1>2, <1>3 DEF OutcomeOf, St, Val, Atomic!Open, Atomic!Done, Atomic!Failed

-----------------------------------------------------------------------------
(* Each step, as AtomicStore sees it.                                      *)

(* AtomicStore and the server speak of the same calls and the same store.  *)
LEMMA SameCalls ==
    /\ \A h : Atomic!MissingParameter(h) <=> MissingParameter(h)
    /\ Atomic!CrudOps = CrudOps /\ Atomic!MatchOps = MatchOps
BY DEF Atomic!MissingParameter, MissingParameter, Atomic!MatchOps, MatchOps,
       Atomic!CrudOps, CrudOps

LEMMA SameRpc == ASSUME NEW h PROVE Atomic!CrudRpc(h) = CrudRpc(h)
BY DEF Atomic!CrudRpc, CrudRpc, Atomic!Get, Get, Atomic!Set, Set, Atomic!Update, Update,
       Atomic!Delete, Delete, Atomic!NoFields, NoFields

LEMMA SameStore ==
    ASSUME NEW base, NEW rpc
    PROVE  /\ Atomic!Accepted(base, rpc) <=> Accepted(base, rpc)
           /\ Atomic!Applied(base, rpc) = Applied(base, rpc)
           /\ Atomic!Delivered(base, rpc) = Delivered(base, rpc)
<1>1. Atomic!Docs = Docs /\ Atomic!NoFields = NoFields
  BY DEF Atomic!Docs, Docs, Atomic!NoFields, NoFields
<1>2. \A d : Atomic!Lookup(base, d) = Lookup(base, d)
  BY <1>1 DEF Atomic!Lookup, Lookup
<1>3. \A old, new : Atomic!Merge(old, new) = Merge(old, new)
  BY DEF Atomic!Merge, Merge, Atomic!Given, Given
<1>4. Atomic!Accepted(base, rpc) <=> Accepted(base, rpc)
  BY <1>1, <1>2 DEF Atomic!Accepted, Accepted
<1>5. Atomic!Applied(base, rpc) = Applied(base, rpc)
  BY <1>3 DEF Atomic!Applied, Applied
<1>6. Atomic!Delivered(base, rpc) = Delivered(base, rpc)
  BY <1>2 DEF Atomic!Delivered, Delivered
<1> QED BY <1>4, <1>5, <1>6

LEMMA ArrivalRefined ==
    ASSUME RInv, NEW c \in Calls, NEW h \in Traffic,
           Unauthorized(c, h) \/ NotFound(c, h) \/ Start(c, h)
    PROVE  Atomic!Invoke(c, h)
<1>1. Arrive(c, h) /\ UNCHANGED db
  BY DEF Unauthorized, NotFound, Start
<1>2. answer[c] = Undefined
  BY <1>1 DEF Arrive, Arrived, RInv
<1>3. UNCHANGED Outcome
  <2>1. CASE Start(c, h)
    <3>1. St(c, "doc") = "none"
      BY <1>1, FreshCall DEF Arrive, RInv, St, Slots
    <3> QED BY <2>1, <3>1, OutcomeIssued DEF Start
  <2>2. CASE Unauthorized(c, h) \/ NotFound(c, h)
    <3>1. UNCHANGED promise
      BY <2>2 DEF Unauthorized, NotFound
    <3> QED BY <3>1 DEF Outcome
  <2> QED BY <2>1, <2>2
<1>4. call[c] = Undefined /\ call' = [call EXCEPT ![c] = h]
  BY <1>1 DEF Arrive
<1>5. \/ h.authorized /\ ~MissingParameter(h) /\ UNCHANGED answer
      \/ ~h.authorized /\ answer' = [answer EXCEPT ![c] = [code |-> 401, body |-> Undefined]]
      \/ /\ h.authorized /\ MissingParameter(h)
         /\ answer' = [answer EXCEPT ![c] = [code |-> 404, body |-> Undefined]]
  BY DEF Unauthorized, NotFound, Start, Respond
<1> QED BY <1>1, <1>2, <1>3, <1>4, <1>5, SameCalls
        DEF Atomic!Invoke, Atomic!Arrived, Atomic!Respond

LEMMA MarkIsMerge ==
    ASSUME NEW base \in Contents, NEW d \in Docs, base[d] # Undefined, NEW t \in States,
           NEW rpc, rpc.kind = "update", rpc.doc = d, rpc.data = StateOnly(t)
    PROVE  Applied(base, rpc) = [base EXCEPT ![d].state = t]
<1>1. base[d] \in Document
  BY DEF Contents
<1>2. Merge(base[d], StateOnly(t)) = [base[d] EXCEPT !.state = t]
  BY <1>1, CollectionsAssumption DEF Merge, Given, StateOnly, NoFields, Document
<1>3. Applied(base, rpc) = [base EXCEPT ![d] = Merge(@, StateOnly(t))]
  BY DEF Applied
<1> QED BY <1>2, <1>3

(* What a matching call sends to the store, where it takes effect, is one  *)
(* of the effects AtomicStore allows that call.                            *)
LEMMA MatchRefined ==
    ASSUME RInv, NEW c \in Calls, NEW s \in Slots \ {"doc"}, St(c, s) = "pending",
           db' = db \/ (Accepted(db, Rpc(c, s)) /\ db' = Applied(db, Rpc(c, s))),
           UNCHANGED <<call, answer, Outcome>>
    PROVE  Atomic!Match(c) \/ UNCHANGED Atomic!vars
<1>1. CASE db' = db
  BY <1>1 DEF Atomic!vars
<1>2. CASE Accepted(db, Rpc(c, s)) /\ db' = Applied(db, Rpc(c, s)) /\ db' # db
  <2> DEFINE h   == call[c]
             rpc == Rpc(c, s)
  <2>1. Arrived(c) /\ rpc \in StoreCall /\ db \in Contents
    BY InFlight DEF RInv, IInv, TypeOK
  <2>2. h.authorized /\ ~MissingParameter(h)
    BY DEF RInv, IInv, Promises, Discipline
  <2>3. rpc.kind # "get"
    BY <1>2 DEF Applied
  <2>4. \/ /\ rpc.kind = "update" /\ h.op = "acceptVol"
           /\ rpc.doc \in {h.vol, h.req} /\ rpc.data = StateOnly("in progress")
        \/ /\ rpc.kind = "update" /\ h.op = "compReq"
           /\ rpc.doc = h.vol /\ rpc.data = StateOnly("free")
        \/ rpc.kind = "delete" /\ h.op = "compReq" /\ rpc.doc = h.req
    BY <2>3, Writers DEF RInv
  <2>5. h.vol \in Docs /\ h.req \in Docs
    BY <2>4, Named DEF RInv, MatchOps
  <2> HIDE DEF h, rpc
  <2>6. CASE rpc.kind = "update"
    <3>1. rpc.doc \in Docs /\ db[rpc.doc] # Undefined
      BY <1>2, <2>4, <2>5, <2>6 DEF Accepted, Lookup, rpc
    <3>2. \A t \in States : rpc.data = StateOnly(t) => db' = [db EXCEPT ![rpc.doc].state = t]
      BY <1>2, <2>1, <2>6, <3>1, MarkIsMerge DEF rpc
    <3>3. \/ h.op = "acceptVol" /\ db' = [db EXCEPT ![h.vol].state = "in progress"] /\ db[h.vol] # Undefined
          \/ h.op = "acceptVol" /\ db' = [db EXCEPT ![h.req].state = "in progress"] /\ db[h.req] # Undefined
          \/ h.op = "compReq" /\ db' = [db EXCEPT ![h.vol].state = "free"] /\ db[h.vol] # Undefined
      BY <2>4, <2>6, <3>1, <3>2 DEF States
    <3> QED BY <2>1, <2>2, <3>3, SameCalls DEF Atomic!Match, Atomic!Mark, Atomic!Arrived, Arrived, h
  <2>7. CASE rpc.kind = "delete"
    <3>1. h.op = "compReq" /\ db' = [db EXCEPT ![h.req] = Undefined]
      BY <1>2, <2>4, <2>7 DEF Applied, rpc
    <3> QED BY <2>1, <2>2, <3>1, SameCalls DEF Atomic!Match, Atomic!Arrived, Arrived, h
  <2> QED BY <2>4, <2>6, <2>7
<1> QED BY <1>1, <1>2

(* The instant of a document call is when its request takes effect.        *)
LEMMA CrudPromise ==
    ASSUME RInv, NEW c \in Calls, St(c, "doc") = "pending"
    PROVE  Atomic!IsCrud(c) /\ Rpc(c, "doc") = CrudRpc(call[c]) /\ Outcome[c] = Atomic!Open
<1>1. Arrived(c) /\ call[c].authorized /\ "doc" \in SlotsOf(call[c].op)
  BY DEF RInv, IInv, Promises, Discipline, Slots
<1>2. call[c].op \in CrudOps
  BY <1>1 DEF RInv, IInv, TypeOK, Arrived, HttpRequest, MatchOps, SlotsOf
<1>3. Rpc(c, "doc") = CrudRpc(call[c])
  BY <1>2 DEF Rpc, CrudOps
<1> QED BY <1>1, <1>2, <1>3, OutcomeValue, SameCalls DEF Atomic!IsCrud, Atomic!Arrived, Arrived

LEMMA StoreRefined ==
    ASSUME RInv, NEW c \in Calls, NEW s \in Slots, Resolve(c, s) \/ Refuse(c, s) \/ Fault(c, s)
    PROVE  Atomic!Take(c) \/ Atomic!Fail(c) \/ Atomic!Match(c) \/ UNCHANGED Atomic!vars
<1>1. St(c, s) = "pending" /\ UNCHANGED <<call, answer>>
  BY DEF Resolve, Refuse, Fault
<1>2. CASE s # "doc"
  <2>1. UNCHANGED Outcome
    BY <1>2, OutcomeSettledElsewhere DEF Resolve, Refuse, Fault
  <2>2. db' = db \/ (Accepted(db, Rpc(c, s)) /\ db' = Applied(db, Rpc(c, s)))
    BY DEF Resolve, Refuse, Fault
  <2> QED BY <1>1, <1>2, <2>1, <2>2, MatchRefined
<1>3. CASE s = "doc"
  <2>1. Atomic!IsCrud(c) /\ Rpc(c, "doc") = CrudRpc(call[c]) /\ Outcome[c] = Atomic!Open
    BY <1>1, <1>3, CrudPromise
  <2>2. CASE Resolve(c, s)
    <3> DEFINE v == Delivered(db, Rpc(c, s))
    <3>1. Outcome' = [Outcome EXCEPT ![c] = OutcomeOf(Resolved(v))]
      BY <1>3, <2>2, OutcomeSettled DEF Resolve
    <3>2. OutcomeOf(Resolved(v)) = Atomic!Done(v)
      BY DEF OutcomeOf, Resolved, Atomic!Done
    <3>3. Accepted(db, CrudRpc(call[c])) /\ db' = Applied(db, CrudRpc(call[c]))
          /\ v = Delivered(db, CrudRpc(call[c]))
      BY <1>3, <2>1, <2>2 DEF Resolve
    <3> QED BY <1>1, <2>1, <3>1, <3>2, <3>3, SameRpc, SameStore DEF Atomic!Take
  <2>3. CASE Refuse(c, s) \/ Fault(c, s)
    <3>1. Outcome' = [Outcome EXCEPT ![c] = OutcomeOf(Rejected)]
      BY <1>3, <2>3, OutcomeSettled DEF Refuse, Fault
    <3>2. OutcomeOf(Rejected) = Atomic!Failed
      BY DEF OutcomeOf, Rejected, Atomic!Failed
    <3>3. db' = db \/ (Accepted(db, CrudRpc(call[c])) /\ db' = Applied(db, CrudRpc(call[c])))
      BY <1>3, <2>1, <2>3 DEF Refuse, Fault
    <3> QED BY <1>1, <2>1, <3>1, <3>2, <3>3, SameRpc, SameStore DEF Atomic!Fail
  <2> QED BY <2>2, <2>3
<1> QED BY <1>2, <1>3

-----------------------------------------------------------------------------
(* Handlers going on, crashes, and the whole.                              *)

(* Answering is the same action in both modules.                           *)
LEMMA SameAnswer ==
    ASSUME NEW c \in Calls, NEW code, NEW body, Arrived(c), answer[c] = Undefined,
           Respond(c, code, body)
    PROVE  Atomic!Arrived(c) /\ Atomic!Respond(c, code, body)
  BY DEF Atomic!Arrived, Arrived, Atomic!Respond, Respond

(* What a matching call answers leaves every outcome as it is.             *)
LEMMA MatchReply ==
    ASSUME NEW c \in Calls, NEW op \in MatchOps, Running(c, op),
           UNCHANGED <<db, call>>, UNCHANGED Outcome,
           Respond(c, 200, Undefined) \/ Respond(c, 500, Undefined)
    PROVE  Atomic!Reply(c)
<1>1. Arrived(c) /\ call[c].op \in MatchOps /\ answer[c] = Undefined
  BY DEF Running, Answered
<1>2. Atomic!Arrived(c) /\ \E code \in {200, 500} : Atomic!Respond(c, code, Undefined)
  <2>1. CASE Respond(c, 200, Undefined)
    BY <1>1, <2>1, SameAnswer
  <2>2. CASE Respond(c, 500, Undefined)
    BY <1>1, <2>2, SameAnswer
  <2> QED BY <2>1, <2>2
<1> QED BY <1>1, <1>2, SameCalls DEF Atomic!Reply

LEMMA CrudReply == ASSUME RInv, NEW c \in Calls, CrudAnswer(c) PROVE Atomic!Reply(c)
<1>1. UNCHANGED Outcome /\ UNCHANGED <<db, call>>
  BY DEF CrudAnswer, Outcome
<1>2. Arrived(c) /\ call[c].op \in CrudOps /\ answer[c] = Undefined
  BY DEF CrudAnswer, Running, Answered
<1>3. St(c, "doc") \in {"ok", "rejected"}
  BY DEF CrudAnswer
<1>4. Atomic!IsCrud(c)
  BY <1>2, <1>3, SameCalls DEF RInv, Promises, Slots, Atomic!IsCrud, Atomic!Arrived, Arrived
<1>5. CASE St(c, "doc") = "ok" /\ Respond(c, 200, Val(c, "doc"))
  <2>1. \A v : Atomic!Done(v).st = "done" /\ Atomic!Done(v).val = v
    BY DEF Atomic!Done
  <2>2. Outcome[c] = Atomic!Done(Val(c, "doc"))
    BY <1>5, OutcomeValue
  <2>3. Outcome[c].st = "done" /\ Outcome[c].val = Val(c, "doc")
    BY <2>1, <2>2
  <2>4. Atomic!Arrived(c) /\ Atomic!Respond(c, 200, Val(c, "doc"))
    BY <1>2, <1>5, SameAnswer
  <2> QED BY <1>1, <1>4, <2>3, <2>4 DEF Atomic!Reply
<1>6. CASE St(c, "doc") = "rejected" /\ Respond(c, 500, Undefined)
  <2>1. Outcome[c].st = "failed"
    BY <1>6, OutcomeValue DEF Atomic!Failed
  <2>2. Atomic!Arrived(c) /\ Atomic!Respond(c, 500, Undefined)
    BY <1>2, <1>6, SameAnswer
  <2> QED BY <1>1, <1>4, <2>1, <2>2 DEF Atomic!Reply
<1> QED BY <1>5, <1>6 DEF CrudAnswer

LEMMA HandlerRefined ==
    ASSUME RInv, NEW c \in Calls, Continue(c)
    PROVE  Atomic!Reply(c) \/ UNCHANGED Atomic!vars
<1>0. {"acceptReq", "acceptVol", "compReq"} \subseteq MatchOps
  BY DEF MatchOps
<1>11. UNCHANGED promise => UNCHANGED Outcome
  BY DEF Outcome
<1>1. CASE CrudAnswer(c)
  BY <1>1, CrudReply
<1>2. CASE AcceptReqCommunicate(c)
  <2>1. Respond(c, 200, Undefined) \/ Respond(c, 500, Undefined)
    BY <1>2 DEF AcceptReqCommunicate
  <2>2. Running(c, "acceptReq") /\ UNCHANGED <<db, call, promise>>
    BY <1>2 DEF AcceptReqCommunicate
  <2> QED BY <1>0, <1>11, <2>1, <2>2, MatchReply
<1>3. CASE AcceptReqFail(c)
  BY <1>0, <1>3, <1>11, MatchReply DEF AcceptReqFail
<1>4. CASE AcceptVolMark(c)
  <2>1. UNCHANGED Outcome
    BY <1>4, OutcomeIssued DEF AcceptVolMark
  <2> QED BY <1>4, <2>1 DEF AcceptVolMark, Atomic!vars
<1>5. CASE AcceptVolMarkNothing(c)
  <2>1. UNCHANGED Outcome
    BY <1>5, OutcomeIssued DEF AcceptVolMarkNothing
  <2>2. Running(c, "acceptVol") /\ Respond(c, 500, Undefined) /\ UNCHANGED <<db, call>>
    BY <1>5 DEF AcceptVolMarkNothing
  <2> QED BY <1>0, <2>1, <2>2, MatchReply
<1>6. CASE AcceptVolFail(c)
  BY <1>0, <1>6, <1>11, MatchReply DEF AcceptVolFail
<1>7. CASE AcceptVolAnswer(c)
  BY <1>0, <1>7, <1>11, MatchReply DEF AcceptVolAnswer
<1>8. CASE AcceptVolNobody(c)
  BY <1>0, <1>8, <1>11, MatchReply DEF AcceptVolNobody
<1>9. CASE CompReqWrite(c)
  <2>1. Respond(c, 200, Undefined) \/ Respond(c, 500, Undefined)
    BY <1>9 DEF CompReqWrite
  <2>2. UNCHANGED Outcome
    BY <1>9, OutcomeIssued DEF CompReqWrite
  <2>3. Running(c, "compReq") /\ UNCHANGED <<db, call>>
    BY <1>9 DEF CompReqWrite
  <2> QED BY <1>0, <2>1, <2>2, <2>3, MatchReply
<1>10. CASE CompReqFail(c)
  BY <1>0, <1>10, <1>11, MatchReply DEF CompReqFail
<1> QED BY <1>1, <1>2, <1>3, <1>4, <1>5, <1>6, <1>7, <1>8, <1>9, <1>10 DEF Continue

(* A crash loses the document calls whose request to the store it loses.   *)
LEMMA CrashRefined == ASSUME RInv, Crash PROVE Atomic!Reset
<1>1. PICK lost \in SUBSET {cs \in Calls \X Slots : St(cs[1], cs[2]) = "pending"} :
         promise' = [c \in Calls |-> [s \in Slots |->
                        IF <<c, s>> \in lost THEN Rejected ELSE promise[c][s]]]
  BY DEF Crash
<1> DEFINE gone == {c \in Calls : <<c, "doc">> \in lost}
<1>2. \A c \in Calls : promise'[c].doc = IF c \in gone THEN Rejected ELSE promise[c].doc
  BY <1>1 DEF Slots
<1>3. OutcomeOf(Rejected) = Atomic!Failed
  BY DEF OutcomeOf, Rejected, Atomic!Failed
<1>4. Outcome' = [c \in Calls |-> IF c \in gone THEN Atomic!Failed ELSE Outcome[c]]
  BY <1>2, <1>3 DEF Outcome
<1>5. \A c \in gone : Outcome[c] = Atomic!Open
  <2>1. \A c \in gone : c \in Calls /\ St(c, "doc") = "pending"
    BY <1>1
  <2> QED BY <2>1, OutcomeValue
<1>6. gone \in SUBSET {c \in Calls : Outcome[c] = Atomic!Open}
  BY <1>5
<1>7. UNCHANGED <<db, call>>
      /\ answer' = [c \in Calls |-> IF Atomic!Arrived(c) /\ answer[c] = Undefined
                                    THEN [code |-> 0, body |-> Undefined] ELSE answer[c]]
  BY DEF Crash, Atomic!Arrived, Arrived, Answered
<1> HIDE DEF gone
<1> QED BY <1>4, <1>6, <1>7 DEF Atomic!Reset

LEMMA StepRefined == RInv /\ [Next]_vars => [Atomic!Next]_(Atomic!vars)
<1> SUFFICES ASSUME RInv, [Next]_vars PROVE [Atomic!Next]_(Atomic!vars)
  OBVIOUS
<1>1. ASSUME NEW c \in Calls, NEW h \in Traffic, Unauthorized(c, h) \/ NotFound(c, h) \/ Start(c, h)
      PROVE  Atomic!Next
  BY <1>1, ArrivalRefined DEF Atomic!Next
<1>2. ASSUME NEW c \in Calls, NEW s \in Slots, Resolve(c, s) \/ Refuse(c, s) \/ Fault(c, s)
      PROVE  Atomic!Next \/ UNCHANGED Atomic!vars
  BY <1>2, StoreRefined DEF Atomic!Next
<1>3. ASSUME NEW c \in Calls, Continue(c) PROVE Atomic!Next \/ UNCHANGED Atomic!vars
  BY <1>3, HandlerRefined DEF Atomic!Next
<1>4. CASE Crash
  BY <1>4, CrashRefined DEF Atomic!Next
<1>5. CASE UNCHANGED vars
  BY <1>5 DEF vars, Outcome, Atomic!vars
<1> QED BY <1>1, <1>2, <1>3, <1>4, <1>5 DEF Next, Idle

LEMMA InitRefined == Init => RInv /\ Atomic!Init
<1> SUFFICES ASSUME Init PROVE RInv /\ Atomic!Init
  OBVIOUS
<1>1. Promises
  BY DEF Init, Promises, St, Val, NoPromise
<1>2. \A c \in Calls : OutcomeOf(promise[c].doc) = Atomic!Open
  BY DEF Init, NoPromise, OutcomeOf, Atomic!Open, Slots
<1>3. Outcome = [c \in Calls |-> Atomic!Open]
  BY <1>2 DEF Outcome
<1> QED BY <1>1, <1>3, InitIInv DEF Init, RInv, Atomic!Init

(* Document calls are atomic and matching calls do to the store nothing but*)
(* what AtomicStore allows: the server, with its concurrent handlers, its  *)
(* unordered and unawaited store requests, failures and crashes, implements*)
(* AtomicStore.                                                            *)
THEOREM Linearizable == Spec => AtomicDocumentCalls
<1>1. Init => RInv /\ Atomic!Init
  BY InitRefined
<1>2. RInv /\ [Next]_vars => RInv'
  BY NextR
<1>3. RInv /\ [Next]_vars => [Atomic!Next]_(Atomic!vars)
  BY StepRefined
<1> QED BY <1>1, <1>2, <1>3, PTL DEF Spec, AtomicDocumentCalls, Atomic!Spec
=============================================================================
