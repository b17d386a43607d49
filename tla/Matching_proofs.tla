---------------------------- MODULE Matching_proofs ----------------------------
(***************************************************************************)
(* What an acceptance and a completion achieve, for any documents, calls   *)
(* and traffic: neither waits for its writes, and each write holds from    *)
(* the moment the store carries it out until somebody else's is settled.   *)
(***************************************************************************)
EXTENDS MatchServer_proofs

InProgress(d) == db[d] # Undefined /\ db[d].state = "in progress"

FreeOrGone(d) == db[d] # Undefined => db[d].state = "free"

(* Whose write it is when a document changes, and what it leaves behind.   *)
LEMMA WriteStep ==
    ASSUME IInv, [Next]_vars, NEW d \in Docs, db'[d] # db[d]
    PROVE  \E k \in Calls :
              \/ Settled(k, "doc") /\ Rewrites(k, d)
              \/ /\ call[k].op = "acceptVol" /\ InProgress(d)'
                 /\ \E s \in Writes : Settled(k, s) /\ Written(k, s) = d
              \/ Settled(k, "volWrite") /\ Frees(k, d) /\ FreeOrGone(d)'
              \/ Settled(k, "reqWrite") /\ Removes(k, d) /\ FreeOrGone(d)'
<1>1. PICK k \in Calls, s \in Slots :
            /\ St(k, s) = "pending" /\ promise'[k][s].st \in {"ok", "rejected"}
            /\ Arrived(k) /\ Rpc(k, s) \in StoreCall
            /\ Rpc(k, s).kind # "get" /\ Rpc(k, s).doc = d
            /\ Accepted(db, Rpc(k, s)) /\ db' = Applied(db, Rpc(k, s))
  BY StoreStep
<1>2. Settled(k, s)
  BY <1>1 DEF Settled, St
<1>3. Rpc(k, s).kind = "update" => db[d] # Undefined
  BY <1>1 DEF Accepted, Lookup
<1>4. ASSUME NEW t \in {"in progress", "free"},
             Rpc(k, s).kind = "update", Rpc(k, s).data = StateOnly(t)
      PROVE  db'[d] # Undefined /\ db'[d].state = t
  <2>1. Applied(db, Rpc(k, s))[d] # Undefined /\ Applied(db, Rpc(k, s))[d].state = t
    BY <1>1, <1>3, <1>4, StateSet
  <2> QED BY <1>1, <2>1
<1>5. Rpc(k, s).kind = "delete" => db'[d] = Undefined
  BY <1>1, AppliedThere DEF IInv, TypeOK
<1>6. CASE s = "doc"
  BY <1>1, <1>2, <1>6, Writers DEF Rewrites
<1>7. CASE s = "volWrite" /\ call[k].op = "acceptVol"
  BY <1>1, <1>2, <1>4, <1>7, Writers DEF InProgress, Written, Writes
<1>8. CASE s = "reqWrite" /\ call[k].op = "acceptVol"
  BY <1>1, <1>2, <1>4, <1>8, Writers DEF InProgress, Written, Writes
<1>9. CASE s = "volWrite" /\ call[k].op = "compReq"
  BY <1>1, <1>2, <1>4, <1>9, Writers DEF Frees, FreeOrGone
<1>10. CASE s = "reqWrite" /\ call[k].op = "compReq"
  BY <1>1, <1>2, <1>5, <1>10, Writers DEF Removes, FreeOrGone
<1> QED BY <1>1, <1>6, <1>7, <1>8, <1>9, <1>10, Writers

(* A handler under way makes only the promises it makes late.              *)
LEMMA NoneStays ==
    ASSUME IInv, [Next]_vars, NEW c \in Calls, NEW s \in Slots, Arrived(c), St(c, s) = "none",
           call[c].op = "acceptVol" => s \notin {"reqWrite", "custData"},
           call[c].op = "compReq" => Answered(c)
    PROVE  St(c, s)' = "none"
<1> USE DEF IInv
<1>1. ASSUME NEW k \in Calls, NEW S, Issue(k, S), k = c => s \notin S
      PROVE  St(c, s)' = "none"
  BY <1>1, IssueEffect DEF St
<1>2. ASSUME NEW k \in Calls, NEW h \in Traffic, Start(k, h) PROVE St(c, s)' = "none"
  BY <1>1, <1>2 DEF Start, Arrive, Arrived
<1>3. ASSUME NEW k \in Calls, AcceptVolMark(k) \/ AcceptVolMarkNothing(k) PROVE St(c, s)' = "none"
  BY <1>1, <1>3 DEF AcceptVolMark, AcceptVolMarkNothing, Running
<1>4. ASSUME NEW k \in Calls, CompReqWrite(k) PROVE St(c, s)' = "none"
  BY <1>1, <1>4 DEF CompReqWrite, Running
<1>5. ASSUME NEW k \in Calls, NEW t \in Slots, Resolve(k, t) \/ Refuse(k, t) \/ Fault(k, t)
      PROVE  St(c, s)' = "none"
  BY <1>5 DEF Resolve, Refuse, Fault, Settle, St, TypeOK
<1>6. CASE Crash
  BY <1>6 DEF Crash, St
<1>7. CASE UNCHANGED promise
  BY <1>7 DEF St
<1> QED BY <1>2, <1>3, <1>4, <1>5, <1>6, <1>7
        DEF Next, Continue, Idle, vars, Unauthorized, NotFound, CrudAnswer,
            AcceptReqCommunicate, AcceptReqFail, AcceptVolFail, AcceptVolAnswer, AcceptVolNobody,
            CompReqFail

(* A promise once made does not vanish.                                    *)
LEMMA MadeStays ==
    ASSUME IInv, [Next]_vars, NEW c \in Calls, NEW s \in Slots, St(c, s) # "none"
    PROVE  St(c, s)' # "none"
<1> USE DEF IInv
<1>1. CASE St(c, s) \in {"ok", "rejected"}
  BY <1>1, SettledStays DEF St
<1>2. CASE St(c, s) = "pending"
  <2>1. ASSUME NEW k \in Calls, NEW S, Issue(k, S) PROVE St(c, s)' # "none"
    BY <1>2, <2>1, IssueEffect DEF St, Pending
  <2>2. ASSUME NEW k \in Calls, NEW t \in Slots, Resolve(k, t) \/ Refuse(k, t) \/ Fault(k, t)
        PROVE  St(c, s)' # "none"
    BY <1>2, <2>2 DEF Resolve, Refuse, Fault, Settle, St, Resolved, Rejected, TypeOK
  <2>3. CASE Crash
    BY <1>2, <2>3 DEF Crash, St, Rejected
  <2>4. CASE UNCHANGED promise
    BY <1>2, <2>4 DEF St
  <2> QED BY <2>1, <2>2, <2>3, <2>4
          DEF Next, Continue, Idle, vars, Unauthorized, NotFound, Start, CrudAnswer,
              AcceptReqCommunicate, AcceptReqFail, AcceptVolMark, AcceptVolMarkNothing,
              AcceptVolFail, AcceptVolAnswer, AcceptVolNobody, CompReqWrite, CompReqFail
<1>3. St(c, s) \in {"none", "pending", "ok", "rejected"}
  BY DEF TypeOK, St, Promise
<1> QED BY <1>1, <1>2, <1>3

(* A call is answered once.                                                *)
LEMMA AnswerStays ==
    ASSUME IInv, [Next]_vars, NEW c \in Calls, Arrived(c), Answered(c)
    PROVE  answer'[c] = answer[c]
<1>0. answer \in [Calls -> Answer \cup {Undefined}]
  BY DEF IInv, TypeOK
<1>1. ASSUME NEW k \in Calls, NEW code, NEW body, k # c, Respond(k, code, body)
      PROVE  answer'[c] = answer[c]
  BY <1>0, <1>1 DEF Respond
<1>2. ASSUME NEW k \in Calls, NEW h \in Traffic, Unauthorized(k, h) \/ NotFound(k, h)
      PROVE  answer'[c] = answer[c]
  BY <1>1, <1>2 DEF Unauthorized, NotFound, Arrive, Arrived
<1>3. ASSUME NEW k \in Calls, Continue(k) PROVE answer'[c] = answer[c]
  <2>1. k # c
    BY <1>3 DEF Continue, Running, CrudAnswer, AcceptReqCommunicate, AcceptReqFail,
       AcceptVolMark, AcceptVolMarkNothing, AcceptVolFail, AcceptVolAnswer, AcceptVolNobody,
       CompReqWrite, CompReqFail
  <2>2. UNCHANGED answer \/ \E code, body : Respond(k, code, body)
    BY <1>3 DEF Continue, CrudAnswer, AcceptReqCommunicate, AcceptReqFail,
       AcceptVolMark, AcceptVolMarkNothing, AcceptVolFail, AcceptVolAnswer, AcceptVolNobody,
       CompReqWrite, CompReqFail
  <2> QED BY <1>1, <2>1, <2>2
<1>4. CASE Crash
  BY <1>4 DEF Crash
<1> QED BY <1>2, <1>3, <1>4 DEF Next, Idle, vars, Start, Resolve, Refuse, Fault

(* Nobody answers a call that has not arrived.                             *)
LEMMA NoAnswerYet ==
    ASSUME IInv, [Next]_vars, NEW c \in Calls, ~Arrived(c)', answer[c] = Undefined
    PROVE  answer'[c] = Undefined
<1>0. answer \in [Calls -> Answer \cup {Undefined}] /\ ~Arrived(c)
  BY CallStays DEF IInv, TypeOK
<1>1. ASSUME NEW k \in Calls, NEW code, NEW body, k # c, Respond(k, code, body)
      PROVE  answer'[c] = answer[c]
  BY <1>0, <1>1 DEF Respond
<1>2. ASSUME NEW k \in Calls, NEW h \in Traffic, Unauthorized(k, h) \/ NotFound(k, h)
      PROVE  answer'[c] = answer[c]
  <2>1. Arrive(k, h) /\ TypeOK
    BY <1>2 DEF Unauthorized, NotFound, IInv
  <2>2. k # c
    BY <2>1, ArriveEffect DEF Arrived
  <2> QED BY <1>1, <1>2, <2>2 DEF Unauthorized, NotFound
<1>3. ASSUME NEW k \in Calls, Continue(k) PROVE answer'[c] = answer[c]
  <2>1. k # c
    BY <1>0, <1>3 DEF Continue, Running, CrudAnswer, AcceptReqCommunicate, AcceptReqFail,
       AcceptVolMark, AcceptVolMarkNothing, AcceptVolFail, AcceptVolAnswer, AcceptVolNobody,
       CompReqWrite, CompReqFail
  <2>2. UNCHANGED answer \/ \E code, body : Respond(k, code, body)
    BY <1>3 DEF Continue, CrudAnswer, AcceptReqCommunicate, AcceptReqFail,
       AcceptVolMark, AcceptVolMarkNothing, AcceptVolFail, AcceptVolAnswer, AcceptVolNobody,
       CompReqWrite, CompReqFail
  <2> QED BY <1>1, <2>1, <2>2
<1>4. CASE Crash
  BY <1>0, <1>4 DEF Crash
<1> QED BY <1>2, <1>3, <1>4 DEF Next, Idle, vars, Start, Resolve, Refuse, Fault

(* A call arrives with no promise, or with its first ones under way, and is*)
(* answered at once only if it is refused.                                 *)
LEMMA Arrival ==
    ASSUME IInv, [Next]_vars, NEW c \in Calls, ~Arrived(c), Arrived(c)', answer[c] = Undefined
    PROVE  \/ /\ \A s \in Slots : St(c, s)' = "none"
              /\ answer'[c].code \in {401, 404}
           \/ /\ ~Answered(c)'
              /\ \A s \in Slots : St(c, s)' = IF s \in FirstRpcs(call'[c]) THEN "pending" ELSE "none"
<1> USE DEF IInv
<1>1. PICK h \in Traffic : Unauthorized(c, h) \/ NotFound(c, h) \/ Start(c, h)
  BY DEF Next, Continue, Idle, vars, Unauthorized, NotFound, Start, Arrive, Arrived, TypeOK,
     Resolve, Refuse, Fault, CrudAnswer, AcceptReqCommunicate, AcceptReqFail, AcceptVolMark,
     AcceptVolMarkNothing, AcceptVolFail, AcceptVolAnswer, AcceptVolNobody, CompReqWrite,
     CompReqFail, Crash
<1>2. \A s \in Slots : St(c, s) = "none"
  BY FreshCall DEF Arrived, St
<1>3. CASE Unauthorized(c, h) \/ NotFound(c, h)
  BY <1>2, <1>3 DEF Unauthorized, NotFound, Respond, TypeOK, St
<1>4. CASE Start(c, h)
  <2>1. call'[c] = h
    BY <1>4, ArriveEffect DEF Start
  <2>2. \A s \in Slots : St(c, s)' = IF s \in FirstRpcs(h) THEN "pending" ELSE "none"
    BY <1>2, <1>4, IssueEffect DEF Start, St, Pending
  <2> QED BY <1>4, <2>1, <2>2 DEF Start, Answered
<1> QED BY <1>1, <1>3, <1>4

-----------------------------------------------------------------------------
(* How far acceptVol has got, by its promises.                             *)
Progress(c) ==
    /\ St(c, "volData") # "none" => St(c, "volWrite") # "none"
    /\ St(c, "custData") # "none" => St(c, "reqData") = "ok" /\ Val(c, "reqData") # Undefined
    /\ Answered(c) /\ answer[c].code = 200 =>
          /\ AllRead(c, {"reqData", "volData", "custData"})
          /\ Val(c, "volData") # Undefined

LEMMA ProgressStays ==
    ASSUME IInv, [Next]_vars, NEW c \in Calls, Arrived(c), call[c].op = "acceptVol", Progress(c)
    PROVE  Progress(c)'
<1> USE DEF IInv
<1>1. /\ Arrived(c)' /\ call'[c] = call[c]
      /\ \A s \in Slots : St(c, s) \in {"ok", "rejected"} => promise'[c][s] = promise[c][s]
  BY CallStays, SettledStays
<1>2. ASSUME UNCHANGED <<promise[c], answer[c]>> PROVE Progress(c)'
  BY <1>2 DEF Progress, St, Val, Answered, AllRead
<1>3. ASSUME NEW k \in Calls, NEW s \in Slots, Resolve(k, s) \/ Refuse(k, s) \/ Fault(k, s)
      PROVE  Progress(c)'
  <2>1. UNCHANGED answer /\ \A t \in Slots : (St(c, t) = "none") = (St(c, t)' = "none")
    <3>1. St(k, s) = "pending" /\ \E p \in Promise : p.st # "none" /\ Settle(k, s, p)
      <4>1. CASE Resolve(k, s)
        <5>1. Resolved(Delivered(db, Rpc(k, s))) \in Promise
          BY <4>1, InFlight, DeliveredType, PromiseTypes DEF Resolve, TypeOK
        <5> QED BY <4>1, <5>1 DEF Resolve, Resolved
      <4>2. CASE Refuse(k, s) \/ Fault(k, s)
        BY <4>2, PromiseTypes DEF Refuse, Fault, Rejected
      <4> QED BY <1>3, <4>1, <4>2
    <3>2. \A t \in Slots : (St(c, t) = "none") = (St(c, t)' = "none")
      BY <3>1, SettleEffect DEF St
    <3> QED BY <1>3, <3>2 DEF Resolve, Refuse, Fault
  <2> QED BY <1>1, <2>1 DEF Progress, St, Val, Answered, AllRead, Slots
<1>4. CASE Crash
  <2>1. \A t \in Slots : (St(c, t) = "none") = (St(c, t)' = "none")
    BY <1>4 DEF Crash, St, Rejected
  <2>2. Answered(c)' /\ answer'[c].code = 200 => Answered(c) /\ answer[c].code = 200
    BY <1>4 DEF Crash, Answered
  <2> QED BY <1>1, <2>1, <2>2 DEF Progress, St, Val, AllRead, Slots
<1>5. ASSUME NEW k \in Calls, k # c, 
             \/ \E h \in Traffic : Unauthorized(k, h) \/ NotFound(k, h) \/ Start(k, h)
             \/ Continue(k)
      PROVE  Progress(c)'
  BY <1>2, <1>5, IssueEffect
     DEF Unauthorized, NotFound, Start, Continue, CrudAnswer,
         AcceptReqCommunicate, AcceptReqFail, AcceptVolMark, AcceptVolMarkNothing,
         AcceptVolFail, AcceptVolAnswer, AcceptVolNobody, CompReqWrite, CompReqFail, Respond, TypeOK
<1>6. CASE AcceptVolMark(c)
  BY <1>6, <1>1, IssueEffect DEF AcceptVolMark, Progress, St, Val, Answered, AllRead, Slots, Pending
<1>7. CASE AcceptVolMarkNothing(c)
  BY <1>7, <1>1, IssueEffect, RespondType
     DEF AcceptVolMarkNothing, Progress, St, Val, Answered, AllRead, Slots, Pending, Respond
<1>8. CASE AcceptVolFail(c) \/ AcceptVolNobody(c)
  BY <1>8 DEF AcceptVolFail, AcceptVolNobody, Respond, Progress, St, Val, Answered, AllRead, TypeOK
<1>9. CASE AcceptVolAnswer(c)
  BY <1>9 DEF AcceptVolAnswer, Progress, St, Val, Answered, AllRead, TypeOK
<1>10. CASE Idle \/ UNCHANGED vars
  BY <1>2, <1>10 DEF Idle, vars
<1>11. \A h \in Traffic : ~Unauthorized(c, h) /\ ~NotFound(c, h) /\ ~Start(c, h)
  BY DEF Unauthorized, NotFound, Start, Arrive, Arrived
<1>12. ASSUME Continue(c)
       PROVE  \/ AcceptVolMark(c) \/ AcceptVolMarkNothing(c) \/ AcceptVolFail(c)
              \/ AcceptVolAnswer(c) \/ AcceptVolNobody(c)
  BY <1>12 DEF Continue, CrudAnswer, AcceptReqCommunicate, AcceptReqFail, CompReqWrite,
     CompReqFail, Running, CrudOps
<1> QED BY <1>3, <1>4, <1>5, <1>6, <1>7, <1>8, <1>9, <1>10, <1>11, <1>12 DEF Next

Reads == {"volData", "reqData", "custData"}

(* Answered by its handler, not by the death of the process.               *)
Replied(c) == Answered(c) /\ answer[c].code # 0

(* A completion that has answered has sent both writes off, or has not read*)
(* all it reads, or never started.                                         *)
WentThrough(c) ==
    \/ \A s \in Writes : St(c, s) # "none"
    \/ \E s \in Reads : St(c, s) = "rejected"
    \/ \A s \in Slots : St(c, s) = "none"

(* compReq writes when it has read all it reads, and answers in that step. *)
Orderly(c) ==
    /\ Replied(c) => WentThrough(c)
    /\ (\E s \in Writes : St(c, s) # "none") => Replied(c) /\ AllRead(c, Reads)

LEMMA CompReqAnswers ==
    ASSUME IInv, [Next]_vars, NEW c \in Calls, Arrived(c), call[c].op = "compReq",
           ~Replied(c), Replied(c)'
    PROVE  CompReqWrite(c) \/ CompReqFail(c)
<1>0. answer \in [Calls -> Answer \cup {Undefined}]
  BY DEF IInv, TypeOK
<1>1. ~Answered(c)
  BY AnswerStays DEF Replied, Answered
<1>2. ~Crash
  BY <1>1 DEF Crash, Replied
<1>3. ASSUME NEW k \in Calls, NEW code, NEW body, Respond(k, code, body) PROVE k = c
  BY <1>0, <1>1, <1>3 DEF Respond, Answered, Replied
<1> QED BY <1>1, <1>2, <1>3
    DEF Next, Continue, Idle, vars, Unauthorized, NotFound, Start, Arrive, Arrived, Answered,
        Replied, Running, Resolve, Refuse, Fault, CrudAnswer, CrudOps, AcceptReqCommunicate,
        AcceptReqFail, AcceptVolMark, AcceptVolMarkNothing, AcceptVolFail, AcceptVolAnswer,
        AcceptVolNobody, CompReqWrite, CompReqFail

(* What compReq's own steps do to its promises and its answer.             *)
LEMMA CompReqSends ==
    ASSUME IInv, NEW c \in Calls, CompReqWrite(c)
    PROVE  /\ Replied(c)' /\ AllRead(c, Reads)'
           /\ \A s \in Writes : St(c, s)' # "none"
<1>1. \A s \in Slots : promise'[c][s] = IF s \in Writes THEN Pending ELSE promise[c][s]
  BY IssueEffect DEF CompReqWrite, IInv, Writes
<1>2. AllRead(c, Reads)' /\ \A s \in Writes : St(c, s)' # "none"
  BY <1>1 DEF CompReqWrite, AllRead, Reads, Writes, Slots, St, Pending
<1>3. PICK code \in {200, 500} : Respond(c, code, Undefined)
  BY DEF CompReqWrite
<1>4. answer'[c] = [code |-> code, body |-> Undefined]
  BY <1>3 DEF Respond, IInv, TypeOK
<1>5. Answered(c)'
  BY <1>3, RespondType DEF IInv
<1> QED BY <1>2, <1>4, <1>5 DEF Replied

LEMMA CompReqGivesUp ==
    ASSUME NEW c \in Calls, CompReqFail(c)
    PROVE  \E s \in Reads : St(c, s)' = "rejected"
<1>1. PICK i \in 1..3 : St(c, <<"volData", "reqData", "custData">>[i]) = "rejected"
  BY DEF CompReqFail, ReadFails
<1>2. \E s \in Reads : St(c, s) = "rejected"
  BY <1>1 DEF Reads
<1> QED BY <1>2 DEF CompReqFail, St

(* A completion's writes are made by CompReqWrite.                         *)
LEMMA WritesAreSent ==
    ASSUME IInv, [Next]_vars, NEW c \in Calls, Arrived(c), call[c].op = "compReq",
           NEW s \in Writes, St(c, s)' # "none", ~CompReqWrite(c)
    PROVE  St(c, s) # "none"
<1> SUFFICES ASSUME St(c, s) = "none" PROVE FALSE
  OBVIOUS
<1> USE DEF IInv
<1>0. s \in Slots
  BY DEF Writes, Slots
<1>1. ASSUME NEW k \in Calls, NEW S, Issue(k, S), k # c PROVE FALSE
  BY <1>0, <1>1, IssueEffect DEF St
<1>2. ASSUME NEW k \in Calls, NEW h \in Traffic, Start(k, h) PROVE FALSE
  <2>1. k # c
    BY <1>2 DEF Start, Arrive, Arrived
  <2> QED BY <1>1, <1>2, <2>1 DEF Start
<1>3. ASSUME NEW k \in Calls, AcceptVolMark(k) \/ AcceptVolMarkNothing(k) PROVE FALSE
  <2>1. k # c
    BY <1>3 DEF AcceptVolMark, AcceptVolMarkNothing, Running
  <2>2. CASE AcceptVolMark(k)
    BY <1>1, <2>1, <2>2 DEF AcceptVolMark
  <2>3. CASE AcceptVolMarkNothing(k)
    BY <1>1, <2>1, <2>3 DEF AcceptVolMarkNothing
  <2> QED BY <1>3, <2>2, <2>3
<1>4. ASSUME NEW k \in Calls, CompReqWrite(k) PROVE FALSE
  <2>1. k # c
    BY <1>4
  <2>2. Issue(k, {"volWrite", "reqWrite"})
    BY <1>4 DEF CompReqWrite
  <2> QED BY <1>1, <2>1, <2>2
<1>5. ASSUME NEW k \in Calls, NEW t \in Slots, Resolve(k, t) \/ Refuse(k, t) \/ Fault(k, t)
      PROVE  FALSE
  <2>1. St(k, t) = "pending" /\ \E p : Settle(k, t, p)
    BY <1>5 DEF Resolve, Refuse, Fault
  <2>2. k # c \/ t # s
    BY <2>1
  <2>3. promise'[c][s] = promise[c][s]
    BY <1>0, <2>1, <2>2 DEF Settle, TypeOK
  <2> QED BY <2>3 DEF St
<1>6. CASE Crash
  BY <1>0, <1>6 DEF Crash, St
<1>7. CASE UNCHANGED promise
  BY <1>7 DEF St
<1> QED BY <1>2, <1>3, <1>4, <1>5, <1>6, <1>7
        DEF Next, Continue, Idle, vars, Unauthorized, NotFound, CrudAnswer,
            AcceptReqCommunicate, AcceptReqFail, AcceptVolFail, AcceptVolAnswer, AcceptVolNobody,
            CompReqFail

LEMMA OrderlyStays ==
    ASSUME IInv, [Next]_vars, NEW c \in Calls, Arrived(c), call[c].op = "compReq", Orderly(c)
    PROVE  Orderly(c)'
<1>1. CASE CompReqWrite(c)
  BY <1>1, CompReqSends DEF Orderly, WentThrough
<1>2. CASE ~CompReqWrite(c)
  <2>1. ASSUME Replied(c)' PROVE WentThrough(c)'
    <3>1. CASE ~Replied(c)
      <4>1. CompReqFail(c)
        BY <1>2, <2>1, <3>1, CompReqAnswers
      <4> QED BY <4>1, CompReqGivesUp DEF WentThrough
    <3>2. CASE Replied(c)
      <4>1. CASE \A s \in Writes : St(c, s) # "none"
        BY <4>1, MadeStays DEF WentThrough, Writes, Slots
      <4>2. CASE \E s \in Reads : St(c, s) = "rejected"
        BY <4>2, SettledStays DEF WentThrough, Reads, Slots, St
      <4>3. CASE \A s \in Slots : St(c, s) = "none"
        BY <3>2, <4>3, NoneStays DEF WentThrough, Replied
      <4> QED BY <3>2, <4>1, <4>2, <4>3 DEF Orderly, WentThrough
    <3> QED BY <3>1, <3>2
  <2>2. ASSUME NEW s \in Writes, St(c, s)' # "none" PROVE St(c, s) # "none"
    BY <1>2, <2>2, WritesAreSent
  <2>3. ASSUME NEW s \in Writes, St(c, s) # "none" PROVE Replied(c)' /\ AllRead(c, Reads)'
    <3>1. Replied(c) /\ AllRead(c, Reads)
      BY <2>3 DEF Orderly
    <3>2. Replied(c)'
      BY <3>1, AnswerStays DEF Replied, Answered
    <3>3. AllRead(c, Reads)'
      BY <3>1, SettledStays DEF AllRead, Reads, Slots, St
    <3> QED BY <3>2, <3>3
  <2> QED BY <2>1, <2>2, <2>3 DEF Orderly
<1> QED BY <1>1, <1>2

-----------------------------------------------------------------------------
(* Where a matching call stands, together with who is answered.            *)
Tidy(c) ==
    /\ call[c].op = "acceptVol" => Progress(c)
    /\ call[c].op = "compReq" => Orderly(c)

MatchInv == \A c \in Calls : IF Arrived(c) THEN Tidy(c) ELSE answer[c] = Undefined

LEMMA NextMatch == IInv /\ MatchInv /\ [Next]_vars => MatchInv'
<1> SUFFICES ASSUME IInv, MatchInv, [Next]_vars, NEW c \in Calls
             PROVE  IF Arrived(c)' THEN Tidy(c)' ELSE answer'[c] = Undefined
  BY DEF MatchInv
<1>1. CASE Arrived(c)
  <2>1. Arrived(c)' /\ call'[c] = call[c] /\ Tidy(c)
    BY <1>1, CallStays DEF MatchInv
  <2> QED BY <1>1, <2>1, ProgressStays, OrderlyStays DEF Tidy
<1>2. CASE ~Arrived(c) /\ Arrived(c)'
  <2>0. answer[c] = Undefined
    BY <1>2 DEF MatchInv
  <2>1. CASE (\A s \in Slots : St(c, s)' = "none") /\ answer'[c].code \in {401, 404}
    BY <1>2, <2>1 DEF Tidy, Progress, Orderly, WentThrough, Writes, Slots
  <2>2. CASE /\ ~Answered(c)'
             /\ \A s \in Slots :
                   St(c, s)' = IF s \in FirstRpcs(call'[c]) THEN "pending" ELSE "none"
    <3>1. ASSUME call'[c].op = "acceptVol" PROVE Progress(c)'
      BY <2>2, <3>1 DEF FirstRpcs, Progress, Slots
    <3>2. ASSUME call'[c].op = "compReq" PROVE Orderly(c)'
      BY <2>2, <3>2 DEF FirstRpcs, Orderly, Replied, Writes, Slots
    <3> QED BY <1>2, <3>1, <3>2 DEF Tidy
  <2> QED BY <1>2, <2>0, <2>1, <2>2, Arrival
<1>3. CASE ~Arrived(c) /\ ~Arrived(c)'
  BY <1>3, NoAnswerYet DEF MatchInv
<1> QED BY <1>1, <1>2, <1>3

LEMMA MatchInvariance == Spec => [](IInv /\ MatchInv)
<1>1. Init => MatchInv
  BY DEF Init, MatchInv, Arrived
<1> QED BY <1>1, NextMatch, Invariance, PTL DEF Spec

-----------------------------------------------------------------------------
(* An acceptance.                                                          *)

LEMMA MarkHolds ==
    ASSUME IInv, [Next]_vars, NEW d \in Docs, InProgress(d)
    PROVE  InProgress(d)' \/ Rewritten(d) \/ Completed(d)
<1>1. CASE db'[d] = db[d]
  BY <1>1 DEF InProgress
<1>2. CASE db'[d] # db[d]
  BY <1>2, WriteStep DEF Rewritten, Completed
<1> QED BY <1>1, <1>2

(* Once the store has carried out a mark, the document is "in progress".   *)
LEMMA MarkTakes ==
    ASSUME IInv, NEW c \in Calls, NEW s \in Writes, call[c].op = "acceptVol", Resolve(c, s)
    PROVE  InProgress(Written(c, s))'
<1> DEFINE d == Written(c, s)
<1>0. s \in Slots
  BY DEF Writes, Slots
<1>1. /\ Rpc(c, s) \in StoreCall /\ Accepted(db, Rpc(c, s)) /\ db' = Applied(db, Rpc(c, s))
      /\ St(c, s) # "none"
  BY <1>0, InFlight DEF Resolve
<1>2. Rpc(c, s).kind = "update" /\ Rpc(c, s).doc = d /\ Rpc(c, s).data = StateOnly("in progress")
  <2>1. CASE s = "volWrite"
    BY <2>1 DEF Rpc, AcceptVolRpc, Update, Written
  <2>2. CASE s = "reqWrite"
    BY <2>2 DEF Rpc, AcceptVolRpc, Update, Written
  <2> QED BY <2>1, <2>2 DEF Writes
<1>3. d \in Docs
  BY <1>0, <1>1, Named DEF MatchOps, Written
<1>4. db[d] # Undefined
  BY <1>1, <1>2, <1>3 DEF Accepted, Lookup
<1>5. Applied(db, Rpc(c, s))[d] # Undefined /\ Applied(db, Rpc(c, s))[d].state = "in progress"
  BY <1>1, <1>2, <1>3, <1>4, StateSet
<1>6. UNCHANGED call
  BY DEF Resolve
<1> QED BY <1>1, <1>5, <1>6 DEF InProgress, Written

(* acceptVol makes both its writes before it reports success, and each     *)
(* holds from the moment the store carries it out, until the store settles *)
(* the write of a completion or of a rewrite of that document.             *)
THEOREM Acceptance == Spec => AcceptanceTakesHold
<1>1. ASSUME IInv, MatchInv, IInv', MatchInv', [Next]_vars, NEW c \in Calls, NEW s \in Writes,
             ~AcceptanceLost(c, s), AcceptanceLost(c, s)'
      PROVE  Rewritten(Written(c, s)) \/ Completed(Written(c, s))
  <2>0. s \in Slots /\ Arrived(c)' /\ call'[c].op = "acceptVol"
    BY <1>1 DEF Writes, Slots, AcceptanceLost
  <2>1. St(c, s)' = "ok"
    <3>1. ASSUME Answered(c)', answer'[c].code = 200 PROVE St(c, s)' # "none"
      <4>1. Progress(c)' /\ Discipline(c)'
        BY <1>1, <2>0 DEF MatchInv, Tidy, IInv
      <4> QED BY <2>0, <3>1, <4>1 DEF Progress, AllRead, Discipline, Writes
    <3> QED BY <1>1, <2>0, <3>1 DEF AcceptanceLost
  <2>2. Arrived(c) /\ call'[c] = call[c]
    <3>1. ASSUME ~Arrived(c) PROVE FALSE
      BY <1>1, <2>0, <2>1, <3>1, Arrival DEF MatchInv
    <3> QED BY <1>1, <3>1, CallStays
  <2>3. Written(c, s)' = Written(c, s)
    BY <2>2 DEF Written
  <2>4. ~InProgress(Written(c, s))'
    BY <1>1 DEF AcceptanceLost, InProgress
  <2>5. St(c, s) = "ok"
    <3>1. ASSUME St(c, s) # "ok" PROVE FALSE
      BY <1>1, <2>0, <2>1, <2>2, <2>4, <3>1, FulfilledByStore, MarkTakes
    <3> QED BY <3>1
  <2>6. InProgress(Written(c, s))
    BY <1>1, <2>0, <2>2, <2>5 DEF AcceptanceLost, InProgress
  <2>7. Written(c, s) \in Docs
    BY <1>1, <2>0, <2>2, <2>5, Named DEF MatchOps, Written
  <2> QED BY <1>1, <2>3, <2>4, <2>6, <2>7, MarkHolds DEF InProgress
<1> DEFINE Step == \A c \in Calls, s \in Writes :
                      ~AcceptanceLost(c, s) /\ AcceptanceLost(c, s)' =>
                         Rewritten(Written(c, s)) \/ Completed(Written(c, s))
<1>2. IInv /\ MatchInv /\ IInv' /\ MatchInv' /\ [Next]_vars => [Step]_vars
  BY <1>1
<1> QED BY <1>2, MatchInvariance, PTL DEF Spec, AcceptanceTakesHold

-----------------------------------------------------------------------------
(* A completion.                                                           *)

LEMMA FreeHolds ==
    ASSUME IInv, [Next]_vars, NEW v \in Volunteers, FreeOrGone(v)
    PROVE  FreeOrGone(v)' \/ Rewritten(v) \/ Marked(v)
<1>0. v \in Docs
  BY DEF Docs
<1>1. CASE db'[v] = db[v]
  BY <1>1 DEF FreeOrGone
<1>2. CASE db'[v] # db[v]
  <2>1. PICK k \in Calls :
              \/ Settled(k, "doc") /\ Rewrites(k, v)
              \/ /\ call[k].op = "acceptVol"
                 /\ \E s \in Writes : Settled(k, s) /\ Written(k, s) = v
              \/ FreeOrGone(v)'
    BY <1>0, <1>2, WriteStep
  <2>2. ASSUME call[k].op = "acceptVol", NEW s \in Writes, Settled(k, s), Written(k, s) = v
        PROVE  Marked(v)
    <3>1. s \in Slots /\ St(k, s) # "none"
      BY <2>2 DEF Writes, Slots, Settled
    <3>2. call[k].req \in Requests
      BY <2>2, <3>1, Named DEF MatchOps
    <3>3. s = "volWrite"
      BY <2>2, <3>2, CollectionsAssumption DEF Writes, Written
    <3> QED BY <2>2, <3>3 DEF Marked, Written
  <2> QED BY <2>1, <2>2 DEF Rewritten
<1> QED BY <1>1, <1>2

(* A document that is gone stays gone, or somebody adds it anew.           *)
LEMMA GoneHolds ==
    ASSUME IInv, [Next]_vars, NEW d \in Docs, db[d] = Undefined
    PROVE  db'[d] = Undefined \/ Added(d)
<1>1. CASE db'[d] # db[d]
  <2>1. PICK c \in Calls, s \in Slots :
              /\ St(c, s) = "pending" /\ promise'[c][s].st \in {"ok", "rejected"}
              /\ Arrived(c) /\ Rpc(c, s) \in StoreCall
              /\ Rpc(c, s).kind # "get" /\ Rpc(c, s).doc = d
              /\ Accepted(db, Rpc(c, s)) /\ db' = Applied(db, Rpc(c, s))
    BY <1>1, StoreStep
  <2>2. Rpc(c, s).kind # "update"
    BY <2>1 DEF Accepted, Lookup
  <2>3. Rpc(c, s).kind # "delete"
    BY <1>1, <2>1, AppliedThere DEF IInv, TypeOK
  <2>4. Settled(c, s)
    BY <2>1 DEF Settled, St
  <2> QED BY <2>1, <2>2, <2>3, <2>4, Writers DEF Added
<1> QED BY <1>1

(* What the store does when it carries out a write of compReq.             *)
LEMMA ReleaseTakes ==
    ASSUME IInv, NEW c \in Calls, call[c].op = "compReq", Resolve(c, "volWrite")
    PROVE  FreeOrGone(call[c].vol)'
<1> DEFINE v == call[c].vol
<1>1. /\ Rpc(c, "volWrite") \in StoreCall /\ Accepted(db, Rpc(c, "volWrite"))
      /\ db' = Applied(db, Rpc(c, "volWrite")) /\ St(c, "volWrite") # "none"
  BY InFlight DEF Resolve, Slots
<1>2. /\ Rpc(c, "volWrite").kind = "update" /\ Rpc(c, "volWrite").doc = v
      /\ Rpc(c, "volWrite").data = StateOnly("free")
  BY DEF Rpc, CompReqRpc, Update
<1>3. v \in Docs
  BY <1>1, Named DEF MatchOps, Slots
<1>4. db[v] # Undefined
  BY <1>1, <1>2, <1>3 DEF Accepted, Lookup
<1>5. Applied(db, Rpc(c, "volWrite"))[v].state = "free"
  BY <1>1, <1>2, <1>3, <1>4, StateSet
<1>6. UNCHANGED call
  BY DEF Resolve
<1> QED BY <1>1, <1>5, <1>6 DEF FreeOrGone

LEMMA RemovalTakes ==
    ASSUME IInv, NEW c \in Calls, call[c].op = "compReq", Resolve(c, "reqWrite")
    PROVE  db'[call[c].req] = Undefined
<1>1. /\ Rpc(c, "reqWrite") \in StoreCall /\ db' = Applied(db, Rpc(c, "reqWrite"))
      /\ St(c, "reqWrite") # "none"
  BY InFlight DEF Resolve, Slots
<1>2. Rpc(c, "reqWrite").kind = "delete" /\ Rpc(c, "reqWrite").doc = call[c].req
  BY DEF Rpc, CompReqRpc, Delete
<1>3. call[c].req \in Docs
  BY <1>1, Named DEF MatchOps, Slots
<1> QED BY <1>1, <1>2, <1>3, AppliedThere DEF IInv, TypeOK

(* A completion is lost only after its write was carried out, and before   *)
(* that step it was not.                                                   *)
LEMMA LostLater ==
    ASSUME IInv, MatchInv, MatchInv', [Next]_vars, NEW c \in Calls, NEW s \in Writes,
           ~CompletionLost(c, s), CompletionLost(c, s)'
    PROVE  /\ Arrived(c) /\ call[c].op = "compReq" /\ call'[c] = call[c]
           /\ Written(c, s) \in Docs
           /\ \/ Resolve(c, s)
              \/ db[Written(c, s)] = Undefined
              \/ s = "volWrite" /\ FreeOrGone(Written(c, s))
<1>0. s \in Slots /\ Arrived(c)' /\ call'[c].op = "compReq"
  BY DEF Writes, Slots, CompletionLost
<1>1. Orderly(c)' /\ Replied(c)' /\ AllRead(c, Reads)'
  BY <1>0 DEF MatchInv, Tidy, CompletionLost, Replied, Reads
<1>2. St(c, s)' = "ok"
  <2>1. \A t \in Reads : St(c, t)' = "ok"
    BY <1>1 DEF AllRead
  <2>2. \A t \in Writes : St(c, t)' # "none"
    BY <1>1, <2>1 DEF Orderly, WentThrough, Reads, Slots
  <2> QED BY <2>2 DEF CompletionLost
<1>3. Arrived(c) /\ call'[c] = call[c]
  <2>1. ASSUME ~Arrived(c) PROVE FALSE
    BY <1>0, <1>2, <2>1, Arrival DEF MatchInv
  <2> QED BY <2>1, CallStays
<1>4. CASE St(c, s) # "ok"
  <2>1. Resolve(c, s)
    BY <1>0, <1>2, <1>4, FulfilledByStore
  <2>2. St(c, s) # "none"
    BY <2>1 DEF Resolve
  <2>3. Written(c, s) \in Docs
    BY <1>0, <1>3, <2>2, Named DEF MatchOps, Written
  <2> QED BY <1>0, <1>3, <2>1, <2>3
<1>5. CASE St(c, s) = "ok"
  <2>1. Orderly(c)
    BY <1>0, <1>3 DEF MatchInv, Tidy
  <2>2. Replied(c) /\ AllRead(c, Reads)
    BY <1>5, <2>1 DEF Orderly
  <2>3. Written(c, s) \in Docs
    BY <1>0, <1>3, <1>5, Named DEF MatchOps, Written
  <2>4. ~(db[Written(c, s)] # Undefined /\ (s = "volWrite" => db[Written(c, s)].state # "free"))
    BY <1>0, <1>3, <1>5, <2>2 DEF CompletionLost, Replied, Reads
  <2> QED BY <1>0, <1>3, <2>3, <2>4 DEF FreeOrGone
<1> QED BY <1>4, <1>5

(* Once compReq has read all it reads and has answered, each of its writes *)
(* holds from the moment the store carries it out: the volunteer is free   *)
(* until a mark or a rewrite of him is settled, and the request gone until *)
(* it is added anew.                                                       *)
THEOREM Completion == Spec => CompletionTakesHold
<1>1. ASSUME IInv, MatchInv, MatchInv', [Next]_vars, NEW c \in Calls,
             ~CompletionLost(c, "volWrite"), CompletionLost(c, "volWrite")'
      PROVE  Rewritten(Written(c, "volWrite")) \/ Marked(Written(c, "volWrite"))
  <2> DEFINE v == call[c].vol
  <2>1. /\ Arrived(c) /\ call[c].op = "compReq" /\ call'[c] = call[c] /\ v \in Docs
        /\ Resolve(c, "volWrite") \/ FreeOrGone(v)
    BY <1>1, LostLater DEF Writes, Written, FreeOrGone
  <2>2. ~FreeOrGone(v)'
    BY <1>1, <2>1 DEF CompletionLost, Written, FreeOrGone
  <2>3. FreeOrGone(v)
    BY <1>1, <2>1, <2>2, ReleaseTakes
  <2>4. v \in Volunteers
    <3>1. call[c] \in HttpRequest
      BY <1>1, <2>1 DEF Arrived, IInv, TypeOK
    <3> QED BY <2>1, <3>1, CollectionsAssumption DEF HttpRequest
  <2>5. Rewritten(v) \/ Marked(v)
    BY <1>1, <2>1, <2>2, <2>3, <2>4, FreeHolds DEF FreeOrGone
  <2>6. Written(c, "volWrite") = v
    BY DEF Written
  <2> QED BY <2>5, <2>6
<1>2. ASSUME IInv, MatchInv, MatchInv', [Next]_vars, NEW c \in Calls,
             ~CompletionLost(c, "reqWrite"), CompletionLost(c, "reqWrite")'
      PROVE  Added(Written(c, "reqWrite"))
  <2> DEFINE r == call[c].req
  <2>1. /\ call[c].op = "compReq" /\ call'[c] = call[c] /\ r \in Docs
        /\ Resolve(c, "reqWrite") \/ db[r] = Undefined
    BY <1>2, LostLater DEF Writes, Written
  <2>2. db'[r] # Undefined
    BY <1>2, <2>1 DEF CompletionLost, Written
  <2>3. db[r] = Undefined
    BY <1>2, <2>1, <2>2, RemovalTakes
  <2> QED BY <1>2, <2>1, <2>2, <2>3, GoneHolds DEF Written
<1> DEFINE Step ==
      \A c \in Calls :
          /\ ~CompletionLost(c, "volWrite") /\ CompletionLost(c, "volWrite")' =>
                Rewritten(Written(c, "volWrite")) \/ Marked(Written(c, "volWrite"))
          /\ ~CompletionLost(c, "reqWrite") /\ CompletionLost(c, "reqWrite")' =>
                Added(Written(c, "reqWrite"))
<1>3. IInv /\ MatchInv /\ MatchInv' /\ [Next]_vars => [Step]_vars
  BY <1>1, <1>2
<1> QED BY <1>3, MatchInvariance, PTL DEF Spec, CompletionTakesHold

=============================================================================
