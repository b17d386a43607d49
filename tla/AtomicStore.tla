---------------------------- MODULE AtomicStore ----------------------------
(***************************************************************************)
(* What the clients of the API may rely on.  A document call takes effect  *)
(* once, at one instant between its arrival and its success, and a read    *)
(* answers with the document as it was at that instant; a 500 leaves open  *)
(* whether a write took effect, and a connection reset even leaves open    *)
(* when.  A matching call promises much less: while it is open, and after, *)
(* it may mark the volunteer and the request it names, or remove that      *)
(* request, and it touches nothing else of them and nothing of any other   *)
(* document.                                                               *)
(***************************************************************************)
EXTENDS ApiCalls, Naturals

VARIABLES
    db,         \* the store
    call,       \* call -> its request, Undefined until it arrives
    outcome,    \* call -> what became of a document call
    answer      \* call -> the response, Undefined until it is given

vars == <<db, call, outcome, answer>>

Open     == [st |-> "open",   val |-> Undefined]
Failed   == [st |-> "failed", val |-> Undefined]
Done(v)  == [st |-> "done",   val |-> v]

Arrived(c) == call[c] # Undefined

IsCrud(c) == Arrived(c) /\ call[c].op \in CrudOps /\ call[c].authorized

Respond(c, code, body) ==
    /\ answer[c] = Undefined
    /\ answer' = [answer EXCEPT ![c] = [code |-> code, body |-> body]]

Invoke(c, h) ==
    /\ ~Arrived(c)
    /\ call' = [call EXCEPT ![c] = h]
    /\ \/ h.authorized /\ ~MissingParameter(h) /\ UNCHANGED answer
       \/ ~h.authorized /\ Respond(c, 401, Undefined)
       \/ h.authorized /\ MissingParameter(h) /\ Respond(c, 404, Undefined)
    /\ UNCHANGED <<db, outcome>>

(* The instant at which a document call happens.                           *)
Take(c) ==
    /\ IsCrud(c) /\ outcome[c] = Open
    /\ Accepted(db, CrudRpc(call[c]))
    /\ db' = Applied(db, CrudRpc(call[c]))
    /\ outcome' = [outcome EXCEPT ![c] = Done(Delivered(db, CrudRpc(call[c])))]
    /\ UNCHANGED <<call, answer>>

Fail(c) ==
    /\ IsCrud(c) /\ outcome[c] = Open
    /\ \/ UNCHANGED db
       \/ Accepted(db, CrudRpc(call[c])) /\ db' = Applied(db, CrudRpc(call[c]))
    /\ outcome' = [outcome EXCEPT ![c] = Failed]
    /\ UNCHANGED <<call, answer>>

(* The effects a matching call may have, in any order, on what it names.   *)
Mark(c, d, s) ==
    /\ db[d] # Undefined
    /\ db' = [db EXCEPT ![d].state = s]

Match(c) ==
    /\ Arrived(c) /\ call[c].authorized /\ ~MissingParameter(call[c])
    /\ \/ call[c].op = "acceptVol" /\ Mark(c, call[c].vol, "in progress")
       \/ call[c].op = "acceptVol" /\ Mark(c, call[c].req, "in progress")
       \/ call[c].op = "compReq" /\ Mark(c, call[c].vol, "free")
       \/ call[c].op = "compReq" /\ db' = [db EXCEPT ![call[c].req] = Undefined]
    /\ UNCHANGED <<call, outcome, answer>>

Reply(c) ==
    /\ Arrived(c)
    /\ \/ IsCrud(c) /\ outcome[c].st = "done" /\ Respond(c, 200, outcome[c].val)
       \/ IsCrud(c) /\ outcome[c].st = "failed" /\ Respond(c, 500, Undefined)
       \/ call[c].op \in MatchOps /\ \E code \in {200, 500} : Respond(c, code, Undefined)
    /\ UNCHANGED <<db, call, outcome>>

(* All open connections are reset; calls not yet carried out may be lost.  *)
Reset ==
    /\ answer' = [c \in Calls |-> IF Arrived(c) /\ answer[c] = Undefined
                                  THEN [code |-> 0, body |-> Undefined] ELSE answer[c]]
    /\ \E lost \in SUBSET {c \in Calls : outcome[c] = Open} :
          outcome' = [c \in Calls |-> IF c \in lost THEN Failed ELSE outcome[c]]
    /\ UNCHANGED <<db, call>>

Init ==
    /\ db \in InitialStores
    /\ call = [c \in Calls |-> Undefined]
    /\ outcome = [c \in Calls |-> Open]
    /\ answer = [c \in Calls |-> Undefined]

Next ==
    \/ \E c \in Calls :
          \/ \E h \in Traffic : Invoke(c, h)
          \/ Take(c) \/ Fail(c) \/ Match(c) \/ Reply(c)
    \/ Reset

Spec == Init /\ [][Next]_vars
=============================================================================
