-------------------------- MODULE OrderFeed_proofs --------------------------
(* ShownIsComplete and MissedStaysEmpty for any activities and any orders. The
   argument: an answer, which may be an error, is delivered to an activity once; a thread that was woken by a notification
   was woken by the listener of that answer, so no answer can come after it. *)
EXTENDS OrderFeed, TLAPS

IsAnswer(t, a) == t.task \in {"response", "error"} /\ t.of = a
IsShow(t, a) == t.task = "show" /\ t.of = a

Answering(a) == \E i \in DOMAIN tasks : IsAnswer(tasks[i], a)
InListener(a) == main = [at |-> "notify", of |-> a]

(* An answer is on its way once, and only after the request ended; both threads
   are started by the same step. *)
OneAnswer ==
    \A a \in Activities :
        /\ request[a] = "none" <=> waiter[a] = "none"
        /\ Answering(a) \/ InListener(a) => request[a] = "ended"
        /\ InListener(a) => ~Answering(a)
        /\ \A i, j \in DOMAIN tasks :
              IsAnswer(tasks[i], a) /\ IsAnswer(tasks[j], a) => i = j
        /\ missed[a] # "no" => request[a] = "ended" /\ ~Answering(a) /\ ~InListener(a)

(* Whoever was notified was notified by the listener, which is over. *)
NotifiedAfterAnswer ==
    \A a \in Activities :
        waiter[a] \in {"notified", "ended"} /\ woken[a] # "spurious" =>
            request[a] = "ended" /\ ~Answering(a) /\ ~InListener(a) /\ missed[a] = "no"

(* The list is shown by the thread's task, after the thread has ended. *)
ShownAtTheEnd ==
    \A a \in Activities :
        /\ rows[a] # {} => adapter[a]
        /\ adapter[a] \/ (\E i \in DOMAIN tasks : IsShow(tasks[i], a)) => waiter[a] = "ended"

IInv == TypeOK /\ OneAnswer /\ NotifiedAfterAnswer /\ ShownAtTheEnd /\ ShownIsComplete

-----------------------------------------------------------------------------

(* What taking the first task leaves in the queue. *)
LEMMA TailFacts ==
    ASSUME NEW S, NEW q \in Seq(S), q # <<>>
    PROVE  /\ Head(q) \in S /\ Tail(q) \in Seq(S)
           /\ 1 \in DOMAIN q /\ Head(q) = q[1]
           /\ \A i \in DOMAIN Tail(q) : i + 1 \in DOMAIN q /\ Tail(q)[i] = q[i + 1] /\ i # 0
  OBVIOUS

(* What posting a task adds to the queue. *)
LEMMA AppendFacts ==
    ASSUME NEW S, NEW q \in Seq(S), NEW t \in S
    PROVE  /\ Append(q, t) \in Seq(S)
           /\ \A i \in DOMAIN Append(q, t) :
                 \/ i \in DOMAIN q /\ Append(q, t)[i] = q[i]
                 \/ i = Len(q) + 1 /\ i \notin DOMAIN q /\ Append(q, t)[i] = t
  OBVIOUS

(* Every variable keeps its type, and the lock is held by nobody but the thread
   that is about to wait. *)
THEOREM TypeCorrect == Spec => []TypeOK
<1>1. Init => TypeOK
  BY DEF Init, TypeOK, Tasks, Idle
<1>2. TypeOK /\ [Next]_vars => TypeOK'
  <2> SUFFICES ASSUME TypeOK, [Next]_vars PROVE TypeOK'
    OBVIOUS
  <2> USE DEF TypeOK
  <2>a. tasks # <<>> => Head(tasks) \in Tasks /\ Tail(tasks) \in Seq(Tasks)
    BY TailFacts
  <2>b. \A t \in Tasks : Append(tasks, t) \in Seq(Tasks)
    BY AppendFacts
  <2>1. CASE UNCHANGED vars
    BY <2>1 DEF vars
  <2>2. ASSUME NEW a \in Activities, OnCreate(a) PROVE TypeOK'
    BY <2>2 DEF OnCreate
  <2>3. ASSUME NEW a \in Activities, OnResponse(a) PROVE TypeOK'
    <3>1. Head(tasks) \in Tasks /\ tasks' \in Seq(Tasks)
      BY <2>3, <2>a DEF OnResponse, Take
    <3>2. Head(tasks).body.keys \in SUBSET Keys
      BY <2>3, <3>1 DEF OnResponse, Take, Tasks, Bodies
    <3> QED BY <2>3, <3>1, <3>2 DEF OnResponse
  <2>4. ASSUME NEW a \in Activities, Notify(a) PROVE TypeOK'
    BY <2>4 DEF Notify
  <2>5. ASSUME NEW a \in Activities, OnErrorResponse(a) PROVE TypeOK'
    BY <2>5, <2>a DEF OnErrorResponse, Take
  <2>11. ASSUME NEW a \in Activities, Show(a) PROVE TypeOK'
    BY <2>11, <2>a DEF Show, Take
  <2>6. ASSUME NEW a \in Activities, Layout(a) PROVE TypeOK'
    BY <2>6 DEF Layout
  <2>7. ASSUME NEW a \in Activities, Acquire(a) \/ Wait(a) \/ WakeSpuriously(a) PROVE TypeOK'
    <3>1. CASE Acquire(a)
      BY <3>1 DEF Acquire
    <3>2. CASE Wait(a)
      BY <3>2 DEF Wait
    <3>3. CASE WakeSpuriously(a)
      BY <3>3 DEF WakeSpuriously
    <3> QED BY <2>7, <3>1, <3>2, <3>3
  <2>8. ASSUME NEW a \in Activities, Post(a) PROVE TypeOK'
    <3>1. [task |-> "show", of |-> a] \in Tasks
      BY DEF Tasks
    <3>2. tasks' \in Seq(Tasks)
      BY <2>8, <3>1, <2>b DEF Post
    <3> QED BY <2>8, <3>2 DEF Post
  <2>9. ASSUME NEW a \in Activities, Send(a) PROVE TypeOK'
    BY <2>9 DEF Send
  <2>10. ASSUME NEW a \in Activities, Deliver(a) PROVE TypeOK'
    <3>1. \A b \in Bodies : [task |-> "response", of |-> a, body |-> b] \in Tasks
      BY DEF Tasks
    <3>2. [task |-> "error", of |-> a] \in Tasks
      BY DEF Tasks
    <3>3. \E t \in Tasks : tasks' = Append(tasks, t)
      BY <2>10, <3>1, <3>2 DEF Deliver
    <3>5. tasks' \in Seq(Tasks)
      BY <3>3, <2>b
    <3>4. request' = [request EXCEPT ![a] = "ended"]
          /\ UNCHANGED <<orders, lock, waiter, woken, missed, main, adapter, rows>>
      BY <2>10 DEF Deliver
    <3> QED BY <3>4, <3>5
  <2> QED
    BY <2>1, <2>2, <2>3, <2>4, <2>5, <2>6, <2>7, <2>8, <2>9, <2>10, <2>11
    DEF Next, MainStep, WaiterStep, RequestStep
<1> QED BY <1>1, <1>2, PTL DEF Spec

(* The queue before and after its first task is taken. *)
LEMMA Taken ==
    ASSUME TypeOK, NEW kind, NEW a, Take(kind, a)
    PROVE  /\ 1 \in DOMAIN tasks /\ tasks[1].task = kind /\ tasks[1].of = a
           /\ \A i \in DOMAIN tasks' : i + 1 \in DOMAIN tasks /\ tasks'[i] = tasks[i + 1] /\ i + 1 # 1
           /\ \A i, j \in DOMAIN tasks' : i + 1 = j + 1 => i = j
  BY TailFacts DEF TypeOK, Take

(* The queue before and after a task is posted. *)
LEMMA Posted ==
    ASSUME TypeOK, NEW t \in Tasks, tasks' = Append(tasks, t)
    PROVE  \A i \in DOMAIN tasks' :
              \/ i \in DOMAIN tasks /\ tasks'[i] = tasks[i]
              \/ i = Len(tasks) + 1 /\ tasks'[i] = t
  BY AppendFacts DEF TypeOK

(* What the listener, the waiting thread and the list rely on holds throughout:
   an answer is handled once, and a notification comes after it. *)
THEOREM Invariance == Spec => []IInv
<1>1. Init => IInv
  BY DEF Init, IInv, TypeOK, Tasks, Idle, OneAnswer, NotifiedAfterAnswer, ShownAtTheEnd,
         ShownIsComplete, Answering, InListener
<1>2. TypeOK' /\ IInv /\ [Next]_vars => IInv'
  <2> SUFFICES ASSUME TypeOK', IInv, [Next]_vars
               PROVE  (OneAnswer /\ NotifiedAfterAnswer /\ ShownAtTheEnd /\ ShownIsComplete)'
    BY DEF IInv
  <2> USE DEF IInv
  <2>1. CASE UNCHANGED vars
    BY <2>1 DEF vars, OneAnswer, NotifiedAfterAnswer, ShownAtTheEnd, ShownIsComplete,
                Answering, InListener
  <2>2. ASSUME NEW a \in Activities, OnCreate(a)
        PROVE  (OneAnswer /\ NotifiedAfterAnswer /\ ShownAtTheEnd /\ ShownIsComplete)'
    <3>1. OneAnswer'
      BY <2>2 DEF OnCreate, TypeOK, OneAnswer, Answering, InListener
    <3>2. NotifiedAfterAnswer'
      BY <2>2 DEF OnCreate, TypeOK, OneAnswer, NotifiedAfterAnswer, Answering, InListener
    <3>3. ShownAtTheEnd'
      BY <2>2 DEF OnCreate, TypeOK, ShownAtTheEnd
    <3>4. ShownIsComplete'
      BY <2>2 DEF OnCreate, TypeOK, ShownIsComplete, ShownAtTheEnd, NotifiedAfterAnswer
    <3> QED BY <3>1, <3>2, <3>3, <3>4
  <2>3. ASSUME NEW a \in Activities, OnResponse(a)
        PROVE  (OneAnswer /\ NotifiedAfterAnswer /\ ShownAtTheEnd /\ ShownIsComplete)'
    <3>a. Take("response", a)
      BY <2>3 DEF OnResponse
    <3>b. \A i \in DOMAIN tasks' : i + 1 \in DOMAIN tasks /\ tasks'[i] = tasks[i + 1] /\ i + 1 # 1
      BY <3>a, Taken
    <3>c. 1 \in DOMAIN tasks /\ tasks[1].task = "response" /\ tasks[1].of = a
      BY <3>a, Taken
    <3>d. \A i, j \in DOMAIN tasks' : i + 1 = j + 1 => i = j
      BY <3>a, Taken
    <3>1. OneAnswer'
      BY <2>3, <3>b, <3>c, <3>d DEF OnResponse, IsAnswer, IsShow, TypeOK, OneAnswer, Answering,
             InListener
    <3>2. NotifiedAfterAnswer'
      BY <2>3, <3>b, <3>c, <3>d DEF OnResponse, IsAnswer, IsShow, TypeOK, OneAnswer,
             NotifiedAfterAnswer, Answering, InListener
    <3>3. ShownAtTheEnd'
      BY <2>3, <3>b, <3>c, <3>d DEF OnResponse, IsAnswer, IsShow, TypeOK, ShownAtTheEnd
    <3>4. ShownIsComplete'
      BY <2>3, <3>b, <3>c, <3>d DEF OnResponse, IsAnswer, IsShow, TypeOK, ShownIsComplete,
             ShownAtTheEnd, NotifiedAfterAnswer, Answering
    <3> QED BY <3>1, <3>2, <3>3, <3>4
  <2>4. ASSUME NEW a \in Activities, Notify(a)
        PROVE  (OneAnswer /\ NotifiedAfterAnswer /\ ShownAtTheEnd /\ ShownIsComplete)'
    <3>a. \A b \in Activities : ~InListener(b)'
      BY <2>4 DEF Notify, Idle, InListener
    <3>b. UNCHANGED <<tasks, request>> /\ \A b \in Activities : waiter'[b] = "none" <=> waiter[b] = "none"
      BY <2>4 DEF Notify, TypeOK
    <3>1. OneAnswer'
      <4>1. \A b \in Activities : missed'[b] # "no" => b = a \/ missed[b] # "no"
        BY <2>4 DEF Notify, TypeOK
      <4>2. InListener(a)
        BY <2>4 DEF Notify, InListener
      <4> QED BY <3>a, <3>b, <4>1, <4>2 DEF OneAnswer, Answering, InListener
    <3>2. NotifiedAfterAnswer'
      BY <2>4 DEF Notify, Idle, TypeOK, OneAnswer, NotifiedAfterAnswer, Answering, InListener
    <3>3. ShownAtTheEnd'
      BY <2>4 DEF Notify, Idle, TypeOK, ShownAtTheEnd
    <3>4. ShownIsComplete'
      BY <2>4 DEF Notify, Idle, TypeOK, ShownIsComplete, ShownAtTheEnd, NotifiedAfterAnswer
    <3> QED BY <3>1, <3>2, <3>3, <3>4
  <2>5. ASSUME NEW a \in Activities, OnErrorResponse(a)
        PROVE  (OneAnswer /\ NotifiedAfterAnswer /\ ShownAtTheEnd /\ ShownIsComplete)'
    <3>a. Take("error", a)
      BY <2>5 DEF OnErrorResponse
    <3>b. \A i \in DOMAIN tasks' : i + 1 \in DOMAIN tasks /\ tasks'[i] = tasks[i + 1] /\ i + 1 # 1
      BY <3>a, Taken
    <3>c. 1 \in DOMAIN tasks /\ tasks[1].task = "error" /\ tasks[1].of = a
      BY <3>a, Taken
    <3>d. \A i, j \in DOMAIN tasks' : i + 1 = j + 1 => i = j
      BY <3>a, Taken
    <3>1. OneAnswer'
      BY <2>5, <3>b, <3>c, <3>d DEF OnErrorResponse, IsAnswer, IsShow, TypeOK, OneAnswer, Answering,
             InListener
    <3>2. NotifiedAfterAnswer'
      BY <2>5, <3>b, <3>c, <3>d DEF OnErrorResponse, IsAnswer, IsShow, TypeOK, OneAnswer,
             NotifiedAfterAnswer, Answering, InListener
    <3>3. ShownAtTheEnd'
      BY <2>5, <3>b, <3>d DEF OnErrorResponse, IsAnswer, IsShow, TypeOK, ShownAtTheEnd
    <3>4. ShownIsComplete'
      BY <2>5, <3>b, <3>d DEF OnErrorResponse, IsAnswer, IsShow, TypeOK, ShownIsComplete,
             ShownAtTheEnd, NotifiedAfterAnswer
    <3> QED BY <3>1, <3>2, <3>3, <3>4
  <2>6. ASSUME NEW a \in Activities, Show(a)
        PROVE  (OneAnswer /\ NotifiedAfterAnswer /\ ShownAtTheEnd /\ ShownIsComplete)'
    <3>a. Take("show", a)
      BY <2>6 DEF Show
    <3>b. \A i \in DOMAIN tasks' : i + 1 \in DOMAIN tasks /\ tasks'[i] = tasks[i + 1] /\ i + 1 # 1
      BY <3>a, Taken
    <3>c. 1 \in DOMAIN tasks /\ tasks[1].task = "show" /\ tasks[1].of = a
      BY <3>a, Taken
    <3>d. \A i, j \in DOMAIN tasks' : i + 1 = j + 1 => i = j
      BY <3>a, Taken
    <3>1. OneAnswer'
      BY <2>6, <3>b, <3>c, <3>d DEF Show, IsAnswer, IsShow, TypeOK, OneAnswer, Answering,
             InListener
    <3>2. NotifiedAfterAnswer'
      BY <2>6, <3>b, <3>c, <3>d DEF Show, IsAnswer, IsShow, TypeOK, OneAnswer,
             NotifiedAfterAnswer, Answering, InListener
    <3>3. ShownAtTheEnd'
      BY <2>6, <3>b, <3>c, <3>d DEF Show, IsAnswer, IsShow, TypeOK, ShownAtTheEnd
    <3>4. ShownIsComplete'
      BY <2>6, <3>b, <3>c, <3>d DEF Show, IsAnswer, IsShow, TypeOK, ShownIsComplete,
             ShownAtTheEnd, NotifiedAfterAnswer
    <3> QED BY <3>1, <3>2, <3>3, <3>4
  <2>7. ASSUME NEW a \in Activities, Layout(a)
        PROVE  (OneAnswer /\ NotifiedAfterAnswer /\ ShownAtTheEnd /\ ShownIsComplete)'
    <3>1. OneAnswer'
      BY <2>7 DEF Layout, TypeOK, OneAnswer, Answering, InListener
    <3>2. NotifiedAfterAnswer'
      BY <2>7 DEF Layout, TypeOK, OneAnswer, NotifiedAfterAnswer, Answering, InListener
    <3>3. ShownAtTheEnd'
      BY <2>7 DEF Layout, TypeOK, ShownAtTheEnd
    <3>4. ShownIsComplete'
      BY <2>7 DEF Layout, TypeOK, ShownIsComplete, ShownAtTheEnd, NotifiedAfterAnswer
    <3> QED BY <3>1, <3>2, <3>3, <3>4
  <2>8. ASSUME NEW a \in Activities, Acquire(a)
        PROVE  (OneAnswer /\ NotifiedAfterAnswer /\ ShownAtTheEnd /\ ShownIsComplete)'
    <3>1. OneAnswer'
      BY <2>8 DEF Acquire, TypeOK, OneAnswer, Answering, InListener
    <3>2. NotifiedAfterAnswer'
      BY <2>8 DEF Acquire, TypeOK, OneAnswer, NotifiedAfterAnswer, Answering, InListener
    <3>3. ShownAtTheEnd'
      BY <2>8 DEF Acquire, TypeOK, ShownAtTheEnd
    <3>4. ShownIsComplete'
      BY <2>8 DEF Acquire, TypeOK, ShownIsComplete, ShownAtTheEnd, NotifiedAfterAnswer
    <3> QED BY <3>1, <3>2, <3>3, <3>4
  <2>9. ASSUME NEW a \in Activities, Wait(a)
        PROVE  (OneAnswer /\ NotifiedAfterAnswer /\ ShownAtTheEnd /\ ShownIsComplete)'
    <3>1. OneAnswer'
      BY <2>9 DEF Wait, TypeOK, OneAnswer, Answering, InListener
    <3>2. NotifiedAfterAnswer'
      BY <2>9 DEF Wait, TypeOK, OneAnswer, NotifiedAfterAnswer, Answering, InListener
    <3>3. ShownAtTheEnd'
      BY <2>9 DEF Wait, TypeOK, ShownAtTheEnd
    <3>4. ShownIsComplete'
      BY <2>9 DEF Wait, TypeOK, ShownIsComplete, ShownAtTheEnd, NotifiedAfterAnswer
    <3> QED BY <3>1, <3>2, <3>3, <3>4
  <2>10. ASSUME NEW a \in Activities, WakeSpuriously(a)
        PROVE  (OneAnswer /\ NotifiedAfterAnswer /\ ShownAtTheEnd /\ ShownIsComplete)'
    <3>1. OneAnswer'
      BY <2>10 DEF WakeSpuriously, TypeOK, OneAnswer, Answering, InListener
    <3>2. NotifiedAfterAnswer'
      BY <2>10 DEF WakeSpuriously, TypeOK, OneAnswer, NotifiedAfterAnswer, Answering, InListener
    <3>3. ShownAtTheEnd'
      BY <2>10 DEF WakeSpuriously, TypeOK, ShownAtTheEnd
    <3>4. ShownIsComplete'
      BY <2>10 DEF WakeSpuriously, TypeOK, ShownIsComplete, ShownAtTheEnd, NotifiedAfterAnswer
    <3> QED BY <3>1, <3>2, <3>3, <3>4
  <2>11. ASSUME NEW a \in Activities, Post(a)
        PROVE  (OneAnswer /\ NotifiedAfterAnswer /\ ShownAtTheEnd /\ ShownIsComplete)'
    <3>a. [task |-> "show", of |-> a] \in Tasks
      BY DEF Tasks
    <3>b. \A i \in DOMAIN tasks' :
             \/ i \in DOMAIN tasks /\ tasks'[i] = tasks[i]
             \/ tasks'[i] = [task |-> "show", of |-> a]
      BY <2>11, <3>a, Posted DEF Post
    <3>1. OneAnswer'
      BY <2>11, <3>b DEF Post, IsAnswer, IsShow, TypeOK, OneAnswer, Answering, InListener
    <3>2. NotifiedAfterAnswer'
      BY <2>11, <3>b DEF Post, IsAnswer, IsShow, TypeOK, OneAnswer, NotifiedAfterAnswer,
             Answering, InListener
    <3>3. ShownAtTheEnd'
      BY <2>11, <3>b DEF Post, IsAnswer, IsShow, TypeOK, ShownAtTheEnd
    <3>4. ShownIsComplete'
      BY <2>11, <3>b DEF Post, IsAnswer, IsShow, TypeOK, ShownIsComplete, ShownAtTheEnd,
             NotifiedAfterAnswer
    <3> QED BY <3>1, <3>2, <3>3, <3>4
  <2>12. ASSUME NEW a \in Activities, Send(a)
        PROVE  (OneAnswer /\ NotifiedAfterAnswer /\ ShownAtTheEnd /\ ShownIsComplete)'
    <3>1. OneAnswer'
      BY <2>12 DEF Send, TypeOK, OneAnswer, Answering, InListener
    <3>2. NotifiedAfterAnswer'
      BY <2>12 DEF Send, TypeOK, OneAnswer, NotifiedAfterAnswer, Answering, InListener
    <3>3. ShownAtTheEnd'
      BY <2>12 DEF Send, TypeOK, ShownAtTheEnd
    <3>4. ShownIsComplete'
      BY <2>12 DEF Send, TypeOK, ShownIsComplete, ShownAtTheEnd, NotifiedAfterAnswer
    <3> QED BY <3>1, <3>2, <3>3, <3>4
  <2>13. ASSUME NEW a \in Activities, Deliver(a)
        PROVE  (OneAnswer /\ NotifiedAfterAnswer /\ ShownAtTheEnd /\ ShownIsComplete)'
    <3>a. PICK t \in Tasks : t.of = a /\ t.task # "show" /\ tasks' = Append(tasks, t)
      BY <2>13 DEF Deliver, Tasks
    <3>b. \A i \in DOMAIN tasks' :
             \/ i \in DOMAIN tasks /\ tasks'[i] = tasks[i]
             \/ i = Len(tasks) + 1 /\ tasks'[i] = t
      BY <3>a, Posted
    <3>1. OneAnswer'
      BY <2>13, <3>a, <3>b DEF Deliver, IsAnswer, IsShow, TypeOK, OneAnswer, Answering,
             InListener
    <3>2. NotifiedAfterAnswer'
      BY <2>13, <3>a, <3>b DEF Deliver, IsAnswer, IsShow, TypeOK, OneAnswer,
             NotifiedAfterAnswer, Answering, InListener
    <3>3. ShownAtTheEnd'
      BY <2>13, <3>a, <3>b DEF Deliver, IsAnswer, IsShow, TypeOK, ShownAtTheEnd
    <3>4. ShownIsComplete'
      BY <2>13, <3>a, <3>b DEF Deliver, IsAnswer, IsShow, TypeOK, ShownIsComplete,
             ShownAtTheEnd, NotifiedAfterAnswer
    <3> QED BY <3>1, <3>2, <3>3, <3>4
  <2> QED
    BY <2>1, <2>2, <2>3, <2>4, <2>5, <2>6, <2>7, <2>8, <2>9, <2>10, <2>11, <2>12, <2>13
    DEF Next, MainStep, WaiterStep, RequestStep
<1>3. Spec => []TypeOK
  BY TypeCorrect
<1> QED BY <1>1, <1>2, <1>3, PTL DEF Spec

(* NothingIsLost, of one activity. *)
NotLost(a) ==
    missed[a] = "no" =>
        /\ waiter[a] \in {"started", "inside", "waiting"} =>
              \/ request[a] # "ended"
              \/ OnItsWay({"response", "error"}, a)
              \/ main = [at |-> "notify", of |-> a]
        /\ waiter[a] = "ended" => adapter[a] \/ OnItsWay({"show"}, a)

(* A task stays in the queue until it is taken, wherever others are posted. *)
LEMMA StaysQueued ==
    ASSUME TypeOK, NEW kinds, NEW a \in Activities, OnItsWay(kinds, a),
           \/ tasks' = tasks
           \/ \E t \in Tasks : tasks' = Append(tasks, t)
           \/ /\ tasks # <<>> /\ tasks' = Tail(tasks)
              /\ Head(tasks).task \notin kinds \/ Head(tasks).of # a
    PROVE  OnItsWay(kinds, a)'
<1>0. tasks \in Seq(Tasks)
  BY DEF TypeOK
<1>1. CASE tasks' = tasks
  BY <1>1 DEF OnItsWay
<1>2. ASSUME NEW t \in Tasks, tasks' = Append(tasks, t) PROVE OnItsWay(kinds, a)'
  <2>1. \A i \in DOMAIN tasks : i \in DOMAIN tasks' /\ tasks'[i] = tasks[i]
    BY <1>0, <1>2
  <2> QED BY <2>1 DEF OnItsWay
<1>3. CASE /\ tasks # <<>> /\ tasks' = Tail(tasks)
           /\ Head(tasks).task \notin kinds \/ Head(tasks).of # a
  <2>1. PICK i \in DOMAIN tasks : tasks[i].task \in kinds /\ tasks[i].of = a
    BY DEF OnItsWay
  <2>2. Head(tasks) = tasks[1] /\ i \in 1..Len(tasks) /\ Len(tasks) \in Nat
    BY <1>0, <1>3
  <2>3. i # 1
    BY <1>3, <2>1, <2>2
  <2>4. i - 1 \in DOMAIN tasks' /\ tasks'[i - 1] = tasks[i]
    BY <1>0, <1>3, <2>2, <2>3
  <2> QED BY <2>1, <2>4 DEF OnItsWay
<1> QED BY <1>1, <1>2, <1>3

(* No wake-up gets lost but the ones that are counted as missed, for any number of
   activities and orders. *)
THEOREM NoWakeUpIsLost == Spec => []NothingIsLost
<1>1. Init => NothingIsLost
  BY DEF Init, NothingIsLost
<1>2. TypeOK /\ NothingIsLost /\ [Next]_vars => NothingIsLost'
  <2> SUFFICES ASSUME TypeOK, NothingIsLost, [Next]_vars, NEW b \in Activities
               PROVE  NotLost(b)'
    BY DEF NothingIsLost, NotLost
  <2> DEFINE answer == {"response", "error"}
  <2>0. NotLost(b)
    BY DEF NothingIsLost, NotLost
  (* A step that leaves the activity where it is, and its tasks in the queue. *)
  <2>a. ASSUME waiter'[b] = waiter[b], request'[b] = request[b], missed'[b] = missed[b],
               adapter[b] => adapter'[b],
               main = [at |-> "notify", of |-> b] => UNCHANGED main,
               OnItsWay(answer, b) => OnItsWay(answer, b)',
               OnItsWay({"show"}, b) => OnItsWay({"show"}, b)'
        PROVE  NotLost(b)'
    BY <2>0, <2>a DEF NotLost
  <2>b. \A kinds : tasks' = tasks \/ (\E t \in Tasks : tasks' = Append(tasks, t)) =>
                     (OnItsWay(kinds, b) => OnItsWay(kinds, b)')
    BY StaysQueued
  <2> HIDE DEF answer
  <2>1. CASE UNCHANGED vars
    BY <2>1, <2>a, <2>b DEF vars
  <2>2. ASSUME NEW a \in Activities, OnCreate(a) PROVE NotLost(b)'
    <3>1. CASE a = b
      BY <2>2, <3>1 DEF OnCreate, TypeOK, NotLost
    <3>2. CASE a # b
      BY <2>2, <2>a, <2>b, <3>2 DEF OnCreate, TypeOK
    <3> QED BY <3>1, <3>2
  <2>3. ASSUME NEW a \in Activities, NEW kind, Take(kind, a),
               kind \in {"response", "error", "show"}
        PROVE  /\ main = Idle /\ main # [at |-> "notify", of |-> b]
               /\ a # b \/ kind = "show" => (OnItsWay(answer, b) => OnItsWay(answer, b)')
               /\ a # b \/ kind # "show" => (OnItsWay({"show"}, b) => OnItsWay({"show"}, b)')
    BY <2>3, StaysQueued DEF Take, Idle, answer
  <2>4. ASSUME NEW a \in Activities, OnResponse(a) PROVE NotLost(b)'
    <3>1. UNCHANGED <<waiter, request, missed, adapter>> /\ main' = [at |-> "notify", of |-> a]
      BY <2>4 DEF OnResponse
    <3>2. Take("response", a)
      BY <2>4 DEF OnResponse
    <3>3. CASE a = b
      <4>1. OnItsWay({"show"}, b) => OnItsWay({"show"}, b)'
        BY <2>3, <3>2
      <4> QED BY <2>0, <3>1, <3>3, <4>1 DEF NotLost
    <3>4. CASE a # b
      BY <2>3, <2>a, <3>1, <3>2, <3>4
    <3> QED BY <3>3, <3>4
  <2>5. ASSUME NEW a \in Activities, Notify(a) PROVE NotLost(b)'
    <3>1. UNCHANGED <<request, tasks, adapter>> /\ main = [at |-> "notify", of |-> a]
      BY <2>5 DEF Notify
    <3>2. CASE a = b
      <4>1. waiter'[b] = "notified" \/ missed'[b] = "early"
        BY <2>5, <3>2 DEF Notify, TypeOK
      <4> QED BY <4>1 DEF NotLost
    <3>3. CASE a # b
      <4>1. waiter'[b] = waiter[b] /\ missed'[b] = missed[b]
        BY <2>5, <3>3 DEF Notify, TypeOK
      <4>2. main # [at |-> "notify", of |-> b]
        BY <3>1, <3>3
      <4> QED BY <2>a, <2>b, <3>1, <4>1, <4>2
    <3> QED BY <3>2, <3>3
  <2>6. ASSUME NEW a \in Activities, OnErrorResponse(a) PROVE NotLost(b)'
    <3>1. Take("error", a) /\ UNCHANGED <<waiter, request, adapter, main>>
      BY <2>6 DEF OnErrorResponse
    <3>2. CASE a = b
      <4>1. missed'[b] = "error"
        BY <2>6, <3>2 DEF OnErrorResponse, TypeOK
      <4> QED BY <4>1 DEF NotLost
    <3>3. CASE a # b
      <4>1. missed'[b] = missed[b]
        BY <2>6, <3>3 DEF OnErrorResponse, TypeOK
      <4> QED BY <2>3, <2>a, <3>1, <3>3, <4>1
    <3> QED BY <3>2, <3>3
  <2>7. ASSUME NEW a \in Activities, Show(a) PROVE NotLost(b)'
    <3>1. Take("show", a) /\ UNCHANGED <<waiter, request, missed, main>>
      BY <2>7 DEF Show
    <3>2. adapter'[b] = (a = b \/ adapter[b])
      BY <2>7 DEF Show, TypeOK
    <3>3. CASE a = b
      <4>1. OnItsWay(answer, b) => OnItsWay(answer, b)'
        BY <2>3, <3>1
      <4> QED BY <2>0, <3>1, <3>2, <3>3, <4>1 DEF NotLost, answer
    <3>4. CASE a # b
      BY <2>3, <2>a, <3>1, <3>2, <3>4
    <3> QED BY <3>3, <3>4
  <2>8. ASSUME NEW a \in Activities, Layout(a) PROVE NotLost(b)'
    BY <2>8, <2>a, <2>b DEF Layout
  <2>9. ASSUME NEW a \in Activities, Acquire(a) \/ Wait(a) PROVE NotLost(b)'
    <3>1. UNCHANGED <<missed, request, tasks, main, adapter>>
      BY <2>9 DEF Acquire, Wait
    <3>2. CASE a = b
      <4>1. waiter[b] \in {"started", "inside"} /\ waiter'[b] \in {"inside", "waiting"}
        BY <2>9, <3>2 DEF Acquire, Wait, TypeOK
      <4>2. OnItsWay(answer, b) => OnItsWay(answer, b)'
        BY <2>b, <3>1
      <4> QED BY <2>0, <3>1, <4>1, <4>2 DEF NotLost, answer
    <3>3. CASE a # b
      <4>1. waiter'[b] = waiter[b]
        BY <2>9, <3>3 DEF Acquire, Wait, TypeOK
      <4> QED BY <2>a, <2>b, <3>1, <4>1
    <3> QED BY <3>2, <3>3
  <2>10. ASSUME NEW a \in Activities, WakeSpuriously(a) PROVE NotLost(b)'
    <3>1. UNCHANGED <<missed, request, tasks, main, adapter>>
      BY <2>10 DEF WakeSpuriously
    <3>2. waiter'[b] = IF a = b THEN "notified" ELSE waiter[b]
      BY <2>10 DEF WakeSpuriously, TypeOK
    <3>3. CASE a = b
      BY <3>2, <3>3 DEF NotLost
    <3>4. CASE a # b
      BY <2>a, <2>b, <3>1, <3>2, <3>4
    <3> QED BY <3>3, <3>4
  <2>11. ASSUME NEW a \in Activities, Post(a) PROVE NotLost(b)'
    <3> DEFINE t == [task |-> "show", of |-> a]
    <3>1. UNCHANGED <<missed, request, main, adapter>> /\ t \in Tasks /\ tasks' = Append(tasks, t)
      BY <2>11 DEF Post, Tasks
    <3>2. waiter'[b] = IF a = b THEN "ended" ELSE waiter[b]
      BY <2>11 DEF Post, TypeOK
    <3>3. CASE a = b
      <4>1. Len(tasks) + 1 \in DOMAIN tasks' /\ tasks'[Len(tasks) + 1] = t
        BY <3>1 DEF TypeOK
      <4>2. OnItsWay({"show"}, b)'
        BY <3>3, <4>1 DEF OnItsWay
      <4> QED BY <3>2, <3>3, <4>2 DEF NotLost
    <3>4. CASE a # b
      BY <2>a, <2>b, <3>1, <3>2, <3>4
    <3> QED BY <3>3, <3>4
  <2>12. ASSUME NEW a \in Activities, Send(a) PROVE NotLost(b)'
    <3>1. UNCHANGED <<waiter, missed, tasks, main, adapter>>
      BY <2>12 DEF Send
    <3>2. request'[b] = IF a = b THEN "sent" ELSE request[b]
      BY <2>12 DEF Send, TypeOK
    <3>3. OnItsWay({"show"}, b) => OnItsWay({"show"}, b)'
      BY <2>b, <3>1
    <3>4. CASE a = b
      BY <2>0, <3>1, <3>2, <3>3, <3>4 DEF NotLost
    <3>5. CASE a # b
      BY <2>a, <2>b, <3>1, <3>2, <3>5
    <3> QED BY <3>4, <3>5
  <2>13. ASSUME NEW a \in Activities, Deliver(a) PROVE NotLost(b)'
    <3>1. PICK t \in Tasks : t.of = a /\ t.task \in {"response", "error"} /\ tasks' = Append(tasks, t)
      BY <2>13 DEF Deliver, Tasks
    <3>2. UNCHANGED <<waiter, missed, main, adapter>>
      BY <2>13 DEF Deliver
    <3>3. request'[b] = IF a = b THEN "ended" ELSE request[b]
      BY <2>13 DEF Deliver, TypeOK
    <3>4. CASE a = b
      <4>1. Len(tasks) + 1 \in DOMAIN tasks' /\ tasks'[Len(tasks) + 1] = t
        BY <3>1 DEF TypeOK
      <4>2. OnItsWay({"response", "error"}, b)'
        BY <3>1, <3>4, <4>1 DEF OnItsWay
      <4>3. OnItsWay({"show"}, b) => OnItsWay({"show"}, b)'
        BY <2>b, <3>1
      <4> QED BY <2>0, <3>2, <4>2, <4>3 DEF NotLost
    <3>5. CASE a # b
      BY <2>a, <2>b, <3>1, <3>2, <3>3, <3>5
    <3> QED BY <3>4, <3>5
  <2> QED
    BY <2>1, <2>2, <2>4, <2>5, <2>6, <2>7, <2>8, <2>9, <2>10, <2>11, <2>12, <2>13
    DEF Next, MainStep, WaiterStep, RequestStep
<1> QED BY <1>1, <1>2, TypeCorrect, PTL DEF Spec

(* Every list on the screen is complete, for any number of activities. *)
THEOREM CompleteLists == Spec => []ShownIsComplete
<1>1. IInv => ShownIsComplete
  BY DEF IInv
<1> QED BY <1>1, Invariance, PTL

(* A screen whose notification was missed stays empty unless its wait ends by
   itself: a list is only shown by a thread that was woken. *)
THEOREM MissedLists == Spec => []MissedStaysEmpty
<1>1. IInv => MissedStaysEmpty
  BY DEF IInv, MissedStaysEmpty, ShownAtTheEnd, NotifiedAfterAnswer
<1> QED BY <1>1, Invariance, PTL

=============================================================================
