----------------------------- MODULE OrderFeed -----------------------------
(* The Android client (ANDROID/.../MainActivity.java): an activity starts two
   threads, one that waits on ordersLock and then has the main thread show the
   list, one that requests the orders; the response listener, on the main
   thread, adds the orders and notifies the lock. The main thread takes its
   tasks one at a time, in the order in which they were posted. An activity
   that is created again (a rotation) is another instance with a lock, a list
   and two threads of its own, on the same main thread. *)
EXTENDS Naturals, Sequences, FiniteSets

CONSTANTS
    Activities,   \* instances of MainActivity
    Keys,         \* keys of the JSON object that the server answers
    Placeholder   \* the order that onCreate puts in the list

ASSUME FeedAssumption == Placeholder \notin Keys

VARIABLES
    orders,    \* MainActivity.orders, the adapter's list too
    lock,      \* who holds ordersLock
    waiter,    \* where the thread that waits is
    woken,     \* history: what ended its wait
    missed,    \* history: why no notification can come to it any more
    request,   \* how far the request is
    tasks,     \* the main thread's queue
    main,      \* what the main thread is inside of
    adapter,   \* whether the list view has its adapter
    rows       \* what the list view shows

vars == <<orders, lock, waiter, woken, missed, request, tasks, main, adapter, rows>>

(* What is read out of an answer: the keys of an object, or nothing at all. *)
Bodies == {body \in [json: BOOLEAN, keys: SUBSET Keys] : body.json \/ body.keys = {}}

Idle == [at |-> "idle"]
Tasks == [task: {"response"}, of: Activities, body: Bodies]
           \cup [task: {"error", "show"}, of: Activities]

TypeOK ==
    /\ orders \in [Activities -> SUBSET (Keys \cup {Placeholder})]
    /\ lock = [a \in Activities |-> IF waiter[a] = "inside" THEN "waiter" ELSE "free"]
    /\ waiter \in [Activities ->
                     {"none", "started", "inside", "waiting", "notified", "ended"}]
    /\ woken \in [Activities -> {"no", "notify", "spurious"}]
    /\ missed \in [Activities -> {"no", "early", "error"}]
    /\ request \in [Activities -> {"none", "started", "sent", "ended"}]
    /\ tasks \in Seq(Tasks)
    /\ main \in {Idle} \cup [at: {"notify"}, of: Activities]
    /\ adapter \in [Activities -> BOOLEAN]
    /\ rows \in [Activities -> SUBSET (Keys \cup {Placeholder})]

Init ==
    /\ orders = [a \in Activities |-> {}]
    /\ lock = [a \in Activities |-> "free"]
    /\ waiter = [a \in Activities |-> "none"]
    /\ woken = [a \in Activities |-> "no"]
    /\ missed = [a \in Activities |-> "no"]
    /\ request = [a \in Activities |-> "none"]
    /\ tasks = <<>>
    /\ main = Idle
    /\ adapter = [a \in Activities |-> FALSE]
    /\ rows = [a \in Activities |-> {}]

(***************************************************************************)
(* The main thread                                                         *)
(***************************************************************************)

\* onCreate runs to its end before any other task of the main thread.
OnCreate(a) ==
    /\ main = Idle
    /\ waiter[a] = "none"
    /\ orders' = [orders EXCEPT ![a] = {Placeholder}]
    /\ waiter' = [waiter EXCEPT ![a] = "started"]
    /\ request' = [request EXCEPT ![a] = "started"]
    /\ UNCHANGED <<lock, woken, missed, tasks, main, adapter, rows>>

Take(kind, a) ==
    /\ main = Idle
    /\ tasks # <<>>
    /\ Head(tasks).task = kind
    /\ Head(tasks).of = a
    /\ tasks' = Tail(tasks)

\* Slip: the notification at the end of the try block, not after it.
OnResponseNotifyingInTry(a) ==
    /\ Take("response", a)
    /\ orders' = [orders EXCEPT ![a] = @ \cup Head(tasks).body.keys]
    /\ main' = IF Head(tasks).body.json THEN [at |-> "notify", of |-> a] ELSE Idle
    /\ UNCHANGED <<lock, waiter, woken, missed, request, adapter, rows>>

\* The listener up to its lock: a body that is no JSON object adds nothing.
OnResponse(a) ==
    /\ Take("response", a)
    /\ orders' = [orders EXCEPT ![a] = @ \cup Head(tasks).body.keys]
    /\ main' = [at |-> "notify", of |-> a]
    /\ UNCHANGED <<lock, waiter, woken, missed, request, adapter, rows>>

\* The listener's synchronized block: a notification nobody waits for is lost.
Notify(a) ==
    /\ main = [at |-> "notify", of |-> a]
    /\ lock[a] = "free"
    /\ IF waiter[a] = "waiting"
       THEN /\ waiter' = [waiter EXCEPT ![a] = "notified"]
            /\ woken' = [woken EXCEPT ![a] = "notify"]
            /\ UNCHANGED missed
       ELSE /\ missed' = [missed EXCEPT ![a] = "early"]
            /\ UNCHANGED <<waiter, woken>>
    /\ main' = Idle
    /\ UNCHANGED <<orders, lock, request, tasks, adapter, rows>>

\* The error listener logs and does nothing else.
OnErrorResponse(a) ==
    /\ Take("error", a)
    /\ missed' = [missed EXCEPT ![a] = "error"]
    /\ UNCHANGED <<orders, lock, waiter, woken, request, main, adapter, rows>>

\* The task that the waiter posts: the adapter holds the list itself.
Show(a) ==
    /\ Take("show", a)
    /\ adapter' = [adapter EXCEPT ![a] = TRUE]
    /\ UNCHANGED <<orders, lock, waiter, woken, missed, request, main, rows>>

\* The list view lays its rows out once, on a later frame: nothing tells the
\* adapter of orders that are added after that.
Layout(a) ==
    /\ main = Idle
    /\ adapter[a]
    /\ rows[a] = {}
    /\ rows' = [rows EXCEPT ![a] = orders[a]]
    /\ UNCHANGED <<orders, lock, waiter, woken, missed, request, tasks, main, adapter>>

(***************************************************************************)
(* The thread that waits                                                   *)
(***************************************************************************)

Acquire(a) ==
    /\ waiter[a] = "started"
    /\ lock[a] = "free"
    /\ lock' = [lock EXCEPT ![a] = "waiter"]
    /\ waiter' = [waiter EXCEPT ![a] = "inside"]
    /\ UNCHANGED <<orders, woken, missed, request, tasks, main, adapter, rows>>

\* Slip: the thread sleeps inside the block, with its lock.
WaitHoldingLock(a) ==
    /\ waiter[a] = "inside"
    /\ waiter' = [waiter EXCEPT ![a] = "waiting"]
    /\ UNCHANGED <<orders, lock, woken, missed, request, tasks, main, adapter, rows>>

\* Slip: no wait at all.
WaitNot(a) ==
    /\ waiter[a] = "inside"
    /\ lock' = [lock EXCEPT ![a] = "free"]
    /\ waiter' = [waiter EXCEPT ![a] = "notified"]
    /\ UNCHANGED <<orders, woken, missed, request, tasks, main, adapter, rows>>

\* wait() gives the lock up.
Wait(a) ==
    /\ waiter[a] = "inside"
    /\ lock' = [lock EXCEPT ![a] = "free"]
    /\ waiter' = [waiter EXCEPT ![a] = "waiting"]
    /\ UNCHANGED <<orders, woken, missed, request, tasks, main, adapter, rows>>

\* wait() may return without a notification: the code does not test for it.
WakeSpuriously(a) ==
    /\ waiter[a] = "waiting"
    /\ waiter' = [waiter EXCEPT ![a] = "notified"]
    /\ woken' = [woken EXCEPT ![a] = "spurious"]
    /\ UNCHANGED <<orders, lock, missed, request, tasks, main, adapter, rows>>

\* wait() returns with the lock; the thread posts and leaves the block. It
\* needs nobody from there on, so both are one step.
Post(a) ==
    /\ waiter[a] = "notified"
    /\ lock[a] = "free"
    /\ tasks' = Append(tasks, [task |-> "show", of |-> a])
    /\ waiter' = [waiter EXCEPT ![a] = "ended"]
    /\ UNCHANGED <<orders, lock, woken, missed, request, main, adapter, rows>>

(***************************************************************************)
(* The thread that requests, and Volley                                    *)
(***************************************************************************)

Send(a) ==
    /\ request[a] = "started"
    /\ request' = [request EXCEPT ![a] = "sent"]
    /\ UNCHANGED <<orders, lock, waiter, woken, missed, tasks, main, adapter, rows>>

\* Volley posts the answer, or the failure, to the main thread.
Deliver(a) ==
    /\ request[a] = "sent"
    /\ request' = [request EXCEPT ![a] = "ended"]
    /\ \/ \E body \in Bodies :
            tasks' = Append(tasks, [task |-> "response", of |-> a, body |-> body])
       \/ tasks' = Append(tasks, [task |-> "error", of |-> a])
    /\ UNCHANGED <<orders, lock, waiter, woken, missed, main, adapter, rows>>

-----------------------------------------------------------------------------

MainStep(a) == OnResponse(a) \/ Notify(a) \/ OnErrorResponse(a) \/ Show(a) \/ Layout(a)
WaiterStep(a) == Acquire(a) \/ Wait(a) \/ Post(a)
RequestStep(a) == Send(a) \/ Deliver(a)

Next ==
    \E a \in Activities :
        OnCreate(a) \/ MainStep(a) \/ WaiterStep(a) \/ WakeSpuriously(a) \/ RequestStep(a)

(* The threads are scheduled, the main thread takes its tasks and a request
   ends in an answer or an error (Volley has a timeout). No activity has to be
   created, and no wait has to end without a notification. *)
Fairness ==
    /\ WF_vars(\E a \in Activities : MainStep(a))
    /\ \A a \in Activities : WF_vars(Layout(a)) /\ WF_vars(WaiterStep(a)) /\ WF_vars(RequestStep(a))

Spec == Init /\ [][Next]_vars /\ Fairness

-----------------------------------------------------------------------------

(* A list on the screen holds every order that was received, whichever way the
   threads ran, unless the wait ended without a notification: the list is then
   shown before its orders came, and nothing shows them later. *)
ShownIsComplete ==
    \A a \in Activities :
        rows[a] # {} /\ woken[a] # "spurious" => rows[a] = orders[a] /\ request[a] = "ended"

(* A request that fails (its listener only logs, MainActivity.java:425), or a
   notification that comes before the thread waits, is never made up for: the
   screen of that activity stays empty, unless its wait ends by itself. *)
MissedStaysEmpty ==
    \A a \in Activities : missed[a] # "no" /\ rows[a] # {} => woken[a] = "spurious"

OnItsWay(kinds, a) == \E i \in DOMAIN tasks : tasks[i].task \in kinds /\ tasks[i].of = a

(* No wake-up is lost unnoticed: as long as none was missed, the answer is still to
   come to the thread that waits or is about to, in its request, in the queue or in
   the listener; and the list of a thread that has ended is shown or about to be. *)
NothingIsLost ==
    \A a \in Activities :
        missed[a] = "no" =>
            /\ waiter[a] \in {"started", "inside", "waiting"} =>
                  \/ request[a] # "ended"
                  \/ OnItsWay({"response", "error"}, a)
                  \/ main = [at |-> "notify", of |-> a]
            /\ waiter[a] = "ended" => adapter[a] \/ OnItsWay({"show"}, a)

(* These two are all that can keep a screen empty. Every other activity comes to
   show its list, whatever the answer's body is and whatever another activity's
   threads do on the same main thread. *)
EmptyOnlyIfMissed ==
    \A a \in Activities : (waiter[a] = "started") ~> (rows[a] # {} \/ missed[a] # "no")

(* The main thread, which enters the lock in its listener, always comes back to
   its queue: the thread that waits never keeps the lock for good. *)
UiThreadReturns == (main # Idle) ~> (main = Idle)

=============================================================================
