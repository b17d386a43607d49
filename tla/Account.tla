------------------------------ MODULE Account ------------------------------
(* Signing up, in and out in the iOS client (ViewController.swift,
   SignUpViewController.swift, ProfileViewController.swift), on several devices
   that share Firebase Auth and Firestore. A screen starts an asynchronous call
   and goes on taking the user's taps; the call's completion runs later and
   finds the screen as it is then. *)
EXTENDS Naturals, FiniteSets

CONSTANTS
    Devices, Emails,
    Slots,     \* bound: calls in flight at a time, over all devices
    Nobody     \* no user

ASSUME AccountAssumption == Nobody \notin Emails

VARIABLES
    accounts,   \* Firebase Auth: the emails that have an account
    docs,       \* Firestore: the documents of both collections
    session,    \* per device: Auth's currentUser, kept over restarts
    unsent,     \* per device: Firestore's writes not at the server yet, kept too
    screen,     \* per device: the screen on top
    menuOf,     \* history, per device: for whom the menu on top was presented
    modal,      \* per device: the log-in screen in use is one a log-out presented
    segment,    \* per device: userTypeControl of the sign-up screen, customers at first
    job,        \* the calls in flight
    crossed,    \* history, per device: the last press came while a call was out, and
                \* its menu is up or a call still out
    abandoned   \* history: emails whose sign-up never ran its completion

vars == <<accounts, docs, session, unsent, screen, modal, menuOf, segment, job, crossed, abandoned>>

Roles == {"customers", "volunteers"}
Menu == [customers |-> "customer", volunteers |-> "volunteer"]

(* `view`: the screen that made the call. It may be covered for good by a menu
   and the log-in screen that follows a log-out; a sign-up screen that was left
   is gone. `role`: the control of a covered sign-up screen. *)
Jobs == [op: {"create", "created", "refused", "signIn", "lookup", "relookup"},
         on: Devices, email: Emails, view: {"top", "covered", "gone"}, role: Roles]
NoJob == [op |-> "none"]

TypeOK ==
    /\ accounts \in SUBSET Emails
    /\ docs \in SUBSET (Roles \X Emails)
    /\ session \in [Devices -> Emails \cup {Nobody}]
    /\ unsent \in [Devices -> SUBSET (Roles \X Emails)]
    /\ screen \in [Devices -> {"off", "login", "signup", "customer", "volunteer"}]
    /\ menuOf \in [Devices -> Emails \cup {Nobody}]
    /\ \A d \in Devices : menuOf[d] = Nobody <=> screen[d] \in {"off", "login", "signup"}
    /\ modal \in [Devices -> BOOLEAN]
    /\ segment \in [Devices -> Roles]
    /\ job \in [Slots -> Jobs \cup {NoJob}]
    /\ crossed \in [Devices -> BOOLEAN]
    /\ abandoned \in SUBSET Emails

Init ==
    /\ accounts = {}
    /\ docs = {}
    /\ session = [d \in Devices |-> Nobody]
    /\ unsent = [d \in Devices |-> {}]
    /\ screen = [d \in Devices |-> "off"]
    /\ modal = [d \in Devices |-> FALSE]
    /\ menuOf = [d \in Devices |-> Nobody]
    /\ segment = [d \in Devices |-> "customers"]
    /\ job = [s \in Slots |-> NoJob]
    /\ crossed = [d \in Devices |-> FALSE]
    /\ abandoned = {}

Start(op, d, e) ==
    \E s \in Slots :
        /\ job[s] = NoJob
        /\ job' = [job EXCEPT ![s] = [op |-> op, on |-> d, email |-> e,
                                       view |-> "top", role |-> "customers"]]

JobsOf(d, ops) == {s \in Slots : job[s] # NoJob /\ job[s].on = d /\ job[s].op \in ops}
SignIns == {"signIn", "lookup", "relookup"}
SignUps == {"create", "created", "refused"}

Out(d) == JobsOf(d, SignIns \cup SignUps)
Cross(d) == crossed' = [crossed EXCEPT ![d] = Out(d) # {}]

(* A call is over; if it was the last one and brought no menu, nothing is left of
   presses that crossed. *)
End(s) ==
    LET d == job[s].on IN
    /\ job' = [job EXCEPT ![s] = NoJob]
    /\ crossed' = [crossed EXCEPT ![d] = @ /\ (Out(d) # {s} \/ menuOf'[d] # Nobody)]

(* What a device reads back of the server's documents and its own writes. *)
Exists(d, role, e) == <<role, e>> \in docs \cup unsent[d]

(***************************************************************************)
(* The application                                                         *)
(***************************************************************************)

(* viewDidLoad of the log-in screen: a user who is signed in is looked up. *)
Launch(d) ==
    /\ screen[d] = "off"
    /\ screen' = [screen EXCEPT ![d] = "login"]
    /\ IF session[d] = Nobody THEN UNCHANGED job ELSE Start("relookup", d, session[d])
    /\ UNCHANGED <<accounts, docs, session, unsent, modal, menuOf, segment, crossed, abandoned>>

(* The process dies with its screens and completions. A call that creates an account may
   have reached the server or may not. *)
Die(d) ==
    LET asked == {job[s].email : s \in JobsOf(d, {"create"})}
        made  == {job[s].email : s \in JobsOf(d, {"created"})}
    IN  /\ screen[d] # "off"
        /\ screen' = [screen EXCEPT ![d] = "off"]
        /\ menuOf' = [menuOf EXCEPT ![d] = Nobody]
        /\ job' = [s \in Slots |-> IF s \in Out(d) THEN NoJob ELSE job[s]]
        /\ \E reached \in SUBSET asked :
              /\ accounts' = accounts \cup reached
              /\ abandoned' = abandoned \cup made \cup (reached \ accounts)
        /\ modal' = [modal EXCEPT ![d] = FALSE]
        /\ segment' = [segment EXCEPT ![d] = "customers"]
        /\ crossed' = [crossed EXCEPT ![d] = FALSE]
        /\ UNCHANGED <<docs, session, unsent>>

(* Slip: the screen named by the collection. *)
PresentByCollection(d, role, e, view) ==
    IF view = "top" /\ screen[d] \in {"login", "signup"}
    THEN /\ screen' = [screen EXCEPT ![d] = role]
         /\ menuOf' = [menuOf EXCEPT ![d] = e]
         /\ modal' = [modal EXCEPT ![d] = FALSE]
    ELSE UNCHANGED <<screen, modal, menuOf>>

(* A menu comes up unless the screen has presented one already. *)
Present(d, role, e, view) ==
    IF view = "top" /\ screen[d] \in {"login", "signup"}
    THEN /\ screen' = [screen EXCEPT ![d] = Menu[role]]
         /\ menuOf' = [menuOf EXCEPT ![d] = e]
         /\ modal' = [modal EXCEPT ![d] = FALSE]
    ELSE UNCHANGED <<screen, modal, menuOf>>

(* To the sign-up screen, a new one. *)
OpenSignUp(d) ==
    /\ screen[d] = "login"
    /\ screen' = [screen EXCEPT ![d] = "signup"]
    /\ UNCHANGED <<accounts, docs, session, unsent, modal, menuOf, segment, job, crossed, abandoned>>

(* Back to the log-in screen; the sign-up screen is gone. The first log-in screen
   is in a navigation controller: it appears again, and then it signs out whoever
   is signed in. One that a log-out presented has been in sight below. *)
Back(d) ==
    /\ screen[d] = "signup"
    /\ screen' = [screen EXCEPT ![d] = "login"]
    /\ job' = [s \in Slots |-> IF s \in JobsOf(d, SignUps) /\ job[s].view = "top"
                               THEN [job[s] EXCEPT !.view = "gone"] ELSE job[s]]
    /\ \/ /\ modal[d]
          /\ UNCHANGED <<session, crossed>>
       \/ /\ ~modal[d]
          /\ session' = [session EXCEPT ![d] = Nobody]
          /\ Cross(d)
    /\ segment' = [segment EXCEPT ![d] = "customers"]
    /\ UNCHANGED <<accounts, docs, unsent, modal, menuOf, abandoned>>

(* A call of a screen that another log-in screen covers; a sign-up screen's control
   keeps the role it shows. *)
Covered(d, s) ==
    IF s \in JobsOf(d, SignIns) THEN [job[s] EXCEPT !.view = "covered"]
    ELSE IF s \in JobsOf(d, SignUps) /\ job[s].view = "top"
    THEN [job[s] EXCEPT !.view = "covered", !.role = segment[d]]
    ELSE job[s]

(* logOutPressed of the customer's profile: another log-in screen on top, without
   a navigation controller. *)
LogOut(d) ==
    /\ screen[d] = "customer"
    /\ session' = [session EXCEPT ![d] = Nobody]
    /\ screen' = [screen EXCEPT ![d] = "login"]
    /\ modal' = [modal EXCEPT ![d] = TRUE]
    /\ menuOf' = [menuOf EXCEPT ![d] = Nobody]
    /\ job' = [s \in Slots |-> Covered(d, s)]
    /\ Cross(d)
    /\ segment' = [segment EXCEPT ![d] = "customers"]
    /\ UNCHANGED <<accounts, docs, unsent, abandoned>>

(***************************************************************************)
(* Signing in                                                              *)
(***************************************************************************)

LoginPressed(d, e) ==
    /\ screen[d] = "login"
    /\ Start("signIn", d, e)
    /\ Cross(d)
    /\ UNCHANGED <<accounts, docs, session, unsent, screen, modal, menuOf, segment, abandoned>>

(* Slip: the completion is told of a success in either case. *)
SignedInRegardless(s) ==
    /\ job[s].op = "signIn"
    /\ session' = IF job[s].email \in accounts THEN [session EXCEPT ![job[s].on] = job[s].email]
                  ELSE session
    /\ job' = [job EXCEPT ![s].op = "lookup"]
    /\ UNCHANGED <<accounts, docs, unsent, screen, modal, menuOf, segment, crossed, abandoned>>

(* The completion of signIn: a failure, whatever its cause, only shows text. *)
SignedIn(s) ==
    /\ job[s].op = "signIn"
    /\ UNCHANGED <<accounts, docs, unsent, screen, modal, menuOf, segment, abandoned>>
    /\ \/ /\ job[s].email \in accounts
          /\ session' = [session EXCEPT ![job[s].on] = job[s].email]
          /\ job' = [job EXCEPT ![s].op = "lookup"]
          /\ UNCHANGED crossed
       \/ /\ End(s)
          /\ UNCHANGED session

(* A log-in screen that has presented the sign-up screen can present no menu beside it. *)
LoginView(s) ==
    IF modal[job[s].on] /\ screen[job[s].on] = "signup" THEN "covered" ELSE job[s].view

(* Slip: a lookup that fails counts as a customer's. *)
LookedUpHopeful(s) ==
    LET d == job[s].on  e == job[s].email IN
    /\ job[s].op \in {"lookup", "relookup"}
    /\ \E found \in BOOLEAN : Present(d, IF found THEN "customers" ELSE "volunteers", e, LoginView(s))
    /\ UNCHANGED <<accounts, docs, session, unsent, segment, abandoned>>
    /\ End(s)

(* The completion of getDocument: anyone whose document is not found, or cannot
   be read, counts as a volunteer; at launch a volunteer gets no menu. *)
LookedUp(s) ==
    LET d == job[s].on  e == job[s].email IN
    /\ \/ /\ job[s].op \in {"lookup", "relookup"}
          /\ Exists(d, "customers", e)
          /\ Present(d, "customers", e, LoginView(s))
       \/ /\ job[s].op = "lookup"
          /\ Present(d, "volunteers", e, LoginView(s))
       \/ /\ job[s].op = "relookup"
          /\ UNCHANGED <<screen, modal, menuOf>>
    /\ UNCHANGED <<accounts, docs, session, unsent, segment, abandoned>>
    /\ End(s)

(***************************************************************************)
(* Signing up                                                              *)
(***************************************************************************)

Toggle(d) ==
    /\ screen[d] = "signup"
    /\ \E role \in Roles \ {segment[d]} : segment' = [segment EXCEPT ![d] = role]
    /\ UNCHANGED <<accounts, docs, session, unsent, screen, modal, menuOf, job, crossed, abandoned>>

SignUpPressed(d, e) ==
    /\ screen[d] = "signup"
    /\ Start("create", d, e)
    /\ Cross(d)
    /\ UNCHANGED <<accounts, docs, session, unsent, screen, modal, menuOf, segment, abandoned>>

(* Firebase Auth: one account per email. Whoever creates it is signed in; a
   call may fail after it took effect. *)
Create(s) ==
    /\ job[s].op = "create"
    /\ \/ /\ job[s].email \notin accounts
          /\ accounts' = accounts \cup {job[s].email}
          /\ job' = [job EXCEPT ![s].op = "created"]
          /\ session' = [session EXCEPT ![job[s].on] = job[s].email]
          /\ UNCHANGED abandoned
       \/ /\ job' = [job EXCEPT ![s].op = "refused"]
          /\ \/ UNCHANGED <<accounts, abandoned>>
             \/ /\ job[s].email \notin accounts
                /\ accounts' = accounts \cup {job[s].email}
                /\ abandoned' = abandoned \cup {job[s].email}
          /\ UNCHANGED session
    /\ UNCHANGED <<docs, unsent, screen, modal, menuOf, segment, crossed>>

(* Slip: no document for a volunteer. *)
CreatedCustomersOnly(s) ==
    LET d == job[s].on  e == job[s].email IN
    /\ job[s].op = "created"
    /\ IF segment[d] = "customers"
       THEN unsent' = [unsent EXCEPT ![d] = @ \cup {<<"customers", e>>}]
       ELSE UNCHANGED unsent
    /\ Present(d, segment[d], e, job[s].view)
    /\ UNCHANGED <<accounts, docs, session, segment, abandoned>>
    /\ End(s)

(* The completion of createUser: writes the user's document into the collection
   that the control shows now, does not wait for the write, and presents the
   menu. Nothing happens if the sign-up screen is gone. *)
Created(s) ==
    LET d == job[s].on  e == job[s].email
        role == IF job[s].view = "covered" THEN job[s].role ELSE segment[d]
    IN
    /\ job[s].op = "created"
    /\ IF job[s].view = "gone"
       THEN /\ abandoned' = abandoned \cup {e}
            /\ UNCHANGED <<unsent, screen, modal, menuOf>>
       ELSE /\ unsent' = [unsent EXCEPT ![d] = @ \cup {<<role, e>>}]
            /\ Present(d, role, e, job[s].view)
            /\ UNCHANGED abandoned
    /\ UNCHANGED <<accounts, docs, session, segment>>
    /\ End(s)

(* Slip: the document is written before it is known whether the account is new. *)
RefusedAfterWriting(s) ==
    LET d == job[s].on  e == job[s].email IN
    /\ job[s].op = "refused"
    /\ unsent' = [unsent EXCEPT ![d] = @ \cup {<<segment[d], e>>}]
    /\ UNCHANGED <<accounts, docs, session, screen, modal, menuOf, segment, abandoned>>
    /\ End(s)

(* "Account already in use", whatever the error was. *)
Refused(s) ==
    /\ job[s].op = "refused"
    /\ UNCHANGED <<accounts, docs, session, unsent, screen, modal, menuOf, segment, abandoned>>
    /\ End(s)

(* Firestore sends a write when it can. *)
Sync(d) ==
    \E w \in unsent[d] :
        /\ screen[d] # "off"
        /\ docs' = docs \cup {w}
        /\ unsent' = [unsent EXCEPT ![d] = @ \ {w}]
        /\ UNCHANGED <<accounts, session, screen, modal, menuOf, segment, job, crossed, abandoned>>

-----------------------------------------------------------------------------

Next ==
    \/ \E d \in Devices :
          \/ Launch(d) \/ Die(d) \/ OpenSignUp(d) \/ Back(d) \/ LogOut(d) \/ Toggle(d) \/ Sync(d)
          \/ \E e \in Emails : LoginPressed(d, e) \/ SignUpPressed(d, e)
    \/ \E s \in Slots : SignedIn(s) \/ LookedUp(s) \/ Create(s) \/ Created(s) \/ Refused(s)

Spec == Init /\ [][Next]_vars

-----------------------------------------------------------------------------

Documents == docs \cup UNION {unsent[d] : d \in Devices}

(* Nobody is both a customer and a volunteer, although the role is read only
   when the sign-up completes, a button can be pressed twice, and two devices
   may sign the same email up at once: the document is written only by the
   call that created the account. *)
OneRole == \A e \in Emails : ~(<<"customers", e>> \in Documents /\ <<"volunteers", e>> \in Documents)

(* The customer's menu is shown only for a user who signed up as a customer,
   whatever was typed, toggled or pressed while the calls were out. *)
CustomerMenuIsEarned ==
    \A d \in Devices : screen[d] = "customer" => <<"customers", menuOf[d]>> \in Documents

(* An account has a role as soon as its sign-up is over, unless the sign-up
   screen was left, the application died or the answer was lost meanwhile:
   then it never gets one, for the email cannot be signed up again. *)
RolelessOnlyIfAbandoned ==
    \A e \in accounts :
        \/ \E role \in Roles : <<role, e>> \in Documents
        \/ \E s \in Slots : job[s] # NoJob /\ job[s].op = "created" /\ job[s].email = e
        \/ e \in abandoned

(* A menu is on top for the user who is signed in, although the session and the
   lookup are two calls: unless the last press of a button, way back or log-out
   came while another call was out. Then the later call's session meets the
   earlier one's menu, and coming back to the first log-in screen signs out a user
   whose menu is still to come (ViewController.swift:204). *)
MenuHasSession ==
    \A d \in Devices : menuOf[d] # Nobody /\ ~crossed[d] => session[d] = menuOf[d]

=============================================================================
