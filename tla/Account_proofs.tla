--------------------------- MODULE Account_proofs ---------------------------
(* The invariants of Account for any number of devices, emails and calls in
   flight. OneRole and CustomerMenuIsEarned rest on one fact: whoever is about to
   write the document of an email is the only one, and nobody has written it yet.
   MenuHasSession rests on another: while the presses of a device do not cross,
   it has one call in flight, which has no menu beside it and, from the moment
   the session is set, a session of its own email. *)
EXTENDS Account, TLAPS

(* The call that created an account, its completion still to come, is alone
   with that email and finds no document of it; documents are of accounts. *)
WriterIsAlone ==
    /\ \A s \in Slots : job[s].op = "created" =>
          /\ job[s].email \in accounts
          /\ \A role \in Roles : <<role, job[s].email>> \notin Documents
          /\ \A t \in Slots : job[t].op = "created" /\ job[t].email = job[s].email => t = s
    /\ \A role \in Roles, e \in Emails : <<role, e>> \in Documents => e \in accounts

IInv == TypeOK /\ WriterIsAlone /\ OneRole /\ CustomerMenuIsEarned

-----------------------------------------------------------------------------

(* A call of a covered screen is the call it was, for the same account. *)
LEMMA CoveredCall ==
    ASSUME TypeOK, NEW d \in Devices, NEW t \in Slots
    PROVE  /\ Covered(d, t) \in Jobs \cup {NoJob}
           /\ Covered(d, t) = NoJob <=> job[t] = NoJob
           /\ Covered(d, t).op = job[t].op
           /\ Covered(d, t).email = job[t].email
           /\ Covered(d, t).on = job[t].on
<1>1. CASE t \in JobsOf(d, SignIns)
  <2>1. job[t] \in Jobs /\ Covered(d, t) = [job[t] EXCEPT !.view = "covered"]
    BY <1>1 DEF JobsOf, TypeOK, Covered
  <2> QED BY <2>1 DEF Jobs, NoJob
<1>2. CASE t \notin JobsOf(d, SignIns) /\ t \in JobsOf(d, SignUps) /\ job[t].view = "top"
  <2>1. /\ job[t] \in Jobs /\ segment[d] \in Roles
        /\ Covered(d, t) = [job[t] EXCEPT !.view = "covered", !.role = segment[d]]
    BY <1>2 DEF JobsOf, TypeOK, Covered
  <2> QED BY <2>1 DEF Jobs, NoJob, Roles
<1>3. CASE t \notin JobsOf(d, SignIns) /\ ~(t \in JobsOf(d, SignUps) /\ job[t].view = "top")
  BY <1>3 DEF Covered, TypeOK
<1> QED BY <1>1, <1>2, <1>3

(* Leaving a screen changes where its calls report to, not what they do. *)
LEMMA LogOutKeepsCalls ==
    ASSUME TypeOK, NEW d \in Devices, LogOut(d), NEW t \in Slots
    PROVE  /\ job'[t] = NoJob <=> job[t] = NoJob
           /\ job'[t].op = job[t].op
           /\ job'[t].email = job[t].email
           /\ job'[t].on = job[t].on
<1>1. job'[t] = Covered(d, t)
  BY DEF LogOut
<1> QED BY <1>1, CoveredCall

(* A call that ends is gone; its device's presses stay crossed unless it was the
   device's last call and no menu is up. *)
LEMMA EndOfCall ==
    ASSUME TypeOK, NEW s \in Slots, End(s)
    PROVE  /\ job' = [job EXCEPT ![s] = NoJob]
           /\ crossed' \in [Devices -> BOOLEAN]
           /\ \A c \in Devices : \/ crossed'[c] = crossed[c]
                                 \/ c = job[s].on /\ Out(c) = {s} /\ menuOf'[c] = Nobody
<1> DEFINE d == job[s].on
           now == crossed[d] /\ (Out(d) # {s} \/ menuOf'[d] # Nobody)
<1>1. job' = [job EXCEPT ![s] = NoJob] /\ crossed' = [crossed EXCEPT ![d] = now]
  BY DEF End
<1>2. crossed \in [Devices -> BOOLEAN] /\ now \in BOOLEAN
  BY DEF TypeOK
<1>3. ASSUME NEW c \in Devices, crossed'[c] # crossed[c]
      PROVE  c = d /\ Out(d) = {s} /\ menuOf'[d] = Nobody
  <2>1. c = d /\ now # crossed[d]
    BY <1>1, <1>2, <1>3
  <2>2. ~(Out(d) # {s} \/ menuOf'[d] # Nobody)
    BY <1>2, <2>1
  <2> QED BY <2>1, <2>2
<1>4. crossed' \in [Devices -> BOOLEAN]
  <2> HIDE DEF now, d
  <2> QED BY <1>1, <1>2
<1> QED BY <1>1, <1>3, <1>4

(* Presenting a menu keeps the types, and the menu is a user's. *)
LEMMA MenuIsTyped ==
    ASSUME TypeOK, NEW d \in Devices, NEW role \in Roles, NEW e \in Emails, NEW view,
           Present(d, role, e, view)
    PROVE  /\ screen' \in [Devices -> {"off", "login", "signup", "customer", "volunteer"}]
           /\ modal' \in [Devices -> BOOLEAN]
           /\ menuOf' \in [Devices -> Emails \cup {Nobody}]
           /\ \A c \in Devices : menuOf'[c] = Nobody <=> screen'[c] \in {"off", "login", "signup"}
<1>1. CASE view = "top" /\ screen[d] \in {"login", "signup"}
  <2> DEFINE m == Menu[role]
  <2>1. m \in {"customer", "volunteer"}
    BY DEF Menu, Roles
  <2>2. screen' = [screen EXCEPT ![d] = m] /\ menuOf' = [menuOf EXCEPT ![d] = e]
    BY <1>1 DEF Present
  <2>3. modal' \in [Devices -> BOOLEAN]
    BY <1>1 DEF Present, TypeOK
  <2> HIDE DEF m
  <2>4. \A c \in Devices : menuOf'[c] = Nobody <=> screen'[c] \in {"off", "login", "signup"}
    BY AccountAssumption, <2>1, <2>2 DEF TypeOK
  <2> QED BY <2>1, <2>2, <2>3, <2>4 DEF TypeOK
<1>2. CASE UNCHANGED <<screen, modal, menuOf>>
  BY <1>2 DEF TypeOK
<1> QED BY <1>1, <1>2 DEF Present

(* Every variable keeps its type, and a menu on top belongs to a user. *)
THEOREM TypeCorrect == Spec => []TypeOK
<1>1. Init => TypeOK
  BY DEF Init, TypeOK, Roles
<1>2. TypeOK /\ [Next]_vars => TypeOK'
  <2> SUFFICES ASSUME TypeOK, [Next]_vars PROVE TypeOK'
    OBVIOUS
  <2> USE AccountAssumption DEF TypeOK, Jobs, NoJob, Roles
  <2>0. CASE UNCHANGED vars
    BY <2>0 DEF vars
  <2>1. ASSUME NEW d \in Devices, Launch(d) PROVE TypeOK'
    BY <2>1 DEF Launch, Start
  <2>2. ASSUME NEW d \in Devices, Die(d) PROVE TypeOK'
    BY <2>2 DEF Die, Out, JobsOf
  <2>3. ASSUME NEW d \in Devices, OpenSignUp(d) PROVE TypeOK'
    BY <2>3 DEF OpenSignUp
  <2>4. ASSUME NEW d \in Devices, Back(d) PROVE TypeOK'
    <3>1. job' \in [Slots -> Jobs \cup {NoJob}]
      BY <2>4 DEF Back, JobsOf, SignUps
    <3>2. /\ session' = session \/ session' = [session EXCEPT ![d] = Nobody]
          /\ crossed' = crossed \/ crossed' = [crossed EXCEPT ![d] = Out(d) # {}]
          /\ screen' = [screen EXCEPT ![d] = "login"]
          /\ segment' = [segment EXCEPT ![d] = "customers"]
          /\ UNCHANGED <<accounts, docs, unsent, modal, menuOf, abandoned>>
          /\ screen[d] = "signup"
      BY <2>4 DEF Back, Cross
    <3> QED BY <3>1, <3>2
  <2>5. ASSUME NEW d \in Devices, LogOut(d) PROVE TypeOK'
    <3>1. job' \in [Slots -> Jobs \cup {NoJob}]
      <4>1. job' = [t \in Slots |-> Covered(d, t)]
        BY <2>5 DEF LogOut
      <4>2. \A t \in Slots : Covered(d, t) \in Jobs \cup {NoJob}
        BY CoveredCall
      <4> QED BY <4>1, <4>2
    <3>2. /\ session' = [session EXCEPT ![d] = Nobody]
          /\ screen' = [screen EXCEPT ![d] = "login"]
          /\ menuOf' = [menuOf EXCEPT ![d] = Nobody]
          /\ modal' = [modal EXCEPT ![d] = TRUE]
          /\ segment' = [segment EXCEPT ![d] = "customers"]
          /\ crossed' = [crossed EXCEPT ![d] = Out(d) # {}]
          /\ UNCHANGED <<accounts, docs, unsent, abandoned>>
      BY <2>5 DEF LogOut, Cross
    <3> QED BY <3>1, <3>2
  <2>6. ASSUME NEW d \in Devices, Toggle(d) PROVE TypeOK'
    BY <2>6 DEF Toggle
  <2>7. ASSUME NEW d \in Devices, Sync(d) PROVE TypeOK'
    BY <2>7 DEF Sync
  <2>8. ASSUME NEW d \in Devices, NEW e \in Emails, LoginPressed(d, e) PROVE TypeOK'
    BY <2>8 DEF LoginPressed, Cross, Start
  <2>9. ASSUME NEW d \in Devices, NEW e \in Emails, SignUpPressed(d, e) PROVE TypeOK'
    BY <2>9 DEF SignUpPressed, Cross, Start
  <2>10. ASSUME NEW s \in Slots, SignedIn(s) PROVE TypeOK'
    BY <2>10, EndOfCall DEF SignedIn
  <2>11. ASSUME NEW s \in Slots, LookedUp(s) PROVE TypeOK'
    <3>1. job' \in [Slots -> Jobs \cup {NoJob}] /\ crossed' \in [Devices -> BOOLEAN]
      BY <2>11, EndOfCall DEF LookedUp
    <3>2. job[s].on \in Devices /\ job[s].email \in Emails
      BY <2>11 DEF LookedUp
    <3>3. \/ \E role \in Roles : Present(job[s].on, role, job[s].email, LoginView(s))
          \/ UNCHANGED <<screen, modal, menuOf>>
      BY <2>11 DEF LookedUp
    <3>4. UNCHANGED <<accounts, docs, session, unsent, segment, abandoned>>
      BY <2>11 DEF LookedUp
    <3> QED BY <3>1, <3>2, <3>3, <3>4, MenuIsTyped
  <2>12. ASSUME NEW s \in Slots, Create(s) PROVE TypeOK'
    BY <2>12 DEF Create
  <2>13. ASSUME NEW s \in Slots, Created(s) PROVE TypeOK'
    <3> DEFINE role == IF job[s].view = "covered" THEN job[s].role ELSE segment[job[s].on]
    <3>1. job' \in [Slots -> Jobs \cup {NoJob}] /\ crossed' \in [Devices -> BOOLEAN]
      BY <2>13, EndOfCall DEF Created
    <3>2. job[s].on \in Devices /\ job[s].email \in Emails /\ role \in Roles
      BY <2>13 DEF Created
    <3>3. \/ Present(job[s].on, role, job[s].email, job[s].view)
          \/ UNCHANGED <<screen, modal, menuOf>>
      BY <2>13 DEF Created
    <3>4. /\ UNCHANGED <<accounts, docs, session, segment>>
          /\ unsent' \in [Devices -> SUBSET (Roles \X Emails)]
          /\ abandoned' \in SUBSET Emails
      BY <2>13, <3>2 DEF Created
    <3> HIDE DEF role
    <3> QED BY <3>1, <3>2, <3>3, <3>4, MenuIsTyped
  <2>14. ASSUME NEW s \in Slots, Refused(s) PROVE TypeOK'
    BY <2>14, EndOfCall DEF Refused
  <2> QED
    BY <2>0, <2>1, <2>2, <2>3, <2>4, <2>5, <2>6, <2>7, <2>8, <2>9, <2>10, <2>11, <2>12, <2>13,
           <2>14 DEF Next
<1> QED BY <1>1, <1>2, PTL DEF Spec

(* A step that writes no document and adds no writer keeps the writers alone. *)
LEMMA NoNewWriter ==
    ASSUME WriterIsAlone, OneRole, Documents' = Documents, accounts \subseteq accounts',
           \A s \in Slots : job'[s].op = "created" =>
              job[s].op = "created" /\ job'[s].email = job[s].email
    PROVE  WriterIsAlone' /\ OneRole'
  BY DEF WriterIsAlone, OneRole

(* A step that shows the customer's menu to nobody new leaves it earned. *)
LEMMA NoNewMenu ==
    ASSUME CustomerMenuIsEarned, Documents \subseteq Documents',
           \A d \in Devices : screen'[d] = "customer" =>
              screen[d] = "customer" /\ menuOf'[d] = menuOf[d]
    PROVE  CustomerMenuIsEarned'
  BY DEF CustomerMenuIsEarned

(* Whoever writes a document is alone with its email, so that roles stay apart
   and a customer's menu has a customer's document behind it. *)
THEOREM Invariance == Spec => []IInv
<1>1. Init => IInv
  BY AccountAssumption DEF Init, IInv, TypeOK, Roles, WriterIsAlone, OneRole,
                           CustomerMenuIsEarned, Documents, NoJob
<1>2. TypeOK' /\ IInv /\ [Next]_vars => IInv'
  <2> SUFFICES ASSUME TypeOK', IInv, [Next]_vars
               PROVE  (WriterIsAlone /\ OneRole /\ CustomerMenuIsEarned)'
    BY DEF IInv
  <2> USE DEF IInv
  <2>0. CASE UNCHANGED vars
    BY <2>0 DEF vars, WriterIsAlone, OneRole, CustomerMenuIsEarned, Documents
  <2>1. ASSUME NEW d \in Devices, Launch(d)
        PROVE  (WriterIsAlone /\ OneRole /\ CustomerMenuIsEarned)'
    <3>1. Documents' = Documents /\ accounts \subseteq accounts'
      BY <2>1 DEF Launch, Documents
    <3>2. \A t \in Slots : job'[t].op = "created" =>
             job[t].op = "created" /\ job'[t].email = job[t].email
      BY <2>1 DEF Launch, Start, TypeOK, Jobs, NoJob
    <3>3. \A c \in Devices : screen'[c] = "customer" =>
             screen[c] = "customer" /\ menuOf'[c] = menuOf[c]
      BY <2>1 DEF Launch, Start, TypeOK, Jobs, NoJob
    <3> QED BY <3>1, <3>2, <3>3, NoNewWriter, NoNewMenu
  <2>2. ASSUME NEW d \in Devices, Die(d)
        PROVE  (WriterIsAlone /\ OneRole /\ CustomerMenuIsEarned)'
    <3>1. Documents' = Documents /\ accounts \subseteq accounts'
      BY <2>2 DEF Die, Documents
    <3>2. \A t \in Slots : job'[t].op = "created" =>
             job[t].op = "created" /\ job'[t].email = job[t].email
      BY <2>2 DEF Die, Out, JobsOf, TypeOK, Jobs, NoJob
    <3>3. \A c \in Devices : screen'[c] = "customer" =>
             screen[c] = "customer" /\ menuOf'[c] = menuOf[c]
      BY <2>2 DEF Die, Out, JobsOf, TypeOK, Jobs, NoJob
    <3> QED BY <3>1, <3>2, <3>3, NoNewWriter, NoNewMenu
  <2>3. ASSUME NEW d \in Devices, OpenSignUp(d)
        PROVE  (WriterIsAlone /\ OneRole /\ CustomerMenuIsEarned)'
    <3>1. Documents' = Documents /\ accounts \subseteq accounts'
      BY <2>3 DEF OpenSignUp, Documents
    <3>2. \A t \in Slots : job'[t].op = "created" =>
             job[t].op = "created" /\ job'[t].email = job[t].email
      BY <2>3 DEF OpenSignUp, TypeOK, Jobs, NoJob
    <3>3. \A c \in Devices : screen'[c] = "customer" =>
             screen[c] = "customer" /\ menuOf'[c] = menuOf[c]
      BY <2>3 DEF OpenSignUp, TypeOK, Jobs, NoJob
    <3> QED BY <3>1, <3>2, <3>3, NoNewWriter, NoNewMenu
  <2>4. ASSUME NEW d \in Devices, Back(d)
        PROVE  (WriterIsAlone /\ OneRole /\ CustomerMenuIsEarned)'
    <3>1. Documents' = Documents /\ accounts \subseteq accounts'
      BY <2>4 DEF Back, Documents
    <3>2. \A t \in Slots : job'[t].op = "created" =>
             job[t].op = "created" /\ job'[t].email = job[t].email
      BY <2>4 DEF Back, Cross, JobsOf, SignUps, TypeOK, Jobs, NoJob
    <3>3. \A c \in Devices : screen'[c] = "customer" =>
             screen[c] = "customer" /\ menuOf'[c] = menuOf[c]
      BY <2>4 DEF Back, Cross, JobsOf, SignUps, TypeOK, Jobs, NoJob
    <3> QED BY <3>1, <3>2, <3>3, NoNewWriter, NoNewMenu
  <2>5. ASSUME NEW d \in Devices, LogOut(d)
        PROVE  (WriterIsAlone /\ OneRole /\ CustomerMenuIsEarned)'
    <3>1. Documents' = Documents /\ accounts \subseteq accounts'
      BY <2>5 DEF LogOut, Documents
    <3>2. \A t \in Slots : job'[t].op = "created" =>
             job[t].op = "created" /\ job'[t].email = job[t].email
      BY <2>5, LogOutKeepsCalls DEF NoJob
    <3>3. \A c \in Devices : screen'[c] = "customer" =>
             screen[c] = "customer" /\ menuOf'[c] = menuOf[c]
      BY <2>5 DEF LogOut, JobsOf, SignUps, TypeOK, Jobs, NoJob
    <3> QED BY <3>1, <3>2, <3>3, NoNewWriter, NoNewMenu
  <2>6. ASSUME NEW d \in Devices, Toggle(d)
        PROVE  (WriterIsAlone /\ OneRole /\ CustomerMenuIsEarned)'
    <3>1. Documents' = Documents /\ accounts \subseteq accounts'
      BY <2>6 DEF Toggle, Documents
    <3>2. \A t \in Slots : job'[t].op = "created" =>
             job[t].op = "created" /\ job'[t].email = job[t].email
      BY <2>6 DEF Toggle, TypeOK, Jobs, NoJob
    <3>3. \A c \in Devices : screen'[c] = "customer" =>
             screen[c] = "customer" /\ menuOf'[c] = menuOf[c]
      BY <2>6 DEF Toggle, TypeOK, Jobs, NoJob
    <3> QED BY <3>1, <3>2, <3>3, NoNewWriter, NoNewMenu
  <2>7. ASSUME NEW d \in Devices, Sync(d)
        PROVE  (WriterIsAlone /\ OneRole /\ CustomerMenuIsEarned)'
    <3>1. Documents' = Documents
      BY <2>7 DEF Sync, Documents, TypeOK
    <3> QED BY <2>7, <3>1, NoNewWriter, NoNewMenu DEF Sync
  <2>8. ASSUME NEW d \in Devices, NEW e \in Emails, LoginPressed(d, e)
        PROVE  (WriterIsAlone /\ OneRole /\ CustomerMenuIsEarned)'
    <3>1. Documents' = Documents /\ accounts \subseteq accounts'
      BY <2>8 DEF LoginPressed, Documents
    <3>2. \A t \in Slots : job'[t].op = "created" =>
             job[t].op = "created" /\ job'[t].email = job[t].email
      BY <2>8 DEF LoginPressed, Cross, Start, TypeOK, Jobs, NoJob
    <3>3. \A c \in Devices : screen'[c] = "customer" =>
             screen[c] = "customer" /\ menuOf'[c] = menuOf[c]
      BY <2>8 DEF LoginPressed, Cross, Start, TypeOK, Jobs, NoJob
    <3> QED BY <3>1, <3>2, <3>3, NoNewWriter, NoNewMenu
  <2>9. ASSUME NEW d \in Devices, NEW e \in Emails, SignUpPressed(d, e)
        PROVE  (WriterIsAlone /\ OneRole /\ CustomerMenuIsEarned)'
    <3>1. Documents' = Documents /\ accounts \subseteq accounts'
      BY <2>9 DEF SignUpPressed, Documents
    <3>2. \A t \in Slots : job'[t].op = "created" =>
             job[t].op = "created" /\ job'[t].email = job[t].email
      BY <2>9 DEF SignUpPressed, Cross, Start, TypeOK, Jobs, NoJob
    <3>3. \A c \in Devices : screen'[c] = "customer" =>
             screen[c] = "customer" /\ menuOf'[c] = menuOf[c]
      BY <2>9 DEF SignUpPressed, Cross, Start, TypeOK, Jobs, NoJob
    <3> QED BY <3>1, <3>2, <3>3, NoNewWriter, NoNewMenu
  <2>10. ASSUME NEW s \in Slots, SignedIn(s)
        PROVE  (WriterIsAlone /\ OneRole /\ CustomerMenuIsEarned)'
    <3>1. Documents' = Documents /\ accounts \subseteq accounts'
      BY <2>10 DEF SignedIn, Documents
    <3>2. \A t \in Slots : job'[t].op = "created" =>
             job[t].op = "created" /\ job'[t].email = job[t].email
      BY <2>10 DEF SignedIn, End, TypeOK, Jobs, NoJob
    <3>3. \A c \in Devices : screen'[c] = "customer" =>
             screen[c] = "customer" /\ menuOf'[c] = menuOf[c]
      BY <2>10 DEF SignedIn, End, TypeOK, Jobs, NoJob
    <3> QED BY <3>1, <3>2, <3>3, NoNewWriter, NoNewMenu
  <2>11. ASSUME NEW s \in Slots, LookedUp(s)
        PROVE  (WriterIsAlone /\ OneRole /\ CustomerMenuIsEarned)'
    <3>1. Documents' = Documents
      BY <2>11 DEF LookedUp, Documents
    <3>2. \A t \in Slots : job'[t].op = "created" =>
             job[t].op = "created" /\ job'[t].email = job[t].email
      BY <2>11 DEF LookedUp, End, TypeOK, NoJob
    <3>3. WriterIsAlone' /\ OneRole'
      BY <2>11, <3>1, <3>2, NoNewWriter DEF LookedUp
    <3>4. \A c \in Devices : screen'[c] = "customer" =>
             \/ screen[c] = "customer" /\ menuOf'[c] = menuOf[c]
             \/ <<"customers", menuOf'[c]>> \in Documents
      BY <2>11 DEF LookedUp, Present, Exists, Menu, Documents, TypeOK, Jobs
    <3>5. CustomerMenuIsEarned'
      BY <3>1, <3>4 DEF CustomerMenuIsEarned
    <3> QED BY <3>3, <3>5
  <2>12. ASSUME NEW s \in Slots, Create(s)
        PROVE  (WriterIsAlone /\ OneRole /\ CustomerMenuIsEarned)'
    <3>1. Documents' = Documents /\ accounts \subseteq accounts' /\ UNCHANGED <<screen, menuOf>>
      BY <2>12 DEF Create, Documents
    <3>2. \A t \in Slots : job'[t].op = "created" =>
             /\ job'[t].email = job[t].email
             /\ job[t].op = "created" \/ (t = s /\ job[s].email \notin accounts /\ job[s].email \in accounts')
      <4> TAKE t \in Slots
      <4>1. CASE t # s
        BY <2>12, <4>1 DEF Create, TypeOK
      <4>2. job[s] \in Jobs
        BY <2>12 DEF Create, TypeOK, NoJob
      <4>3. CASE t = s
        BY <2>12, <4>2, <4>3 DEF Create, TypeOK, Jobs
      <4> QED BY <4>1, <4>3
    <3>3. job[s].email \in Emails
      BY <2>12 DEF Create, TypeOK, Jobs, NoJob
    <3>4. WriterIsAlone'
      BY <3>1, <3>2, <3>3 DEF WriterIsAlone
    <3>5. OneRole' /\ CustomerMenuIsEarned'
      BY <3>1 DEF OneRole, CustomerMenuIsEarned
    <3> QED BY <3>4, <3>5
  <2>13. ASSUME NEW s \in Slots, Created(s)
        PROVE  (WriterIsAlone /\ OneRole /\ CustomerMenuIsEarned)'
    <3>1. CASE job[s].view = "gone"
      <4>1. Documents' = Documents /\ UNCHANGED <<accounts, screen, menuOf>>
        BY <2>13, <3>1 DEF Created, Documents
      <4>2. \A t \in Slots : job'[t].op = "created" =>
               job[t].op = "created" /\ job'[t].email = job[t].email
        BY <2>13 DEF Created, End, TypeOK, NoJob
      <4> QED BY <4>1, <4>2, NoNewWriter, NoNewMenu
    <3>2. CASE job[s].view # "gone"
      <4> DEFINE role == IF job[s].view = "covered" THEN job[s].role ELSE segment[job[s].on]
      <4>1. /\ job[s].on \in Devices /\ job[s].email \in Emails
            /\ role \in Roles /\ job[s].op = "created"
        BY <2>13 DEF Created, TypeOK, Jobs, NoJob
      <4>2. Documents' = Documents \cup {<<role, job[s].email>>}
        BY <2>13, <3>2, <4>1 DEF Created, Documents, TypeOK
      <4>3. \A t \in Slots : job'[t].op = "created" => job[t].op = "created" /\ job'[t] = job[t] /\ t # s
        BY <2>13 DEF Created, End, TypeOK, NoJob
      <4>4. UNCHANGED accounts
        BY <2>13 DEF Created
      <4>5. WriterIsAlone'
        <5>1. \A t \in Slots : job'[t].op = "created" => job[t].email # job[s].email
          BY <4>1, <4>3 DEF WriterIsAlone
        <5> QED BY <4>1, <4>2, <4>3, <4>4, <5>1 DEF WriterIsAlone
      <4>6. OneRole'
        BY <4>1, <4>2 DEF WriterIsAlone, OneRole, Roles
      <4>7. \A c \in Devices : screen'[c] = "customer" =>
               \/ screen[c] = "customer" /\ menuOf'[c] = menuOf[c]
               \/ role = "customers" /\ menuOf'[c] = job[s].email
        BY <2>13, <3>2, <4>1 DEF Created, Present, Menu, TypeOK, Roles
      <4>8. CustomerMenuIsEarned'
        BY <4>2, <4>7 DEF CustomerMenuIsEarned
      <4> QED BY <4>5, <4>6, <4>8
    <3> QED BY <3>1, <3>2
  <2>14. ASSUME NEW s \in Slots, Refused(s)
        PROVE  (WriterIsAlone /\ OneRole /\ CustomerMenuIsEarned)'
    <3>1. Documents' = Documents /\ accounts \subseteq accounts'
      BY <2>14 DEF Refused, Documents
    <3>2. \A t \in Slots : job'[t].op = "created" =>
             job[t].op = "created" /\ job'[t].email = job[t].email
      BY <2>14 DEF Refused, End, TypeOK, Jobs, NoJob
    <3>3. \A c \in Devices : screen'[c] = "customer" =>
             screen[c] = "customer" /\ menuOf'[c] = menuOf[c]
      BY <2>14 DEF Refused, End, TypeOK, Jobs, NoJob
    <3> QED BY <3>1, <3>2, <3>3, NoNewWriter, NoNewMenu
  <2> QED
    BY <2>0, <2>1, <2>2, <2>3, <2>4, <2>5, <2>6, <2>7, <2>8, <2>9, <2>10, <2>11, <2>12, <2>13,
           <2>14
    DEF Next
<1>3. Spec => []TypeOK
  BY TypeCorrect
<1> QED BY <1>1, <1>2, <1>3, PTL DEF Spec

(* Nobody ever has two roles, on however many devices he signs up. *)
THEOREM RolesAreApart == Spec => []OneRole
<1>1. IInv => OneRole
  BY DEF IInv
<1> QED BY <1>1, Invariance, PTL

(* The customer's menu never comes up for anyone but a customer. *)
THEOREM CustomerMenus == Spec => []CustomerMenuIsEarned
<1>1. IInv => CustomerMenuIsEarned
  BY DEF IInv
<1> QED BY <1>1, Invariance, PTL

-----------------------------------------------------------------------------

(* A step that keeps the accounts, the documents and the writers leaves every
   account explained. *)
LEMMA NothingForgotten ==
    ASSUME RolelessOnlyIfAbandoned, UNCHANGED accounts, Documents \subseteq Documents',
           abandoned \subseteq abandoned',
           \A s \in Slots : job[s] # NoJob /\ job[s].op = "created" =>
              \/ job'[s] # NoJob /\ job'[s].op = "created" /\ job'[s].email = job[s].email
              \/ job[s].email \in abandoned'
              \/ \E role \in Roles : <<role, job[s].email>> \in Documents'
    PROVE  RolelessOnlyIfAbandoned'
  BY DEF RolelessOnlyIfAbandoned

(* An account without a role is one whose sign-up never ran its completion, or
   still has it to come, for any devices, emails and calls in flight. *)
THEOREM Roleless == Spec => []RolelessOnlyIfAbandoned
<1>1. Init => RolelessOnlyIfAbandoned
  BY DEF Init, RolelessOnlyIfAbandoned
<1>2. TypeOK /\ RolelessOnlyIfAbandoned /\ [Next]_vars => RolelessOnlyIfAbandoned'
  <2> SUFFICES ASSUME TypeOK, RolelessOnlyIfAbandoned, [Next]_vars
               PROVE  RolelessOnlyIfAbandoned'
    OBVIOUS
  <2>0. CASE UNCHANGED vars
    BY <2>0 DEF vars, RolelessOnlyIfAbandoned, Documents
  <2>1. ASSUME NEW d \in Devices, Launch(d) PROVE RolelessOnlyIfAbandoned'
    BY <2>1, NothingForgotten DEF Launch, Start, Documents, TypeOK
  <2>2. ASSUME NEW d \in Devices, Die(d) PROVE RolelessOnlyIfAbandoned'
    <3>1. Documents' = Documents
      BY <2>2 DEF Die, Documents
    <3>2. accounts' \subseteq accounts \cup abandoned' /\ abandoned \subseteq abandoned'
      BY <2>2 DEF Die
    <3>3. \A t \in Slots : job[t] # NoJob /\ job[t].op = "created" =>
             job'[t] = job[t] \/ job[t].email \in abandoned'
      BY <2>2 DEF Die, Out, JobsOf, SignIns, SignUps, TypeOK
    <3> QED BY <3>1, <3>2, <3>3 DEF RolelessOnlyIfAbandoned
  <2>3. ASSUME NEW d \in Devices, OpenSignUp(d) \/ Toggle(d) PROVE RolelessOnlyIfAbandoned'
    BY <2>3, NothingForgotten DEF OpenSignUp, Toggle, Documents
  <2>4. ASSUME NEW d \in Devices, Back(d) PROVE RolelessOnlyIfAbandoned'
    <3>1. \A t \in Slots : job[t] # NoJob /\ job[t].op = "created" =>
             job'[t] # NoJob /\ job'[t].op = "created" /\ job'[t].email = job[t].email
      BY <2>4 DEF Back, JobsOf, SignUps, TypeOK, Jobs, NoJob
    <3>2. UNCHANGED <<accounts, abandoned, Documents>>
      BY <2>4 DEF Back, Documents
    <3> QED BY <3>1, <3>2, NothingForgotten
  <2>5. ASSUME NEW d \in Devices, LogOut(d) PROVE RolelessOnlyIfAbandoned'
    <3>1. UNCHANGED <<accounts, abandoned, Documents>>
      BY <2>5 DEF LogOut, Documents
    <3> QED BY <2>5, <3>1, LogOutKeepsCalls, NothingForgotten
  <2>6. ASSUME NEW d \in Devices, Sync(d) PROVE RolelessOnlyIfAbandoned'
    <3>1. Documents' = Documents
      BY <2>6 DEF Sync, Documents, TypeOK
    <3> QED BY <2>6, <3>1, NothingForgotten DEF Sync
  <2>7. ASSUME NEW d \in Devices, NEW e \in Emails, LoginPressed(d, e) \/ SignUpPressed(d, e)
        PROVE  RolelessOnlyIfAbandoned'
    <3>1. \A t \in Slots : job[t] # NoJob => job'[t] = job[t]
      BY <2>7 DEF LoginPressed, SignUpPressed, Start, TypeOK
    <3>2. UNCHANGED <<accounts, abandoned, Documents>>
      BY <2>7 DEF LoginPressed, SignUpPressed, Documents
    <3> QED BY <3>1, <3>2, NothingForgotten
  <2>8. ASSUME NEW s \in Slots, SignedIn(s) \/ LookedUp(s) \/ Refused(s)
        PROVE  RolelessOnlyIfAbandoned'
    BY <2>8, NothingForgotten DEF SignedIn, LookedUp, Refused, End, Documents, TypeOK
  <2>9. ASSUME NEW s \in Slots, Create(s) PROVE RolelessOnlyIfAbandoned'
    <3>1. Documents' = Documents /\ abandoned \subseteq abandoned'
      BY <2>9 DEF Create, Documents
    <3>2. job[s] \in Jobs
      BY <2>9 DEF Create, TypeOK, NoJob
    <3>3. \A e \in accounts' :
             \/ e \in accounts
             \/ e \in abandoned'
             \/ job'[s] # NoJob /\ job'[s].op = "created" /\ job'[s].email = e
      <4>1. CASE /\ accounts' = accounts \cup {job[s].email}
                 /\ job' = [job EXCEPT ![s].op = "created"]
        <5>1. job'[s] = [job[s] EXCEPT !.op = "created"]
          BY <4>1 DEF TypeOK
        <5>2. job'[s].op = "created" /\ job'[s].email = job[s].email /\ job'[s] # NoJob
          BY <3>2, <5>1 DEF Jobs, NoJob
        <5> QED BY <4>1, <5>2
      <4>2. \/ /\ accounts' = accounts \cup {job[s].email}
               /\ job' = [job EXCEPT ![s].op = "created"]
            \/ accounts' = accounts
            \/ accounts' = accounts \cup {job[s].email} /\ abandoned' = abandoned \cup {job[s].email}
        BY <2>9 DEF Create
      <4> QED BY <4>1, <4>2
    <3>4. \A t \in Slots : job[t] # NoJob /\ job[t].op = "created" => job'[t] = job[t]
      BY <2>9 DEF Create, TypeOK
    <3> QED BY <3>1, <3>3, <3>4 DEF RolelessOnlyIfAbandoned
  <2>10. ASSUME NEW s \in Slots, Created(s) PROVE RolelessOnlyIfAbandoned'
    <3> DEFINE d == job[s].on
               role == IF job[s].view = "covered" THEN job[s].role ELSE segment[d]
    <3>1. job[s].on \in Devices /\ role \in Roles
      BY <2>10 DEF Created, TypeOK, Jobs, NoJob
    <3>2. \A t \in Slots : t # s => job'[t] = job[t]
      BY <2>10 DEF Created, End
    <3>3. /\ UNCHANGED accounts
          /\ Documents \subseteq Documents' /\ abandoned \subseteq abandoned'
          /\ job[s].email \in abandoned' \/ <<role, job[s].email>> \in Documents'
      BY <2>10, <3>1 DEF Created, Documents, TypeOK
    <3> HIDE DEF role
    <3> QED BY <3>1, <3>2, <3>3, NothingForgotten
  <2> QED BY <2>0, <2>1, <2>2, <2>3, <2>4, <2>5, <2>6, <2>7, <2>8, <2>9, <2>10 DEF Next
<1> QED BY <1>1, <1>2, TypeCorrect, PTL DEF Spec

-----------------------------------------------------------------------------

Of(t, d) == job[t] # NoJob /\ job[t].on = d

(* A device that is off has no call out.  While its presses do not cross, it has
   one call out at most, no menu beside it, and a session of that call's email
   once the call has set it. *)
Follows(d) ==
    /\ screen[d] = "off" => \A t \in Slots : ~Of(t, d)
    /\ ~crossed[d] =>
          /\ \A t, u \in Slots : Of(t, d) /\ Of(u, d) => t = u
          /\ \A t \in Slots : Of(t, d) =>
                /\ menuOf[d] = Nobody
                /\ job[t].op \in {"lookup", "relookup", "created"} => session[d] = job[t].email
          /\ menuOf[d] # Nobody => session[d] = menuOf[d]

SessionFollows == \A d \in Devices : Follows(d)

LEMMA OutIsAll == ASSUME TypeOK, NEW d \in Devices PROVE Out(d) = {t \in Slots : Of(t, d)}
  BY DEF Out, JobsOf, SignIns, SignUps, Of, TypeOK, Jobs

(* Only the device that starts a call has its presses cross. *)
LEMMA CrossSet ==
    ASSUME TypeOK, NEW d \in Devices, NEW c \in Devices, Cross(d)
    PROVE  crossed'[c] = IF c = d THEN Out(d) # {} ELSE crossed[c]
<1>1. CASE c = d
  BY <1>1 DEF Cross, TypeOK
<1>2. CASE c # d
  BY <1>2 DEF Cross, TypeOK
<1> QED BY <1>1, <1>2

(* A step that leaves a device alone but for ending calls of it. *)
LEMMA FollowsKept ==
    ASSUME NEW c \in Devices, Follows(c),
           session'[c] = session[c], crossed'[c] = crossed[c], menuOf'[c] = menuOf[c],
           screen'[c] = "off" => screen[c] = "off",
           \A t \in Slots : Of(t, c)' =>
              Of(t, c) /\ job'[t].op = job[t].op /\ job'[t].email = job[t].email
    PROVE  Follows(c)'
<1>1. screen'[c] = "off" => \A t \in Slots : ~Of(t, c)'
  BY DEF Follows
<1>2. ASSUME ~crossed'[c] PROVE \A t, u \in Slots : Of(t, c)' /\ Of(u, c)' => t = u
  BY <1>2 DEF Follows
<1>3. ASSUME ~crossed'[c], NEW t \in Slots, Of(t, c)'
      PROVE  /\ menuOf'[c] = Nobody
             /\ job'[t].op \in {"lookup", "relookup", "created"} => session'[c] = job'[t].email
  BY <1>3 DEF Follows
<1>4. ~crossed'[c] => (menuOf'[c] # Nobody => session'[c] = menuOf'[c])
  BY DEF Follows
<1> QED BY <1>1, <1>2, <1>3, <1>4 DEF Follows

(* A device without calls and without a menu. *)
LEMMA FollowsIdle ==
    ASSUME NEW c \in Devices, \A t \in Slots : ~Of(t, c)', menuOf'[c] = Nobody
    PROVE  Follows(c)'
  BY DEF Follows

(* A device on which presses have crossed. *)
LEMMA FollowsCrossed ==
    ASSUME NEW c \in Devices, screen'[c] # "off", crossed'[c]
    PROVE  Follows(c)'
  BY DEF Follows

(* A device with one call and without a menu. *)
LEMMA FollowsAlone ==
    ASSUME NEW c \in Devices, screen'[c] # "off", menuOf'[c] = Nobody,
           NEW s \in Slots, \A t \in Slots : Of(t, c)' => t = s,
           Of(s, c)' /\ job'[s].op \in {"lookup", "relookup", "created"} => session'[c] = job'[s].email
    PROVE  Follows(c)'
<1>1. \A t, u \in Slots : Of(t, c)' /\ Of(u, c)' => t = u
  OBVIOUS
<1>2. \A t \in Slots : Of(t, c)' /\ job'[t].op \in {"lookup", "relookup", "created"} =>
         session'[c] = job'[t].email
  OBVIOUS
<1> QED BY <1>1, <1>2 DEF Follows

(* The end of a device's last call. *)
LEMMA FollowsLast ==
    ASSUME TypeOK, NEW s \in Slots, End(s), NEW c \in Devices, crossed'[c] # crossed[c]
    PROVE  Follows(c)'
<1>1. Out(c) = {s} /\ menuOf'[c] = Nobody /\ job' = [job EXCEPT ![s] = NoJob]
  BY EndOfCall
<1>2. \A t \in Slots : Of(t, c) => t = s
  BY <1>1, OutIsAll
<1>3. \A t \in Slots : ~Of(t, c)'
  BY <1>1, <1>2 DEF Of, TypeOK
<1> QED BY <1>1, <1>3, FollowsIdle

(* A step that crosses nothing and keeps the session and the calls, or ends
   some, and shows no new menu. *)
LEMMA SessionKept ==
    ASSUME SessionFollows, UNCHANGED session,
           \A d \in Devices : /\ crossed'[d] = crossed[d]
                              /\ screen'[d] = "off" => screen[d] = "off"
                              /\ menuOf'[d] = menuOf[d],
           \A t \in Slots : \/ job'[t] = NoJob
                             \/ job'[t] = job[t]
    PROVE  SessionFollows'
<1> SUFFICES ASSUME NEW c \in Devices PROVE Follows(c)'
  BY DEF SessionFollows
<1>1. \A t \in Slots : Of(t, c)' =>
         Of(t, c) /\ job'[t].op = job[t].op /\ job'[t].email = job[t].email
  BY DEF Of
<1> QED BY <1>1, FollowsKept DEF SessionFollows

(* The session and the menu go together for any devices, emails and calls in
   flight, as long as presses do not cross. *)
THEOREM Sessions == Spec => []MenuHasSession
<1>1. Init => SessionFollows
  BY DEF Init, SessionFollows, Follows, Of
<1>2. TypeOK /\ TypeOK' /\ SessionFollows /\ [Next]_vars => SessionFollows'
  <2> SUFFICES ASSUME TypeOK, TypeOK', SessionFollows, [Next]_vars
               PROVE  SessionFollows'
    OBVIOUS
  <2>0. CASE UNCHANGED vars
    BY <2>0, SessionKept DEF vars
  <2>1. ASSUME NEW d \in Devices, Launch(d), NEW c \in Devices PROVE Follows(c)'
    <3>0. Follows(c) /\ Follows(d)
      BY DEF SessionFollows
    <3>1. /\ Out(d) = {} /\ \A t \in Slots : ~Of(t, d)
          /\ screen[d] = "off" /\ menuOf[d] = Nobody
      BY <2>1, <3>0, OutIsAll DEF Launch, Follows, TypeOK
    <3>2. /\ UNCHANGED <<session, menuOf>>
          /\ screen'[c] = IF c = d THEN "login" ELSE screen[c]
      BY <2>1 DEF Launch, TypeOK
    <3>5. c # d => crossed'[c] = crossed[c]
      BY <2>1 DEF Launch
    <3>3. CASE session[d] = Nobody
      <4>1. UNCHANGED job
        BY <2>1, <3>3 DEF Launch
      <4>2. CASE c # d
        BY <3>0, <3>2, <3>5, <4>1, <4>2, FollowsKept DEF Of
      <4>3. CASE c = d
        BY <3>1, <3>2, <4>1, <4>3, FollowsIdle DEF Of
      <4> QED BY <4>2, <4>3
    <3>4. CASE session[d] # Nobody
      <4>1. PICK s \in Slots :
               /\ job[s] = NoJob /\ job'[s].on = d /\ job'[s].email = session[d]
               /\ \A u \in Slots : u # s => job'[u] = job[u]
        BY <2>1, <3>4 DEF Launch, Start, TypeOK
      <4>2. CASE c # d
        <5>1. \A t \in Slots : Of(t, c)' => t # s
          BY <4>1, <4>2 DEF Of
        <5> QED BY <3>0, <3>2, <3>5, <4>1, <4>2, <5>1, FollowsKept DEF Of
      <4>3. CASE c = d
        <5>1. \A t \in Slots : Of(t, c)' => t = s
          BY <3>1, <4>1, <4>3 DEF Of
        <5>2. screen'[c] # "off" /\ menuOf'[c] = Nobody /\ session'[c] = job'[s].email
          BY <3>1, <3>2, <4>1, <4>3
        <5> QED BY <5>1, <5>2, FollowsAlone
      <4> QED BY <4>2, <4>3
    <3> QED BY <3>3, <3>4
  <2>2. ASSUME NEW d \in Devices, Die(d), NEW c \in Devices PROVE Follows(c)'
    <3>0. Follows(c)
      BY DEF SessionFollows
    <3>1. \A t \in Slots : job'[t] = IF Of(t, d) THEN NoJob ELSE job[t]
      BY <2>2, OutIsAll DEF Die
    <3>2. /\ screen'[c] = IF c = d THEN "off" ELSE screen[c]
          /\ menuOf'[c] = IF c = d THEN Nobody ELSE menuOf[c]
          /\ c # d => crossed'[c] = crossed[c]
          /\ UNCHANGED session
      BY <2>2 DEF Die, TypeOK
    <3>3. \A t \in Slots : Of(t, c)' => c # d /\ job'[t] = job[t] /\ Of(t, c)
      BY <3>1 DEF Of
    <3>4. CASE c # d
      BY <3>0, <3>2, <3>3, <3>4, FollowsKept
    <3>5. CASE c = d
      BY <3>2, <3>3, <3>5, FollowsIdle
    <3> QED BY <3>4, <3>5
  <2>3. ASSUME NEW d \in Devices, OpenSignUp(d) \/ Toggle(d) \/ Sync(d) PROVE SessionFollows'
    BY <2>3, SessionKept DEF OpenSignUp, Toggle, Sync, TypeOK
  <2>4. ASSUME NEW d \in Devices, Back(d) \/ LogOut(d), NEW c \in Devices PROVE Follows(c)'
    <3>0. Follows(c)
      BY DEF SessionFollows
    <3>1. \A t \in Slots :
             /\ Of(t, c)' <=> Of(t, c)
             /\ Of(t, c)' => job'[t].op = job[t].op /\ job'[t].email = job[t].email
      <4>1. CASE LogOut(d)
        BY <4>1, LogOutKeepsCalls DEF Of
      <4>2. CASE Back(d)
        BY <4>2 DEF Back, JobsOf, SignUps, Of, TypeOK, Jobs, NoJob
      <4> QED BY <2>4, <4>1, <4>2
    <3>2. /\ screen'[c] = IF c = d THEN "login" ELSE screen[c]
          /\ menuOf'[c] = IF c = d THEN Nobody ELSE menuOf[c]
      BY <2>4 DEF Back, LogOut, TypeOK
    <3>3. \/ /\ session'[c] = session[c] /\ crossed'[c] = crossed[c]
             /\ menuOf'[c] = menuOf[c]
          \/ /\ c = d /\ crossed'[c] = (Out(d) # {})
      <4>1. CASE modal[d] /\ Back(d)
        BY <4>1 DEF Back
      <4>2. CASE Cross(d) /\ session' = [session EXCEPT ![d] = Nobody]
        <5>1. crossed'[c] = IF c = d THEN Out(d) # {} ELSE crossed[c]
          BY <4>2, CrossSet
        <5>2. c # d => session'[c] = session[c]
          BY <4>2 DEF TypeOK
        <5> QED BY <3>2, <5>1, <5>2
      <4> QED BY <2>4, <4>1, <4>2 DEF Back, LogOut
    <3>4. CASE session'[c] = session[c] /\ crossed'[c] = crossed[c] /\ menuOf'[c] = menuOf[c]
      <4>1. screen'[c] = "off" => screen[c] = "off"
        BY <3>2
      <4> QED BY <3>0, <3>1, <3>4, <4>1, FollowsKept
    <3>5. CASE c = d /\ Out(d) # {} /\ crossed'[c]
      BY <3>2, <3>5, FollowsCrossed
    <3>6. CASE c = d /\ Out(d) = {}
      <4>1. \A t \in Slots : ~Of(t, d)
        BY <3>6, OutIsAll
      <4>2. \A t \in Slots : ~Of(t, c)'
        BY <3>1, <3>6, <4>1
      <4> QED BY <3>2, <3>6, <4>2, FollowsIdle
    <3> QED BY <3>3, <3>4, <3>5, <3>6
  <2>5. ASSUME NEW d \in Devices, NEW e \in Emails, LoginPressed(d, e) \/ SignUpPressed(d, e),
               NEW c \in Devices
        PROVE  Follows(c)'
    <3>0. Follows(c)
      BY DEF SessionFollows
    <3>1. /\ screen[d] # "off" /\ menuOf[d] = Nobody
          /\ UNCHANGED <<screen, session, menuOf>>
      BY <2>5 DEF LoginPressed, SignUpPressed, TypeOK
    <3>2. crossed'[c] = IF c = d THEN Out(d) # {} ELSE crossed[c]
      BY <2>5, CrossSet DEF LoginPressed, SignUpPressed
    <3>3. PICK s \in Slots :
             /\ job'[s].on = d /\ job'[s].op \in {"signIn", "create"}
             /\ \A u \in Slots : u # s => job'[u] = job[u]
      BY <2>5 DEF LoginPressed, SignUpPressed, Start, TypeOK
    <3>4. CASE c # d
      <4>1. \A t \in Slots : Of(t, c)' => t # s
        BY <3>3, <3>4 DEF Of
      <4> QED BY <3>0, <3>1, <3>2, <3>3, <3>4, <4>1, FollowsKept DEF Of
    <3>5. CASE c = d /\ Out(d) # {}
      BY <3>1, <3>2, <3>5, FollowsCrossed
    <3>6. CASE c = d /\ Out(d) = {}
      <4>1. \A t \in Slots : ~Of(t, c)
        BY <3>6, OutIsAll
      <4>2. \A t \in Slots : Of(t, c)' => t = s
        BY <3>3, <4>1 DEF Of
      <4>3. job'[s].op \notin {"lookup", "relookup", "created"}
        BY <3>3
      <4> QED BY <3>1, <3>6, <4>2, <4>3, FollowsAlone
    <3> QED BY <3>4, <3>5, <3>6
  <2>6. ASSUME NEW s \in Slots, SignedIn(s) \/ Create(s), NEW c \in Devices PROVE Follows(c)'
    <3> DEFINE d == job[s].on
    <3>0. Follows(c)
      BY DEF SessionFollows
    <3>1. job[s] \in Jobs /\ job[s] # NoJob
      BY <2>6 DEF SignedIn, Create, TypeOK, Jobs, NoJob
    <3>12. crossed'[c] = crossed[c] \/ Follows(c)'
      BY <2>6, FollowsLast DEF SignedIn, Create
    <3> SUFFICES ASSUME crossed'[c] = crossed[c] PROVE Follows(c)'
      BY <3>12
    <3>2. UNCHANGED <<screen, menuOf>>
      BY <2>6 DEF SignedIn, Create
    <3>3. /\ \A t \in Slots : t # s => job'[t] = job[t]
          /\ \/ job'[s] = NoJob /\ UNCHANGED session
             \/ /\ job'[s].on = d /\ job'[s].email = job[s].email
                /\ \/ session' = [session EXCEPT ![d] = job[s].email]
                   \/ job'[s].op = "refused" /\ UNCHANGED session
      BY <2>6, <3>1 DEF SignedIn, Create, End, TypeOK, Jobs
    <3>4. d \in Devices /\ Of(s, d)
      BY <3>1 DEF Jobs, Of
    <3>5. \A t \in Slots : Of(t, c)' => Of(t, c)
      BY <3>1, <3>3 DEF Of
    <3>6. CASE crossed'[c]
      BY <3>0, <3>2, <3>5, <3>6 DEF Follows
    <3>7. CASE c # d
      <4>1. \A t \in Slots : Of(t, c)' => t # s
        BY <3>3, <3>7 DEF Of
      <4>2. session'[c] = session[c]
        BY <3>3, <3>4, <3>7 DEF TypeOK
      <4> QED BY <3>0, <3>2, <3>3, <3>5, <4>1, <4>2, FollowsKept
    <3>8. CASE c = d /\ ~crossed'[c]
      <4>1. /\ \A t \in Slots : Of(t, c) => t = s
            /\ menuOf[c] = Nobody /\ screen[c] # "off"
        BY <3>0, <3>2, <3>4, <3>8 DEF Follows
      <4>2. \A t \in Slots : Of(t, c)' => t = s
        BY <3>5, <4>1
      <4>3. Of(s, c)' /\ job'[s].op \in {"lookup", "relookup", "created"} => session'[c] = job'[s].email
        BY <3>3, <3>4, <3>8 DEF Of, TypeOK
      <4> QED BY <3>2, <4>1, <4>2, <4>3, FollowsAlone
    <3> QED BY <3>6, <3>7, <3>8
  <2>7. ASSUME NEW s \in Slots, LookedUp(s) \/ Created(s), NEW c \in Devices PROVE Follows(c)'
    <3> DEFINE d == job[s].on
    <3>0. Follows(c)
      BY DEF SessionFollows
    <3>1. job[s] \in Jobs /\ job[s].op \in {"lookup", "relookup", "created"} /\ job[s] # NoJob
      BY <2>7 DEF LookedUp, Created, TypeOK, Jobs, NoJob
    <3>12. crossed'[c] = crossed[c] \/ Follows(c)'
      BY <2>7, FollowsLast DEF LookedUp, Created
    <3> SUFFICES ASSUME crossed'[c] = crossed[c] PROVE Follows(c)'
      BY <3>12
    <3>2. job' = [job EXCEPT ![s] = NoJob] /\ UNCHANGED session
      BY <2>7 DEF LookedUp, Created, End
    <3>3. \/ UNCHANGED <<screen, menuOf>>
          \/ \E role \in Roles : /\ screen' = [screen EXCEPT ![d] = Menu[role]]
                                 /\ menuOf' = [menuOf EXCEPT ![d] = job[s].email]
      BY <2>7, <3>1 DEF LookedUp, Created, Present, TypeOK, Jobs, Roles
    <3>4. d \in Devices /\ Of(s, d)
      BY <3>1 DEF Jobs, Of
    <3>5. screen'[c] = "off" => screen[c] = "off"
      BY <3>3, <3>4 DEF TypeOK, Roles, Menu
    <3>6. \A t \in Slots : Of(t, c)' => Of(t, c) /\ t # s /\ job'[t] = job[t]
      BY <3>2 DEF Of, TypeOK
    <3>7. menuOf'[c] = menuOf[c] \/ (c = d /\ menuOf'[c] = job[s].email)
      BY <3>3, <3>4 DEF TypeOK
    <3>8. CASE menuOf'[c] = menuOf[c]
      BY <3>0, <3>2, <3>5, <3>6, <3>8, FollowsKept
    <3>9. CASE crossed'[c]
      BY <3>0, <3>2, <3>5, <3>6, <3>9 DEF Follows
    <3>10. CASE c = d /\ menuOf'[c] = job[s].email /\ ~crossed'[c]
      <4>1. /\ \A t \in Slots : Of(t, c) => t = s
            /\ session[c] = job[s].email
        BY <3>0, <3>1, <3>2, <3>4, <3>10 DEF Follows
      <4>2. \A t \in Slots : ~Of(t, c)'
        BY <3>6, <4>1
      <4> QED BY <3>2, <3>10, <4>1, <4>2 DEF Follows
    <3> QED BY <3>7, <3>8, <3>9, <3>10
  <2>8. ASSUME NEW s \in Slots, Refused(s), NEW c \in Devices PROVE Follows(c)'
    <3>1. UNCHANGED <<session, screen, menuOf>>
      BY <2>8 DEF Refused
    <3>2. \A t \in Slots : Of(t, c)' => Of(t, c) /\ job'[t] = job[t]
      BY <2>8 DEF Refused, End, Of, TypeOK
    <3>3. CASE crossed'[c] = crossed[c]
      BY <3>1, <3>2, <3>3, FollowsKept DEF SessionFollows
    <3>4. CASE crossed'[c] # crossed[c]
      BY <2>8, <3>4, FollowsLast DEF Refused
    <3> QED BY <3>3, <3>4
  <2> QED BY <2>0, <2>1, <2>2, <2>3, <2>4, <2>5, <2>6, <2>7, <2>8 DEF Next, SessionFollows
<1>3. SessionFollows => MenuHasSession
  BY DEF SessionFollows, Follows, MenuHasSession
<1> QED BY <1>1, <1>2, <1>3, TypeCorrect, PTL DEF Spec

=============================================================================
