--------------------------- MODULE OnboardingProofs ---------------------------
(***************************************************************************)
(* Proofs about Onboarding, for any number of requests, applications and   *)
(* contacts.                                                               *)
(***************************************************************************)
EXTENDS Onboarding, TLAPS

\* The places of a request that works on an application there is.
Working == {"change", "invite"} \cup AfterStatus

\* A request in hand of an application or of a subscription is in hand of one that exists.
Refers ==
    \A r \in Requests :
        /\ req[r].pc \in Working => applications[req[r].app] # NotApplied
        /\ req[r].pc \in {"activate", "start"} => subscriptions[req[r].app] # NotProvisioned
        /\ req[r].pc = "invite" /\ req[r].go => subscriptions[req[r].app] # NotProvisioned

TypeInv == TypeOK /\ Refers

-----------------------------------------------------------------------------
(* Types *)

LEMMA InitTypes == Init => TypeInv
  <1> SUFFICES ASSUME Init PROVE TypeInv
    OBVIOUS
  <1>1. applicant \in [Apps -> Contacts]
    BY OnboardingAssumption DEF Init
  <1>2. applications \in [Apps -> {NotApplied} \cup ApplicationRow]
    BY DEF Init
  <1>3. subscriptions \in [Apps -> {NotProvisioned} \cup SubscriptionRow]
    BY DEF Init
  <1>4. req \in [Requests -> ReqState] /\ Refers
    BY DEF Init, ReqState, Idle, Refers, Working, AfterStatus
  <1>5. deletes \in 0..MaxDeletes
    BY OnboardingAssumption DEF Init
  <1>q. QED BY <1>1, <1>2, <1>3, <1>4, <1>5 DEF Init, TypeInv, TypeOK

(* What a request has in its record in each place. *)
LEMMA Places ==
    ASSUME TypeInv, NEW r \in Requests
    PROVE  /\ req[r].pc = "create" => req[r] \in Creating
           /\ req[r].pc = "change" => req[r] \in Changing
           /\ req[r].pc \in AfterStatus \ {"commit"} => req[r] \in Following
           /\ req[r].pc = "commit" => req[r] \in Provisioning
           /\ req[r].pc = "invite" => req[r] \in Inviting
           /\ req[r].pc \in {"user", "customer"} => req[r] \in Registering
  BY DEF TypeInv, TypeOK, ReqState, Idle, Creating, Changing, Following, Provisioning,
         Inviting, Registering, AfterStatus

LEMMA InHand ==
    ASSUME TypeInv, NEW r \in Requests, req[r].pc \in Working
    PROVE  /\ req[r].app \in Apps
           /\ applications[req[r].app] \in ApplicationRow
           /\ req[r].pc # "change" => req[r].go \in BOOLEAN
  <1>1. req[r].app \in Apps /\ (req[r].pc # "change" => req[r].go \in BOOLEAN)
    BY Places DEF Working, AfterStatus, Changing, Following, Provisioning, Inviting
  <1>q. QED BY <1>1 DEF TypeInv, TypeOK, Refers

LEMMA Rows ==
    ASSUME TypeInv, NEW a \in Apps
    PROVE  /\ applications[a] = NotApplied \/ applications[a] \in ApplicationRow
           /\ subscriptions[a] = NotProvisioned \/ subscriptions[a] \in SubscriptionRow
           /\ subscriptions[a].status # "none" => subscriptions[a] \in SubscriptionRow
           /\ subscriptions[a] \in SubscriptionRow =>
                subscriptions[a].status \in {"PENDING", "ACTIVE", "CANCELLED"}
  BY DEF TypeInv, TypeOK, NotProvisioned, SubscriptionRow

LEMMA RowsApplied == \A row \in ApplicationRow : row # NotApplied
  BY DEF ApplicationRow, NotApplied

LEMMA Transitions ==
    ASSUME NEW s \in Statuses
    PROVE  APPLICATION_TRANSITIONS[s] \subseteq Statuses
  BY DEF Statuses, APPLICATION_TRANSITIONS

\* A step of one request that takes back no row.
LEMMA StepTypes ==
    ASSUME TypeInv, NEW r \in Requests, NEW st \in ReqState, Goto(r, st),
           applicant' = applicant,
           applications' \in [Apps -> {NotApplied} \cup ApplicationRow],
           users' \subseteq Contacts, customers' \subseteq Customer,
           subscriptions' \in [Apps -> {NotProvisioned} \cup SubscriptionRow],
           invited' \subseteq Contacts, gone' = gone, halves' \subseteq Contacts,
           deletes' = deletes,
           \A a \in Apps : applications[a] # NotApplied => applications'[a] # NotApplied,
           \A a \in Apps : subscriptions[a] # NotProvisioned => subscriptions'[a] # NotProvisioned,
           st.pc \in Working => applications'[st.app] # NotApplied,
           st.pc \in {"activate", "start"} => subscriptions'[st.app] # NotProvisioned,
           st.pc = "invite" /\ st.go => subscriptions'[st.app] # NotProvisioned
    PROVE  TypeInv'
  <1>1. req' \in [Requests -> ReqState] /\ req'[r] = st
    BY DEF Goto, TypeInv, TypeOK
  <1>2. ASSUME NEW p \in Requests
        PROVE  /\ req'[p].pc \in Working => applications'[req'[p].app] # NotApplied
               /\ req'[p].pc \in {"activate", "start"} => subscriptions'[req'[p].app] # NotProvisioned
               /\ req'[p].pc = "invite" /\ req'[p].go => subscriptions'[req'[p].app] # NotProvisioned
    <2>1. CASE p = r
      BY <2>1, <1>1
    <2>2. CASE p # r
      <3>1. req'[p] = req[p]
        BY <2>2 DEF Goto, TypeInv, TypeOK
      <3>2. req[p].pc \in Working => req[p].app \in Apps
        BY InHand
      <3>3. {"activate", "start", "invite"} \subseteq Working
        BY DEF Working, AfterStatus
      <3>q. QED BY <3>1, <3>2, <3>3 DEF TypeInv, Refers
    <2>q. QED BY <2>1, <2>2
  <1>3. Refers'
    BY <1>2 DEF Refers
  <1>q. QED BY <1>1, <1>3 DEF TypeInv, TypeOK

\* A step that only moves one request.
LEMMA MoveTypes ==
    ASSUME TypeInv, NEW r \in Requests, NEW st \in ReqState, Goto(r, st), Stay,
           st.pc \in Working => applications[st.app] # NotApplied,
           st.pc \in {"activate", "start"} => subscriptions[st.app] # NotProvisioned,
           st.pc = "invite" /\ st.go => subscriptions[st.app] # NotProvisioned
    PROVE  TypeInv'
  <1>1. UNCHANGED <<applicant, applications, users, customers, subscriptions, invited, gone,
                    halves, deletes>>
    BY DEF Stay, rows, traces
  <1>2. TypeOK
    BY DEF TypeInv
  <1>q. QED BY <1>1, <1>2, StepTypes DEF TypeOK

LEMMA AfterTypes ==
    ASSUME NEW a \in Apps, NEW go \in BOOLEAN
    PROVE  /\ AfterProvisioning(a, go) \in ReqState
           /\ AfterProvisioning(a, go).pc \in {"idle", "activate"}
           /\ AfterProvisioning(a, go).pc \in Working => AfterProvisioning(a, go).app = a
           /\ AfterProvisioning(a, go).pc = "activate" => AfterProvisioning(a, go).app = a
  BY DEF AfterProvisioning, ReqState, Idle, Following, Working, AfterStatus

LEMMA IdleTypes == Idle \in ReqState /\ Idle.pc = "idle" /\ "idle" \notin Working
  BY DEF Idle, ReqState, Working, AfterStatus

LEMMA ApplyingTypes ==
    ASSUME TypeInv, NEW r \in Requests, Applying(r)
    PROVE  TypeInv'
  <1>1. ASSUME NEW a \in Apps, CreateRead(r, a)
        PROVE  TypeInv'
    <2>1. PICK u \in Contacts \cup {Nobody} : Goto(r, [pc |-> "create", app |-> a, customer |-> u])
      BY <1>1 DEF CreateRead, TypeInv, TypeOK, Customer
    <2> DEFINE st == [pc |-> "create", app |-> a, customer |-> u]
    <2>2. st \in ReqState /\ st.pc \notin Working /\ st.pc \notin {"activate", "start", "invite"}
      BY DEF ReqState, Creating, Working, AfterStatus
    <2> HIDE DEF st
    <2>q. QED BY <1>1, <2>1, <2>2, MoveTypes DEF CreateRead, st
  <1>2. CASE CreateCommit(r)
    <2> DEFINE row == [status |-> "SUBMITTED", customer |-> req[r].customer,
                       trail |-> "SUBMITTED", whole |-> TRUE, torn |-> FALSE, lost |-> FALSE]
    <2>1. req[r] \in Creating
      BY <1>2, Places DEF CreateCommit
    <2>2. row \in ApplicationRow /\ row # NotApplied
      BY <2>1 DEF Creating, ApplicationRow, NotApplied, Statuses, APPLICATION_TRANSITIONS
    <2>3. applications' = [applications EXCEPT ![req[r].app] = row]
      BY <1>2 DEF CreateCommit
    <2> HIDE DEF row
    <2>4. /\ applications' \in [Apps -> {NotApplied} \cup ApplicationRow]
          /\ \A a \in Apps : applications[a] # NotApplied => applications'[a] # NotApplied
      BY <2>2, <2>3 DEF TypeInv, TypeOK
    <2>5. TypeOK /\ UNCHANGED <<applicant, users, customers, subscriptions, invited, gone,
                                halves, deletes>> /\ Goto(r, Idle)
      BY <1>2 DEF CreateCommit, traces, TypeInv
    <2>q. QED BY <2>4, <2>5, StepTypes, IdleTypes DEF TypeOK
  <1>q. QED BY <1>1, <1>2 DEF Applying

\* What a change of status leads to.
LEMMA StatusCommits ==
    ASSUME TypeInv, NEW r \in Requests, StatusCommit(r)
    PROVE  /\ req[r] \in Changing /\ req[r].app \in Apps
           /\ applications[req[r].app] \in ApplicationRow
           /\ applications' = [applications EXCEPT ![req[r].app] =
                 [applications[req[r].app] EXCEPT
                    !.status = req[r].to, !.trail = req[r].to,
                    !.whole = @ /\ req[r].from = applications[req[r].app].trail]]
           /\ \E st \in ReqState :
                /\ Goto(r, st)
                /\ st.pc \in {"provision", "find", "idle"}
                /\ st.pc # "idle" => st.app = req[r].app /\ st.go \in BOOLEAN
                /\ st.pc = "provision" <=> req[r].to = "APPROVED"
                /\ st.pc = "find" <=> req[r].to = "ACTIVE"
                /\ st.pc = "find" => st.go
  <1>1. req[r].pc = "change"
    BY DEF StatusCommit
  <1>2. req[r] \in Changing
    BY <1>1, Places
  <1>3. req[r].app \in Apps /\ applications[req[r].app] \in ApplicationRow
    BY <1>1, InHand DEF Working
  <1> DEFINE st == IF req[r].to = "APPROVED" THEN [pc |-> "provision", app |-> req[r].app, go |-> FALSE]
                   ELSE IF req[r].to = "ACTIVE" THEN [pc |-> "find", app |-> req[r].app, go |-> TRUE]
                   ELSE Idle
  <1>4. Goto(r, st)
    BY DEF StatusCommit
  <1>5. /\ st \in ReqState
        /\ st.pc \in {"provision", "find", "idle"}
        /\ st.pc # "idle" => st.app = req[r].app /\ st.go \in BOOLEAN
        /\ st.pc = "provision" <=> req[r].to = "APPROVED"
        /\ st.pc = "find" <=> req[r].to = "ACTIVE"
        /\ st.pc = "find" => st.go
    BY <1>3 DEF ReqState, Idle, Following
  <1> HIDE DEF st
  <1>q. QED BY <1>2, <1>3, <1>4, <1>5 DEF StatusCommit

LEMMA ReviewingTypes ==
    ASSUME TypeInv, NEW r \in Requests, Reviewing(r)
    PROVE  TypeInv'
  <1>1. ASSUME NEW a \in Apps, NEW to \in Targets[a], StatusRead(r, a, to)
        PROVE  TypeInv'
    <2> DEFINE st == [pc |-> "change", app |-> a, from |-> applications[a].status, to |-> to]
               row == [applications[a] EXCEPT
                         !.torn = @ \/ \E p \in Requests : req[p].pc = "change" /\ req[p].app = a]
    <2>1. applications[a] \in ApplicationRow
      BY <1>1, Rows DEF StatusRead
    <2>2. applications[a].status \in Statuses /\ to \in Statuses
      BY <1>1, <2>1, Transitions DEF ApplicationRow, StatusRead
    <2>3. st \in ReqState /\ st.pc = "change" /\ st.app = a
      BY <2>2 DEF ReqState, Changing
    <2>4. row \in ApplicationRow /\ row # NotApplied
      BY <2>1 DEF ApplicationRow, NotApplied
    <2>5. applications' = [applications EXCEPT ![a] = row]
      BY <1>1 DEF StatusRead
    <2> HIDE DEF st, row
    <2>6. /\ applications' \in [Apps -> {NotApplied} \cup ApplicationRow]
          /\ applications'[a] # NotApplied
          /\ \A b \in Apps : applications[b] # NotApplied => applications'[b] # NotApplied
      BY <2>4, <2>5 DEF TypeInv, TypeOK
    <2>7. TypeOK /\ UNCHANGED <<applicant, users, customers, subscriptions, invited, gone,
                                halves, deletes>> /\ Goto(r, st)
      BY <1>1 DEF StatusRead, traces, TypeInv, st
    <2>q. QED BY <2>3, <2>6, <2>7, StepTypes DEF TypeOK
  <1>2. CASE StatusCommit(r)
    <2> DEFINE a == req[r].app
               row == [applications[a] EXCEPT
                         !.status = req[r].to, !.trail = req[r].to,
                         !.whole = @ /\ req[r].from = applications[a].trail]
    <2>1. req[r] \in Changing /\ a \in Apps /\ applications[a] \in ApplicationRow
          /\ applications' = [applications EXCEPT ![a] = row]
      BY <1>2, StatusCommits
    <2>2. row \in ApplicationRow /\ row # NotApplied
      BY <2>1 DEF ApplicationRow, Changing, NotApplied
    <2> HIDE DEF row
    <2>3. /\ applications' \in [Apps -> {NotApplied} \cup ApplicationRow]
          /\ applications'[a] # NotApplied
          /\ \A b \in Apps : applications[b] # NotApplied => applications'[b] # NotApplied
      BY <2>1, <2>2 DEF TypeInv, TypeOK
    <2>4. PICK st \in ReqState : /\ Goto(r, st)
                                 /\ st.pc \in {"provision", "find", "idle"}
                                 /\ st.pc # "idle" => st.app = a
      BY <1>2, StatusCommits
    <2>5. TypeOK /\ UNCHANGED <<applicant, users, customers, subscriptions, invited, gone,
                                halves, deletes>>
      BY <1>2 DEF StatusCommit, traces, TypeInv
    <2>q. QED BY <2>3, <2>4, <2>5, StepTypes, IdleTypes DEF TypeOK
  <1>q. QED BY <1>1, <1>2 DEF Reviewing

LEMMA ProvisioningTypes ==
    ASSUME TypeInv, NEW r \in Requests, ProvisioningSteps(r)
    PROVE  TypeInv'
  <1> DEFINE a == req[r].app
  <1>0. req[r].pc \in Working
    BY DEF ProvisioningSteps, ProvisionRead, EnsureCustomer, EnsureAccount, ProvisionCommit,
           Invite, Working, AfterStatus
  <1>1. /\ a \in Apps /\ applications[a] \in ApplicationRow /\ applications[a] # NotApplied
        /\ req[r].pc # "change" => req[r].go \in BOOLEAN
    BY <1>0, InHand DEF TypeInv, Refers
  <1>2. CASE ProvisionRead(r)
    <2>1. CASE subscriptions[a] # NotProvisioned /\ Goto(r, AfterProvisioning(a, req[r].go))
      <3>1. req[r].go \in BOOLEAN
        BY <1>1, <1>2 DEF ProvisionRead
      <3>q. QED BY <1>1, <1>2, <2>1, <3>1, AfterTypes, MoveTypes DEF ProvisionRead
    <2>2. CASE Goto(r, [pc |-> "ensure", app |-> a, go |-> req[r].go])
      <3> DEFINE st == [pc |-> "ensure", app |-> a, go |-> req[r].go]
      <3>1. st \in ReqState /\ st.pc = "ensure" /\ st.app = a
        BY <1>1, <1>2 DEF ProvisionRead, ReqState, Following
      <3> HIDE DEF st
      <3>q. QED BY <1>1, <1>2, <2>2, <3>1, MoveTypes DEF ProvisionRead, st
    <2>q. QED BY <1>2, <2>1, <2>2 DEF ProvisionRead
  <1>3. ASSUME NEW u \in Contacts, NEW known \in BOOLEAN, NEW opened \in BOOLEAN, Stay,
               req[r].pc # "change",
               Goto(r, [pc |-> "commit", app |-> a, go |-> req[r].go, user |-> u,
                        known |-> known, opened |-> opened])
        PROVE  TypeInv'
    <2> DEFINE st == [pc |-> "commit", app |-> a, go |-> req[r].go, user |-> u,
                      known |-> known, opened |-> opened]
    <2>1. st \in ReqState /\ st.pc = "commit" /\ st.app = a
      BY <1>1, <1>3 DEF ReqState, Provisioning
    <2> HIDE DEF st
    <2>q. QED BY <1>1, <1>3, <2>1, MoveTypes DEF st
  <1>4. CASE EnsureCustomer(r)
    <2>1. CASE Goto(r, [req[r] EXCEPT !.pc = "account"])
      <3> DEFINE st == [req[r] EXCEPT !.pc = "account"]
      <3>1. req[r] \in Following
        BY <1>4, Places DEF EnsureCustomer, AfterStatus
      <3>2. st \in ReqState /\ st.pc = "account" /\ st.app = a
        BY <3>1 DEF ReqState, Following
      <3> HIDE DEF st
      <3>q. QED BY <1>1, <1>4, <2>1, <3>2, MoveTypes DEF EnsureCustomer, st
    <2>2. CASE \E u \in Contacts : ForCustomer(r, u)
      BY <1>3, <1>4, <2>2 DEF EnsureCustomer, ForCustomer
    <2>3. applications[a].customer \in Contacts \cup {Nobody}
      BY <1>1 DEF ApplicationRow
    <2>4. \A c \in customers : c.user \in Contacts
      BY DEF TypeInv, TypeOK, Customer
    <2>q. QED BY <1>4, <2>1, <2>2, <2>3, <2>4 DEF EnsureCustomer
  <1>5. CASE EnsureAccount(r)
    <2>1. applicant[a] \in Contacts /\ users \subseteq Contacts
      BY <1>1 DEF TypeInv, TypeOK
    <2>2. PICK u \in Contacts, opened \in BOOLEAN :
              Goto(r, [pc |-> "commit", app |-> a, go |-> req[r].go, user |-> u,
                       known |-> FALSE, opened |-> opened])
      BY <1>5, <2>1 DEF EnsureAccount
    <2>q. QED BY <1>3, <1>5, <2>2 DEF EnsureAccount
  <1>6. CASE ProvisionCommit(r)
    <2> DEFINE u == req[r].user
    <2>1. req[r] \in Provisioning /\ u \in Contacts /\ req[r].go \in BOOLEAN
      BY <1>6, Places DEF ProvisionCommit, Provisioning
    <2>2. users' \subseteq Contacts /\ halves' \subseteq Contacts
      BY <1>6, <2>1 DEF ProvisionCommit, TypeInv, TypeOK
    <2>3. customers' \subseteq Customer
      <3>1. applicant[a].mobile \in Mobiles
        BY <1>1, OnboardingAssumption DEF TypeInv, TypeOK
      <3>2. [user |-> u, mobile |-> applicant[a].mobile, active |-> FALSE] \in Customer
        BY <2>1, <3>1 DEF Customer
      <3>q. QED BY <1>6, <3>2 DEF ProvisionCommit, TypeInv, TypeOK
    <2>4. /\ applications' \in [Apps -> {NotApplied} \cup ApplicationRow]
          /\ applications'[a] # NotApplied
          /\ \A b \in Apps : applications[b] # NotApplied => applications'[b] # NotApplied
      <3> DEFINE row == [applications[a] EXCEPT !.customer = u]
      <3>1. row \in ApplicationRow /\ row # NotApplied
        BY <1>1, <2>1 DEF ApplicationRow, NotApplied
      <3>2. applications' = [applications EXCEPT ![a] = row]
        BY <1>6 DEF ProvisionCommit
      <3> HIDE DEF row
      <3>q. QED BY <1>1, <3>1, <3>2 DEF TypeInv, TypeOK
    <2>5. /\ subscriptions' \in [Apps -> {NotProvisioned} \cup SubscriptionRow]
          /\ subscriptions'[a] # NotProvisioned
          /\ \A b \in Apps : subscriptions[b] # NotProvisioned => subscriptions'[b] # NotProvisioned
      <3> DEFINE row == [status |-> "PENDING", customer |-> u]
      <3>1. row \in SubscriptionRow /\ row # NotProvisioned
        BY <2>1 DEF SubscriptionRow, NotProvisioned
      <3>2. subscriptions' = [subscriptions EXCEPT ![a] = row]
        BY <1>6 DEF ProvisionCommit
      <3> HIDE DEF row
      <3>q. QED BY <1>1, <3>1, <3>2 DEF TypeInv, TypeOK
    <2>6. UNCHANGED <<applicant, invited, gone, deletes>> /\ TypeOK
      BY <1>6 DEF ProvisionCommit, TypeInv
    <2>7. CASE Goto(r, [pc |-> "invite", app |-> a, go |-> req[r].go, user |-> u])
      <3> DEFINE st == [pc |-> "invite", app |-> a, go |-> req[r].go, user |-> u]
      <3>1. st \in ReqState /\ st.pc = "invite" /\ st.app = a
        BY <1>1, <2>1 DEF ReqState, Inviting
      <3>2. Goto(r, st)
        BY <2>7
      <3> HIDE DEF st
      <3>q. QED BY <2>2, <2>3, <2>4, <2>5, <2>6, <3>1, <3>2, StepTypes DEF TypeOK
    <2>8. CASE Goto(r, AfterProvisioning(a, req[r].go))
      <3>1. \E st \in ReqState : /\ Goto(r, st)
                                 /\ st.pc \in {"idle", "activate"}
                                 /\ st.pc \in Working => st.app = a
                                 /\ st.pc = "activate" => st.app = a
        BY <1>1, <2>1, <2>8, AfterTypes
      <3>q. QED BY <2>2, <2>3, <2>4, <2>5, <2>6, <3>1, StepTypes DEF TypeOK
    <2>q. QED BY <1>6, <2>7, <2>8 DEF ProvisionCommit
  <1>7. CASE Invite(r)
    <2>1. req[r] \in Inviting /\ req[r].go \in BOOLEAN /\ req[r].user \in Contacts
      BY <1>7, Places DEF Invite, Inviting
    <2>2. req[r].go => subscriptions[a] # NotProvisioned
      BY <1>7 DEF Invite, TypeInv, Refers
    <2>3. invited' \subseteq Contacts
      BY <1>7, <2>1 DEF Invite, TypeInv, TypeOK
    <2>4. UNCHANGED <<applicant, applications, users, customers, subscriptions, gone, halves,
                      deletes>> /\ TypeOK
      BY <1>7 DEF Invite, rows, TypeInv
    <2>5. \E st \in ReqState : /\ Goto(r, st)
                               /\ st.pc \in {"idle", "activate"}
                               /\ st.pc \in Working => st.app = a
                               /\ st.pc = "activate" => st.app = a /\ req[r].go
      <3>1. CASE req[r].go
        BY <1>1, <1>7, <2>1, <3>1, AfterTypes DEF Invite
      <3>2. CASE ~req[r].go
        BY <1>7, <3>2, IdleTypes DEF Invite, AfterProvisioning
      <3>q. QED BY <3>1, <3>2
    <2>q. QED BY <1>1, <2>2, <2>3, <2>4, <2>5, StepTypes DEF TypeOK
  <1>q. QED BY <1>2, <1>4, <1>5, <1>6, <1>7 DEF ProvisioningSteps

LEMMA ActivatingTypes ==
    ASSUME TypeInv, NEW r \in Requests, Activating(r)
    PROVE  TypeInv'
  <1> DEFINE a == req[r].app
  <1>0. req[r].pc \in {"find", "activate", "start"}
    BY DEF Activating, ActivateFind, ActivateRead, ActivateCommit
  <1>1. /\ a \in Apps /\ applications[a] # NotApplied /\ req[r] \in Following
        /\ req[r].pc \in {"activate", "start"} => subscriptions[a] # NotProvisioned
    BY <1>0, InHand, Places DEF TypeInv, Refers, Working, AfterStatus
  <1>2. CASE ActivateFind(r)
    <2>1. CASE subscriptions[a] # NotProvisioned /\ Goto(r, AfterProvisioning(a, TRUE))
      BY ZenonT(30), <1>1, <1>2, <2>1, AfterTypes, MoveTypes DEF ActivateFind
    <2>2. CASE Goto(r, [pc |-> "provision", app |-> a, go |-> TRUE])
      <3> DEFINE st == [pc |-> "provision", app |-> a, go |-> TRUE]
      <3>1. st \in ReqState /\ st.pc = "provision" /\ st.app = a
        BY <1>1 DEF ReqState, Following
      <3> HIDE DEF st
      <3>q. QED BY <1>1, <1>2, <2>2, <3>1, MoveTypes DEF ActivateFind, st
    <2>q. QED BY <1>2, <2>1, <2>2 DEF ActivateFind
  <1>3. CASE ActivateRead(r)
    <2>1. CASE Goto(r, Idle)
      BY <1>3, <2>1, IdleTypes, MoveTypes DEF ActivateRead
    <2>2. CASE Goto(r, [req[r] EXCEPT !.pc = "start"])
      <3> DEFINE st == [req[r] EXCEPT !.pc = "start"]
      <3>1. st \in ReqState /\ st.pc = "start" /\ st.app = a
        BY <1>1 DEF ReqState, Following
      <3> HIDE DEF st
      <3>2. subscriptions[a] # NotProvisioned
        BY <1>1, <1>3 DEF ActivateRead
      <3>q. QED BY <1>1, <1>3, <2>2, <3>1, <3>2, MoveTypes DEF ActivateRead, st
    <2>q. QED BY <1>3, <2>1, <2>2 DEF ActivateRead
  <1>4. CASE ActivateCommit(r)
    <2> DEFINE row == [subscriptions[a] EXCEPT !.status = "ACTIVE"]
    <2>1. subscriptions[a] \in SubscriptionRow
      BY <1>1, <1>4, Rows DEF ActivateCommit
    <2>2. row \in SubscriptionRow /\ row # NotProvisioned
      BY <2>1 DEF SubscriptionRow, NotProvisioned
    <2>3. subscriptions' = [subscriptions EXCEPT ![a] = row]
      BY <1>4 DEF ActivateCommit
    <2> HIDE DEF row
    <2>4. /\ subscriptions' \in [Apps -> {NotProvisioned} \cup SubscriptionRow]
          /\ \A b \in Apps : subscriptions[b] # NotProvisioned => subscriptions'[b] # NotProvisioned
      BY <1>1, <2>2, <2>3 DEF TypeInv, TypeOK
    <2>5. customers' \subseteq Customer
      <3>1. \A c \in Customer, b \in BOOLEAN : [c EXCEPT !.active = b] \in Customer
        BY DEF Customer
      <3>2. \A c \in Customer : c.active \in BOOLEAN
        BY DEF Customer
      <3>q. QED BY <1>4, <3>1, <3>2 DEF ActivateCommit, TypeInv, TypeOK
    <2>6. TypeOK /\ Goto(r, Idle)
          /\ UNCHANGED <<applicant, applications, users, invited, gone, halves, deletes>>
      BY <1>4 DEF ActivateCommit, traces, TypeInv
    <2>q. QED BY <2>4, <2>5, <2>6, StepTypes, IdleTypes DEF TypeOK
  <1>q. QED BY <1>2, <1>3, <1>4 DEF Activating

LEMMA JoiningTypes ==
    ASSUME TypeInv, NEW r \in Requests, Joining(r)
    PROVE  TypeInv'
  <1>1. ASSUME NEW u \in Contacts, RegisterRead(r, u)
        PROVE  TypeInv'
    <2> DEFINE st == [pc |-> "user", user |-> u]
    <2>1. st \in ReqState /\ st.pc = "user"
      BY DEF ReqState, Registering
    <2> HIDE DEF st
    <2>q. QED BY <1>1, <2>1, MoveTypes DEF RegisterRead, st, Working, AfterStatus
  <1>2. CASE RegisterUser(r)
    <2> DEFINE st == [req[r] EXCEPT !.pc = "customer"]
    <2>1. req[r] \in Registering
      BY <1>2, Places DEF RegisterUser
    <2>2. st \in ReqState /\ st.pc = "customer"
      BY <2>1 DEF ReqState, Registering
    <2>3. Goto(r, st)
      BY <1>2 DEF RegisterUser, Goto, TypeInv, TypeOK
    <2> HIDE DEF st
    <2>4. users' \subseteq Contacts
      BY <1>2, <2>1 DEF RegisterUser, TypeInv, TypeOK, Registering
    <2>5. TypeOK /\ UNCHANGED <<applicant, applications, customers, subscriptions, invited,
                                gone, halves, deletes>>
      BY <1>2 DEF RegisterUser, traces, TypeInv
    <2>q. QED BY <2>2, <2>3, <2>4, <2>5, StepTypes DEF TypeOK, Working, AfterStatus
  <1>3. CASE RegisterCustomer(r)
    <2>1. req[r] \in Registering
      BY <1>3, Places DEF RegisterCustomer
    <2>2. [user |-> req[r].user, mobile |-> req[r].user.mobile, active |-> FALSE] \in Customer
      BY <2>1, OnboardingAssumption DEF Registering, Customer
    <2>3. customers' \subseteq Customer
      BY <1>3, <2>2 DEF RegisterCustomer, TypeInv, TypeOK
    <2>4. TypeOK /\ Goto(r, Idle)
          /\ UNCHANGED <<applicant, applications, users, subscriptions, invited, gone, halves,
                         deletes>>
      BY <1>3 DEF RegisterCustomer, traces, TypeInv
    <2>q. QED BY <2>3, <2>4, StepTypes, IdleTypes DEF TypeOK
  <1>q. QED BY <1>1, <1>2, <1>3 DEF Joining

\* What a request that ends early leaves on the applications.
LEMMA Abandons ==
    ASSUME TypeInv, NEW r \in Requests, Abandon(r)
    PROVE  /\ applications' \in [Apps -> {NotApplied} \cup ApplicationRow]
           /\ \A a \in Apps :
                \/ applications'[a] = applications[a]
                \/ /\ applications[a] \in ApplicationRow
                   /\ applications'[a] = [applications[a] EXCEPT !.lost = TRUE]
           /\ \A a \in Apps : applications[a] # NotApplied <=> applications'[a] # NotApplied
           /\ \A a \in Apps :
                (req[r].pc \in AfterStatus \/ (req[r].pc = "invite" /\ req[r].go))
                  /\ req[r].app = a => applications'[a].lost
  <1> DEFINE a == req[r].app
             failing == req[r].pc \in AfterStatus \/ (req[r].pc = "invite" /\ req[r].go)
  <1>1. CASE failing
    <2>1. a \in Apps /\ applications[a] \in ApplicationRow
      BY <1>1, InHand DEF Working
    <2> DEFINE row == [applications[a] EXCEPT !.lost = TRUE]
    <2>9. row \in ApplicationRow /\ row.lost
      BY <2>1 DEF ApplicationRow
    <2>2. row \in ApplicationRow /\ row # NotApplied /\ row.lost /\ applications[a] # NotApplied
      BY <2>1, <2>9, RowsApplied
    <2>3. applications' = [applications EXCEPT ![a] = row]
      BY <1>1 DEF Abandon
    <2>4. \A b \in Apps : applications'[b] = IF b = a THEN row ELSE applications[b]
      BY <2>3 DEF TypeInv, TypeOK
    <2>5. applications' \in [Apps -> {NotApplied} \cup ApplicationRow]
      BY <2>2, <2>3 DEF TypeInv, TypeOK
    <2>6. \A b \in Apps : applications'[b] = applications[b]
                          \/ (applications[b] \in ApplicationRow
                              /\ applications'[b] = [applications[b] EXCEPT !.lost = TRUE])
      BY <2>1, <2>4
    <2> HIDE DEF row
    <2>7. \A b \in Apps : applications[b] # NotApplied <=> applications'[b] # NotApplied
      BY <2>1, <2>2, <2>4
    <2>8. applications'[a].lost
      BY <2>1, <2>2, <2>4
    <2>q. QED BY <2>5, <2>6, <2>7, <2>8
  <1>2. CASE ~failing
    BY <1>2 DEF Abandon, TypeInv, TypeOK
  <1>q. QED BY <1>1, <1>2

LEMMA AbandonTypes ==
    ASSUME TypeInv, NEW r \in Requests, Abandon(r)
    PROVE  TypeInv'
  <1>1. halves' \subseteq Contacts
    <2>1. req[r].pc = "customer" => req[r].user \in Contacts
      BY Places DEF Registering
    <2>q. QED BY <2>1 DEF Abandon, TypeInv, TypeOK
  <1>2. TypeOK /\ Goto(r, Idle)
        /\ UNCHANGED <<applicant, users, customers, subscriptions, invited, gone, deletes>>
    BY DEF Abandon, TypeInv
  <1>q. QED BY <1>1, <1>2, Abandons, StepTypes, IdleTypes DEF TypeOK

\* What the deletion of a customer leaves of the applications.
LEMMA Deletions ==
    ASSUME TypeInv, NEW u \in Contacts, DeleteCustomer(u)
    PROVE  /\ applications' \in [Apps -> {NotApplied} \cup ApplicationRow]
           /\ \A a \in Apps : applications[a] # NotApplied <=> applications'[a] # NotApplied
           /\ \A a \in Apps : applications[a] # NotApplied =>
                /\ applications'[a] \in ApplicationRow
                /\ applications'[a].status = applications[a].status
                /\ applications'[a].trail = applications[a].trail
                /\ applications'[a].whole = applications[a].whole
                /\ applications'[a].torn = applications[a].torn
                /\ applications'[a].customer =
                      IF applications[a].customer = u THEN Nobody ELSE applications[a].customer
                /\ applications[a].lost => applications'[a].lost
                /\ subscriptions[a] # NotProvisioned /\ subscriptions[a].customer = u =>
                      applications'[a].lost
                /\ (\E r \in Requests : req[r].pc = "commit" /\ req[r].user = u
                                          /\ ~req[r].opened /\ req[r].app = a) =>
                      applications'[a].lost
  <1> DEFINE served == {a \in Apps : subscriptions[a] # NotProvisioned
                                      /\ subscriptions[a].customer = u}
             failing == {req[r].app : r \in {p \in Requests : req[p].pc = "commit" /\ req[p].user = u
                                                              /\ ~req[p].opened}}
             row(a) == [applications[a] EXCEPT
                          !.customer = IF @ = u THEN Nobody ELSE @,
                          !.lost = @ \/ a \in served \cup failing]
  <1>1. applications' = [a \in Apps |-> IF applications[a] = NotApplied THEN NotApplied
                                        ELSE row(a)]
    BY DEF DeleteCustomer
  <1>2. ASSUME NEW a \in Apps, applications[a] # NotApplied
        PROVE  /\ row(a) \in ApplicationRow
               /\ row(a) # NotApplied
               /\ row(a).status = applications[a].status
               /\ row(a).trail = applications[a].trail
               /\ row(a).whole = applications[a].whole
               /\ row(a).torn = applications[a].torn
               /\ row(a).customer =
                     IF applications[a].customer = u THEN Nobody ELSE applications[a].customer
               /\ applications[a].lost => row(a).lost
               /\ a \in served => row(a).lost
               /\ a \in failing => row(a).lost
    <2> HIDE DEF served, failing
    <2>1. applications[a] \in ApplicationRow
      BY <1>2, Rows
    <2>q. QED BY <2>1 DEF ApplicationRow, NotApplied
  <1>3. \A a \in Apps : applications[a] # NotApplied => applications'[a] = row(a)
    BY <1>1
  <1>4. \A a \in Apps : applications[a] = NotApplied => applications'[a] = NotApplied
    BY <1>1
  <1>5. \A a \in Apps : (\E r \in Requests : req[r].pc = "commit" /\ req[r].user = u
                                               /\ ~req[r].opened /\ req[r].app = a)
                        => a \in failing
    OBVIOUS
  <1>6. \A a \in Apps : subscriptions[a] # NotProvisioned /\ subscriptions[a].customer = u
                        => a \in served
    OBVIOUS
  <1>7. applications' \in [Apps -> {NotApplied} \cup ApplicationRow]
    <2> HIDE DEF row
    <2>q. QED BY <1>1, <1>2
  <1> HIDE DEF served, failing, row
  <1>q. QED BY <1>2, <1>3, <1>4, <1>5, <1>6, <1>7

\* And of the requests.
LEMMA DeletedRequests ==
    ASSUME TypeInv, NEW u \in Contacts, DeleteCustomer(u), NEW r \in Requests
    PROVE  /\ req'[r] \in ReqState
           /\ req'[r] = Idle \/ (req'[r].pc = req[r].pc)
           /\ req'[r].pc # "idle" /\ req[r].pc # "invite" => req'[r] = req[r]
           /\ req[r].pc = "invite" => /\ req'[r].pc = "invite"
                                     /\ req'[r].app = req[r].app /\ req'[r].user = req[r].user
           /\ req'[r].pc \in {"activate", "start"} =>
                ~(subscriptions[req[r].app] # NotProvisioned
                  /\ subscriptions[req[r].app].customer = u)
           /\ req[r].pc = "invite" /\ req'[r].go =>
                /\ req[r].go
                /\ ~(subscriptions[req[r].app] # NotProvisioned
                     /\ subscriptions[req[r].app].customer = u)
           /\ req[r].pc = "invite" /\ req[r].go
                /\ ~(subscriptions[req[r].app] # NotProvisioned
                     /\ subscriptions[req[r].app].customer = u) => req'[r].go
           /\ req'[r].pc \in {"create", "commit", "customer"} => req'[r] = req[r]
           /\ req'[r].pc = "create" => req[r].customer # u
           /\ req'[r].pc = "commit" => req[r].user # u \/ req[r].opened
           /\ req'[r].pc = "customer" => req[r].user # u
           /\ req[r].pc \in AfterStatus /\ req'[r] = Idle =>
                \/ req[r].pc = "commit" /\ req[r].user = u /\ ~req[r].opened
                \/ /\ req[r].pc \in {"activate", "start"}
                   /\ subscriptions[req[r].app] # NotProvisioned
                   /\ subscriptions[req[r].app].customer = u
  <1> DEFINE served == {a \in Apps : subscriptions[a] # NotProvisioned
                                      /\ subscriptions[a].customer = u}
  <1>1. req'[r] = Without(u, served, req[r])
    BY DEF DeleteCustomer
  <1>2. req[r].pc \in Working => req[r].app \in Apps
    BY InHand
  <1>3. req[r].pc \in {"activate", "start", "invite"} =>
          (req[r].app \in served <=> (subscriptions[req[r].app] # NotProvisioned
                                      /\ subscriptions[req[r].app].customer = u))
    BY <1>2 DEF Working, AfterStatus
  <1> HIDE DEF served
  <1>4. req[r] \in ReqState
    BY DEF TypeInv, TypeOK
  <1>5. CASE req[r].pc = "invite"
    <2>1. req[r] \in Inviting
      BY <1>5, Places
    <2>2. req'[r] = IF req[r].app \in served THEN [req[r] EXCEPT !.go = FALSE] ELSE req[r]
      BY <1>1, <1>5 DEF Without
    <2>3. req'[r] \in Inviting /\ req'[r].pc = "invite" /\ req'[r].app = req[r].app
          /\ req'[r].user = req[r].user
          /\ (req'[r].go <=> req[r].go /\ req[r].app \notin served)
      BY <2>1, <2>2 DEF Inviting
    <2>q. QED BY <1>3, <1>5, <2>3 DEF ReqState, Idle, AfterStatus
  <1>6. CASE req[r].pc # "invite"
    <2>1. CASE \/ req[r].pc = "create" /\ req[r].customer = u
               \/ req[r].pc = "commit" /\ req[r].user = u /\ ~req[r].opened
               \/ req[r].pc = "customer" /\ req[r].user = u
               \/ req[r].pc \in {"activate", "start"} /\ req[r].app \in served
      <3>1. req'[r] = Idle
        BY <1>1, <2>1 DEF Without
      <3>q. QED BY <1>3, <1>6, <2>1, <3>1, IdleTypes DEF AfterStatus, Idle
    <2>2. CASE ~ \/ req[r].pc = "create" /\ req[r].customer = u
                 \/ req[r].pc = "commit" /\ req[r].user = u /\ ~req[r].opened
                 \/ req[r].pc = "customer" /\ req[r].user = u
                 \/ req[r].pc \in {"activate", "start"} /\ req[r].app \in served
      <3>1. req'[r] = req[r]
        BY <1>1, <1>6, <2>2 DEF Without
      <3>q. QED BY <1>3, <1>4, <1>6, <2>2, <3>1 DEF AfterStatus, Idle
    <2>q. QED BY <2>1, <2>2
  <1>q. QED BY <1>5, <1>6

LEMMA StaffTypes ==
    ASSUME TypeInv, Staff
    PROVE  TypeInv'
  <1>1. ASSUME NEW a \in Apps, CancelSubscription(a)
        PROVE  TypeInv'
    <2> DEFINE row == [subscriptions[a] EXCEPT !.status = "CANCELLED"]
    <2>1. row \in SubscriptionRow /\ row # NotProvisioned
      BY <1>1, Rows DEF CancelSubscription, SubscriptionRow, NotProvisioned
    <2>2. subscriptions' = [subscriptions EXCEPT ![a] = row]
      BY <1>1 DEF CancelSubscription
    <2> HIDE DEF row
    <2>3. /\ subscriptions' \in [Apps -> {NotProvisioned} \cup SubscriptionRow]
          /\ \A b \in Apps : subscriptions[b] # NotProvisioned => subscriptions'[b] # NotProvisioned
      BY <2>1, <2>2 DEF TypeInv, TypeOK
    <2>4. UNCHANGED <<applicant, applications, users, customers, invited, gone, halves, deletes,
                      req>>
      BY <1>1 DEF CancelSubscription, traces
    <2>5. \A r \in Requests : req[r].pc \in Working => req[r].app \in Apps
      BY InHand
    <2>6. Refers'
      BY <2>3, <2>4, <2>5 DEF TypeInv, Refers, Working, AfterStatus
    <2>q. QED BY <2>3, <2>4, <2>6 DEF TypeInv, TypeOK
  <1>2. ASSUME NEW u \in Contacts, DeleteCustomer(u)
        PROVE  TypeInv'
    <2> DEFINE served == {a \in Apps : subscriptions[a] # NotProvisioned
                                        /\ subscriptions[a].customer = u}
    <2>1. /\ \A a \in Apps : applications[a] # NotApplied =>
                applications'[a] \in ApplicationRow
          /\ \A a \in Apps : applications[a] # NotApplied <=> applications'[a] # NotApplied
          /\ applications' \in [Apps -> {NotApplied} \cup ApplicationRow]
      BY <1>2, Deletions
    <2>2. /\ subscriptions' \in [Apps -> {NotProvisioned} \cup SubscriptionRow]
          /\ \A a \in Apps : subscriptions[a] # NotProvisioned /\ a \notin served =>
                subscriptions'[a] # NotProvisioned
      BY <1>2 DEF DeleteCustomer, TypeInv, TypeOK
    <2>3. ASSUME NEW r \in Requests
          PROVE  /\ req'[r] \in ReqState
                 /\ req'[r].pc \in Working => req'[r].app = req[r].app /\ req'[r].pc = req[r].pc
                 /\ req'[r].pc \in {"activate", "start"} => req[r].app \notin served
                 /\ req'[r].pc = "invite" /\ req'[r].go => req[r].app \notin served /\ req[r].go
      BY <1>2, DeletedRequests, IdleTypes
    <2>4. Refers'
      <3> SUFFICES ASSUME NEW r \in Requests
                   PROVE  /\ req'[r].pc \in Working => applications'[req'[r].app] # NotApplied
                          /\ req'[r].pc \in {"activate", "start"} =>
                                subscriptions'[req'[r].app] # NotProvisioned
                          /\ req'[r].pc = "invite" /\ req'[r].go =>
                                subscriptions'[req'[r].app] # NotProvisioned
        BY DEF Refers
      <3>1. {"activate", "start", "invite"} \subseteq Working
        BY DEF Working, AfterStatus
      <3>2. CASE req'[r].pc \in Working
        <4>1. req'[r].app = req[r].app /\ req'[r].pc = req[r].pc /\ req[r].app \in Apps
          BY <2>3, <3>2, InHand
        <4>2. applications[req[r].app] # NotApplied
          BY <3>2, <4>1 DEF TypeInv, Refers
        <4>3. applications'[req'[r].app] # NotApplied
          BY <2>1, <4>1, <4>2
        <4>4. req'[r].pc \in {"activate", "start"} => subscriptions'[req'[r].app] # NotProvisioned
          <5> HIDE DEF served
          <5>q. QED BY <2>2, <2>3, <4>1 DEF TypeInv, Refers
        <4>5. req'[r].pc = "invite" /\ req'[r].go => subscriptions'[req'[r].app] # NotProvisioned
          <5> HIDE DEF served
          <5>q. QED BY <2>2, <2>3, <4>1 DEF TypeInv, Refers
        <4>q. QED BY <4>3, <4>4, <4>5
      <3>3. CASE req'[r].pc \notin Working
        BY <3>1, <3>3
      <3>q. QED BY <3>2, <3>3
    <2>5. req' \in [Requests -> ReqState]
      BY <1>2, <2>3 DEF DeleteCustomer
    <2>6. deletes' \in 0..MaxDeletes
      <3>1. deletes \in 0..MaxDeletes /\ MaxDeletes \in Nat
        BY OnboardingAssumption DEF TypeInv, TypeOK
      <3>2. deletes < MaxDeletes /\ deletes' = deletes + 1
        BY <1>2 DEF DeleteCustomer
      <3>q. QED BY <3>1, <3>2
    <2>7. users' \subseteq Contacts /\ customers' \subseteq Customer /\ gone' \subseteq Contacts
      BY <1>2 DEF DeleteCustomer, TypeInv, TypeOK
    <2>8. UNCHANGED <<applicant, invited, halves>>
      BY <1>2 DEF DeleteCustomer
    <2>q. QED BY <2>1, <2>2, <2>4, <2>5, <2>6, <2>7, <2>8 DEF TypeInv, TypeOK
  <1>q. QED BY <1>1, <1>2 DEF Staff

LEMMA StutterTypes == TypeInv /\ UNCHANGED vars => TypeInv'
  BY DEF vars, rows, traces, TypeInv, TypeOK, Refers

LEMMA TypeCorrect == Spec => []TypeInv
  <1>1. Init => TypeInv
    BY InitTypes
  <1>2. TypeInv /\ [Next]_vars => TypeInv'
    BY ApplyingTypes, ReviewingTypes, ProvisioningTypes, ActivatingTypes, JoiningTypes,
       AbandonTypes, StaffTypes, StutterTypes DEF Next, Statements
  <1>q. QED BY <1>1, <1>2, PTL DEF Spec

\* Every reachable state is well typed, for any number of requests, applications and contacts.
THEOREM TypesAreCorrect == Spec => []TypeOK
  <1>1. TypeInv => TypeOK
    BY DEF TypeInv
  <1>q. QED BY <1>1, TypeCorrect, PTL

-----------------------------------------------------------------------------
(* ApprovedIsProvisioned *)

Live(a) == applications[a] # NotApplied

\* What an approved application is due: its subscription, now or by a follow-up, or a loss.
Reached(a) ==
    \/ applications[a].lost
    \/ subscriptions[a] # NotProvisioned
    \/ \E r \in Requests : Follows(r, a)

\* The same of a completed application, and an active subscription.
Completed(a) ==
    \/ applications[a].lost
    \/ subscriptions[a].status \in {"ACTIVE", "CANCELLED"}
    \/ \E r \in Requests : Follows(r, a) /\ req[r].go

\* Only a completed application is activated.
Going == \A r \in Requests : req[r].pc \in {"find", "activate", "start"} => req[r].go

\* The follow-up that sends an invite has made the subscription.
Held(a) == applications[a].lost \/ subscriptions[a] # NotProvisioned

Sent == \A r \in Requests, a \in Apps : req[r].pc = "invite" /\ req[r].app = a => Held(a)

Due ==
    /\ Sent
    /\ \A a \in Apps : Live(a) =>
          /\ applications[a].status \in Approved => Reached(a)
          /\ applications[a].status = "ACTIVE" => Completed(a)
    /\ \A r \in Requests, a \in Apps : req[r].pc = "change" /\ req[r].app = a =>
          /\ req[r].to \in APPLICATION_TRANSITIONS[req[r].from]
          /\ req[r].from \in Approved => Reached(a)
    /\ Going

FollowPcs == AfterStatus \cup {"invite"}

\* A step of one request loses nothing that is due if what it follows up is carried on.
LEMMA Carried ==
    ASSUME TypeInv, NEW r \in Requests, NEW st, Goto(r, st), NEW a \in Apps,
           applications[a].lost => applications'[a].lost,
           subscriptions[a] # NotProvisioned => subscriptions'[a] # NotProvisioned,
           subscriptions[a].status \in {"ACTIVE", "CANCELLED"} =>
                subscriptions'[a].status \in {"ACTIVE", "CANCELLED"},
           Follows(r, a) => \/ st.pc \in FollowPcs /\ st.app = a
                            \/ subscriptions'[a] # NotProvisioned
                            \/ applications'[a].lost,
           Follows(r, a) /\ req[r].go => \/ st.pc \in FollowPcs /\ st.app = a /\ st.go
                                         \/ subscriptions'[a].status \in {"ACTIVE", "CANCELLED"}
                                         \/ applications'[a].lost
    PROVE  /\ Reached(a) => Reached(a)'
           /\ Completed(a) => Completed(a)'
           /\ Held(a) => Held(a)'
  <1>1. req'[r] = st /\ \A p \in Requests : p # r => req'[p] = req[p]
    BY DEF Goto, TypeInv, TypeOK
  <1>2. \A p \in Requests : p # r /\ Follows(p, a) => Follows(p, a)'
    BY <1>1 DEF Follows
  <1>3. st.pc \in FollowPcs /\ st.app = a => Follows(r, a)'
    BY <1>1 DEF Follows, FollowPcs
  <1>4. Reached(a) => Reached(a)'
    BY <1>2, <1>3 DEF Reached
  <1>5. Completed(a) => Completed(a)'
    BY <1>1, <1>2, <1>3 DEF Completed
  <1>6. Held(a) => Held(a)'
    BY DEF Held
  <1>q. QED BY <1>4, <1>5, <1>6

\* Where a step that only moves one request leads.
LEMMA Moved ==
    ASSUME TypeInv, NEW r \in Requests, NEW st, Goto(r, st),
           UNCHANGED <<applications, subscriptions>>, NEW a \in Apps,
           Follows(r, a) => \/ st.pc \in FollowPcs /\ st.app = a /\ (req[r].go => st.go)
                            \/ subscriptions[a] # NotProvisioned /\ ~req[r].go
                            \/ subscriptions[a].status = "ACTIVE"
    PROVE  /\ Reached(a) => Reached(a)'
           /\ Completed(a) => Completed(a)'
           /\ Held(a) => Held(a)'
  <1>1. subscriptions[a].status = "ACTIVE" => subscriptions[a] # NotProvisioned
    BY DEF NotProvisioned
  <1>q. QED BY <1>1, Carried

\* What every step does for what is due.
Keeps == \A a \in Apps : Live(a) => /\ Reached(a) => Reached(a)'
                                    /\ Completed(a) => Completed(a)'
                                    /\ Held(a) => Held(a)'

\* A step that keeps it, changes no status and starts no change keeps Due.
LEMMA KeepsDue ==
    ASSUME TypeInv, TypeInv', Due, Keeps, Going',
           \A a \in Apps : Live(a)' =>
                \/ Live(a) /\ applications'[a].status = applications[a].status
                \/ applications'[a].status \notin Approved,
           \A r \in Requests : req'[r].pc = "change" => req'[r] = req[r],
           \A r \in Requests, a \in Apps : req'[r].pc = "invite" /\ req'[r].app = a =>
                \/ req[r].pc = "invite" /\ req[r].app = a
                \/ Held(a)'
    PROVE  Due'
  <1>1. ASSUME NEW a \in Apps, Live(a)'
        PROVE  /\ applications'[a].status \in Approved => Reached(a)'
               /\ applications'[a].status = "ACTIVE" => Completed(a)'
    BY <1>1 DEF Due, Keeps, Approved
  <1>2. ASSUME NEW r \in Requests, NEW a \in Apps, req'[r].pc = "change", req'[r].app = a
        PROVE  /\ req'[r].to \in APPLICATION_TRANSITIONS[req'[r].from]
               /\ req'[r].from \in Approved => Reached(a)'
    <2>1. req'[r] = req[r] /\ req[r].pc = "change" /\ req[r].app = a
      BY <1>2
    <2>2. Live(a)
      BY <2>1 DEF Working, TypeInv, Refers, Live
    <2>3. req[r].from \in Approved => Reached(a)
      BY <2>1 DEF Due
    <2>q. QED BY <2>1, <2>2, <2>3 DEF Due, Keeps
  <1>3. ASSUME NEW r \in Requests, NEW a \in Apps, req'[r].pc = "invite", req'[r].app = a
        PROVE  Held(a)'
    <2>1. CASE req[r].pc = "invite" /\ req[r].app = a
      <3>1. Live(a) /\ Held(a)
        BY <2>1 DEF Working, TypeInv, Refers, Live, Due, Sent
      <3>q. QED BY <3>1 DEF Keeps
    <2>q. QED BY <1>3, <2>1
  <1>q. QED BY <1>1, <1>2, <1>3 DEF Due, Going, Sent

LEMMA StepDue ==
    ASSUME TypeInv, TypeInv', Due, NEW r \in Requests, NEW st, Goto(r, st), Keeps,
           st.pc # "change", st.pc \in {"find", "activate", "start"} => st.go,
           st.pc = "invite" => \A a \in Apps : st.app = a => Held(a)',
           \A a \in Apps : Live(a)' =>
                \/ Live(a) /\ applications'[a].status = applications[a].status
                \/ applications'[a].status \notin Approved
    PROVE  Due'
  <1>1. req'[r] = st /\ \A p \in Requests : p # r => req'[p] = req[p]
    BY DEF Goto, TypeInv, TypeOK
  <1>2. Going'
    BY <1>1 DEF Due, Going
  <1>3. \A p \in Requests : req'[p].pc = "change" => req'[p] = req[p]
    BY <1>1
  <1>4. ASSUME NEW p \in Requests, NEW a \in Apps, req'[p].pc = "invite", req'[p].app = a
        PROVE  (req[p].pc = "invite" /\ req[p].app = a) \/ Held(a)'
    BY <1>1, <1>4
  <1>q. QED BY <1>2, <1>3, <1>4, KeepsDue

LEMMA MoveDue ==
    ASSUME TypeInv, TypeInv', Due, NEW r \in Requests, NEW st, Goto(r, st),
           UNCHANGED <<applications, subscriptions>>,
           st.pc \notin {"change", "invite"}, st.pc \in {"find", "activate", "start"} => st.go,
           \A a \in Apps : Follows(r, a) =>
                \/ st.pc \in FollowPcs /\ st.app = a /\ (req[r].go => st.go)
                \/ subscriptions[a] # NotProvisioned /\ ~req[r].go
                \/ subscriptions[a].status = "ACTIVE"
    PROVE  Due'
  <1>1. Keeps
    BY Moved DEF Keeps
  <1>q. QED BY <1>1, StepDue DEF Live

LEMMA AfterDue ==
    ASSUME NEW a \in Apps, NEW go \in BOOLEAN
    PROVE  LET st == AfterProvisioning(a, go)
           IN  /\ st.pc \notin {"change", "invite"}
               /\ st.pc \in {"find", "activate", "start"} => st.go
               /\ go => st.pc \in FollowPcs /\ st.app = a /\ st.go
  BY DEF AfterProvisioning, Idle, FollowPcs, AfterStatus

LEMMA ApplyingDue ==
    ASSUME TypeInv, TypeInv', Due, NEW r \in Requests, Applying(r)
    PROVE  Due'
  <1>1. ASSUME NEW a \in Apps, CreateRead(r, a)
        PROVE  Due'
    <2>1. PICK u : Goto(r, [pc |-> "create", app |-> a, customer |-> u])
      BY <1>1 DEF CreateRead
    <2> DEFINE st == [pc |-> "create", app |-> a, customer |-> u]
    <2>2. st.pc \notin {"change", "invite", "find", "activate", "start"}
      OBVIOUS
    <2>3. \A b \in Apps : ~Follows(r, b)
      BY <1>1 DEF CreateRead, Follows, Idle, AfterStatus
    <2> HIDE DEF st
    <2>q. QED BY <1>1, <2>1, <2>2, <2>3, MoveDue DEF CreateRead, Stay, rows, st
  <1>2. CASE CreateCommit(r)
    <2>1. req[r].app \in Apps
      BY <1>2, Places DEF CreateCommit, Creating
    <2>2. /\ \A a \in Apps : Live(a) => applications'[a] = applications[a]
          /\ \A a \in Apps : Live(a)' /\ ~Live(a) => applications'[a].status = "SUBMITTED"
      BY <1>2, <2>1 DEF CreateCommit, Live, TypeInv, TypeOK
    <2>3. \A a \in Apps : ~Follows(r, a)
      BY <1>2 DEF CreateCommit, Follows, AfterStatus
    <2>4. Goto(r, Idle) /\ subscriptions' = subscriptions
      BY <1>2 DEF CreateCommit
    <2>5. Keeps
      BY <2>2, <2>3, <2>4, Carried DEF Keeps
    <2>6. Idle.pc \notin {"change", "invite", "find", "activate", "start"}
      BY DEF Idle
    <2>q. QED BY <2>2, <2>4, <2>5, <2>6, StepDue DEF Approved
  <1>q. QED BY <1>1, <1>2 DEF Applying

LEMMA ReviewingDue ==
    ASSUME TypeInv, TypeInv', Due, NEW r \in Requests, Reviewing(r)
    PROVE  Due'
  <1>1. ASSUME NEW a \in Apps, NEW to \in Targets[a], StatusRead(r, a, to)
        PROVE  Due'
    <2> DEFINE st == [pc |-> "change", app |-> a, from |-> applications[a].status, to |-> to]
    <2>1. Goto(r, st) /\ subscriptions' = subscriptions /\ req[r] = Idle
      BY <1>1 DEF StatusRead
    <2>2. \A b \in Apps : ~Follows(r, b)
      BY <2>1 DEF Follows, Idle, AfterStatus
    <2>3. \A b \in Apps : /\ Live(b) <=> Live(b)'
                          /\ Live(b) => /\ applications'[b].status = applications[b].status
                                        /\ applications'[b].lost = applications[b].lost
      <3> DEFINE row == [applications[a] EXCEPT
                           !.torn = @ \/ \E p \in Requests : req[p].pc = "change" /\ req[p].app = a]
      <3>1. applications[a] \in ApplicationRow
        BY <1>1, Rows DEF StatusRead
      <3>2. row \in ApplicationRow /\ row.status = applications[a].status
            /\ row.lost = applications[a].lost
        BY <3>1 DEF ApplicationRow
      <3>3. applications' = [applications EXCEPT ![a] = row]
        BY <1>1 DEF StatusRead
      <3> HIDE DEF row
      <3>q. QED BY <3>1, <3>2, <3>3, RowsApplied DEF Live, TypeInv, TypeOK
    <2>4. Keeps
      <3> HIDE DEF st
      <3>q. QED BY <2>1, <2>2, <2>3, Carried DEF Keeps
    <2>5. req'[r] = st /\ \A p \in Requests : p # r => req'[p] = req[p]
      BY <2>1 DEF Goto, TypeInv, TypeOK
    <2>6. ASSUME NEW b \in Apps, Live(b)'
          PROVE  /\ applications'[b].status \in Approved => Reached(b)'
                 /\ applications'[b].status = "ACTIVE" => Completed(b)'
      BY <2>3, <2>4, <2>6 DEF Due, Keeps
    <2>7. ASSUME NEW p \in Requests, NEW b \in Apps, req'[p].pc = "change", req'[p].app = b
          PROVE  /\ req'[p].to \in APPLICATION_TRANSITIONS[req'[p].from]
                 /\ req'[p].from \in Approved => Reached(b)'
      <3>1. CASE p = r
        <4>1. b = a /\ Live(a) /\ req'[p].from = applications[a].status /\ req'[p].to = to
          BY <1>1, <2>5, <2>7, <3>1 DEF StatusRead, Live
        <4>2. to \in APPLICATION_TRANSITIONS[applications[a].status]
          BY <1>1 DEF StatusRead
        <4>q. QED BY <2>4, <4>1, <4>2 DEF Due, Keeps
      <3>2. CASE p # r
        <4>1. req'[p] = req[p]
          BY <2>5, <3>2
        <4>2. Live(b)
          BY <2>7, <4>1 DEF Working, TypeInv, Refers, Live
        <4>q. QED BY <2>4, <2>7, <4>1, <4>2 DEF Due, Keeps
      <3>q. QED BY <3>1, <3>2
    <2>8. Going'
      BY <2>5 DEF Due, Going
    <2>9. ASSUME NEW p \in Requests, NEW b \in Apps, req'[p].pc = "invite", req'[p].app = b
          PROVE  Held(b)'
      <3>1. req[p].pc = "invite" /\ req[p].app = b
        BY <2>5, <2>9
      <3>2. Live(b) /\ Held(b)
        BY <3>1 DEF Working, TypeInv, Refers, Live, Due, Sent
      <3>q. QED BY <2>4, <3>2 DEF Keeps
    <2>q. QED BY <2>6, <2>7, <2>8, <2>9 DEF Due, Sent
  <1>2. CASE StatusCommit(r)
    <2>1. PICK a \in Apps : a = req[r].app
      BY <1>2, StatusCommits
    <2>2. /\ req[r] \in Changing /\ req[r].pc = "change" /\ applications[a] \in ApplicationRow
          /\ applications' = [applications EXCEPT ![a] =
                [applications[a] EXCEPT !.status = req[r].to, !.trail = req[r].to,
                                        !.whole = @ /\ req[r].from = applications[a].trail]]
          /\ subscriptions' = subscriptions
      BY <1>2, <2>1, StatusCommits DEF Changing, StatusCommit
    <2>3. PICK st \in ReqState :
              /\ Goto(r, st)
              /\ st.pc \in {"provision", "find", "idle"}
              /\ st.pc # "idle" => st.app = a /\ st.go \in BOOLEAN
              /\ st.pc = "provision" <=> req[r].to = "APPROVED"
              /\ st.pc = "find" <=> req[r].to = "ACTIVE"
              /\ st.pc = "find" => st.go
      BY <1>2, <2>1, StatusCommits
    <2>4. /\ applications'[a].status = req[r].to
          /\ applications'[a].lost = applications[a].lost
          /\ \A b \in Apps : b # a => applications'[b] = applications[b]
          /\ Live(a)
      BY <2>2, RowsApplied DEF ApplicationRow, TypeInv, TypeOK, Live
    <2>5. \A b \in Apps : ~Follows(r, b)
      BY <2>2 DEF Follows, AfterStatus
    <2>6. Keeps
      BY <2>2, <2>3, <2>4, <2>5, Carried DEF Keeps
    <2>7. req'[r] = st /\ \A p \in Requests : p # r => req'[p] = req[p]
      BY <2>3 DEF Goto, TypeInv, TypeOK
    <2>8. /\ req[r].to = "APPROVED" => Reached(a)'
          /\ req[r].to = "ACTIVE" => Reached(a)' /\ Completed(a)'
      BY <2>3, <2>7 DEF Reached, Completed, Follows, AfterStatus
    <2>9. req[r].to \in Approved => Reached(a)'
      <3>1. req[r].to \in APPLICATION_TRANSITIONS[req[r].from]
            /\ (req[r].from \in Approved => Reached(a)) /\ req[r].from \in Statuses
        BY <2>1, <2>2 DEF Due, Changing
      <3>2. req[r].to \in Approved => req[r].to \in {"APPROVED"} \/ req[r].from \in Approved
        BY <3>1 DEF Approved, Statuses, APPLICATION_TRANSITIONS
      <3>q. QED BY <2>4, <2>6, <2>8, <3>1, <3>2 DEF Keeps
    <2>10. ASSUME NEW b \in Apps, Live(b)'
           PROVE  /\ applications'[b].status \in Approved => Reached(b)'
                  /\ applications'[b].status = "ACTIVE" => Completed(b)'
      <3>1. CASE b = a
        BY <2>4, <2>8, <2>9, <3>1
      <3>2. CASE b # a
        BY <2>4, <2>6, <2>10, <3>2 DEF Due, Keeps, Live
      <3>q. QED BY <3>1, <3>2
    <2>11. ASSUME NEW p \in Requests, NEW b \in Apps, req'[p].pc = "change", req'[p].app = b
           PROVE  /\ req'[p].to \in APPLICATION_TRANSITIONS[req'[p].from]
                  /\ req'[p].from \in Approved => Reached(b)'
      <3>1. req'[p] = req[p]
        BY <2>3, <2>7, <2>11
      <3>2. Live(b)
        BY <2>11, <3>1 DEF Working, TypeInv, Refers, Live
      <3>q. QED BY <2>6, <2>11, <3>1, <3>2 DEF Due, Keeps
    <2>12. Going'
      BY <2>3, <2>7 DEF Due, Going
    <2>13. ASSUME NEW p \in Requests, NEW b \in Apps, req'[p].pc = "invite", req'[p].app = b
          PROVE  Held(b)'
      <3>1. req[p].pc = "invite" /\ req[p].app = b
        BY <2>3, <2>7, <2>13
      <3>2. Live(b) /\ Held(b)
        BY <3>1 DEF Working, TypeInv, Refers, Live, Due, Sent
      <3>q. QED BY <2>6, <3>2 DEF Keeps
    <2>q. QED BY <2>10, <2>11, <2>12, <2>13 DEF Due, Sent
  <1>q. QED BY <1>1, <1>2 DEF Reviewing

LEMMA ProvisioningDue ==
    ASSUME TypeInv, TypeInv', Due, NEW r \in Requests, ProvisioningSteps(r)
    PROVE  Due'
  <1>0. PICK a \in Apps : a = req[r].app
    <2>1. req[r].pc \in Working
      BY DEF ProvisioningSteps, ProvisionRead, EnsureCustomer, EnsureAccount, ProvisionCommit,
             Invite, Working, AfterStatus
    <2>q. QED BY <2>1, InHand
  <1>1. \A b \in Apps : Follows(r, b) => b = a
    BY <1>0 DEF Follows
  <1>2. req[r].pc \in {"provision", "ensure", "account", "commit", "invite"}
    BY DEF ProvisioningSteps, ProvisionRead, EnsureCustomer, EnsureAccount, ProvisionCommit,
           Invite
  <1>3. req[r].go \in BOOLEAN
    BY <1>2, InHand DEF Working, AfterStatus
  <1>4. CASE ProvisionRead(r)
    <2>1. CASE subscriptions[a] # NotProvisioned /\ Goto(r, AfterProvisioning(a, req[r].go))
      BY <1>1, <1>3, <1>4, <2>1, AfterDue, MoveDue DEF ProvisionRead, Stay, rows
    <2>2. CASE Goto(r, [pc |-> "ensure", app |-> a, go |-> req[r].go])
      <3> DEFINE st == [pc |-> "ensure", app |-> a, go |-> req[r].go]
      <3>1. st.pc = "ensure" /\ st.app = a /\ st.go = req[r].go /\ st.pc \in FollowPcs
        BY DEF FollowPcs, AfterStatus
      <3> HIDE DEF st
      <3>q. QED BY <1>1, <1>4, <2>2, <3>1, MoveDue DEF ProvisionRead, Stay, rows, st
    <2>q. QED BY <1>0, <1>4, <2>1, <2>2 DEF ProvisionRead
  <1>5. ASSUME NEW u, NEW known, NEW opened, Stay,
               Goto(r, [pc |-> "commit", app |-> a, go |-> req[r].go, user |-> u,
                        known |-> known, opened |-> opened])
        PROVE  Due'
    <2> DEFINE st == [pc |-> "commit", app |-> a, go |-> req[r].go, user |-> u,
                      known |-> known, opened |-> opened]
    <2>1. st.pc = "commit" /\ st.app = a /\ st.go = req[r].go /\ st.pc \in FollowPcs
      BY DEF FollowPcs, AfterStatus
    <2> HIDE DEF st
    <2>q. QED BY <1>1, <1>5, <2>1, MoveDue DEF Stay, rows, st
  <1>6. CASE EnsureCustomer(r)
    <2>1. CASE Goto(r, [req[r] EXCEPT !.pc = "account"])
      <3> DEFINE st == [req[r] EXCEPT !.pc = "account"]
      <3>1. req[r] \in Following
        BY <1>6, Places DEF EnsureCustomer, AfterStatus
      <3>2. st.pc = "account" /\ st.app = a /\ st.go = req[r].go /\ st.pc \in FollowPcs
        BY <1>0, <3>1 DEF FollowPcs, AfterStatus, Following
      <3> HIDE DEF st
      <3>q. QED BY <1>1, <1>6, <2>1, <3>2, MoveDue DEF EnsureCustomer, Stay, rows, st
    <2>q. QED BY <1>0, <1>5, <1>6, <2>1 DEF EnsureCustomer, ForCustomer
  <1>7. CASE EnsureAccount(r)
    BY <1>0, <1>5, <1>7 DEF EnsureAccount
  <1>8. CASE ProvisionCommit(r)
    <2>1. /\ subscriptions[a] = NotProvisioned
          /\ \A b \in Apps : b # a => subscriptions'[b] = subscriptions[b]
          /\ subscriptions'[a] # NotProvisioned
      BY <1>0, <1>8 DEF ProvisionCommit, CanProvision, TypeInv, TypeOK, NotProvisioned
    <2>2. \A b \in Apps : /\ Live(b) <=> Live(b)'
                          /\ Live(b) => /\ applications'[b].status = applications[b].status
                                        /\ applications'[b].lost = applications[b].lost
      <3> DEFINE row == [applications[a] EXCEPT !.customer = req[r].user]
      <3>1. applications[a] \in ApplicationRow
        BY <1>0, <1>2, InHand DEF Working, AfterStatus
      <3>2. req[r].user \in Contacts
        BY <1>8, Places DEF ProvisionCommit, Provisioning
      <3>3. row \in ApplicationRow /\ row.status = applications[a].status
            /\ row.lost = applications[a].lost
        BY <3>1, <3>2 DEF ApplicationRow
      <3>4. applications' = [applications EXCEPT ![a] = row]
        BY <1>0, <1>8 DEF ProvisionCommit
      <3> HIDE DEF row
      <3>q. QED BY <3>1, <3>3, <3>4, RowsApplied DEF Live, TypeInv, TypeOK
    <2>3. PICK st : /\ Goto(r, st)
                    /\ st.pc # "change"
                    /\ st.pc \in {"find", "activate", "start"} => st.go
                    /\ st.pc = "invite" => st.app = a
                    /\ req[r].go => st.pc \in FollowPcs /\ st.app = a /\ st.go
      <3>1. CASE Goto(r, [pc |-> "invite", app |-> a, go |-> req[r].go, user |-> req[r].user])
        BY <3>1 DEF FollowPcs
      <3>2. CASE Goto(r, AfterProvisioning(a, req[r].go))
        BY <1>3, <3>2, AfterDue
      <3>q. QED BY <1>0, <1>8, <3>1, <3>2 DEF ProvisionCommit
    <2>4. \A b \in Apps : b # a => ~Follows(r, b)
      BY <1>1
    <2>5. ASSUME NEW b \in Apps, Live(b)
          PROVE  /\ Reached(b) => Reached(b)'
                 /\ Completed(b) => Completed(b)'
                 /\ Held(b) => Held(b)'
      <3>1. CASE b = a
        <4>1. subscriptions[a].status \notin {"ACTIVE", "CANCELLED"}
          BY <2>1 DEF NotProvisioned
        <4>q. QED BY <2>1, <2>2, <2>3, <2>5, <3>1, <4>1, Carried
      <3>2. CASE b # a
        BY <2>1, <2>2, <2>3, <2>4, <2>5, <3>2, Carried
      <3>q. QED BY <3>1, <3>2
    <2>6. Keeps
      BY <2>5 DEF Keeps
    <2>7. Held(a)'
      BY <2>1 DEF Held
    <2>q. QED BY <2>2, <2>3, <2>6, <2>7, StepDue
  <1>9. CASE Invite(r)
    <2>1. UNCHANGED <<applications, subscriptions>> /\ Goto(r, AfterProvisioning(a, req[r].go))
      BY <1>0, <1>9 DEF Invite, rows
    <2>2. Keeps
      <3> SUFFICES ASSUME NEW b \in Apps, Live(b)
                   PROVE  /\ Reached(b) => Reached(b)'
                          /\ Completed(b) => Completed(b)'
                          /\ Held(b) => Held(b)'
        BY DEF Keeps
      <3>1. Follows(r, b) => Held(b)
        BY <1>9 DEF Invite, Follows, Due, Sent
      <3>2. ~Held(b) \/ Held(b)'
        BY <2>1 DEF Held
      <3>q. QED BY <1>1, <1>3, <2>1, <3>1, AfterDue, Carried DEF Held
    <2>q. QED BY <1>3, <2>1, <2>2, AfterDue, StepDue DEF Live
  <1>q. QED BY <1>4, <1>6, <1>7, <1>8, <1>9 DEF ProvisioningSteps

LEMMA ActivatingDue ==
    ASSUME TypeInv, TypeInv', Due, NEW r \in Requests, Activating(r)
    PROVE  Due'
  <1>0. PICK a \in Apps : a = req[r].app
    <2>1. req[r].pc \in Working
      BY DEF Activating, ActivateFind, ActivateRead, ActivateCommit, Working, AfterStatus
    <2>q. QED BY <2>1, InHand
  <1>1. \A b \in Apps : Follows(r, b) => b = a
    BY <1>0 DEF Follows
  <1>2. CASE ActivateFind(r)
    <2>1. CASE Goto(r, AfterProvisioning(a, TRUE))
      <3>1. PICK st : /\ Goto(r, st) /\ st.pc = "activate" /\ st.app = a /\ st.go
        BY <2>1 DEF AfterProvisioning
      <3>2. st.pc \in FollowPcs
        BY <3>1 DEF FollowPcs, AfterStatus
      <3>q. QED BY <1>1, <1>2, <3>1, <3>2, MoveDue DEF ActivateFind, Stay, rows
    <2>2. CASE Goto(r, [pc |-> "provision", app |-> a, go |-> TRUE])
      <3> DEFINE st == [pc |-> "provision", app |-> a, go |-> TRUE]
      <3>1. st.pc = "provision" /\ st.app = a /\ st.go /\ st.pc \in FollowPcs
        BY DEF FollowPcs, AfterStatus
      <3> HIDE DEF st
      <3>q. QED BY <1>1, <1>2, <2>2, <3>1, MoveDue DEF ActivateFind, Stay, rows, st
    <2>q. QED BY <1>0, <1>2, <2>1, <2>2 DEF ActivateFind
  <1>3. CASE ActivateRead(r)
    <2>1. CASE subscriptions[a].status = "ACTIVE" /\ Goto(r, Idle)
      <3>1. Idle.pc = "idle"
        BY DEF Idle
      <3>q. QED BY <1>1, <1>3, <2>1, <3>1, MoveDue DEF ActivateRead, Stay, rows
    <2>2. CASE Goto(r, [req[r] EXCEPT !.pc = "start"])
      <3> DEFINE st == [req[r] EXCEPT !.pc = "start"]
      <3>1. req[r] \in Following /\ req[r].go
        BY <1>3, Places DEF ActivateRead, AfterStatus, Due, Going
      <3>2. st.pc = "start" /\ st.app = a /\ st.go /\ st.pc \in FollowPcs
        BY <1>0, <3>1 DEF FollowPcs, AfterStatus, Following
      <3> HIDE DEF st
      <3>q. QED BY <1>1, <1>3, <2>2, <3>2, MoveDue DEF ActivateRead, Stay, rows, st
    <2>q. QED BY <1>0, <1>3, <2>1, <2>2 DEF ActivateRead
  <1>4. CASE ActivateCommit(r)
    <2>1. subscriptions[a] \in SubscriptionRow
      BY <1>0, <1>4, Rows DEF ActivateCommit, TypeInv, Refers
    <2> DEFINE row == [subscriptions[a] EXCEPT !.status = "ACTIVE"]
    <2>2. row.status = "ACTIVE" /\ row # NotProvisioned
      BY <2>1 DEF SubscriptionRow, NotProvisioned
    <2>3. subscriptions' = [subscriptions EXCEPT ![a] = row]
      BY <1>0, <1>4 DEF ActivateCommit
    <2> HIDE DEF row
    <2>4. /\ \A b \in Apps : b # a => subscriptions'[b] = subscriptions[b]
          /\ subscriptions'[a].status = "ACTIVE" /\ subscriptions'[a] # NotProvisioned
      BY <2>2, <2>3 DEF TypeInv, TypeOK
    <2>5. Goto(r, Idle) /\ applications' = applications
      BY <1>4 DEF ActivateCommit
    <2>6. Keeps
      <3> SUFFICES ASSUME NEW b \in Apps
                   PROVE  /\ Reached(b) => Reached(b)'
                          /\ Completed(b) => Completed(b)'
                          /\ Held(b) => Held(b)'
        BY DEF Keeps
      <3>1. CASE b = a
        BY <2>4, <2>5, <3>1, Carried
      <3>2. CASE b # a
        BY <1>1, <2>4, <2>5, <3>2, Carried
      <3>q. QED BY <3>1, <3>2
    <2>7. Idle.pc = "idle"
      BY DEF Idle
    <2>q. QED BY <2>5, <2>6, <2>7, StepDue DEF Live
  <1>q. QED BY <1>2, <1>3, <1>4 DEF Activating

\* A registration works on no application.
LEMMA JoiningMoves ==
    ASSUME TypeInv, NEW r \in Requests, Joining(r)
    PROVE  /\ \A a \in Apps : ~Follows(r, a)
           /\ UNCHANGED <<applications, subscriptions>>
           /\ \E st : Goto(r, st) /\ st.pc \in {"idle", "user", "customer"}
  <1>1. \A a \in Apps : ~Follows(r, a)
    <2>1. req[r].pc \in {"idle", "user", "customer"}
      <3>1. CASE RegisterUser(r) \/ RegisterCustomer(r)
        BY <3>1 DEF RegisterUser, RegisterCustomer
      <3>2. CASE \E u \in Contacts : RegisterRead(r, u)
        BY <3>2 DEF RegisterRead, Idle
      <3>q. QED BY <3>1, <3>2 DEF Joining
    <2>q. QED BY <2>1 DEF Follows, AfterStatus
  <1>2. UNCHANGED <<applications, subscriptions>>
    <2>1. CASE RegisterUser(r) \/ RegisterCustomer(r)
      BY <2>1 DEF RegisterUser, RegisterCustomer
    <2>2. CASE \E u \in Contacts : RegisterRead(r, u)
      BY <2>2 DEF RegisterRead, Stay, rows
    <2>q. QED BY <2>1, <2>2 DEF Joining
  <1>3. \E st : Goto(r, st) /\ st.pc \in {"idle", "user", "customer"}
    <2>1. CASE RegisterUser(r)
      <3>1. req[r] \in Registering /\ Goto(r, [req[r] EXCEPT !.pc = "customer"])
        BY <2>1, Places DEF RegisterUser, Goto, TypeInv, TypeOK
      <3>2. [req[r] EXCEPT !.pc = "customer"].pc = "customer"
        BY <3>1 DEF Registering
      <3>q. QED BY <3>1, <3>2
    <2>2. CASE \E u \in Contacts : RegisterRead(r, u)
      BY <2>2 DEF RegisterRead
    <2>3. CASE RegisterCustomer(r)
      BY <2>3 DEF RegisterCustomer, Idle
    <2>q. QED BY <2>1, <2>2, <2>3 DEF Joining
  <1>q. QED BY <1>1, <1>2, <1>3

LEMMA JoiningDue ==
    ASSUME TypeInv, TypeInv', Due, NEW r \in Requests, Joining(r)
    PROVE  Due'
  <1>1. PICK st : Goto(r, st) /\ st.pc \in {"idle", "user", "customer"}
    BY JoiningMoves
  <1>q. QED BY <1>1, JoiningMoves, MoveDue

LEMMA AbandonDue ==
    ASSUME TypeInv, TypeInv', Due, NEW r \in Requests, Abandon(r)
    PROVE  Due'
  <1>1. Goto(r, Idle) /\ subscriptions' = subscriptions /\ Idle.pc = "idle"
    BY DEF Abandon, Idle
  <1>2. ASSUME NEW a \in Apps
        PROVE  /\ Live(a) <=> Live(a)'
               /\ Live(a) => /\ applications'[a].status = applications[a].status
                             /\ applications[a].lost => applications'[a].lost
    <2>1. \A row \in ApplicationRow : /\ [row EXCEPT !.lost = TRUE].status = row.status
                                      /\ [row EXCEPT !.lost = TRUE].lost
      BY DEF ApplicationRow
    <2>2. Live(a) <=> Live(a)'
      BY Abandons DEF Live
    <2>3. CASE applications'[a] = applications[a]
      BY <2>2, <2>3
    <2>4. CASE /\ applications[a] \in ApplicationRow
               /\ applications'[a] = [applications[a] EXCEPT !.lost = TRUE]
      BY <2>1, <2>2, <2>4
    <2>q. QED BY <2>2, <2>3, <2>4, Abandons
  <1>3. Keeps
    <2> SUFFICES ASSUME NEW a \in Apps, Live(a)
                 PROVE  /\ Reached(a) => Reached(a)'
                        /\ Completed(a) => Completed(a)'
                        /\ Held(a) => Held(a)'
      BY DEF Keeps
    <2>1. Follows(r, a) /\ (req[r].pc # "invite" \/ req[r].go) => applications'[a].lost
      BY Abandons DEF Follows
    <2>2. Follows(r, a) /\ req[r].pc = "invite" => Held(a)
      BY DEF Follows, Due, Sent
    <2>q. QED BY <1>1, <1>2, <2>1, <2>2, Carried DEF Held
  <1>q. QED BY <1>1, <1>2, <1>3, StepDue

LEMMA StaffDue ==
    ASSUME TypeInv, TypeInv', Due, Staff
    PROVE  Due'
  <1>1. ASSUME NEW a \in Apps, CancelSubscription(a)
        PROVE  Due'
    <2>1. UNCHANGED <<applications, req>>
      BY <1>1 DEF CancelSubscription
    <2>2. \A b \in Apps : /\ subscriptions[b] # NotProvisioned => subscriptions'[b] # NotProvisioned
                          /\ subscriptions[b].status \in {"ACTIVE", "CANCELLED"} =>
                               subscriptions'[b].status \in {"ACTIVE", "CANCELLED"}
      <3> DEFINE row == [subscriptions[a] EXCEPT !.status = "CANCELLED"]
      <3>1. row.status = "CANCELLED" /\ row # NotProvisioned
        BY <1>1, Rows DEF CancelSubscription, SubscriptionRow, NotProvisioned
      <3>2. subscriptions' = [subscriptions EXCEPT ![a] = row]
        BY <1>1 DEF CancelSubscription
      <3> HIDE DEF row
      <3>q. QED BY <3>1, <3>2 DEF TypeInv, TypeOK
    <2>3. Keeps
      BY <2>1, <2>2 DEF Keeps, Reached, Completed, Held, Follows
    <2>4. Going'
      BY <2>1 DEF Due, Going
    <2>q. QED BY <2>1, <2>3, <2>4, KeepsDue DEF Live
  <1>2. ASSUME NEW u \in Contacts, DeleteCustomer(u)
        PROVE  Due'
    <2>1. ASSUME NEW a \in Apps, Live(a)
          PROVE  /\ Reached(a) => Reached(a)'
                 /\ Completed(a) => Completed(a)'
                 /\ Held(a) => Held(a)'
      <3>1. CASE applications'[a].lost
        BY <3>1 DEF Reached, Completed, Held
      <3>2. CASE ~applications'[a].lost
        <4>1. /\ ~applications[a].lost
              /\ ~(subscriptions[a] # NotProvisioned /\ subscriptions[a].customer = u)
              /\ ~ \E r \in Requests : req[r].pc = "commit" /\ req[r].user = u
                                       /\ ~req[r].opened /\ req[r].app = a
          BY <1>2, <2>1, <3>2, Deletions DEF Live
        <4>2. subscriptions'[a] = subscriptions[a]
          BY <1>2, <4>1 DEF DeleteCustomer, TypeInv, TypeOK
        <4>3. ASSUME NEW r \in Requests, Follows(r, a)
              PROVE  Follows(r, a)' /\ (req[r].go => req'[r].go)
          <5>1. CASE req[r].pc = "invite"
            <6>1. /\ req'[r].app = req[r].app /\ req'[r].pc = "invite"
                  /\ req[r].go => req'[r].go
              BY <1>2, <4>1, <4>3, <5>1, DeletedRequests DEF Follows, Idle
            <6>q. QED BY <4>3, <5>1, <6>1 DEF Follows
          <5>2. CASE req[r].pc # "invite"
            <6>1. req[r].pc \in AfterStatus /\ req[r].app = a
              BY <4>3, <5>2 DEF Follows
            <6>2. req'[r] # Idle
              BY <1>2, <4>1, <6>1, DeletedRequests
            <6>3. req'[r].pc # "idle"
              BY <1>2, <6>1, <6>2, DeletedRequests DEF AfterStatus, Idle
            <6>4. req'[r] = req[r]
              BY <1>2, <5>2, <6>3, DeletedRequests
            <6>q. QED BY <4>3, <6>4 DEF Follows
          <5>q. QED BY <5>1, <5>2
        <4>q. QED BY <4>1, <4>2, <4>3 DEF Reached, Completed, Held
      <3>q. QED BY <3>1, <3>2
    <2>2. Keeps
      BY <2>1 DEF Keeps
    <2>3. \A r \in Requests : req'[r].pc \in {"find", "activate", "start", "change"} => req'[r] = req[r]
      BY <1>2, DeletedRequests DEF Idle
    <2>4. Going'
      BY <2>3 DEF Due, Going
    <2>5. \A r \in Requests : req'[r].pc = "invite" =>
             req[r].pc = "invite" /\ req'[r].app = req[r].app
      BY <1>2, DeletedRequests DEF Idle
    <2>6. \A a \in Apps : Live(a)' => Live(a) /\ applications'[a].status = applications[a].status
      BY <1>2, Deletions DEF Live
    <2>q. QED BY <2>2, <2>3, <2>4, <2>5, <2>6, KeepsDue
  <1>q. QED BY <1>1, <1>2 DEF Staff

\* An approved application gets its subscription, and a completed one an active one, unless
\* the follow-up was lost on the way.
THEOREM ApprovalIsFollowedUp == Spec => []ApprovedIsProvisioned
  <1>1. Init => Due
    BY DEF Init, Due, Sent, Going, Live, Idle
  <1>2. TypeInv /\ TypeInv' /\ Due /\ [Next]_vars => Due'
    <2>1. ASSUME TypeInv, TypeInv', Due, UNCHANGED vars
          PROVE  Due'
      BY <2>1 DEF vars, rows, Due, Sent, Going, Live, Held, Reached, Completed, Follows
    <2>q. QED BY <2>1, ApplyingDue, ReviewingDue, ProvisioningDue, ActivatingDue, JoiningDue,
                 AbandonDue, StaffDue DEF Next, Statements
  <1>3. TypeInv /\ Due => ApprovedIsProvisioned
    BY DEF Due, Live, Reached, Completed, ApprovedIsProvisioned
  <1>q. QED BY <1>1, <1>2, <1>3, TypeCorrect, PTL DEF Spec

-----------------------------------------------------------------------------
(* HistoryIsWhole and UnapprovedIsNotServed *)

\* Provisioning, activation, registration and failure change nothing of the review, and serve
\* only the application that they follow up.
LEMMA FollowSteps ==
    ASSUME TypeInv, NEW r \in Requests,
           ProvisioningSteps(r) \/ Activating(r) \/ Joining(r) \/ Abandon(r)
    PROVE  /\ \E st : /\ Goto(r, st)
                      /\ st.pc # "change"
                      /\ st.pc \in FollowPcs => \E a \in Apps : st.app = a /\ Follows(r, a)
           /\ \A a \in Apps : subscriptions'[a] = subscriptions[a] \/ Follows(r, a)
           /\ \A a \in Apps : /\ Live(a) <=> Live(a)'
                              /\ Live(a) => /\ applications'[a].status = applications[a].status
                                            /\ applications'[a].trail = applications[a].trail
                                            /\ applications'[a].whole = applications[a].whole
                                            /\ applications'[a].torn = applications[a].torn
  <1>1. CASE ProvisioningSteps(r) \/ Activating(r)
    <2>0. req[r].pc \in FollowPcs
      <3>1. ProvisioningSteps(r) => req[r].pc \in FollowPcs
        BY DEF ProvisioningSteps, ProvisionRead, EnsureCustomer, EnsureAccount,
               ProvisionCommit, Invite, FollowPcs, AfterStatus
      <3>2. Activating(r) => req[r].pc \in FollowPcs
        BY DEF Activating, ActivateFind, ActivateRead, ActivateCommit, FollowPcs, AfterStatus
      <3>q. QED BY <1>1, <3>1, <3>2
    <2>1. PICK a \in Apps : a = req[r].app
      BY <2>0, InHand DEF FollowPcs, Working
    <2>2. Follows(r, a)
      BY <2>0, <2>1 DEF Follows, FollowPcs
    <2>3. req[r].go \in BOOLEAN
      BY <2>0, InHand DEF FollowPcs, Working, AfterStatus
    <2>4. \E st : Goto(r, st) /\ st.pc # "change" /\ (st.pc \in FollowPcs => st.app = a)
      <3>1. \A go \in BOOLEAN : LET st == AfterProvisioning(a, go)
                                IN  st.pc # "change" /\ (st.pc \in FollowPcs => st.app = a)
        BY DEF AfterProvisioning, Idle, FollowPcs, AfterStatus
      <3>2. CASE ProvisionRead(r) \/ ActivateFind(r)
        <4>1. CASE \E go \in BOOLEAN : Goto(r, AfterProvisioning(a, go))
          BY <3>1, <4>1
        <4>2. CASE Goto(r, [pc |-> "ensure", app |-> a, go |-> req[r].go])
          BY <4>2
        <4>3. CASE Goto(r, [pc |-> "provision", app |-> a, go |-> TRUE])
          BY <4>3
        <4>q. QED BY <2>1, <2>3, <3>2, <4>1, <4>2, <4>3 DEF ProvisionRead, ActivateFind
      <3>3. CASE EnsureCustomer(r) \/ EnsureAccount(r) \/ ActivateRead(r)
        <4>1. CASE EnsureAccount(r) \/ (EnsureCustomer(r) /\ \E u : ForCustomer(r, u))
          <5>1. PICK u, known, opened :
                    Goto(r, [pc |-> "commit", app |-> a, go |-> req[r].go, user |-> u,
                             known |-> known, opened |-> opened])
            BY <2>1, <4>1 DEF EnsureAccount, ForCustomer
          <5> DEFINE st == [pc |-> "commit", app |-> a, go |-> req[r].go, user |-> u,
                            known |-> known, opened |-> opened]
          <5>2. st.pc = "commit" /\ st.app = a
            OBVIOUS
          <5> HIDE DEF st
          <5>q. QED BY <5>1, <5>2 DEF st
        <4>2. CASE EnsureCustomer(r) /\ Goto(r, [req[r] EXCEPT !.pc = "account"])
          <5>1. req[r] \in Following
            BY <4>2, Places DEF EnsureCustomer, AfterStatus
          <5>2. [req[r] EXCEPT !.pc = "account"].pc = "account"
                /\ [req[r] EXCEPT !.pc = "account"].app = a
            BY <2>1, <5>1 DEF Following
          <5>q. QED BY <4>2, <5>2
        <4>3. CASE ActivateRead(r)
          <5>1. req[r] \in Following
            BY <4>3, Places DEF ActivateRead, AfterStatus
          <5>2. [req[r] EXCEPT !.pc = "start"].pc = "start"
                /\ [req[r] EXCEPT !.pc = "start"].app = a
            BY <2>1, <5>1 DEF Following
          <5>3. Idle.pc \notin FollowPcs /\ Idle.pc # "change"
            BY DEF Idle, FollowPcs, AfterStatus
          <5>q. QED BY <4>3, <5>2, <5>3 DEF ActivateRead
        <4>q. QED BY <3>3, <4>1, <4>2, <4>3 DEF EnsureCustomer
      <3>4. CASE ProvisionCommit(r) \/ Invite(r)
        <4>1. CASE Goto(r, [pc |-> "invite", app |-> a, go |-> req[r].go, user |-> req[r].user])
          BY <4>1
        <4>2. CASE Goto(r, AfterProvisioning(a, req[r].go))
          BY <2>3, <3>1, <4>2
        <4>q. QED BY <2>1, <3>4, <4>1, <4>2 DEF ProvisionCommit, Invite
      <3>5. CASE ActivateCommit(r)
        BY <3>5 DEF ActivateCommit, Idle, FollowPcs, AfterStatus
      <3>q. QED BY <1>1, <3>2, <3>3, <3>4, <3>5 DEF ProvisioningSteps, Activating
    <2>5. /\ \A b \in Apps : b # a => subscriptions'[b] = subscriptions[b]
          /\ \A b \in Apps : b # a => applications'[b] = applications[b]
      <3>1. CASE ProvisionCommit(r)
        BY <2>1, <3>1 DEF ProvisionCommit, TypeInv, TypeOK
      <3>2. CASE ActivateCommit(r)
        BY <2>1, <3>2 DEF ActivateCommit, TypeInv, TypeOK
      <3>3. CASE Stay
        BY <3>3 DEF Stay, rows
      <3>4. CASE Invite(r)
        BY <3>4 DEF Invite, rows
      <3>q. QED BY <1>1, <3>1, <3>2, <3>3, <3>4
               DEF ProvisioningSteps, Activating, ProvisionRead, EnsureCustomer, EnsureAccount,
                   ActivateFind, ActivateRead
    <2>6. /\ Live(a) <=> Live(a)'
          /\ applications'[a].status = applications[a].status
          /\ applications'[a].trail = applications[a].trail
          /\ applications'[a].whole = applications[a].whole
          /\ applications'[a].torn = applications[a].torn
      <3>1. CASE ProvisionCommit(r)
        <4> DEFINE row == [applications[a] EXCEPT !.customer = req[r].user]
        <4>1. applications[a] \in ApplicationRow
          BY <2>0, <2>1, InHand DEF Working, FollowPcs
        <4>2. req[r].user \in Contacts
          BY <3>1, Places DEF ProvisionCommit, Provisioning
        <4>3. row \in ApplicationRow /\ row.status = applications[a].status
              /\ row.trail = applications[a].trail /\ row.whole = applications[a].whole
              /\ row.torn = applications[a].torn
          BY <4>1, <4>2 DEF ApplicationRow
        <4>4. applications' = [applications EXCEPT ![a] = row]
          BY <2>1, <3>1 DEF ProvisionCommit
        <4> HIDE DEF row
        <4>q. QED BY <4>1, <4>3, <4>4, RowsApplied DEF Live, TypeInv, TypeOK
      <3>2. CASE applications' = applications
        BY <3>2 DEF Live
      <3>q. QED BY <1>1, <3>1, <3>2
               DEF ProvisioningSteps, Activating, ProvisionRead, EnsureCustomer, EnsureAccount,
                   ActivateFind, ActivateRead, ActivateCommit, Invite, Stay, rows
    <2>q. QED BY <2>1, <2>2, <2>4, <2>5, <2>6 DEF Live
  <1>2. CASE Joining(r)
    <2>1. UNCHANGED <<applications, subscriptions>>
          /\ \E st : Goto(r, st) /\ st.pc \in {"idle", "user", "customer"}
      BY <1>2, JoiningMoves
    <2>q. QED BY <2>1 DEF Live, FollowPcs, AfterStatus
  <1>3. CASE Abandon(r)
    <2>1. \A row \in ApplicationRow :
             /\ [row EXCEPT !.lost = TRUE].status = row.status
             /\ [row EXCEPT !.lost = TRUE].trail = row.trail
             /\ [row EXCEPT !.lost = TRUE].whole = row.whole
             /\ [row EXCEPT !.lost = TRUE].torn = row.torn
      BY DEF ApplicationRow
    <2>2. \A a \in Apps : Live(a) <=> Live(a)'
      BY <1>3, Abandons DEF Live
    <2>3. Goto(r, Idle) /\ subscriptions' = subscriptions /\ Idle.pc = "idle"
      BY <1>3 DEF Abandon, Idle
    <2>4. ASSUME NEW a \in Apps
          PROVE  /\ applications'[a].status = applications[a].status
                 /\ applications'[a].trail = applications[a].trail
                 /\ applications'[a].whole = applications[a].whole
                 /\ applications'[a].torn = applications[a].torn
      <3>1. CASE applications'[a] = applications[a]
        BY <3>1
      <3>2. CASE /\ applications[a] \in ApplicationRow
                 /\ applications'[a] = [applications[a] EXCEPT !.lost = TRUE]
        BY <2>1, <3>2
      <3>q. QED BY <1>3, <3>1, <3>2, Abandons
    <2>q. QED BY <2>2, <2>3, <2>4 DEF FollowPcs, AfterStatus
  <1>q. QED BY <1>1, <1>2, <1>3

Unapproved == {"DRAFT", "SUBMITTED", "UNDER_REVIEW", "PAYMENT_PENDING", "PAYMENT_RECEIVED",
               "REJECTED"}

Untouched(a) == subscriptions[a] = NotProvisioned /\ \A r \in Requests : ~Follows(r, a)

\* Where reviews do not overlap, a change of status in hand starts from the row's status.
Chain ==
    /\ \A a \in Apps : ~Live(a) => Untouched(a)
    /\ \A a \in Apps : Live(a) =>
          /\ applications[a].trail = applications[a].status
          /\ ~applications[a].torn => applications[a].whole
          /\ ~applications[a].torn /\ applications[a].status \in Unapproved => Untouched(a)
    /\ \A r \in Requests, a \in Apps : req[r].pc = "change" /\ req[r].app = a =>
          /\ req[r].to \in APPLICATION_TRANSITIONS[req[r].from]
          /\ ~applications[a].torn =>
                /\ req[r].from = applications[a].status
                /\ \A p \in Requests : req[p].pc = "change" /\ req[p].app = a => p = r

\* A step that changes no review, and serves no application that nothing serves, keeps it.
LEMMA FrameChain ==
    ASSUME TypeInv, TypeInv', Chain,
           \A a \in Apps : /\ Live(a) <=> Live(a)'
                           /\ Live(a) => /\ applications'[a].status = applications[a].status
                                         /\ applications'[a].trail = applications[a].trail
                                         /\ applications'[a].whole = applications[a].whole
                                         /\ applications'[a].torn = applications[a].torn,
           \A a \in Apps : Untouched(a) => Untouched(a)',
           \A r \in Requests : req'[r].pc = "change" => req'[r] = req[r]
    PROVE  Chain'
  <1>1. ASSUME NEW r \in Requests, NEW a \in Apps, req'[r].pc = "change", req'[r].app = a
        PROVE  req'[r] = req[r] /\ Live(a)
    BY <1>1 DEF Working, TypeInv, Refers, Live
  <1>2. ASSUME NEW a \in Apps, Live(a)'
        PROVE  /\ applications'[a].trail = applications'[a].status
               /\ ~applications'[a].torn => applications'[a].whole
               /\ ~applications'[a].torn /\ applications'[a].status \in Unapproved => Untouched(a)'
    BY <1>2 DEF Chain
  <1>3. ASSUME NEW r \in Requests, NEW a \in Apps, req'[r].pc = "change", req'[r].app = a
        PROVE  /\ req'[r].to \in APPLICATION_TRANSITIONS[req'[r].from]
               /\ ~applications'[a].torn =>
                     /\ req'[r].from = applications'[a].status
                     /\ \A p \in Requests : req'[p].pc = "change" /\ req'[p].app = a => p = r
    BY <1>1, <1>3 DEF Chain
  <1>4. \A a \in Apps : ~Live(a)' => Untouched(a)'
    BY DEF Chain
  <1>q. QED BY <1>2, <1>3, <1>4 DEF Chain

LEMMA ApplyingChain ==
    ASSUME TypeInv, TypeInv', Chain, NEW r \in Requests, Applying(r)
    PROVE  Chain'
  <1>1. \A a \in Apps : ~Follows(r, a)
    <2>1. req[r].pc \in {"idle", "create"}
      <3>1. CASE \E a \in Apps : CreateRead(r, a)
        BY <3>1 DEF CreateRead, Idle
      <3>2. CASE CreateCommit(r)
        BY <3>2 DEF CreateCommit
      <3>q. QED BY <3>1, <3>2 DEF Applying
    <2>q. QED BY <2>1 DEF Follows, AfterStatus
  <1>2. PICK st : Goto(r, st) /\ st.pc \in {"idle", "create"}
    <2>1. CASE \E a \in Apps : CreateRead(r, a)
      <3>1. PICK a, u : Goto(r, [pc |-> "create", app |-> a, customer |-> u])
        BY <2>1 DEF CreateRead
      <3>q. QED BY <3>1
    <2>2. CASE CreateCommit(r)
      BY <2>2 DEF CreateCommit, Idle
    <2>q. QED BY <2>1, <2>2 DEF Applying
  <1>3. subscriptions' = subscriptions
    BY DEF Applying, CreateRead, CreateCommit, Stay, rows
  <1>4. req'[r] = st /\ \A p \in Requests : p # r => req'[p] = req[p]
    BY <1>2 DEF Goto, TypeInv, TypeOK
  <1>5. \A a \in Apps : Untouched(a) => Untouched(a)'
    BY <1>2, <1>3, <1>4 DEF Untouched, Follows, AfterStatus
  <1>6. \A p \in Requests : req'[p].pc = "change" => req'[p] = req[p]
    BY <1>2, <1>4
  <1>7. CASE \E a \in Apps : CreateRead(r, a)
    <2>1. applications' = applications
      BY <1>7 DEF CreateRead, Stay, rows
    <2>q. QED BY <1>5, <1>6, <2>1, FrameChain DEF Live
  <1>8. CASE CreateCommit(r)
    <2>1. PICK a \in Apps : a = req[r].app
      BY <1>8, Places DEF CreateCommit, Creating
    <2>2. /\ ~Live(a)
          /\ applications'[a] =
                [status |-> "SUBMITTED", customer |-> req[r].customer,
                 trail |-> "SUBMITTED", whole |-> TRUE, torn |-> FALSE, lost |-> FALSE]
          /\ \A b \in Apps : b # a => applications'[b] = applications[b]
      BY <1>8, <2>1 DEF CreateCommit, TypeInv, TypeOK, Live
    <2>3. \A p \in Requests : ~(req[p].pc = "change" /\ req[p].app = a)
      BY <2>2 DEF TypeInv, Refers, Working, Live
    <2>6. Untouched(a)'
      BY <1>5, <2>2 DEF Chain
    <2>7. ASSUME NEW b \in Apps, Live(b)'
          PROVE  /\ applications'[b].trail = applications'[b].status
                 /\ ~applications'[b].torn => applications'[b].whole
                 /\ ~applications'[b].torn /\ applications'[b].status \in Unapproved => Untouched(b)'
      <3>1. CASE b = a
        BY <2>2, <2>6, <3>1
      <3>2. CASE b # a
        BY <1>5, <2>2, <2>7, <3>2 DEF Chain, Live
      <3>q. QED BY <3>1, <3>2
    <2>8. ASSUME NEW p \in Requests, NEW b \in Apps, req'[p].pc = "change", req'[p].app = b
          PROVE  /\ req'[p].to \in APPLICATION_TRANSITIONS[req'[p].from]
                 /\ ~applications'[b].torn =>
                       /\ req'[p].from = applications'[b].status
                       /\ \A q \in Requests : req'[q].pc = "change" /\ req'[q].app = b => q = p
      <3>1. req'[p] = req[p] /\ b # a
        BY <1>6, <2>3, <2>8
      <3>q. QED BY <1>6, <2>2, <2>8, <3>1 DEF Chain
    <2>9. ASSUME NEW b \in Apps, ~Live(b)'
          PROVE  Untouched(b)'
      <3>1. b # a
        BY <2>2, <2>9 DEF Live, NotApplied
      <3>q. QED BY <1>5, <2>2, <2>9, <3>1 DEF Chain, Live
    <2>q. QED BY <2>7, <2>8, <2>9 DEF Chain
  <1>q. QED BY <1>7, <1>8 DEF Applying

LEMMA ReviewingChain ==
    ASSUME TypeInv, TypeInv', Chain, NEW r \in Requests, Reviewing(r)
    PROVE  Chain'
  <1>0. ASSUME NEW st, Goto(r, st), st.pc \notin FollowPcs, req[r].pc \notin FollowPcs,
               subscriptions' = subscriptions
        PROVE  \A a \in Apps : Untouched(a) => Untouched(a)'
    <2>1. req'[r] = st /\ \A p \in Requests : p # r => req'[p] = req[p]
      BY <1>0 DEF Goto, TypeInv, TypeOK
    <2>q. QED BY <1>0, <2>1 DEF Untouched, Follows, FollowPcs
  <1>1. ASSUME NEW a \in Apps, NEW to \in Targets[a], StatusRead(r, a, to)
        PROVE  Chain'
    <2> DEFINE st == [pc |-> "change", app |-> a, from |-> applications[a].status, to |-> to]
               row == [applications[a] EXCEPT
                         !.torn = @ \/ \E p \in Requests : req[p].pc = "change" /\ req[p].app = a]
    <2>1. Goto(r, st) /\ subscriptions' = subscriptions /\ req[r] = Idle /\ Live(a)
      BY <1>1 DEF StatusRead, Live
    <2>2. req'[r] = st /\ \A p \in Requests : p # r => req'[p] = req[p]
      BY <2>1 DEF Goto, TypeInv, TypeOK
    <2>3. applications[a] \in ApplicationRow
      BY <2>1, Rows DEF Live
    <2>4. /\ row \in ApplicationRow
          /\ row.status = applications[a].status /\ row.trail = applications[a].trail
          /\ row.whole = applications[a].whole
          /\ ~row.torn => /\ ~applications[a].torn
                          /\ \A p \in Requests : ~(req[p].pc = "change" /\ req[p].app = a)
      BY <2>3 DEF ApplicationRow
    <2>5. applications' = [applications EXCEPT ![a] = row]
      BY <1>1 DEF StatusRead
    <2> HIDE DEF row
    <2>6. /\ applications'[a] = row
          /\ \A b \in Apps : b # a => applications'[b] = applications[b]
          /\ \A b \in Apps : Live(b) <=> Live(b)'
      BY <2>1, <2>4, <2>5, RowsApplied DEF TypeInv, TypeOK, Live
    <2>7. \A b \in Apps : Untouched(b) => Untouched(b)'
      <3>1. st.pc \notin FollowPcs /\ req[r].pc \notin FollowPcs
        BY <2>1 DEF FollowPcs, AfterStatus, Idle
      <3> HIDE DEF st
      <3>q. QED BY <1>0, <2>1, <3>1
    <2>8. ASSUME NEW b \in Apps, Live(b)'
          PROVE  /\ applications'[b].trail = applications'[b].status
                 /\ ~applications'[b].torn => applications'[b].whole
                 /\ ~applications'[b].torn /\ applications'[b].status \in Unapproved => Untouched(b)'
      <3>1. CASE b = a
        BY <2>1, <2>4, <2>6, <2>7, <3>1 DEF Chain
      <3>2. CASE b # a
        BY <2>6, <2>7, <2>8, <3>2 DEF Chain
      <3>q. QED BY <3>1, <3>2
    <2>9. ASSUME NEW p \in Requests, NEW b \in Apps, req'[p].pc = "change", req'[p].app = b
          PROVE  /\ req'[p].to \in APPLICATION_TRANSITIONS[req'[p].from]
                 /\ ~applications'[b].torn =>
                       /\ req'[p].from = applications'[b].status
                       /\ \A q \in Requests : req'[q].pc = "change" /\ req'[q].app = b => q = p
      <3>1. CASE p = r
        <4>1. b = a /\ req'[p].from = applications[a].status /\ req'[p].to = to
          BY <2>2, <2>9, <3>1
        <4>2. to \in APPLICATION_TRANSITIONS[applications[a].status]
          BY <1>1 DEF StatusRead
        <4>q. QED BY <2>2, <2>4, <2>6, <3>1, <4>1, <4>2
      <3>2. CASE p # r
        <4>1. req'[p] = req[p]
          BY <2>2, <3>2
        <4>2. CASE b = a
          BY <2>4, <2>6, <2>9, <4>1, <4>2 DEF Chain
        <4>3. CASE b # a
          <5>1. ~(req'[r].pc = "change" /\ req'[r].app = b)
            BY <2>2, <4>3
          <5>q. QED BY <2>2, <2>6, <2>9, <4>1, <4>3, <5>1 DEF Chain
        <4>q. QED BY <4>2, <4>3
      <3>q. QED BY <3>1, <3>2
    <2>10. \A b \in Apps : ~Live(b)' => Untouched(b)'
      BY <2>6, <2>7 DEF Chain
    <2>q. QED BY <2>8, <2>9, <2>10 DEF Chain
  <1>2. CASE StatusCommit(r)
    <2>1. PICK a \in Apps : a = req[r].app
      BY <1>2, StatusCommits
    <2>2. /\ req[r] \in Changing /\ req[r].pc = "change" /\ applications[a] \in ApplicationRow
          /\ applications' = [applications EXCEPT ![a] =
                [applications[a] EXCEPT !.status = req[r].to, !.trail = req[r].to,
                                        !.whole = @ /\ req[r].from = applications[a].trail]]
          /\ subscriptions' = subscriptions
      BY <1>2, <2>1, StatusCommits DEF Changing, StatusCommit
    <2>3. PICK st \in ReqState :
              /\ Goto(r, st)
              /\ st.pc \in {"provision", "find", "idle"}
              /\ st.pc # "idle" => st.app = a
              /\ st.pc = "provision" <=> req[r].to = "APPROVED"
              /\ st.pc = "find" <=> req[r].to = "ACTIVE"
      BY <1>2, <2>1, StatusCommits
    <2>4. /\ applications'[a].status = req[r].to
          /\ applications'[a].trail = req[r].to
          /\ applications'[a].whole <=> applications[a].whole /\ req[r].from = applications[a].trail
          /\ applications'[a].torn = applications[a].torn
          /\ \A b \in Apps : b # a => applications'[b] = applications[b]
          /\ Live(a)
      <3>1. applications[a].whole \in BOOLEAN
        BY <2>2 DEF ApplicationRow
      <3>q. QED BY <2>2, <3>1, RowsApplied DEF ApplicationRow, TypeInv, TypeOK, Live
    <2>5. req'[r] = st /\ \A p \in Requests : p # r => req'[p] = req[p]
      BY <2>3 DEF Goto, TypeInv, TypeOK
    <2>6. \A b \in Apps : b # a /\ Untouched(b) => Untouched(b)'
      BY <2>2, <2>3, <2>5 DEF Untouched, Follows, AfterStatus
    <2>7. st.pc = "idle" /\ Untouched(a) => Untouched(a)'
      BY <2>2, <2>3, <2>5 DEF Untouched, Follows, AfterStatus
    <2>8. /\ req[r].to \in APPLICATION_TRANSITIONS[req[r].from] /\ req[r].from \in Statuses
          /\ ~applications[a].torn => req[r].from = applications[a].status
          /\ applications[a].trail = applications[a].status
          /\ ~applications[a].torn => applications[a].whole
          /\ ~applications[a].torn /\ applications[a].status \in Unapproved => Untouched(a)
      BY <2>1, <2>2, <2>4 DEF Chain, Changing
    <2>9. req[r].to \in Unapproved => req[r].from \in Unapproved
                                     /\ req[r].to \notin {"APPROVED", "ACTIVE"}
      BY <2>8 DEF Unapproved, Statuses, APPLICATION_TRANSITIONS
    <2>10. ASSUME NEW b \in Apps, Live(b)'
           PROVE  /\ applications'[b].trail = applications'[b].status
                  /\ ~applications'[b].torn => applications'[b].whole
                  /\ ~applications'[b].torn /\ applications'[b].status \in Unapproved => Untouched(b)'
      <3>1. CASE b = a
        <4>1. req[r].to \in Unapproved => st.pc = "idle"
          BY <2>3, <2>9
        <4>q. QED BY <2>4, <2>7, <2>8, <2>9, <3>1, <4>1
      <3>2. CASE b # a
        BY <2>4, <2>6, <2>10, <3>2 DEF Chain, Live
      <3>q. QED BY <3>1, <3>2
    <2>11. ASSUME NEW p \in Requests, NEW b \in Apps, req'[p].pc = "change", req'[p].app = b
           PROVE  /\ req'[p].to \in APPLICATION_TRANSITIONS[req'[p].from]
                  /\ ~applications'[b].torn =>
                        /\ req'[p].from = applications'[b].status
                        /\ \A q \in Requests : req'[q].pc = "change" /\ req'[q].app = b => q = p
      <3>1. req'[p] = req[p] /\ p # r
        BY <2>3, <2>5, <2>11
      <3>2. \A q \in Requests : req'[q].pc = "change" => req'[q] = req[q] /\ q # r
        BY <2>3, <2>5
      <3>3. CASE b = a
        BY <2>1, <2>2, <2>4, <2>11, <3>1, <3>3 DEF Chain
      <3>4. CASE b # a
        BY <2>4, <2>11, <3>1, <3>2, <3>4 DEF Chain
      <3>q. QED BY <3>3, <3>4
    <2>12. \A b \in Apps : ~Live(b)' => Untouched(b)'
      <3>1. Live(a)'
        <4>1. req[r].to \in Statuses /\ applications'[a].status = req[r].to /\ "none" \notin Statuses
          BY <2>2, <2>4 DEF Changing, Statuses, APPLICATION_TRANSITIONS
        <4>q. QED BY <4>1 DEF Live, NotApplied
      <3>q. QED BY <2>4, <2>6, <3>1 DEF Chain, Live
    <2>q. QED BY <2>10, <2>11, <2>12 DEF Chain
  <1>q. QED BY <1>1, <1>2 DEF Reviewing

LEMMA FollowingChain ==
    ASSUME TypeInv, TypeInv', Chain, NEW r \in Requests,
           ProvisioningSteps(r) \/ Activating(r) \/ Joining(r) \/ Abandon(r)
    PROVE  Chain'
  <1>1. PICK st : /\ Goto(r, st)
                  /\ st.pc # "change"
                  /\ st.pc \in FollowPcs => \E a \in Apps : st.app = a /\ Follows(r, a)
    BY FollowSteps
  <1>2. req'[r] = st /\ \A p \in Requests : p # r => req'[p] = req[p]
    BY <1>1 DEF Goto, TypeInv, TypeOK
  <1>3. \A a \in Apps : subscriptions'[a] = subscriptions[a] \/ Follows(r, a)
    BY FollowSteps
  <1>4. \A a \in Apps : Untouched(a) => Untouched(a)'
    <2> SUFFICES ASSUME NEW a \in Apps, Untouched(a), NEW p \in Requests
                 PROVE  subscriptions'[a] = NotProvisioned /\ ~Follows(p, a)'
      BY DEF Untouched
    <2>1. CASE p = r
      BY <1>1, <1>2, <1>3, <2>1 DEF Untouched, Follows, FollowPcs
    <2>2. CASE p # r
      BY <1>2, <1>3, <2>2 DEF Untouched, Follows
    <2>q. QED BY <2>1, <2>2
  <1>q. QED BY <1>1, <1>2, <1>4, FollowSteps, FrameChain

LEMMA StaffChain ==
    ASSUME TypeInv, TypeInv', Chain, Staff
    PROVE  Chain'
  <1>1. ASSUME NEW a \in Apps, CancelSubscription(a)
        PROVE  Chain'
    <2>1. UNCHANGED <<applications, req>> /\ subscriptions[a] # NotProvisioned
          /\ \A b \in Apps : b # a => subscriptions'[b] = subscriptions[b]
      BY <1>1 DEF CancelSubscription, TypeInv, TypeOK
    <2>2. \A b \in Apps : Untouched(b) => Untouched(b)'
      BY <2>1 DEF Untouched, Follows
    <2>q. QED BY <2>1, <2>2, FrameChain DEF Live
  <1>2. ASSUME NEW u \in Contacts, DeleteCustomer(u)
        PROVE  Chain'
    <2>1. \A r \in Requests : req'[r].pc = "change" => req'[r] = req[r]
      BY <1>2, DeletedRequests DEF Idle
    <2>2. \A a \in Apps : Untouched(a) => Untouched(a)'
      <3> SUFFICES ASSUME NEW a \in Apps, Untouched(a)
                   PROVE  Untouched(a)'
        OBVIOUS
      <3>1. subscriptions'[a] = NotProvisioned
        BY <1>2 DEF DeleteCustomer, Untouched
      <3>2. \A r \in Requests : req'[r].pc \in FollowPcs =>
               req'[r].pc = req[r].pc /\ req'[r].app = req[r].app
        BY <1>2, DeletedRequests DEF FollowPcs, AfterStatus, Idle
      <3>q. QED BY <3>1, <3>2 DEF Untouched, Follows, FollowPcs
    <2>3. \A a \in Apps :
            /\ Live(a) <=> Live(a)'
            /\ Live(a) => /\ applications'[a].status = applications[a].status
                          /\ applications'[a].trail = applications[a].trail
                          /\ applications'[a].whole = applications[a].whole
                          /\ applications'[a].torn = applications[a].torn
      BY <1>2, Deletions DEF Live
    <2>q. QED BY <2>1, <2>2, <2>3, FrameChain
  <1>q. QED BY <1>1, <1>2 DEF Staff

LEMMA ChainCorrect == Spec => []Chain
  <1>1. Init => Chain
    BY DEF Init, Chain, Live, Untouched, Follows, Idle, AfterStatus
  <1>2. TypeInv /\ TypeInv' /\ Chain /\ [Next]_vars => Chain'
    <2>1. ASSUME TypeInv, TypeInv', Chain, UNCHANGED vars
          PROVE  Chain'
      BY <2>1 DEF vars, rows, Chain, Live, Untouched, Follows
    <2>q. QED BY <2>1, ApplyingChain, ReviewingChain, FollowingChain, StaffChain
              DEF Next, Statements
  <1>q. QED BY <1>1, <1>2, TypeCorrect, PTL DEF Spec

\* The history of an application agrees with its row, unless reviews of it overlapped.
THEOREM HistoriesAreWhole == Spec => []HistoryIsWhole
  <1>1. Chain => HistoryIsWhole
    BY DEF Chain, Live, HistoryIsWhole
  <1>q. QED BY <1>1, ChainCorrect, PTL

\* An application that was not approved, or was rejected, has no subscription, unless reviews
\* of it overlapped.
THEOREM UnapprovedAreNotServed == Spec => []UnapprovedIsNotServed
  <1>1. Chain => UnapprovedIsNotServed
    BY DEF Chain, Live, UnapprovedIsNotServed, Unapproved, Untouched
  <1>q. QED BY <1>1, ChainCorrect, PTL

-----------------------------------------------------------------------------
(* ServiceIsTheApplicants, NoOrphanAccount and InvitesAreReal *)

\* The account u is a customer's who has the number that the application a was made with.
Fits(u, a) == \E c \in customers : c.user = u /\ c.mobile = applicant[a].mobile

\* Whoever an application names, or a request holds for it, has the applicant's number.
Owned ==
    /\ \A a \in Apps : subscriptions[a] # NotProvisioned =>
          /\ Live(a)
          /\ subscriptions[a].customer = applications[a].customer
          /\ applications[a].customer \in Contacts
    /\ \A a \in Apps, u \in Contacts : Live(a) /\ applications[a].customer = u => Fits(u, a)

Rightful ==
    /\ Owned
    /\ \A r \in Requests, a \in Apps, u \in Contacts :
          req[r].pc = "create" /\ req[r].app = a /\ req[r].customer = u => Fits(u, a)
    /\ \A r \in Requests, a \in Apps, u \in Contacts :
          req[r].pc = "commit" /\ req[r].app = a /\ req[r].user = u /\ req[r].known =>
             Fits(u, a) /\ ~req[r].opened

Grows == \A a \in Apps, u \in Contacts : Fits(u, a) => Fits(u, a)'

LEMMA SameOwned ==
    ASSUME Rightful, Grows,
           \A a \in Apps :
              /\ Live(a) <=> Live(a)'
              /\ Live(a) => applications'[a].customer = applications[a].customer
              /\ subscriptions[a] # NotProvisioned <=> subscriptions'[a] # NotProvisioned
              /\ subscriptions[a] # NotProvisioned =>
                    subscriptions'[a].customer = subscriptions[a].customer
    PROVE  Owned'
  BY DEF Rightful, Owned, Grows

LEMMA StepRightful ==
    ASSUME TypeInv, Rightful, Grows, Owned', NEW r \in Requests, NEW st, Goto(r, st),
           st.pc = "create" => \A a \in Apps, u \in Contacts :
              st.app = a /\ st.customer = u => Fits(u, a)',
           st.pc = "commit" => \A a \in Apps, u \in Contacts :
              st.app = a /\ st.user = u /\ st.known => Fits(u, a)' /\ ~st.opened
    PROVE  Rightful'
  <1>1. req'[r] = st /\ \A p \in Requests : p # r => req'[p] = req[p]
    BY DEF Goto, TypeInv, TypeOK
  <1>2. ASSUME NEW p \in Requests, NEW a \in Apps, NEW u \in Contacts
        PROVE  /\ req'[p].pc = "create" /\ req'[p].app = a /\ req'[p].customer = u => Fits(u, a)'
               /\ req'[p].pc = "commit" /\ req'[p].app = a /\ req'[p].user = u /\ req'[p].known =>
                    Fits(u, a)' /\ ~req'[p].opened
    <2>1. CASE p = r
      BY <1>1, <2>1
    <2>2. CASE p # r
      BY <1>1, <2>2 DEF Rightful, Grows
    <2>q. QED BY <2>1, <2>2
  <1>q. QED BY <1>2 DEF Rightful

\* A step that only moves one request, to a place where it holds no customer.
LEMMA MoveRightful ==
    ASSUME TypeInv, Rightful, NEW r \in Requests, NEW st, Goto(r, st),
           UNCHANGED <<applicant, customers, subscriptions>>,
           \A a \in Apps : /\ Live(a) <=> Live(a)'
                           /\ Live(a) => applications'[a].customer = applications[a].customer,
           st.pc \notin {"create", "commit"}
    PROVE  Rightful'
  <1>1. Grows
    BY DEF Grows, Fits
  <1>2. Owned'
    BY <1>1, SameOwned
  <1>q. QED BY <1>1, <1>2, StepRightful

LEMMA ApplyingRightful ==
    ASSUME TypeInv, Rightful, NEW r \in Requests, Applying(r)
    PROVE  Rightful'
  <1>1. Grows
    <2>1. UNCHANGED <<applicant, customers>>
      BY DEF Applying, CreateRead, CreateCommit, Stay, rows
    <2>q. QED BY <2>1 DEF Grows, Fits
  <1>2. ASSUME NEW a \in Apps, CreateRead(r, a)
        PROVE  Rightful'
    <2>1. Owned'
      BY <1>1, <1>2, SameOwned DEF CreateRead, Stay, rows, Live
    <2>2. PICK u : /\ Goto(r, [pc |-> "create", app |-> a, customer |-> u])
                   /\ u = Nobody \/ \E c \in customers : c.user = u /\ c.mobile = applicant[a].mobile
      BY <1>2 DEF CreateRead
    <2>3. u # Nobody => Fits(u, a)
      BY <2>2 DEF Fits
    <2> DEFINE st == [pc |-> "create", app |-> a, customer |-> u]
    <2>4. st.pc = "create" /\ st.app = a /\ st.customer = u
      OBVIOUS
    <2> HIDE DEF st
    <2>5. \A b \in Apps, v \in Contacts : st.app = b /\ st.customer = v => Fits(v, b)'
      BY <1>1, <2>3, <2>4, OnboardingAssumption DEF Grows
    <2>q. QED BY <1>1, <2>1, <2>2, <2>4, <2>5, StepRightful DEF st
  <1>3. CASE CreateCommit(r)
    <2>1. PICK a \in Apps : a = req[r].app
      BY <1>3, Places DEF CreateCommit, Creating
    <2>2. /\ ~Live(a)
          /\ applications'[a].customer = req[r].customer
          /\ \A b \in Apps : b # a => applications'[b] = applications[b]
          /\ subscriptions' = subscriptions /\ Goto(r, Idle) /\ req[r].pc = "create"
      BY <1>3, <2>1 DEF CreateCommit, TypeInv, TypeOK, Live
    <2>3. Owned'
      <3>1. ASSUME NEW b \in Apps, subscriptions'[b] # NotProvisioned
            PROVE  /\ Live(b)'
                   /\ subscriptions'[b].customer = applications'[b].customer
                   /\ applications'[b].customer \in Contacts
        BY <2>2, <3>1 DEF Rightful, Owned, Live
      <3>2. ASSUME NEW b \in Apps, NEW u \in Contacts, Live(b)', applications'[b].customer = u
            PROVE  Fits(u, b)'
        <4>1. CASE b = a
          BY <1>1, <2>1, <2>2, <3>2, <4>1 DEF Rightful, Grows
        <4>2. CASE b # a
          BY <1>1, <2>2, <3>2, <4>2 DEF Rightful, Owned, Grows, Live
        <4>q. QED BY <4>1, <4>2
      <3>q. QED BY <3>1, <3>2 DEF Owned
    <2>4. Idle.pc = "idle"
      BY DEF Idle
    <2>q. QED BY <1>1, <2>2, <2>3, <2>4, StepRightful
  <1>q. QED BY <1>2, <1>3 DEF Applying

LEMMA ReviewingRightful ==
    ASSUME TypeInv, Rightful, NEW r \in Requests, Reviewing(r)
    PROVE  Rightful'
  <1>1. ASSUME NEW a \in Apps, NEW to \in Targets[a], StatusRead(r, a, to)
        PROVE  Rightful'
    <2> DEFINE row == [applications[a] EXCEPT
                         !.torn = @ \/ \E p \in Requests : req[p].pc = "change" /\ req[p].app = a]
    <2>1. applications[a] \in ApplicationRow
      BY <1>1, Rows DEF StatusRead
    <2>2. row \in ApplicationRow /\ row.customer = applications[a].customer
      BY <2>1 DEF ApplicationRow
    <2>3. applications' = [applications EXCEPT ![a] = row]
      BY <1>1 DEF StatusRead
    <2> HIDE DEF row
    <2>4. \A b \in Apps : /\ Live(b) <=> Live(b)'
                          /\ Live(b) => applications'[b].customer = applications[b].customer
      BY <2>1, <2>2, <2>3, RowsApplied DEF Live, TypeInv, TypeOK
    <2>5. \E st : Goto(r, st) /\ st.pc = "change"
      BY <1>1 DEF StatusRead
    <2>q. QED BY <1>1, <2>4, <2>5, MoveRightful DEF StatusRead
  <1>2. CASE StatusCommit(r)
    <2> DEFINE a == req[r].app
               row == [applications[a] EXCEPT
                         !.status = req[r].to, !.trail = req[r].to,
                         !.whole = @ /\ req[r].from = applications[a].trail]
    <2>1. req[r] \in Changing /\ a \in Apps /\ applications[a] \in ApplicationRow
          /\ applications' = [applications EXCEPT ![a] = row]
      BY <1>2, StatusCommits
    <2>2. row \in ApplicationRow /\ row.customer = applications[a].customer
      BY <2>1 DEF ApplicationRow, Changing
    <2> HIDE DEF row
    <2>3. \A b \in Apps : /\ Live(b) <=> Live(b)'
                          /\ Live(b) => applications'[b].customer = applications[b].customer
      BY <2>1, <2>2, RowsApplied DEF Live, TypeInv, TypeOK
    <2>4. \E st : Goto(r, st) /\ st.pc \in {"provision", "find", "idle"}
      BY <1>2, StatusCommits
    <2>q. QED BY <1>2, <2>3, <2>4, MoveRightful DEF StatusCommit
  <1>q. QED BY <1>1, <1>2 DEF Reviewing

\* Where the steps lead that name no customer.
LEMMA OtherMoves ==
    ASSUME TypeInv, NEW r \in Requests,
           \/ ProvisionRead(r) \/ ProvisionCommit(r) \/ Invite(r)
           \/ Activating(r) \/ Joining(r) \/ Abandon(r)
    PROVE  \E st : /\ Goto(r, st)
                   /\ st.pc \notin {"create", "commit"}
                   /\ st.pc = "invite" => ProvisionCommit(r) /\ st.user = req[r].user
                   /\ st.pc = "customer" => RegisterUser(r) /\ st.user = req[r].user
  <1> DEFINE Fine(st) == /\ st.pc \notin {"create", "commit"}
                         /\ st.pc = "invite" => ProvisionCommit(r) /\ st.user = req[r].user
                         /\ st.pc = "customer" => RegisterUser(r) /\ st.user = req[r].user
  <1>1. Fine(Idle)
    BY DEF Idle
  <1>2. \A a : Fine(AfterProvisioning(a, TRUE)) /\ Fine(AfterProvisioning(a, FALSE))
    BY DEF AfterProvisioning, Idle
  <1>3. req[r].pc \in Working => req[r].pc = "change" \/ req[r].go \in BOOLEAN
    BY InHand
  <1>4. CASE ProvisionRead(r)
    <2>1. req[r].go \in BOOLEAN
      BY <1>3, <1>4 DEF ProvisionRead, Working, AfterStatus
    <2>2. Fine([pc |-> "ensure", app |-> req[r].app, go |-> req[r].go])
      OBVIOUS
    <2> HIDE DEF Fine
    <2>3. \E st : Goto(r, st) /\ Fine(st)
      BY <1>2, <1>4, <2>1, <2>2 DEF ProvisionRead
    <2>q. QED BY <2>3 DEF Fine
  <1>5. CASE ProvisionCommit(r) \/ Invite(r)
    <2>1. req[r].go \in BOOLEAN
      BY <1>3, <1>5 DEF ProvisionCommit, Invite, Working, AfterStatus
    <2>2. ProvisionCommit(r) =>
             Fine([pc |-> "invite", app |-> req[r].app, go |-> req[r].go, user |-> req[r].user])
      OBVIOUS
    <2> HIDE DEF Fine
    <2>3. \E st : Goto(r, st) /\ Fine(st)
      BY <1>2, <1>5, <2>1, <2>2 DEF ProvisionCommit, Invite
    <2>q. QED BY <2>3 DEF Fine
  <1>6. CASE Activating(r)
    <2>1. Fine([pc |-> "provision", app |-> req[r].app, go |-> TRUE])
      OBVIOUS
    <2>2. ActivateRead(r) => Fine([req[r] EXCEPT !.pc = "start"])
      <3>1. ActivateRead(r) => req[r] \in Following
        BY Places DEF ActivateRead, AfterStatus
      <3>2. ActivateRead(r) => [req[r] EXCEPT !.pc = "start"].pc = "start"
        BY <3>1 DEF Following
      <3>q. QED BY <3>2
    <2> HIDE DEF Fine
    <2>3. \E st : Goto(r, st) /\ Fine(st)
      BY <1>1, <1>2, <1>6, <2>1, <2>2 DEF Activating, ActivateFind, ActivateRead, ActivateCommit
    <2>q. QED BY <2>3 DEF Fine
  <1>7. CASE Joining(r)
    <2>1. \A u : Fine([pc |-> "user", user |-> u])
      OBVIOUS
    <2>2. RegisterUser(r) => /\ Goto(r, [req[r] EXCEPT !.pc = "customer"])
                             /\ Fine([req[r] EXCEPT !.pc = "customer"])
      <3>1. RegisterUser(r) => req[r] \in Registering
        BY Places DEF RegisterUser
      <3>2. RegisterUser(r) => /\ [req[r] EXCEPT !.pc = "customer"].pc = "customer"
                               /\ [req[r] EXCEPT !.pc = "customer"].user = req[r].user
        BY <3>1 DEF Registering
      <3>3. RegisterUser(r) => Goto(r, [req[r] EXCEPT !.pc = "customer"])
        BY DEF RegisterUser, Goto, TypeInv, TypeOK
      <3>q. QED BY <3>2, <3>3
    <2> HIDE DEF Fine
    <2>3. \E st : Goto(r, st) /\ Fine(st)
      <3>1. CASE RegisterUser(r)
        BY <2>2, <3>1
      <3>2. CASE \E u \in Contacts : RegisterRead(r, u)
        BY <2>1, <3>2 DEF RegisterRead
      <3>3. CASE RegisterCustomer(r)
        BY <1>1, <3>3 DEF RegisterCustomer
      <3>q. QED BY <1>7, <3>1, <3>2, <3>3 DEF Joining
    <2>q. QED BY <2>3 DEF Fine
  <1>8. CASE Abandon(r)
    BY <1>1, <1>8 DEF Abandon
  <1>q. QED BY <1>4, <1>5, <1>6, <1>7, <1>8

LEMMA ProvisioningRightful ==
    ASSUME TypeInv, Rightful, NEW r \in Requests, ProvisioningSteps(r)
    PROVE  Rightful'
  <1>0. PICK a \in Apps : a = req[r].app /\ Live(a)
    <2>1. req[r].pc \in Working
      BY DEF ProvisioningSteps, ProvisionRead, EnsureCustomer, EnsureAccount, ProvisionCommit,
             Invite, Working, AfterStatus
    <2>q. QED BY <2>1, InHand DEF TypeInv, Refers, Live
  <1>1. CASE ProvisionRead(r) \/ Invite(r)
    <2>1. UNCHANGED <<applicant, applications, customers, subscriptions>>
      BY <1>1 DEF ProvisionRead, Invite, Stay, rows
    <2>q. QED BY <1>1, <2>1, OtherMoves, MoveRightful DEF Live
  <1>2. ASSUME NEW u \in Contacts, NEW known \in BOOLEAN, NEW opened \in BOOLEAN, Stay,
               known => Fits(u, a) /\ ~opened,
               Goto(r, [pc |-> "commit", app |-> a, go |-> req[r].go, user |-> u,
                        known |-> known, opened |-> opened])
        PROVE  Rightful'
    <2> DEFINE st == [pc |-> "commit", app |-> a, go |-> req[r].go, user |-> u,
                      known |-> known, opened |-> opened]
    <2>1. st.pc = "commit" /\ st.app = a /\ st.user = u /\ st.known = known
          /\ st.opened = opened
      OBVIOUS
    <2> HIDE DEF st
    <2>2. UNCHANGED <<applicant, applications, customers, subscriptions>>
      BY <1>2 DEF Stay, rows
    <2>3. Grows
      BY <2>2 DEF Grows, Fits
    <2>4. Owned'
      BY <2>2, <2>3, SameOwned DEF Live
    <2>5. \A b \in Apps, v \in Contacts :
             st.app = b /\ st.user = v /\ st.known => Fits(v, b)' /\ ~st.opened
      BY <1>2, <2>1, <2>3 DEF Grows
    <2>q. QED BY <1>2, <2>1, <2>3, <2>4, <2>5, StepRightful DEF st
  <1>3. CASE EnsureCustomer(r)
    <2>1. CASE Goto(r, [req[r] EXCEPT !.pc = "account"])
      <3>1. req[r] \in Following
        BY <1>3, Places DEF EnsureCustomer, AfterStatus
      <3>2. [req[r] EXCEPT !.pc = "account"].pc = "account"
        BY <3>1 DEF Following
      <3>3. UNCHANGED <<applicant, applications, customers, subscriptions>>
        BY <1>3 DEF EnsureCustomer, Stay, rows
      <3>q. QED BY <2>1, <3>2, <3>3, MoveRightful DEF Live
    <2>2. CASE applications[a].customer # Nobody /\ ForCustomer(r, applications[a].customer)
      <3>1. applications[a].customer \in Contacts
        BY <1>0, <2>2, Rows DEF Live, ApplicationRow
      <3>2. Fits(applications[a].customer, a)
        BY <1>0, <3>1 DEF Rightful, Owned
      <3>q. QED BY <1>0, <1>2, <1>3, <2>2, <3>1, <3>2 DEF EnsureCustomer, ForCustomer
    <2>3. CASE \E c \in customers : c.mobile = applicant[a].mobile /\ ForCustomer(r, c.user)
      <3>1. PICK c \in customers : c.mobile = applicant[a].mobile /\ ForCustomer(r, c.user)
        BY <2>3
      <3>2. c.user \in Contacts /\ Fits(c.user, a)
        BY <3>1 DEF TypeInv, TypeOK, Customer, Fits
      <3>q. QED BY <1>0, <1>2, <1>3, <3>1, <3>2 DEF EnsureCustomer, ForCustomer
    <2>q. QED BY <1>0, <1>3, <2>1, <2>2, <2>3 DEF EnsureCustomer
  <1>4. CASE EnsureAccount(r)
    <2>1. applicant[a] \in Contacts /\ users \subseteq Contacts
      BY DEF TypeInv, TypeOK
    <2>2. PICK u \in Contacts, opened \in BOOLEAN :
              Goto(r, [pc |-> "commit", app |-> a, go |-> req[r].go, user |-> u,
                       known |-> FALSE, opened |-> opened])
      BY <1>0, <1>4, <2>1 DEF EnsureAccount
    <2>q. QED BY <1>2, <1>4, <2>2 DEF EnsureAccount
  <1>5. CASE ProvisionCommit(r)
    <2>1. PICK u \in Contacts : u = req[r].user
      BY <1>5, Places DEF ProvisionCommit, Provisioning
    <2>2. customers \subseteq customers' /\ applicant' = applicant
      BY <1>5 DEF ProvisionCommit
    <2>3. Grows
      BY <2>2 DEF Grows, Fits
    <2>4. Fits(u, a)'
      <3>1. CASE req[r].known
        <4>1. Fits(u, a)
          BY <1>0, <1>5, <2>1, <3>1 DEF ProvisionCommit, Rightful
        <4>q. QED BY <2>3, <4>1 DEF Grows
      <3>2. CASE ~req[r].known
        <4> DEFINE c == [user |-> u, mobile |-> applicant[a].mobile, active |-> FALSE]
        <4>1. c \in customers'
          BY <1>0, <1>5, <2>1, <3>2 DEF ProvisionCommit
        <4>2. c.user = u /\ c.mobile = applicant[a].mobile
          OBVIOUS
        <4> HIDE DEF c
        <4>q. QED BY <2>2, <4>1, <4>2 DEF Fits
      <3>q. QED BY <3>1, <3>2
    <2>5. /\ Live(a)' /\ applications'[a].customer = u
          /\ \A b \in Apps : b # a => applications'[b] = applications[b]
      <3> DEFINE row == [applications[a] EXCEPT !.customer = u]
      <3>1. applications[a] \in ApplicationRow
        BY <1>0, Rows DEF Live
      <3>2. row \in ApplicationRow /\ row.customer = u
        BY <3>1 DEF ApplicationRow
      <3>3. applications' = [applications EXCEPT ![a] = row]
        BY <1>0, <1>5, <2>1 DEF ProvisionCommit
      <3> HIDE DEF row
      <3>q. QED BY <3>2, <3>3, RowsApplied DEF Live, TypeInv, TypeOK
    <2>6. /\ subscriptions'[a].customer = u
          /\ \A b \in Apps : b # a => subscriptions'[b] = subscriptions[b]
      BY <1>0, <1>5, <2>1 DEF ProvisionCommit, TypeInv, TypeOK
    <2>7. Owned'
      <3>1. ASSUME NEW b \in Apps, subscriptions'[b] # NotProvisioned
            PROVE  /\ Live(b)'
                   /\ subscriptions'[b].customer = applications'[b].customer
                   /\ applications'[b].customer \in Contacts
        BY <2>5, <2>6, <3>1 DEF Rightful, Owned, Live
      <3>2. ASSUME NEW b \in Apps, NEW v \in Contacts, Live(b)', applications'[b].customer = v
            PROVE  Fits(v, b)'
        <4>1. CASE b = a
          BY <2>4, <2>5, <3>2, <4>1
        <4>2. CASE b # a
          BY <2>3, <2>5, <3>2, <4>2 DEF Rightful, Owned, Grows, Live
        <4>q. QED BY <4>1, <4>2
      <3>q. QED BY <3>1, <3>2 DEF Owned
    <2>q. QED BY <1>5, <2>3, <2>7, OtherMoves, StepRightful
  <1>q. QED BY <1>1, <1>3, <1>4, <1>5 DEF ProvisioningSteps

LEMMA OtherRightful ==
    ASSUME TypeInv, Rightful, NEW r \in Requests, Activating(r) \/ Joining(r) \/ Abandon(r)
    PROVE  Rightful'
  <1>1. Grows
    <2>1. applicant' = applicant
      BY DEF Activating, Joining, ActivateFind, ActivateRead, ActivateCommit, RegisterRead,
             RegisterUser, RegisterCustomer, Abandon, Stay
    <2>2. \A c \in customers : \E d \in customers' : d.user = c.user /\ d.mobile = c.mobile
      <3>1. CASE ActivateCommit(r)
        <4>1. \A c \in Customer : \A b : [c EXCEPT !.active = b].user = c.user
                                         /\ [c EXCEPT !.active = b].mobile = c.mobile
          BY DEF Customer
        <4>2. \A c \in customers : \E b : [c EXCEPT !.active = b] \in customers'
          BY <3>1 DEF ActivateCommit
        <4>q. QED BY <4>1, <4>2 DEF TypeInv, TypeOK
      <3>2. CASE customers \subseteq customers'
        BY <3>2
      <3>q. QED BY <3>1, <3>2
               DEF Activating, Joining, ActivateFind, ActivateRead, RegisterRead, RegisterUser,
                   RegisterCustomer, Abandon, Stay, rows
    <2>q. QED BY <2>1, <2>2 DEF Grows, Fits
  <1>2. \A a \in Apps : /\ Live(a) <=> Live(a)'
                        /\ Live(a) => applications'[a].customer = applications[a].customer
    <2>1. CASE Abandon(r)
      <3>1. \A row \in ApplicationRow : [row EXCEPT !.lost = TRUE].customer = row.customer
        BY DEF ApplicationRow
      <3>2. ASSUME NEW a \in Apps
            PROVE  applications'[a].customer = applications[a].customer
        <4>1. CASE applications'[a] = applications[a]
          BY <4>1
        <4>2. CASE /\ applications[a] \in ApplicationRow
                   /\ applications'[a] = [applications[a] EXCEPT !.lost = TRUE]
          BY <3>1, <4>2
        <4>q. QED BY <2>1, <4>1, <4>2, Abandons
      <3>q. QED BY <2>1, <3>2, Abandons DEF Live
    <2>2. CASE applications' = applications
      BY <2>2 DEF Live
    <2>q. QED BY <2>1, <2>2 DEF Activating, Joining, ActivateFind, ActivateRead, ActivateCommit,
                                RegisterRead, RegisterUser, RegisterCustomer, Stay, rows
  <1>3. \A a \in Apps : /\ subscriptions[a] # NotProvisioned <=> subscriptions'[a] # NotProvisioned
                        /\ subscriptions[a] # NotProvisioned =>
                             subscriptions'[a].customer = subscriptions[a].customer
    <2>1. CASE ActivateCommit(r)
      <3>1. PICK a \in Apps : a = req[r].app /\ subscriptions[a] # NotProvisioned
        BY <2>1, InHand DEF ActivateCommit, Working, AfterStatus, TypeInv, Refers
      <3> DEFINE row == [subscriptions[a] EXCEPT !.status = "ACTIVE"]
      <3>2. row # NotProvisioned /\ row.customer = subscriptions[a].customer
        BY <3>1, Rows DEF SubscriptionRow, NotProvisioned
      <3>3. subscriptions' = [subscriptions EXCEPT ![a] = row]
        BY <2>1, <3>1 DEF ActivateCommit
      <3> HIDE DEF row
      <3>q. QED BY <3>1, <3>2, <3>3 DEF TypeInv, TypeOK
    <2>2. CASE subscriptions' = subscriptions
      BY <2>2
    <2>q. QED BY <2>1, <2>2 DEF Activating, Joining, ActivateFind, ActivateRead, RegisterRead,
                                RegisterUser, RegisterCustomer, Abandon, Stay, rows
  <1>4. Owned'
    BY <1>1, <1>2, <1>3, SameOwned
  <1>q. QED BY <1>1, <1>4, OtherMoves, StepRightful

LEMMA StaffRightful ==
    ASSUME TypeInv, Rightful, Staff
    PROVE  Rightful'
  <1>1. ASSUME NEW a \in Apps, CancelSubscription(a)
        PROVE  Rightful'
    <2> DEFINE row == [subscriptions[a] EXCEPT !.status = "CANCELLED"]
    <2>1. row # NotProvisioned /\ row.customer = subscriptions[a].customer
      BY <1>1, Rows DEF CancelSubscription, SubscriptionRow, NotProvisioned
    <2>2. subscriptions' = [subscriptions EXCEPT ![a] = row]
      BY <1>1 DEF CancelSubscription
    <2> HIDE DEF row
    <2>3. \A b \in Apps :
             /\ subscriptions[b] # NotProvisioned <=> subscriptions'[b] # NotProvisioned
             /\ subscriptions[b] # NotProvisioned =>
                  subscriptions'[b].customer = subscriptions[b].customer
      BY <1>1, <2>1, <2>2 DEF CancelSubscription, TypeInv, TypeOK
    <2>4. UNCHANGED <<applicant, applications, customers, req>>
      BY <1>1 DEF CancelSubscription
    <2>5. Grows
      BY <2>4 DEF Grows, Fits
    <2>6. Owned'
      BY <2>3, <2>4, <2>5, SameOwned DEF Live
    <2>q. QED BY <2>4, <2>5, <2>6 DEF Rightful, Grows
  <1>2. ASSUME NEW u \in Contacts, DeleteCustomer(u)
        PROVE  Rightful'
    <2>1. \A a \in Apps, v \in Contacts : v # u /\ Fits(v, a) => Fits(v, a)'
      BY <1>2 DEF DeleteCustomer, Fits
    <2>2. \A a \in Apps : /\ subscriptions'[a] # NotProvisioned =>
                               /\ subscriptions[a] # NotProvisioned
                               /\ subscriptions'[a] = subscriptions[a]
                               /\ subscriptions[a].customer # u
      BY <1>2 DEF DeleteCustomer
    <2>3. \A a \in Apps : /\ Live(a) <=> Live(a)'
                          /\ Live(a) => applications'[a].customer =
                                 IF applications[a].customer = u THEN Nobody
                                 ELSE applications[a].customer
      BY <1>2, Deletions DEF Live
    <2>4. Owned'
      <3>1. ASSUME NEW a \in Apps, subscriptions'[a] # NotProvisioned
            PROVE  /\ Live(a)'
                   /\ subscriptions'[a].customer = applications'[a].customer
                   /\ applications'[a].customer \in Contacts
        <4>1. /\ Live(a) /\ subscriptions[a].customer = applications[a].customer
              /\ applications[a].customer \in Contacts
          BY <2>2, <3>1 DEF Rightful, Owned
        <4>q. QED BY <2>2, <2>3, <3>1, <4>1
      <3>2. ASSUME NEW a \in Apps, NEW v \in Contacts, Live(a)', applications'[a].customer = v
            PROVE  Fits(v, a)'
        <4>1. v # Nobody
          BY OnboardingAssumption
        <4>2. Live(a) /\ applications[a].customer = v /\ v # u
          BY <2>3, <3>2, <4>1
        <4>q. QED BY <2>1, <4>2 DEF Rightful, Owned
      <3>q. QED BY <3>1, <3>2 DEF Owned
    <2>5. ASSUME NEW r \in Requests, NEW a \in Apps, NEW v \in Contacts,
                 req'[r].pc = "create", req'[r].app = a, req'[r].customer = v
          PROVE  Fits(v, a)'
      <3>1. req'[r] = req[r] /\ req[r].customer # u
        BY <1>2, <2>5, DeletedRequests
      <3>q. QED BY <2>1, <2>5, <3>1 DEF Rightful
    <2>6. ASSUME NEW r \in Requests, NEW a \in Apps, NEW v \in Contacts,
                 req'[r].pc = "commit", req'[r].app = a, req'[r].user = v, req'[r].known
          PROVE  Fits(v, a)' /\ ~req'[r].opened
      <3>1. req'[r] = req[r] /\ (req[r].user # u \/ req[r].opened)
        BY <1>2, <2>6, DeletedRequests
      <3>2. Fits(v, a) /\ ~req[r].opened
        BY <2>6, <3>1 DEF Rightful
      <3>q. QED BY <2>1, <2>6, <3>1, <3>2
    <2>q. QED BY <2>4, <2>5, <2>6 DEF Rightful
  <1>q. QED BY <1>1, <1>2 DEF Staff

LEMMA RightfulCorrect == Spec => []Rightful
  <1>1. Init => Rightful
    BY DEF Init, Rightful, Owned, Live, Idle
  <1>2. TypeInv /\ Rightful /\ [Next]_vars => Rightful'
    <2>1. ASSUME TypeInv, Rightful, UNCHANGED vars
          PROVE  Rightful'
      BY <2>1 DEF vars, rows, Rightful, Owned, Live, Fits
    <2>q. QED BY <2>1, ApplyingRightful, ReviewingRightful, ProvisioningRightful, OtherRightful,
                 StaffRightful DEF Next, Statements
  <1>q. QED BY <1>1, <1>2, TypeCorrect, PTL DEF Spec

\* A subscription is the applicant's, whoever else applies, registers or is deleted meanwhile.
THEOREM ServiceIsRightful == Spec => []ServiceIsTheApplicants
  <1>1. Rightful => ServiceIsTheApplicants
    BY DEF Rightful, Owned, Fits, ServiceIsTheApplicants
  <1>q. QED BY <1>1, RightfulCorrect, PTL

\* An invite is being sent, or was sent, for an account that was created.
Real ==
    /\ invited \subseteq users \cup gone
    /\ \A r \in Requests, u \in Contacts :
          req[r].pc = "invite" /\ req[r].user = u => u \in users \cup gone

\* The steps that neither open accounts nor make customers.
LEMMA QuietMoves ==
    ASSUME TypeInv, NEW r \in Requests,
           Applying(r) \/ Reviewing(r) \/ EnsureCustomer(r) \/ EnsureAccount(r)
    PROVE  /\ \E st : Goto(r, st) /\ st.pc \notin {"customer", "invite"}
           /\ req[r].pc # "customer"
           /\ UNCHANGED <<users, customers, halves, invited, gone>>
  <1> DEFINE Fine(st) == st.pc \notin {"customer", "invite"}
             Kept == /\ req[r].pc # "customer"
                     /\ UNCHANGED <<users, customers, halves, invited, gone>>
  <1>1. /\ Fine(Idle) /\ Idle.pc # "customer"
        /\ \A a, u : Fine([pc |-> "create", app |-> a, customer |-> u])
        /\ \A a, from, to : Fine([pc |-> "change", app |-> a, from |-> from, to |-> to])
        /\ \A a, go, u, known, opened :
             Fine([pc |-> "commit", app |-> a, go |-> go, user |-> u, known |-> known,
                   opened |-> opened])
    BY DEF Idle
  <1>2. Stay => UNCHANGED <<users, customers, halves, invited, gone>>
    BY DEF Stay, rows, traces
  <1>3. CASE Applying(r)
    <2>1. ASSUME NEW a \in Apps, CreateRead(r, a)
          PROVE  Kept /\ \E st : Goto(r, st) /\ Fine(st)
      <3>1. Kept
        BY <1>1, <1>2, <2>1 DEF CreateRead
      <3> HIDE DEF Fine
      <3>q. QED BY <1>1, <2>1, <3>1 DEF CreateRead
    <2>2. CASE CreateCommit(r)
      <3>1. Kept
        BY <2>2 DEF CreateCommit, traces
      <3>q. QED BY <1>1, <2>2, <3>1 DEF CreateCommit
    <2>q. QED BY <1>3, <2>1, <2>2 DEF Applying
  <1>4. CASE Reviewing(r)
    <2>1. ASSUME NEW a \in Apps, NEW to \in Targets[a], StatusRead(r, a, to)
          PROVE  Kept /\ \E st : Goto(r, st) /\ Fine(st)
      <3>1. Kept
        BY <1>1, <2>1 DEF StatusRead, traces
      <3> HIDE DEF Fine
      <3>q. QED BY <1>1, <2>1, <3>1 DEF StatusRead
    <2>2. CASE StatusCommit(r)
      <3>1. Kept
        BY <2>2 DEF StatusCommit, traces
      <3>q. QED BY <2>2, <3>1, StatusCommits
    <2>q. QED BY <1>4, <2>1, <2>2 DEF Reviewing
  <1>5. CASE EnsureCustomer(r)
    <2>1. Kept
      BY <1>2, <1>5 DEF EnsureCustomer
    <2>2. req[r] \in Following
      BY <1>5, Places DEF EnsureCustomer, AfterStatus
    <2>3. Fine([req[r] EXCEPT !.pc = "account"])
      BY <2>2 DEF Following
    <2>4. \/ Goto(r, [req[r] EXCEPT !.pc = "account"])
          \/ \E u : ForCustomer(r, u)
      BY <1>5 DEF EnsureCustomer
    <2> HIDE DEF Fine
    <2>5. \E st : Goto(r, st) /\ Fine(st)
      BY <1>1, <2>3, <2>4 DEF ForCustomer
    <2>q. QED BY <2>1, <2>5 DEF Fine
  <1>6. CASE EnsureAccount(r)
    <2>1. Kept
      BY <1>2, <1>6 DEF EnsureAccount
    <2>2. \E u, opened : Goto(r, [pc |-> "commit", app |-> req[r].app, go |-> req[r].go,
                                  user |-> u, known |-> FALSE, opened |-> opened])
      BY <1>6 DEF EnsureAccount
    <2> HIDE DEF Fine
    <2>3. \E st : Goto(r, st) /\ Fine(st)
      BY <1>1, <2>2
    <2>q. QED BY <2>1, <2>3 DEF Fine
  <1>q. QED BY <1>3, <1>4, <1>5, <1>6

LEMMA StepReal ==
    ASSUME TypeInv, Real, NEW r \in Requests, NEW st, Goto(r, st),
           users \subseteq users', gone' = gone, invited' \subseteq users' \cup gone,
           st.pc = "invite" => st.user \in users'
    PROVE  Real'
  <1>1. req'[r] = st /\ \A p \in Requests : p # r => req'[p] = req[p]
    BY DEF Goto, TypeInv, TypeOK
  <1>q. QED BY <1>1 DEF Real

\* Every invite is for an account that was created.
THEOREM InvitesAreForAccounts == Spec => []InvitesAreReal
  <1>1. Init => Real
    BY DEF Init, Real, Idle
  <1>2. TypeInv /\ Real /\ [Next]_vars => Real'
    <2>1. ASSUME TypeInv, Real, UNCHANGED vars
          PROVE  Real'
      BY <2>1 DEF vars, rows, traces, Real
    <2>2. ASSUME TypeInv, Real, NEW r \in Requests,
                 Applying(r) \/ Reviewing(r) \/ EnsureCustomer(r) \/ EnsureAccount(r)
          PROVE  Real'
      <3>1. PICK st : Goto(r, st) /\ st.pc \notin {"customer", "invite"}
        BY <2>2, QuietMoves
      <3>2. UNCHANGED <<users, gone, invited>>
        BY <2>2, QuietMoves
      <3>q. QED BY <2>2, <3>1, <3>2, StepReal DEF Real
    <2>3. ASSUME TypeInv, Real, NEW r \in Requests,
                 \/ ProvisionRead(r) \/ ProvisionCommit(r) \/ Invite(r)
                 \/ Activating(r) \/ Joining(r) \/ Abandon(r)
          PROVE  Real'
      <3>1. PICK st : /\ Goto(r, st)
                      /\ st.pc = "invite" => ProvisionCommit(r) /\ st.user = req[r].user
        BY <2>3, OtherMoves
      <3>2. users \subseteq users'
        BY <2>3 DEF ProvisionRead, ProvisionCommit, Invite, Activating, ActivateFind,
                    ActivateRead, ActivateCommit, Joining, RegisterRead, RegisterUser,
                    RegisterCustomer, Abandon, Stay, rows
      <3>3. gone' = gone
        BY <2>3 DEF ProvisionRead, ProvisionCommit, Invite, Activating, ActivateFind,
                    ActivateRead, ActivateCommit, Joining, RegisterRead, RegisterUser,
                    RegisterCustomer, Abandon, Stay, traces
      <3>4. invited' \subseteq users' \cup gone
        <4>1. CASE Invite(r)
          <5>1. req[r].user \in Contacts /\ req[r].pc = "invite"
            BY <2>3, <4>1, Places DEF Invite, Inviting
          <5>q. QED BY <2>3, <3>2, <4>1, <5>1 DEF Invite, Real
        <4>2. CASE invited' = invited
          BY <2>3, <3>2, <4>2 DEF Real
        <4>q. QED BY <2>3, <4>1, <4>2
                 DEF ProvisionRead, ProvisionCommit, Activating, ActivateFind, ActivateRead,
                     ActivateCommit, Joining, RegisterRead, RegisterUser, RegisterCustomer,
                     Abandon, Stay, traces
      <3>5. st.pc = "invite" => st.user \in users'
        <4>1. ASSUME ProvisionCommit(r), req[r].opened
              PROVE  req[r].user \in users'
          BY <4>1 DEF ProvisionCommit
        <4>2. ASSUME ProvisionCommit(r), ~req[r].opened
              PROVE  st.pc # "invite"
          <5>1. req[r].go \in BOOLEAN /\ Goto(r, AfterProvisioning(req[r].app, req[r].go))
            BY <2>3, <4>2, InHand DEF ProvisionCommit, Working, AfterStatus
          <5>2. AfterProvisioning(req[r].app, req[r].go).pc # "invite"
            BY DEF AfterProvisioning, Idle
          <5>q. QED BY <2>3, <3>1, <5>1, <5>2 DEF Goto, TypeInv, TypeOK
        <4>q. QED BY <3>1, <4>1, <4>2
      <3>q. QED BY <2>3, <3>1, <3>2, <3>3, <3>4, <3>5, StepReal
    <2>4. ASSUME TypeInv, Real, Staff
          PROVE  Real'
      <3>1. ASSUME NEW a \in Apps, CancelSubscription(a)
            PROVE  Real'
        BY <2>4, <3>1 DEF CancelSubscription, traces, Real
      <3>2. ASSUME NEW u \in Contacts, DeleteCustomer(u)
            PROVE  Real'
        <4>1. users \cup gone \subseteq users' \cup gone' /\ invited' = invited
          BY <3>2 DEF DeleteCustomer
        <4>2. \A r \in Requests : req'[r].pc = "invite" =>
                 req[r].pc = "invite" /\ req'[r].user = req[r].user
          BY <2>4, <3>2, DeletedRequests DEF Idle
        <4>q. QED BY <2>4, <4>1, <4>2 DEF Real
      <3>q. QED BY <2>4, <3>1, <3>2 DEF Staff
    <2>q. QED BY <2>1, <2>2, <2>3, <2>4 DEF Next, Statements, ProvisioningSteps
  <1>3. Real => InvitesAreReal
    BY DEF Real, InvitesAreReal
  <1>q. QED BY <1>1, <1>2, <1>3, TypeCorrect, PTL DEF Spec

LEMMA StepAttached ==
    ASSUME TypeInv, NoOrphanAccount, NEW r \in Requests, NEW st, Goto(r, st),
           \A u \in users' : u \in users \/ HasCustomer(u)' \/ (st.pc = "customer" /\ st.user = u),
           \A u \in Contacts : HasCustomer(u) => HasCustomer(u)',
           \A u \in halves : u \in halves' \/ HasCustomer(u)',
           \A u \in Contacts : req[r].pc = "customer" /\ req[r].user = u =>
              HasCustomer(u)' \/ u \in halves'
    PROVE  NoOrphanAccount'
  <1>1. req'[r] = st /\ \A p \in Requests : p # r => req'[p] = req[p]
    BY DEF Goto, TypeInv, TypeOK
  <1>2. users \subseteq Contacts
    BY DEF TypeInv, TypeOK
  <1>3. ASSUME NEW u \in users, NEW p \in Requests, req[p].pc = "customer", req[p].user = u
        PROVE  \/ HasCustomer(u)' \/ u \in halves'
               \/ \E q \in Requests : req'[q].pc = "customer" /\ req'[q].user = u
    <2>1. CASE p = r
      BY <1>2, <1>3, <2>1
    <2>2. CASE p # r
      BY <1>1, <1>3, <2>2
    <2>q. QED BY <2>1, <2>2
  <1>q. QED BY <1>1, <1>2, <1>3 DEF NoOrphanAccount

\* Provisioning leaves no account without a customer, and registration one only by ending
\* between the two.
THEOREM AccountsHaveCustomers == Spec => []NoOrphanAccount
  <1>1. Init => NoOrphanAccount
    BY DEF Init, NoOrphanAccount
  <1>2. TypeInv /\ Rightful /\ NoOrphanAccount /\ [Next]_vars => NoOrphanAccount'
    <2>1. ASSUME TypeInv, NoOrphanAccount, UNCHANGED vars
          PROVE  NoOrphanAccount'
      BY <2>1 DEF vars, rows, traces, NoOrphanAccount, HasCustomer
    <2>2. ASSUME TypeInv, NoOrphanAccount, NEW r \in Requests,
                 Applying(r) \/ Reviewing(r) \/ EnsureCustomer(r) \/ EnsureAccount(r)
          PROVE  NoOrphanAccount'
      <3>1. PICK st : Goto(r, st)
        BY <2>2, QuietMoves
      <3>2. UNCHANGED <<users, customers, halves>> /\ req[r].pc # "customer"
        BY <2>2, QuietMoves
      <3>q. QED BY <2>2, <3>1, <3>2, StepAttached DEF HasCustomer
    <2>3. ASSUME TypeInv, Rightful, NoOrphanAccount, NEW r \in Requests,
                 \/ ProvisionRead(r) \/ ProvisionCommit(r) \/ Invite(r)
                 \/ Activating(r) \/ Joining(r) \/ Abandon(r)
          PROVE  NoOrphanAccount'
      <3>1. PICK st : /\ Goto(r, st)
                      /\ st.pc = "customer" => RegisterUser(r) /\ st.user = req[r].user
        BY <2>3, OtherMoves
      <3>2. CASE ProvisionCommit(r)
        <4>1. PICK v \in Contacts : v = req[r].user
          BY <2>3, <3>2, Places DEF ProvisionCommit, Provisioning
        <4> DEFINE c == [user |-> v, mobile |-> applicant[req[r].app].mobile, active |-> FALSE]
        <4>2. req[r].pc # "customer" /\ (req[r].known => ~req[r].opened)
          BY <2>3, <3>2, <4>1, Places DEF ProvisionCommit, Provisioning, Rightful
        <4>3. customers \subseteq customers' /\ (~req[r].known => c \in customers')
          BY <3>2, <4>1 DEF ProvisionCommit
        <4>4. c.user = v
          OBVIOUS
        <4> HIDE DEF c
        <4>5. ~req[r].known => HasCustomer(v)'
          BY <4>3, <4>4 DEF HasCustomer
        <4>6. \A u \in Contacts : HasCustomer(u) => HasCustomer(u)'
          BY <4>3 DEF HasCustomer
        <4>7. \A u \in users' : u \in users \/ HasCustomer(u)'
          <5>1. \A u \in users' : u \in users \/ (u = v /\ req[r].opened)
            BY <3>2, <4>1 DEF ProvisionCommit
          <5>q. QED BY <4>2, <4>5, <5>1
        <4>8. \A u \in halves : u \in halves' \/ HasCustomer(u)'
          <5>1. \A u \in halves : u \in halves' \/ (u = v /\ ~req[r].known)
            BY <3>2, <4>1 DEF ProvisionCommit
          <5>q. QED BY <4>5, <5>1
        <4>q. QED BY <2>3, <3>1, <4>2, <4>6, <4>7, <4>8, StepAttached
      <3>3. CASE RegisterUser(r)
        <4>1. users' = users \cup {req[r].user} /\ UNCHANGED <<customers, halves>>
              /\ req[r].pc # "customer"
          BY <3>3 DEF RegisterUser, traces
        <4>2. req'[r].pc = "customer" /\ req'[r].user = req[r].user /\ req'[r] = st
          <5>1. req[r] \in Registering
            BY <2>3, <3>3, Places DEF RegisterUser
          <5>q. QED BY <2>3, <3>1, <3>3, <5>1 DEF RegisterUser, Registering, Goto, TypeInv, TypeOK
        <4>q. QED BY <2>3, <3>1, <4>1, <4>2, StepAttached DEF HasCustomer
      <3>4. CASE RegisterCustomer(r)
        <4>1. PICK v \in Contacts : v = req[r].user
          BY <2>3, <3>4, Places DEF RegisterCustomer, Registering
        <4> DEFINE c == [user |-> v, mobile |-> v.mobile, active |-> FALSE]
        <4>2. customers \subseteq customers' /\ c \in customers' /\ UNCHANGED <<users, halves>>
          BY <3>4, <4>1 DEF RegisterCustomer, traces
        <4>3. c.user = v
          OBVIOUS
        <4> HIDE DEF c
        <4>4. HasCustomer(v)' /\ \A u \in Contacts : HasCustomer(u) => HasCustomer(u)'
          BY <4>2, <4>3 DEF HasCustomer
        <4>q. QED BY <2>3, <3>1, <4>1, <4>2, <4>4, StepAttached
      <3>5. CASE ActivateCommit(r)
        <4>1. UNCHANGED <<users, halves>> /\ req[r].pc # "customer"
          BY <3>5 DEF ActivateCommit, traces
        <4>2. \A c \in Customer : \A b : [c EXCEPT !.active = b].user = c.user
          BY DEF Customer
        <4>3. \A c \in customers : \E b : [c EXCEPT !.active = b] \in customers'
          BY <3>5 DEF ActivateCommit
        <4>4. \A u \in Contacts : HasCustomer(u) => HasCustomer(u)'
          BY <2>3, <4>2, <4>3 DEF HasCustomer, TypeInv, TypeOK
        <4>q. QED BY <2>3, <3>1, <4>1, <4>4, StepAttached
      <3>6. CASE Abandon(r)
        <4>1. UNCHANGED <<users, customers>> /\ halves \subseteq halves'
          BY <3>6 DEF Abandon
        <4>2. \A u \in Contacts : req[r].pc = "customer" /\ req[r].user = u =>
                 HasCustomer(u) \/ u \in halves'
          BY <3>6 DEF Abandon
        <4>q. QED BY <2>3, <3>1, <4>1, <4>2, StepAttached DEF HasCustomer
      <3>7. ASSUME UNCHANGED <<users, customers, halves>>, req[r].pc # "customer"
            PROVE  NoOrphanAccount'
        BY <2>3, <3>1, <3>7, StepAttached DEF HasCustomer
      <3>8. CASE ProvisionRead(r) \/ Invite(r)
        BY <3>7, <3>8 DEF ProvisionRead, Invite, Stay, rows, traces
      <3>9. CASE ActivateFind(r) \/ ActivateRead(r)
        BY <3>7, <3>9 DEF ActivateFind, ActivateRead, Stay, rows, traces
      <3>10. ASSUME NEW u \in Contacts, RegisterRead(r, u)
             PROVE  NoOrphanAccount'
        BY <3>7, <3>10 DEF RegisterRead, Stay, rows, traces, Idle
      <3>q. QED BY <2>3, <3>2, <3>3, <3>4, <3>5, <3>6, <3>8, <3>9, <3>10 DEF Activating, Joining
    <2>4. ASSUME TypeInv, NoOrphanAccount, Staff
          PROVE  NoOrphanAccount'
      <3>1. ASSUME NEW a \in Apps, CancelSubscription(a)
            PROVE  NoOrphanAccount'
        BY <2>4, <3>1 DEF CancelSubscription, traces, NoOrphanAccount, HasCustomer
      <3>2. ASSUME NEW u \in Contacts, DeleteCustomer(u)
            PROVE  NoOrphanAccount'
        <4>1. users' = users \ {u} /\ customers' = {c \in customers : c.user # u}
              /\ halves' = halves
          BY <3>2 DEF DeleteCustomer
        <4>2. \A v : v # u /\ HasCustomer(v) => HasCustomer(v)'
          BY <4>1 DEF HasCustomer
        <4>3. ASSUME NEW r \in Requests, req[r].pc = "customer", req[r].user # u
              PROVE  req'[r] = req[r]
          <5> DEFINE served == {a \in Apps : subscriptions[a] # NotProvisioned
                                              /\ subscriptions[a].customer = u}
          <5>1. req'[r] = Without(u, served, req[r])
            BY <3>2 DEF DeleteCustomer
          <5>q. QED BY <4>3, <5>1 DEF Without
        <4>q. QED BY <2>4, <4>1, <4>2, <4>3 DEF NoOrphanAccount
      <3>q. QED BY <2>4, <3>1, <3>2 DEF Staff
    <2>q. QED BY <2>1, <2>2, <2>3, <2>4 DEF Next, Statements, ProvisioningSteps
  <1>q. QED BY <1>1, <1>2, TypeCorrect, RightfulCorrect, PTL DEF Spec
=============================================================================
