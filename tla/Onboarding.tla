------------------------------ MODULE Onboarding ------------------------------
(***************************************************************************)
(* From an application to a running service: the applications and the      *)
(* state machine of their review, the follow-up that provisions and        *)
(* activates a subscription, and the accounts and customers it needs,      *)
(* which registration creates as well.                                     *)
(*                                                                         *)
(* Each API request is a process and each awaited statement one step; the  *)
(* writes of a transaction are one step, which a unique column or a row    *)
(* that is gone refuses.  A contact, a mobile number with an email         *)
(* address, names the account opened for it.                               *)
(***************************************************************************)
EXTENDS Integers, FiniteSets

CONSTANTS
    Requests,    \* API requests in flight at once
    Apps,        \* applications a behaviour may see
    Mobiles, Emails,
    Contacts,    \* what people apply and register with, [mobile |-> ..., email |-> ...]
    Applicants,  \* the ways in which the applicants may be those people
    Targets,     \* the statuses that staff may move each application to
    Nobody,
    MaxDeletes   \* bound: customers that staff delete

\* Defect: an approved application can still be rejected.
TransitionsRejectingApproved ==
    [DRAFT                    |-> {"SUBMITTED", "CANCELLED"},
     SUBMITTED                |-> {"UNDER_REVIEW", "REJECTED", "CANCELLED"},
     UNDER_REVIEW             |-> {"PAYMENT_PENDING", "APPROVED", "REJECTED", "CANCELLED"},
     PAYMENT_PENDING          |-> {"PAYMENT_RECEIVED", "REJECTED", "CANCELLED"},
     PAYMENT_RECEIVED         |-> {"APPROVED", "CANCELLED"},
     APPROVED                 |-> {"INSTALLATION_SCHEDULED", "REJECTED", "CANCELLED"},
     INSTALLATION_SCHEDULED   |-> {"INSTALLATION_IN_PROGRESS", "CANCELLED"},
     INSTALLATION_IN_PROGRESS |-> {"ACTIVE", "CANCELLED"},
     ACTIVE                   |-> {},
     REJECTED                 |-> {},
     CANCELLED                |-> {}]

APPLICATION_TRANSITIONS ==
    [DRAFT                    |-> {"SUBMITTED", "CANCELLED"},
     SUBMITTED                |-> {"UNDER_REVIEW", "REJECTED", "CANCELLED"},
     UNDER_REVIEW             |-> {"PAYMENT_PENDING", "APPROVED", "REJECTED", "CANCELLED"},
     PAYMENT_PENDING          |-> {"PAYMENT_RECEIVED", "REJECTED", "CANCELLED"},
     PAYMENT_RECEIVED         |-> {"APPROVED", "CANCELLED"},
     APPROVED                 |-> {"INSTALLATION_SCHEDULED", "CANCELLED"},
     INSTALLATION_SCHEDULED   |-> {"INSTALLATION_IN_PROGRESS", "CANCELLED"},
     INSTALLATION_IN_PROGRESS |-> {"ACTIVE", "CANCELLED"},
     ACTIVE                   |-> {},
     REJECTED                 |-> {},
     CANCELLED                |-> {}]

Statuses == DOMAIN APPLICATION_TRANSITIONS

ASSUME OnboardingAssumption ==
    /\ Contacts \subseteq [mobile: Mobiles, email: Emails]
    /\ Nobody \notin Contacts
    /\ Applicants \subseteq [Apps -> Contacts]
    /\ Targets \in [Apps -> SUBSET Statuses]
    /\ MaxDeletes \in Nat

VARIABLES
    applicant,     \* who applies with which application; never changes
    applications,  \* the rows of the applications
    users,         \* the contacts that have an account
    customers,     \* the customers, each by the account it belongs to
    subscriptions, \* the subscription of each application
    invited,       \* the accounts an invite was sent for
    gone,          \* the accounts that were deleted
    halves,        \* accounts whose registration ended before their customer
    deletes,       \* how many customers were deleted
    req            \* what each request read and where it stands

rows == <<applications, users, customers, subscriptions>>
traces == <<invited, gone, halves, deletes>>
vars == <<applicant, rows, traces, req>>

\* trail: where the last entry of the history ended.  whole: each entry began where the one
\* before ended.  torn: two status changes were in flight at once.  lost: the follow-up of a
\* status failed, or what it made was deleted.
NotApplied == [status |-> "none"]
ApplicationRow == [status: Statuses, customer: Contacts \cup {Nobody}, trail: Statuses,
                   whole: BOOLEAN, torn: BOOLEAN, lost: BOOLEAN]

Customer == [user: Contacts, mobile: Mobiles, active: BOOLEAN]

NotProvisioned == [status |-> "none"]
SubscriptionRow == [status: {"PENDING", "ACTIVE", "CANCELLED"}, customer: Contacts]

Idle == [pc |-> "idle"]
Creating == [pc: {"create"}, app: Apps, customer: Contacts \cup {Nobody}]
Changing == [pc: {"change"}, app: Apps, from: Statuses, to: Statuses]
\* What follows a status: go says whether the service is to be activated as well.
Following == [pc: {"find", "provision", "ensure", "account", "activate", "start"}, app: Apps,
              go: BOOLEAN]
\* The customer that the subscription is for: there already, or to be created for an account,
\* which may have to be opened.
Provisioning == [pc: {"commit"}, app: Apps, go: BOOLEAN, user: Contacts,
                 known: BOOLEAN, opened: BOOLEAN]
Inviting == [pc: {"invite"}, app: Apps, go: BOOLEAN, user: Contacts]
Registering == [pc: {"user", "customer"}, user: Contacts]
ReqState == {Idle} \cup Creating \cup Changing \cup Following \cup Provisioning \cup Inviting
            \cup Registering

Init ==
    /\ applicant \in Applicants
    /\ applications = [a \in Apps |-> NotApplied]
    /\ users = {}
    /\ customers = {}
    /\ subscriptions = [a \in Apps |-> NotProvisioned]
    /\ invited = {}
    /\ gone = {}
    /\ halves = {}
    /\ deletes = 0
    /\ req = [r \in Requests |-> Idle]

Goto(r, state) == req' = [req EXCEPT ![r] = state]
Stay == UNCHANGED <<applicant, rows, traces>>

HasCustomer(u) == \E c \in customers : c.user = u
Same(c, d) == c.mobile = d.mobile \/ c.email = d.email

\* What a request goes on to once the subscription is there.
AfterProvisioning(a, go) == IF go THEN [pc |-> "activate", app |-> a, go |-> TRUE] ELSE Idle

-----------------------------------------------------------------------------
(* create *)

CreateRead(r, a) ==
    /\ req[r] = Idle
    /\ applications[a] = NotApplied
    /\ \A p \in Requests : req[p].pc = "create" => req[p].app # a
    /\ \/ \E c \in customers :
             /\ c.mobile = applicant[a].mobile
             /\ Goto(r, [pc |-> "create", app |-> a, customer |-> c.user])
       \/ /\ \A c \in customers : c.mobile # applicant[a].mobile
          /\ Goto(r, [pc |-> "create", app |-> a, customer |-> Nobody])
    /\ Stay

\* Defect: the history has no entry of the submission.
CreateCommitUnrecorded(r) ==
    /\ req[r].pc = "create"
    /\ applications' = [applications EXCEPT ![req[r].app] =
                          [status |-> "SUBMITTED", customer |-> req[r].customer,
                           trail |-> "none", whole |-> TRUE, torn |-> FALSE, lost |-> FALSE]]
    /\ Goto(r, Idle)
    /\ UNCHANGED <<applicant, users, customers, subscriptions, traces>>

CreateCommit(r) ==
    /\ req[r].pc = "create"
    /\ applications[req[r].app] = NotApplied
    /\ applications' = [applications EXCEPT ![req[r].app] =
                          [status |-> "SUBMITTED", customer |-> req[r].customer,
                           trail |-> "SUBMITTED", whole |-> TRUE, torn |-> FALSE, lost |-> FALSE]]
    /\ Goto(r, Idle)
    /\ UNCHANGED <<applicant, users, customers, subscriptions, traces>>

-----------------------------------------------------------------------------
(* changeStatus *)

StatusRead(r, a, to) ==
    /\ req[r] = Idle
    /\ applications[a] # NotApplied
    /\ to \in APPLICATION_TRANSITIONS[applications[a].status]
    /\ applications' = [applications EXCEPT
          ![a].torn = @ \/ \E p \in Requests : req[p].pc = "change" /\ req[p].app = a]
    /\ Goto(r, [pc |-> "change", app |-> a, from |-> applications[a].status, to |-> to])
    /\ UNCHANGED <<applicant, users, customers, subscriptions, traces>>

\* Defect: a rejection writes no entry of the history.
StatusCommitUnrecorded(r) ==
    /\ req[r].pc = "change"
    /\ LET a == req[r].app
           to == req[r].to
           row == applications[a]
       IN  /\ applications' = [applications EXCEPT ![a] =
                [row EXCEPT !.status = to,
                            !.trail = IF to = "REJECTED" THEN @ ELSE to,
                            !.whole = @ /\ (to = "REJECTED" \/ req[r].from = row.trail)]]
           /\ Goto(r, IF to = "APPROVED" THEN [pc |-> "provision", app |-> a, go |-> FALSE]
                      ELSE IF to = "ACTIVE" THEN [pc |-> "find", app |-> a, go |-> TRUE]
                      ELSE Idle)
    /\ UNCHANGED <<applicant, users, customers, subscriptions, traces>>

\* The row, by its id, and the entry of the history, from the status that was read.
StatusCommit(r) ==
    /\ req[r].pc = "change"
    /\ LET a == req[r].app
           to == req[r].to
           row == applications[a]
       IN  /\ applications' = [applications EXCEPT ![a] =
                [row EXCEPT !.status = to, !.trail = to,
                            !.whole = @ /\ req[r].from = row.trail]]
           /\ Goto(r, IF to = "APPROVED" THEN [pc |-> "provision", app |-> a, go |-> FALSE]
                      ELSE IF to = "ACTIVE" THEN [pc |-> "find", app |-> a, go |-> TRUE]
                      ELSE Idle)
    /\ UNCHANGED <<applicant, users, customers, subscriptions, traces>>

-----------------------------------------------------------------------------
(* provisionFromApplication, with ensureFromApplication and              *)
(* ensureApplicantAccount in its transaction                              *)

ProvisionRead(r) ==
    /\ req[r].pc = "provision"
    /\ LET a == req[r].app
       IN  Goto(r, IF subscriptions[a] # NotProvisioned THEN AfterProvisioning(a, req[r].go)
                   ELSE [pc |-> "ensure", app |-> a, go |-> req[r].go])
    /\ Stay

ForCustomer(r, u) ==
    Goto(r, [pc |-> "commit", app |-> req[r].app, go |-> req[r].go, user |-> u,
             known |-> TRUE, opened |-> FALSE])

\* Defect: the applicant is taken for the customer whose account has the email address.
EnsureCustomerByEmail(r) ==
    /\ req[r].pc = "ensure"
    /\ LET a == req[r].app
           named == applications[a].customer
           matching == {c \in customers : c.user.email = applicant[a].email}
       IN  \/ named # Nobody /\ ForCustomer(r, named)
           \/ named = Nobody /\ \E c \in matching : ForCustomer(r, c.user)
           \/ /\ named = Nobody /\ matching = {}
              /\ Goto(r, [req[r] EXCEPT !.pc = "account"])
    /\ Stay

\* The customer the application names, or one with the same mobile number.
EnsureCustomer(r) ==
    /\ req[r].pc = "ensure"
    /\ LET a == req[r].app
           named == applications[a].customer
           matching == {c \in customers : c.mobile = applicant[a].mobile}
       IN  \/ named # Nobody /\ ForCustomer(r, named)
           \/ named = Nobody /\ \E c \in matching : ForCustomer(r, c.user)
           \/ /\ named = Nobody /\ matching = {}
              /\ Goto(r, [req[r] EXCEPT !.pc = "account"])
    /\ Stay

\* Any account with the mobile number or the email address, or a new one.
EnsureAccount(r) ==
    /\ req[r].pc = "account"
    /\ LET a == req[r].app
           matching == {u \in users : Same(u, applicant[a])}
       IN  \E u \in IF matching = {} THEN {applicant[a]} ELSE matching :
              Goto(r, [pc |-> "commit", app |-> a, go |-> req[r].go, user |-> u,
                       known |-> FALSE, opened |-> matching = {}])
    /\ Stay

\* What the unique columns and the references to other rows ask of the writes.
CanProvision(r) ==
    LET u == req[r].user
    IN  /\ subscriptions[req[r].app] = NotProvisioned
        /\ \/ req[r].known
           \/ ~HasCustomer(u) /\ (req[r].opened => \A v \in users : ~Same(u, v))

ProvisionCommit(r) ==
    /\ req[r].pc = "commit"
    /\ CanProvision(r)
    /\ LET a == req[r].app
           u == req[r].user
       IN  /\ users' = IF req[r].opened THEN users \cup {u} ELSE users
           /\ customers' = IF req[r].known THEN customers
                           ELSE customers \cup {[user |-> u, mobile |-> applicant[a].mobile,
                                                 active |-> FALSE]}
           /\ halves' = IF req[r].known THEN halves ELSE halves \ {u}
           /\ applications' = [applications EXCEPT ![a].customer = u]
           /\ subscriptions' = [subscriptions EXCEPT ![a] = [status |-> "PENDING", customer |-> u]]
           /\ Goto(r, IF req[r].opened
                      THEN [pc |-> "invite", app |-> a, go |-> req[r].go, user |-> u]
                      ELSE AfterProvisioning(a, req[r].go))
    /\ UNCHANGED <<applicant, invited, gone, deletes>>

Invite(r) ==
    /\ req[r].pc = "invite"
    /\ invited' = invited \cup {req[r].user}
    /\ Goto(r, AfterProvisioning(req[r].app, req[r].go))
    /\ UNCHANGED <<applicant, rows, gone, halves, deletes>>

-----------------------------------------------------------------------------
(* activateForApplication and activate *)

\* Defect: an application without a subscription is taken for one that needs none.
ActivateFindOnly(r) ==
    /\ req[r].pc = "find"
    /\ LET a == req[r].app
       IN  Goto(r, IF subscriptions[a] # NotProvisioned THEN AfterProvisioning(a, TRUE) ELSE Idle)
    /\ Stay

ActivateFind(r) ==
    /\ req[r].pc = "find"
    /\ LET a == req[r].app
       IN  Goto(r, IF subscriptions[a] # NotProvisioned THEN AfterProvisioning(a, TRUE)
                   ELSE [pc |-> "provision", app |-> a, go |-> TRUE])
    /\ Stay

\* A subscription that was cancelled is not activated.
ActivateRead(r) ==
    /\ req[r].pc = "activate"
    /\ LET a == req[r].app
       IN  \/ subscriptions[a].status = "ACTIVE" /\ Goto(r, Idle)
           \/ subscriptions[a].status = "PENDING" /\ Goto(r, [req[r] EXCEPT !.pc = "start"])
    /\ Stay

ActivateCommit(r) ==
    /\ req[r].pc = "start"
    /\ LET a == req[r].app
           u == subscriptions[a].customer
       IN  /\ subscriptions' = [subscriptions EXCEPT ![a].status = "ACTIVE"]
           /\ customers' = {[c EXCEPT !.active = @ \/ c.user = u] : c \in customers}
    /\ Goto(r, Idle)
    /\ UNCHANGED <<applicant, applications, users, traces>>

-----------------------------------------------------------------------------
(* What staff do besides: cancel a subscription, delete a customer *)

CancelSubscription(a) ==
    /\ subscriptions[a] # NotProvisioned
    /\ subscriptions' = [subscriptions EXCEPT ![a].status = "CANCELLED"]
    /\ UNCHANGED <<applicant, applications, users, customers, traces, req>>

\* What a request that holds the id of a deleted account, or of a subscription that went with
\* it, goes on to: it fails at its next statement, having changed nothing more.
Without(u, served, state) ==
    CASE \/ state.pc = "create" /\ state.customer = u
         \/ state.pc = "commit" /\ state.user = u /\ ~state.opened
         \/ state.pc = "customer" /\ state.user = u
         \/ state.pc \in {"activate", "start"} /\ state.app \in served -> Idle
      [] state.pc = "invite" /\ state.app \in served -> [state EXCEPT !.go = FALSE]
      [] OTHER -> state

\* The account takes its customer and the subscriptions of that customer with it.
DeleteCustomer(u) ==
    /\ deletes < MaxDeletes
    /\ HasCustomer(u)
    /\ users' = users \ {u}
    /\ customers' = {c \in customers : c.user # u}
    /\ LET served == {a \in Apps : subscriptions[a] # NotProvisioned /\ subscriptions[a].customer = u}
           failing == {req[r].app : r \in {p \in Requests : req[p].pc = "commit" /\ req[p].user = u
                                                            /\ ~req[p].opened}}
       IN  /\ subscriptions' = [a \in Apps |-> IF a \in served THEN NotProvisioned
                                               ELSE subscriptions[a]]
           /\ applications' = [a \in Apps |->
                 IF applications[a] = NotApplied THEN NotApplied
                 ELSE [applications[a] EXCEPT
                          !.customer = IF @ = u THEN Nobody ELSE @,
                          !.lost = @ \/ a \in served \cup failing]]
           /\ req' = [r \in Requests |-> Without(u, served, req[r])]
    /\ gone' = gone \cup {u}
    /\ deletes' = deletes + 1
    /\ UNCHANGED <<applicant, invited, halves>>

-----------------------------------------------------------------------------
(* register, and adminCreate of the customers *)

RegisterRead(r, u) ==
    /\ req[r] = Idle
    /\ \A v \in users : ~Same(u, v)
    /\ Goto(r, [pc |-> "user", user |-> u])
    /\ Stay

RegisterUser(r) ==
    /\ req[r].pc = "user"
    /\ \A v \in users : ~Same(req[r].user, v)
    /\ users' = users \cup {req[r].user}
    /\ req' = [req EXCEPT ![r].pc = "customer"]
    /\ UNCHANGED <<applicant, applications, customers, subscriptions, traces>>

RegisterCustomer(r) ==
    /\ req[r].pc = "customer"
    /\ ~HasCustomer(req[r].user)
    /\ customers' = customers \cup {[user |-> req[r].user, mobile |-> req[r].user.mobile,
                                     active |-> FALSE]}
    /\ Goto(r, Idle)
    /\ UNCHANGED <<applicant, applications, users, subscriptions, traces>>

-----------------------------------------------------------------------------
(* A request that a statement refuses, or whose process dies *)

AfterStatus == {"find", "provision", "ensure", "account", "commit", "activate", "start"}

\* A request ends early: what it committed stays.
Abandon(r) ==
    /\ req[r] # Idle
    /\ LET state == req[r]
           failing == state.pc \in AfterStatus \/ (state.pc = "invite" /\ state.go)
       IN  /\ applications' = IF failing THEN [applications EXCEPT ![state.app].lost = TRUE]
                              ELSE applications
           /\ halves' = IF state.pc = "customer" /\ ~HasCustomer(state.user)
                        THEN halves \cup {state.user} ELSE halves
    /\ Goto(r, Idle)
    /\ UNCHANGED <<applicant, users, customers, subscriptions, invited, gone, deletes>>

-----------------------------------------------------------------------------
Applying(r) == CreateCommit(r) \/ \E a \in Apps : CreateRead(r, a)
Reviewing(r) == StatusCommit(r) \/ \E a \in Apps : \E to \in Targets[a] : StatusRead(r, a, to)
ProvisioningSteps(r) ==
    ProvisionRead(r) \/ EnsureCustomer(r) \/ EnsureAccount(r) \/ ProvisionCommit(r) \/ Invite(r)
Activating(r) == ActivateFind(r) \/ ActivateRead(r) \/ ActivateCommit(r)
Joining(r) ==
    RegisterUser(r) \/ RegisterCustomer(r) \/ \E u \in Contacts : RegisterRead(r, u)
Statements(r) ==
    Applying(r) \/ Reviewing(r) \/ ProvisioningSteps(r) \/ Activating(r) \/ Joining(r)

Staff ==
    \/ \E a \in Apps : CancelSubscription(a)
    \/ \E u \in Contacts : DeleteCustomer(u)

Next == (\E r \in Requests : Statements(r) \/ Abandon(r)) \/ Staff

Spec == Init /\ [][Next]_vars

-----------------------------------------------------------------------------
(* Properties *)

\* Every variable has its type.
TypeOK ==
    /\ applicant \in [Apps -> Contacts]
    /\ applications \in [Apps -> {NotApplied} \cup ApplicationRow]
    /\ users \subseteq Contacts
    /\ customers \subseteq Customer
    /\ subscriptions \in [Apps -> {NotProvisioned} \cup SubscriptionRow]
    /\ invited \subseteq Contacts
    /\ gone \subseteq Contacts
    /\ halves \subseteq Contacts
    /\ deletes \in 0..MaxDeletes
    /\ req \in [Requests -> ReqState]

Approved == {"APPROVED", "INSTALLATION_SCHEDULED", "INSTALLATION_IN_PROGRESS", "ACTIVE"}

Follows(r, a) ==
    req[r].pc \in AfterStatus \cup {"invite"} /\ req[r].app = a

\* An application that was approved has its subscription, and a completed one a subscription
\* that was activated, unless the follow-up of the status is still under way or was lost
\* (changeStatus, provisionFromApplication, activateForApplication).
ApprovedIsProvisioned ==
    \A a \in Apps : applications[a] # NotApplied /\ ~applications[a].lost =>
        /\ applications[a].status \in Approved =>
              subscriptions[a] # NotProvisioned \/ \E r \in Requests : Follows(r, a)
        /\ applications[a].status = "ACTIVE" =>
              \/ subscriptions[a].status \in {"ACTIVE", "CANCELLED"}
              \/ \E r \in Requests : Follows(r, a) /\ req[r].go

\* The history ends at the status of the row, and, unless two reviews overlapped, each of its
\* entries begins where the one before ended (changeStatus).
HistoryIsWhole ==
    \A a \in Apps : applications[a] # NotApplied =>
        /\ applications[a].trail = applications[a].status
        /\ ~applications[a].torn => applications[a].whole

\* Unless two reviews overlapped, an application that is not approved yet, or that was
\* rejected, has no subscription (APPLICATION_TRANSITIONS, changeStatus).
UnapprovedIsNotServed ==
    \A a \in Apps : applications[a] # NotApplied /\ ~applications[a].torn =>
        (applications[a].status \in {"SUBMITTED", "UNDER_REVIEW", "PAYMENT_PENDING",
                                     "PAYMENT_RECEIVED", "REJECTED"} =>
            subscriptions[a] = NotProvisioned)

\* A subscription belongs to the customer its application names, who has the number that the
\* application verified (ensureFromApplication, provisionFromApplication).
ServiceIsTheApplicants ==
    \A a \in Apps : subscriptions[a] # NotProvisioned =>
        /\ subscriptions[a].customer = applications[a].customer
        /\ \E c \in customers : /\ c.user = subscriptions[a].customer
                                /\ c.mobile = applicant[a].mobile

\* Only a registration leaves an account without a customer, by ending between the two;
\* provisioning leaves none (ensureApplicantAccount, register).
NoOrphanAccount ==
    \A u \in users :
        \/ HasCustomer(u)
        \/ u \in halves
        \/ \E r \in Requests : req[r].pc = "customer" /\ req[r].user = u

\* An invite was sent only for an account that was created (provisionFromApplication).
InvitesAreReal == invited \subseteq users \cup gone
=============================================================================
