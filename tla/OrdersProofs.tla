---------------------------- MODULE OrdersProofs ----------------------------
(***************************************************************************)
(* Theorems about Orders, for every set of orders, any number of requests  *)
(* of customers and staff in flight, and every limit.                      *)
(***************************************************************************)
EXTENDS Orders, FiniteSetTheorems, TLAPS

\* The program counter of a process tells which record it holds.
LEMMA ProcKinds ==
    ASSUME NEW q \in ProcState
    PROVE  /\ q # Idle => q.order \in Orders /\ q.pc # "idle"
           /\ q.pc \in {"issue", "email", "expire"} => q \in OneOrder
           /\ q.pc = "resend" => q \in Resending
           /\ q.pc = "miss" => q \in Missing
           /\ q.pc = "subscribe" => q \in Subscribing
           /\ q.pc = "confirm" => q \in Confirming
           /\ q.pc = "move" => q \in Moving
  BY DEF ProcState, Idle, OneOrder, Resending, Missing, Subscribing,
         Confirming, Moving

\* Staff move an order that exists, to one of three statuses.
LEMMA AllowedTargets ==
    ASSUME NEW from, NEW to \in Allowed(from)
    PROVE  /\ from \in Statuses
           /\ to \in {"CANCELLED", "SCHEDULED", "INSTALLED"}
           /\ to \in {"SCHEDULED", "INSTALLED"} => from \in {"CONFIRMED", "SCHEDULED"}
  BY DEF Allowed, AwaitingCode, Statuses

-----------------------------------------------------------------------------
(* Type correctness *)

CustomerPcs == {"resend", "issue", "email", "expire", "miss", "subscribe", "confirm"}

\* A request works on an order that exists, and a customer's on one of their own.
WorksOnOwn ==
    \A w \in Procs :
        /\ proc[w] # Idle => order[proc[w].order].status # "none"
        /\ proc[w].pc \in CustomerPcs => w \in tabs[proc[w].order]

\* Codes are numbered as they are issued.
CodesIssued ==
    /\ \A o \in Orders : order[o].code <= issued[o]
    /\ \A w \in Procs : proc[w].pc = "miss" => proc[w].code <= issued[proc[w].order]

TypeInv == TypeOK /\ WorksOnOwn /\ CodesIssued

LEMMA InitTypeInv == Init => TypeInv
  <1> SUFFICES ASSUME Init PROVE TypeInv
    OBVIOUS
  <1> USE OrdersAssumption
  <1>1. order \in [Orders -> OrderRow]
    BY DEF Init, OrderRow, Ages, NoCode, NoSubscription
  <1>2. proc \in [Procs -> ProcState]
    BY DEF Init, ProcState
  <1> QED
    BY <1>1, <1>2 DEF Init, TypeInv, TypeOK, WorksOnOwn, CodesIssued, Idle,
       CustomerPcs, NoCode

\* A step of one process changes its own record and at most one order's row.
LEMMA ProcStep ==
    ASSUME TypeOK, NEW w \in Procs, NEW next \in ProcState,
           proc' = [proc EXCEPT ![w] = next]
    PROVE  /\ proc' \in [Procs -> ProcState]
           /\ proc'[w] = next
           /\ \A v \in Procs \ {w} : proc'[v] = proc[v]
  BY DEF TypeOK

LEMMA IdleState == Idle \in ProcState /\ Idle.pc = "idle"
  BY DEF ProcState, Idle

\* WorksOnOwn and CodesIssued survive a step of w that takes up work on its own
\* order, or ends, and never takes a row back to "none" or a code past issued.
LEMMA OwnWorkStep ==
    ASSUME TypeInv, NEW w \in Procs, NEW next \in ProcState,
           proc' = [proc EXCEPT ![w] = next],
           UNCHANGED tabs,
           order' \in [Orders -> OrderRow],
           issued' \in [Orders -> 0..MaxCodes],
           \A o \in Orders : order[o].status # "none" => order'[o].status # "none",
           \A o \in Orders : issued[o] <= issued'[o],
           \A o \in Orders : order'[o].code <= issued'[o],
           next # Idle => order'[next.order].status # "none",
           next.pc \in CustomerPcs => w \in tabs[next.order],
           next.pc = "miss" => next.code <= issued'[next.order]
    PROVE  WorksOnOwn' /\ CodesIssued'
  <1>1. /\ proc'[w] = next
        /\ \A v \in Procs \ {w} : proc'[v] = proc[v] /\ proc[v] \in ProcState
    BY ProcStep DEF TypeInv, TypeOK
  <1>2. ASSUME NEW v \in Procs
        PROVE  /\ proc'[v] # Idle => order'[proc'[v].order].status # "none"
               /\ proc'[v].pc \in CustomerPcs => v \in tabs'[proc'[v].order]
               /\ proc'[v].pc = "miss" => proc'[v].code <= issued'[proc'[v].order]
    <2>1. CASE v = w
      BY <1>1, <2>1
    <2>2. CASE v # w
      <3>1. proc'[v] = proc[v] /\ proc[v] \in ProcState
        BY <1>1, <2>2
      <3>2. /\ proc[v] # Idle => proc[v].order \in Orders
            /\ proc[v].pc \in CustomerPcs => proc[v].order \in Orders
        BY <3>1, ProcKinds, IdleState DEF CustomerPcs
      <3>3. CASE proc[v].pc = "miss"
        <4>1. proc[v].code \in Nat /\ proc[v].order \in Orders
          BY <3>1, <3>3, ProcKinds DEF Missing
        <4>2. proc[v].code <= issued[proc[v].order]
          BY <3>3 DEF TypeInv, CodesIssued
        <4>3. issued[proc[v].order] \in Nat /\ issued'[proc[v].order] \in Nat
          BY <4>1 DEF TypeInv, TypeOK
        <4>4. proc[v].code <= issued'[proc[v].order]
          BY <4>1, <4>2, <4>3
        <4> QED
          BY <2>2, <3>1, <3>2, <4>4 DEF TypeInv, WorksOnOwn
      <3> QED
        BY <2>2, <3>1, <3>2, <3>3 DEF TypeInv, WorksOnOwn
    <2> QED
      BY <2>1, <2>2
  <1> QED
    BY <1>2 DEF WorksOnOwn, CodesIssued

\* The same for a step that writes neither an order nor a code.
LEMMA OwnRecordStep ==
    ASSUME TypeInv, NEW w \in Procs, NEW next \in ProcState,
           proc' = [proc EXCEPT ![w] = next],
           UNCHANGED <<tabs, order, issued>>,
           next # Idle => order[next.order].status # "none",
           next.pc \in CustomerPcs => w \in tabs[next.order],
           next.pc = "miss" => next.code <= issued[next.order]
    PROVE  WorksOnOwn' /\ CodesIssued'
  <1>1. /\ order \in [Orders -> OrderRow] /\ issued \in [Orders -> 0..MaxCodes]
        /\ \A o \in Orders : order[o].code <= issued[o]
    BY DEF TypeInv, TypeOK, CodesIssued
  <1>2. \A o \in Orders : issued[o] <= issued[o]
    BY <1>1, OrdersAssumption
  <1> QED
    BY <1>1, <1>2, OwnWorkStep

\* What each operation writes into a row is a row.
LEMMA WrittenRows ==
    ASSUME NEW row \in OrderRow, NEW status \in Statuses, NEW code \in Nat
    PROVE  /\ [row EXCEPT !.status = status] \in OrderRow
           /\ [row EXCEPT !.status = "PENDING_OTP", !.code = code,
                          !.age = "fresh", !.attempts = 0] \in OrderRow
           /\ [row EXCEPT !.attempts = @ + 1] \in OrderRow
           /\ [row EXCEPT !.status = "CONFIRMED", !.subscription = code,
                          !.code = NoCode] \in OrderRow
           /\ [row EXCEPT !.age = IF @ = "fresh" THEN "valid" ELSE "past"] \in OrderRow
  <1>1. [row EXCEPT !.status = status] \in OrderRow
    BY DEF OrderRow
  <1>2. [row EXCEPT !.status = "PENDING_OTP", !.code = code,
                    !.age = "fresh", !.attempts = 0] \in OrderRow
    BY DEF OrderRow, Statuses, Ages
  <1>3. [row EXCEPT !.attempts = @ + 1] \in OrderRow
    BY DEF OrderRow
  <1>4. [row EXCEPT !.status = "CONFIRMED", !.subscription = code,
                    !.code = NoCode] \in OrderRow
    BY DEF OrderRow, Statuses, NoCode
  <1>5. [row EXCEPT !.age = IF @ = "fresh" THEN "valid" ELSE "past"] \in OrderRow
    BY DEF OrderRow, Ages
  <1> QED
    BY <1>1, <1>2, <1>3, <1>4, <1>5

\* One row is written and the others stay.
LEMMA OrderStep ==
    ASSUME TypeOK, NEW o \in Orders, NEW row \in OrderRow,
           order' = [order EXCEPT ![o] = row]
    PROVE  /\ order' \in [Orders -> OrderRow]
           /\ order'[o] = row
           /\ \A q \in Orders \ {o} : order'[q] = order[q]
  BY DEF TypeOK

\* The same for a step that ends a request and leaves the codes alone.
LEMMA EndStep ==
    ASSUME TypeInv, NEW w \in Procs, proc' = [proc EXCEPT ![w] = Idle],
           UNCHANGED <<tabs, issued>>,
           order' \in [Orders -> OrderRow],
           \A o \in Orders : /\ order[o].status # "none" => order'[o].status # "none"
                             /\ order'[o].code <= issued[o]
    PROVE  WorksOnOwn' /\ CodesIssued' /\ proc' \in [Procs -> ProcState]
  <1>1. issued' = issued /\ issued \in [Orders -> 0..MaxCodes] /\ TypeOK
    BY DEF TypeInv, TypeOK
  <1>2. \A o \in Orders : issued[o] <= issued'[o]
    BY <1>1, OrdersAssumption
  <1>3. Idle \in ProcState /\ Idle.pc = "idle" /\ Idle.pc \notin CustomerPcs
    BY IdleState DEF CustomerPcs
  <1>4. WorksOnOwn' /\ CodesIssued'
    <2>1. issued' \in [Orders -> 0..MaxCodes] /\ UNCHANGED tabs
      BY <1>1
    <2>2. /\ \A o \in Orders : order[o].status # "none" => order'[o].status # "none"
          /\ \A o \in Orders : order'[o].code <= issued'[o]
      BY <1>1
    <2>3. \A next : next = Idle =>
             /\ next # Idle => order'[next.order].status # "none"
             /\ next.pc \in CustomerPcs => w \in tabs[next.order]
             /\ next.pc = "miss" => next.code <= issued'[next.order]
      BY <1>3
    <2> QED
      BY <1>2, <1>3, <2>1, <2>2, <2>3, OwnWorkStep
  <1> QED
    BY <1>1, <1>3, <1>4, ProcStep

\* ... and one that writes no order.
LEMMA QuietEndStep ==
    ASSUME TypeInv, NEW w \in Procs, proc' = [proc EXCEPT ![w] = Idle],
           UNCHANGED <<tabs, issued, order>>
    PROVE  WorksOnOwn' /\ CodesIssued' /\ proc' \in [Procs -> ProcState]
  <1>1. order' \in [Orders -> OrderRow] /\ order' = order
        /\ \A o \in Orders : order[o].code <= issued[o]
    BY DEF TypeInv, TypeOK, CodesIssued
  <1>2. \A o \in Orders : /\ order[o].status # "none" => order'[o].status # "none"
                          /\ order'[o].code <= issued[o]
    BY <1>1
  <1> QED
    BY <1>1, <1>2, EndStep

\* ... and one that writes one row.
LEMMA RowEndStep ==
    ASSUME TypeInv, NEW w \in Procs, proc' = [proc EXCEPT ![w] = Idle],
           UNCHANGED <<tabs, issued>>,
           NEW o \in Orders, NEW row \in OrderRow, order' = [order EXCEPT ![o] = row],
           row.status # "none", row.code <= issued[o]
    PROVE  /\ WorksOnOwn' /\ CodesIssued' /\ proc' \in [Procs -> ProcState]
           /\ order' \in [Orders -> OrderRow]
  <1>1. /\ order' \in [Orders -> OrderRow] /\ order'[o] = row
        /\ \A q \in Orders \ {o} : order'[q] = order[q]
        /\ \A q \in Orders : order[q].code <= issued[q]
    BY OrderStep DEF TypeInv, CodesIssued
  <1>2. \A q \in Orders : /\ order[q].status # "none" => order'[q].status # "none"
                          /\ order'[q].code <= issued[q]
    BY <1>1
  <1> QED
    BY <1>1, <1>2, EndStep

LEMMA TypeInvStep == TypeInv /\ [Next]_vars => TypeInv'
  <1> SUFFICES ASSUME TypeInv, [Next]_vars PROVE TypeInv'
    OBVIOUS
  <1> USE OrdersAssumption
  <1>a. TypeOK /\ WorksOnOwn /\ CodesIssued
    BY DEF TypeInv
  <1>b. \A w \in Procs : proc[w] \in ProcState
    BY <1>a DEF TypeOK
  <1>c. Browsers \subseteq Procs /\ Staff \subseteq Procs
    BY DEF Procs
  <1>d. \A o \in Orders : order[o] \in OrderRow /\ order[o].code \in Nat
                          /\ issued[o] \in 0..MaxCodes
    BY <1>a DEF TypeOK, OrderRow
  <1>1. ASSUME NEW w \in Browsers, NEW o \in Orders, Create(w, o)
        PROVE  TypeInv'
    <2> DEFINE next == [pc |-> "issue", order |-> o]
               row == [order[o] EXCEPT !.status = "PENDING_OTP"]
    <2>1. next \in ProcState /\ next.pc = "issue" /\ next.order = o /\ next # Idle
      BY DEF ProcState, OneOrder, Idle
    <2>2. /\ row \in OrderRow /\ row.status = "PENDING_OTP" /\ row.code = order[o].code
      <3>1. order[o] \in OrderRow /\ "PENDING_OTP" \in Statuses
        BY <1>d DEF Statuses
      <3>2. row \in OrderRow
        BY <3>1, WrittenRows, 0 \in Nat
      <3> QED
        BY <3>1, <3>2 DEF OrderRow
    <2>3. order' = [order EXCEPT ![o] = row]
      BY <1>1, <1>a DEF Create, TypeOK
    <2>4. proc' = [proc EXCEPT ![w] = next] /\ w \in tabs[o]
      BY <1>1 DEF Create
    <2> HIDE DEF next, row
    <2>5. order' \in [Orders -> OrderRow] /\ order'[o] = row
          /\ \A q \in Orders \ {o} : order'[q] = order[q]
      BY <1>a, <2>2, <2>3, OrderStep
    <2>6. WorksOnOwn' /\ CodesIssued'
      <3>1. UNCHANGED <<tabs, issued>> /\ issued' \in [Orders -> 0..MaxCodes]
        BY <1>1, <1>a DEF Create, TypeOK
      <3>2. \A q \in Orders :
               /\ order[q].status # "none" => order'[q].status # "none"
               /\ issued[q] <= issued'[q]
               /\ order'[q].code <= issued'[q]
        BY <1>a, <1>d, <2>2, <2>5, <3>1 DEF CodesIssued
      <3>3. w \in Procs /\ order'[next.order].status # "none" /\ w \in tabs[next.order]
        BY <1>c, <2>1, <2>2, <2>4, <2>5
      <3> QED
        BY <2>1, <2>4, <2>5, <3>1, <3>2, <3>3, OwnWorkStep
    <2>7. proc' \in [Procs -> ProcState]
      BY <1>a, <1>c, <2>1, <2>4, ProcStep
    <2> QED
      BY <1>1, <1>a, <2>5, <2>6, <2>7 DEF Create, TypeInv, TypeOK
  <1>2. ASSUME NEW w \in Browsers, NEW o \in Orders, ResendRead(w, o)
        PROVE  TypeInv'
    <2> DEFINE next == [pc |-> "resend", order |-> o,
                        code |-> issued[o], age |-> order[o].age]
    <2>1. next \in ProcState /\ next.pc = "resend" /\ next.order = o /\ next # Idle
      BY <1>d DEF ProcState, Resending, OrderRow, Idle
    <2>2. /\ proc' = [proc EXCEPT ![w] = next] /\ w \in tabs[o]
          /\ order[o].status # "none"
      BY <1>2 DEF ResendRead, AwaitingCode
    <2> HIDE DEF next
    <2>3. WorksOnOwn' /\ CodesIssued'
      <3>1. UNCHANGED <<tabs, order, issued>>
        BY <1>2 DEF ResendRead
      <3> QED
        BY <1>c, <2>1, <2>2, <3>1, OwnRecordStep
    <2>4. proc' \in [Procs -> ProcState]
      BY <1>a, <1>c, <2>1, <2>2, ProcStep
    <2> QED
      BY <1>2, <1>a, <2>3, <2>4 DEF ResendRead, TypeInv, TypeOK
  <1>3. ASSUME NEW w \in Browsers, ResendCheck(w)
        PROVE  TypeInv'
    <2> DEFINE o == proc[w].order
               next == [pc |-> "issue", order |-> o]
    <2>1. o \in Orders /\ w \in tabs[o] /\ order[o].status # "none"
      BY <1>3, <1>a, <1>b, <1>c, ProcKinds, IdleState
         DEF ResendCheck, WorksOnOwn, CustomerPcs
    <2>2. next \in ProcState /\ next.pc = "issue" /\ next.order = o /\ next # Idle
      BY <2>1 DEF ProcState, OneOrder, Idle
    <2>3. proc' = [proc EXCEPT ![w] = next]
      BY <1>3 DEF ResendCheck
    <2> HIDE DEF next, o
    <2>4. WorksOnOwn' /\ CodesIssued'
      <3>1. UNCHANGED <<tabs, order, issued>>
        BY <1>3 DEF ResendCheck
      <3> QED
        BY <1>c, <2>1, <2>2, <2>3, <3>1, OwnRecordStep
    <2>5. proc' \in [Procs -> ProcState]
      BY <1>a, <1>c, <2>2, <2>3, ProcStep
    <2> QED
      BY <1>3, <1>a, <2>4, <2>5 DEF ResendCheck, TypeInv, TypeOK
  <1>4. ASSUME NEW w \in Browsers, IssueOtp(w)
        PROVE  TypeInv'
    <2> DEFINE o == proc[w].order
               next == [pc |-> "email", order |-> o]
               row == [order[o] EXCEPT !.status = "PENDING_OTP",
                          !.code = issued[o] + 1, !.age = "fresh", !.attempts = 0]
    <2>1. proc[w] \in OneOrder
      BY <1>4, <1>b, <1>c, ProcKinds DEF IssueOtp
    <2>2. o \in Orders /\ w \in tabs[o]
      BY <1>4, <1>a, <1>c, <2>1 DEF IssueOtp, OneOrder, WorksOnOwn, CustomerPcs
    <2>3. next \in ProcState /\ next.pc = "email" /\ next.order = o /\ next # Idle
      BY <2>2 DEF ProcState, OneOrder, Idle
    <2>4. proc' = [proc EXCEPT ![w] = next]
      <3>1. [proc[w] EXCEPT !.pc = "email"] = next
        BY <2>1 DEF OneOrder
      <3> QED
        BY <1>4, <1>a, <1>c, <3>1 DEF IssueOtp, TypeOK
    <2>5. row \in OrderRow /\ row.status = "PENDING_OTP" /\ row.code = issued[o] + 1
      <3>1. issued[o] + 1 \in Nat
        BY <1>d, <2>2
      <3>2. row \in OrderRow
        BY <1>d, <2>2, <3>1, WrittenRows DEF Statuses
      <3> QED
        BY <1>d, <2>2, <3>2 DEF OrderRow
    <2>6. order' = [order EXCEPT ![o] = row]
      BY <1>4, <1>a, <2>2 DEF IssueOtp, TypeOK
    <2>7. /\ issued' = [issued EXCEPT ![o] = issued[o] + 1]
          /\ issued[o] < MaxCodes
      BY <1>4 DEF IssueOtp
    <2> HIDE DEF next, row, o
    <2>8. order' \in [Orders -> OrderRow] /\ order'[o] = row
          /\ \A q \in Orders \ {o} : order'[q] = order[q]
      BY <1>a, <2>2, <2>5, <2>6, OrderStep
    <2>9. /\ issued' \in [Orders -> 0..MaxCodes]
          /\ issued'[o] = issued[o] + 1
          /\ \A q \in Orders \ {o} : issued'[q] = issued[q]
      BY <1>a, <1>d, <2>2, <2>7 DEF TypeOK
    <2>10. WorksOnOwn' /\ CodesIssued'
      <3>1. \A q \in Orders : /\ issued[q] <= issued'[q]
                              /\ order'[q].code <= issued'[q]
                              /\ order[q].status # "none" => order'[q].status # "none"
        BY <1>a, <1>d, <2>2, <2>5, <2>8, <2>9 DEF CodesIssued
      <3> QED
        <4>1. UNCHANGED tabs /\ w \in Procs
          BY <1>4, <1>c DEF IssueOtp
        <4>2. order'[next.order].status # "none" /\ w \in tabs[next.order]
          BY <2>2, <2>3, <2>5, <2>8
        <4> QED
          BY <2>3, <2>4, <2>8, <2>9, <3>1, <4>1, <4>2, OwnWorkStep
    <2>11. proc' \in [Procs -> ProcState]
      BY <1>a, <1>c, <2>3, <2>4, ProcStep
    <2> QED
      BY <1>4, <1>a, <2>8, <2>9, <2>10, <2>11 DEF IssueOtp, TypeInv, TypeOK
  <1>5. ASSUME NEW w \in Browsers, LogEmail(w)
        PROVE  TypeInv'
    <2>1. proc[w].order \in Orders /\ w \in Procs
      BY <1>5, <1>b, <1>c, ProcKinds, IdleState DEF LogEmail
    <2>2. WorksOnOwn' /\ CodesIssued' /\ proc' \in [Procs -> ProcState]
      <3>1. proc' = [proc EXCEPT ![w] = Idle] /\ UNCHANGED <<tabs, issued, order>>
        BY <1>5 DEF LogEmail
      <3> QED
        BY <2>1, <3>1, QuietEndStep
    <2>3. mails' \in [Orders -> Nat]
      BY <1>5, <1>a, <2>1 DEF LogEmail, TypeOK
    <2> QED
      BY <1>5, <1>a, <2>2, <2>3 DEF LogEmail, TypeInv, TypeOK
  <1>6. ASSUME NEW w \in Browsers, NEW o \in Orders, VerifyRead(w, o)
        PROVE  TypeInv'
    <2>1. PICK next \in {[pc |-> "expire", order |-> o],
                         [pc |-> "subscribe", order |-> o],
                         [pc |-> "miss", order |-> o, code |-> order[o].code]} :
             proc' = [proc EXCEPT ![w] = next]
      BY <1>6 DEF VerifyRead
    <2>2. /\ order[o].code \in Nat \ {0} /\ order[o].code <= issued[o]
          /\ w \in tabs[o] /\ order[o].status # "none" /\ w \in Procs
          /\ UNCHANGED <<tabs, order, issued>>
      BY <1>6, <1>a, <1>c, <1>d DEF VerifyRead, NoCode, CodesIssued, AwaitingCode
    <2>3. next \in ProcState
      <3>1. CASE next.pc = "miss"
        BY <2>1, <2>2, <3>1 DEF ProcState, Missing
      <3>2. CASE next.pc = "expire"
        BY <2>1, <3>2 DEF ProcState, OneOrder
      <3>3. CASE next.pc = "subscribe"
        BY <2>1, <3>3 DEF ProcState, Subscribing
      <3> QED
        BY <2>1, <3>1, <3>2, <3>3
    <2>4. next.order = o /\ (next.pc = "miss" => next.code = order[o].code)
      BY <2>1
    <2>5. WorksOnOwn' /\ CodesIssued'
      <3>1. /\ next # Idle => order[next.order].status # "none"
            /\ next.pc \in CustomerPcs => w \in tabs[next.order]
            /\ next.pc = "miss" => next.code <= issued[next.order]
        BY <2>2, <2>4
      <3> QED
        BY <2>1, <2>2, <2>3, <3>1, OwnRecordStep
    <2>6. proc' \in [Procs -> ProcState]
      BY <1>a, <2>1, <2>2, <2>3, ProcStep
    <2> QED
      BY <1>6, <1>a, <2>5, <2>6 DEF VerifyRead, TypeInv, TypeOK
  <1>7. ASSUME NEW w \in Browsers, Expire(w)
        PROVE  TypeInv'
    <2> DEFINE o == proc[w].order
               row == [order[o] EXCEPT !.status = "EXPIRED"]
    <2>1. o \in Orders /\ w \in Procs
      BY <1>7, <1>b, <1>c, ProcKinds, IdleState DEF Expire
    <2>2. row \in OrderRow /\ row.status = "EXPIRED" /\ row.code = order[o].code
      <3>1. order[o] \in OrderRow /\ "EXPIRED" \in Statuses
        BY <1>d, <2>1 DEF Statuses
      <3>2. row \in OrderRow
        BY <3>1, WrittenRows, 0 \in Nat
      <3> QED
        BY <3>1, <3>2 DEF OrderRow
    <2>3. order' = [order EXCEPT ![o] = row]
      BY <1>7, <1>a, <2>1 DEF Expire, TypeOK
    <2>4. proc' = [proc EXCEPT ![w] = Idle] /\ UNCHANGED <<tabs, issued>>
      BY <1>7 DEF Expire
    <2> HIDE DEF row, o
    <2>5. /\ WorksOnOwn' /\ CodesIssued' /\ proc' \in [Procs -> ProcState]
          /\ order' \in [Orders -> OrderRow]
      <3>1. row.status # "none" /\ row.code <= issued[o]
        BY <1>a, <2>1, <2>2 DEF CodesIssued
      <3> QED
        BY <2>1, <2>2, <2>3, <2>4, <3>1, RowEndStep
    <2> QED
      BY <1>7, <1>a, <2>5 DEF Expire, TypeInv, TypeOK
  <1>8. ASSUME NEW w \in Browsers, Miss(w)
        PROVE  TypeInv'
    <2> DEFINE o == proc[w].order
               k == proc[w].code
               row == [order[o] EXCEPT !.attempts = @ + 1]
    <2>1. o \in Orders /\ w \in Procs /\ k \in Nat \ {0}
      BY <1>8, <1>b, <1>c, ProcKinds DEF Miss, Missing
    <2>2. k \in 1..MaxCodes /\ order[o].status # "none"
      <3>1. k <= issued[o] /\ order[o].status # "none"
        BY <1>8, <1>a, <2>1, IdleState DEF Miss, CodesIssued, WorksOnOwn
      <3> QED
        BY <1>d, <2>1, <3>1
    <2>3. row \in OrderRow /\ row.status = order[o].status /\ row.code = order[o].code
      <3>1. order[o] \in OrderRow /\ "EXPIRED" \in Statuses
        BY <1>d, <2>1 DEF Statuses
      <3>2. row \in OrderRow
        BY <3>1, WrittenRows, 0 \in Nat
      <3> QED
        BY <3>1, <3>2 DEF OrderRow
    <2>4. order' = [order EXCEPT ![o] = row]
      BY <1>8, <1>a, <2>1 DEF Miss, TypeOK
    <2>5. proc' = [proc EXCEPT ![w] = Idle] /\ UNCHANGED <<tabs, issued>>
      BY <1>8 DEF Miss
    <2>6. misses' \in [Orders -> [1..MaxCodes -> Nat]]
      <3>1. misses' = [misses EXCEPT ![o][k] = @ + 1]
        BY <1>8 DEF Miss
      <3> HIDE DEF k, o
      <3>2. [misses[o] EXCEPT ![k] = @ + 1] \in [1..MaxCodes -> Nat]
        BY SMTT(30), <1>a, <2>1, <2>2 DEF TypeOK
      <3> QED
        BY <1>a, <2>1, <3>1, <3>2 DEF TypeOK
    <2> HIDE DEF row, o, k
    <2>7. /\ WorksOnOwn' /\ CodesIssued' /\ proc' \in [Procs -> ProcState]
          /\ order' \in [Orders -> OrderRow]
      <3>1. row.status # "none" /\ row.code <= issued[o]
        BY <1>a, <2>1, <2>2, <2>3 DEF CodesIssued
      <3> QED
        BY <2>1, <2>3, <2>4, <2>5, <3>1, RowEndStep
    <2> QED
      BY <1>8, <1>a, <2>6, <2>7 DEF Miss, TypeInv, TypeOK
  <1>9. ASSUME NEW w \in Browsers, Subscribe(w)
        PROVE  TypeInv'
    <2> DEFINE o == proc[w].order
               next == [pc |-> "confirm", order |-> o, subscription |-> made[o] + 1]
    <2>1. o \in Orders /\ w \in tabs[o] /\ order[o].status # "none" /\ w \in Procs
      BY <1>9, <1>a, <1>b, <1>c, ProcKinds, IdleState
         DEF Subscribe, WorksOnOwn, CustomerPcs
    <2>2. /\ next \in ProcState /\ next.pc = "confirm" /\ next.order = o /\ next # Idle
          /\ made[o] \in Nat
      <3>1. made[o] \in Nat /\ made[o] + 1 \in Nat \ {0}
        BY <1>a, <2>1 DEF TypeOK
      <3> QED
        BY <2>1, <3>1 DEF ProcState, Confirming, Idle
    <2>3. proc' = [proc EXCEPT ![w] = next] /\ made' = [made EXCEPT ![o] = made[o] + 1]
      BY <1>9 DEF Subscribe
    <2> HIDE DEF next, o
    <2>4. WorksOnOwn' /\ CodesIssued'
      <3>1. UNCHANGED <<tabs, order, issued>>
        BY <1>9 DEF Subscribe
      <3> QED
        BY <2>1, <2>2, <2>3, <3>1, OwnRecordStep
    <2>5. proc' \in [Procs -> ProcState] /\ made' \in [Orders -> Nat]
      BY SMTT(30), <1>a, <2>1, <2>2, <2>3, ProcStep DEF TypeOK
    <2> QED
      BY <1>9, <1>a, <2>4, <2>5 DEF Subscribe, TypeInv, TypeOK
  <1>10. ASSUME NEW w \in Browsers, Confirm(w)
         PROVE  TypeInv'
    <2> DEFINE o == proc[w].order
               row == [order[o] EXCEPT !.status = "CONFIRMED",
                          !.subscription = proc[w].subscription, !.code = NoCode]
    <2>1. o \in Orders /\ w \in Procs /\ proc[w].subscription \in Nat
      BY <1>10, <1>b, <1>c, ProcKinds DEF Confirm, Confirming
    <2>2. row \in OrderRow /\ row.status = "CONFIRMED" /\ row.code = 0
      <3>1. order[o] \in OrderRow
        BY <1>d, <2>1
      <3>2. row \in OrderRow
        BY <2>1, <3>1, WrittenRows DEF Statuses
      <3> QED
        BY <3>1, <3>2 DEF OrderRow, NoCode
    <2>3. order' = [order EXCEPT ![o] = row]
      BY <1>10, <1>a, <2>1 DEF Confirm, TypeOK
    <2>4. proc' = [proc EXCEPT ![w] = Idle] /\ UNCHANGED <<tabs, issued>>
      BY <1>10 DEF Confirm
    <2> HIDE DEF row, o
    <2>5. /\ WorksOnOwn' /\ CodesIssued' /\ proc' \in [Procs -> ProcState]
          /\ order' \in [Orders -> OrderRow]
      <3>1. row.status # "none" /\ row.code <= issued[o]
        BY <1>d, <2>1, <2>2
      <3> QED
        BY <2>1, <2>2, <2>3, <2>4, <3>1, RowEndStep
    <2> QED
      BY <1>10, <1>a, <2>5 DEF Confirm, TypeInv, TypeOK
  <1>11. ASSUME NEW w \in Staff, NEW o \in Orders, MoveRead(w, o)
         PROVE  TypeInv'
    <2>1. PICK to \in Allowed(order[o].status) :
             proc' = [proc EXCEPT ![w] = [pc |-> "move", order |-> o, to |-> to]]
      BY <1>11 DEF MoveRead
    <2> DEFINE next == [pc |-> "move", order |-> o, to |-> to]
    <2>2. /\ order[o].status # "none"
          /\ next \in ProcState /\ next.pc = "move" /\ next.order = o
      BY AllowedTargets DEF ProcState, Moving, Statuses
    <2>3. proc' = [proc EXCEPT ![w] = next] /\ UNCHANGED <<tabs, order, issued>>
      BY <1>11, <2>1 DEF MoveRead
    <2> HIDE DEF next
    <2>4. WorksOnOwn' /\ CodesIssued'
      <3>1. next.pc \notin CustomerPcs /\ next.pc # "miss"
        BY <2>2 DEF CustomerPcs
      <3> QED
        BY <1>c, <2>2, <2>3, <3>1, OwnRecordStep
    <2>5. proc' \in [Procs -> ProcState]
      BY <1>a, <1>c, <2>2, <2>3, ProcStep
    <2> QED
      BY <1>11, <1>a, <2>4, <2>5 DEF MoveRead, TypeInv, TypeOK
  <1>12. ASSUME NEW w \in Staff, Move(w)
         PROVE  TypeInv'
    <2> DEFINE o == proc[w].order
               row == [order[o] EXCEPT !.status = proc[w].to]
    <2>1. o \in Orders /\ w \in Procs /\ proc[w].to \in Statuses
      BY <1>12, <1>b, <1>c, ProcKinds DEF Move, Moving, Statuses
    <2>2. row \in OrderRow /\ row.status \in Statuses /\ row.code = order[o].code
      <3>1. order[o] \in OrderRow
        BY <1>d, <2>1
      <3>2. row \in OrderRow
        BY <2>1, <3>1, WrittenRows, 0 \in Nat
      <3> QED
        BY <2>1, <3>1, <3>2 DEF OrderRow
    <2>3. order' = [order EXCEPT ![o] = row]
      BY <1>12, <1>a, <2>1 DEF Move, TypeOK
    <2>4. proc' = [proc EXCEPT ![w] = Idle] /\ UNCHANGED <<tabs, issued>>
      BY <1>12 DEF Move
    <2> HIDE DEF row, o
    <2>5. /\ WorksOnOwn' /\ CodesIssued' /\ proc' \in [Procs -> ProcState]
          /\ order' \in [Orders -> OrderRow]
      <3>1. row.status # "none" /\ row.code <= issued[o]
        BY <1>a, <2>1, <2>2 DEF CodesIssued, Statuses
      <3> QED
        BY <2>1, <2>2, <2>3, <2>4, <3>1, RowEndStep
    <2> QED
      BY <1>12, <1>a, <2>5 DEF Move, TypeInv, TypeOK
  <1>13. ASSUME NEW w \in Procs, Abandon(w)
         PROVE  TypeInv'
    <2>1. WorksOnOwn' /\ CodesIssued' /\ proc' \in [Procs -> ProcState]
      <3>1. proc' = [proc EXCEPT ![w] = Idle] /\ UNCHANGED <<tabs, issued, order>>
        BY <1>13 DEF Abandon
      <3> QED
        BY <3>1, QuietEndStep
    <2>2. crashes' \in [Orders -> 0..MaxCrashes]
      <3>1. CASE proc[w].pc = "confirm"
        <4>1. /\ crashes[proc[w].order] < MaxCrashes
              /\ crashes' = [crashes EXCEPT ![proc[w].order] = @ + 1]
          BY <1>13, <3>1 DEF Abandon
        <4>2. proc[w].order \in Orders
          BY <1>b, <3>1, ProcKinds, IdleState
        <4> QED
          BY <1>a, <4>1, <4>2 DEF TypeOK
      <3>2. CASE proc[w].pc # "confirm"
        BY <1>13, <1>a, <3>2 DEF Abandon, TypeOK
      <3> QED
        BY <3>1, <3>2
    <2> QED
      BY <1>13, <1>a, <2>1, <2>2 DEF Abandon, TypeInv, TypeOK
  <1>14. ASSUME NEW o \in Orders, CodeAges(o)
         PROVE  TypeInv'
    <2> DEFINE row == [order[o] EXCEPT !.age = IF @ = "fresh" THEN "valid" ELSE "past"]
    <2>1. row \in OrderRow /\ row.status = order[o].status /\ row.code = order[o].code
      <3>1. row \in OrderRow
        BY <1>d, WrittenRows, 0 \in Nat DEF Statuses
      <3> QED
        BY <1>d, <3>1 DEF OrderRow
    <2>2. order' = [order EXCEPT ![o] = row]
      BY <1>14, <1>a DEF CodeAges, TypeOK
    <2> HIDE DEF row
    <2>3. /\ order' \in [Orders -> OrderRow] /\ order'[o] = row
          /\ \A q \in Orders \ {o} : order'[q] = order[q]
      BY <1>a, <2>1, <2>2, OrderStep
    <2>4. \A q \in Orders : order'[q].status = order[q].status
                            /\ order'[q].code = order[q].code
      BY <2>1, <2>3
    <2>5. UNCHANGED <<tabs, issued, proc>>
      BY <1>14 DEF CodeAges
    <2>6. CodesIssued'
      BY <1>a, <2>4, <2>5 DEF CodesIssued
    <2>7. WorksOnOwn'
      BY <1>a, <1>b, <2>4, <2>5, ProcKinds DEF WorksOnOwn
    <2> QED
      BY <1>14, <1>a, <2>3, <2>6, <2>7 DEF CodeAges, TypeInv, TypeOK
  <1>15. ASSUME NEW o \in Orders, WindowSlides(o)
         PROVE  TypeInv'
    <2>1. mails' \in [Orders -> Nat]
      BY <1>15, <1>a DEF WindowSlides, TypeOK
    <2>2. UNCHANGED <<tabs, order, made, issued, misses, crashes, proc>>
      BY <1>15 DEF WindowSlides
    <2> QED
      BY <1>a, <2>1, <2>2 DEF TypeInv, TypeOK, WorksOnOwn, CodesIssued
  <1>16. ASSUME UNCHANGED vars
         PROVE  TypeInv'
    BY <1>a, <1>16 DEF vars, TypeInv, TypeOK, WorksOnOwn, CodesIssued
  <1> QED
    BY <1>1, <1>2, <1>3, <1>4, <1>5, <1>6, <1>7, <1>8, <1>9, <1>10, <1>11,
       <1>12, <1>13, <1>14, <1>15, <1>16 DEF Next, CustomerStep, StaffStep

\* Type correctness, of Orders under any interleaving: with it, every request
\* in flight works on an order that exists, the customer's on one of their own,
\* and every code a request answered was issued.
THEOREM TypeCorrect == Spec => []TypeInv
  <1>1. Init => TypeInv
    BY InitTypeInv
  <1>2. TypeInv /\ [Next]_vars => TypeInv'
    BY TypeInvStep
  <1> QED
    BY <1>1, <1>2, PTL DEF Spec

THEOREM TypeOKHolds == Spec => []TypeOK
  <1>1. TypeInv => TypeOK
    BY DEF TypeInv
  <1> QED
    BY <1>1, TypeCorrect, PTL

-----------------------------------------------------------------------------
(* What the customer's steps do, but for createFromOrder and the confirmation *)

Live == {"CONFIRMED", "SCHEDULED", "INSTALLED"}
Waiting == {"none"} \cup AwaitingCode

\* w is at work for the customer of o.
Busy(o, w) == proc[w].pc \in CustomerPcs /\ proc[w].order = o

\* A step of w on o, new or waiting when w is not at work on it already, that
\* makes no subscription, takes none away and brings the order no further.
KeepsSubscription(w, o) ==
    /\ w \in tabs[o]
    /\ Busy(o, w) \/ order[o].status \in Waiting
    /\ proc[w].pc # "confirm"
    /\ proc'[w].pc \notin {"confirm", "move"}
    /\ proc'[w].pc \in CustomerPcs => proc'[w].order = o
    /\ \A v \in Procs \ {w} : proc'[v] = proc[v]
    /\ order'[o].subscription = order[o].subscription
    /\ order'[o].status \in Live => order[o].status \in Live
    /\ \A q \in Orders \ {o} : order'[q] = order[q]
    /\ UNCHANGED <<tabs, made, crashes>>

LEMMA KeepsByRow ==
    ASSUME TypeOK, NEW w \in Procs, NEW o \in Orders, w \in tabs[o],
           Busy(o, w) \/ order[o].status \in Waiting,
           proc[w].pc # "confirm",
           NEW next, proc' = [proc EXCEPT ![w] = next],
           next.pc \notin {"confirm", "move"},
           next.pc \in CustomerPcs => next.order = o,
           NEW row, order' = [order EXCEPT ![o] = row],
           row.subscription = order[o].subscription,
           row.status \in Live => order[o].status \in Live,
           UNCHANGED <<tabs, made, crashes>>
    PROVE  KeepsSubscription(w, o)
  BY DEF TypeOK, KeepsSubscription

\* The same for a step that writes no order.
LEMMA KeepsByRecord ==
    ASSUME TypeOK, NEW w \in Procs, NEW o \in Orders, w \in tabs[o],
           Busy(o, w) \/ order[o].status \in Waiting,
           proc[w].pc # "confirm",
           NEW next, proc' = [proc EXCEPT ![w] = next],
           next.pc \notin {"confirm", "move"},
           next.pc \in CustomerPcs => next.order = o,
           UNCHANGED <<tabs, order, made, crashes>>
    PROVE  KeepsSubscription(w, o)
  <1>1. order' = [order EXCEPT ![o] = order[o]]
    BY DEF TypeOK
  <1> QED
    BY <1>1, KeepsByRow

LEMMA CustomerEffect ==
    ASSUME TypeInv, NEW w \in Browsers,
           \/ \E o \in Orders : Create(w, o) \/ ResendRead(w, o) \/ VerifyRead(w, o)
           \/ ResendCheck(w) \/ IssueOtp(w) \/ LogEmail(w) \/ Expire(w) \/ Miss(w)
    PROVE  \E o \in Orders : KeepsSubscription(w, o)
  <1>a. TypeOK /\ w \in Procs /\ proc[w] \in ProcState
    BY DEF TypeInv, TypeOK, Procs
  <1>b. Idle.pc = "idle" /\ Idle.pc \notin CustomerPcs
    BY IdleState DEF CustomerPcs
  <1>c. \A o \in Orders : order[o] \in OrderRow
    BY <1>a DEF TypeOK
  \* A request that is under way works for the customer of its order.
  <1>d. ASSUME proc[w].pc \in CustomerPcs
        PROVE  /\ proc[w].order \in Orders /\ w \in tabs[proc[w].order]
               /\ Busy(proc[w].order, w)
    BY <1>a, <1>b, <1>d, ProcKinds DEF TypeInv, WorksOnOwn, Busy
  <1>1. ASSUME NEW o \in Orders, Create(w, o)
        PROVE  KeepsSubscription(w, o)
    <2> DEFINE next == [pc |-> "issue", order |-> o]
               row == [order[o] EXCEPT !.status = "PENDING_OTP"]
    <2>1. proc' = [proc EXCEPT ![w] = next] /\ order' = [order EXCEPT ![o] = row]
      BY <1>1, <1>a DEF Create, TypeOK
    <2>2. row.subscription = order[o].subscription /\ row.status \notin Live
      BY <1>c DEF OrderRow, Live
    <2>3. next.pc \notin {"confirm", "move"} /\ next.order = o
      OBVIOUS
    <2>4. /\ w \in tabs[o] /\ order[o].status \in Waiting /\ proc[w].pc # "confirm"
          /\ UNCHANGED <<tabs, made, crashes>>
      BY <1>1, <1>b DEF Create, Waiting
    <2> HIDE DEF next, row
    <2> QED
      BY <1>a, <2>1, <2>2, <2>3, <2>4, KeepsByRow
  <1>2. ASSUME NEW o \in Orders, ResendRead(w, o)
        PROVE  KeepsSubscription(w, o)
    <2> DEFINE next == [pc |-> "resend", order |-> o,
                        code |-> issued[o], age |-> order[o].age]
    <2>1. proc' = [proc EXCEPT ![w] = next]
      BY <1>2 DEF ResendRead
    <2>2. next.pc \notin {"confirm", "move"} /\ next.order = o
      OBVIOUS
    <2>3. /\ w \in tabs[o] /\ order[o].status \in Waiting /\ proc[w].pc # "confirm"
          /\ UNCHANGED <<tabs, order, made, crashes>>
      BY <1>2, <1>b DEF ResendRead, Waiting
    <2> HIDE DEF next
    <2> QED
      BY <1>a, <2>1, <2>2, <2>3, KeepsByRecord
  <1>3. ASSUME NEW o \in Orders, VerifyRead(w, o)
        PROVE  KeepsSubscription(w, o)
    <2>1. PICK next \in {[pc |-> "expire", order |-> o],
                         [pc |-> "subscribe", order |-> o],
                         [pc |-> "miss", order |-> o, code |-> order[o].code]} :
             proc' = [proc EXCEPT ![w] = next]
      BY <1>3 DEF VerifyRead
    <2>2. next.pc \notin {"confirm", "move"} /\ next.order = o
      BY <2>1
    <2>3. /\ w \in tabs[o] /\ order[o].status \in Waiting /\ proc[w].pc # "confirm"
          /\ UNCHANGED <<tabs, order, made, crashes>>
      BY <1>3, <1>b DEF VerifyRead, Waiting
    <2> QED
      BY <1>a, <2>1, <2>2, <2>3, KeepsByRecord
  <1>4. ASSUME ResendCheck(w) \/ LogEmail(w)
        PROVE  KeepsSubscription(w, proc[w].order)
    <2> DEFINE o == proc[w].order
    <2>1. /\ o \in Orders /\ w \in tabs[o] /\ Busy(o, w) /\ proc[w].pc # "confirm"
          /\ UNCHANGED <<tabs, order, made, crashes>>
      BY <1>4, <1>d DEF ResendCheck, LogEmail, CustomerPcs
    <2>2. PICK next \in {Idle, [pc |-> "issue", order |-> o]} :
             proc' = [proc EXCEPT ![w] = next]
      BY <1>4 DEF ResendCheck, LogEmail
    <2>3. /\ next.pc \notin {"confirm", "move"}
          /\ next.pc \in CustomerPcs => next.order = o
      BY <1>b, <2>2
    <2> HIDE DEF o
    <2>4. KeepsSubscription(w, o)
      BY <1>a, <2>1, <2>2, <2>3, KeepsByRecord
    <2> QED
      BY <2>4 DEF o
  <1>5. ASSUME IssueOtp(w)
        PROVE  KeepsSubscription(w, proc[w].order)
    <2> DEFINE o == proc[w].order
               next == [pc |-> "email", order |-> o]
               row == [order[o] EXCEPT !.status = "PENDING_OTP",
                          !.code = issued[o] + 1, !.age = "fresh", !.attempts = 0]
    <2>1. /\ o \in Orders /\ w \in tabs[o] /\ Busy(o, w) /\ proc[w].pc # "confirm"
          /\ UNCHANGED <<tabs, made, crashes>>
      BY <1>5, <1>d DEF IssueOtp, CustomerPcs
    <2>2. order' = [order EXCEPT ![o] = row]
      BY <1>5, <1>a, <2>1 DEF IssueOtp, TypeOK
    <2>3. proc' = [proc EXCEPT ![w] = next]
      <3>1. proc[w] \in OneOrder
        BY <1>5, <1>a, ProcKinds DEF IssueOtp
      <3>2. [proc[w] EXCEPT !.pc = "email"] = next
        BY <3>1 DEF OneOrder
      <3> QED
        BY <1>5, <1>a, <3>2 DEF IssueOtp, TypeOK
    <2>4. row.subscription = order[o].subscription /\ row.status \notin Live
      <3> HIDE DEF o
      <3> QED
        BY <1>c, <2>1 DEF OrderRow, Live
    <2>5. next.pc \notin {"confirm", "move"} /\ next.order = o
      OBVIOUS
    <2> HIDE DEF row, next, o
    <2>6. KeepsSubscription(w, o)
      BY <1>a, <2>1, <2>2, <2>3, <2>4, <2>5, KeepsByRow
    <2> QED
      BY <2>6 DEF o
  <1>6. ASSUME Expire(w) \/ Miss(w)
        PROVE  KeepsSubscription(w, proc[w].order)
    <2> DEFINE o == proc[w].order
               rows == {[order[o] EXCEPT !.status = "EXPIRED"],
                        [order[o] EXCEPT !.attempts = @ + 1]}
    <2>1. /\ o \in Orders /\ w \in tabs[o] /\ Busy(o, w) /\ proc[w].pc # "confirm"
          /\ UNCHANGED <<tabs, made, crashes>>
          /\ proc' = [proc EXCEPT ![w] = Idle]
      BY <1>6, <1>d DEF Expire, Miss, CustomerPcs
    <2>2. PICK row \in rows : order' = [order EXCEPT ![o] = row]
      <3>1. CASE Expire(w)
        BY <1>a, <2>1, <3>1 DEF Expire, TypeOK
      <3>2. CASE Miss(w)
        BY <1>a, <2>1, <3>2 DEF Miss, TypeOK
      <3> QED
        BY <1>6, <3>1, <3>2
    <2> HIDE DEF o
    <2>3. /\ row.subscription = order[o].subscription
          /\ row.status \in Live => order[o].status \in Live
      BY <1>c, <2>1, <2>2 DEF OrderRow, Live
    <2> HIDE DEF rows
    <2>4. KeepsSubscription(w, o)
      BY <1>a, <1>b, <2>1, <2>2, <2>3, KeepsByRow
    <2> QED
      BY <2>4 DEF o
  <1>7. ASSUME proc[w].pc \in CustomerPcs, KeepsSubscription(w, proc[w].order)
        PROVE  \E o \in Orders : KeepsSubscription(w, o)
    BY <1>7, <1>d
  <1>8. ASSUME ResendCheck(w) \/ IssueOtp(w) \/ LogEmail(w) \/ Expire(w) \/ Miss(w)
        PROVE  proc[w].pc \in CustomerPcs
    BY <1>8 DEF ResendCheck, IssueOtp, LogEmail, Expire, Miss, CustomerPcs
  <1> QED
    BY <1>1, <1>2, <1>3, <1>4, <1>5, <1>6, <1>7, <1>8

-----------------------------------------------------------------------------
(* A confirmed order has its subscription *)

\* Not only the orders but also the writes on their way: a request about to
\* confirm holds a subscription that was made, and a request of staff about to
\* schedule or install an order found it confirmed, hence with a subscription,
\* which no write takes away again.
SubscriptionInv ==
    /\ \A o \in Orders : /\ order[o].subscription <= made[o]
                         /\ order[o].status \in Live => order[o].subscription # 0
    /\ \A w \in Procs :
          /\ proc[w].pc = "confirm" => proc[w].subscription <= made[proc[w].order]
          /\ proc[w].pc = "move" /\ proc[w].to \in Live
                => order[proc[w].order].subscription # 0

\* It survives the step of one request that takes no subscription away.
LEMMA SubscriptionFrame ==
    ASSUME TypeOK, TypeOK', SubscriptionInv,
           NEW w \in Procs, \A v \in Procs \ {w} : proc'[v] = proc[v],
           \A o \in Orders :
              /\ made[o] <= made'[o]
              /\ order'[o].subscription <= made'[o]
              /\ order[o].subscription # 0 => order'[o].subscription # 0
              /\ order'[o].status \in Live => order'[o].subscription # 0,
           proc'[w].pc = "confirm"
              => proc'[w].subscription <= made'[proc'[w].order],
           proc'[w].pc = "move" /\ proc'[w].to \in Live
              => order'[proc'[w].order].subscription # 0
    PROVE  SubscriptionInv'
  <1>1. ASSUME NEW v \in Procs, v # w
        PROVE  /\ proc'[v].pc = "confirm" => proc'[v].subscription <= made'[proc'[v].order]
               /\ proc'[v].pc = "move" /\ proc'[v].to \in Live
                     => order'[proc'[v].order].subscription # 0
    <2>1. proc'[v] = proc[v] /\ proc[v] \in ProcState
      BY <1>1 DEF TypeOK
    <2>2. CASE proc[v].pc = "confirm"
      <3>1. proc[v].order \in Orders /\ proc[v].subscription \in Nat
        BY <2>1, <2>2, ProcKinds DEF Confirming
      <3>2. made[proc[v].order] \in Nat /\ made'[proc[v].order] \in Nat
        BY <3>1 DEF TypeOK
      <3>3. proc[v].subscription <= made[proc[v].order]
            /\ made[proc[v].order] <= made'[proc[v].order]
        BY <2>2, <3>1 DEF SubscriptionInv
      <3> QED
        BY <2>1, <2>2, <3>1, <3>2, <3>3
    <2>3. CASE proc[v].pc = "move"
      <3>1. proc[v].order \in Orders
        BY <2>1, <2>3, ProcKinds, IdleState
      <3> QED
        BY <2>1, <2>3, <3>1 DEF SubscriptionInv
    <2> QED
      BY <2>1, <2>2, <2>3
  <1> QED
    BY <1>1 DEF SubscriptionInv

\* The request that ends, or takes up other work, writing no order.
LEMMA SubscriptionQuiet ==
    ASSUME TypeOK, TypeOK', SubscriptionInv, UNCHANGED <<order, made>>,
           NEW w \in Procs, \A v \in Procs \ {w} : proc'[v] = proc[v],
           proc'[w].pc \notin {"confirm", "move"}
    PROVE  SubscriptionInv'
  <1>1. \A o \in Orders : made[o] \in Nat
    BY DEF TypeOK
  <1> QED
    BY <1>1, SubscriptionFrame DEF SubscriptionInv

LEMMA SubscriptionStep ==
    TypeInv /\ TypeInv' /\ SubscriptionInv /\ [Next]_vars => SubscriptionInv'
  <1> SUFFICES ASSUME TypeInv, TypeInv', SubscriptionInv, [Next]_vars
               PROVE  SubscriptionInv'
    OBVIOUS
  <1>a. TypeOK /\ TypeOK'
    BY DEF TypeInv
  <1>b. \A w \in Procs : proc[w] \in ProcState
    BY <1>a DEF TypeOK
  <1>c. Browsers \subseteq Procs /\ Staff \subseteq Procs
    BY DEF Procs
  <1>d. \A o \in Orders : /\ order[o] \in OrderRow /\ made[o] \in Nat
                          /\ order[o].subscription \in Nat
                          /\ order[o].subscription <= made[o]
                          /\ order[o].status \in Live => order[o].subscription # 0
    BY <1>a DEF TypeOK, OrderRow, SubscriptionInv
  \* A write of one row that keeps its subscription and does not bring it alive.
  <1>e. ASSUME NEW w \in Procs, \A v \in Procs \ {w} : proc'[v] = proc[v],
               proc'[w].pc \notin {"confirm", "move"}, UNCHANGED made,
               \A o \in Orders : /\ order'[o].subscription = order[o].subscription
                                 /\ order'[o].status \in Live => order[o].subscription # 0
        PROVE  SubscriptionInv'
    BY <1>a, <1>d, <1>e, SubscriptionFrame
  <1>1. ASSUME NEW w \in Browsers,
               \/ \E o \in Orders : Create(w, o) \/ ResendRead(w, o) \/ VerifyRead(w, o)
               \/ ResendCheck(w) \/ IssueOtp(w) \/ LogEmail(w) \/ Expire(w) \/ Miss(w)
        PROVE  SubscriptionInv'
    <2>1. PICK o \in Orders : KeepsSubscription(w, o)
      BY <1>1, CustomerEffect
    <2>2. \A q \in Orders : /\ order'[q].subscription = order[q].subscription
                            /\ order'[q].status \in Live => order[q].subscription # 0
      BY <1>d, <2>1 DEF KeepsSubscription
    <2> QED
      BY <1>c, <1>e, <2>1, <2>2 DEF KeepsSubscription
  <1>2. ASSUME NEW w \in Browsers, Subscribe(w)
        PROVE  SubscriptionInv'
    <2> DEFINE o == proc[w].order
               next == [pc |-> "confirm", order |-> o, subscription |-> made[o] + 1]
    <2>1. o \in Orders /\ w \in Procs
      BY <1>2, <1>b, <1>c, ProcKinds, IdleState DEF Subscribe
    <2>2. /\ proc' = [proc EXCEPT ![w] = next]
          /\ made' = [made EXCEPT ![o] = made[o] + 1]
          /\ order' = order
      BY <1>2 DEF Subscribe
    <2> HIDE DEF o
    <2>3. \A q \in Orders : made[q] <= made'[q]
      BY SMTT(30), <1>a, <1>d, <2>1, <2>2 DEF TypeOK
    <2>4. proc'[w] = next /\ made'[o] = made[o] + 1 /\ made[o] + 1 \in Nat
          /\ \A v \in Procs \ {w} : proc'[v] = proc[v]
      BY <1>a, <1>d, <2>1, <2>2 DEF TypeOK
    <2>5. \A q \in Orders : made'[q] \in Nat
      BY <1>a DEF TypeOK
    <2>6. \A q \in Orders : order[q].subscription <= made'[q]
      BY <1>d, <2>3, <2>5
    <2>7. /\ proc'[w].pc = "confirm" /\ proc'[w].subscription <= made'[proc'[w].order]
      BY <2>4
    <2> QED
      BY <1>a, <1>d, <2>1, <2>2, <2>3, <2>4, <2>6, <2>7, SubscriptionFrame
  <1>3. ASSUME NEW w \in Browsers, Confirm(w)
        PROVE  SubscriptionInv'
    <2> DEFINE o == proc[w].order
               s == proc[w].subscription
    <2>1. o \in Orders /\ w \in Procs /\ s \in Nat \ {0} /\ s <= made[o]
      BY <1>3, <1>b, <1>c, ProcKinds DEF Confirm, Confirming, SubscriptionInv
    <2>2. /\ \A v \in Procs \ {w} : proc'[v] = proc[v]
          /\ proc'[w].pc = "idle"
      BY <1>3, <1>a, <1>c, IdleState DEF Confirm, TypeOK
    <2>3. order'[o].subscription = s /\ \A q \in Orders \ {o} : order'[q] = order[q]
      <3>1. order' = [order EXCEPT ![o] = [order[o] EXCEPT
                         !.status = "CONFIRMED", !.subscription = s, !.code = NoCode]]
        BY <1>3, <1>a, <2>1 DEF Confirm, TypeOK
      <3> HIDE DEF o, s
      <3>2. [order[o] EXCEPT !.status = "CONFIRMED", !.subscription = s,
                             !.code = NoCode].subscription = s
        BY <1>d, <2>1 DEF OrderRow
      <3> QED
        BY <1>a, <2>1, <3>1, <3>2 DEF TypeOK
    <2> HIDE DEF o, s
    <2>4. \A q \in Orders : /\ made[q] <= made'[q]
                            /\ order'[q].subscription <= made'[q]
                            /\ order[q].subscription # 0 => order'[q].subscription # 0
                            /\ order'[q].status \in Live => order'[q].subscription # 0
      <3>1. made' = made
        BY <1>3 DEF Confirm
      <3> QED
        BY <1>d, <2>1, <2>3, <3>1
    <2> QED
      BY <1>a, <2>1, <2>2, <2>4, SubscriptionFrame
  <1>4. ASSUME NEW w \in Staff, NEW o \in Orders, MoveRead(w, o)
        PROVE  SubscriptionInv'
    <2>1. PICK to \in Allowed(order[o].status) :
             proc' = [proc EXCEPT ![w] = [pc |-> "move", order |-> o, to |-> to]]
      BY <1>4 DEF MoveRead
    <2>2. /\ proc'[w] = [pc |-> "move", order |-> o, to |-> to]
          /\ \A v \in Procs \ {w} : proc'[v] = proc[v]
      BY <1>a, <1>c, <2>1 DEF TypeOK
    <2>3. to \in Live => order[o].subscription # 0
      BY <1>d, <2>1, AllowedTargets DEF Live
    <2>4. order' = order /\ made' = made
      BY <1>4 DEF MoveRead
    <2>5. /\ proc'[w].pc = "move"
          /\ proc'[w].to \in Live => order'[proc'[w].order].subscription # 0
      BY <2>2, <2>3, <2>4
    <2> QED
      BY <1>a, <1>c, <1>d, <2>2, <2>4, <2>5, SubscriptionFrame
  <1>5. ASSUME NEW w \in Staff, Move(w)
        PROVE  SubscriptionInv'
    <2> DEFINE o == proc[w].order
               to == proc[w].to
    <2>1. o \in Orders /\ w \in Procs
      BY <1>5, <1>b, <1>c, ProcKinds, IdleState DEF Move
    <2>2. to \in Live => order[o].subscription # 0
      BY <1>5, <1>c DEF Move, SubscriptionInv
    <2>3. /\ \A v \in Procs \ {w} : proc'[v] = proc[v]
          /\ proc'[w].pc = "idle"
      BY <1>5, <1>a, <1>c, IdleState DEF Move, TypeOK
    <2>4. order' = [order EXCEPT ![o] = [order[o] EXCEPT !.status = to]]
      BY <1>5, <1>a, <2>1 DEF Move, TypeOK
    <2> HIDE DEF o, to
    <2>5. /\ [order[o] EXCEPT !.status = to].subscription = order[o].subscription
          /\ [order[o] EXCEPT !.status = to].status = to
      BY <1>d, <2>1 DEF OrderRow
    <2>6. /\ order'[o].subscription = order[o].subscription /\ order'[o].status = to
          /\ \A q \in Orders \ {o} : order'[q] = order[q]
      BY <1>a, <2>1, <2>4, <2>5 DEF TypeOK
    <2>7. \A q \in Orders : /\ order'[q].subscription = order[q].subscription
                            /\ order'[q].status \in Live => order[q].subscription # 0
      BY <1>d, <2>2, <2>6
    <2> QED
      BY <1>5, <1>e, <2>1, <2>3, <2>7 DEF Move
  <1>6. ASSUME NEW w \in Procs, Abandon(w)
         PROVE  SubscriptionInv'
    <2>1. /\ \A v \in Procs \ {w} : proc'[v] = proc[v]
          /\ proc'[w].pc = "idle"
      BY <1>6, <1>a, IdleState DEF Abandon, TypeOK
    <2> QED
      BY <1>6, <1>a, <2>1, SubscriptionQuiet DEF Abandon
  <1>7. ASSUME NEW o \in Orders, CodeAges(o)
         PROVE  SubscriptionInv'
    <2>1. \A q \in Orders : /\ order'[q].subscription = order[q].subscription
                            /\ order'[q].status = order[q].status
      BY SMTT(30), <1>7, <1>a, <1>d DEF CodeAges, TypeOK, OrderRow
    <2>2. UNCHANGED <<made, proc>>
      BY <1>7 DEF CodeAges
    <2>3. \A w \in Procs : proc[w].pc = "move" => proc[w].order \in Orders
      BY <1>b, ProcKinds, IdleState
    <2> QED
      BY <2>1, <2>2, <2>3 DEF SubscriptionInv
  <1>8. ASSUME (\E o \in Orders : WindowSlides(o)) \/ UNCHANGED vars
         PROVE  SubscriptionInv'
    BY <1>8 DEF WindowSlides, vars, SubscriptionInv
  <1> QED
    BY <1>1, <1>2, <1>3, <1>4, <1>5, <1>6, <1>7, <1>8
       DEF Next, CustomerStep, StaffStep

\* An order that is confirmed, scheduled or installed names a subscription made
\* for it, however the requests on it interleave and wherever they die.
THEOREM ConfirmedOrderHasSubscription == Spec => []ConfirmedHasSubscription
  <1>1. Init => SubscriptionInv
    BY DEF Init, SubscriptionInv, Live, NoSubscription, Idle
  <1>2. TypeInv /\ TypeInv' /\ SubscriptionInv /\ [Next]_vars => SubscriptionInv'
    BY SubscriptionStep
  <1>3. TypeInv /\ SubscriptionInv => ConfirmedHasSubscription
    <2> SUFFICES ASSUME TypeInv, SubscriptionInv, NEW o \in Orders,
                        order[o].status \in Live
                 PROVE  order[o].subscription \in 1..made[o]
      BY DEF ConfirmedHasSubscription, Live
    <2>1. order[o].subscription \in Nat /\ made[o] \in Nat
      BY DEF TypeInv, TypeOK, OrderRow
    <2> QED
      BY <2>1 DEF SubscriptionInv
  <1> QED
    BY <1>1, <1>2, <1>3, TypeCorrect, PTL DEF Spec

-----------------------------------------------------------------------------
(* One subscription per order of a customer whose requests do not overlap *)

AboutToConfirm(o, w) == proc[w].pc = "confirm" /\ proc[w].order = o

\* Of a customer who has only w: once the order names a subscription it waits
\* for no code, whatever staff do, and w is done with it; until then every
\* subscription but the one about to be recorded is left by a crash.
LoneCustomer(o, w) ==
    /\ order[o].subscription # 0 =>
          order[o].status \notin Waiting /\ ~Busy(o, w) /\ made[o] <= crashes[o] + 1
    /\ order[o].subscription = 0 /\ AboutToConfirm(o, w) => made[o] <= crashes[o] + 1
    /\ order[o].subscription = 0 /\ ~AboutToConfirm(o, w) => made[o] <= crashes[o]

LoneInv == \A o \in Orders, w \in Procs : tabs[o] = {w} => LoneCustomer(o, w)

\* A step that leaves the counts and the subscription of o alone, and that, if
\* there is one, neither reopens o nor starts work on it.
LEMMA LoneFrame ==
    ASSUME NEW o \in Orders, NEW w \in Procs, LoneCustomer(o, w),
           order'[o].subscription = order[o].subscription,
           made'[o] = made[o], crashes'[o] = crashes[o],
           AboutToConfirm(o, w)' <=> AboutToConfirm(o, w),
           order[o].subscription # 0 /\ order'[o].status \in Waiting
              => order[o].status \in Waiting,
           order[o].subscription # 0 /\ Busy(o, w)' => Busy(o, w)
    PROVE  LoneCustomer(o, w)'
  BY DEF LoneCustomer

LEMMA LoneStep == TypeInv /\ TypeInv' /\ LoneInv /\ [Next]_vars => LoneInv'
  <1> SUFFICES ASSUME TypeInv, TypeInv', LoneInv, [Next]_vars,
                      NEW o \in Orders, NEW w \in Procs, tabs'[o] = {w}
               PROVE  LoneCustomer(o, w)'
    BY DEF LoneInv
  <1>a. TypeOK /\ TypeOK'
    BY DEF TypeInv
  <1>b. /\ tabs' = tabs /\ tabs[o] = {w} /\ w \in Browsers /\ w \notin Staff
        /\ LoneCustomer(o, w)
    <2>1. tabs' = tabs
      BY ZenonT(30) DEF Next, CustomerStep, StaffStep, Create, ResendRead, VerifyRead,
         ResendCheck, IssueOtp, LogEmail, Expire, Miss, Subscribe, Confirm,
         MoveRead, Move, Abandon, CodeAges, WindowSlides, vars
    <2> QED
      BY <1>a, <2>1, OrdersAssumption DEF TypeOK, LoneInv
  <1>c. /\ order[o] \in OrderRow /\ order[o].subscription \in Nat
        /\ made[o] \in Nat /\ crashes[o] \in Nat
        /\ made'[o] \in Nat /\ crashes'[o] \in Nat
    BY <1>a, OrdersAssumption DEF TypeOK, OrderRow
  <1>d. \A v \in Procs : proc[v] \in ProcState
    BY <1>a DEF TypeOK
  <1>e. /\ Idle.pc = "idle" /\ "idle" \notin CustomerPcs /\ "move" \notin CustomerPcs
        /\ Browsers \subseteq Procs /\ Staff \subseteq Procs
    BY IdleState DEF CustomerPcs, Procs
  <1>f. ASSUME proc[w].pc = "confirm"
        PROVE  /\ proc[w].order \in Orders /\ proc[w].subscription \in Nat \ {0}
               /\ proc[w].order = o => Busy(o, w) /\ AboutToConfirm(o, w)
    BY <1>d, <1>f, ProcKinds DEF Confirming, Busy, AboutToConfirm, CustomerPcs
  \* Steps of others leave the customer of o alone.
  <1>1. ASSUME NEW v \in Browsers, NEW q \in Orders, KeepsSubscription(v, q)
        PROVE  LoneCustomer(o, w)'
    <2>1. q = o => v = w
      BY <1>1, <1>b DEF KeepsSubscription
    <2>2. /\ order'[o].subscription = order[o].subscription
          /\ made'[o] = made[o] /\ crashes'[o] = crashes[o]
      BY <1>1 DEF KeepsSubscription
    <2>3. AboutToConfirm(o, w)' <=> AboutToConfirm(o, w)
      BY <1>1 DEF KeepsSubscription, AboutToConfirm
    <2>4. CASE q = o
      <3>1. order[o].subscription = 0
        BY <1>1, <1>b, <2>1, <2>4 DEF KeepsSubscription, LoneCustomer
      <3> QED
        BY <1>b, <2>2, <2>3, <3>1, LoneFrame
    <2>5. CASE q # o
      <3>1. order'[o] = order[o]
        BY <1>1, <2>5 DEF KeepsSubscription
      <3>2. Busy(o, w)' => Busy(o, w)
        BY <1>1, <2>5 DEF KeepsSubscription, Busy
      <3> QED
        BY <1>b, <2>2, <2>3, <3>1, <3>2, LoneFrame
    <2> QED
      BY <2>4, <2>5
  <1>2. ASSUME NEW v \in Browsers, Subscribe(v)
        PROVE  LoneCustomer(o, w)'
    <2> DEFINE q == proc[v].order
    <2>1. /\ q \in Orders /\ v \in tabs[q] /\ Busy(q, v) /\ ~AboutToConfirm(q, v)
      BY <1>2, <1>d, <1>e, ProcKinds
         DEF Subscribe, TypeInv, WorksOnOwn, CustomerPcs, Busy, AboutToConfirm
    <2>2. /\ made' = [made EXCEPT ![q] = @ + 1]
          /\ order' = order /\ crashes' = crashes
          /\ proc' = [proc EXCEPT ![v] = [pc |-> "confirm", order |-> q,
                                          subscription |-> made[q] + 1]]
      BY <1>2 DEF Subscribe
    <2>3. /\ \A u \in Procs \ {v} : proc'[u] = proc[u]
          /\ proc'[v].pc = "confirm" /\ proc'[v].order = q
      BY <1>a, <1>e, <2>2 DEF TypeOK
    <2> HIDE DEF q
    <2>4. CASE q = o
      <3>1. v = w /\ order[o].subscription = 0 /\ made[o] <= crashes[o]
        BY <1>b, <2>1, <2>4 DEF LoneCustomer
      <3>2. made'[o] = made[o] + 1
        BY <1>a, <2>2, <2>4 DEF TypeOK
      <3>3. made'[o] <= crashes'[o] + 1
        BY <1>c, <2>2, <3>1, <3>2
      <3>4. AboutToConfirm(o, w)'
        BY <2>3, <2>4, <3>1 DEF AboutToConfirm
      <3> QED
        BY <2>2, <3>1, <3>3, <3>4 DEF LoneCustomer
    <2>5. CASE q # o
      <3>1. made'[o] = made[o] /\ order' = order /\ crashes' = crashes
        BY <1>a, <2>2, <2>5 DEF TypeOK
      <3>2. /\ Busy(o, w)' => Busy(o, w)
            /\ AboutToConfirm(o, w)' <=> AboutToConfirm(o, w)
        BY <2>1, <2>3, <2>5 DEF Busy, AboutToConfirm
      <3> QED
        BY <1>b, <3>1, <3>2, LoneFrame
    <2> QED
      BY <2>4, <2>5
  <1>3. ASSUME NEW v \in Browsers, Confirm(v)
        PROVE  LoneCustomer(o, w)'
    <2> DEFINE q == proc[v].order
               s == proc[v].subscription
               row == [order[q] EXCEPT !.status = "CONFIRMED",
                          !.subscription = s, !.code = NoCode]
    <2>1. /\ q \in Orders /\ v \in tabs[q] /\ s \in Nat \ {0}
          /\ proc[v].pc = "confirm"
      BY ZenonT(30), <1>3, <1>d, <1>e, ProcKinds
         DEF Confirm, Confirming, TypeInv, WorksOnOwn, CustomerPcs
    <2>2. order' = [order EXCEPT ![q] = row]
      BY <1>3, <1>a, <2>1 DEF Confirm, TypeOK
    <2>3. /\ \A u \in Procs \ {v} : proc'[u] = proc[u]
          /\ proc'[v].pc = "idle"
          /\ made' = made /\ crashes' = crashes
      BY <1>3, <1>a, <1>e DEF Confirm, TypeOK
    <2>4. CASE q = o
      <3>1. v = w
        BY <1>b, <2>1, <2>4
      <3>2. made[o] <= crashes[o] + 1
        BY <1>b, <1>c, <1>f, <2>1, <2>4, <3>1 DEF LoneCustomer
      <3>3. row.subscription = s /\ row.status = "CONFIRMED"
        <4>1. order[q] \in OrderRow
          BY <1>c, <2>4
        <4> HIDE DEF q, s
        <4> QED
          BY <4>1 DEF OrderRow
      <3> HIDE DEF q, s, row
      <3>4. order'[o].subscription # 0 /\ order'[o].status \notin Waiting
        BY <1>a, <2>1, <2>2, <2>4, <3>3 DEF TypeOK, Waiting, AwaitingCode
      <3>5. ~Busy(o, w)'
        BY <1>e, <2>3, <3>1 DEF Busy
      <3> QED
        BY <2>3, <3>2, <3>4, <3>5 DEF LoneCustomer
    <2>5. CASE q # o
      <3> HIDE DEF row
      <3>1. order'[o] = order[o] /\ made' = made /\ crashes' = crashes
        BY <1>a, <2>1, <2>2, <2>3, <2>5 DEF TypeOK
      <3>2. /\ Busy(o, w)' => Busy(o, w)
            /\ AboutToConfirm(o, w)' <=> AboutToConfirm(o, w)
        BY <1>e, <2>3, <2>5 DEF Busy, AboutToConfirm
      <3> QED
        BY <1>b, <3>1, <3>2, LoneFrame
    <2> QED
      BY <2>4, <2>5
  \* Staff move orders, to no status in which they wait for a code.
  <1>4. ASSUME NEW v \in Staff, NEW q \in Orders, MoveRead(v, q)
        PROVE  LoneCustomer(o, w)'
    <2>1. proc'[w] = proc[w] /\ order' = order /\ made' = made /\ crashes' = crashes
      BY <1>4, <1>a, <1>b, <1>e DEF MoveRead, TypeOK
    <2> QED
      BY <1>b, <2>1, LoneFrame DEF Busy, AboutToConfirm
  <1>5. ASSUME NEW v \in Staff, Move(v)
        PROVE  LoneCustomer(o, w)'
    <2> DEFINE q == proc[v].order
               to == proc[v].to
    <2>1. q \in Orders /\ to \in {"CANCELLED", "SCHEDULED", "INSTALLED"}
      BY <1>5, <1>d, <1>e, ProcKinds DEF Move, Moving
    <2>2. proc'[w] = proc[w] /\ made' = made /\ crashes' = crashes
      BY <1>5, <1>a, <1>b, <1>e DEF Move, TypeOK
    <2>3. order' = [order EXCEPT ![q] = [order[q] EXCEPT !.status = to]]
      BY <1>5, <1>a, <2>1 DEF Move, TypeOK
    <2> HIDE DEF q, to
    <2>4. /\ order'[o].subscription = order[o].subscription
          /\ order'[o].status \in Waiting => order[o].status \in Waiting
      <3>1. CASE q = o
        <4>1. /\ [order[o] EXCEPT !.status = to].subscription = order[o].subscription
              /\ [order[o] EXCEPT !.status = to].status = to
          BY <1>c DEF OrderRow
        <4> QED
          BY <1>a, <2>1, <2>3, <3>1, <4>1 DEF TypeOK, Waiting, AwaitingCode
      <3>2. CASE q # o
        BY <1>a, <2>1, <2>3, <3>2 DEF TypeOK
      <3> QED
        BY <3>1, <3>2
    <2> QED
      BY <1>b, <2>2, <2>4, LoneFrame DEF Busy, AboutToConfirm
  \* A confirmation that dies is counted.
  <1>6. ASSUME NEW v \in Procs, Abandon(v)
        PROVE  LoneCustomer(o, w)'
    <2>1. /\ \A u \in Procs \ {v} : proc'[u] = proc[u]
          /\ proc'[v].pc = "idle" /\ order' = order /\ made' = made
      BY <1>6, <1>a, <1>e DEF Abandon, TypeOK
    <2>2. CASE v = w /\ AboutToConfirm(o, w)
      <3>1. crashes'[o] = crashes[o] + 1
        BY <1>6, <1>a, <2>2 DEF Abandon, AboutToConfirm, TypeOK
      <3>2. order[o].subscription = 0 /\ made[o] <= crashes[o] + 1
        BY <1>b, <1>f, <2>2 DEF LoneCustomer, AboutToConfirm
      <3> QED
        BY <1>c, <2>1, <3>1, <3>2 DEF LoneCustomer
    <2>3. CASE ~(v = w /\ AboutToConfirm(o, w))
      <3>1. crashes'[o] = crashes[o]
        <4>1. CASE proc[v].pc = "confirm"
          <5>1. v \in tabs[proc[v].order] /\ proc[v].order \in Orders
            BY <1>d, <1>e, <4>1, ProcKinds DEF TypeInv, WorksOnOwn, CustomerPcs
          <5>2. proc[v].order # o
            BY <1>b, <2>3, <4>1, <5>1 DEF AboutToConfirm
          <5> QED
            BY <1>6, <1>a, <4>1, <5>1, <5>2 DEF Abandon, TypeOK
        <4>2. CASE proc[v].pc # "confirm"
          BY <1>6, <4>2 DEF Abandon
        <4> QED
          BY <4>1, <4>2
      <3>2. /\ Busy(o, w)' => Busy(o, w)
            /\ AboutToConfirm(o, w)' <=> AboutToConfirm(o, w)
        BY <1>e, <2>1, <2>3 DEF Busy, AboutToConfirm
      <3> QED
        BY <1>b, <2>1, <3>1, <3>2, LoneFrame
    <2> QED
      BY <2>2, <2>3
  <1>7. ASSUME NEW q \in Orders, CodeAges(q)
        PROVE  LoneCustomer(o, w)'
    <2>1. /\ order'[o].subscription = order[o].subscription
          /\ order'[o].status = order[o].status
      BY <1>7, <1>a, <1>c DEF CodeAges, TypeOK, OrderRow
    <2>2. proc' = proc /\ made' = made /\ crashes' = crashes
      BY <1>7 DEF CodeAges
    <2> QED
      BY <1>b, <2>1, <2>2, LoneFrame DEF Busy, AboutToConfirm
  <1>8. ASSUME (\E q \in Orders : WindowSlides(q)) \/ UNCHANGED vars
        PROVE  LoneCustomer(o, w)'
    <2>1. order' = order /\ proc' = proc /\ made' = made /\ crashes' = crashes
      BY <1>8 DEF WindowSlides, vars
    <2> QED
      BY <1>b, <2>1, LoneFrame DEF Busy, AboutToConfirm
  <1>9. ASSUME NEW v \in Browsers, CustomerStep(v)
        PROVE  LoneCustomer(o, w)'
    <2>1. CASE Subscribe(v) \/ Confirm(v)
      BY <1>2, <1>3, <2>1
    <2>2. CASE ~(Subscribe(v) \/ Confirm(v))
      <3>1. \E q \in Orders : KeepsSubscription(v, q)
        BY <1>9, <2>2, CustomerEffect DEF CustomerStep
      <3> QED
        BY <1>1, <3>1
    <2> QED
      BY <2>1, <2>2
  <1> QED
    BY <1>4, <1>5, <1>6, <1>7, <1>8, <1>9 DEF Next, StaffStep

\* A customer whose requests do not overlap gets one subscription per order, and
\* one more for each confirmation that died half way: staff who move the order
\* meanwhile, resends and late answers add none.
THEOREM LoneCustomerGetsOne == Spec => []OneSubscriptionUnlessCrashed
  <1>1. Init => LoneInv
    BY OrdersAssumption DEF Init, LoneInv, LoneCustomer, AboutToConfirm, Idle, NoSubscription
  <1>2. TypeInv /\ TypeInv' /\ LoneInv /\ [Next]_vars => LoneInv'
    BY LoneStep
  <1>3. TypeInv /\ LoneInv => OneSubscriptionUnlessCrashed
    <2> SUFFICES ASSUME TypeInv, LoneInv, NEW o \in Orders, Cardinality(tabs[o]) = 1
                 PROVE  made[o] <= 1 + crashes[o]
      BY DEF OneSubscriptionUnlessCrashed
    <2>1. tabs[o] \subseteq Browsers /\ IsFiniteSet(tabs[o])
      BY OrdersAssumption, FS_Subset DEF TypeInv, TypeOK
    <2>2. PICK w : tabs[o] = {w}
      BY <2>1, FS_Singleton
    <2>3. w \in Procs
      BY <2>1, <2>2 DEF Procs
    <2>4. made[o] \in Nat /\ crashes[o] \in Nat
      BY OrdersAssumption DEF TypeInv, TypeOK
    <2> QED
      BY <2>2, <2>3, <2>4 DEF LoneInv, LoneCustomer
  <1> QED
    BY <1>1, <1>2, <1>3, TypeCorrect, PTL DEF Spec

-----------------------------------------------------------------------------
(* The attempts on one code *)

\* The requests that were told the code is wrong and have not counted it yet.
Trying(o, k) ==
    {w \in Procs : /\ proc[w].pc = "miss"
                   /\ proc[w].order = o /\ proc[w].code = k}

\* The counter of the row covers the misses of the code in force, which starts
\* with none of either.  A request that found the counter below the limit shares
\* the last attempts with no more than the customer's other requests.
GuessInv ==
    /\ \A o \in Orders : \A k \in 1..MaxCodes : k > issued[o] => misses[o][k] = 0
    /\ \A o \in Orders : \A k \in 1..MaxCodes :
          order[o].code = k => misses[o][k] <= order[o].attempts
    /\ \A o \in Orders : \A k \in 1..MaxCodes :
          misses[o][k] + Cardinality(Trying(o, k)) < MaxAttempts + Cardinality(tabs[o])

LEMMA TabsCounted ==
    ASSUME TypeInv, NEW o \in Orders
    PROVE  IsFiniteSet(tabs[o]) /\ Cardinality(tabs[o]) \in Nat
  <1>1. tabs[o] \in SUBSET Browsers
    BY DEF TypeInv, TypeOK
  <1> QED
    BY <1>1, FS_Subset, FS_CardinalityType, OrdersAssumption

LEMMA TryingCounted ==
    ASSUME TypeInv, NEW o \in Orders, NEW k
    PROVE  /\ IsFiniteSet(Trying(o, k))
           /\ Cardinality(Trying(o, k)) \in Nat
           /\ Cardinality(Trying(o, k)) <= Cardinality(tabs[o])
  <1>1. Trying(o, k) \subseteq tabs[o]
    BY DEF TypeInv, WorksOnOwn, CustomerPcs, Trying
  <1> QED
    BY <1>1, TabsCounted, FS_Subset, FS_CardinalityType

\* A step that counts no miss and starts none keeps the bound.
LEMMA GuessFrame ==
    ASSUME TypeInv, GuessInv, UNCHANGED <<tabs, misses>>,
           \A v \in Procs : proc'[v] = proc[v] \/ proc'[v].pc # "miss",
           \A o \in Orders : issued'[o] \in Nat /\ issued[o] <= issued'[o],
           \A o \in Orders : \/ order'[o].code = NoCode
                             \/ /\ order'[o].code = order[o].code
                                /\ order'[o].attempts = order[o].attempts
                             \/ /\ order'[o].code > issued[o]
                                /\ order'[o].attempts \in Nat
    PROVE  GuessInv'
  <1>a. /\ tabs' = tabs /\ misses' = misses
        /\ \A o \in Orders : issued[o] \in Nat
        /\ \A o \in Orders : \A k \in 1..MaxCodes : misses[o][k] \in Nat
    BY OrdersAssumption DEF TypeInv, TypeOK
  <1>1. \A o \in Orders : \A k \in 1..MaxCodes : k > issued'[o] => misses'[o][k] = 0
    BY <1>a DEF GuessInv
  <1>2. \A o \in Orders : \A k \in 1..MaxCodes :
           order'[o].code = k => misses'[o][k] <= order'[o].attempts
    BY <1>a DEF GuessInv, NoCode
  <1>3. ASSUME NEW o \in Orders, NEW k \in 1..MaxCodes
        PROVE  misses'[o][k] + Cardinality(Trying(o, k)') < MaxAttempts + Cardinality(tabs'[o])
    <2>1. Trying(o, k)' \subseteq Trying(o, k)
      BY DEF Trying
    <2>2. /\ IsFiniteSet(Trying(o, k)) /\ Cardinality(Trying(o, k)) \in Nat
          /\ Cardinality(tabs[o]) \in Nat
      BY TryingCounted, TabsCounted
    <2> DEFINE new == Trying(o, k)'
    <2> HIDE DEF new
    <2>3. Cardinality(new) <= Cardinality(Trying(o, k)) /\ Cardinality(new) \in Nat
      BY <2>1, <2>2, FS_Subset, FS_CardinalityType DEF new
    <2>4. misses[o][k] + Cardinality(Trying(o, k)) < MaxAttempts + Cardinality(tabs[o])
      BY DEF GuessInv
    <2> QED
      BY <1>a, <2>2, <2>3, <2>4, OrdersAssumption DEF new
  <1> QED
    BY <1>1, <1>2, <1>3 DEF GuessInv

LEMMA GuessStep == TypeInv /\ TypeInv' /\ GuessInv /\ [Next]_vars => GuessInv'
  <1> SUFFICES ASSUME TypeInv, TypeInv', GuessInv, [Next]_vars
               PROVE  GuessInv'
    OBVIOUS
  <1>a. /\ TypeOK /\ TypeOK'
        /\ \A o \in Orders : issued[o] \in Nat
        /\ \A o \in Orders : issued'[o] \in Nat
        /\ \A o \in Orders : order[o] \in OrderRow
        /\ \A o \in Orders : order[o].attempts \in Nat
        /\ \A o \in Orders : \A k \in 1..MaxCodes : misses[o][k] \in Nat
    <2>1. TypeOK /\ TypeOK'
      BY DEF TypeInv
    <2>2. \A o \in Orders : issued[o] \in 0..MaxCodes /\ issued'[o] \in 0..MaxCodes
      BY <2>1 DEF TypeOK
    <2>3. /\ \A o \in Orders : issued[o] \in Nat
          /\ \A o \in Orders : issued'[o] \in Nat
      BY <2>2, OrdersAssumption
    <2>4. \A o \in Orders : order[o] \in OrderRow
      BY <2>1 DEF TypeOK
    <2>5. \A o \in Orders : order[o].attempts \in Nat
      BY <2>4 DEF OrderRow
    <2>6. \A o \in Orders : \A k \in 1..MaxCodes : misses[o][k] \in Nat
      BY <2>1 DEF TypeOK
    <2> QED
      BY <2>1, <2>3, <2>4, <2>5, <2>6
  <1>b. \A w \in Procs : proc[w] \in ProcState
    BY <1>a DEF TypeOK
  <1>c. ASSUME UNCHANGED <<tabs, misses, issued>>,
               \A v \in Procs : proc'[v] = proc[v] \/ proc'[v].pc # "miss",
               \A o \in Orders : \/ order'[o].code = NoCode
                                 \/ /\ order'[o].code = order[o].code
                                    /\ order'[o].attempts = order[o].attempts
        PROVE  GuessInv'
    <2>1. \A o \in Orders : issued'[o] \in Nat /\ issued[o] <= issued'[o]
      BY <1>a, <1>c
    <2> QED
      BY <1>c, <2>1, GuessFrame
  <1>1. ASSUME NEW w \in Browsers, NEW o \in Orders, Create(w, o)
        PROVE  GuessInv'
    <2>1. \A q \in Orders : /\ order'[q].code = order[q].code
                            /\ order'[q].attempts = order[q].attempts
      BY SMTT(30), <1>1, <1>a DEF Create, TypeOK, OrderRow
    <2>2. \A v \in Procs : proc'[v] = proc[v] \/ proc'[v].pc # "miss"
      BY <1>1, <1>a DEF Create, TypeOK
    <2>3. UNCHANGED <<tabs, misses, issued>>
      BY <1>1 DEF Create
    <2> QED
      BY <1>c, <2>1, <2>2, <2>3
  <1>2. ASSUME NEW w \in Browsers, NEW o \in Orders, ResendRead(w, o)
        PROVE  GuessInv'
    <2>1. \A v \in Procs : proc'[v] = proc[v] \/ proc'[v].pc # "miss"
      BY <1>2, <1>a DEF ResendRead, TypeOK
    <2>2. UNCHANGED <<tabs, misses, issued, order>>
      BY <1>2 DEF ResendRead
    <2> QED
      BY <1>c, <2>1, <2>2
  <1>3. ASSUME NEW w \in Browsers, NEW o \in Orders, VerifyRead(w, o)
        PROVE  GuessInv'
    <2>1. PICK step \in IF order[o].age = "past" \/ order[o].attempts >= MaxAttempts
                        THEN {[pc |-> "expire", order |-> o]}
                        ELSE {[pc |-> "subscribe", order |-> o],
                              [pc |-> "miss", order |-> o, code |-> order[o].code]} :
             proc' = [proc EXCEPT ![w] = step]
      BY <1>3 DEF VerifyRead
    <2>2. /\ UNCHANGED <<tabs, order, misses, issued>>
          /\ w \in Procs /\ w \in tabs[o]
      BY <1>3 DEF VerifyRead, Procs
    <2>3. CASE step.pc # "miss"
      <3>1. \A v \in Procs : proc'[v] = proc[v] \/ proc'[v].pc # "miss"
        BY <1>a, <2>1, <2>3 DEF TypeOK
      <3> QED
        BY <1>c, <2>2, <3>1
    <2>4. CASE step.pc = "miss"
      <3>1. /\ step.order = o /\ step.code = order[o].code
            /\ order[o].attempts < MaxAttempts
        BY <1>a, <2>1, <2>4, OrdersAssumption
      <3>2. /\ proc'[w] = step /\ \A v \in Procs \ {w} : proc'[v] = proc[v]
        BY <1>a, <2>1, <2>2 DEF TypeOK
      <3> SUFFICES ASSUME NEW q \in Orders, NEW k \in 1..MaxCodes
                   PROVE  misses'[q][k] + Cardinality(Trying(q, k)')
                             < MaxAttempts + Cardinality(tabs'[q])
        BY <2>2 DEF GuessInv
      <3>3. /\ Cardinality(tabs[q]) \in Nat
            /\ misses[q][k] + Cardinality(Trying(q, k))
                  < MaxAttempts + Cardinality(tabs[q])
        BY TabsCounted DEF GuessInv
      <3>4. CASE q = o /\ k = order[o].code
        <4>1. misses[q][k] <= order[o].attempts
          BY <3>4 DEF GuessInv
        <4>2. TypeInv' => /\ Cardinality(Trying(q, k)') \in Nat
                          /\ Cardinality(Trying(q, k)') <= Cardinality(tabs'[q])
          <5>1. Trying(q, k)' \subseteq tabs'[q] /\ tabs'[q] = tabs[q]
            BY <2>2 DEF TypeInv, WorksOnOwn, CustomerPcs, Trying
          <5> QED
            BY <5>1, TabsCounted, FS_Subset, FS_CardinalityType
        <4> QED
          BY <1>a, <2>2, <3>1, <3>3, <4>1, <4>2, OrdersAssumption
      <3>5. CASE ~(q = o /\ k = order[o].code)
        <4>1. Trying(q, k)' \subseteq Trying(q, k)
          BY <3>1, <3>2, <3>5 DEF Trying
        <4>2. IsFiniteSet(Trying(q, k)) /\ Cardinality(Trying(q, k)) \in Nat
          BY TryingCounted
        <4> DEFINE new == Trying(q, k)'
        <4> HIDE DEF new
        <4>3. Cardinality(new) <= Cardinality(Trying(q, k)) /\ Cardinality(new) \in Nat
          BY <4>1, <4>2, FS_Subset, FS_CardinalityType DEF new
        <4> QED
          BY <1>a, <2>2, <3>3, <4>2, <4>3, OrdersAssumption DEF new
      <3> QED
        BY <3>4, <3>5
    <2> QED
      BY <2>3, <2>4
  <1>4. ASSUME NEW w \in Browsers, ResendCheck(w)
        PROVE  GuessInv'
    <2>1. \A v \in Procs : proc'[v] = proc[v] \/ proc'[v].pc # "miss"
      BY <1>4, <1>a DEF ResendCheck, TypeOK
    <2>2. UNCHANGED <<tabs, misses, issued, order>>
      BY <1>4 DEF ResendCheck
    <2> QED
      BY <1>c, <2>1, <2>2
  <1>5. ASSUME NEW w \in Browsers, IssueOtp(w)
        PROVE  GuessInv'
    <2>1. w \in Procs /\ proc[w] \in OneOrder
      BY <1>5, <1>b, ProcKinds DEF IssueOtp, Procs
    <2> DEFINE o == proc[w].order
    <2>2. o \in Orders
      BY <2>1 DEF OneOrder
    <2>3. /\ UNCHANGED <<tabs, misses>>
          /\ issued' = [issued EXCEPT ![o] = @ + 1]
          /\ proc' = [proc EXCEPT ![w].pc = "email"]
          /\ order' = [order EXCEPT ![o].status = "PENDING_OTP",
                                    ![o].code = issued[o] + 1,
                                    ![o].age = "fresh", ![o].attempts = 0]
      BY <1>5 DEF IssueOtp
    <2>4. \A v \in Procs : proc'[v] = proc[v] \/ proc'[v].pc # "miss"
      BY <1>a, <2>1, <2>3 DEF TypeOK, OneOrder
    <2>5. \A q \in Orders : issued'[q] \in Nat /\ issued[q] <= issued'[q]
      BY SMTT(30), <1>a, <2>2, <2>3 DEF TypeOK
    <2>6. /\ order'[o].code = issued[o] + 1 /\ order'[o].attempts = 0
          /\ \A q \in Orders \ {o} : order'[q] = order[q]
      <3> HIDE DEF o
      <3> QED
        BY <1>a, <2>2, <2>3 DEF TypeOK, OrderRow
    <2>7. ASSUME NEW q \in Orders
          PROVE  \/ order'[q].code = NoCode
                 \/ /\ order'[q].code = order[q].code
                    /\ order'[q].attempts = order[q].attempts
                 \/ /\ order'[q].code > issued[q]
                    /\ order'[q].attempts \in Nat
      BY <1>a, <2>2, <2>6
    <2> QED
      BY <2>3, <2>4, <2>5, <2>7, GuessFrame
  <1>6. ASSUME NEW w \in Browsers, LogEmail(w)
        PROVE  GuessInv'
    <2>1. \A v \in Procs : proc'[v] = proc[v] \/ proc'[v].pc # "miss"
      BY <1>6, <1>a DEF LogEmail, TypeOK, Idle
    <2>2. UNCHANGED <<tabs, misses, issued, order>>
      BY <1>6 DEF LogEmail
    <2> QED
      BY <1>c, <2>1, <2>2
  <1>7. ASSUME NEW w \in Browsers, Expire(w)
        PROVE  GuessInv'
    <2>1. \A q \in Orders : /\ order'[q].code = order[q].code
                            /\ order'[q].attempts = order[q].attempts
      <3>1. /\ proc[w].order \in Orders
            /\ order' = [order EXCEPT ![proc[w].order].status = "EXPIRED"]
        BY <1>7, <1>b, ProcKinds DEF Expire, OneOrder, Procs
      <3> DEFINE o == proc[w].order
                 st == "EXPIRED"
      <3> HIDE DEF o, st
      <3>2. o \in Orders /\ order' = [order EXCEPT ![o].status = st]
        BY <3>1 DEF o, st
      <3>3. \A q \in Orders : order'[q] = IF q = o THEN [order[o] EXCEPT !.status = st]
                                          ELSE order[q]
        BY <1>a, <3>2 DEF TypeOK
      <3>4. \A q \in Orders : /\ [order[q] EXCEPT !.status = st].code = order[q].code
                              /\ [order[q] EXCEPT !.status = st].attempts
                                    = order[q].attempts
        BY <1>a DEF OrderRow
      <3> QED
        BY <3>3, <3>4
    <2>2. \A v \in Procs : proc'[v] = proc[v] \/ proc'[v].pc # "miss"
      BY <1>7, <1>a DEF Expire, TypeOK, Idle
    <2>3. UNCHANGED <<tabs, misses, issued>>
      BY <1>7 DEF Expire
    <2> QED
      BY <1>c, <2>1, <2>2, <2>3
  <1>8. ASSUME NEW w \in Browsers, Miss(w)
        PROVE  GuessInv'
    <2>1. w \in Procs /\ proc[w] \in Missing
      BY <1>8, <1>b, ProcKinds DEF Miss, Procs
    <2> DEFINE o == proc[w].order
               j == proc[w].code
    <2>2. o \in Orders /\ j \in Nat \ {0} /\ j <= issued[o] /\ j \in 1..MaxCodes
      <3>1. o \in Orders /\ j \in Nat \ {0}
        BY <2>1 DEF Missing
      <3>2. j <= issued[o] /\ issued[o] \in 0..MaxCodes
        BY <1>8, <2>1, <3>1 DEF Miss, TypeInv, TypeOK, CodesIssued
      <3> QED
        BY <3>1, <3>2, OrdersAssumption
    <2>3. /\ UNCHANGED <<tabs, issued>>
          /\ proc' = [proc EXCEPT ![w] = Idle]
          /\ order' = [order EXCEPT ![o].attempts = @ + 1]
          /\ misses' = [misses EXCEPT ![o][j] = @ + 1]
          /\ proc[w].pc = "miss"
      BY <1>8 DEF Miss
    <2>4. /\ \A q \in Orders : order'[q].code = order[q].code
          /\ \A q \in Orders :
                order'[q].attempts = IF q = o THEN order[q].attempts + 1
                                     ELSE order[q].attempts
          /\ \A q \in Orders : \A k \in 1..MaxCodes :
                misses'[q][k] = IF q = o /\ k = j THEN misses[q][k] + 1 ELSE misses[q][k]
      <3> HIDE DEF o, j
      <3>1. \A q \in Orders : order'[q] = IF q = o
                                          THEN [order[o] EXCEPT !.attempts = @ + 1]
                                          ELSE order[q]
        BY <1>a, <2>2, <2>3 DEF TypeOK
      <3>2. /\ [order[o] EXCEPT !.attempts = @ + 1].code = order[o].code
            /\ [order[o] EXCEPT !.attempts = @ + 1].attempts = order[o].attempts + 1
        BY <1>a, <2>2 DEF OrderRow
      <3>3. \A q \in Orders : \A k \in 1..MaxCodes :
               misses'[q][k] = IF q = o /\ k = j THEN misses[q][k] + 1 ELSE misses[q][k]
        BY <1>a, <2>2, <2>3 DEF TypeOK
      <3>4. \A q \in Orders : /\ order'[q].code = order[q].code
                              /\ order'[q].attempts = IF q = o THEN order[q].attempts + 1
                                                      ELSE order[q].attempts
        BY <3>1, <3>2
      <3> QED
        BY <3>3, <3>4
    <2>5. \A q \in Orders : \A k \in 1..MaxCodes : k > issued'[q] => misses'[q][k] = 0
      BY <1>a, <2>2, <2>3, <2>4 DEF GuessInv
    <2>6. \A q \in Orders : \A k \in 1..MaxCodes :
             order'[q].code = k => misses'[q][k] <= order'[q].attempts
      <3>1. ASSUME NEW q \in Orders, NEW k \in 1..MaxCodes, order'[q].code = k
            PROVE  misses'[q][k] <= order'[q].attempts
        <4>1. misses[q][k] <= order[q].attempts
          BY <2>4, <3>1 DEF GuessInv
        <4> QED
          BY <1>a, <2>4, <4>1
      <3> QED
        BY <3>1
    <2>7. ASSUME NEW q \in Orders, NEW k \in 1..MaxCodes
          PROVE  misses'[q][k] + Cardinality(Trying(q, k)')
                    < MaxAttempts + Cardinality(tabs'[q])
      <3>1. /\ IsFiniteSet(Trying(q, k)) /\ Cardinality(Trying(q, k)) \in Nat
            /\ Cardinality(tabs[q]) \in Nat
            /\ misses[q][k] + Cardinality(Trying(q, k))
                  < MaxAttempts + Cardinality(tabs[q])
        BY TryingCounted, TabsCounted DEF GuessInv
      <3>2. Trying(q, k)' = Trying(q, k) \ {w}
        BY <1>a, <2>1, <2>3 DEF Trying, TypeOK, Idle
      <3>3. w \in Trying(q, k) <=> (q = o /\ k = j)
        BY <2>1, <2>3 DEF Trying
      <3> DEFINE new == Trying(q, k)'
      <3> HIDE DEF new
      <3>4. Cardinality(new) = IF q = o /\ k = j THEN Cardinality(Trying(q, k)) - 1
                               ELSE Cardinality(Trying(q, k))
        BY <3>1, <3>2, <3>3, FS_RemoveElement DEF new
      <3> QED
        BY <1>a, <2>3, <2>4, <3>1, <3>4, OrdersAssumption DEF new
    <2> QED
      BY <2>5, <2>6, <2>7 DEF GuessInv
  <1>9. ASSUME NEW w \in Browsers, Subscribe(w)
        PROVE  GuessInv'
    <2>1. \A v \in Procs : proc'[v] = proc[v] \/ proc'[v].pc # "miss"
      BY <1>9, <1>a DEF Subscribe, TypeOK
    <2>2. UNCHANGED <<tabs, misses, issued, order>>
      BY <1>9 DEF Subscribe
    <2> QED
      BY <1>c, <2>1, <2>2
  <1>10. ASSUME NEW w \in Browsers, Confirm(w)
         PROVE  GuessInv'
    <2>1. w \in Procs /\ proc[w] \in Confirming
      BY <1>10, <1>b, ProcKinds DEF Confirm, Procs
    <2>2. proc[w].order \in Orders
      BY <2>1 DEF Confirming
    <2>3. /\ order'[proc[w].order].code = NoCode
          /\ \A q \in Orders \ {proc[w].order} : order'[q] = order[q]
      BY <1>10, <1>a, <2>2 DEF Confirm, TypeOK, OrderRow
    <2>4. \A v \in Procs : proc'[v] = proc[v] \/ proc'[v].pc # "miss"
      BY <1>10, <1>a DEF Confirm, TypeOK, Idle
    <2>5. UNCHANGED <<tabs, misses, issued>>
      BY <1>10 DEF Confirm
    <2> QED
      BY <1>c, <2>3, <2>4, <2>5
  <1>11. ASSUME NEW w \in Staff, NEW o \in Orders, MoveRead(w, o)
         PROVE  GuessInv'
    <2>1. \A v \in Procs : proc'[v] = proc[v] \/ proc'[v].pc # "miss"
      BY <1>11, <1>a DEF MoveRead, TypeOK
    <2>2. UNCHANGED <<tabs, misses, issued, order>>
      BY <1>11 DEF MoveRead
    <2> QED
      BY <1>c, <2>1, <2>2
  <1>12. ASSUME NEW w \in Staff, Move(w)
         PROVE  GuessInv'
    <2>1. \A q \in Orders : /\ order'[q].code = order[q].code
                            /\ order'[q].attempts = order[q].attempts
      <3>1. /\ proc[w].order \in Orders
            /\ order' = [order EXCEPT ![proc[w].order].status = proc[w].to]
        BY <1>12, <1>b, ProcKinds DEF Move, Moving, Procs
      <3> DEFINE o == proc[w].order
                 st == proc[w].to
      <3> HIDE DEF o, st
      <3>2. o \in Orders /\ order' = [order EXCEPT ![o].status = st]
        BY <3>1 DEF o, st
      <3>3. \A q \in Orders : order'[q] = IF q = o THEN [order[o] EXCEPT !.status = st]
                                          ELSE order[q]
        BY <1>a, <3>2 DEF TypeOK
      <3>4. \A q \in Orders : /\ [order[q] EXCEPT !.status = st].code = order[q].code
                              /\ [order[q] EXCEPT !.status = st].attempts
                                    = order[q].attempts
        BY <1>a DEF OrderRow
      <3> QED
        BY <3>3, <3>4
    <2>2. \A v \in Procs : proc'[v] = proc[v] \/ proc'[v].pc # "miss"
      BY <1>12, <1>a DEF Move, TypeOK, Idle
    <2>3. UNCHANGED <<tabs, misses, issued>>
      BY <1>12 DEF Move
    <2> QED
      BY <1>c, <2>1, <2>2, <2>3
  <1>13. ASSUME NEW w \in Procs, Abandon(w)
         PROVE  GuessInv'
    <2>1. \A v \in Procs : proc'[v] = proc[v] \/ proc'[v].pc # "miss"
      BY <1>13, <1>a DEF Abandon, TypeOK, Idle
    <2>2. UNCHANGED <<tabs, misses, issued, order>>
      BY <1>13 DEF Abandon
    <2> QED
      BY <1>c, <2>1, <2>2
  <1>14. ASSUME NEW o \in Orders, CodeAges(o)
         PROVE  GuessInv'
    <2>1. \A q \in Orders : /\ order'[q].code = order[q].code
                            /\ order'[q].attempts = order[q].attempts
      BY SMTT(30), <1>14, <1>a DEF CodeAges, TypeOK, OrderRow
    <2> QED
      BY <1>14, <1>a, <2>1, GuessFrame DEF CodeAges
  <1>15. ASSUME NEW o \in Orders, WindowSlides(o)
         PROVE  GuessInv'
    BY <1>15, <1>a, GuessFrame DEF WindowSlides
  <1>16. CASE UNCHANGED vars
    BY <1>16, <1>a, GuessFrame DEF vars
  <1> QED
    BY <1>1, <1>2, <1>3, <1>4, <1>5, <1>6, <1>7, <1>8, <1>9, <1>10, <1>11, <1>12,
       <1>13, <1>14, <1>15, <1>16 DEF Next, CustomerStep, StaffStep

LEMMA InitGuessInv == Init => GuessInv
  <1> SUFFICES ASSUME Init PROVE GuessInv
    OBVIOUS
  <1>1. ASSUME NEW o \in Orders, NEW k \in 1..MaxCodes
        PROVE  misses[o][k] + Cardinality(Trying(o, k)) < MaxAttempts + Cardinality(tabs[o])
    <2>1. Trying(o, k) = {}
      BY DEF Init, Trying, Idle
    <2>2. Cardinality(Trying(o, k)) = 0
      BY <2>1, FS_EmptySet
    <2>3. Cardinality(tabs[o]) \in Nat /\ misses[o][k] = 0
      BY InitTypeInv, TabsCounted DEF Init
    <2> QED
      BY <2>2, <2>3, OrdersAssumption
  <1>2. \A o \in Orders : \A k \in 1..MaxCodes : misses[o][k] = 0 /\ order[o].code # k
    BY DEF Init, NoCode
  <1> QED
    BY <1>1, <1>2 DEF GuessInv

\* A code is tried no more than MaxAttempts times and by the requests that overlap
\* the last try, however the order's codes are replaced, expired and answered: the
\* counter is reset only for a new code, and by a write that every miss precedes
\* or follows.
THEOREM OrderGuessesBounded == Spec => []GuessesBounded
  <1>1. TypeInv /\ GuessInv => GuessesBounded
    <2> SUFFICES ASSUME TypeInv, GuessInv, NEW o \in Orders, NEW k \in 1..MaxCodes
                 PROVE  misses[o][k] < MaxAttempts + Cardinality(tabs[o])
      BY DEF GuessesBounded
    <2>1. /\ misses[o][k] \in Nat /\ Cardinality(Trying(o, k)) \in Nat
          /\ Cardinality(tabs[o]) \in Nat
      BY TryingCounted, TabsCounted DEF TypeInv, TypeOK
    <2> QED
      BY <2>1, OrdersAssumption DEF GuessInv
  <1> QED
    BY <1>1, InitGuessInv, GuessStep, TypeCorrect, PTL DEF Spec
=============================================================================
