-------------------------- MODULE BillingCycleProofs --------------------------
(***************************************************************************)
(* Theorems about BillingCycle, for every set of runs, requests and        *)
(* subscriptions, every horizon and every number of faults.                *)
(***************************************************************************)
EXTENDS BillingCycle, TLAPS

\* The program counter of a process tells which record it holds.
LEMMA ProcKinds ==
    ASSUME NEW q \in ProcState
    PROVE  /\ q.pc = "run" => q \in Running
           /\ q.pc \in {"create", "advance"} => q \in Billing
           /\ q.pc = "activate" => q \in Activating
           /\ q.pc = "transition" => q \in Transiting
  BY DEF ProcState, Idle, Running, Billing, Activating, Transiting

\* The rows a process still holds: those to come and the one it is billing.
Held(q) ==
    (IF q.pc \in {"run", "create", "advance"} THEN q.todo ELSE {})
    \cup (IF q.pc \in {"create", "advance"} THEN {q.bill} ELSE {})

\* A process that drops its current row holds what was left, and nothing new.
LEMMA RestKeepsRows ==
    ASSUME NEW todo \in SUBSET DueRow
    PROVE  /\ Rest(todo) \in ProcState
           /\ Held(Rest(todo)) = todo
           /\ Rest(todo).pc \in {"idle", "run"}
  BY DEF Rest, ProcState, Running, Idle, Held

\* The dates in use never leave the calendar the counters are kept for.
DatesInRange ==
    /\ \A s \in Subs : sub[s].nextBilling \in 1..Horizon => sub[s].periodEnd <= Horizon
    /\ \A w \in Procs : \A d \in Held(proc[w]) : d.period <= Horizon + 1

TypeInv == TypeOK /\ DatesInRange

\* One step of a process: it keeps the rows it held, or takes up due ones.
LEMMA ProcStep ==
    ASSUME TypeOK, DatesInRange, NEW w \in Procs, NEW next \in ProcState,
           proc' = [proc EXCEPT ![w] = next],
           \A d \in Held(next) : d.period <= Horizon + 1
    PROVE  /\ proc' \in [Procs -> ProcState]
           /\ \A v \in Procs : \A d \in Held(proc'[v]) : d.period <= Horizon + 1
  <1>1. \A v \in Procs : proc'[v] = IF v = w THEN next ELSE proc[v]
    BY DEF TypeOK
  <1> QED
    BY <1>1 DEF TypeOK, DatesInRange

LEMMA InitTypeInv == Init => TypeInv
  BY BillingAssumption
     DEF Init, TypeInv, TypeOK, DatesInRange, SubRow, Statuses, NoDate, ProcState,
         Idle, Held

\* A row that is due leads to a period within the calendar.
LEMMA DueInRange ==
    ASSUME TypeInv, NEW s \in Subs, IsDue(s)
    PROVE  PeriodAfter(s) \in 1..(Horizon + 1)
  <1>1. sub[s] \in SubRow /\ month \in 1..Horizon
    BY DEF TypeInv, TypeOK
  <1>2. sub[s].nextBilling \in 1..Horizon
    BY <1>1, BillingAssumption DEF IsDue, SubRow, NoDate
  <1>3. sub[s].periodEnd \in Nat /\ sub[s].periodEnd <= Horizon
    BY <1>1, <1>2 DEF TypeInv, DatesInRange, SubRow
  <1> QED
    BY <1>1, <1>3, BillingAssumption DEF PeriodAfter, NoDate

\* Whatever page a run gets, its rows are due.
LEMMA PageIsDue ==
    ASSUME NEW page \in Pages, NEW s \in page
    PROVE  s \in Subs /\ IsDue(s)
  BY DEF Pages, kSubset, Due

\* A write to one subscription row, the only kind SubscriptionsService makes.
LEMMA SubStep ==
    ASSUME TypeInv, NEW s \in Subs, NEW row \in SubRow,
           row.nextBilling \in 1..Horizon => row.periodEnd <= Horizon,
           sub' = [sub EXCEPT ![s] = row]
    PROVE  /\ sub' \in [Subs -> SubRow]
           /\ \A t \in Subs : sub'[t].nextBilling \in 1..Horizon
                                 => sub'[t].periodEnd <= Horizon
  <1>1. \A t \in Subs : sub'[t] = IF t = s THEN row ELSE sub[t]
    BY DEF TypeInv, TypeOK
  <1> QED
    BY <1>1 DEF TypeInv, TypeOK, DatesInRange

\* The rows the writers make: the dates of a period that was billed, and a
\* status with or without a next billing date.
LEMMA AdvancedRow ==
    ASSUME NEW row \in SubRow, NEW end \in Nat, NEW next \in Nat
    PROVE  [row EXCEPT !.periodEnd = end, !.nextBilling = next] \in SubRow
  BY DEF SubRow

LEMMA TransitedRow ==
    ASSUME NEW row \in SubRow, NEW to \in Statuses, NEW next \in Nat
    PROVE  [row EXCEPT !.status = to, !.nextBilling = next] \in SubRow
  BY DEF SubRow

LEMMA TypeInvStep == TypeInv /\ [Next]_vars => TypeInv'
  <1> SUFFICES ASSUME TypeInv, [Next]_vars PROVE TypeInv'
    OBVIOUS
  <1> USE BillingAssumption
  <1>a. TypeOK /\ DatesInRange
    BY DEF TypeInv
  <1>b. \A w \in Procs : proc[w] \in ProcState
    BY <1>a DEF TypeOK
  <1>c. Runs \subseteq Procs /\ Requests \subseteq Procs
    BY DEF Procs
  <1>1. ASSUME NEW w \in Runs, RunRead(w)
        PROVE  TypeInv'
    <2> DEFINE Lines(page) == {[sub |-> s, period |-> PeriodAfter(s)] : s \in page}
    <2>0. PICK page \in Pages : proc' = [proc EXCEPT ![w] =
                                            [pc |-> "run", todo |-> Lines(page)]]
      BY <1>1 DEF RunRead
    <2> DEFINE due == Lines(page)
               next == [pc |-> "run", todo |-> due]
    <2>1. \A d \in due : d \in DueRow /\ d.period <= Horizon + 1
      BY PageIsDue, DueInRange DEF DueRow
    <2> HIDE DEF due
    <2>2. next \in ProcState /\ Held(next) = due
      BY <2>1 DEF ProcState, Running, Held
    <2>3. proc' = [proc EXCEPT ![w] = next]
      BY <2>0 DEF due
    <2> HIDE DEF next
    <2> QED
      BY <1>1, <1>a, <1>c, <2>1, <2>2, <2>3, ProcStep
         DEF RunRead, TypeInv, TypeOK, DatesInRange
  <1>2. ASSUME NEW w \in Runs, NEW d \in proc[w].todo, GenerateRead(w, d)
        PROVE  TypeInv'
    <2>1. proc[w] \in Running
      BY <1>2, <1>b, <1>c, ProcKinds DEF GenerateRead
    <2> DEFINE rest == proc[w].todo \ {d}
    <2>2. /\ rest \in SUBSET DueRow /\ d \in DueRow
          /\ \A e \in rest \cup {d} : e.period <= Horizon + 1
      BY <1>a, <1>c, <2>1 DEF Running, DatesInRange, Held
    <2>3. PICK next \in {[pc |-> "advance", todo |-> rest, bill |-> d], Rest(rest),
                         [pc |-> "create", todo |-> rest, bill |-> d]} :
             proc' = [proc EXCEPT ![w] = next]
      BY <1>2 DEF GenerateRead
    <2> HIDE DEF rest
    <2>4. next \in ProcState /\ Held(next) \subseteq rest \cup {d}
      BY <2>2, <2>3, RestKeepsRows DEF ProcState, Billing, Held
    <2> QED
      BY <1>2, <1>a, <1>c, <2>2, <2>3, <2>4, ProcStep
         DEF GenerateRead, TypeInv, TypeOK, DatesInRange
  <1>3. ASSUME NEW w \in Runs, GenerateCreate(w)
        PROVE  TypeInv'
    <2>1. proc[w] \in Billing
      BY <1>3, <1>b, <1>c, ProcKinds DEF GenerateCreate
    <2> DEFINE d == proc[w].bill
               n == counter[d.period] + 1
    <2>2. /\ proc[w].todo \in SUBSET DueRow /\ d \in DueRow
          /\ \A e \in proc[w].todo \cup {d} : e.period <= Horizon + 1
      BY <1>3, <1>a, <1>c, <2>1 DEF Billing, DatesInRange, Held, GenerateCreate
    <2>3. CASE Invoiced(d.sub, d.period)
      <3>1. proc' = [proc EXCEPT ![w] = Rest(proc[w].todo)]
        BY <1>3, <2>3 DEF GenerateCreate
      <3> QED
        BY <1>3, <1>a, <1>c, <2>2, <2>3, <3>1, ProcStep, RestKeepsRows
           DEF GenerateCreate, TypeInv, TypeOK, DatesInRange
    <2>4. CASE ~Invoiced(d.sub, d.period)
      <3>1. d.period \in 1..(Horizon + 1) /\ d.sub \in Subs /\ n \in Nat \ {0}
        BY <1>a, <2>2 DEF DueRow, TypeOK
      <3> HIDE DEF n
      <3>2. invoices' \subseteq InvoiceRow
        BY <1>3, <1>a, <2>4, <3>1 DEF GenerateCreate, TypeOK, InvoiceRow, n
      <3>3. counter' \in [1..(Horizon + 1) -> Nat]
        BY <1>3, <1>a, <2>4, <3>1 DEF GenerateCreate, TypeOK, n
      <3> DEFINE next == [proc[w] EXCEPT !.pc = "advance"]
      <3>4. next \in ProcState /\ Held(next) = proc[w].todo \cup {d}
        BY <2>1 DEF ProcState, Billing, Held
      <3>5. proc' = [proc EXCEPT ![w] = next]
        BY <1>3, <1>a, <1>c, <2>4 DEF GenerateCreate, TypeOK
      <3> HIDE DEF next
      <3> QED
        BY <1>3, <1>a, <1>c, <2>2, <3>2, <3>3, <3>4, <3>5, ProcStep
           DEF GenerateCreate, TypeInv, TypeOK, DatesInRange
    <2> QED
      BY <2>3, <2>4
  <1>4. ASSUME NEW w \in Runs, Advance(w)
        PROVE  TypeInv'
    <2>1. proc[w] \in Billing
      BY <1>4, <1>b, <1>c, ProcKinds DEF Advance
    <2> DEFINE d == proc[w].bill
               row == [sub[d.sub] EXCEPT !.periodEnd = d.period,
                                         !.nextBilling = d.period + 1]
    <2>2. /\ proc[w].todo \in SUBSET DueRow /\ d \in DueRow
          /\ \A e \in proc[w].todo : e.period <= Horizon + 1
      BY <1>4, <1>a, <1>c, <2>1 DEF Billing, DatesInRange, Held, Advance
    <2>a. d.sub \in Subs /\ d.period \in Nat
      BY <2>2 DEF DueRow
    <2>b. sub[d.sub] \in SubRow
      BY <1>a, <2>a DEF TypeOK
    <2>c. row \in SubRow
      <3>1. d.period + 1 \in Nat
        BY <2>a
      <3> QED
        BY <2>a, <2>b, <3>1, AdvancedRow
    <2>3. row \in SubRow /\ row.periodEnd = d.period /\ row.nextBilling = d.period + 1
      BY <2>b, <2>c DEF SubRow
    <2>4. sub' = [sub EXCEPT ![d.sub] = row]
      BY <1>4, <1>a, <2>2 DEF Advance, TypeOK, DueRow
    <2>5. row.nextBilling \in 1..Horizon => row.periodEnd <= Horizon
      BY <2>2, <2>3 DEF DueRow
    <2> HIDE DEF row
    <2>6. proc' = [proc EXCEPT ![w] = Rest(proc[w].todo)]
      BY <1>4 DEF Advance
    <2>7. /\ sub' \in [Subs -> SubRow]
          /\ \A t \in Subs : sub'[t].nextBilling \in 1..Horizon
                                => sub'[t].periodEnd <= Horizon
      BY <2>2, <2>3, <2>4, <2>5, SubStep DEF DueRow
    <2>8. /\ proc' \in [Procs -> ProcState]
          /\ \A v \in Procs : \A e \in Held(proc'[v]) : e.period <= Horizon + 1
      <3> DEFINE next == Rest(proc[w].todo)
      <3>1. next \in ProcState /\ \A e \in Held(next) : e.period <= Horizon + 1
        BY <2>2, RestKeepsRows
      <3> HIDE DEF next
      <3>2. proc' = [proc EXCEPT ![w] = next]
        BY <2>6 DEF next
      <3> QED
        BY <1>a, <1>c, <3>1, <3>2, ProcStep
    <2> QED
      BY <1>4, <1>a, <2>7, <2>8 DEF Advance, TypeInv, TypeOK, DatesInRange
  <1>5. ASSUME NEW w \in Runs, Skip(w)
        PROVE  TypeInv'
    <2>1. proc[w] \in Billing
      BY <1>5, <1>b, <1>c, ProcKinds DEF Skip
    <2>2. /\ proc[w].todo \in SUBSET DueRow
          /\ \A e \in proc[w].todo : e.period <= Horizon + 1
      BY <1>5, <1>a, <1>c, <2>1 DEF Billing, DatesInRange, Held, Skip
    <2>3. proc' = [proc EXCEPT ![w] = Rest(proc[w].todo)]
      BY <1>5 DEF Skip
    <2>4. faults' \in 0..MaxFaults
      BY <1>5, <1>a DEF Skip, TypeOK
    <2> QED
      BY <1>5, <1>a, <1>c, <2>2, <2>3, <2>4, ProcStep, RestKeepsRows
         DEF Skip, TypeInv, TypeOK, DatesInRange
  <1>6. ASSUME NEW w \in Requests, NEW s \in Subs, ActivateRead(w, s)
        PROVE  TypeInv'
    <2> DEFINE next == [pc |-> "activate", sub |-> s]
    <2>1. next \in ProcState /\ Held(next) = {}
      BY DEF ProcState, Activating, Held
    <2> QED
      BY <1>6, <1>a, <1>c, <2>1, ProcStep
         DEF ActivateRead, TypeInv, TypeOK, DatesInRange
  <1>7. ASSUME NEW w \in Requests, ActivateCommit(w)
        PROVE  TypeInv'
    <2> DEFINE s == proc[w].sub
               row == [status |-> "ACTIVE", startedAt |-> month,
                       periodEnd |-> month, nextBilling |-> month + 1]
    <2>1. s \in Subs
      BY <1>7, <1>b, <1>c, ProcKinds DEF ActivateCommit, Activating
    <2>2. row \in SubRow /\ (row.nextBilling \in 1..Horizon => row.periodEnd <= Horizon)
      BY <1>a DEF TypeOK, SubRow, Statuses
    <2>3. sub' = [sub EXCEPT ![s] = row]
      BY <1>7 DEF ActivateCommit
    <2> HIDE DEF row
    <2>4. /\ sub' \in [Subs -> SubRow]
          /\ \A t \in Subs : sub'[t].nextBilling \in 1..Horizon
                                => sub'[t].periodEnd <= Horizon
      BY <2>1, <2>2, <2>3, SubStep
    <2>5. Idle \in ProcState /\ Held(Idle) = {}
      BY DEF ProcState, Idle, Held
    <2> QED
      BY <1>7, <1>a, <1>c, <2>4, <2>5, ProcStep
         DEF ActivateCommit, TypeInv, TypeOK, DatesInRange
  <1>8. ASSUME NEW w \in Requests, NEW s \in Subs,
               NEW to \in {"ACTIVE", "SUSPENDED", "CANCELLED"}, TransitionRead(w, s, to)
        PROVE  TypeInv'
    <2> DEFINE next == [pc |-> "transition", sub |-> s, to |-> to]
    <2>1. next \in ProcState /\ Held(next) = {}
      BY DEF ProcState, Transiting, Statuses, Held
    <2> QED
      BY <1>8, <1>a, <1>c, <2>1, ProcStep
         DEF TransitionRead, TypeInv, TypeOK, DatesInRange
  <1>9. ASSUME NEW w \in Requests, TransitionCommit(w)
        PROVE  TypeInv'
    <2> DEFINE s == proc[w].sub
               to == proc[w].to
               next == IF to = "CANCELLED" THEN NoDate ELSE sub[s].nextBilling
               row == [sub[s] EXCEPT !.status = to, !.nextBilling = next]
    <2>1. s \in Subs /\ to \in Statuses
      BY <1>9, <1>b, <1>c, ProcKinds DEF TransitionCommit, Transiting
    <2>a. sub[s] \in SubRow /\ next \in Nat /\ (next = sub[s].nextBilling \/ next = 0)
      BY <1>a, <2>1 DEF TypeOK, SubRow, NoDate
    <2> HIDE DEF next
    <2>b. row \in SubRow
      BY <2>1, <2>a, TransitedRow
    <2>c. row.nextBilling = next /\ row.periodEnd = sub[s].periodEnd
      BY <2>a DEF SubRow
    <2>2. row \in SubRow /\ (row.nextBilling \in 1..Horizon => row.periodEnd <= Horizon)
      BY <1>a, <2>1, <2>a, <2>b, <2>c DEF DatesInRange
    <2>3. sub' = [sub EXCEPT ![s] = row]
      BY <1>9, <1>a, <2>1 DEF TransitionCommit, TypeOK, next
    <2> HIDE DEF row
    <2>4. /\ sub' \in [Subs -> SubRow]
          /\ \A t \in Subs : sub'[t].nextBilling \in 1..Horizon
                                => sub'[t].periodEnd <= Horizon
      BY <2>1, <2>2, <2>3, SubStep
    <2>5. Idle \in ProcState /\ Held(Idle) = {}
      BY DEF ProcState, Idle, Held
    <2> QED
      BY <1>9, <1>a, <1>c, <2>4, <2>5, ProcStep
         DEF TransitionCommit, TypeInv, TypeOK, DatesInRange
  <1>10. ASSUME NEW w \in Procs, Die(w)
         PROVE  TypeInv'
    <2>1. Idle \in ProcState /\ Held(Idle) = {}
      BY DEF ProcState, Idle, Held
    <2>2. faults' \in 0..MaxFaults
      BY <1>10, <1>a DEF Die, TypeOK
    <2> QED
      BY <1>10, <1>a, <2>1, <2>2, ProcStep DEF Die, TypeInv, TypeOK, DatesInRange
  <1>11. ASSUME NEW s \in Subs, StaffUpdate(s)
         PROVE  TypeInv'
    <2>1. PICK status \in {sub[s].status} \cup StaffStatuses,
               start \in {sub[s].startedAt} \cup StaffMonths,
               end \in {sub[s].periodEnd} \cup StaffMonths,
               next \in {sub[s].nextBilling} \cup StaffMonths :
                   AdminUpdate(s, status, start, end, next)
      BY <1>11 DEF StaffUpdate
    <2> DEFINE row == [status |-> status, startedAt |-> start,
                       periodEnd |-> end, nextBilling |-> next]
    <2>a. /\ status \in Statuses /\ start \in Nat /\ end \in Nat /\ next \in Nat
          /\ next \in 1..Horizon => end <= Horizon
      <3>1. /\ sub[s].status \in Statuses /\ sub[s].startedAt \in Nat
            /\ sub[s].periodEnd \in Nat /\ sub[s].nextBilling \in Nat
        BY <1>a DEF TypeOK, SubRow
      <3>2. StaffStatuses \subseteq Statuses /\ StaffMonths \subseteq Nat
        BY DEF Statuses
      <3>3. next \in 1..Horizon => end <= Horizon
        BY <2>1 DEF AdminUpdate
      <3> QED
        BY <3>1, <3>2, <3>3
    <2>2. row \in SubRow /\ (row.nextBilling \in 1..Horizon => row.periodEnd <= Horizon)
      BY <2>a DEF SubRow
    <2>3. sub' = [sub EXCEPT ![s] = row]
      BY <2>1 DEF AdminUpdate
    <2> HIDE DEF row
    <2>4. /\ sub' \in [Subs -> SubRow]
          /\ \A t \in Subs : sub'[t].nextBilling \in 1..Horizon
                                => sub'[t].periodEnd <= Horizon
      BY <2>2, <2>3, SubStep
    <2> QED
      BY <1>a, <2>1, <2>4 DEF AdminUpdate, TypeInv, TypeOK, DatesInRange
  <1>12. CASE MonthPasses
    BY <1>12, <1>a DEF MonthPasses, TypeInv, TypeOK, DatesInRange
  <1>13. CASE UNCHANGED vars
    BY <1>13, <1>a DEF vars, TypeInv, TypeOK, DatesInRange
  <1> QED
    BY <1>1, <1>2, <1>3, <1>4, <1>5, <1>6, <1>7, <1>8, <1>9, <1>10, <1>11, <1>12,
       <1>13 DEF Next, RunStep, RequestStep

\* Every reachable state is well typed, and no date leaves the calendar the
\* invoice counters are kept for, whatever staff type within it.
THEOREM TypeCorrect == Spec => []TypeInv
  BY InitTypeInv, TypeInvStep, PTL DEF Spec

\* Type correctness alone, the invariant the runs check.
THEOREM TypeOKHolds == Spec => []TypeOK
  <1>1. TypeInv => TypeOK
    BY DEF TypeInv
  <1> QED
    BY <1>1, TypeCorrect, PTL

-----------------------------------------------------------------------------
(* Which months are invoiced *)

\* A row that a run holds is not ahead of the calendar, and every month before
\* it was invoiced when the run read it: invoices are never deleted, and an
\* activation in between only starts the service later.
Good(d) ==
    /\ d.period <= month
    /\ \A m \in 1..(Horizon + 1) :
          sub[d.sub].startedAt < m /\ m < d.period => Invoiced(d.sub, m)

ProcGood(q) ==
    /\ \A d \in Held(q) : Good(d)
    /\ q.pc = "advance" => Invoiced(q.bill.sub, q.bill.period)

\* The billing dates of a subscription agree with each other, with the
\* calendar and with its invoices.
SubGood(s) ==
    /\ sub[s].startedAt <= month
    /\ sub[s].nextBilling # NoDate =>
          sub[s].periodEnd # NoDate /\ sub[s].nextBilling = sub[s].periodEnd + 1
    /\ \A m \in 1..(Horizon + 1) :
          sub[s].startedAt < m /\ m <= sub[s].periodEnd => Invoiced(s, m)

PeriodInv ==
    /\ \A s \in Subs : SubGood(s)
    /\ \A w \in Procs : ProcGood(proc[w])
    /\ NeverBilledAhead

\* What every step of the system does to the past: nothing.
Onward ==
    /\ invoices \subseteq invoices'
    /\ month <= month'
    /\ \A s \in Subs : sub[s].startedAt <= sub'[s].startedAt

LEMMA InvoicedStays ==
    ASSUME invoices \subseteq invoices', NEW s, NEW m, Invoiced(s, m)
    PROVE  Invoiced(s, m)'
  BY DEF Invoiced

LEMMA GoodStays ==
    ASSUME TypeInv, TypeInv', Onward, NEW d \in DueRow, Good(d)
    PROVE  Good(d)'
  <1>1. d.period \in Nat /\ month \in Nat /\ month' \in Nat /\ d.sub \in Subs
    BY DEF DueRow, TypeInv, TypeOK
  <1>2. sub[d.sub].startedAt \in Nat /\ sub'[d.sub].startedAt \in Nat
    BY <1>1 DEF TypeInv, TypeOK, SubRow
  <1>3. d.period <= month'
    BY <1>1 DEF Good, Onward
  <1>4. ASSUME NEW m \in 1..(Horizon + 1),
               sub'[d.sub].startedAt < m, m < d.period
        PROVE  Invoiced(d.sub, m)'
    <2>1. sub[d.sub].startedAt < m
      BY <1>1, <1>2, <1>4, BillingAssumption DEF Onward
    <2>2. Invoiced(d.sub, m)
      BY <1>4, <2>1 DEF Good
    <2> QED
      BY <2>2, InvoicedStays DEF Onward
  <1> QED
    BY <1>3, <1>4 DEF Good

\* A process whose record does not change stays good; so does one that moves on
\* to a record all of whose rows are good.
LEMMA ProcsStayGood ==
    ASSUME TypeInv, TypeInv', PeriodInv, Onward, NEW w \in Procs, NEW next \in ProcState,
           proc' = [proc EXCEPT ![w] = next],
           \A d \in Held(next) : d \in DueRow /\ Good(d),
           next.pc = "advance" =>
              \E v \in invoices' : v.sub = next.bill.sub /\ v.period = next.bill.period
    PROVE  \A v \in Procs : ProcGood(proc[v])'
  <1> TAKE v \in Procs
  <1>1. proc'[v] = IF v = w THEN next ELSE proc[v]
    BY DEF TypeInv, TypeOK
  <1>2. CASE v = w
    <2>1. proc'[v] = next
      BY <1>1, <1>2
    <2>2. \A d \in Held(next) : Good(d)'
      BY GoodStays
    <2> QED
      BY <2>1, <2>2 DEF ProcGood, Invoiced
  <1>3. CASE v # w
    <2>1. proc'[v] = proc[v] /\ proc[v] \in ProcState /\ ProcGood(proc[v])
      BY <1>1, <1>3 DEF TypeInv, TypeOK, PeriodInv
    <2>2. \A d \in Held(proc[v]) : d \in DueRow
      BY <2>1, ProcKinds DEF Held, Running, Billing
    <2>3. \A d \in Held(proc[v]) : Good(d)'
      BY <2>1, <2>2, GoodStays DEF ProcGood
    <2>4. proc[v].pc = "advance"
             => Invoiced(proc[v].bill.sub, proc[v].bill.period)'
      <3> SUFFICES ASSUME proc[v].pc = "advance"
                   PROVE  Invoiced(proc[v].bill.sub, proc[v].bill.period)'
        OBVIOUS
      <3>1. Invoiced(proc[v].bill.sub, proc[v].bill.period)
        BY <2>1 DEF ProcGood
      <3>2. \A s, m : Invoiced(s, m) => Invoiced(s, m)'
        BY InvoicedStays DEF Onward
      <3> QED
        BY <2>1, <3>1, <3>2 DEF Invoiced
    <2> QED
      BY <2>1, <2>3, <2>4 DEF ProcGood
  <1> QED
    BY <1>2, <1>3

\* A subscription nobody writes stays good.
LEMMA SubStaysGood ==
    ASSUME TypeInv, TypeInv', Onward, NEW s \in Subs, SubGood(s), sub'[s] = sub[s]
    PROVE  SubGood(s)'
  <1>1. sub[s].startedAt \in Nat /\ month \in Nat /\ month' \in Nat
    BY DEF TypeInv, TypeOK, SubRow
  <1>2. sub'[s].startedAt <= month'
    BY <1>1 DEF SubGood, Onward
  <1>3. \A m \in 1..(Horizon + 1) :
           sub'[s].startedAt < m /\ m <= sub'[s].periodEnd => Invoiced(s, m)'
    BY InvoicedStays DEF SubGood, Onward
  <1> QED
    BY <1>2, <1>3 DEF SubGood

LEMMA PeriodInvStep ==
    ASSUME StaffMonths = {}, TypeInv, TypeInv', PeriodInv, [Next]_vars
    PROVE  PeriodInv'
  <1> USE BillingAssumption
  <1>a. /\ TypeOK /\ TypeOK' /\ month \in Nat
        /\ \A w \in Procs : proc[w] \in ProcState /\ ProcGood(proc[w])
        /\ \A s \in Subs : SubGood(s) /\ sub[s] \in SubRow
        /\ NeverBilledAhead
    BY DEF TypeInv, TypeOK, PeriodInv
  <1>b. Runs \subseteq Procs /\ Requests \subseteq Procs
    BY DEF Procs
  <1>c. ASSUME UNCHANGED sub
        PROVE  \A s \in Subs : sub[s].startedAt <= sub'[s].startedAt
    BY <1>a, <1>c DEF SubRow
  \* A step of one process that writes no subscription and no invoice.
  <1>d. ASSUME UNCHANGED <<sub, invoices, month>>,
               NEW w \in Procs, NEW next \in ProcState,
               proc' = [proc EXCEPT ![w] = next],
               \A d \in Held(next) : d \in DueRow /\ Good(d),
               next.pc = "advance" =>
                  \E v \in invoices' : v.sub = next.bill.sub /\ v.period = next.bill.period
        PROVE  PeriodInv'
    <2>1. Onward
      BY <1>a, <1>c, <1>d DEF Onward
    <2>2. \A v \in Procs : ProcGood(proc[v])'
      BY <1>d, <2>1, ProcsStayGood
    <2>3. \A s \in Subs : SubGood(s)'
      BY <1>a, <1>d, <2>1, SubStaysGood
    <2> QED
      BY <1>a, <1>d, <2>2, <2>3 DEF PeriodInv, NeverBilledAhead
  \* In particular one that drops the row it was working on.
  <1>e. ASSUME UNCHANGED <<sub, invoices, month>>,
               NEW w \in Procs, NEW todo \in SUBSET DueRow,
               \A d \in todo : Good(d),
               proc' = [proc EXCEPT ![w] = Rest(todo)]
        PROVE  PeriodInv'
    <2>1. PICK next \in ProcState : next = Rest(todo)
      BY RestKeepsRows
    <2>2. Held(next) = todo /\ next.pc # "advance"
      BY <2>1, RestKeepsRows
    <2> QED
      BY <1>d, <1>e, <2>1, <2>2
  <1>1. ASSUME NEW w \in Runs, RunRead(w)
        PROVE  PeriodInv'
    <2> DEFINE Lines(page) == {[sub |-> s, period |-> PeriodAfter(s)] : s \in page}
    <2>0. PICK page \in Pages : proc' = [proc EXCEPT ![w] =
                                            [pc |-> "run", todo |-> Lines(page)]]
      BY <1>1 DEF RunRead
    <2> DEFINE due == Lines(page)
               next == [pc |-> "run", todo |-> due]
    <2>1. ASSUME NEW s \in Subs, IsDue(s)
          PROVE  Good([sub |-> s, period |-> PeriodAfter(s)])
      <3>1. /\ sub[s].periodEnd \in Nat /\ sub[s].periodEnd # NoDate
            /\ sub[s].nextBilling = sub[s].periodEnd + 1
            /\ sub[s].nextBilling <= month
        BY <1>a, <2>1 DEF SubGood, IsDue, SubRow
      <3>2. PeriodAfter(s) = sub[s].periodEnd + 1
        BY <3>1 DEF PeriodAfter
      <3>3. \A m \in 1..(Horizon + 1) :
               sub[s].startedAt < m /\ m < PeriodAfter(s) => Invoiced(s, m)
        BY <1>a, <3>1, <3>2 DEF SubGood
      <3> QED
        BY <3>1, <3>2, <3>3 DEF Good
    <2>2. \A d \in due : d \in DueRow /\ Good(d)
      BY <2>1, PageIsDue, DueInRange DEF DueRow
    <2> HIDE DEF due
    <2>3. next \in ProcState /\ Held(next) = due /\ next.pc # "advance"
      BY <2>2 DEF ProcState, Running, Held
    <2>4. proc' = [proc EXCEPT ![w] = next] /\ UNCHANGED <<sub, invoices, month>>
      BY <1>1, <2>0 DEF RunRead, due
    <2> HIDE DEF next
    <2> QED
      BY <1>b, <1>d, <2>2, <2>3, <2>4
  <1>2. ASSUME NEW w \in Runs, NEW d \in proc[w].todo, GenerateRead(w, d)
        PROVE  PeriodInv'
    <2>1. proc[w] \in Running
      BY <1>2, <1>a, <1>b, ProcKinds DEF GenerateRead
    <2> DEFINE rest == proc[w].todo \ {d}
    <2>2. /\ rest \in SUBSET DueRow /\ d \in DueRow
          /\ \A e \in rest \cup {d} : e \in DueRow /\ Good(e)
      BY <1>a, <1>b, <2>1 DEF Running, ProcGood, Held
    <2>3. PICK next \in {[pc |-> "advance", todo |-> rest, bill |-> d], Rest(rest),
                         [pc |-> "create", todo |-> rest, bill |-> d]} :
             /\ proc' = [proc EXCEPT ![w] = next]
             /\ next = [pc |-> "advance", todo |-> rest, bill |-> d]
                   => Invoiced(d.sub, d.period)
      BY <1>2 DEF GenerateRead, Rest, Idle
    <2>4. UNCHANGED <<sub, invoices, month>>
      BY <1>2 DEF GenerateRead
    <2> HIDE DEF rest
    <2>5. next \in ProcState /\ Held(next) \subseteq rest \cup {d}
      BY <2>2, <2>3, RestKeepsRows DEF ProcState, Billing, Held
    <2>6. next.pc = "advance" =>
             \E v \in invoices' : v.sub = next.bill.sub /\ v.period = next.bill.period
      <3> SUFFICES ASSUME next.pc = "advance"
                   PROVE  /\ next.bill = d
                          /\ \E v \in invoices' : v.sub = d.sub /\ v.period = d.period
        OBVIOUS
      <3>1. next = [pc |-> "advance", todo |-> rest, bill |-> d]
        BY <2>2, <2>3, RestKeepsRows
      <3> QED
        BY <2>3, <2>4, <3>1 DEF Invoiced
    <2> QED
      BY <1>b, <1>d, <2>2, <2>3, <2>4, <2>5, <2>6
  <1>3. ASSUME NEW w \in Runs, GenerateCreate(w)
        PROVE  PeriodInv'
    <2>1. proc[w] \in Billing
      BY <1>3, <1>a, <1>b, ProcKinds DEF GenerateCreate
    <2> DEFINE d == proc[w].bill
               n == counter[d.period] + 1
    <2>2. /\ proc[w].todo \in SUBSET DueRow /\ d \in DueRow
          /\ \A e \in proc[w].todo \cup {d} : e \in DueRow /\ Good(e)
      BY <1>3, <1>a, <1>b, <2>1 DEF Billing, ProcGood, Held, GenerateCreate
    <2>3. CASE Invoiced(d.sub, d.period)
      <3>1. /\ proc' = [proc EXCEPT ![w] = Rest(proc[w].todo)]
            /\ UNCHANGED <<sub, invoices, month>>
        BY <1>3, <2>3 DEF GenerateCreate
      <3> QED
        BY <1>b, <1>e, <2>2, <3>1
    <2>4. CASE ~Invoiced(d.sub, d.period)
      <3> DEFINE new == [sub |-> d.sub, period |-> d.period, number |-> n]
                 next == [proc[w] EXCEPT !.pc = "advance"]
      <3>1. /\ invoices' = invoices \cup {new}
            /\ UNCHANGED <<sub, month>>
        BY <1>3, <2>4 DEF GenerateCreate
      <3>2. next \in ProcState /\ next.bill = d /\ Held(next) = proc[w].todo \cup {d}
        BY <2>1 DEF ProcState, Billing, Held
      <3>3. proc' = [proc EXCEPT ![w] = next]
        BY <1>3, <1>a, <1>b, <2>4 DEF GenerateCreate, TypeOK
      <3>4. \E v \in invoices' : v.sub = next.bill.sub /\ v.period = next.bill.period
        <4>1. new \in invoices' /\ new.sub = d.sub /\ new.period = d.period
          BY <3>1
        <4> QED
          BY <3>2, <4>1
      <3>5. new.period <= month
        BY <2>2 DEF Good
      <3> HIDE DEF next, new
      <3>6. Onward
        BY <1>a, <1>c, <3>1 DEF Onward
      <3>7. \A v \in Procs : ProcGood(proc[v])'
        BY <1>b, <2>2, <3>2, <3>3, <3>4, <3>6, ProcsStayGood
      <3>8. \A s \in Subs : SubGood(s)'
        BY <1>a, <3>1, <3>6, SubStaysGood
      <3> QED
        BY <1>a, <3>1, <3>5, <3>7, <3>8 DEF PeriodInv, NeverBilledAhead
    <2> QED
      BY <2>3, <2>4
  <1>4. ASSUME NEW w \in Runs, Advance(w)
        PROVE  PeriodInv'
    <2>1. proc[w] \in Billing
      BY <1>4, <1>a, <1>b, ProcKinds DEF Advance
    <2> DEFINE d == proc[w].bill
               next == Rest(proc[w].todo)
    <2>2. /\ proc[w].todo \in SUBSET DueRow /\ d \in DueRow /\ Good(d)
          /\ \A e \in proc[w].todo : e \in DueRow /\ Good(e)
          /\ Invoiced(d.sub, d.period)
      BY <1>4, <1>a, <1>b, <2>1 DEF Billing, ProcGood, Held, Advance
    <2>3. d.sub \in Subs /\ d.period \in Nat \ {0}
      BY <2>2 DEF DueRow
    <2>4. /\ UNCHANGED <<invoices, month>>
          /\ \A s \in Subs \ {d.sub} : sub'[s] = sub[s]
          /\ sub'[d.sub].startedAt = sub[d.sub].startedAt
          /\ sub'[d.sub].periodEnd = d.period
          /\ sub'[d.sub].nextBilling = d.period + 1
      BY ZenonT(30), <1>4, <1>a, <2>3 DEF Advance, TypeOK, SubRow
    <2>5. Onward
      BY <1>a, <2>4 DEF Onward, SubRow
    <2>6. next \in ProcState /\ next.pc # "advance" /\ Held(next) = proc[w].todo
      BY <2>2, RestKeepsRows
    <2>7. proc' = [proc EXCEPT ![w] = next]
      BY <1>4 DEF Advance
    <2> HIDE DEF next
    <2>8. \A v \in Procs : ProcGood(proc[v])'
      BY <1>b, <2>2, <2>5, <2>6, <2>7, ProcsStayGood
    <2>9. ASSUME NEW s \in Subs, s = d.sub
          PROVE  SubGood(s)'
      <3>1. \A m \in 1..(Horizon + 1) :
               sub[s].startedAt < m /\ m <= d.period => Invoiced(s, m)
        BY <2>2, <2>3, <2>9 DEF Good
      <3>2. /\ sub'[s].startedAt = sub[s].startedAt /\ sub'[s].periodEnd = d.period
            /\ sub'[s].nextBilling = d.period + 1 /\ sub[s].startedAt <= month
        BY <1>a, <2>4, <2>9 DEF SubGood
      <3> QED
        BY <2>3, <2>4, <3>1, <3>2 DEF SubGood, Invoiced, NoDate
    <2>10. \A s \in Subs : SubGood(s)'
      <3> TAKE s \in Subs
      <3>1. CASE s = d.sub
        BY <2>9, <3>1
      <3>2. CASE s # d.sub
        BY <1>a, <2>4, <2>5, <3>2, SubStaysGood
      <3> QED
        BY <3>1, <3>2
    <2> QED
      BY <1>a, <2>4, <2>8, <2>10 DEF PeriodInv, NeverBilledAhead
  <1>5. ASSUME NEW w \in Runs, Skip(w)
        PROVE  PeriodInv'
    <2>1. proc[w] \in Billing
      BY <1>5, <1>a, <1>b, ProcKinds DEF Skip
    <2>2. /\ proc[w].todo \in SUBSET DueRow
          /\ \A e \in proc[w].todo : e \in DueRow /\ Good(e)
      BY <1>5, <1>a, <1>b, <2>1 DEF Billing, ProcGood, Held, Skip
    <2>3. /\ proc' = [proc EXCEPT ![w] = Rest(proc[w].todo)]
          /\ UNCHANGED <<sub, invoices, month>>
      BY <1>5 DEF Skip
    <2> QED
      BY <1>b, <1>e, <2>2, <2>3
  <1>6. ASSUME NEW w \in Requests, NEW s \in Subs, ActivateRead(w, s)
        PROVE  PeriodInv'
    <2> DEFINE next == [pc |-> "activate", sub |-> s]
    <2>1. next \in ProcState /\ Held(next) = {} /\ next.pc # "advance"
      BY DEF ProcState, Activating, Held
    <2>2. proc' = [proc EXCEPT ![w] = next] /\ UNCHANGED <<sub, invoices, month>>
      BY <1>6 DEF ActivateRead
    <2> HIDE DEF next
    <2> QED
      BY <1>b, <1>d, <2>1, <2>2
  <1>f. Idle \in ProcState /\ Held(Idle) = {} /\ Idle.pc # "advance"
    BY DEF ProcState, Idle, Held
  \* A request that writes one row and ends.
  <1>g. ASSUME NEW w \in Requests, NEW s \in Subs,
               proc' = [proc EXCEPT ![w] = Idle],
               UNCHANGED <<invoices, month>>,
               \A t \in Subs \ {s} : sub'[t] = sub[t],
               sub[s].startedAt <= sub'[s].startedAt,
               SubGood(s)'
        PROVE  PeriodInv'
    <2>1. Onward
      BY <1>a, <1>g DEF Onward, SubRow
    <2>2. \A v \in Procs : ProcGood(proc[v])'
      BY <1>b, <1>f, <1>g, <2>1, ProcsStayGood
    <2>3. \A t \in Subs : SubGood(t)'
      <3> TAKE t \in Subs
      <3>1. CASE t = s
        BY <1>g, <3>1
      <3>2. CASE t # s
        BY <1>a, <1>g, <2>1, <3>2, SubStaysGood
      <3> QED
        BY <3>1, <3>2
    <2> QED
      BY <1>a, <1>g, <2>2, <2>3 DEF PeriodInv, NeverBilledAhead
  <1>7. ASSUME NEW w \in Requests, ActivateCommit(w)
        PROVE  PeriodInv'
    <2>1. PICK s \in Subs : s = proc[w].sub
      BY <1>7, <1>a, <1>b, ProcKinds DEF ActivateCommit, Activating
    <2>2. /\ UNCHANGED <<invoices, month>> /\ proc' = [proc EXCEPT ![w] = Idle]
          /\ \A t \in Subs \ {s} : sub'[t] = sub[t]
          /\ sub'[s] = [status |-> "ACTIVE", startedAt |-> month,
                        periodEnd |-> month, nextBilling |-> month + 1]
      BY <1>7, <1>a, <2>1 DEF ActivateCommit, TypeOK
    <2>3. /\ sub'[s].startedAt = month /\ sub'[s].periodEnd = month
          /\ sub'[s].nextBilling = month + 1 /\ month # NoDate
      BY <1>a, <2>2 DEF TypeOK, NoDate
    <2>4. sub[s].startedAt <= sub'[s].startedAt
      BY <1>a, <2>3 DEF SubGood
    <2>5. SubGood(s)'
      BY <1>a, <2>2, <2>3 DEF SubGood
    <2> QED
      BY <1>g, <2>2, <2>4, <2>5
  <1>8. ASSUME NEW w \in Requests, NEW s \in Subs,
               NEW to \in {"ACTIVE", "SUSPENDED", "CANCELLED"}, TransitionRead(w, s, to)
        PROVE  PeriodInv'
    <2> DEFINE next == [pc |-> "transition", sub |-> s, to |-> to]
    <2>1. next \in ProcState /\ Held(next) = {} /\ next.pc # "advance"
      BY DEF ProcState, Transiting, Statuses, Held
    <2>2. proc' = [proc EXCEPT ![w] = next] /\ UNCHANGED <<sub, invoices, month>>
      BY <1>8 DEF TransitionRead
    <2> HIDE DEF next
    <2> QED
      BY <1>b, <1>d, <2>1, <2>2
  <1>9. ASSUME NEW w \in Requests, TransitionCommit(w)
        PROVE  PeriodInv'
    <2>1. PICK s \in Subs : s = proc[w].sub
      BY <1>9, <1>a, <1>b, ProcKinds DEF TransitionCommit, Transiting
    <2>2. /\ UNCHANGED <<invoices, month>> /\ proc' = [proc EXCEPT ![w] = Idle]
          /\ \A t \in Subs \ {s} : sub'[t] = sub[t]
          /\ sub'[s].startedAt = sub[s].startedAt
          /\ sub'[s].periodEnd = sub[s].periodEnd
          /\ sub'[s].nextBilling \in {NoDate, sub[s].nextBilling}
      BY ZenonT(30), <1>9, <1>a, <2>1 DEF TransitionCommit, TypeOK, SubRow
    <2>3. sub[s].startedAt <= sub'[s].startedAt
      BY <1>a, <2>2 DEF SubRow
    <2>4. SubGood(s)'
      BY <1>a, <2>2 DEF SubGood, Invoiced
    <2> QED
      BY <1>g, <2>2, <2>3, <2>4
  <1>10. ASSUME NEW w \in Procs, Die(w)
         PROVE  PeriodInv'
    BY <1>d, <1>f, <1>10 DEF Die
  <1>11. ASSUME NEW s \in Subs, StaffUpdate(s)
         PROVE  PeriodInv'
    <2>1. PICK status \in {sub[s].status} \cup StaffStatuses :
             AdminUpdate(s, status, sub[s].startedAt, sub[s].periodEnd,
                         sub[s].nextBilling)
      BY <1>11 DEF StaffUpdate
    <2>2. /\ UNCHANGED <<invoices, month, proc>>
          /\ \A t \in Subs \ {s} : sub'[t] = sub[t]
          /\ sub'[s].startedAt = sub[s].startedAt
          /\ sub'[s].periodEnd = sub[s].periodEnd
          /\ sub'[s].nextBilling = sub[s].nextBilling
      BY <1>a, <2>1 DEF AdminUpdate, TypeOK, SubRow
    <2>3. \A t \in Subs : SubGood(t)'
      <3> TAKE t \in Subs
      <3>1. CASE t = s
        BY <1>a, <2>2, <3>1 DEF SubGood, Invoiced
      <3>2. CASE t # s
        BY <1>a, <2>2, <3>2 DEF SubGood, Invoiced
      <3> QED
        BY <3>1, <3>2
    <2>4. \A t \in Subs : sub'[t].startedAt = sub[t].startedAt
      BY <2>2
    <2>5. \A v \in Procs : ProcGood(proc[v])'
      <3> TAKE v \in Procs
      <3>1. \A d \in Held(proc[v]) : d.sub \in Subs
        BY <1>a, ProcKinds DEF Held, Running, Billing, DueRow
      <3> QED
        BY <1>a, <2>2, <2>4, <3>1 DEF ProcGood, Good, Invoiced, Held
    <2> QED
      BY <1>a, <2>2, <2>3, <2>5 DEF PeriodInv, NeverBilledAhead
  <1>12. ASSUME UNCHANGED <<sub, invoices, proc>>, month <= month'
         PROVE  PeriodInv'
    <2>1. Onward
      BY <1>c, <1>12 DEF Onward
    <2>2. \A s \in Subs : SubGood(s)'
      BY <1>a, <1>12, <2>1, SubStaysGood
    <2>3. \A v \in Procs : ProcGood(proc[v])'
      <3> TAKE v \in Procs
      <3>1. \A d \in Held(proc[v]) : d \in DueRow
        BY <1>a, ProcKinds DEF Held, Running, Billing
      <3>2. \A d \in Held(proc[v]) : Good(d)'
        BY <1>a, <2>1, <3>1, GoodStays DEF ProcGood
      <3> QED
        BY <1>a, <1>12, <3>2 DEF ProcGood, Invoiced
    <2>4. NeverBilledAhead'
      <3>1. \A v \in invoices : v.period \in Nat
        BY <1>a DEF TypeOK, InvoiceRow
      <3>2. month' \in Nat
        BY <1>a DEF TypeOK
      <3> QED
        BY <1>a, <1>12, <3>1, <3>2 DEF NeverBilledAhead
    <2> QED
      BY <2>2, <2>3, <2>4 DEF PeriodInv
  <1>13. CASE MonthPasses
    BY <1>12, <1>13, <1>a DEF MonthPasses
  <1>14. CASE UNCHANGED vars
    BY <1>12, <1>14, <1>a DEF vars
  <1> QED
    BY <1>1, <1>2, <1>3, <1>4, <1>5, <1>6, <1>7, <1>8, <1>9, <1>10, <1>11, <1>13,
       <1>14 DEF Next, RunStep, RequestStep

LEMMA InitPeriodInv == Init => PeriodInv
  BY DEF Init, PeriodInv, SubGood, ProcGood, Held, Idle, NeverBilledAhead, NoDate

LEMMA PeriodInvHolds ==
    ASSUME StaffMonths = {}
    PROVE  Spec => []PeriodInv
  <1>1. TypeInv /\ TypeInv' /\ PeriodInv /\ [Next]_vars => PeriodInv'
    BY PeriodInvStep
  <1> QED
    BY <1>1, InitPeriodInv, TypeCorrect, PTL DEF Spec

\* Unless staff retype the billing dates, no subscription's dates ever move past
\* a month that was not invoiced, for any number of overlapping, failing or
\* late billing runs and of requests that activate, suspend or cancel.
THEOREM NoUnbilledPeriodHolds ==
    ASSUME StaffMonths = {}
    PROVE  Spec => []NoUnbilledPeriod
  <1>1. PeriodInv => NoUnbilledPeriod
    BY DEF PeriodInv, SubGood, NoUnbilledPeriod
  <1> QED
    BY <1>1, PeriodInvHolds, PTL

\* Under the same condition no run, however stale, bills a month ahead.
THEOREM NeverBilledAheadHolds ==
    ASSUME StaffMonths = {}
    PROVE  Spec => []NeverBilledAhead
  <1>1. PeriodInv => NeverBilledAhead
    BY DEF PeriodInv
  <1> QED
    BY <1>1, PeriodInvHolds, PTL

-----------------------------------------------------------------------------
(* No customer is billed twice, and no number is given out twice *)

\* A counter is never behind a number it gave out.
NumbersCounted ==
    \A v \in invoices : v.period \in 1..(Horizon + 1) /\ v.number <= counter[v.period]

DistinctInv == InvoicesDistinct /\ NumbersCounted

LEMMA DistinctInvStep == TypeInv /\ DistinctInv /\ [Next]_vars => DistinctInv'
  <1> SUFFICES ASSUME TypeInv, DistinctInv, [Next]_vars PROVE DistinctInv'
    OBVIOUS
  <1> USE BillingAssumption DEF DistinctInv
  <1>1. ASSUME UNCHANGED <<invoices, counter>>
        PROVE  DistinctInv'
    BY <1>1 DEF InvoicesDistinct, NumbersCounted
  <1>2. ASSUME NEW w \in Runs, GenerateCreate(w)
        PROVE  DistinctInv'
    <2> DEFINE d == proc[w].bill
               n == counter[d.period] + 1
               new == [sub |-> d.sub, period |-> d.period, number |-> n]
    <2>1. CASE Invoiced(d.sub, d.period)
      BY <1>1, <1>2, <2>1 DEF GenerateCreate
    <2>2. CASE ~Invoiced(d.sub, d.period)
      <3>1. /\ counter \in [1..(Horizon + 1) -> Nat] /\ invoices \subseteq InvoiceRow
            /\ proc[w] \in ProcState /\ w \in Procs
        BY DEF TypeInv, TypeOK, Procs
      <3>2. proc[w] \in Billing
        BY <1>2, <3>1, ProcKinds DEF GenerateCreate
      <3>3. d.period \in 1..(Horizon + 1)
        BY <1>2, <3>1, <3>2
           DEF GenerateCreate, TypeInv, DatesInRange, Held, Billing, DueRow
      <3>4. /\ invoices' = invoices \cup {new}
            /\ counter' = [counter EXCEPT ![d.period] = n]
        BY <1>2, <2>2 DEF GenerateCreate
      <3>5. n \in Nat /\ n > counter[d.period]
        BY <3>1, <3>3
      <3>6. new.sub = d.sub /\ new.period = d.period /\ new.number = n
        OBVIOUS
      <3> HIDE DEF n, new
      <3>7. ASSUME NEW v \in invoices
            PROVE  /\ <<v.sub, v.period>> # <<new.sub, new.period>>
                   /\ <<v.period, v.number>> # <<new.period, new.number>>
        <4>1. v.number \in Nat /\ v.period \in 1..(Horizon + 1)
              /\ v.number <= counter[v.period] /\ counter[v.period] \in Nat
          BY <3>1 DEF NumbersCounted, InvoiceRow
        <4>2. ~(v.sub = d.sub /\ v.period = d.period)
          BY <2>2 DEF Invoiced
        <4> QED
          BY <3>1, <3>3, <3>5, <3>6, <4>1, <4>2
      <3>8. InvoicesDistinct'
        BY <3>4, <3>7 DEF InvoicesDistinct
      <3>9. ASSUME NEW v \in invoices
            PROVE  v.period \in 1..(Horizon + 1) /\ v.number <= counter'[v.period]
        <4>1. /\ v.number \in Nat /\ v.period \in 1..(Horizon + 1)
              /\ v.number <= counter[v.period] /\ counter[v.period] \in Nat
          BY <3>1 DEF NumbersCounted, InvoiceRow
        <4>2. counter'[v.period] = IF v.period = d.period THEN n ELSE counter[v.period]
          BY <3>1, <3>4, <4>1
        <4> QED
          BY <3>5, <4>1, <4>2
      <3>10. new.period \in 1..(Horizon + 1) /\ new.number <= counter'[new.period]
        BY <3>1, <3>3, <3>4, <3>5, <3>6
      <3>11. NumbersCounted'
        BY <3>4, <3>9, <3>10 DEF NumbersCounted
      <3> QED
        BY <3>8, <3>11
    <2> QED
      BY <2>1, <2>2
  <1>3. ASSUME NEW w \in Runs, RunStep(w) \/ Skip(w)
        PROVE  DistinctInv'
    BY <1>1, <1>2, <1>3 DEF RunStep, RunRead, GenerateRead, Advance, Skip
  <1>4. ASSUME NEW w \in Requests, RequestStep(w)
        PROVE  DistinctInv'
    BY <1>1, <1>4
       DEF RequestStep, ActivateRead, ActivateCommit, TransitionRead, TransitionCommit
  <1>5. ASSUME NEW s \in Subs, StaffUpdate(s)
        PROVE  DistinctInv'
    BY <1>1, <1>5 DEF StaffUpdate, AdminUpdate
  <1>6. ASSUME NEW w \in Procs, Die(w)
        PROVE  DistinctInv'
    BY <1>1, <1>6 DEF Die
  <1>7. CASE MonthPasses \/ UNCHANGED vars
    BY <1>1, <1>7 DEF MonthPasses, vars
  <1> QED
    BY <1>3, <1>4, <1>5, <1>6, <1>7 DEF Next

\* However many billing runs overlap, retry or come back late, one subscription
\* gets one invoice for a period, and numbers are unique within a month.
THEOREM InvoicesDistinctHolds == Spec => []InvoicesDistinct
  <1>1. Init => DistinctInv
    BY DEF Init, DistinctInv, InvoicesDistinct, NumbersCounted
  <1>2. DistinctInv => InvoicesDistinct
    BY DEF DistinctInv
  <1> QED
    BY <1>1, <1>2, DistinctInvStep, TypeCorrect, PTL DEF Spec
=============================================================================
