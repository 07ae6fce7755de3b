---------------------- MODULE SubscriptionChangesProofs ----------------------
(***************************************************************************)
(* Proofs about SubscriptionChanges, for any number of requests, change    *)
(* requests, plans and add-ons.                                            *)
(***************************************************************************)
EXTENDS SubscriptionChanges, TLAPS

\* A request in one of these places has a change request in hand.
Holding == {"withdraw", "mark", "apply", "cancel", "cancelled", "items", "delete", "replace"}

Refers == \A r \in Requests : req[r].pc \in Holding => asked[req[r].of] \in AskedRow

TypeInv == TypeOK /\ Refers

-----------------------------------------------------------------------------
(* Types *)

LEMMA InitTypes == Init => TypeInv
  <1> SUFFICES ASSUME Init PROVE TypeInv
    OBVIOUS
  <1>1. First \in Tariff /\ sub \in SubRow
    BY ChangesAssumption DEF Init, First, Tariff, SubRow, Statuses
  <1>2. items \in SUBSET ItemSet
    BY <1>1 DEF Init, ItemSet
  <1>3. req \in [Requests -> ReqState] /\ Refers
    BY DEF Init, ReqState, Idle, Refers, Holding
  <1>4. built = 0 /\ edits = 0 /\ 0 \in 0..MaxBuilt /\ 0 \in 0..MaxEdits
    BY ChangesAssumption DEF Init
  <1>7. retyped \in BOOLEAN /\ overtaken \in SUBSET Requests /\ mixed \in BOOLEAN
    BY DEF Init
  <1>5. asked \in [Asks -> {NotAsked} \cup AskedRow]
    BY DEF Init
  <1>6. offered \in SUBSET Change
    BY ChangesAssumption DEF Init
  <1>q. QED BY <1>1, <1>2, <1>3, <1>4, <1>5, <1>6, <1>7 DEF TypeInv, TypeOK

(* What a request has in its record in each place. *)
LEMMA Places ==
    ASSUME TypeInv, NEW r \in Requests
    PROVE  /\ req[r].pc \in {"count", "create"} => req[r] \in Raising
           /\ req[r].pc = "withdraw" => req[r] \in Withdrawing
           /\ req[r].pc = "mark" => req[r] \in Marking
           /\ req[r].pc \in {"apply", "cancel", "cancelled"} => req[r] \in Applying
           /\ req[r].pc = "items" => req[r] \in Reading
           /\ req[r].pc = "delete" => req[r] \in Quoted
           /\ req[r].pc = "replace" => req[r] \in Replacing
           /\ req[r].pc = "edit" => req[r] \in Editing
  BY DEF TypeInv, TypeOK, ReqState, Idle, Raising, Withdrawing, Marking, Applying, Reading,
         Quoted, Replacing, Editing

(* A change request in hand is one that was raised. *)
LEMMA InHand ==
    ASSUME TypeInv, NEW r \in Requests, req[r].pc \in Holding
    PROVE  req[r].of \in Asks /\ asked[req[r].of] \in AskedRow
  BY Places DEF Holding, Withdrawing, Marking, Applying, Reading, Quoted, Replacing,
                TypeInv, Refers

LEMMA RowsOrNot ==
    ASSUME TypeInv, NEW q \in Asks
    PROVE  /\ asked[q] = NotAsked \/ asked[q] \in AskedRow
           /\ asked[q].status # "none" => asked[q] \in AskedRow
           /\ NotAsked.status = "none"
  BY DEF TypeInv, TypeOK, NotAsked

(* The steps that change nothing but where one request stands. *)
LEMMA MoveTypes ==
    ASSUME TypeInv, NEW r \in Requests, NEW st \in ReqState, Goto(r, st),
           UNCHANGED <<offered, sub, items, asked, retyped, mixed, built>>,
           overtaken' \in SUBSET Requests, edits' \in 0..MaxEdits,
           st.pc \in Holding => asked[st.of] \in AskedRow
    PROVE  TypeInv'
  <1>1. req' \in [Requests -> ReqState] /\ Refers'
    BY DEF Goto, TypeInv, TypeOK, Refers
  <1>q. QED BY <1>1 DEF TypeInv, TypeOK

(* The steps that write one row of the change requests as well. *)
LEMMA WriteTypes ==
    ASSUME TypeInv, NEW r \in Requests, NEW st \in ReqState, Goto(r, st),
           NEW q \in Asks, NEW row \in AskedRow, asked' = [asked EXCEPT ![q] = row],
           offered' = offered, sub' \in SubRow, items' \in SUBSET ItemSet,
           retyped' \in BOOLEAN, overtaken' \in SUBSET Requests, mixed' \in BOOLEAN,
           built' \in 0..MaxBuilt, edits' = edits,
           st.pc \in Holding => st.of = q
    PROVE  TypeInv'
  <1>1. asked' \in [Asks -> {NotAsked} \cup AskedRow]
    BY DEF TypeInv, TypeOK
  <1>2. req' \in [Requests -> ReqState]
    BY DEF Goto, TypeInv, TypeOK
  <1>3. ASSUME NEW p \in Requests, req'[p].pc \in Holding
        PROVE  asked'[req'[p].of] \in AskedRow
    <2>1. CASE p = r
      <3>1. req'[p] = st
        BY <2>1 DEF Goto, TypeInv, TypeOK
      <3>q. QED BY <1>3, <3>1 DEF TypeInv, TypeOK
    <2>2. CASE p # r
      <3>1. req'[p] = req[p]
        BY <2>2 DEF Goto, TypeInv, TypeOK
      <3>2. req[p].of \in Asks /\ asked[req[p].of] \in AskedRow
        BY <1>3, <3>1, InHand
      <3>q. QED BY <3>1, <3>2 DEF TypeInv, TypeOK
    <2>q. QED BY <2>1, <2>2
  <1>q. QED BY <1>1, <1>2, <1>3 DEF TypeInv, TypeOK, Refers

LEMMA RaiseTypes ==
    ASSUME TypeInv, NEW r \in Requests, Raise(r)
    PROVE  TypeInv'
  <1>1. ASSUME NEW change \in offered, RaiseRead(r, change)
        PROVE  TypeInv'
    <2> DEFINE st == [pc |-> "count", change |-> change]
    <2>1. st \in ReqState /\ st.pc \notin Holding
      BY DEF ReqState, Raising, Holding, TypeInv, TypeOK
    <2> HIDE DEF st
    <2>2. Goto(r, st)
      BY <1>1 DEF RaiseRead, st
    <2>q. QED BY <1>1, <2>1, <2>2, MoveTypes DEF RaiseRead, TypeInv, TypeOK
  <1>2. CASE RaiseCount(r)
    <2> DEFINE st == [req[r] EXCEPT !.pc = "create"]
    <2>1. req[r] \in Raising
      BY <1>2, Places DEF RaiseCount
    <2>2. st \in ReqState /\ st.pc \notin Holding
      BY <2>1 DEF ReqState, Raising, Holding
    <2>3. Goto(r, st)
      BY <1>2 DEF RaiseCount, Goto, TypeInv, TypeOK
    <2> HIDE DEF st
    <2>q. QED BY <1>2, <2>2, <2>3, MoveTypes DEF RaiseCount, TypeInv, TypeOK
  <1>3. ASSUME NEW q \in Asks, RaiseCreate(r, q)
        PROVE  TypeInv'
    <2> DEFINE row == [change |-> req[r].change, by |-> r, status |-> "PENDING",
                       done |-> 0, torn |-> FALSE]
    <2>1. req[r] \in Raising
      BY <1>3, Places DEF RaiseCreate
    <2>2. row \in AskedRow
      BY <2>1 DEF AskedRow, Raising, Open
    <2>3. asked' = [asked EXCEPT ![q] = row] /\ Goto(r, Idle)
      BY <1>3 DEF RaiseCreate
    <2> HIDE DEF row
    <2>4. Idle \in ReqState /\ Idle.pc \notin Holding
      BY DEF ReqState, Idle, Holding
    <2>q. QED BY <1>3, <2>2, <2>3, <2>4, WriteTypes DEF RaiseCreate, TypeInv, TypeOK
  <1>q. QED BY <1>1, <1>2, <1>3 DEF Raise

(* Setting the fields of a row that a request has in hand. *)
LEMMA RowFields ==
    ASSUME NEW row \in AskedRow
    PROVE  /\ \A s \in Open \cup Closed : [row EXCEPT !.status = s] \in AskedRow
           /\ \A b \in BOOLEAN : [row EXCEPT !.torn = b] \in AskedRow
           /\ [row EXCEPT !.done = Again(@)] \in AskedRow
  <1>1. Again(row.done) \in 0..2
    BY DEF Again
  <1>q. QED BY <1>1 DEF AskedRow

LEMMA WithdrawTypes ==
    ASSUME TypeInv, NEW r \in Requests, Withdraw(r)
    PROVE  TypeInv'
  <1>1. ASSUME NEW q \in Asks, WithdrawRead(r, q)
        PROVE  TypeInv'
    <2> DEFINE st == [pc |-> "withdraw", of |-> q]
    <2>1. st \in ReqState /\ st.of = q
      BY DEF ReqState, Withdrawing
    <2>2. asked[q] \in AskedRow
      BY <1>1, RowsOrNot DEF WithdrawRead
    <2>3. Goto(r, st)
      BY <1>1 DEF WithdrawRead
    <2> HIDE DEF st
    <2>q. QED BY <1>1, <2>1, <2>2, <2>3, MoveTypes DEF WithdrawRead, TypeInv, TypeOK
  <1>2. CASE WithdrawCommit(r)
    <2> DEFINE q == req[r].of
               row == [asked[q] EXCEPT !.status = "CANCELLED"]
    <2>1. q \in Asks /\ asked[q] \in AskedRow
      BY <1>2, InHand DEF WithdrawCommit, Holding
    <2>2. row \in AskedRow
      BY <2>1, RowFields DEF Closed
    <2>3. asked' = [asked EXCEPT ![q] = row] /\ Goto(r, Idle)
      BY <1>2 DEF WithdrawCommit
    <2> HIDE DEF q, row
    <2>4. Idle \in ReqState /\ Idle.pc \notin Holding
      BY DEF ReqState, Idle, Holding
    <2>q. QED BY <1>2, <2>1, <2>2, <2>3, <2>4, WriteTypes DEF WithdrawCommit, TypeInv, TypeOK
  <1>q. QED BY <1>1, <1>2 DEF Withdraw

LEMMA ReviewTypes ==
    ASSUME TypeInv, NEW r \in Requests, Review(r)
    PROVE  TypeInv'
  <1>1. ASSUME NEW q \in Asks, NEW to \in Verdicts, ReviewRead(r, q, to)
        PROVE  TypeInv'
    <2> DEFINE st == IF to = "APPLIED" THEN [pc |-> "apply", of |-> q]
                     ELSE [pc |-> "mark", of |-> q, to |-> to]
               b == asked[q].torn \/ \E p \in Requests : Reviews(p, q)
               row == [asked[q] EXCEPT !.torn = b]
    <2>1. st \in ReqState /\ st.of = q
      BY DEF ReqState, Applying, Marking
    <2>2. asked[q] \in AskedRow
      BY <1>1, RowsOrNot DEF ReviewRead, Open
    <2>3. b \in BOOLEAN
      BY <2>2 DEF AskedRow
    <2>4. asked' = [asked EXCEPT ![q] = row] /\ Goto(r, st)
      BY <1>1 DEF ReviewRead
    <2> HIDE DEF st, b
    <2>5. row \in AskedRow
      BY <2>2, <2>3, RowFields
    <2> HIDE DEF row
    <2>q. QED BY <1>1, <2>1, <2>4, <2>5, WriteTypes DEF ReviewRead, TypeInv, TypeOK
  <1>2. CASE ReviewMark(r)
    <2> DEFINE q == req[r].of
               row == [asked[q] EXCEPT !.status = req[r].to]
    <2>1. q \in Asks /\ asked[q] \in AskedRow
      BY <1>2, InHand DEF ReviewMark, Holding
    <2>2. req[r].to \in Open \cup Closed
      BY <1>2, Places, ChangesAssumption DEF ReviewMark, Marking, Open, Closed
    <2>3. row \in AskedRow
      BY <2>1, <2>2, RowFields
    <2>4. asked' = [asked EXCEPT ![q] = row] /\ Goto(r, Idle)
      BY <1>2 DEF ReviewMark
    <2> HIDE DEF q, row
    <2>5. Idle \in ReqState /\ Idle.pc \notin Holding
      BY DEF ReqState, Idle, Holding
    <2>q. QED BY <1>2, <2>1, <2>3, <2>4, <2>5, WriteTypes DEF ReviewMark, TypeInv, TypeOK
  <1>q. QED BY <1>1, <1>2 DEF Review

LEMMA NextAddonsType ==
    ASSUME TypeInv, NEW change \in Change, change.type \notin {"PLAN", "CANCELLED"} => change.to \in Addons
    PROVE  NextAddons(change) \in SUBSET Addons
  <1> DEFINE current == UNION {i.tariff.addons : i \in items}
  <1>1. current \in SUBSET Addons
    <2>1. \A i \in items : i.tariff.addons \in SUBSET Addons
      BY DEF TypeInv, TypeOK, ItemSet, Tariff
    <2>q. QED BY <2>1
  <1>2. change.type \in {"PLAN", "ADDON_ADDED", "ADDON_REMOVED", "CANCELLED"}
    BY DEF Change
  <1> HIDE DEF current
  <1>3. CASE change.type = "ADDON_ADDED"
    <2>1. NextAddons(change) = current \cup {change.to}
      BY <1>3 DEF NextAddons, current
    <2>q. QED BY <1>1, <1>3, <2>1
  <1>4. CASE change.type = "ADDON_REMOVED"
    <2>1. NextAddons(change) = current \ {change.to}
      BY <1>4 DEF NextAddons, current
    <2>q. QED BY <1>1, <2>1
  <1>5. CASE change.type \in {"PLAN", "CANCELLED"}
    <2>1. NextAddons(change) = current
      BY <1>5 DEF NextAddons, current
    <2>q. QED BY <1>1, <2>1
  <1>q. QED BY <1>2, <1>3, <1>4, <1>5

LEMMA ChangeParts ==
    ASSUME NEW change \in Change
    PROVE  /\ change.type = "PLAN" => change.to \in Plans
           /\ change.type \notin {"PLAN", "CANCELLED"} => change.to \in Addons
  BY DEF Change

LEMMA ApplyTypes ==
    ASSUME TypeInv, NEW r \in Requests, Apply(r)
    PROVE  TypeInv'
  <1> DEFINE q == req[r].of
             made == [asked[q] EXCEPT !.done = Again(@)]
             marking == [pc |-> "mark", of |-> q, to |-> "APPLIED"]
  <1>1. q \in Asks /\ asked[q] \in AskedRow
    BY InHand DEF Apply, ApplyRead, ApplyItems, ApplyDelete, ApplyCommit, CancelRead,
                  CancelCommit, Holding
  <1>2. asked[q].change \in Change
    BY <1>1 DEF AskedRow
  <1>3. made \in AskedRow
    BY <1>1, RowFields
  <1>4. marking \in ReqState /\ marking.of = q
    BY <1>1 DEF ReqState, Marking
  <1> HIDE DEF q, made, marking
  <1>5. CASE ApplyRead(r)
    <2> DEFINE st == IF asked[q].change.type = "CANCELLED" THEN [pc |-> "cancel", of |-> q]
                     ELSE [pc |-> "items", of |-> q, plan |-> sub.plan]
    <2>1. st \in ReqState /\ st.of = q
      BY <1>1 DEF ReqState, Applying, Reading, TypeInv, TypeOK, SubRow
    <2>2. Goto(r, st)
      BY <1>5 DEF ApplyRead, q
    <2> HIDE DEF st
    <2>q. QED BY <1>1, <1>5, <2>1, <2>2, MoveTypes DEF ApplyRead, TypeInv, TypeOK
  <1>6. CASE ApplyItems(r)
    <2> DEFINE change == asked[q].change
               plan == IF change.type = "PLAN" THEN change.to ELSE req[r].plan
               tariff == [plan |-> plan, addons |-> NextAddons(change)]
               st == [pc |-> "delete", of |-> q, tariff |-> tariff]
    <2>1. plan \in Plans
      BY <1>2, <1>6, Places, ChangeParts DEF ApplyItems, Reading
    <2>2. tariff \in Tariff
      BY <1>2, <2>1, ChangeParts, NextAddonsType DEF Tariff
    <2>3. Goto(r, st)
      BY <1>6 DEF ApplyItems, q
    <2> HIDE DEF tariff
    <2>4. st \in ReqState /\ st.of = q
      BY <1>1, <2>2 DEF ReqState, Quoted
    <2> HIDE DEF st
    <2>q. QED BY <1>1, <1>6, <2>3, <2>4, MoveTypes DEF ApplyItems, TypeInv, TypeOK
  <1>7. CASE ApplyDelete(r)
    <2> DEFINE st == [pc |-> "replace", of |-> q, tariff |-> req[r].tariff, doomed |-> items]
    <2>1. req[r].tariff \in Tariff
      BY <1>7, Places DEF ApplyDelete, Quoted
    <2>2. st \in ReqState /\ st.of = q
      BY <1>1, <2>1 DEF ReqState, Replacing, TypeInv, TypeOK
    <2>3. Goto(r, st)
      BY <1>7 DEF ApplyDelete, q
    <2> HIDE DEF st
    <2>q. QED BY <1>1, <1>7, <2>2, <2>3, MoveTypes DEF ApplyDelete, TypeInv, TypeOK
  <1>8. CASE ApplyCommit(r)
    <2> DEFINE new == [n |-> built + 1, by |-> r, tariff |-> req[r].tariff]
    <2>1. req[r].tariff \in Tariff
      BY <1>8, Places DEF ApplyCommit, Replacing
    <2>2. new \in ItemSet
      BY <2>1 DEF ItemSet, TypeInv, TypeOK
    <2>3. items' \in SUBSET ItemSet
      BY <1>8, <2>2 DEF ApplyCommit, TypeInv, TypeOK
    <2>4. sub' \in SubRow
      BY <1>8, <2>1 DEF ApplyCommit, SubRow, Tariff, TypeInv, TypeOK
    <2>5. built' \in 0..MaxBuilt
      BY <1>8, ChangesAssumption DEF ApplyCommit, TypeInv, TypeOK
    <2>6. asked' = [asked EXCEPT ![q] = made] /\ Goto(r, marking)
      BY <1>8 DEF ApplyCommit, q, made, marking
    <2>7. mixed' \in BOOLEAN
      <3>1. mixed' = (r \in overtaken)
        BY <1>8 DEF ApplyCommit
      <3>2. (r \in overtaken) \in BOOLEAN
        OBVIOUS
      <3>q. QED BY <3>1, <3>2
    <2>8. overtaken' \in SUBSET Requests
      BY <1>8 DEF ApplyCommit
    <2>9. offered' = offered /\ edits' = edits /\ retyped' \in BOOLEAN
      BY <1>8 DEF ApplyCommit
    <2> HIDE DEF new
    <2>q. QED BY <1>1, <1>3, <1>4, <2>3, <2>4, <2>5, <2>6, <2>7, <2>8, <2>9, WriteTypes
  <1>9. CASE CancelRead(r)
    <2>1. CASE sub.status = "CANCELLED"
      <3>1. asked' = [asked EXCEPT ![q] = made] /\ Goto(r, marking)
        BY <1>9, <2>1 DEF CancelRead, q, made, marking
      <3>q. QED BY <1>1, <1>3, <1>4, <1>9, <3>1, WriteTypes DEF CancelRead, TypeInv, TypeOK
    <2>2. CASE sub.status # "CANCELLED"
      <3> DEFINE st == [pc |-> "cancelled", of |-> q]
      <3>1. st \in ReqState /\ st.of = q
        BY <1>1 DEF ReqState, Applying
      <3>2. Goto(r, st) /\ asked' = asked
        BY <1>9, <2>2 DEF CancelRead, q
      <3> HIDE DEF st
      <3>q. QED BY <1>1, <1>9, <3>1, <3>2, MoveTypes DEF CancelRead, TypeInv, TypeOK
    <2>q. QED BY <2>1, <2>2
  <1>10. CASE CancelCommit(r)
    <2>1. asked' = [asked EXCEPT ![q] = made] /\ Goto(r, marking)
      BY <1>10 DEF CancelCommit, q, made, marking
    <2>2. sub' \in SubRow
      BY <1>10 DEF CancelCommit, SubRow, Statuses, TypeInv, TypeOK
    <2>q. QED BY <1>1, <1>3, <1>4, <1>10, <2>1, <2>2, WriteTypes DEF CancelCommit, TypeInv, TypeOK
  <1>q. QED BY <1>5, <1>6, <1>7, <1>8, <1>9, <1>10 DEF Apply

LEMMA EditTypes ==
    ASSUME TypeInv, NEW r \in Requests, Edit(r)
    PROVE  TypeInv'
  <1>1. ASSUME NEW plan \in {Same} \cup Plans, NEW status \in {Same} \cup StaffStatuses,
               EditRead(r, plan, status)
        PROVE  TypeInv'
    <2> DEFINE priced == IF plan \in {Same, sub.plan} THEN sub.priced
                         ELSE [plan |-> plan, addons |-> {}]
               st == [pc |-> "edit", status |-> status, plan |-> plan, priced |-> priced]
    <2>1. priced \in Tariff
      BY DEF TypeInv, TypeOK, SubRow, Tariff
    <2>2. Goto(r, st)
      BY <1>1 DEF EditRead
    <2> HIDE DEF priced
    <2>3. st \in ReqState /\ st.pc \notin Holding
      BY <2>1, ChangesAssumption DEF ReqState, Editing, Holding
    <2> HIDE DEF st
    <2>4. edits' \in 0..MaxEdits
      BY <1>1, ChangesAssumption DEF EditRead, TypeInv, TypeOK
    <2>5. overtaken' \in SUBSET Requests
      BY <1>1 DEF EditRead, TypeInv, TypeOK
    <2>q. QED BY <1>1, <2>2, <2>3, <2>4, <2>5, MoveTypes DEF EditRead
  <1>2. CASE EditCommit(r)
    <2>1. req[r] \in Editing
      BY <1>2, Places DEF EditCommit
    <2>2. sub' \in SubRow
      BY <1>2, <2>1 DEF EditCommit, Editing, SubRow, TypeInv, TypeOK
    <2>3. retyped' \in BOOLEAN
      BY <1>2 DEF EditCommit, TypeInv, TypeOK
    <2>4. req' \in [Requests -> ReqState] /\ Refers'
      BY <1>2 DEF EditCommit, Goto, Idle, ReqState, Holding, TypeInv, TypeOK, Refers
    <2>q. QED BY <1>2, <2>2, <2>3, <2>4 DEF EditCommit, TypeInv, TypeOK
  <1>q. QED BY <1>1, <1>2 DEF Edit

LEMMA AbandonTypes ==
    ASSUME TypeInv, NEW r \in Requests, Abandon(r)
    PROVE  TypeInv'
  <1>1. ASSUME NEW q \in Asks
        PROVE  /\ asked'[q] \in {NotAsked} \cup AskedRow
               /\ asked[q] \in AskedRow => asked'[q] \in AskedRow
    <2>1. CASE req[r].pc = "mark" /\ req[r].of = q /\ req[r].to = "APPLIED"
      <3>1. asked[q] \in AskedRow
        BY <2>1, InHand DEF Holding
      <3>2. asked'[q] = [asked[q] EXCEPT !.torn = TRUE]
        BY <2>1 DEF Abandon
      <3>q. QED BY <3>1, <3>2, RowFields
    <2>2. CASE ~(req[r].pc = "mark" /\ req[r].of = q /\ req[r].to = "APPLIED")
      <3>1. asked'[q] = asked[q]
        BY <2>2 DEF Abandon
      <3>q. QED BY <3>1 DEF TypeInv, TypeOK
    <2>q. QED BY <2>1, <2>2
  <1>2. asked' \in [Asks -> {NotAsked} \cup AskedRow]
    <2>1. asked' = [q \in Asks |-> asked'[q]]
      BY Zenon DEF Abandon
    <2>q. QED BY <1>1, <2>1
  <1>3. req' = [req EXCEPT ![r] = Idle] /\ Idle \in ReqState /\ Idle.pc \notin Holding
    BY DEF Abandon, Goto, Idle, ReqState, Holding
  <1>4. Refers'
    <2> SUFFICES ASSUME NEW p \in Requests, req'[p].pc \in Holding
                 PROVE  asked'[req'[p].of] \in AskedRow
      BY DEF Refers
    <2>1. req'[p] = req[p]
      BY <1>3 DEF TypeInv, TypeOK
    <2>q. QED BY <1>1, <2>1, InHand
  <1>q. QED BY <1>2, <1>3, <1>4 DEF Abandon, TypeInv, TypeOK

LEMMA StepTypes == TypeInv /\ [Next]_vars => TypeInv'
  <1> SUFFICES ASSUME TypeInv, [Next]_vars PROVE TypeInv'
    OBVIOUS
  <1>1. CASE UNCHANGED vars
    BY <1>1 DEF vars, TypeInv, TypeOK, Refers
  <1>q. QED
    BY <1>1, RaiseTypes, WithdrawTypes, ReviewTypes, ApplyTypes, EditTypes, AbandonTypes DEF Next

(* Every reachable state is well typed, and what a request has in hand was    *)
(* raised.                                                                     *)
THEOREM TypeCorrect == Spec => []TypeInv
  BY InitTypes, StepTypes, PTL DEF Spec

(* TypeOK: the rows and the requests in flight are well typed in every        *)
(* reachable state; staff's form never blanks a field it left out.            *)
THEOREM TypesAreCorrect == Spec => []TypeOK
  <1>1. TypeInv => TypeOK
    BY DEF TypeInv
  <1>q. QED BY <1>1, TypeCorrect, PTL

-----------------------------------------------------------------------------
(* Items *)

\* A request about to replace the items has doomed every one of its own.
OwnDoomed == \A r \in Requests :
    req[r].pc = "replace" => \A i \in items : i.by = r => i \in req[r].doomed

(* What a step can do to the items and to a request that is about to replace  *)
(* them.                                                                       *)
LEMMA ItemSteps ==
    ASSUME TypeInv, [Next]_vars
    PROVE  \/ /\ items' = items
              /\ \A p \in Requests : req'[p].pc = "replace" =>
                    \/ req'[p] = req[p] /\ (p \in overtaken => p \in overtaken')
                    \/ req'[p].doomed = items
           \/ \E r \in Requests : ApplyCommit(r)
  <1> DEFINE Kept(r) ==
        items' = items /\ \A p \in Requests : p # r /\ p \in overtaken => p \in overtaken'
  <1>1. CASE UNCHANGED vars
    BY <1>1 DEF vars
  <1>2. ASSUME NEW r \in Requests, ~ApplyCommit(r),
               Raise(r) \/ Withdraw(r) \/ Review(r) \/ Apply(r) \/ Edit(r) \/ Abandon(r)
        PROVE  /\ Kept(r)
               /\ \E st : Goto(r, st) /\ (st.pc = "replace" => st.doomed = items)
    <2>1. CASE Raise(r)
      <3>1. ASSUME NEW change \in offered, RaiseRead(r, change)
            PROVE  \E st : Kept(r) /\ Goto(r, st) /\ st.pc = "count"
        BY <3>1 DEF RaiseRead
      <3>2. ASSUME RaiseCount(r)
            PROVE  \E st : Kept(r) /\ Goto(r, st) /\ st.pc = "create"
        <4> DEFINE st == [req[r] EXCEPT !.pc = "create"]
        <4>1. Kept(r) /\ Goto(r, st)
          BY <3>2 DEF RaiseCount, Goto, TypeInv, TypeOK
        <4>2. st.pc = "create"
          BY <3>2, Places DEF RaiseCount, Raising
        <4> HIDE DEF st
        <4>q. QED BY <4>1, <4>2
      <3>4. ASSUME NEW q \in Asks, RaiseCreate(r, q)
            PROVE  Kept(r) /\ Goto(r, Idle) /\ Idle.pc = "idle"
        BY <3>4 DEF RaiseCreate, Idle
      <3>q. QED BY <2>1, <3>1, <3>2, <3>4 DEF Raise
    <2>2. CASE Withdraw(r)
      <3>1. ASSUME NEW q \in Asks, WithdrawRead(r, q)
            PROVE  \E st : Kept(r) /\ Goto(r, st) /\ st.pc = "withdraw"
        BY <3>1 DEF WithdrawRead
      <3>2. ASSUME WithdrawCommit(r)
            PROVE  Kept(r) /\ Goto(r, Idle) /\ Idle.pc = "idle"
        BY <3>2 DEF WithdrawCommit, Idle
      <3>q. QED BY <2>2, <3>1, <3>2 DEF Withdraw
    <2>3. CASE Review(r)
      <3>1. ASSUME NEW q \in Asks, NEW to \in Verdicts, ReviewRead(r, q, to)
            PROVE  /\ Kept(r)
                   /\ \E st : Goto(r, st) /\ st.pc \in {"apply", "mark"}
        BY <3>1 DEF ReviewRead
      <3>2. ASSUME ReviewMark(r)
            PROVE  Kept(r) /\ Goto(r, Idle) /\ Idle.pc = "idle"
        BY <3>2 DEF ReviewMark, Idle
      <3>q. QED BY <2>3, <3>1, <3>2 DEF Review
    <2>4. CASE Apply(r)
      <3>1. ASSUME ApplyRead(r)
            PROVE  \E st : Kept(r) /\ Goto(r, st) /\ st.pc \in {"cancel", "items"}
        BY <3>1 DEF ApplyRead
      <3>2. ASSUME ApplyItems(r)
            PROVE  \E st : Kept(r) /\ Goto(r, st) /\ st.pc = "delete"
        BY <3>2 DEF ApplyItems
      <3>3. ASSUME ApplyDelete(r)
            PROVE  \E st : Kept(r) /\ Goto(r, st) /\ st.doomed = items
        BY <3>3 DEF ApplyDelete
      <3>4. ASSUME CancelRead(r)
            PROVE  \E st : Kept(r) /\ Goto(r, st) /\ st.pc \in {"mark", "cancelled"}
        BY <3>4 DEF CancelRead
      <3>5. ASSUME CancelCommit(r)
            PROVE  \E st : Kept(r) /\ Goto(r, st) /\ st.pc = "mark"
        BY <3>5 DEF CancelCommit
      <3>q. QED BY <1>2, <2>4, <3>1, <3>2, <3>3, <3>4, <3>5 DEF Apply
    <2>5. CASE Edit(r)
      <3>1. ASSUME NEW plan \in {Same} \cup Plans, NEW status \in {Same} \cup StaffStatuses,
                   EditRead(r, plan, status)
            PROVE  \E st : Kept(r) /\ Goto(r, st) /\ st.pc = "edit"
        BY <3>1 DEF EditRead
      <3>2. ASSUME EditCommit(r)
            PROVE  Kept(r) /\ Goto(r, Idle) /\ Idle.pc = "idle"
        BY <3>2 DEF EditCommit, Idle
      <3>q. QED BY <2>5, <3>1, <3>2 DEF Edit
    <2>6. CASE Abandon(r)
      BY <2>6 DEF Abandon, Idle
    <2>q. QED BY <1>2, <2>1, <2>2, <2>3, <2>4, <2>5, <2>6
  <1>3. ASSUME NEW r \in Requests, NEW st, Goto(r, st), NEW p \in Requests
        PROVE  req'[p] = IF p = r THEN st ELSE req[p]
    BY <1>3 DEF Goto, TypeInv, TypeOK
  <1>q. QED BY <1>1, <1>2, <1>3 DEF Next

(* The items are all doomed by whoever is to replace them, unless another's    *)
(* commit came between.                                                        *)
AllDoomed == \A r \in Requests :
    req[r].pc = "replace" /\ r \notin overtaken => items \subseteq req[r].doomed

(* ItemsMatchAmount: every item has the amount's tariff, unless the items were *)
(* last built by a request that was overtaken or staff wrote another amount    *)
(* since, however changes overlap and die.                                     *)
THEOREM AmountAndItemsAgree == Spec => []ItemsMatchAmount
  <1>1. Init => ItemsMatchAmount /\ AllDoomed
    BY DEF Init, ItemsMatchAmount, AllDoomed, First, Idle
  <1>2. ASSUME TypeInv, ItemsMatchAmount, AllDoomed, [Next]_vars
        PROVE  ItemsMatchAmount'
    <2>1. CASE UNCHANGED <<sub, items, retyped, mixed>>
      BY <1>2, <2>1 DEF ItemsMatchAmount
    <2>2. ASSUME NEW r \in Requests, ApplyCommit(r)
          PROVE  ItemsMatchAmount'
      <3> DEFINE new == [n |-> built + 1, by |-> r, tariff |-> req[r].tariff]
      <3>1. items' = (items \ req[r].doomed) \cup {new} /\ req[r].pc = "replace"
        BY <2>2 DEF ApplyCommit
      <3>2. new.tariff = req[r].tariff
        OBVIOUS
      <3>3. sub'.priced = req[r].tariff
        BY <1>2, <2>2 DEF ApplyCommit, TypeInv, TypeOK, SubRow
      <3>4. mixed' = (r \in overtaken)
        BY <2>2 DEF ApplyCommit
      <3> HIDE DEF new
      <3>5. CASE r \notin overtaken
        <4>1. items' = {new}
          BY <1>2, <3>1, <3>5 DEF AllDoomed
        <4>q. QED BY <3>2, <3>3, <4>1 DEF ItemsMatchAmount
      <3>6. CASE r \in overtaken
        BY <3>4, <3>6 DEF ItemsMatchAmount
      <3>q. QED BY <3>5, <3>6
    <2>3. ASSUME NEW r \in Requests, EditCommit(r)
          PROVE  ItemsMatchAmount'
      <3> DEFINE priced == IF req[r].plan = Same THEN sub.priced ELSE req[r].priced
      <3>1. items' = items /\ sub'.priced = priced /\ mixed' = mixed
        BY <2>3 DEF EditCommit
      <3>2. retyped' <=> (retyped \/ priced # sub.priced)
        BY <2>3 DEF EditCommit
      <3> HIDE DEF priced
      <3>q. QED BY <1>2, <3>1, <3>2 DEF ItemsMatchAmount
    <2>4. ASSUME NEW r \in Requests, CancelCommit(r)
          PROVE  ItemsMatchAmount'
      <3>1. UNCHANGED <<items, retyped, mixed>> /\ sub'.priced = sub.priced
        BY <1>2, <2>4 DEF CancelCommit, TypeInv, TypeOK, SubRow
      <3>q. QED BY <1>2, <3>1 DEF ItemsMatchAmount
    <2>q. QED
      BY <1>2, <2>1, <2>2, <2>3, <2>4
         DEF Next, vars, Raise, Withdraw, Review, Apply, Edit, RaiseRead, RaiseCount, RaiseCreate,
             WithdrawRead, WithdrawCommit, ReviewRead, ReviewMark, ApplyRead, ApplyItems,
             ApplyDelete, CancelRead, EditRead, Abandon
  <1>3. ASSUME TypeInv, AllDoomed, [Next]_vars
        PROVE  AllDoomed'
    <2>1. CASE /\ items' = items
               /\ \A p \in Requests : req'[p].pc = "replace" =>
                     \/ req'[p] = req[p] /\ (p \in overtaken => p \in overtaken')
                     \/ req'[p].doomed = items
      BY <1>3, <2>1 DEF AllDoomed
    <2>2. ASSUME NEW r \in Requests, ApplyCommit(r)
          PROVE  AllDoomed'
      <3> DEFINE st == [pc |-> "mark", of |-> req[r].of, to |-> "APPLIED"]
      <3>1. Goto(r, st) /\ st.pc = "mark"
        BY <2>2 DEF ApplyCommit
      <3> HIDE DEF st
      <3>2. ASSUME NEW p \in Requests, req'[p].pc = "replace"
            PROVE  p \in overtaken'
        <4>1. p # r /\ req[p].pc = "replace"
          BY <1>3, <3>1, <3>2 DEF Goto, TypeInv, TypeOK
        <4>q. QED BY <2>2, <4>1 DEF ApplyCommit
      <3>q. QED BY <3>2 DEF AllDoomed
    <2>q. QED BY <1>3, <2>1, <2>2, ItemSteps
  <1>q. QED BY <1>1, <1>2, <1>3, TypeCorrect, PTL DEF Spec

(* OneCopyEach: overlapping changes leave at most one set of items by each    *)
(* request.                                                                   *)
THEOREM CopiesAreBounded == Spec => []OneCopyEach
  <1>1. Init => OneCopyEach /\ OwnDoomed
    BY DEF Init, OneCopyEach, OwnDoomed, Idle
  <1>2. ASSUME TypeInv, OneCopyEach, OwnDoomed, [Next]_vars
        PROVE  OneCopyEach' /\ OwnDoomed'
    <2>1. CASE /\ items' = items
               /\ \A p \in Requests : req'[p].pc = "replace" =>
                     req'[p] = req[p] \/ req'[p].doomed = items
      BY <1>2, <2>1 DEF OneCopyEach, OwnDoomed
    <2>2. ASSUME NEW r \in Requests, ApplyCommit(r)
          PROVE  OneCopyEach' /\ OwnDoomed'
      <3> DEFINE new == [n |-> built + 1, by |-> r, tariff |-> req[r].tariff]
                 st == [pc |-> "mark", of |-> req[r].of, to |-> "APPLIED"]
      <3>1. items' = (items \ req[r].doomed) \cup {new} /\ req[r].pc = "replace"
        BY <2>2 DEF ApplyCommit
      <3>2. new.by = r
        OBVIOUS
      <3> HIDE DEF new
      <3>3. \A i \in items : i.by = r => i \in req[r].doomed
        BY <1>2, <3>1 DEF OwnDoomed
      <3>4. OneCopyEach'
        BY <1>2, <3>1, <3>2, <3>3 DEF OneCopyEach
      <3>5. Goto(r, st) /\ st.pc = "mark"
        BY <2>2 DEF ApplyCommit
      <3>6. ASSUME NEW p \in Requests, req'[p].pc = "replace",
                   NEW i \in items', i.by = p
            PROVE  i \in req'[p].doomed
        <4>1. p # r /\ req'[p] = req[p]
          BY <1>2, <3>5, <3>6 DEF Goto, TypeInv, TypeOK
        <4>2. i \in items
          BY <3>1, <3>2, <3>6, <4>1
        <4>q. QED BY <1>2, <3>6, <4>1, <4>2 DEF OwnDoomed
      <3>q. QED BY <3>4, <3>6 DEF OwnDoomed
    <2>q. QED BY <1>2, <2>1, <2>2, ItemSteps
  <1>q. QED BY <1>1, <1>2, TypeCorrect, PTL DEF Spec

-----------------------------------------------------------------------------
(* What a step does to the change requests *)

\* A request that may create a change request has none pending of its own.
Creating == \A r \in Requests :
    req[r].pc = "create" =>
        \A q \in Asks : asked[q].status = "PENDING" => asked[q].by # r

\* A request that marks a change as applied has applied it.
Marker(r, q) == req[r].pc = "mark" /\ req[r].of = q /\ req[r].to = "APPLIED"
MarksFollow == \A r \in Requests, q \in Asks : Marker(r, q) => asked[q].done > 0

AsksInv == OnePendingEach /\ Creating /\ MarksFollow /\ AppliedMeansDone

(* Where a request stands after a step of its own, and the others.            *)
LEMMA Moves ==
    ASSUME TypeInv, NEW r \in Requests, NEW st, Goto(r, st)
    PROVE  req'[r] = st /\ \A p \in Requests : p # r => req'[p] = req[p]
  BY DEF Goto, TypeInv, TypeOK

(* The steps that leave the change requests alone.                            *)
LEMMA QuietKeeps ==
    ASSUME TypeInv, AsksInv, NEW r \in Requests, NEW st, Goto(r, st),
           asked' = asked, st.pc \notin {"create", "mark"}
    PROVE  AsksInv'
  BY Moves DEF AsksInv, OnePendingEach, Creating, MarksFollow, Marker, AppliedMeansDone

(* The steps that write one change request and leave it pending at most if it *)
(* was, undoing no change.                                                    *)
LEMMA WriteKeeps ==
    ASSUME TypeInv, AsksInv, NEW r \in Requests, NEW st,
           Goto(r, st), NEW q \in Asks, NEW row \in AskedRow, asked[q] \in AskedRow,
           asked' = [asked EXCEPT ![q] = row], row.by = asked[q].by,
           row.status \in {asked[q].status, "APPROVED"} \cup Closed, row.done >= asked[q].done,
           st.pc # "create", row.status = "APPLIED" => row.done > 0,
           st.pc = "mark" /\ st.to = "APPLIED" => st.of = q /\ row.done > 0
    PROVE  AsksInv'
  <1>1. \A p \in Asks : asked'[p] = IF p = q THEN row ELSE asked[p]
    BY DEF TypeInv, TypeOK
  <1>2. \A p \in Asks : asked'[p].status = "PENDING" =>
                asked[p].status = "PENDING" /\ asked'[p].by = asked[p].by
    BY <1>1 DEF Closed
  <1>3. OnePendingEach'
    BY <1>2 DEF AsksInv, OnePendingEach
  <1>4. Creating'
    BY <1>2, Moves DEF AsksInv, Creating
  <1>5. ASSUME NEW p \in Requests, NEW k \in Asks, Marker(p, k)'
        PROVE  asked'[k].done > 0
    <2>1. CASE p = r
      BY <1>1, <1>5, <2>1, Moves DEF Marker
    <2>2. CASE p # r
      <3>1. Marker(p, k)
        BY <1>5, <2>2, Moves DEF Marker
      <3>2. asked[k].done > 0
        BY <3>1 DEF AsksInv, MarksFollow
      <3>3. row.done \in 0..2 /\ asked[q].done \in 0..2
        BY DEF AskedRow
      <3>q. QED BY <1>1, <3>2, <3>3
    <2>q. QED BY <2>1, <2>2
  <1>6. AppliedMeansDone'
    BY <1>1 DEF AsksInv, AppliedMeansDone
  <1>q. QED BY <1>3, <1>4, <1>5, <1>6 DEF AsksInv, MarksFollow

(* What done becomes when a change is made, once or again.                    *)
LEMMA MadeRow ==
    ASSUME NEW row \in AskedRow
    PROVE  LET made == [row EXCEPT !.done = Again(@)]
           IN  /\ made \in AskedRow /\ made.by = row.by /\ made.status = row.status
               /\ made.done = Again(row.done) /\ made.torn = row.torn
               /\ made.done > 0 /\ made.done >= row.done
  <1>1. row.done \in 0..2 /\ Again(row.done) > 0 /\ Again(row.done) >= row.done
    BY DEF AskedRow, Again
  <1>q. QED BY <1>1, RowFields DEF AskedRow

(* The steps that make a change: what they write, and where they go.          *)
LEMMA MadeSteps ==
    ASSUME TypeInv, NEW r \in Requests,
           ApplyCommit(r) \/ CancelCommit(r) \/ (CancelRead(r) /\ sub.status = "CANCELLED")
    PROVE  /\ req[r].pc \in {"replace", "cancel", "cancelled"}
           /\ req[r].of \in Asks /\ asked[req[r].of] \in AskedRow
           /\ asked' = [asked EXCEPT ![req[r].of] = [asked[req[r].of] EXCEPT !.done = Again(@)]]
           /\ Goto(r, [pc |-> "mark", of |-> req[r].of, to |-> "APPLIED"])
  <1>1. req[r].pc \in {"replace", "cancel", "cancelled"}
    BY DEF ApplyCommit, CancelCommit, CancelRead
  <1>2. req[r].of \in Asks /\ asked[req[r].of] \in AskedRow
    BY <1>1, InHand DEF Holding
  <1>q. QED BY <1>1, <1>2 DEF ApplyCommit, CancelCommit, CancelRead

-----------------------------------------------------------------------------
LEMMA KeepPendingAndMarks ==
    ASSUME TypeInv, AsksInv, [Next]_vars
    PROVE  AsksInv'
  <1>1. CASE UNCHANGED vars
    BY <1>1 DEF vars, AsksInv, OnePendingEach, Creating, MarksFollow, Marker, AppliedMeansDone
  <1>0. ASSUME NEW r \in Requests,
               \E st : Goto(r, st) /\ asked' = asked /\ st.pc \notin {"create", "mark"}
        PROVE  AsksInv'
    BY <1>0, QuietKeeps
  <1>2. ASSUME NEW r \in Requests, Raise(r)
        PROVE  AsksInv'
    <2>1. ASSUME NEW change \in offered, RaiseRead(r, change)
          PROVE  AsksInv'
      <3> DEFINE st == [pc |-> "count", change |-> change]
      <3>1. Goto(r, st) /\ asked' = asked /\ st.pc \notin {"create", "mark"}
        BY <2>1 DEF RaiseRead
      <3> HIDE DEF st
      <3>q. QED BY <1>0, <3>1
    <2>2. CASE RaiseCount(r)
      <3> DEFINE st == [req[r] EXCEPT !.pc = "create"]
      <3>1. Goto(r, st) /\ asked' = asked
        BY <2>2 DEF RaiseCount, Goto, TypeInv, TypeOK
      <3>2. st.pc = "create" /\ \A q \in Asks : asked[q].status # "PENDING"
        BY <2>2, Places DEF RaiseCount, Raising
      <3> HIDE DEF st
      <3>q. QED BY <3>1, <3>2, Moves
                   DEF AsksInv, OnePendingEach, Creating, MarksFollow, Marker, AppliedMeansDone
    <2>3. ASSUME NEW q \in Asks, RaiseCreate(r, q)
          PROVE  AsksInv'
      <3> DEFINE row == [change |-> req[r].change, by |-> r, status |-> "PENDING",
                         done |-> 0, torn |-> FALSE]
      <3>1. \A p \in Asks : asked'[p] = IF p = q THEN row ELSE asked[p]
        BY <2>3 DEF RaiseCreate, TypeInv, TypeOK
      <3>2. row.by = r /\ row.status = "PENDING"
        OBVIOUS
      <3> HIDE DEF row
      <3>3. Goto(r, Idle) /\ Idle.pc = "idle"
        BY <2>3 DEF RaiseCreate, Idle
      <3>4. \A k \in Asks : asked[k].status = "PENDING" => asked[k].by # r
        BY <2>3 DEF RaiseCreate, AsksInv, Creating
      <3>5. OnePendingEach'
        BY <3>1, <3>2, <3>4 DEF AsksInv, OnePendingEach
      <3>6. Creating'
        BY <3>1, <3>2, <3>3, Moves DEF AsksInv, Creating
      <3>7. ASSUME NEW p \in Requests, NEW k \in Asks, Marker(p, k)'
            PROVE  asked'[k].done > 0
        <4>1. Marker(p, k) /\ p # r
          BY <3>3, <3>7, Moves DEF Marker
        <4>2. asked[k] \in AskedRow /\ asked[k].done > 0
          BY <4>1, InHand DEF Marker, Holding, AsksInv, MarksFollow
        <4>3. k # q
          BY <2>3, <4>2 DEF RaiseCreate, NotAsked, AskedRow
        <4>q. QED BY <3>1, <4>2, <4>3
      <3>8. AppliedMeansDone'
        BY <3>1, <3>2 DEF AsksInv, AppliedMeansDone
      <3>q. QED BY <3>5, <3>6, <3>7, <3>8 DEF AsksInv, MarksFollow
    <2>q. QED BY <1>2, <2>1, <2>2, <2>3 DEF Raise
  <1>3. ASSUME NEW r \in Requests, Withdraw(r)
        PROVE  AsksInv'
    <2>1. ASSUME NEW q \in Asks, WithdrawRead(r, q)
          PROVE  AsksInv'
      <3> DEFINE st == [pc |-> "withdraw", of |-> q]
      <3>1. Goto(r, st) /\ asked' = asked /\ st.pc \notin {"create", "mark"}
        BY <2>1 DEF WithdrawRead
      <3> HIDE DEF st
      <3>q. QED BY <1>0, <3>1
    <2>2. CASE WithdrawCommit(r)
      <3> DEFINE q == req[r].of
                 row == [asked[q] EXCEPT !.status = "CANCELLED"]
      <3>1. q \in Asks /\ asked[q] \in AskedRow
        BY <2>2, InHand DEF WithdrawCommit, Holding
      <3>2. row \in AskedRow /\ row.by = asked[q].by /\ row.done >= asked[q].done
            /\ row.status \in Closed /\ row.status # "APPLIED"
        BY <3>1, RowFields DEF Closed, AskedRow
      <3>3. asked' = [asked EXCEPT ![q] = row] /\ Goto(r, Idle) /\ Idle.pc = "idle"
        BY <2>2 DEF WithdrawCommit, Idle
      <3> HIDE DEF q, row
      <3>q. QED BY <3>1, <3>2, <3>3, WriteKeeps
    <2>q. QED BY <1>3, <2>1, <2>2 DEF Withdraw
  <1>4. ASSUME NEW r \in Requests, Review(r)
        PROVE  AsksInv'
    <2>1. ASSUME NEW q \in Asks, NEW to \in Verdicts, ReviewRead(r, q, to)
          PROVE  AsksInv'
      <3> DEFINE st == IF to = "APPLIED" THEN [pc |-> "apply", of |-> q]
                       ELSE [pc |-> "mark", of |-> q, to |-> to]
                 b == asked[q].torn \/ \E p \in Requests : Reviews(p, q)
                 row == [asked[q] EXCEPT !.torn = b]
      <3>1. asked[q] \in AskedRow
        BY <2>1, RowsOrNot DEF ReviewRead, Open
      <3>2. b \in BOOLEAN
        BY <3>1 DEF AskedRow
      <3>3. asked' = [asked EXCEPT ![q] = row] /\ Goto(r, st)
        BY <2>1 DEF ReviewRead
      <3>4. st.pc \in {"apply", "mark"} /\ (st.pc = "mark" => st.to # "APPLIED")
        OBVIOUS
      <3> HIDE DEF st, b
      <3>5. row \in AskedRow /\ row.by = asked[q].by /\ row.done >= asked[q].done
            /\ row.status = asked[q].status
        BY <3>1, <3>2, RowFields DEF AskedRow
      <3> HIDE DEF row
      <3>6. row.status = "APPLIED" => row.done > 0
        BY <2>1, <3>5 DEF ReviewRead, Open
      <3>q. QED BY <3>1, <3>3, <3>4, <3>5, <3>6, WriteKeeps
    <2>2. CASE ReviewMark(r)
      <3> DEFINE q == req[r].of
                 row == [asked[q] EXCEPT !.status = req[r].to]
      <3>1. q \in Asks /\ asked[q] \in AskedRow
        BY <2>2, InHand DEF ReviewMark, Holding
      <3>2. req[r].to \in {"APPROVED"} \cup Closed
        BY <2>2, Places, ChangesAssumption DEF ReviewMark, Marking, Closed
      <3>3. row \in AskedRow /\ row.by = asked[q].by /\ row.done >= asked[q].done
            /\ row.status \in {"APPROVED"} \cup Closed
        BY <3>1, <3>2, RowFields DEF AskedRow, Open
      <3>5. row.status = "APPLIED" => row.done > 0
        BY <2>2, <3>1 DEF ReviewMark, AsksInv, MarksFollow, Marker, AskedRow
      <3>4. asked' = [asked EXCEPT ![q] = row] /\ Goto(r, Idle) /\ Idle.pc = "idle"
        BY <2>2 DEF ReviewMark, Idle
      <3> HIDE DEF q, row
      <3>q. QED BY <3>1, <3>3, <3>4, <3>5, WriteKeeps
    <2>q. QED BY <1>4, <2>1, <2>2 DEF Review
  <1>5. ASSUME NEW r \in Requests, Apply(r)
        PROVE  AsksInv'
    <2>1. ASSUME ApplyRead(r) \/ ApplyItems(r) \/ ApplyDelete(r)
                 \/ (CancelRead(r) /\ sub.status # "CANCELLED")
          PROVE  AsksInv'
      <3>1. \E st : Goto(r, st) /\ asked' = asked /\ st.pc \notin {"create", "mark"}
        BY <2>1 DEF ApplyRead, ApplyItems, ApplyDelete, CancelRead
      <3>q. QED BY <1>0, <3>1
    <2>2. ASSUME ApplyCommit(r) \/ CancelCommit(r) \/ (CancelRead(r) /\ sub.status = "CANCELLED")
          PROVE  AsksInv'
      <3> DEFINE q == req[r].of
                 row == [asked[q] EXCEPT !.done = Again(@)]
                 st == [pc |-> "mark", of |-> q, to |-> "APPLIED"]
      <3>1. q \in Asks /\ asked[q] \in AskedRow /\ asked' = [asked EXCEPT ![q] = row]
            /\ Goto(r, st) /\ st.pc = "mark" /\ st.of = q
        BY <2>2, MadeSteps
      <3>2. row \in AskedRow /\ row.by = asked[q].by /\ row.status = asked[q].status
            /\ row.done > 0 /\ row.done >= asked[q].done
        BY <3>1, MadeRow
      <3> HIDE DEF q, row, st
      <3>q. QED BY <3>1, <3>2, WriteKeeps
    <2>q. QED BY <1>5, <2>1, <2>2 DEF Apply
  <1>6. ASSUME NEW r \in Requests, Edit(r)
        PROVE  AsksInv'
    <2>1. ASSUME NEW plan \in {Same} \cup Plans, NEW status \in {Same} \cup StaffStatuses,
                 EditRead(r, plan, status)
          PROVE  \E st : Goto(r, st) /\ asked' = asked /\ st.pc \notin {"create", "mark"}
      BY <2>1 DEF EditRead
    <2>2. ASSUME EditCommit(r)
          PROVE  Goto(r, Idle) /\ asked' = asked /\ Idle.pc \notin {"create", "mark"}
      BY <2>2 DEF EditCommit, Idle
    <2>q. QED BY <1>0, <1>6, <2>1, <2>2 DEF Edit
  <1>7. ASSUME NEW r \in Requests, Abandon(r)
        PROVE  AsksInv'
    <2>1. Goto(r, Idle) /\ Idle.pc = "idle"
      BY <1>7 DEF Abandon, Idle
    <2>2. ASSUME NEW q \in Asks
          PROVE  asked'[q].status = asked[q].status /\ asked'[q].by = asked[q].by
                 /\ asked'[q].done = asked[q].done
      <3>1. CASE Marker(r, q)
        <4>1. asked[q] \in AskedRow
          BY <3>1, InHand DEF Marker, Holding
        <4>2. asked'[q] = [asked[q] EXCEPT !.torn = TRUE]
          BY <1>7, <3>1 DEF Abandon, Marker
        <4>q. QED BY <4>1, <4>2 DEF AskedRow
      <3>2. CASE ~Marker(r, q)
        BY <1>7, <3>2 DEF Abandon, Marker
      <3>q. QED BY <3>1, <3>2
    <2>q. QED BY <2>1, <2>2, Moves
                 DEF AsksInv, OnePendingEach, Creating, MarksFollow, Marker, AppliedMeansDone
  <1>q. QED BY <1>1, <1>2, <1>3, <1>4, <1>5, <1>6, <1>7 DEF Next

LEMMA InitAsks == Init => AsksInv
  BY DEF Init, AsksInv, AppliedMeansDone, OnePendingEach, Creating, MarksFollow, Marker, NotAsked, Idle

(* Nothing is marked as applied that was not, and no request leaves two       *)
(* changes pending.                                                           *)
THEOREM AsksCorrect == Spec => []AsksInv
  BY InitAsks, KeepPendingAndMarks, TypeCorrect, PTL DEF Spec

(* OnePendingEach: no request leaves two changes pending.                     *)
THEOREM OneIsPendingEach == Spec => []OnePendingEach
  <1>1. AsksInv => OnePendingEach
    BY DEF AsksInv
  <1>q. QED BY <1>1, AsksCorrect, PTL

(* AppliedMeansDone: what is marked as applied was applied, whatever died on  *)
(* the way or overtook it.                                                    *)
THEOREM AppliedWasDone == Spec => []AppliedMeansDone
  <1>1. AsksInv => AppliedMeansDone
    BY DEF AsksInv
  <1>q. QED BY <1>1, AsksCorrect, PTL

-----------------------------------------------------------------------------
(* A change whose reviews never overlapped, none of them ending before its    *)
(* mark, has one review at most, which has not made it before it marks it;    *)
(* once made, it is closed or about to be.                                    *)
Orderly(q) ==
    /\ asked[q].done <= 1
    /\ asked[q].done > 0 => asked[q].status \in Closed \/ \E r \in Requests : Marker(r, q)
    /\ \A r \in Requests : Reviews(r, q) /\ ~Marker(r, q) => asked[q].done = 0
    /\ \A p, r \in Requests : Reviews(p, q) /\ Reviews(r, q) => p = r

OnceInv == \A q \in Asks : asked[q] # NotAsked /\ ~asked[q].torn => Orderly(q)

LEMMA MarkerReviews ==
    ASSUME NEW r, NEW q, Marker(r, q)
    PROVE  Reviews(r, q)
  BY DEF Marker, Reviews

(* What the others do to a change does not depend on the request that steps.  *)
LEMMA OthersStay ==
    ASSUME TypeInv, NEW r \in Requests, NEW st, Goto(r, st), NEW p \in Requests, p # r, NEW q
    PROVE  (Reviews(p, q)' <=> Reviews(p, q)) /\ (Marker(p, q)' <=> Marker(p, q))
  BY Moves DEF Reviews, Marker

(* Steps of a request that reviews nothing, before or after, which may close  *)
(* a change.                                                                  *)
LEMMA AsideKeepsOnce ==
    ASSUME TypeInv, OnceInv, NEW r \in Requests, NEW st, Goto(r, st),
           \A q \in Asks : ~Reviews(r, q) /\ ~Reviews(r, q)',
           \A q \in Asks : \/ asked'[q] = asked[q]
                           \/ /\ asked'[q].done = asked[q].done /\ asked'[q].torn = asked[q].torn
                              /\ asked'[q].status \in Closed /\ asked[q] # NotAsked
    PROVE  OnceInv'
  <1> SUFFICES ASSUME NEW q \in Asks, asked'[q] # NotAsked, ~asked'[q].torn
               PROVE  Orderly(q)'
    BY DEF OnceInv
  <1>1. Orderly(q)
    BY DEF OnceInv
  <1>2. \A p \in Requests : (Reviews(p, q)' <=> Reviews(p, q)) /\ (Marker(p, q)' <=> Marker(p, q))
    <2>1. ~Marker(r, q) /\ ~Marker(r, q)' /\ ~Reviews(r, q) /\ ~Reviews(r, q)'
      BY DEF Marker, Reviews
    <2>q. QED BY <2>1, OthersStay
  <1>q. QED BY <1>1, <1>2 DEF Orderly

(* Steps of a review that neither make the change nor mark it.                *)
LEMMA AdvanceKeepsOnce ==
    ASSUME TypeInv, OnceInv, NEW r \in Requests, NEW st, Goto(r, st), asked' = asked,
           \A q \in Asks : (Reviews(r, q)' <=> Reviews(r, q)) /\ ~Marker(r, q) /\ ~Marker(r, q)'
    PROVE  OnceInv'
  <1> SUFFICES ASSUME NEW q \in Asks, asked[q] # NotAsked, ~asked[q].torn
               PROVE  Orderly(q)'
    BY DEF OnceInv
  <1>1. Orderly(q)
    BY DEF OnceInv
  <1>2. \A p \in Requests : (Reviews(p, q)' <=> Reviews(p, q)) /\ (Marker(p, q)' <=> Marker(p, q))
    BY OthersStay
  <1>q. QED BY <1>1, <1>2 DEF Orderly

(* The step that makes the change, on the way to its mark.                    *)
LEMMA MakeKeepsOnce ==
    ASSUME TypeInv, OnceInv, NEW r \in Requests, NEW k \in Asks, asked[k] \in AskedRow,
           req[r].of = k, req[r].pc \in {"replace", "cancel", "cancelled"},
           Goto(r, [pc |-> "mark", of |-> k, to |-> "APPLIED"]),
           asked' = [asked EXCEPT ![k] = [asked[k] EXCEPT !.done = Again(@)]]
    PROVE  OnceInv'
  <1>1. Reviews(r, k) /\ ~Marker(r, k) /\ Reviews(r, k)' /\ Marker(r, k)'
    BY Moves DEF Reviews, Marker
  <1>2. \A q \in Asks : q # k => ~Reviews(r, q) /\ ~Reviews(r, q)' /\ ~Marker(r, q) /\ ~Marker(r, q)'
    BY Moves DEF Reviews, Marker
  <1>3. \A q \in Asks : asked'[q] = IF q = k THEN [asked[k] EXCEPT !.done = Again(@)] ELSE asked[q]
    BY DEF TypeInv, TypeOK
  <1>4. asked'[k].done = Again(asked[k].done) /\ asked'[k].torn = asked[k].torn
        /\ asked'[k].status = asked[k].status
    BY <1>3 DEF AskedRow
  <1> SUFFICES ASSUME NEW q \in Asks, asked'[q] # NotAsked, ~asked'[q].torn
               PROVE  Orderly(q)'
    BY DEF OnceInv
  <1>5. CASE q # k
    <2>1. Orderly(q) /\ asked'[q] = asked[q]
      BY <1>3, <1>5 DEF OnceInv
    <2>2. \A p \in Requests :
              (Reviews(p, q)' <=> Reviews(p, q)) /\ (Marker(p, q)' <=> Marker(p, q))
      BY <1>2, <1>5, OthersStay
    <2>q. QED BY <2>1, <2>2 DEF Orderly
  <1>6. CASE q = k
    <2>1. Orderly(k)
      BY <1>4, <1>6 DEF OnceInv, AskedRow, NotAsked
    <2>2. asked[k].done = 0
      BY <1>1, <2>1 DEF Orderly
    <2>3. asked'[k].done = 1
      BY <1>4, <2>2 DEF Again
    <2>4. \A p \in Requests : p # r => ~Reviews(p, k)'
      BY <1>1, <2>1, OthersStay DEF Orderly
    <2>q. QED BY <1>1, <1>6, <2>3, <2>4 DEF Orderly
  <1>q. QED BY <1>5, <1>6

(* A review that leaves: it has made no change, or has marked it.             *)
LEMMA LeaveKeepsOnce ==
    ASSUME TypeInv, OnceInv, NEW r \in Requests, Goto(r, Idle),
           \A q \in Asks :
              /\ asked'[q].done = asked[q].done
              /\ ~asked'[q].torn => ~asked[q].torn /\ (asked'[q] # NotAsked => asked[q] # NotAsked)
              /\ Marker(r, q) => asked'[q].torn \/ asked'[q].status \in Closed
              /\ ~Reviews(r, q) => asked'[q].status = asked[q].status
    PROVE  OnceInv'
  <1> SUFFICES ASSUME NEW q \in Asks, asked'[q] # NotAsked, ~asked'[q].torn
               PROVE  Orderly(q)'
    BY DEF OnceInv
  <1>1. Orderly(q)
    BY DEF OnceInv
  <1>2. ~Reviews(r, q)' /\ ~Marker(r, q)'
    BY Moves DEF Reviews, Marker, Idle
  <1>3. \A p \in Requests : Reviews(p, q)' => p # r /\ Reviews(p, q)
    BY <1>2, OthersStay
  <1>4. \A p \in Requests : p # r => (Marker(p, q)' <=> Marker(p, q))
    BY OthersStay
  <1>5. asked'[q].done > 0 =>
            asked'[q].status \in Closed \/ \E p \in Requests : Marker(p, q)'
    <2> SUFFICES ASSUME asked'[q].done > 0
                 PROVE  asked'[q].status \in Closed \/ \E p \in Requests : Marker(p, q)'
      OBVIOUS
    <2>1. CASE Reviews(r, q)
      BY <1>1, <2>1 DEF Orderly
    <2>2. CASE ~Reviews(r, q)
      BY <1>1, <1>4, <2>2, MarkerReviews DEF Orderly
    <2>q. QED BY <2>1, <2>2
  <1>6. asked'[q].done <= 1
    BY <1>1 DEF Orderly
  <1>7. \A p \in Requests : Reviews(p, q)' /\ ~Marker(p, q)' => asked'[q].done = 0
    BY <1>1, <1>3, <1>4 DEF Orderly
  <1>8. \A p, o \in Requests : Reviews(p, q)' /\ Reviews(o, q)' => p = o
    BY <1>1, <1>3 DEF Orderly
  <1>q. QED BY <1>5, <1>6, <1>7, <1>8 DEF Orderly

LEMMA KeepOnce == TypeInv /\ OnceInv /\ [Next]_vars => OnceInv'
  <1> SUFFICES ASSUME TypeInv, OnceInv, [Next]_vars PROVE OnceInv'
    OBVIOUS
  <1>1. CASE UNCHANGED vars
    BY <1>1 DEF vars, OnceInv, Orderly, Reviews, Marker
  <1>0. ASSUME NEW r \in Requests, asked' = asked, NEW st, Goto(r, st),
               req[r].pc \in {"idle", "count", "create", "edit"},
               st.pc \in {"idle", "count", "create", "withdraw", "edit"}
        PROVE  OnceInv'
    <2>1. \A q \in Asks : ~Reviews(r, q) /\ ~Reviews(r, q)'
      BY <1>0, Moves DEF Reviews
    <2>q. QED BY <1>0, <2>1, AsideKeepsOnce
  <1>2. ASSUME NEW r \in Requests, Raise(r)
        PROVE  OnceInv'
    <2>1. ASSUME NEW change \in offered, RaiseRead(r, change)
          PROVE  OnceInv'
      <3> DEFINE st == [pc |-> "count", change |-> change]
      <3>1. Goto(r, st) /\ asked' = asked /\ st.pc = "count" /\ req[r].pc = "idle"
        BY <2>1 DEF RaiseRead, Idle
      <3> HIDE DEF st
      <3>q. QED BY <1>0, <3>1
    <2>2. CASE RaiseCount(r)
      <3> DEFINE st == [req[r] EXCEPT !.pc = "create"]
      <3>1. Goto(r, st) /\ asked' = asked /\ req[r].pc = "count"
        BY <2>2 DEF RaiseCount, Goto, TypeInv, TypeOK
      <3>2. st.pc = "create"
        BY <2>2, Places DEF RaiseCount, Raising
      <3> HIDE DEF st
      <3>q. QED BY <1>0, <3>1, <3>2
    <2>3. ASSUME NEW k \in Asks, RaiseCreate(r, k)
          PROVE  OnceInv'
      <3> DEFINE row == [change |-> req[r].change, by |-> r, status |-> "PENDING",
                         done |-> 0, torn |-> FALSE]
      <3>1. \A q \in Asks : asked'[q] = IF q = k THEN row ELSE asked[q]
        BY <2>3 DEF RaiseCreate, TypeInv, TypeOK
      <3>2. row.done = 0
        OBVIOUS
      <3> HIDE DEF row
      <3>3. Goto(r, Idle) /\ Idle.pc = "idle" /\ req[r].pc = "create"
        BY <2>3 DEF RaiseCreate, Idle
      <3>4. \A q \in Asks : ~Reviews(r, q) /\ ~Reviews(r, q)' /\ ~Marker(r, q) /\ ~Marker(r, q)'
        BY <3>3, Moves DEF Reviews, Marker
      <3>5. \A p \in Requests, q \in Asks :
                (Reviews(p, q)' <=> Reviews(p, q)) /\ (Marker(p, q)' <=> Marker(p, q))
        BY <3>3, <3>4, OthersStay
      <3>6. \A p \in Requests : ~Reviews(p, k)
        <4> SUFFICES ASSUME NEW p \in Requests, Reviews(p, k) PROVE FALSE
          OBVIOUS
        <4>1. asked[k] \in AskedRow
          BY InHand DEF Reviews, Holding
        <4>2. asked[k] = NotAsked
          BY <2>3 DEF RaiseCreate
        <4>q. QED BY <4>1, <4>2 DEF NotAsked, AskedRow
      <3> SUFFICES ASSUME NEW q \in Asks, asked'[q] # NotAsked, ~asked'[q].torn
                   PROVE  Orderly(q)'
        BY DEF OnceInv
      <3>7. CASE q = k
        BY <3>1, <3>2, <3>5, <3>6, <3>7 DEF Orderly
      <3>8. CASE q # k
        <4>1. Orderly(q) /\ asked'[q] = asked[q]
          BY <3>1, <3>8 DEF OnceInv
        <4>q. QED BY <3>5, <4>1 DEF Orderly
      <3>q. QED BY <3>7, <3>8
    <2>q. QED BY <1>2, <2>1, <2>2, <2>3 DEF Raise
  <1>3. ASSUME NEW r \in Requests, Withdraw(r)
        PROVE  OnceInv'
    <2>1. ASSUME NEW q \in Asks, WithdrawRead(r, q)
          PROVE  OnceInv'
      <3> DEFINE st == [pc |-> "withdraw", of |-> q]
      <3>1. Goto(r, st) /\ asked' = asked /\ st.pc = "withdraw" /\ req[r].pc = "idle"
        BY <2>1 DEF WithdrawRead, Idle
      <3> HIDE DEF st
      <3>q. QED BY <1>0, <3>1
    <2>2. CASE WithdrawCommit(r)
      <3> DEFINE k == req[r].of
                 row == [asked[k] EXCEPT !.status = "CANCELLED"]
      <3>1. k \in Asks /\ asked[k] \in AskedRow /\ asked[k] # NotAsked
        BY <2>2, InHand DEF WithdrawCommit, Holding, AskedRow, NotAsked
      <3>2. row.done = asked[k].done /\ row.torn = asked[k].torn /\ row.status \in Closed
        BY <3>1 DEF AskedRow, Closed
      <3>3. Goto(r, Idle) /\ Idle.pc = "idle" /\ req[r].pc = "withdraw"
        BY <2>2 DEF WithdrawCommit, Idle
      <3>4. \A q \in Asks : asked'[q] = IF q = k THEN row ELSE asked[q]
        BY <2>2 DEF WithdrawCommit, TypeInv, TypeOK
      <3>5. \A q \in Asks : ~Reviews(r, q) /\ ~Reviews(r, q)'
        BY <3>3, Moves DEF Reviews
      <3> HIDE DEF row, k
      <3>6. \A q \in Asks : \/ asked'[q] = asked[q]
                            \/ /\ asked'[q].done = asked[q].done
                               /\ asked'[q].torn = asked[q].torn
                               /\ asked'[q].status \in Closed /\ asked[q] # NotAsked
        BY <3>1, <3>2, <3>4
      <3>q. QED BY <3>3, <3>5, <3>6, AsideKeepsOnce
    <2>q. QED BY <1>3, <2>1, <2>2 DEF Withdraw
  <1>4. ASSUME NEW r \in Requests, NEW k \in Asks, NEW to \in Verdicts, ReviewRead(r, k, to)
        PROVE  OnceInv'
    <2> DEFINE st == IF to = "APPLIED" THEN [pc |-> "apply", of |-> k]
                     ELSE [pc |-> "mark", of |-> k, to |-> to]
               b == asked[k].torn \/ \E p \in Requests : Reviews(p, k)
               row == [asked[k] EXCEPT !.torn = b]
    <2>1. asked[k] \in AskedRow /\ asked[k].status \in Open /\ asked[k] # NotAsked
      BY <1>4, RowsOrNot DEF ReviewRead, Open
    <2>2. \A q \in Asks : asked'[q] = IF q = k THEN row ELSE asked[q]
      BY <1>4 DEF ReviewRead, TypeInv, TypeOK
    <2>3. Goto(r, st) /\ req[r].pc = "idle"
      BY <1>4 DEF ReviewRead, Idle
    <2>4. st.of = k /\ st.pc \in {"apply", "mark"} /\ (st.pc = "mark" => st.to # "APPLIED")
      OBVIOUS
    <2>5. row.done = asked[k].done /\ (row.torn <=> b)
      BY <2>1 DEF AskedRow
    <2> HIDE DEF st, row
    <2>6. \A q \in Asks : q # k => (~Reviews(r, q) /\ ~Reviews(r, q)')
      BY <2>3, <2>4, Moves DEF Reviews
    <2>7. \A q \in Asks : ~Marker(r, q) /\ ~Marker(r, q)'
      BY <2>3, <2>4, Moves DEF Marker
    <2> SUFFICES ASSUME NEW q \in Asks, asked'[q] # NotAsked, ~asked'[q].torn
                 PROVE  Orderly(q)'
      BY DEF OnceInv
    <2>8. CASE q # k
      <3>1. Orderly(q) /\ asked'[q] = asked[q]
        BY <2>2, <2>8 DEF OnceInv
      <3>2. \A p \in Requests :
                (Reviews(p, q)' <=> Reviews(p, q)) /\ (Marker(p, q)' <=> Marker(p, q))
        BY <2>3, <2>6, <2>7, <2>8, OthersStay
      <3>q. QED BY <3>1, <3>2 DEF Orderly
    <2>9. CASE q = k
      <3>1. ~asked[k].torn /\ \A p \in Requests : ~Reviews(p, k)
        BY <2>2, <2>5, <2>9
      <3>2. Orderly(k)
        BY <2>1, <3>1 DEF OnceInv
      <3>3. asked[k].done = 0
        BY <2>1, <3>1, <3>2, MarkerReviews DEF Orderly, Open, Closed, AskedRow
      <3>4. \A p \in Requests : p # r => ~Reviews(p, k)'
        BY <2>3, <3>1, OthersStay
      <3>5. asked'[k].done = 0
        BY <2>2, <2>5, <3>3
      <3>q. QED BY <2>9, <3>4, <3>5 DEF Orderly
    <2>q. QED BY <2>8, <2>9
  <1>5. ASSUME NEW r \in Requests, ReviewMark(r)
        PROVE  OnceInv'
    <2> DEFINE k == req[r].of
               row == [asked[k] EXCEPT !.status = req[r].to]
    <2>1. k \in Asks /\ asked[k] \in AskedRow /\ asked[k] # NotAsked
      BY <1>5, InHand DEF ReviewMark, Holding, AskedRow, NotAsked
    <2>2. row.done = asked[k].done /\ row.torn = asked[k].torn /\ row.status = req[r].to
      BY <2>1 DEF AskedRow
    <2>3. Goto(r, Idle)
      BY <1>5 DEF ReviewMark
    <2>4. \A q \in Asks : asked'[q] = IF q = k THEN row ELSE asked[q]
      BY <1>5 DEF ReviewMark, TypeInv, TypeOK
    <2>5. \A q \in Asks : Marker(r, q) => q = k /\ req[r].to \in Closed
      BY DEF Marker, Closed
    <2>6. \A q \in Asks : ~Reviews(r, q) => q # k
      BY <1>5 DEF ReviewMark, Reviews
    <2> HIDE DEF row, k
    <2>q. QED BY <2>1, <2>2, <2>3, <2>4, <2>5, <2>6, LeaveKeepsOnce
  <1>6. ASSUME NEW r \in Requests, Apply(r)
        PROVE  OnceInv'
    <2>1. ASSUME ApplyRead(r) \/ ApplyItems(r) \/ ApplyDelete(r)
                 \/ (CancelRead(r) /\ sub.status # "CANCELLED")
          PROVE  OnceInv'
      <3>1. \E st : Goto(r, st) /\ asked' = asked /\ st.of = req[r].of
                    /\ st.pc \in {"cancel", "items", "delete", "replace", "cancelled"}
        BY <2>1 DEF ApplyRead, ApplyItems, ApplyDelete, CancelRead
      <3>2. req[r].pc \in {"apply", "items", "delete", "cancel"}
        BY <2>1 DEF ApplyRead, ApplyItems, ApplyDelete, CancelRead
      <3>3. PICK st : Goto(r, st) /\ asked' = asked /\ st.of = req[r].of
                      /\ st.pc \in {"cancel", "items", "delete", "replace", "cancelled"}
        BY <3>1
      <3>4. \A q \in Asks : /\ Reviews(r, q)' <=> Reviews(r, q)
                            /\ ~Marker(r, q) /\ ~Marker(r, q)'
        BY <3>2, <3>3, Moves DEF Reviews, Marker
      <3>q. QED BY <3>3, <3>4, AdvanceKeepsOnce
    <2>2. ASSUME ApplyCommit(r) \/ CancelCommit(r) \/ (CancelRead(r) /\ sub.status = "CANCELLED")
          PROVE  OnceInv'
      <3> DEFINE k == req[r].of
      <3>1. /\ req[r].pc \in {"replace", "cancel", "cancelled"}
            /\ k \in Asks /\ asked[k] \in AskedRow
            /\ asked' = [asked EXCEPT ![k] = [asked[k] EXCEPT !.done = Again(@)]]
            /\ Goto(r, [pc |-> "mark", of |-> k, to |-> "APPLIED"])
        BY <2>2, MadeSteps
      <3>2. k = req[r].of
        OBVIOUS
      <3> HIDE DEF k
      <3>q. QED BY <3>1, <3>2, MakeKeepsOnce
    <2>q. QED BY <1>6, <2>1, <2>2 DEF Apply
  <1>7. ASSUME NEW r \in Requests, Edit(r)
        PROVE  OnceInv'
    <2>1. ASSUME NEW plan \in {Same} \cup Plans, NEW status \in {Same} \cup StaffStatuses,
                 EditRead(r, plan, status)
          PROVE  OnceInv'
      <3>1. \E st : Goto(r, st) /\ asked' = asked /\ st.pc = "edit" /\ req[r].pc = "idle"
        BY <2>1 DEF EditRead, Idle
      <3>q. QED BY <1>0, <3>1
    <2>2. CASE EditCommit(r)
      <3>1. Goto(r, Idle) /\ asked' = asked /\ Idle.pc = "idle" /\ req[r].pc = "edit"
        BY <2>2 DEF EditCommit, Idle
      <3>q. QED BY <1>0, <3>1
    <2>q. QED BY <1>7, <2>1, <2>2 DEF Edit
  <1>8. ASSUME NEW r \in Requests, Abandon(r)
        PROVE  OnceInv'
    <2>1. Goto(r, Idle)
      BY <1>8 DEF Abandon
    <2>2. ASSUME NEW q \in Asks
          PROVE  /\ asked'[q].done = asked[q].done
                 /\ ~asked'[q].torn => ~asked[q].torn /\ asked'[q] = asked[q]
                 /\ Marker(r, q) => asked'[q].torn
                 /\ asked'[q].status = asked[q].status
      <3>1. CASE Marker(r, q)
        <4>1. asked[q] \in AskedRow
          BY <3>1, InHand DEF Marker, Holding
        <4>2. asked'[q] = [asked[q] EXCEPT !.torn = TRUE]
          BY <1>8, <3>1 DEF Abandon, Marker
        <4>q. QED BY <4>1, <4>2 DEF AskedRow
      <3>2. CASE ~Marker(r, q)
        BY <1>8, <3>2 DEF Abandon, Marker
      <3>q. QED BY <3>1, <3>2
    <2>q. QED BY <2>1, <2>2, LeaveKeepsOnce
  <1>q. QED BY <1>1, <1>2, <1>3, <1>4, <1>5, <1>6, <1>7, <1>8 DEF Next, Review

(* AppliedOnce: no change is made twice, unless two reviews of it overlapped  *)
(* or one ended between the change and its mark.                              *)
THEOREM ChangesAreMadeOnce == Spec => []AppliedOnce
  <1>1. Init => OnceInv
    BY DEF Init, OnceInv
  <1>2. TypeInv /\ OnceInv => AppliedOnce
    BY DEF TypeInv, TypeOK, AskedRow, OnceInv, AppliedOnce, Orderly
  <1>q. QED BY <1>1, <1>2, KeepOnce, TypeCorrect, PTL DEF Spec
=============================================================================
