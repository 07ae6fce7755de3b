------------------------- MODULE SubscriptionChanges -------------------------
(***************************************************************************)
(* Changes to one subscription: the customer's change requests, their      *)
(* review by staff, applyChange with the items it rebuilds, and            *)
(* adminUpdateForCustomer, which edits the same row by hand.               *)
(*                                                                         *)
(* Each API request is a process and each awaited statement one step; a    *)
(* request that is refused changes nothing and is not a step.  A tariff (a *)
(* plan and add-ons) stands for the amount quoted for it, and one record   *)
(* of items for the item rows built from one quote.                        *)
(***************************************************************************)
EXTENDS Integers, FiniteSets

CONSTANTS
    Requests,       \* API requests in flight at once
    Asks,           \* change requests a behaviour may see
    Plans, Addons,  \* what is on sale
    FirstPlan,      \* the plan the subscription begins with
    Nobody,         \* who built the first items
    Offers,         \* the sets of changes that a customer may ask for
    Verdicts,       \* decisions that staff give
    StaffStatuses,  \* statuses staff set by hand
    MaxBuilt,       \* bound: how often the items are rebuilt
    MaxEdits        \* bound: edits by hand

Statuses == {"PENDING", "ACTIVE", "SUSPENDED", "EXPIRED", "CANCELLED"}

\* UPGRADE and DOWNGRADE differ in name alone.
Change == [type: {"PLAN"}, to: Plans] \cup [type: {"ADDON_ADDED", "ADDON_REMOVED"}, to: Addons]
          \cup [type: {"CANCELLED"}]

\* Of the change requests.
Open == {"PENDING", "APPROVED"}
Closed == {"REJECTED", "APPLIED", "CANCELLED"}

ASSUME ChangesAssumption ==
    /\ FirstPlan \in Plans
    /\ Nobody \notin Requests
    /\ Offers \subseteq SUBSET Change
    /\ Verdicts \subseteq {"APPROVED"} \cup Closed
    /\ StaffStatuses \subseteq Statuses
    /\ MaxBuilt \in Nat /\ MaxEdits \in Nat

VARIABLES
    offered,  \* the changes this customer may ask for; never changes
    sub,      \* the subscription's row
    items,    \* its item rows, as sets built together
    asked,    \* the change requests
    retyped,  \* staff rewrote the amount since the items were last built
    overtaken,  \* requests whose open rebuild another's commit has passed
    mixed,    \* the items were last built by a request that was overtaken
    built,    \* how often the items were rebuilt
    edits,    \* how many edits by hand were begun
    req       \* what each request read and where it stands

vars == <<offered, sub, items, asked, retyped, overtaken, mixed, built, edits, req>>

Same == "same"   \* a field the staff's form leaves out
Tariff == [plan: Plans, addons: SUBSET Addons]
SubRow == [status: Statuses, plan: Plans, priced: Tariff]
ItemSet == [n: Nat, by: Requests \cup {Nobody}, tariff: Tariff]

\* done: whether the change was made, once or again.  torn: two requests reviewed it at
\* once, or one ended between the change and its mark.
NotAsked == [status |-> "none"]
AskedRow == [change: Change, by: Requests, status: Open \cup Closed, done: 0..2, torn: BOOLEAN]

Again(n) == IF n = 0 THEN 1 ELSE 2

Idle == [pc |-> "idle"]
Raising == [pc: {"count", "create"}, change: Change]
Withdrawing == [pc: {"withdraw"}, of: Asks]
Marking == [pc: {"mark"}, of: Asks, to: Verdicts \cup {"APPLIED"}]
Applying == [pc: {"apply", "cancel", "cancelled"}, of: Asks]
Reading == [pc: {"items"}, of: Asks, plan: Plans]
Quoted == [pc: {"delete"}, of: Asks, tariff: Tariff]
Replacing == [pc: {"replace"}, of: Asks, tariff: Tariff, doomed: SUBSET ItemSet]
Editing == [pc: {"edit"}, status: {Same} \cup Statuses, plan: {Same} \cup Plans, priced: Tariff]
ReqState == {Idle} \cup Raising \cup Withdrawing \cup Marking \cup Applying \cup Reading
            \cup Quoted \cup Replacing \cup Editing

First == [plan |-> FirstPlan, addons |-> {}]

Init ==
    /\ offered \in Offers
    /\ sub = [status |-> "ACTIVE", plan |-> FirstPlan, priced |-> First]
    /\ items = {[n |-> 0, by |-> Nobody, tariff |-> First]}
    /\ asked = [q \in Asks |-> NotAsked]
    /\ retyped = FALSE
    /\ overtaken = {}
    /\ mixed = FALSE
    /\ built = 0
    /\ edits = 0
    /\ req = [r \in Requests |-> Idle]

Goto(r, state) == req' = [req EXCEPT ![r] = state]

\* A request that reviews q, from its first read to its mark.
Reviews(r, q) ==
    /\ req[r].pc \in {"apply", "items", "delete", "replace", "cancel", "cancelled", "mark"}
    /\ req[r].of = q

-----------------------------------------------------------------------------
(* createChangeRequest *)

RaiseRead(r, change) ==
    /\ req[r] = Idle
    /\ sub.status \in {"ACTIVE", "SUSPENDED"}
    /\ change.type = "PLAN" => change.to # sub.plan
    /\ Goto(r, [pc |-> "count", change |-> change])
    /\ UNCHANGED <<offered, sub, items, asked, retyped, overtaken, mixed, built, edits>>

RaiseCount(r) ==
    /\ req[r].pc = "count"
    /\ \A q \in Asks : asked[q].status # "PENDING"
    /\ req' = [req EXCEPT ![r].pc = "create"]
    /\ UNCHANGED <<offered, sub, items, asked, retyped, overtaken, mixed, built, edits>>

RaiseCreate(r, q) ==
    /\ req[r].pc = "create"
    /\ asked[q] = NotAsked
    /\ asked' = [asked EXCEPT ![q] = [change |-> req[r].change, by |-> r, status |-> "PENDING",
                                      done |-> 0, torn |-> FALSE]]
    /\ Goto(r, Idle)
    /\ UNCHANGED <<offered, sub, items, retyped, overtaken, mixed, built, edits>>

-----------------------------------------------------------------------------
(* withdrawChangeRequest *)

WithdrawRead(r, q) ==
    /\ req[r] = Idle
    /\ asked[q].status = "PENDING"
    /\ Goto(r, [pc |-> "withdraw", of |-> q])
    /\ UNCHANGED <<offered, sub, items, asked, retyped, overtaken, mixed, built, edits>>

WithdrawCommit(r) ==
    /\ req[r].pc = "withdraw"
    /\ asked' = [asked EXCEPT ![req[r].of].status = "CANCELLED"]
    /\ Goto(r, Idle)
    /\ UNCHANGED <<offered, sub, items, retyped, overtaken, mixed, built, edits>>

-----------------------------------------------------------------------------
(* reviewChangeRequest *)

\* Defect: what is marked as applied may be reviewed again.
ReviewReadAny(r, q, to) ==
    /\ req[r] = Idle
    /\ asked[q].status \in Open \cup {"APPLIED"}
    /\ Goto(r, IF to = "APPLIED" THEN [pc |-> "apply", of |-> q]
               ELSE [pc |-> "mark", of |-> q, to |-> to])
    /\ asked' = [asked EXCEPT ![q].torn = @ \/ \E p \in Requests : Reviews(p, q)]
    /\ UNCHANGED <<offered, sub, items, retyped, overtaken, mixed, built, edits>>

ReviewRead(r, q, to) ==
    /\ req[r] = Idle
    /\ asked[q].status \in Open
    /\ Goto(r, IF to = "APPLIED" THEN [pc |-> "apply", of |-> q]
               ELSE [pc |-> "mark", of |-> q, to |-> to])
    /\ asked' = [asked EXCEPT ![q].torn = @ \/ \E p \in Requests : Reviews(p, q)]
    /\ UNCHANGED <<offered, sub, items, retyped, overtaken, mixed, built, edits>>

\* The request's row, by its id, whatever has become of it.
ReviewMark(r) ==
    /\ req[r].pc = "mark"
    /\ asked' = [asked EXCEPT ![req[r].of].status = req[r].to]
    /\ Goto(r, Idle)
    /\ UNCHANGED <<offered, sub, items, retyped, overtaken, mixed, built, edits>>

-----------------------------------------------------------------------------
(* applyChange: the subscription's row, then its items, then the quote *)

ApplyRead(r) ==
    /\ req[r].pc = "apply"
    /\ LET q == req[r].of
       IN  Goto(r, IF asked[q].change.type = "CANCELLED" THEN [pc |-> "cancel", of |-> q]
                   ELSE [pc |-> "items", of |-> q, plan |-> sub.plan])
    /\ UNCHANGED <<offered, sub, items, asked, retyped, overtaken, mixed, built, edits>>

\* nextAddonIds: the add-ons of the items that are there, and the change.
NextAddons(change) ==
    LET current == UNION {i.tariff.addons : i \in items}
    IN  CASE change.type = "ADDON_ADDED"   -> current \cup {change.to}
          [] change.type = "ADDON_REMOVED" -> current \ {change.to}
          [] OTHER                         -> current

ApplyItems(r) ==
    /\ req[r].pc = "items"
    /\ LET q == req[r].of
           change == asked[q].change
           plan == IF change.type = "PLAN" THEN change.to ELSE req[r].plan
       IN  Goto(r, [pc |-> "delete", of |-> q,
                    tariff |-> [plan |-> plan, addons |-> NextAddons(change)]])
    /\ UNCHANGED <<offered, sub, items, asked, retyped, overtaken, mixed, built, edits>>

\* Defect: an add-on is added to the items that are there.
ApplyDeletePatch(r) ==
    /\ req[r].pc = "delete"
    /\ LET q == req[r].of
       IN  Goto(r, [pc |-> "replace", of |-> q, tariff |-> req[r].tariff,
                    doomed |-> IF asked[q].change.type = "ADDON_ADDED" THEN {} ELSE items])
    /\ overtaken' = overtaken \ {r}
    /\ UNCHANGED <<offered, sub, items, asked, retyped, mixed, built, edits>>

\* deleteMany sees the items of its own moment: another transaction that has
\* deleted them makes it wait, and what that one then creates it does not see.
ApplyDelete(r) ==
    /\ req[r].pc = "delete"
    /\ Goto(r, [pc |-> "replace", of |-> req[r].of, tariff |-> req[r].tariff, doomed |-> items])
    /\ overtaken' = overtaken \ {r}
    /\ UNCHANGED <<offered, sub, items, asked, retyped, mixed, built, edits>>

\* The rest of the transaction: the row, the new items, the history's row.
ApplyCommit(r) ==
    /\ req[r].pc = "replace"
    /\ built < MaxBuilt
    /\ LET tariff == req[r].tariff
           q == req[r].of
       IN  /\ items' = (items \ req[r].doomed) \cup {[n |-> built + 1, by |-> r, tariff |-> tariff]}
           /\ sub' = [sub EXCEPT !.plan = tariff.plan, !.priced = tariff]
           /\ asked' = [asked EXCEPT ![q].done = Again(@)]
           /\ Goto(r, [pc |-> "mark", of |-> q, to |-> "APPLIED"])
    /\ built' = built + 1
    /\ retyped' = FALSE
    /\ mixed' = (r \in overtaken)
    /\ overtaken' = {p \in Requests \ {r} : p \in overtaken \/ req[p].pc = "replace"}
    /\ UNCHANGED <<offered, edits>>

-----------------------------------------------------------------------------
(* cancel, by transition: a subscription that is cancelled already stays so *)

CancelRead(r) ==
    /\ req[r].pc = "cancel"
    /\ LET q == req[r].of
       IN  IF sub.status = "CANCELLED"
           THEN /\ asked' = [asked EXCEPT ![q].done = Again(@)]
                /\ Goto(r, [pc |-> "mark", of |-> q, to |-> "APPLIED"])
           ELSE /\ Goto(r, [pc |-> "cancelled", of |-> q])
                /\ UNCHANGED asked
    /\ UNCHANGED <<offered, sub, items, retyped, overtaken, mixed, built, edits>>

CancelCommit(r) ==
    /\ req[r].pc = "cancelled"
    /\ sub' = [sub EXCEPT !.status = "CANCELLED"]
    /\ LET q == req[r].of
       IN  /\ asked' = [asked EXCEPT ![q].done = Again(@)]
           /\ Goto(r, [pc |-> "mark", of |-> q, to |-> "APPLIED"])
    /\ UNCHANGED <<offered, items, retyped, overtaken, mixed, built, edits>>

-----------------------------------------------------------------------------
(* adminUpdateForCustomer *)

\* A plan other than the one read is quoted without add-ons; with the one that
\* was read, the amount that was read is written back.
EditRead(r, plan, status) ==
    /\ req[r] = Idle
    /\ edits < MaxEdits
    /\ edits' = edits + 1
    /\ Goto(r, [pc |-> "edit", status |-> status, plan |-> plan,
                priced |-> IF plan \in {Same, sub.plan} THEN sub.priced
                           ELSE [plan |-> plan, addons |-> {}]])
    /\ UNCHANGED <<offered, sub, items, asked, retyped, overtaken, mixed, built>>

\* Defect: a status that the form leaves out is written too.
EditCommitBlank(r) ==
    /\ req[r].pc = "edit"
    /\ LET priced == IF req[r].plan = Same THEN sub.priced ELSE req[r].priced
       IN  /\ sub' = [status |-> req[r].status,
                      plan |-> IF req[r].plan = Same THEN sub.plan ELSE req[r].plan,
                      priced |-> priced]
           /\ retyped' = (retyped \/ priced # sub.priced)
    /\ Goto(r, Idle)
    /\ UNCHANGED <<offered, items, asked, overtaken, mixed, built, edits>>

\* The items stay as they are.
EditCommit(r) ==
    /\ req[r].pc = "edit"
    /\ LET priced == IF req[r].plan = Same THEN sub.priced ELSE req[r].priced
       IN  /\ sub' = [status |-> IF req[r].status = Same THEN sub.status ELSE req[r].status,
                      plan |-> IF req[r].plan = Same THEN sub.plan ELSE req[r].plan,
                      priced |-> priced]
           /\ retyped' = (retyped \/ priced # sub.priced)
    /\ Goto(r, Idle)
    /\ UNCHANGED <<offered, items, asked, overtaken, mixed, built, edits>>

-----------------------------------------------------------------------------
\* Defect: what a change throws is logged, and the review goes on to its mark.
AbandonMarking(r) ==
    /\ req[r] # Idle
    /\ Goto(r, IF req[r].pc \in {"items", "delete", "replace"}
               THEN [pc |-> "mark", of |-> req[r].of, to |-> "APPLIED"] ELSE Idle)
    /\ UNCHANGED <<offered, sub, items, asked, retyped, overtaken, mixed, built, edits>>

\* A statement throws (a plan no longer sold, say) or the process dies.
Abandon(r) ==
    /\ req[r] # Idle
    /\ asked' = [q \in Asks |->
                   IF req[r].pc = "mark" /\ req[r].of = q /\ req[r].to = "APPLIED"
                   THEN [asked[q] EXCEPT !.torn = TRUE] ELSE asked[q]]
    /\ Goto(r, Idle)
    /\ UNCHANGED <<offered, sub, items, retyped, overtaken, mixed, built, edits>>

Raise(r) ==
    \/ \E change \in offered : RaiseRead(r, change)
    \/ RaiseCount(r)
    \/ \E q \in Asks : RaiseCreate(r, q)

Withdraw(r) == WithdrawCommit(r) \/ \E q \in Asks : WithdrawRead(r, q)

Review(r) ==
    \/ \E q \in Asks, to \in Verdicts : ReviewRead(r, q, to)
    \/ ReviewMark(r)

Apply(r) ==
    \/ ApplyRead(r) \/ ApplyItems(r) \/ ApplyDelete(r) \/ ApplyCommit(r)
    \/ CancelRead(r) \/ CancelCommit(r)

Edit(r) ==
    \/ \E plan \in {Same} \cup Plans, status \in {Same} \cup StaffStatuses :
          EditRead(r, plan, status)
    \/ EditCommit(r)

Next == \E r \in Requests :
    Raise(r) \/ Withdraw(r) \/ Review(r) \/ Apply(r) \/ Edit(r) \/ Abandon(r)

Spec == Init /\ [][Next]_vars

-----------------------------------------------------------------------------
(* Properties *)

TypeOK ==
    /\ offered \in SUBSET Change
    /\ sub \in SubRow
    /\ items \in SUBSET ItemSet
    /\ asked \in [Asks -> {NotAsked} \cup AskedRow]
    /\ retyped \in BOOLEAN
    /\ overtaken \in SUBSET Requests
    /\ mixed \in BOOLEAN
    /\ built \in 0..MaxBuilt
    /\ edits \in 0..MaxEdits
    /\ req \in [Requests -> ReqState]

\* "Items are rebuilt from the new quote rather than patched, so `monthlyAmount` and
\* the item rows can never drift apart" (subscriptions.service.ts:724).  They can in
\* two ways: the items were last built by a request that another had overtaken since
\* it deleted them, or staff wrote another amount since.  Whatever else overlaps or
\* dies, every item is one for the amount; and the next rebuild puts both right.
ItemsMatchAmount == mixed \/ retyped \/ \A i \in items : i.tariff = sub.priced

\* Overlapping changes leave items of each behind, never two copies of one
\* request's: the copies never outnumber the requests that overlapped.
OneCopyEach == \A i, j \in items : i.by = j.by => i = j

\* "You already have a change request under review": two are under review at
\* once only when the requests that raised them were in flight together.
OnePendingEach ==
    \A p, q \in Asks :
        asked[p].status = "PENDING" /\ asked[q].status = "PENDING" /\ asked[p].by = asked[q].by
            => p = q

\* A request marked as applied has been applied, though a review may die or be
\* overtaken, and the mark is a statement of its own.
AppliedMeansDone == \A q \in Asks : asked[q].status = "APPLIED" => asked[q].done > 0

\* No change is made twice, unless two reviews of it overlapped or one ended
\* between the change and its mark.
AppliedOnce == \A q \in Asks : asked[q] # NotAsked /\ asked[q].done > 1 => asked[q].torn
=============================================================================
