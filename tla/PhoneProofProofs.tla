-------------------------- MODULE PhoneProofProofs --------------------------
(***************************************************************************)
(* Theorems about PhoneProof, for any number of contacts and requests in   *)
(* flight, and every limit.                                                *)
(***************************************************************************)
EXTENDS PhoneProof, FiniteSetTheorems, TLAPS

CodePcs == {"miss", "prove", "consume", "open"}

\* The program counter of a request tells which record it holds.
LEMMA ProcKinds ==
    ASSUME NEW q \in ProcState
    PROVE  /\ q # Idle => q.pc # "idle"
           /\ q.pc \in {"count", "mail", "create"} => q \in Issuing
           /\ q.pc \in CodePcs => q \in OnCode
  BY DEF ProcState, Idle, Issuing, OnCode, CodePcs

LEMMA KindsOfProc ==
    /\ Idle \in ProcState /\ Idle.pc = "idle"
    /\ \A pc \in {"count", "mail", "create"}, c \in Contacts :
          [pc |-> pc, contact |-> c] \in ProcState
    /\ \A pc \in CodePcs, k \in Codes : [pc |-> pc, code |-> k] \in ProcState
  BY DEF ProcState, Idle, Issuing, OnCode, CodePcs

-----------------------------------------------------------------------------
(* Type correctness *)

\* Whoever is at work holds the number, and works on a row there is.
AtWork ==
    \A r \in Requests :
        /\ proc[r].pc # "idle" => r \in live
        /\ proc[r].pc \in CodePcs => proc[r].code \in 1..issued

TypeInv == TypeOK /\ AtWork

LEMMA Numbers ==
    ASSUME TypeInv
    PROVE  /\ issued \in Nat /\ issued <= MaxCodes /\ MaxCodes \in Nat
           /\ 1..issued \subseteq Codes
           /\ \A k \in 1..issued : code[k] \in CodeRow
           /\ \A r \in Requests : proc[r] \in ProcState
  BY PhoneProofAssumption DEF TypeInv, TypeOK, Codes

LEMMA InitTypeInv == Init => TypeInv
  <1> SUFFICES ASSUME Init PROVE TypeInv
    OBVIOUS
  <1>1. proc \in [Requests -> ProcState]
    BY KindsOfProc DEF Init
  <1>2. 0 \in 0..MaxCodes /\ 1..0 = {}
    BY PhoneProofAssumption
  <1>3. code \in [1..issued -> CodeRow]
    BY <1>2 DEF Init
  <1> QED
    BY <1>1, <1>2, <1>3 DEF Init, TypeInv, TypeOK, AtWork, Idle, CodePcs

\* A step of one request changes its own record.
LEMMA ProcStep ==
    ASSUME TypeOK, NEW r \in Requests, NEW next \in ProcState,
           proc' = [proc EXCEPT ![r] = next]
    PROVE  /\ proc' \in [Requests -> ProcState]
           /\ proc'[r] = next
           /\ \A q \in Requests : q # r => proc'[q] = proc[q]
  BY DEF TypeOK

\* What a step may write into a row, but for the attempts and the consumption.
Kept(row, new) ==
    /\ new \in CodeRow
    /\ new.contact = row.contact
    /\ row.verified => new.verified
    /\ row.expired => new.expired

LEMMA ExpiredRow ==
    ASSUME NEW row \in CodeRow
    PROVE  LET new == [row EXCEPT !.expired = TRUE]
           IN  /\ Kept(row, new) /\ new.attempts = row.attempts
               /\ new.expired /\ new.consumed = row.consumed
  BY DEF CodeRow, Kept

LEMMA TriedRow ==
    ASSUME NEW row \in CodeRow
    PROVE  LET new == [row EXCEPT !.attempts = @ + 1]
           IN  /\ Kept(row, new) /\ new.attempts = row.attempts + 1
               /\ new.consumed = row.consumed
  BY DEF CodeRow, Kept

LEMMA ProvedRow ==
    ASSUME NEW row \in CodeRow
    PROVE  LET new == [row EXCEPT !.verified = TRUE, !.proof = TRUE,
                                  !.proofExpired = FALSE]
           IN  /\ Kept(row, new) /\ new.attempts = row.attempts
               /\ new.consumed = row.consumed
  BY DEF CodeRow, Kept

LEMMA ConsumedRow ==
    ASSUME NEW row \in CodeRow
    PROVE  LET new == [row EXCEPT !.consumed = TRUE, !.proof = FALSE]
           IN  Kept(row, new) /\ new.attempts = row.attempts /\ new.consumed
  BY DEF CodeRow, Kept

LEMMA StaleRow ==
    ASSUME NEW row \in CodeRow
    PROVE  LET new == [row EXCEPT !.proofExpired = TRUE]
           IN  /\ Kept(row, new) /\ new.attempts = row.attempts
               /\ new.consumed = row.consumed
  BY DEF CodeRow, Kept

LEMMA OlderRow ==
    ASSUME NEW row \in CodeRow
    PROVE  LET new == [row EXCEPT !.age = IF @ = "fresh" THEN "recent" ELSE "old"]
           IN  /\ Kept(row, new) /\ new.attempts = row.attempts
               /\ new.consumed = row.consumed
  <1>1. (IF row.age = "fresh" THEN "recent" ELSE "old") \in {"fresh", "recent", "old"}
    OBVIOUS
  <1> QED
    BY <1>1 DEF CodeRow, Kept

LEMMA SameRow == \A row \in CodeRow : Kept(row, row)
  BY DEF Kept

\* What the steps other than the creation of a row do to the rows there are.
RowsKept ==
    /\ issued' = issued
    /\ code' \in [1..issued -> CodeRow]
    /\ \A k \in 1..issued :
          Kept(code[k], code'[k]) /\ (code[k].consumed => code'[k].consumed)

\* ... and all but Miss and ConsumeProof.
RowsQuiet ==
    /\ RowsKept
    /\ \A k \in 1..issued : /\ code'[k].attempts = code[k].attempts
                            /\ code'[k].consumed = code[k].consumed

\* One row of those there are is written.
LEMMA OneRow ==
    ASSUME TypeInv, NEW k \in 1..issued, NEW new \in CodeRow, issued' = issued,
           code' = [code EXCEPT ![k] = new]
    PROVE  /\ code' \in [1..issued -> CodeRow]
           /\ code'[k] = new
           /\ \A j \in 1..issued : j # k => code'[j] = code[j]
  BY DEF TypeInv, TypeOK

LEMMA QuietRow ==
    ASSUME TypeInv, issued' = issued, NEW k \in 1..issued, NEW new,
           Kept(code[k], new), new.attempts = code[k].attempts,
           new.consumed = code[k].consumed,
           code' = [code EXCEPT ![k] = new]
    PROVE  RowsQuiet
  <1>1. /\ code' \in [1..issued -> CodeRow] /\ code'[k] = new
        /\ \A j \in 1..issued : j # k => code'[j] = code[j]
    <2>1. new \in CodeRow
      BY DEF Kept
    <2> QED
      BY <2>1, OneRow
  <1>2. \A j \in 1..issued : Kept(code[j], code[j])
    BY Numbers, SameRow
  <1> QED
    BY <1>1, <1>2 DEF RowsQuiet, RowsKept

LEMMA SameRows ==
    ASSUME TypeInv, UNCHANGED <<code, issued>>
    PROVE  RowsQuiet
  <1>1. \A j \in 1..issued : Kept(code[j], code[j])
    BY Numbers, SameRow
  <1> QED
    BY <1>1 DEF RowsQuiet, RowsKept, TypeInv, TypeOK

LEMMA TimePassesQuietly ==
    ASSUME TypeInv, TimePasses
    PROVE  RowsQuiet /\ UNCHANGED <<live, misses, opened, proc>>
  <1>1. PICK k \in 1..issued : CreationAges(k) \/ CodeExpires(k) \/ ProofExpires(k)
    BY DEF TimePasses
  <1>2. code[k] \in CodeRow /\ code \in [1..issued -> CodeRow]
    BY Numbers DEF TypeInv, TypeOK
  <1>3. UNCHANGED <<live, issued, misses, opened, proc>>
    BY <1>1 DEF CreationAges, CodeExpires, ProofExpires
  <1>4. CASE CreationAges(k)
    <2> DEFINE new == [code[k] EXCEPT !.age = IF @ = "fresh" THEN "recent" ELSE "old"]
    <2>1. /\ Kept(code[k], new) /\ new.attempts = code[k].attempts
          /\ new.consumed = code[k].consumed
      BY <1>2, OlderRow
    <2>2. code' = [code EXCEPT ![k] = new]
      BY <1>2, <1>4 DEF CreationAges
    <2> HIDE DEF new
    <2> QED
      BY <1>3, <2>1, <2>2, QuietRow
  <1>5. CASE CodeExpires(k)
    <2> DEFINE new == [code[k] EXCEPT !.expired = TRUE]
    <2>1. /\ Kept(code[k], new) /\ new.attempts = code[k].attempts
          /\ new.consumed = code[k].consumed
      BY <1>2, ExpiredRow
    <2>2. code' = [code EXCEPT ![k] = new]
      BY <1>2, <1>5 DEF CodeExpires
    <2> HIDE DEF new
    <2> QED
      BY <1>3, <2>1, <2>2, QuietRow
  <1>6. CASE ProofExpires(k)
    <2> DEFINE new == [code[k] EXCEPT !.proofExpired = TRUE]
    <2>1. /\ Kept(code[k], new) /\ new.attempts = code[k].attempts
          /\ new.consumed = code[k].consumed
      BY <1>2, StaleRow
    <2>2. code' = [code EXCEPT ![k] = new]
      BY <1>2, <1>6 DEF ProofExpires
    <2> HIDE DEF new
    <2> QED
      BY <1>3, <2>1, <2>2, QuietRow
  <1> QED
    BY <1>1, <1>3, <1>4, <1>5, <1>6

LEMMA ProveQuiet ==
    ASSUME TypeInv, NEW r \in Requests, Prove(r)
    PROVE  RowsQuiet
  <1>1. proc[r].pc = "prove" /\ proc[r].code \in 1..issued
    BY DEF Prove, TypeInv, AtWork, CodePcs
  <1> DEFINE k == proc[r].code
             new == [code[k] EXCEPT !.verified = TRUE, !.proof = TRUE,
                                    !.proofExpired = FALSE]
  <1>2. /\ k \in 1..issued /\ code[k] \in CodeRow /\ code \in [1..issued -> CodeRow]
        /\ issued' = issued
    BY <1>1, Numbers DEF TypeInv, TypeOK, Prove
  <1>3. /\ Kept(code[k], new) /\ new.attempts = code[k].attempts
        /\ new.consumed = code[k].consumed
    BY <1>2, ProvedRow
  <1>4. code' = [code EXCEPT ![k] = new]
    BY <1>2 DEF Prove
  <1> HIDE DEF new, k
  <1> QED
    BY <1>2, <1>3, <1>4, QuietRow

\* Afterwards the contact has no code, not yet verified, that can be entered.
LEMMA RetireQuiet ==
    ASSUME TypeInv, NEW r \in Requests, RetireEarlier(r)
    PROVE  /\ RowsQuiet
           /\ \A k \in OfContact(proc[r].contact) :
                 ~code[k].verified /\ ~code[k].consumed => code'[k].expired
  <1>1. issued' = issued /\ \A k \in 1..issued : code[k] \in CodeRow
    BY Numbers DEF RetireEarlier
  <1>2. code' = [k \in 1..issued |->
                    IF /\ k \in OfContact(proc[r].contact)
                       /\ ~code[k].verified /\ ~code[k].consumed
                    THEN [code[k] EXCEPT !.expired = TRUE]
                    ELSE code[k]]
    BY DEF RetireEarlier
  <1>3. ASSUME NEW k \in 1..issued
        PROVE  /\ Kept(code[k], code'[k]) /\ code'[k].attempts = code[k].attempts
               /\ code'[k].consumed = code[k].consumed
               /\ (k \in OfContact(proc[r].contact) /\ ~code[k].verified
                   /\ ~code[k].consumed) => code'[k].expired
    <2>1. CASE k \in OfContact(proc[r].contact) /\ ~code[k].verified /\ ~code[k].consumed
      <3>1. code'[k] = [code[k] EXCEPT !.expired = TRUE]
        BY <1>2, <2>1
      <3> QED
        BY <1>1, <3>1, ExpiredRow
    <2>2. CASE ~(k \in OfContact(proc[r].contact) /\ ~code[k].verified
                 /\ ~code[k].consumed)
      <3>1. code'[k] = code[k]
        BY <1>2, <2>2
      <3> QED
        BY <1>1, <2>2, <3>1, SameRow
    <2> QED
      BY <2>1, <2>2
  <1>4. code' \in [1..issued -> CodeRow]
    <2>1. \A k \in 1..issued : code'[k] \in CodeRow
      BY <1>3 DEF Kept
    <2> QED
      BY <1>2, <2>1
  <1>5. OfContact(proc[r].contact) \subseteq 1..issued
    BY DEF OfContact
  <1> QED
    BY <1>1, <1>3, <1>4, <1>5 DEF RowsQuiet, RowsKept

LEMMA MissRows ==
    ASSUME TypeInv, NEW r \in Requests, Miss(r)
    PROVE  /\ proc[r].code \in 1..issued /\ RowsKept
           /\ \A j \in 1..issued :
                 /\ code'[j].consumed = code[j].consumed
                 /\ code'[j].attempts = IF j = proc[r].code THEN code[j].attempts + 1
                                        ELSE code[j].attempts
  <1>1. proc[r].pc = "miss" /\ proc[r].code \in 1..issued
    BY DEF Miss, TypeInv, AtWork, CodePcs
  <1> DEFINE k == proc[r].code
             new == [code[k] EXCEPT !.attempts = @ + 1]
  <1>2. /\ k \in 1..issued /\ code[k] \in CodeRow /\ code \in [1..issued -> CodeRow]
        /\ issued' = issued
    BY <1>1, Numbers DEF TypeInv, TypeOK, Miss
  <1>3. /\ Kept(code[k], new) /\ new.attempts = code[k].attempts + 1
        /\ new.consumed = code[k].consumed /\ new \in CodeRow
    BY <1>2, TriedRow DEF Kept
  <1>4. code' = [code EXCEPT ![k] = new]
    BY <1>2 DEF Miss
  <1>5. k = proc[r].code
    OBVIOUS
  <1> HIDE DEF new, k
  <1>6. /\ code' \in [1..issued -> CodeRow] /\ code'[k] = new
        /\ \A j \in 1..issued : j # k => code'[j] = code[j]
    BY <1>2, <1>3, <1>4, OneRow
  <1>7. \A j \in 1..issued : Kept(code[j], code[j])
    BY Numbers, SameRow
  <1> QED
    BY <1>1, <1>2, <1>3, <1>5, <1>6, <1>7 DEF RowsKept

LEMMA ConsumeRows ==
    ASSUME TypeInv, NEW r \in Requests, ConsumeProof(r)
    PROVE  /\ proc[r].code \in 1..issued /\ RowsKept
           /\ code'[proc[r].code].consumed
           /\ \A j \in 1..issued :
                 /\ code'[j].attempts = code[j].attempts
                 /\ j # proc[r].code => code'[j] = code[j]
  <1>1. proc[r].pc = "consume" /\ proc[r].code \in 1..issued
    BY DEF ConsumeProof, TypeInv, AtWork, CodePcs
  <1> DEFINE k == proc[r].code
             new == [code[k] EXCEPT !.consumed = TRUE, !.proof = FALSE]
  <1>2. /\ k \in 1..issued /\ code[k] \in CodeRow /\ code \in [1..issued -> CodeRow]
        /\ issued' = issued
    BY <1>1, Numbers DEF TypeInv, TypeOK, ConsumeProof
  <1>3. /\ Kept(code[k], new) /\ new.attempts = code[k].attempts
        /\ new.consumed /\ new \in CodeRow
    BY <1>2, ConsumedRow DEF Kept
  <1>4. code' = [code EXCEPT ![k] = new]
    BY <1>2 DEF ConsumeProof
  <1>5. k = proc[r].code
    OBVIOUS
  <1> HIDE DEF new, k
  <1>6. /\ code' \in [1..issued -> CodeRow] /\ code'[k] = new
        /\ \A j \in 1..issued : j # k => code'[j] = code[j]
    BY <1>2, <1>3, <1>4, OneRow
  <1>7. \A j \in 1..issued : Kept(code[j], code[j])
    BY Numbers, SameRow
  <1> QED
    BY <1>1, <1>2, <1>3, <1>5, <1>6, <1>7 DEF RowsKept

\* The row created is the next, and as good as untouched.
LEMMA CreateRows ==
    ASSUME TypeInv, NEW r \in Requests, CreateCode(r)
    PROVE  /\ issued' = issued + 1 /\ issued' \in 0..MaxCodes
           /\ code' \in [1..issued' -> CodeRow]
           /\ \A k \in 1..issued : code'[k] = code[k]
           /\ proc[r].contact \in Contacts
           /\ code'[issued'].contact = proc[r].contact
           /\ code'[issued'].attempts = 0
           /\ ~code'[issued'].consumed
  <1>1. proc[r] \in Issuing
    BY Numbers, ProcKinds DEF CreateCode
  <1>2. proc[r].contact \in Contacts
    BY <1>1 DEF Issuing
  <1>3. issued \in Nat /\ MaxCodes \in Nat /\ issued < MaxCodes /\ issued' = issued + 1
    BY Numbers DEF CreateCode
  <1> DEFINE new == [contact |-> proc[r].contact, age |-> "fresh",
                     expired |-> FALSE, attempts |-> 0, verified |-> FALSE,
                     proof |-> FALSE, proofExpired |-> FALSE, consumed |-> FALSE]
  <1>4. /\ new \in CodeRow /\ new.contact = proc[r].contact
        /\ new.attempts = 0 /\ ~new.consumed
    BY <1>2 DEF CodeRow
  <1>5. code' = [k \in 1..issued' |-> IF k \in 1..issued THEN code[k] ELSE new]
    BY DEF CreateCode
  <1> HIDE DEF new
  <1>6. \A k \in 1..issued : code[k] \in CodeRow /\ k \in 1..issued'
    BY <1>3, Numbers
  <1>7. issued' \in 1..issued' /\ issued' \notin 1..issued /\ issued' \in 0..MaxCodes
    BY <1>3
  <1>8. code' \in [1..issued' -> CodeRow]
    BY <1>4, <1>5, <1>6
  <1>9. code'[issued'] = new /\ \A k \in 1..issued : code'[k] = code[k]
    BY <1>5, <1>6, <1>7
  <1> QED
    BY <1>2, <1>3, <1>4, <1>7, <1>8, <1>9

\* A step of a request that still works for the number, or ends.
LEMMA Assemble ==
    ASSUME TypeInv, NEW r \in Requests, NEW next \in ProcState,
           proc' = [proc EXCEPT ![r] = next], live' = live,
           issued <= issued', issued' \in 0..MaxCodes,
           code' \in [1..issued' -> CodeRow],
           misses' \in [Codes -> Nat], opened' \in [Codes -> Nat],
           next.pc # "idle" => r \in live,
           next.pc \in CodePcs => next.code \in 1..issued'
    PROVE  TypeInv'
  <1>1. /\ proc' \in [Requests -> ProcState] /\ proc'[r] = next
        /\ \A q \in Requests : q # r => proc'[q] = proc[q]
    BY ProcStep DEF TypeInv
  <1>2. 1..issued \subseteq 1..issued'
    BY Numbers, PhoneProofAssumption
  <1>3. AtWork'
    BY <1>1, <1>2 DEF TypeInv, AtWork
  <1> QED
    BY <1>1, <1>3 DEF TypeInv, TypeOK

\* ... of the actions that create no row: what is left to say of each.
LEMMA AssembleSame ==
    ASSUME TypeInv, NEW r \in Requests, NEW next \in ProcState,
           proc' = [proc EXCEPT ![r] = next], live' = live, RowsKept,
           misses' \in [Codes -> Nat], opened' \in [Codes -> Nat],
           next.pc # "idle" => r \in live,
           next.pc \in CodePcs => next.code \in 1..issued
    PROVE  TypeInv'
  <1>1. issued' = issued /\ issued <= issued' /\ issued' \in 0..MaxCodes
    BY Numbers DEF RowsKept, TypeInv, TypeOK
  <1>2. code' \in [1..issued' -> CodeRow]
    BY <1>1 DEF RowsKept
  <1> QED
    BY <1>1, <1>2, Assemble

LEMMA EndsInType ==
    ASSUME TypeInv, NEW r \in Requests, proc' = [proc EXCEPT ![r] = Idle],
           live' = live, RowsKept,
           misses' \in [Codes -> Nat], opened' \in [Codes -> Nat]
    PROVE  TypeInv'
  <1>1. Idle \in ProcState /\ Idle.pc = "idle" /\ "idle" \notin CodePcs
    BY KindsOfProc DEF CodePcs
  <1>2. \A next : next = Idle => /\ next.pc # "idle" => r \in live
                                 /\ next.pc \in CodePcs => next.code \in 1..issued
    BY <1>1
  <1> QED
    BY <1>1, <1>2, AssembleSame

\* What each action makes of the request's record.
LEMMA NextRecord ==
    ASSUME TypeInv, NEW r \in Requests
    PROVE  /\ \A c \in Contacts : CheckCooldown(r, c) =>
                 proc' = [proc EXCEPT ![r] = [pc |-> "count", contact |-> c]]
           /\ CheckHourly(r) => /\ proc[r].contact \in Contacts
                                /\ proc' = [proc EXCEPT ![r] =
                                      [pc |-> "mail", contact |-> proc[r].contact]]
           /\ RetireEarlier(r) => /\ proc[r].contact \in Contacts
                                  /\ proc' = [proc EXCEPT ![r] =
                                        [pc |-> "create", contact |-> proc[r].contact]]
           /\ ConsumeProof(r) => /\ proc[r].code \in 1..issued
                                 /\ proc' = [proc EXCEPT ![r] =
                                       [pc |-> "open", code |-> proc[r].code]]
  <1>0. proc \in [Requests -> ProcState] /\ proc[r] \in ProcState
    BY DEF TypeInv, TypeOK
  <1>1. proc[r].pc \in {"count", "mail"} => proc[r] \in Issuing
    BY <1>0, ProcKinds
  <1>2. proc[r].pc = "consume" => proc[r] \in OnCode /\ proc[r].code \in 1..issued
    BY <1>0, ProcKinds DEF CodePcs, TypeInv, AtWork
  <1>3. ASSUME CheckHourly(r)
        PROVE  /\ proc[r].contact \in Contacts
               /\ proc' = [proc EXCEPT ![r] = [pc |-> "mail",
                                               contact |-> proc[r].contact]]
    <2>1. proc[r] \in Issuing
      BY <1>1, <1>3 DEF CheckHourly
    <2>2. proc' = [proc EXCEPT ![r] = [proc[r] EXCEPT !.pc = "mail"]]
      BY <1>0, <1>3 DEF CheckHourly
    <2>3. [proc[r] EXCEPT !.pc = "mail"] = [pc |-> "mail", contact |-> proc[r].contact]
      BY <2>1 DEF Issuing
    <2> QED
      BY <2>1, <2>2, <2>3 DEF Issuing
  <1>4. ASSUME RetireEarlier(r)
        PROVE  /\ proc[r].contact \in Contacts
               /\ proc' = [proc EXCEPT ![r] = [pc |-> "create",
                                               contact |-> proc[r].contact]]
    <2>1. proc[r] \in Issuing
      BY <1>1, <1>4 DEF RetireEarlier
    <2>2. proc' = [proc EXCEPT ![r] = [proc[r] EXCEPT !.pc = "create"]]
      BY <1>0, <1>4 DEF RetireEarlier
    <2>3. [proc[r] EXCEPT !.pc = "create"] = [pc |-> "create", contact |-> proc[r].contact]
      BY <2>1 DEF Issuing
    <2> QED
      BY <2>1, <2>2, <2>3 DEF Issuing
  <1>5. ASSUME ConsumeProof(r)
        PROVE  /\ proc[r].code \in 1..issued
               /\ proc' = [proc EXCEPT ![r] = [pc |-> "open", code |-> proc[r].code]]
    <2>1. proc[r] \in OnCode /\ proc[r].code \in 1..issued
      BY <1>2, <1>5 DEF ConsumeProof
    <2>2. proc' = [proc EXCEPT ![r] = [proc[r] EXCEPT !.pc = "open"]]
      BY <1>0, <1>5 DEF ConsumeProof
    <2>3. [proc[r] EXCEPT !.pc = "open"] = [pc |-> "open", code |-> proc[r].code]
      BY <2>1 DEF OnCode
    <2> QED
      BY <2>1, <2>2, <2>3
  <1> QED
    BY <1>3, <1>4, <1>5 DEF CheckCooldown

LEMMA TypeInvStep == TypeInv /\ [Next]_vars => TypeInv'
  <1> SUFFICES ASSUME TypeInv, [Next]_vars PROVE TypeInv'
    OBVIOUS
  <1>0. /\ misses \in [Codes -> Nat] /\ opened \in [Codes -> Nat]
        /\ 1..issued \subseteq Codes /\ proc \in [Requests -> ProcState]
        /\ \A q \in Requests : proc[q].pc # "idle" => q \in live
    BY Numbers DEF TypeInv, TypeOK, AtWork
  <1>k. RowsQuiet => RowsKept
    BY DEF RowsQuiet
  <1>1. ASSUME NEW r \in Requests, NEW c \in Contacts, CheckCooldown(r, c)
        PROVE  TypeInv'
    <2> DEFINE next == [pc |-> "count", contact |-> c]
    <2>1. next \in ProcState /\ next.pc = "count" /\ next.pc \notin CodePcs
      BY KindsOfProc DEF CodePcs
    <2>2. proc' = [proc EXCEPT ![r] = next]
      BY <1>1, NextRecord
    <2>3. live' = live /\ misses' = misses /\ opened' = opened /\ r \in live
          /\ UNCHANGED <<code, issued>>
      BY <1>1 DEF CheckCooldown
    <2>4. RowsKept
      BY <1>k, <2>3, SameRows
    <2> HIDE DEF next
    <2> QED
      BY <1>0, <2>1, <2>2, <2>3, <2>4, AssembleSame
  <1>2. ASSUME NEW r \in Requests, CheckHourly(r)
        PROVE  TypeInv'
    <2> DEFINE next == [pc |-> "mail", contact |-> proc[r].contact]
    <2>2. proc[r].contact \in Contacts /\ proc' = [proc EXCEPT ![r] = next]
      BY <1>2, NextRecord
    <2>1. next \in ProcState /\ next.pc = "mail" /\ next.pc \notin CodePcs
      BY <2>2, KindsOfProc DEF CodePcs
    <2>3. live' = live /\ misses' = misses /\ opened' = opened /\ proc[r].pc = "count"
          /\ UNCHANGED <<code, issued>>
      BY <1>2 DEF CheckHourly
    <2>4. RowsKept
      BY <1>k, <2>3, SameRows
    <2>5. r \in live
      BY <1>0, <2>3
    <2> HIDE DEF next
    <2> QED
      BY <1>0, <2>1, <2>2, <2>3, <2>4, <2>5, AssembleSame
  <1>3. ASSUME NEW r \in Requests, RetireEarlier(r)
        PROVE  TypeInv'
    <2> DEFINE next == [pc |-> "create", contact |-> proc[r].contact]
    <2>2. proc[r].contact \in Contacts /\ proc' = [proc EXCEPT ![r] = next]
      BY <1>3, NextRecord
    <2>1. next \in ProcState /\ next.pc = "create" /\ next.pc \notin CodePcs
      BY <2>2, KindsOfProc DEF CodePcs
    <2>3. live' = live /\ misses' = misses /\ opened' = opened /\ proc[r].pc = "mail"
      BY <1>3 DEF RetireEarlier
    <2>4. RowsKept
      BY <1>3, <1>k, RetireQuiet
    <2>5. r \in live
      BY <1>0, <2>3
    <2> HIDE DEF next
    <2> QED
      BY <1>0, <2>1, <2>2, <2>3, <2>4, <2>5, AssembleSame
  <1>4. ASSUME NEW r \in Requests, CreateCode(r)
        PROVE  TypeInv'
    <2>1. /\ proc' = [proc EXCEPT ![r] = Idle] /\ live' = live
          /\ misses' = misses /\ opened' = opened
      BY <1>4 DEF CreateCode
    <2>2. /\ issued <= issued' /\ issued' \in 0..MaxCodes
          /\ code' \in [1..issued' -> CodeRow]
      BY <1>4, CreateRows, Numbers
    <2>3. Idle \in ProcState /\ Idle.pc = "idle" /\ "idle" \notin CodePcs
      BY KindsOfProc DEF CodePcs
    <2>4. \A next : next = Idle => /\ next.pc # "idle" => r \in live
                                   /\ next.pc \in CodePcs => next.code \in 1..issued'
      BY <2>3
    <2> QED
      BY <1>0, <2>1, <2>2, <2>3, <2>4, Assemble
  <1>5. ASSUME NEW r \in Requests, NEW k \in 1..issued, VerifyRead(r, k)
        PROVE  TypeInv'
    <2>1. PICK step \in {"miss", "prove"} :
             proc' = [proc EXCEPT ![r] = [pc |-> step, code |-> k]]
      BY <1>5 DEF VerifyRead
    <2> DEFINE next == [pc |-> step, code |-> k]
    <2>2. next \in ProcState /\ next.code = k /\ proc' = [proc EXCEPT ![r] = next]
      BY <1>0, <2>1, KindsOfProc DEF CodePcs
    <2>3. live' = live /\ misses' = misses /\ opened' = opened /\ r \in live
          /\ UNCHANGED <<code, issued>>
      BY <1>5 DEF VerifyRead
    <2>4. RowsKept
      BY <1>k, <2>3, SameRows
    <2> HIDE DEF next
    <2> QED
      BY <1>0, <2>2, <2>3, <2>4, AssembleSame
  <1>6. ASSUME NEW r \in Requests, NEW k \in 1..issued, FindProof(r, k)
        PROVE  TypeInv'
    <2> DEFINE next == [pc |-> "consume", code |-> k]
    <2>1. next \in ProcState /\ next.code = k
      BY <1>0, KindsOfProc DEF CodePcs
    <2>2. proc' = [proc EXCEPT ![r] = next]
      BY <1>6 DEF FindProof
    <2>3. live' = live /\ misses' = misses /\ opened' = opened /\ r \in live
          /\ UNCHANGED <<code, issued>>
      BY <1>6 DEF FindProof
    <2>4. RowsKept
      BY <1>k, <2>3, SameRows
    <2> HIDE DEF next
    <2> QED
      BY <1>0, <2>1, <2>2, <2>3, <2>4, AssembleSame
  <1>7. ASSUME NEW r \in Requests, Miss(r)
        PROVE  TypeInv'
    <2>1. /\ proc' = [proc EXCEPT ![r] = Idle] /\ live' = live /\ opened' = opened
          /\ misses' = [misses EXCEPT ![proc[r].code] = @ + 1]
      BY <1>7 DEF Miss
    <2>2. RowsKept
      BY <1>7, MissRows
    <2>3. misses' \in [Codes -> Nat]
      <3>1. proc[r].code \in Codes
        BY <1>0, <1>7, MissRows
      <3>2. misses[proc[r].code] + 1 \in Nat
        BY <1>0, <3>1
      <3> QED
        BY <1>0, <2>1, <3>1, <3>2
    <2> QED
      BY <1>0, <2>1, <2>2, <2>3, EndsInType
  <1>8. ASSUME NEW r \in Requests, Prove(r)
        PROVE  TypeInv'
    <2>1. /\ proc' = [proc EXCEPT ![r] = Idle] /\ live' = live
          /\ misses' = misses /\ opened' = opened
      BY <1>8 DEF Prove
    <2> QED
      BY <1>0, <1>8, <1>k, <2>1, ProveQuiet, EndsInType
  <1>9. ASSUME NEW r \in Requests, ConsumeProof(r)
        PROVE  TypeInv'
    <2> DEFINE next == [pc |-> "open", code |-> proc[r].code]
    <2>2. proc[r].code \in 1..issued /\ proc' = [proc EXCEPT ![r] = next]
      BY <1>9, NextRecord
    <2>1. next \in ProcState /\ next.code \in 1..issued
      BY <1>0, <2>2, KindsOfProc DEF CodePcs
    <2>3. live' = live /\ misses' = misses /\ opened' = opened /\ proc[r].pc = "consume"
      BY <1>9 DEF ConsumeProof
    <2>4. RowsKept
      BY <1>9, ConsumeRows
    <2>5. r \in live
      BY <1>0, <2>3
    <2> HIDE DEF next
    <2> QED
      BY <1>0, <2>1, <2>2, <2>3, <2>4, <2>5, AssembleSame
  <1>10. ASSUME NEW r \in Requests, Open(r)
         PROVE  TypeInv'
    <2>1. /\ proc' = [proc EXCEPT ![r] = Idle] /\ live' = live /\ misses' = misses
          /\ opened' = [opened EXCEPT ![proc[r].code] = @ + 1]
          /\ UNCHANGED <<code, issued>>
      BY <1>10 DEF Open
    <2>2. RowsKept
      BY <1>k, <2>1, SameRows
    <2>3. opened' \in [Codes -> Nat]
      <3>1. proc[r].code \in Codes
        BY <1>0, <1>10 DEF Open, TypeInv, AtWork, CodePcs
      <3>2. opened[proc[r].code] + 1 \in Nat
        BY <1>0, <3>1
      <3> QED
        BY <1>0, <2>1, <3>1, <3>2
    <2> QED
      BY <1>0, <2>1, <2>2, <2>3, EndsInType
  <1>11. ASSUME NEW r \in Requests, Abandon(r)
         PROVE  TypeInv'
    <2>1. /\ proc' = [proc EXCEPT ![r] = Idle] /\ live' = live
          /\ misses' = misses /\ opened' = opened /\ UNCHANGED <<code, issued>>
      BY <1>11 DEF Abandon
    <2>2. RowsKept
      BY <1>k, <2>1, SameRows
    <2> QED
      BY <1>0, <2>1, <2>2, EndsInType
  <1>12. CASE TimePasses
    <2>1. RowsQuiet /\ UNCHANGED <<live, misses, opened, proc>>
      BY <1>12, TimePassesQuietly
    <2> QED
      BY <1>k, <2>1 DEF RowsKept, TypeInv, TypeOK, AtWork
  <1>13. CASE UNCHANGED vars
    BY <1>13 DEF vars, TypeInv, TypeOK, AtWork
  <1> QED
    BY <1>1, <1>2, <1>3, <1>4, <1>5, <1>6, <1>7, <1>8, <1>9, <1>10, <1>11, <1>12, <1>13
       DEF Next, RequestStep

\* Every step preserves the types, and whoever is at work holds the number.
THEOREM TypeCorrect == Spec => []TypeInv
  BY InitTypeInv, TypeInvStep, PTL DEF Spec

THEOREM TypesAreCorrect == Spec => []TypeOK
  BY TypeCorrect, PTL DEF TypeInv

-----------------------------------------------------------------------------
(* The requests at a step, and how each action moves them *)

AtCode(pcs, k) == {q \in Requests : proc[q].pc \in pcs /\ proc[q].code = k}

\* Nobody comes to one of these steps who was not at one of them on the same row.
NoneArrives(pcs) ==
    \A q \in Requests :
        proc'[q].pc \in pcs => proc[q].pc \in pcs /\ proc'[q].code = proc[q].code

LEMMA LiveCounted ==
    ASSUME TypeInv
    PROVE  IsFiniteSet(live) /\ Cardinality(live) \in Nat
  BY PhoneProofAssumption, FS_Subset, FS_CardinalityType DEF TypeInv, TypeOK

LEMMA AtCodeCounted ==
    ASSUME TypeInv, NEW pcs \in SUBSET CodePcs, NEW k
    PROVE  /\ AtCode(pcs, k) \subseteq live
           /\ IsFiniteSet(AtCode(pcs, k)) /\ Cardinality(AtCode(pcs, k)) \in Nat
           /\ Cardinality(AtCode(pcs, k)) <= Cardinality(live)
  <1>1. AtCode(pcs, k) \subseteq live
    BY DEF AtCode, TypeInv, AtWork, CodePcs
  <1> DEFINE S == AtCode(pcs, k)
  <1> HIDE DEF S
  <1>2. S \subseteq live
    BY <1>1 DEF S
  <1>3. IsFiniteSet(S) /\ Cardinality(S) \in Nat /\ Cardinality(S) <= Cardinality(live)
    BY <1>2, LiveCounted, FS_Subset, FS_CardinalityType
  <1> QED
    BY <1>2, <1>3 DEF S

LEMMA OthersStay ==
    ASSUME TypeInv, NEW r \in Requests, RequestStep(r)
    PROVE  live' = live /\ \A q \in Requests : q # r => proc'[q] = proc[q]
  BY DEF TypeInv, TypeOK, RequestStep, CheckCooldown, CheckHourly, RetireEarlier,
         CreateCode, VerifyRead, FindProof, Miss, Prove, ConsumeProof, Open, Abandon

\* The record of a request after its action.
LEMMA RecordAfter ==
    ASSUME TypeInv, NEW r \in Requests
    PROVE  /\ \A c \in Contacts : CheckCooldown(r, c) => proc'[r].pc = "count"
           /\ CheckHourly(r) => proc'[r].pc = "mail"
           /\ RetireEarlier(r) => /\ proc'[r].pc = "create"
                                  /\ proc'[r].contact = proc[r].contact
           /\ \A k : VerifyRead(r, k) => /\ proc'[r].pc \in {"miss", "prove"}
                                         /\ proc'[r].code = k
           /\ \A k : FindProof(r, k) => /\ proc'[r].pc = "consume"
                                        /\ proc'[r].code = k
           /\ ConsumeProof(r) => /\ proc'[r].pc = "open"
                                 /\ proc'[r].code = proc[r].code
           /\ \/ CreateCode(r) \/ Miss(r) \/ Prove(r) \/ Open(r) \/ Abandon(r)
              => proc'[r].pc = "idle"
  <1>0. proc \in [Requests -> ProcState]
    BY DEF TypeInv, TypeOK
  <1>1. \A next : proc' = [proc EXCEPT ![r] = next] => proc'[r] = next
    BY <1>0
  <1>2. ASSUME NEW c \in Contacts, CheckCooldown(r, c)
        PROVE  proc'[r].pc = "count"
    BY <1>0, <1>2 DEF CheckCooldown
  <1>3. ASSUME CheckHourly(r)
        PROVE  proc'[r].pc = "mail"
    BY <1>0, <1>3, NextRecord
  <1>4. ASSUME RetireEarlier(r)
        PROVE  proc'[r].pc = "create" /\ proc'[r].contact = proc[r].contact
    BY <1>0, <1>4, NextRecord
  <1>5. ASSUME NEW k, VerifyRead(r, k)
        PROVE  proc'[r].pc \in {"miss", "prove"} /\ proc'[r].code = k
    <2>1. PICK step \in {"miss", "prove"} :
             proc' = [proc EXCEPT ![r] = [pc |-> step, code |-> k]]
      BY <1>5 DEF VerifyRead
    <2> QED
      BY <1>0, <2>1
  <1>6. ASSUME NEW k, FindProof(r, k)
        PROVE  proc'[r].pc = "consume" /\ proc'[r].code = k
    BY <1>0, <1>6 DEF FindProof
  <1>7. ASSUME ConsumeProof(r)
        PROVE  proc'[r].pc = "open" /\ proc'[r].code = proc[r].code
    BY <1>0, <1>7, NextRecord
  <1>8. ASSUME CreateCode(r) \/ Miss(r) \/ Prove(r) \/ Open(r) \/ Abandon(r)
        PROVE  proc'[r].pc = "idle"
    <2>1. proc' = [proc EXCEPT ![r] = Idle]
      BY <1>8 DEF CreateCode, Miss, Prove, Open, Abandon
    <2> QED
      BY <1>0, <2>1 DEF Idle
  <1> QED
    BY <1>2, <1>3, <1>4, <1>5, <1>6, <1>7, <1>8

\* The rows, for each request's action but the three that count: Miss,
\* ConsumeProof and CreateCode.
LEMMA RowsOfSteps ==
    ASSUME TypeInv, NEW r \in Requests,
           \/ \E c \in Contacts : CheckCooldown(r, c)
           \/ CheckHourly(r) \/ RetireEarlier(r)
           \/ \E k \in 1..issued : VerifyRead(r, k) \/ FindProof(r, k)
           \/ Prove(r) \/ Open(r) \/ Abandon(r)
    PROVE  RowsQuiet
  <1>1. CASE RetireEarlier(r)
    BY <1>1, RetireQuiet
  <1>2. CASE Prove(r)
    BY <1>2, ProveQuiet
  <1>3. CASE ~RetireEarlier(r) /\ ~Prove(r)
    <2>1. UNCHANGED <<code, issued>>
      BY <1>3 DEF CheckCooldown, CheckHourly, VerifyRead, FindProof, Open, Abandon
    <2> QED
      BY <2>1, SameRows
  <1> QED
    BY <1>1, <1>2, <1>3

LEMMA Fewer ==
    ASSUME TypeInv, NEW pcs \in SUBSET CodePcs, NEW k, NoneArrives(pcs)
    PROVE  /\ Cardinality(AtCode(pcs, k)') \in Nat
           /\ Cardinality(AtCode(pcs, k)') <= Cardinality(AtCode(pcs, k))
  <1> DEFINE S == AtCode(pcs, k)
             T == {q \in Requests : proc'[q].pc \in pcs /\ proc'[q].code = k}
  <1>1. T \subseteq S
    BY DEF NoneArrives, AtCode
  <1>2. IsFiniteSet(S)
    BY AtCodeCounted
  <1>3. AtCode(pcs, k)' = T
    BY DEF AtCode
  <1> HIDE DEF S, T
  <1>4. IsFiniteSet(T) /\ Cardinality(T) <= Cardinality(S) /\ Cardinality(T) \in Nat
    BY <1>1, <1>2, FS_Subset, FS_CardinalityType
  <1> QED
    BY <1>3, <1>4 DEF S

-----------------------------------------------------------------------------
(* A code is tried a bounded number of times *)

Missing(k) == AtCode({"miss"}, k)

\* The attempts on a row count the wrong codes written; who is to write one more
\* has read fewer than MaxAttempts, or comes in the company of who has.
GuessInv ==
    /\ \A k \in Codes : k > issued => misses[k] = 0
    /\ \A k \in 1..issued : misses[k] <= code[k].attempts
    /\ \A k \in Codes :
          misses[k] + Cardinality(Missing(k)) < MaxAttempts + Cardinality(live)

LEMMA InitGuessInv == Init => GuessInv
  <1> SUFFICES ASSUME Init PROVE GuessInv
    OBVIOUS
  <1>1. TypeInv
    BY InitTypeInv
  <1>2. \A k \in Codes : Missing(k) = {}
    BY DEF Init, Idle, Missing, AtCode
  <1>3. Cardinality({}) = 0 /\ Cardinality(live) \in Nat
    BY <1>1, LiveCounted, FS_EmptySet
  <1>4. 1..0 = {} /\ MaxAttempts \in Nat \ {0}
    BY PhoneProofAssumption
  <1>5. ASSUME NEW k \in Codes
        PROVE  misses[k] + Cardinality(Missing(k)) < MaxAttempts + Cardinality(live)
    <2>1. misses[k] = 0 /\ Cardinality(Missing(k)) = 0
      BY <1>2, <1>3 DEF Init
    <2> QED
      BY <1>3, <1>4, <2>1
  <1>6. 1..issued = {} /\ \A k \in Codes : misses[k] = 0
    BY <1>4 DEF Init
  <1> QED
    BY <1>5, <1>6 DEF GuessInv

LEMMA GuessFrame ==
    ASSUME TypeInv, GuessInv, misses' = misses, live' = live,
           NoneArrives({"miss"}),
           issued' \in 0..MaxCodes, issued <= issued',
           \A k \in 1..issued : code'[k].attempts = code[k].attempts,
           \A k \in 1..issued' : k > issued => code'[k].attempts = 0
    PROVE  GuessInv'
  <1>a. /\ issued \in Nat /\ \A k \in Codes : misses[k] \in Nat
        /\ issued' \in Nat /\ issued <= issued' /\ 1..issued' \subseteq Codes
    <2>1. issued \in Nat /\ MaxCodes \in Nat
      BY Numbers
    <2>2. \A k \in Codes : misses[k] \in Nat
      BY DEF TypeInv, TypeOK
    <2>3. issued' \in Nat /\ 1..issued' \subseteq Codes
      BY <2>1 DEF Codes
    <2> QED
      BY <2>1, <2>2, <2>3
  <1>b. \A k \in Codes : k \in Nat /\ k > 0
    BY PhoneProofAssumption DEF Codes
  <1>1. \A k \in Codes : k > issued' => misses'[k] = 0
    <2> SUFFICES ASSUME NEW k \in Codes, k > issued' PROVE misses'[k] = 0
      OBVIOUS
    <2>1. k > issued
      BY <1>a, <1>b
    <2> QED
      BY <2>1 DEF GuessInv
  <1>2. ASSUME NEW k \in 1..issued'
        PROVE  misses'[k] <= code'[k].attempts
    <2>1. CASE k \in 1..issued
      BY <2>1 DEF GuessInv
    <2>2. CASE k \notin 1..issued
      <3>1. k > issued
        BY <1>a, <2>2
      <3> QED
        BY <1>a, <1>2, <3>1 DEF GuessInv
    <2> QED
      BY <2>1, <2>2
  <1>3. ASSUME NEW k \in Codes
        PROVE  misses'[k] + Cardinality(Missing(k)') < MaxAttempts + Cardinality(live')
    <2>1. /\ Cardinality(Missing(k)') \in Nat
          /\ Cardinality(Missing(k)') <= Cardinality(Missing(k))
          /\ Cardinality(Missing(k)) \in Nat /\ Cardinality(live) \in Nat
      BY Fewer, AtCodeCounted, LiveCounted DEF Missing, CodePcs
    <2>2. misses[k] + Cardinality(Missing(k)) < MaxAttempts + Cardinality(live)
      BY DEF GuessInv
    <2> QED
      BY <1>a, <2>1, <2>2, PhoneProofAssumption
  <1> QED
    BY <1>1, <1>2, <1>3 DEF GuessInv

MissingBounded ==
    \A k \in Codes : /\ Cardinality(Missing(k)) \in Nat
                     /\ Cardinality(Missing(k)) <= Cardinality(live)

LEMMA MissingCounted == TypeInv => MissingBounded
  BY AtCodeCounted DEF MissingBounded, Missing, CodePcs

LEMMA MissingCountedNext == TypeInv' => MissingBounded'
  BY MissingCounted, PTL

LEMMA GuessStep == TypeInv /\ TypeInv' /\ GuessInv /\ [Next]_vars => GuessInv'
  <1> SUFFICES ASSUME TypeInv, TypeInv', GuessInv, [Next]_vars
               PROVE  GuessInv'
    OBVIOUS
  <1>a. /\ issued \in Nat /\ 1..issued \subseteq Codes /\ MaxAttempts \in Nat
        /\ \A k \in Codes : misses[k] \in Nat
        /\ \A k \in 1..issued : code[k].attempts \in Nat
        /\ misses \in [Codes -> Nat] /\ issued' \in 0..MaxCodes
    <2>1. issued' \in 0..MaxCodes
      BY DEF TypeInv, TypeOK
    <2> QED
      BY <2>1, Numbers, PhoneProofAssumption DEF TypeInv, TypeOK, CodeRow
  <1>b. \A k \in 1..issued : k \in Nat /\ ~(k > issued)
    BY <1>a
  <1>q. ASSUME RowsQuiet, misses' = misses, live' = live, NoneArrives({"miss"})
        PROVE  GuessInv'
    <2>1. /\ issued' = issued /\ issued <= issued'
          /\ \A k \in 1..issued : code'[k].attempts = code[k].attempts
          /\ \A k \in 1..issued' : k > issued => code'[k].attempts = 0
      BY <1>a, <1>b, <1>q DEF RowsQuiet, RowsKept
    <2> QED
      BY <1>a, <1>q, <2>1, GuessFrame
  <1>1. ASSUME NEW r \in Requests,
               \/ \E c \in Contacts : CheckCooldown(r, c)
               \/ CheckHourly(r) \/ RetireEarlier(r)
               \/ \E k \in 1..issued : FindProof(r, k)
               \/ Prove(r) \/ Open(r) \/ Abandon(r)
        PROVE  GuessInv'
    <2>1. RowsQuiet
      BY <1>1, RowsOfSteps
    <2>2. misses' = misses /\ live' = live
      BY <1>1 DEF CheckCooldown, CheckHourly, RetireEarlier, FindProof, Prove, Open,
                  Abandon
    <2>3. proc'[r].pc # "miss"
      BY <1>1, RecordAfter
    <2>4. \A q \in Requests : q # r => proc'[q] = proc[q]
      BY <1>1, OthersStay DEF RequestStep
    <2>5. NoneArrives({"miss"})
      BY <2>3, <2>4 DEF NoneArrives
    <2> QED
      BY <1>q, <2>1, <2>2, <2>5
  <1>2. ASSUME NEW r \in Requests, CreateCode(r)
        PROVE  GuessInv'
    <2>1. misses' = misses /\ live' = live
      BY <1>2 DEF CreateCode
    <2>2. /\ issued' = issued + 1 /\ code'[issued'].attempts = 0
          /\ \A k \in 1..issued : code'[k] = code[k]
      BY <1>2, CreateRows
    <2>3. NoneArrives({"miss"})
      BY <1>2, RecordAfter, OthersStay DEF NoneArrives, RequestStep
    <2>4. issued <= issued' /\ \A k \in 1..issued' : k > issued => k = issued'
      BY <1>a, <2>2
    <2>5. /\ \A k \in 1..issued : code'[k].attempts = code[k].attempts
          /\ \A k \in 1..issued' : k > issued => code'[k].attempts = 0
      BY <2>2, <2>4
    <2> QED
      BY <1>a, <2>1, <2>3, <2>4, <2>5, GuessFrame
  <1>3. ASSUME NEW r \in Requests, NEW k \in 1..issued, VerifyRead(r, k)
        PROVE  GuessInv'
    <2>1. misses' = misses /\ live' = live /\ issued' = issued /\ code' = code
      BY <1>3 DEF VerifyRead
    <2>2. misses[k] < MaxAttempts
      BY <1>3, <1>a DEF VerifyRead, GuessInv
    <2>3. ASSUME NEW j \in Codes
          PROVE  misses'[j] + Cardinality(Missing(j)') < MaxAttempts + Cardinality(live')
      <3>0. /\ Cardinality(Missing(j)) \in Nat /\ Cardinality(live) \in Nat
            /\ Cardinality(Missing(j)') \in Nat
            /\ Cardinality(Missing(j)') <= Cardinality(live')
        BY MissingCounted, MissingCountedNext, LiveCounted DEF MissingBounded
      <3>1. CASE j = k
        BY <1>a, <2>1, <2>2, <3>0, <3>1
      <3>2. CASE j # k
        <4> DEFINE S == Missing(j)
                   T == Missing(j)'
        <4>1. T \subseteq S
          BY <1>3, <3>2, RecordAfter, OthersStay DEF RequestStep, Missing, AtCode
        <4>2. IsFiniteSet(S)
          BY AtCodeCounted DEF Missing, CodePcs
        <4> HIDE DEF S, T
        <4>3. Cardinality(T) <= Cardinality(S)
          BY <4>1, <4>2, FS_Subset
        <4>4. Cardinality(Missing(j)') <= Cardinality(Missing(j))
          BY <4>3 DEF S, T
        <4>5. misses[j] + Cardinality(Missing(j)) < MaxAttempts + Cardinality(live)
          BY DEF GuessInv
        <4> QED
          BY <1>a, <2>1, <3>0, <4>4, <4>5
      <3> QED
        BY <3>1, <3>2
    <2> QED
      BY <2>1, <2>3 DEF GuessInv
  <1>4. ASSUME NEW r \in Requests, Miss(r)
        PROVE  GuessInv'
    <2>1. PICK k \in 1..issued : k = proc[r].code
      BY <1>4, MissRows
    <2>2. /\ live' = live /\ issued' = issued /\ proc[r].pc = "miss"
          /\ misses' = [misses EXCEPT ![k] = @ + 1]
      BY <1>4, <2>1, MissRows DEF Miss, RowsKept
    <2>3. /\ \A j \in Codes : misses'[j] = IF j = k THEN misses[j] + 1 ELSE misses[j]
      BY <1>a, <2>2
    <2>4. \A j \in 1..issued : code'[j].attempts = IF j = k THEN code[j].attempts + 1
                                                   ELSE code[j].attempts
      BY <1>4, <2>1, MissRows
    <2>5. \A j \in Codes : j > issued' => misses'[j] = 0
      BY <1>b, <2>1, <2>2, <2>3 DEF GuessInv
    <2>6. \A j \in 1..issued' : misses'[j] <= code'[j].attempts
      BY <1>a, <2>2, <2>3, <2>4 DEF GuessInv
    <2>7. ASSUME NEW j \in Codes
          PROVE  misses'[j] + Cardinality(Missing(j)') < MaxAttempts + Cardinality(live')
      <3> DEFINE S == Missing(j)
                 T == Missing(j)'
      <3>1. T \subseteq S /\ r \notin T /\ (j = k => r \in S)
        BY <1>4, <2>1, <2>2, RecordAfter, OthersStay DEF RequestStep, Missing, AtCode
      <3>2. IsFiniteSet(S)
        BY AtCodeCounted DEF Missing, CodePcs
      <3>3. Cardinality(live) \in Nat /\ misses[j] \in Nat
        BY <1>a, LiveCounted
      <3>4. misses[j] + Cardinality(S) < MaxAttempts + Cardinality(live)
        BY DEF GuessInv
      <3> HIDE DEF S, T
      <3>5. /\ IsFiniteSet(T) /\ Cardinality(T) <= Cardinality(S)
            /\ Cardinality(S) \in Nat /\ Cardinality(T) \in Nat
        BY <3>1, <3>2, FS_Subset, FS_CardinalityType
      <3>6. CASE j = k
        <4>1. T \subseteq S \ {r} /\ r \in S
          BY <3>1, <3>6
        <4>2. IsFiniteSet(S \ {r}) /\ Cardinality(S \ {r}) = Cardinality(S) - 1
          BY <3>2, <4>1, FS_RemoveElement
        <4>3. Cardinality(T) <= Cardinality(S) - 1
          BY <4>1, <4>2, FS_Subset
        <4>4. misses'[j] + Cardinality(T) < MaxAttempts + Cardinality(live')
          BY <1>a, <2>2, <2>3, <3>3, <3>4, <3>5, <3>6, <4>3
        <4> QED
          BY <4>4 DEF T
      <3>7. CASE j # k
        <4>1. misses'[j] + Cardinality(T) < MaxAttempts + Cardinality(live')
          BY <1>a, <2>2, <2>3, <3>3, <3>4, <3>5, <3>7
        <4> QED
          BY <4>1 DEF T
      <3> QED
        BY <3>6, <3>7
    <2> QED
      BY <2>5, <2>6, <2>7 DEF GuessInv
  <1>5. ASSUME NEW r \in Requests, ConsumeProof(r)
        PROVE  GuessInv'
    <2>1. misses' = misses /\ live' = live
      BY <1>5 DEF ConsumeProof
    <2>2. issued' = issued /\ \A k \in 1..issued : code'[k].attempts = code[k].attempts
      BY <1>5, ConsumeRows DEF RowsKept
    <2>3. NoneArrives({"miss"})
      BY <1>5, RecordAfter, OthersStay DEF NoneArrives, RequestStep
    <2>4. issued <= issued' /\ \A k \in 1..issued' : k > issued => code'[k].attempts = 0
      BY <1>a, <1>b, <2>2
    <2> QED
      BY <1>a, <2>1, <2>2, <2>3, <2>4, GuessFrame
  <1>6. CASE TimePasses
    BY <1>6, <1>q, TimePassesQuietly DEF NoneArrives
  <1>7. CASE UNCHANGED vars
    BY <1>7, <1>q, SameRows DEF NoneArrives, vars
  <1> QED
    BY <1>1, <1>2, <1>3, <1>4, <1>5, <1>6, <1>7 DEF Next, RequestStep

\* A code is tried no more often than the limit and the requests in flight allow,
\* whatever is verified, replaced or expired in between.
THEOREM CodeGuessesBounded == Spec => []GuessesBounded
  <1>1. Spec => [](TypeInv /\ GuessInv)
    BY InitTypeInv, InitGuessInv, TypeInvStep, GuessStep, PTL DEF Spec
  <1>2. TypeInv /\ GuessInv => GuessesBounded
    <2> SUFFICES ASSUME TypeInv, GuessInv, NEW k \in Codes
                 PROVE  misses[k] < MaxAttempts + Cardinality(live)
      BY DEF GuessesBounded
    <2>1. Cardinality(Missing(k)) \in Nat
      BY AtCodeCounted DEF Missing, CodePcs
    <2>2. Cardinality(live) \in Nat /\ misses[k] \in Nat /\ MaxAttempts \in Nat
      BY LiveCounted, PhoneProofAssumption DEF TypeInv, TypeOK
    <2>3. misses[k] + Cardinality(Missing(k)) < MaxAttempts + Cardinality(live)
      BY DEF GuessInv
    <2> QED
      BY <2>1, <2>2, <2>3
  <1> QED
    BY <1>1, <1>2, PTL

-----------------------------------------------------------------------------
(* A code opens one application or account *)

Spending(k) == AtCode({"consume", "open"}, k)

\* Until a row is consumed nothing was opened with it; who is to open has found
\* it unconsumed, or comes in the company of who has.
OpeningInv ==
    /\ \A k \in Codes : k > issued => opened[k] = 0
    /\ \A k \in 1..issued :
          ~code[k].consumed => opened[k] = 0 /\ AtCode({"open"}, k) = {}
    /\ \A k \in Codes : opened[k] + Cardinality(Spending(k)) <= Cardinality(live)

SpendingBounded ==
    \A k \in Codes : /\ Cardinality(Spending(k)) \in Nat
                     /\ Cardinality(Spending(k)) <= Cardinality(live)

LEMMA SpendingCounted == TypeInv => SpendingBounded
  BY AtCodeCounted DEF SpendingBounded, Spending, CodePcs

LEMMA SpendingCountedNext == TypeInv' => SpendingBounded'
  BY SpendingCounted, PTL

LEMMA InitOpeningInv == Init => OpeningInv
  <1> SUFFICES ASSUME Init PROVE OpeningInv
    OBVIOUS
  <1>1. TypeInv
    BY InitTypeInv
  <1>2. \A k \in Codes : Spending(k) = {} /\ opened[k] = 0
    BY DEF Init, Idle, Spending, AtCode
  <1>3. Cardinality({}) = 0 /\ Cardinality(live) \in Nat
    BY <1>1, LiveCounted, FS_EmptySet
  <1>4. 1..issued = {}
    BY DEF Init
  <1>5. ASSUME NEW k \in Codes
        PROVE  opened[k] + Cardinality(Spending(k)) <= Cardinality(live)
    <2>1. opened[k] = 0 /\ Cardinality(Spending(k)) = 0
      BY <1>2, <1>3
    <2> QED
      BY <1>3, <2>1
  <1> QED
    BY <1>2, <1>4, <1>5 DEF OpeningInv

LEMMA OpeningFrame ==
    ASSUME TypeInv, OpeningInv, opened' = opened, live' = live,
           NoneArrives({"consume", "open"}), NoneArrives({"open"}),
           issued' \in 0..MaxCodes, issued <= issued',
           \A k \in 1..issued : code'[k].consumed = code[k].consumed
    PROVE  OpeningInv'
  <1>a. /\ issued \in Nat /\ \A k \in Codes : opened[k] \in Nat
        /\ issued' \in Nat /\ issued <= issued' /\ 1..issued' \subseteq Codes
    BY Numbers DEF Codes, TypeInv, TypeOK
  <1>b. \A k \in Codes : k \in Nat /\ k > 0
    BY PhoneProofAssumption DEF Codes
  <1>1. \A k \in Codes : k > issued' => opened'[k] = 0
    <2> SUFFICES ASSUME NEW k \in Codes, k > issued' PROVE opened'[k] = 0
      OBVIOUS
    <2>1. k > issued
      BY <1>a, <1>b
    <2> QED
      BY <2>1 DEF OpeningInv
  <1>2. ASSUME NEW k \in 1..issued', ~code'[k].consumed
        PROVE  opened'[k] = 0 /\ AtCode({"open"}, k)' = {}
    <2>1. CASE k \in 1..issued
      BY <1>2, <2>1 DEF OpeningInv, NoneArrives, AtCode
    <2>2. CASE k \notin 1..issued
      <3>1. k > issued
        BY <1>a, <2>2
      <3>2. AtCode({"open"}, k) = {}
        BY <2>2 DEF AtCode, TypeInv, AtWork, CodePcs
      <3> QED
        BY <1>a, <1>2, <3>1, <3>2 DEF OpeningInv, NoneArrives, AtCode
    <2> QED
      BY <2>1, <2>2
  <1>3. ASSUME NEW k \in Codes
        PROVE  opened'[k] + Cardinality(Spending(k)') <= Cardinality(live')
    <2>1. /\ Cardinality(Spending(k)') \in Nat
          /\ Cardinality(Spending(k)') <= Cardinality(Spending(k))
          /\ Cardinality(Spending(k)) \in Nat /\ Cardinality(live) \in Nat
      BY Fewer, AtCodeCounted, LiveCounted DEF Spending, CodePcs
    <2>2. opened[k] + Cardinality(Spending(k)) <= Cardinality(live)
      BY DEF OpeningInv
    <2> QED
      BY <1>a, <2>1, <2>2
  <1> QED
    BY <1>1, <1>2, <1>3 DEF OpeningInv

LEMMA OpeningStep == TypeInv /\ TypeInv' /\ OpeningInv /\ [Next]_vars => OpeningInv'
  <1> SUFFICES ASSUME TypeInv, TypeInv', OpeningInv, [Next]_vars
               PROVE  OpeningInv'
    OBVIOUS
  <1>a. /\ issued \in Nat /\ 1..issued \subseteq Codes
        /\ \A k \in Codes : opened[k] \in Nat
        /\ opened \in [Codes -> Nat] /\ issued' \in 0..MaxCodes
    <2>1. issued' \in 0..MaxCodes
      BY DEF TypeInv, TypeOK
    <2> QED
      BY <2>1, Numbers DEF TypeInv, TypeOK
  <1>b. \A k \in 1..issued : k \in Nat /\ ~(k > issued)
    BY <1>a
  <1>q. ASSUME RowsQuiet, opened' = opened, live' = live,
               NoneArrives({"consume", "open"}), NoneArrives({"open"})
        PROVE  OpeningInv'
    <2>1. /\ issued <= issued'
          /\ \A k \in 1..issued : code'[k].consumed = code[k].consumed
      BY <1>a, <1>q DEF RowsQuiet, RowsKept
    <2> QED
      BY <1>a, <1>q, <2>1, OpeningFrame
  <1>1. ASSUME NEW r \in Requests,
               \/ \E c \in Contacts : CheckCooldown(r, c)
               \/ CheckHourly(r) \/ RetireEarlier(r)
               \/ \E k \in 1..issued : VerifyRead(r, k)
               \/ Prove(r) \/ Abandon(r)
        PROVE  OpeningInv'
    <2>1. RowsQuiet
      BY <1>1, RowsOfSteps
    <2>2. opened' = opened /\ live' = live
      BY <1>1 DEF CheckCooldown, CheckHourly, RetireEarlier, VerifyRead, Prove, Abandon
    <2>3. proc'[r].pc \notin {"consume", "open"}
      BY <1>1, RecordAfter
    <2>4. \A q \in Requests : q # r => proc'[q] = proc[q]
      BY <1>1, OthersStay DEF RequestStep
    <2>5. NoneArrives({"consume", "open"}) /\ NoneArrives({"open"})
      BY <2>3, <2>4 DEF NoneArrives
    <2> QED
      BY <1>q, <2>1, <2>2, <2>5
  <1>2. ASSUME NEW r \in Requests, CreateCode(r) \/ Miss(r)
        PROVE  OpeningInv'
    <2>1. opened' = opened /\ live' = live
      BY <1>2 DEF CreateCode, Miss
    <2>2. /\ issued <= issued'
          /\ \A k \in 1..issued : code'[k].consumed = code[k].consumed
      <3>1. CASE CreateCode(r)
        BY <1>a, <3>1, CreateRows
      <3>2. CASE Miss(r)
        BY <1>a, <3>2, MissRows DEF RowsKept
      <3> QED
        BY <1>2, <3>1, <3>2
    <2>3. NoneArrives({"consume", "open"}) /\ NoneArrives({"open"})
      BY <1>2, RecordAfter, OthersStay DEF NoneArrives, RequestStep
    <2> QED
      BY <1>a, <2>1, <2>2, <2>3, OpeningFrame
  <1>3. ASSUME NEW r \in Requests, NEW k \in 1..issued, FindProof(r, k)
        PROVE  OpeningInv'
    <2>1. opened' = opened /\ live' = live /\ issued' = issued /\ code' = code
      BY <1>3 DEF FindProof
    <2>2. opened[k] = 0
      BY <1>3 DEF FindProof, OpeningInv
    <2>3. /\ proc'[r].pc = "consume" /\ proc'[r].code = k
          /\ \A q \in Requests : q # r => proc'[q] = proc[q]
      BY <1>3, RecordAfter, OthersStay DEF RequestStep
    <2>4. ASSUME NEW j \in Codes
          PROVE  opened'[j] + Cardinality(Spending(j)') <= Cardinality(live')
      <3>0. /\ Cardinality(Spending(j)) \in Nat /\ Cardinality(live) \in Nat
            /\ Cardinality(Spending(j)') \in Nat
            /\ Cardinality(Spending(j)') <= Cardinality(live')
        BY SpendingCounted, SpendingCountedNext, LiveCounted DEF SpendingBounded
      <3>1. CASE j = k
        BY <1>a, <2>1, <2>2, <3>0, <3>1
      <3>2. CASE j # k
        <4> DEFINE S == Spending(j)
                   T == Spending(j)'
        <4>1. T \subseteq S
          BY <2>3, <3>2 DEF Spending, AtCode
        <4>2. IsFiniteSet(S)
          BY AtCodeCounted DEF Spending, CodePcs
        <4> HIDE DEF S, T
        <4>3. Cardinality(T) <= Cardinality(S)
          BY <4>1, <4>2, FS_Subset
        <4>4. Cardinality(Spending(j)') <= Cardinality(Spending(j))
          BY <4>3 DEF S, T
        <4>5. opened[j] + Cardinality(Spending(j)) <= Cardinality(live)
          BY DEF OpeningInv
        <4> QED
          BY <1>a, <2>1, <3>0, <4>4, <4>5
      <3> QED
        BY <3>1, <3>2
    <2>5. \A j \in 1..issued : AtCode({"open"}, j)' \subseteq AtCode({"open"}, j)
      BY <2>3 DEF AtCode
    <2>6. \A j \in 1..issued' :
             ~code'[j].consumed => opened'[j] = 0 /\ AtCode({"open"}, j)' = {}
      BY <2>1, <2>5 DEF OpeningInv
    <2>7. \A j \in Codes : j > issued' => opened'[j] = 0
      BY <2>1 DEF OpeningInv
    <2> QED
      BY <2>4, <2>6, <2>7 DEF OpeningInv
  <1>4. ASSUME NEW r \in Requests, ConsumeProof(r)
        PROVE  OpeningInv'
    <2>1. PICK k \in 1..issued : k = proc[r].code
      BY <1>4, ConsumeRows
    <2>2. /\ opened' = opened /\ live' = live /\ issued' = issued
          /\ proc[r].pc = "consume"
      BY <1>4, ConsumeRows DEF ConsumeProof, RowsKept
    <2>3. /\ code'[k].consumed
          /\ \A j \in 1..issued : j # k => code'[j] = code[j]
      BY <1>4, <2>1, ConsumeRows
    <2>4. /\ proc'[r].pc = "open" /\ proc'[r].code = k
          /\ \A q \in Requests : q # r => proc'[q] = proc[q]
      BY <1>4, <2>1, RecordAfter, OthersStay DEF RequestStep
    <2>5. NoneArrives({"consume", "open"})
      BY <2>1, <2>2, <2>4 DEF NoneArrives
    <2>6. \A j \in 1..issued : j # k => AtCode({"open"}, j)' \subseteq AtCode({"open"}, j)
      BY <2>4 DEF AtCode
    <2>7. \A j \in 1..issued' :
             ~code'[j].consumed => opened'[j] = 0 /\ AtCode({"open"}, j)' = {}
      BY <2>2, <2>3, <2>6 DEF OpeningInv
    <2>8. \A j \in Codes : j > issued' => opened'[j] = 0
      BY <2>2 DEF OpeningInv
    <2>9. ASSUME NEW j \in Codes
          PROVE  opened'[j] + Cardinality(Spending(j)') <= Cardinality(live')
      <3>1. /\ Cardinality(Spending(j)') \in Nat
            /\ Cardinality(Spending(j)') <= Cardinality(Spending(j))
            /\ Cardinality(Spending(j)) \in Nat /\ Cardinality(live) \in Nat
        BY <2>5, Fewer, AtCodeCounted, LiveCounted DEF Spending, CodePcs
      <3>2. opened[j] + Cardinality(Spending(j)) <= Cardinality(live)
        BY DEF OpeningInv
      <3> QED
        BY <1>a, <2>2, <3>1, <3>2
    <2> QED
      BY <2>7, <2>8, <2>9 DEF OpeningInv
  <1>5. ASSUME NEW r \in Requests, Open(r)
        PROVE  OpeningInv'
    <2>1. PICK k \in 1..issued : k = proc[r].code
      BY <1>5 DEF Open, TypeInv, AtWork, CodePcs
    <2>2. /\ live' = live /\ issued' = issued /\ code' = code /\ proc[r].pc = "open"
          /\ opened' = [opened EXCEPT ![k] = @ + 1]
      BY <1>5, <2>1 DEF Open
    <2>3. \A j \in Codes : opened'[j] = IF j = k THEN opened[j] + 1 ELSE opened[j]
      BY <1>a, <2>2
    <2>4. /\ proc'[r].pc = "idle"
          /\ \A q \in Requests : q # r => proc'[q] = proc[q]
      BY <1>5, RecordAfter, OthersStay DEF RequestStep
    <2>5. code[k].consumed
      BY <2>1, <2>2 DEF OpeningInv, AtCode
    <2>6. \A j \in 1..issued : AtCode({"open"}, j)' \subseteq AtCode({"open"}, j)
      BY <2>4 DEF AtCode
    <2>7. \A j \in 1..issued' :
             ~code'[j].consumed => opened'[j] = 0 /\ AtCode({"open"}, j)' = {}
      BY <1>a, <2>2, <2>3, <2>5, <2>6 DEF OpeningInv
    <2>8. \A j \in Codes : j > issued' => opened'[j] = 0
      BY <1>b, <2>1, <2>2, <2>3 DEF OpeningInv
    <2>9. ASSUME NEW j \in Codes
          PROVE  opened'[j] + Cardinality(Spending(j)') <= Cardinality(live')
      <3> DEFINE S == Spending(j)
                 T == Spending(j)'
      <3>1. T \subseteq S /\ r \notin T /\ (j = k => r \in S)
        BY <2>1, <2>2, <2>4 DEF Spending, AtCode
      <3>2. IsFiniteSet(S)
        BY AtCodeCounted DEF Spending, CodePcs
      <3>3. Cardinality(live) \in Nat /\ opened[j] \in Nat
        BY <1>a, LiveCounted
      <3>4. opened[j] + Cardinality(S) <= Cardinality(live)
        BY DEF OpeningInv
      <3> HIDE DEF S, T
      <3>5. /\ IsFiniteSet(T) /\ Cardinality(T) <= Cardinality(S)
            /\ Cardinality(S) \in Nat /\ Cardinality(T) \in Nat
        BY <3>1, <3>2, FS_Subset, FS_CardinalityType
      <3>6. CASE j = k
        <4>1. T \subseteq S \ {r} /\ r \in S
          BY <3>1, <3>6
        <4>2. IsFiniteSet(S \ {r}) /\ Cardinality(S \ {r}) = Cardinality(S) - 1
          BY <3>2, <4>1, FS_RemoveElement
        <4>3. Cardinality(T) <= Cardinality(S) - 1
          BY <4>1, <4>2, FS_Subset
        <4>4. opened'[j] + Cardinality(T) <= Cardinality(live')
          BY <2>2, <2>3, <3>3, <3>4, <3>5, <3>6, <4>3
        <4> QED
          BY <4>4 DEF T
      <3>7. CASE j # k
        <4>1. opened'[j] + Cardinality(T) <= Cardinality(live')
          BY <2>2, <2>3, <3>3, <3>4, <3>5, <3>7
        <4> QED
          BY <4>1 DEF T
      <3> QED
        BY <3>6, <3>7
    <2> QED
      BY <2>7, <2>8, <2>9 DEF OpeningInv
  <1>6. CASE TimePasses
    BY <1>6, <1>q, TimePassesQuietly DEF NoneArrives
  <1>7. CASE UNCHANGED vars
    BY <1>7, <1>q, SameRows DEF NoneArrives, vars
  <1> QED
    BY <1>1, <1>2, <1>3, <1>4, <1>5, <1>6, <1>7 DEF Next, RequestStep

\* A code opens one application or account, and one more for each request that
\* finds its proof before another's use of it is written.
THEOREM CodeOpensOnce == Spec => []OneOpeningEach
  <1>1. Spec => [](TypeInv /\ OpeningInv)
    BY InitTypeInv, InitOpeningInv, TypeInvStep, OpeningStep, PTL DEF Spec
  <1>2. TypeInv /\ OpeningInv => OneOpeningEach
    <2> SUFFICES ASSUME TypeInv, OpeningInv, NEW k \in Codes
                 PROVE  opened[k] + Cardinality({r \in At({"open"}) : proc[r].code = k})
                        <= Cardinality(live)
      BY DEF OneOpeningEach
    <2> DEFINE S == Spending(k)
               T == {r \in At({"open"}) : proc[r].code = k}
    <2>1. T \subseteq S
      BY DEF At, Spending, AtCode
    <2>2. IsFiniteSet(S) /\ Cardinality(live) \in Nat /\ opened[k] \in Nat
      BY AtCodeCounted, LiveCounted DEF Spending, CodePcs, TypeInv, TypeOK
    <2>3. opened[k] + Cardinality(S) <= Cardinality(live)
      BY DEF OpeningInv
    <2> HIDE DEF S, T
    <2>4. /\ Cardinality(T) <= Cardinality(S) /\ Cardinality(T) \in Nat
          /\ Cardinality(S) \in Nat
      BY <2>1, <2>2, FS_Subset, FS_CardinalityType
    <2>5. opened[k] + Cardinality(T) <= Cardinality(live)
      BY <2>2, <2>3, <2>4
    <2> QED
      BY <2>5 DEF T
  <1> QED
    BY <1>1, <1>2, PTL

-----------------------------------------------------------------------------
(* One code of a contact can be entered *)

OpenCodes(c) == {k \in OfContact(c) : ~code[k].expired /\ ~code[k].verified}

Creating(c) == {q \in Requests : proc[q].pc = "create" /\ proc[q].contact = c}

ProvedIfUsed ==
    /\ \A k \in 1..issued : code[k].consumed => code[k].verified
    /\ \A q \in Requests : proc[q].pc = "consume" => code[proc[q].code].verified

\* The rows still to be written are counted with those that can be entered: a
\* request that comes to write one has just retired all there were.
LiveInv ==
    /\ ProvedIfUsed
    /\ \A c \in Contacts :
          Cardinality(OpenCodes(c)) + Cardinality(Creating(c)) <= Cardinality(live)

LEMMA OpenCounted ==
    ASSUME TypeInv, NEW c
    PROVE  /\ IsFiniteSet(OpenCodes(c)) /\ Cardinality(OpenCodes(c)) \in Nat
           /\ IsFiniteSet(Creating(c)) /\ Cardinality(Creating(c)) \in Nat
           /\ Cardinality(Creating(c)) <= Cardinality(live)
  <1> DEFINE S == OpenCodes(c)
             T == Creating(c)
  <1>1. S \subseteq 1..issued /\ T \subseteq live
    BY DEF OpenCodes, OfContact, Creating, TypeInv, AtWork
  <1>2. IsFiniteSet(1..issued) /\ IsFiniteSet(live)
    BY Numbers, LiveCounted, FS_Interval
  <1> HIDE DEF S, T
  <1>3. /\ IsFiniteSet(S) /\ Cardinality(S) \in Nat
        /\ IsFiniteSet(T) /\ Cardinality(T) \in Nat /\ Cardinality(T) <= Cardinality(live)
    BY <1>1, <1>2, FS_Subset, FS_CardinalityType
  <1> QED
    BY <1>3 DEF S, T

CreatingBounded ==
    \A c \in Contacts : /\ Cardinality(Creating(c)) \in Nat
                        /\ Cardinality(Creating(c)) <= Cardinality(live)

LEMMA CreatingCounted == TypeInv => CreatingBounded
  BY OpenCounted DEF CreatingBounded

LEMMA CreatingCountedNext == TypeInv' => CreatingBounded'
  BY CreatingCounted, PTL

\* No code can be entered that could not be before, and nobody comes to write one.
NoneOpens(c) ==
    /\ OpenCodes(c)' \subseteq OpenCodes(c)
    /\ Creating(c)' \subseteq Creating(c)

LEMMA StillOne ==
    ASSUME TypeInv, LiveInv, live' = live, NEW c \in Contacts, NoneOpens(c)
    PROVE  Cardinality(OpenCodes(c)') + Cardinality(Creating(c)') <= Cardinality(live')
  <1> DEFINE S == OpenCodes(c)
             S2 == OpenCodes(c)'
             T == Creating(c)
             T2 == Creating(c)'
  <1>1. S2 \subseteq S /\ T2 \subseteq T
    BY DEF NoneOpens
  <1>2. /\ IsFiniteSet(S) /\ IsFiniteSet(T)
        /\ Cardinality(S) \in Nat /\ Cardinality(T) \in Nat
    BY OpenCounted
  <1>3. Cardinality(S) + Cardinality(T) <= Cardinality(live) /\ Cardinality(live) \in Nat
    BY LiveCounted DEF LiveInv
  <1> HIDE DEF S, S2, T, T2
  <1>4. /\ Cardinality(S2) <= Cardinality(S) /\ Cardinality(T2) <= Cardinality(T)
        /\ Cardinality(S2) \in Nat /\ Cardinality(T2) \in Nat
    BY <1>1, <1>2, FS_Subset, FS_CardinalityType
  <1>5. Cardinality(S2) + Cardinality(T2) <= Cardinality(live)
    BY <1>2, <1>3, <1>4
  <1> QED
    BY <1>5 DEF S2, T2

LEMMA KeptOpensNone ==
    ASSUME TypeInv, RowsKept, NEW c
    PROVE  OpenCodes(c)' \subseteq OpenCodes(c)
  BY DEF RowsKept, Kept, OpenCodes, OfContact

LEMMA InitLiveInv == Init => LiveInv
  <1> SUFFICES ASSUME Init PROVE LiveInv
    OBVIOUS
  <1>1. TypeInv
    BY InitTypeInv
  <1>2. 1..issued = {}
    BY DEF Init
  <1>3. \A c \in Contacts : OpenCodes(c) = {} /\ Creating(c) = {}
    BY <1>2 DEF Init, Idle, OpenCodes, OfContact, Creating
  <1>4. Cardinality({}) = 0 /\ Cardinality(live) \in Nat
    BY <1>1, LiveCounted, FS_EmptySet
  <1>5. ASSUME NEW c \in Contacts
        PROVE  Cardinality(OpenCodes(c)) + Cardinality(Creating(c)) <= Cardinality(live)
    <2>1. Cardinality(OpenCodes(c)) = 0 /\ Cardinality(Creating(c)) = 0
      BY <1>3, <1>4
    <2> QED
      BY <1>4, <2>1
  <1>6. ProvedIfUsed
    BY <1>2 DEF Init, Idle, ProvedIfUsed
  <1> QED
    BY <1>5, <1>6 DEF LiveInv

\* A proof is used of a verified row only.
LEMMA ProvedStep ==
    ASSUME TypeInv, LiveInv, [Next]_vars
    PROVE  ProvedIfUsed'
  <1>a. \A q \in Requests : proc[q].pc = "consume" => proc[q].code \in 1..issued
    BY DEF TypeInv, AtWork, CodePcs
  <1>q. ASSUME RowsQuiet, NoneArrives({"consume"})
        PROVE  ProvedIfUsed'
    <2>1. \A k \in 1..issued : /\ code[k].verified => code'[k].verified
                               /\ code'[k].consumed => code[k].consumed
      BY <1>q DEF RowsQuiet, RowsKept, Kept
    <2>2. issued' = issued
      BY <1>q DEF RowsQuiet, RowsKept
    <2>3. \A k \in 1..issued' : code'[k].consumed => code'[k].verified
      BY <2>1, <2>2 DEF LiveInv, ProvedIfUsed
    <2>4. \A q \in Requests : proc'[q].pc = "consume" => code'[proc'[q].code].verified
      BY <1>a, <1>q, <2>1 DEF LiveInv, ProvedIfUsed, NoneArrives
    <2> QED
      BY <2>3, <2>4 DEF ProvedIfUsed
  <1>1. ASSUME NEW r \in Requests,
               \/ \E c \in Contacts : CheckCooldown(r, c)
               \/ CheckHourly(r) \/ RetireEarlier(r)
               \/ \E k \in 1..issued : VerifyRead(r, k)
               \/ Prove(r) \/ Open(r) \/ Abandon(r)
        PROVE  ProvedIfUsed'
    <2>1. RowsQuiet
      BY <1>1, RowsOfSteps
    <2>2. proc'[r].pc # "consume"
      BY <1>1, RecordAfter
    <2>3. \A q \in Requests : q # r => proc'[q] = proc[q]
      BY <1>1, OthersStay DEF RequestStep
    <2> QED
      BY <1>q, <2>1, <2>2, <2>3 DEF NoneArrives
  <1>2. ASSUME NEW r \in Requests, CreateCode(r)
        PROVE  ProvedIfUsed'
    <2>1. /\ issued' = issued + 1 /\ ~code'[issued'].consumed
          /\ \A k \in 1..issued : code'[k] = code[k]
      BY <1>2, CreateRows
    <2>2. \A k \in 1..issued' : k \notin 1..issued => k = issued'
      BY <2>1, Numbers
    <2>3. \A k \in 1..issued' : code'[k].consumed => code'[k].verified
      BY <2>1, <2>2 DEF LiveInv, ProvedIfUsed
    <2>4. proc'[r].pc = "idle" /\ \A q \in Requests : q # r => proc'[q] = proc[q]
      BY <1>2, RecordAfter, OthersStay DEF RequestStep
    <2>5. \A q \in Requests : proc'[q].pc = "consume" => code'[proc'[q].code].verified
      BY <1>a, <2>1, <2>4 DEF LiveInv, ProvedIfUsed
    <2> QED
      BY <2>3, <2>5 DEF ProvedIfUsed
  <1>3. ASSUME NEW r \in Requests, NEW k \in 1..issued, FindProof(r, k)
        PROVE  ProvedIfUsed'
    <2>1. issued' = issued /\ code' = code /\ code[k].verified
      BY <1>3 DEF FindProof
    <2>2. /\ proc'[r].code = k
          /\ \A q \in Requests : q # r => proc'[q] = proc[q]
      BY <1>3, RecordAfter, OthersStay DEF RequestStep
    <2> QED
      BY <2>1, <2>2 DEF LiveInv, ProvedIfUsed
  <1>4. ASSUME NEW r \in Requests, Miss(r) \/ ConsumeProof(r)
        PROVE  ProvedIfUsed'
    <2>1. /\ RowsKept /\ proc[r].code \in 1..issued
          /\ ConsumeProof(r) => \A j \in 1..issued :
                                   j # proc[r].code => code'[j] = code[j]
      BY <1>4, MissRows, ConsumeRows
    <2>2. \A k \in 1..issued : code[k].verified => code'[k].verified
      BY <2>1 DEF RowsKept, Kept
    <2>3. \A k \in 1..issued : code'[k].consumed => code'[k].verified
      <3>1. CASE Miss(r)
        <4>1. \A k \in 1..issued : code'[k].consumed => code[k].consumed
          BY <3>1, MissRows
        <4> QED
          BY <2>2, <4>1 DEF LiveInv, ProvedIfUsed
      <3>2. CASE ConsumeProof(r)
        <4>1. proc[r].pc = "consume"
          BY <3>2 DEF ConsumeProof
        <4>2. code[proc[r].code].verified
          BY <4>1 DEF LiveInv, ProvedIfUsed
        <4> QED
          BY <2>1, <2>2, <3>2, <4>2 DEF LiveInv, ProvedIfUsed
      <3> QED
        BY <1>4, <3>1, <3>2
    <2>4. /\ proc'[r].pc # "consume"
          /\ \A q \in Requests : q # r => proc'[q] = proc[q]
      BY <1>4, RecordAfter, OthersStay DEF RequestStep
    <2>5. \A q \in Requests : proc'[q].pc = "consume" => code'[proc'[q].code].verified
      BY <1>a, <2>2, <2>4 DEF LiveInv, ProvedIfUsed
    <2>6. issued' = issued
      BY <2>1 DEF RowsKept
    <2> QED
      BY <2>3, <2>5, <2>6 DEF ProvedIfUsed
  <1>5. CASE TimePasses
    BY <1>5, <1>q, TimePassesQuietly DEF NoneArrives
  <1>6. CASE UNCHANGED vars
    BY <1>6, <1>q, SameRows DEF NoneArrives, vars
  <1> QED
    BY <1>1, <1>2, <1>3, <1>4, <1>5, <1>6 DEF Next, RequestStep

\* A code that is used is verified: what is not verified, RetireEarlier expires.
LEMMA RetireCloses ==
    ASSUME TypeInv, LiveInv, NEW r \in Requests, RetireEarlier(r),
           NEW c, c = proc[r].contact
    PROVE  OpenCodes(c)' = {}
  <1>1. \A k \in OfContact(c) : ~code[k].verified => code'[k].expired
    BY RetireQuiet DEF LiveInv, ProvedIfUsed, OfContact
  <1>2. RowsKept
    BY RetireQuiet DEF RowsQuiet
  <1> QED
    BY <1>1, <1>2 DEF RowsKept, Kept, OpenCodes, OfContact

LEMMA LiveStep == TypeInv /\ TypeInv' /\ LiveInv /\ [Next]_vars => LiveInv'
  <1> SUFFICES ASSUME TypeInv, TypeInv', LiveInv, [Next]_vars, NEW c \in Contacts
               PROVE  Cardinality(OpenCodes(c)') + Cardinality(Creating(c)')
                      <= Cardinality(live')
    BY ProvedStep DEF LiveInv
  <1>a. issued \in Nat /\ Cardinality(live) \in Nat
    BY Numbers, LiveCounted
  <1>1. ASSUME NEW r \in Requests,
               \/ \E d \in Contacts : CheckCooldown(r, d)
               \/ CheckHourly(r)
               \/ \E k \in 1..issued : VerifyRead(r, k) \/ FindProof(r, k)
               \/ Miss(r) \/ Prove(r) \/ ConsumeProof(r) \/ Open(r) \/ Abandon(r)
        PROVE  NoneOpens(c) /\ live' = live
    <2>1. RowsKept
      <3>1. CASE Miss(r) \/ ConsumeProof(r)
        BY <3>1, MissRows, ConsumeRows
      <3>2. CASE ~Miss(r) /\ ~ConsumeProof(r)
        BY <1>1, <3>2, RowsOfSteps DEF RowsQuiet
      <3> QED
        BY <3>1, <3>2
    <2>2. proc'[r].pc # "create"
      BY <1>1, RecordAfter
    <2>3. live' = live /\ \A q \in Requests : q # r => proc'[q] = proc[q]
      BY <1>1, OthersStay DEF RequestStep
    <2>4. Creating(c)' \subseteq Creating(c)
      BY <2>2, <2>3 DEF Creating
    <2> QED
      BY <2>1, <2>3, <2>4, KeptOpensNone DEF NoneOpens
  <1>2. ASSUME NEW r \in Requests, RetireEarlier(r)
        PROVE  Cardinality(OpenCodes(c)') + Cardinality(Creating(c)')
               <= Cardinality(live')
    <2>1. live' = live /\ \A q \in Requests : q # r => proc'[q] = proc[q]
      BY <1>2, OthersStay DEF RequestStep
    <2>2. CASE c = proc[r].contact
      <3>1. OpenCodes(c)' = {}
        BY <1>2, <2>2, RetireCloses
      <3>2. Cardinality(OpenCodes(c)') = 0
        BY <3>1, FS_EmptySet
      <3>3. /\ Cardinality(Creating(c)') \in Nat
            /\ Cardinality(Creating(c)') <= Cardinality(live')
        BY CreatingCountedNext DEF CreatingBounded
      <3> QED
        BY <1>a, <2>1, <3>2, <3>3
    <2>3. CASE c # proc[r].contact
      <3>1. proc'[r].contact = proc[r].contact
        BY <1>2, RecordAfter
      <3>2. Creating(c)' \subseteq Creating(c)
        BY <2>1, <2>3, <3>1 DEF Creating
      <3>3. RowsKept
        BY <1>2, RetireQuiet DEF RowsQuiet
      <3>4. NoneOpens(c)
        BY <3>2, <3>3, KeptOpensNone DEF NoneOpens
      <3> QED
        BY <2>1, <3>4, StillOne
    <2> QED
      BY <2>2, <2>3
  <1>3. ASSUME NEW r \in Requests, CreateCode(r)
        PROVE  Cardinality(OpenCodes(c)') + Cardinality(Creating(c)')
               <= Cardinality(live')
    <2>1. /\ live' = live /\ proc'[r].pc = "idle" /\ proc[r].pc = "create"
          /\ \A q \in Requests : q # r => proc'[q] = proc[q]
      BY <1>3, OthersStay, RecordAfter DEF RequestStep, CreateCode
    <2>2. /\ issued' = issued + 1
          /\ \A k \in 1..issued : code'[k] = code[k]
          /\ code'[issued'].contact = proc[r].contact
      BY <1>3, CreateRows
    <2>3. \A k \in 1..issued' : k \notin 1..issued => k = issued'
      BY <1>a, <2>2
    <2>4. CASE c # proc[r].contact
      <3>1. Creating(c)' \subseteq Creating(c)
        BY <2>1 DEF Creating
      <3>2. OpenCodes(c)' \subseteq OpenCodes(c)
        BY <2>2, <2>3, <2>4 DEF OpenCodes, OfContact
      <3> QED
        BY <2>1, <3>1, <3>2, StillOne DEF NoneOpens
    <2>5. CASE c = proc[r].contact
      <3> DEFINE S == OpenCodes(c)
                 S2 == OpenCodes(c)'
                 T == Creating(c)
                 T2 == Creating(c)'
                 n == issued'
      <3>1. S2 \subseteq S \cup {n}
        BY <2>2, <2>3 DEF OpenCodes, OfContact
      <3>2. T2 \subseteq T \ {r} /\ r \in T
        BY <2>1, <2>5 DEF Creating
      <3>3. IsFiniteSet(S) /\ IsFiniteSet(T)
            /\ Cardinality(S) \in Nat /\ Cardinality(T) \in Nat
        BY OpenCounted
      <3>4. Cardinality(S) + Cardinality(T) <= Cardinality(live)
        BY DEF LiveInv
      <3> HIDE DEF S, S2, T, T2, n
      <3>5. /\ IsFiniteSet(S \cup {n}) /\ Cardinality(S \cup {n}) \in Nat
            /\ Cardinality(S \cup {n}) <= Cardinality(S) + 1
        <4>1. IsFiniteSet(S \cup {n})
          BY <3>3, FS_AddElement
        <4>2. \/ Cardinality(S \cup {n}) = Cardinality(S)
              \/ Cardinality(S \cup {n}) = Cardinality(S) + 1
          BY <3>3, FS_AddElement
        <4>3. Cardinality(S \cup {n}) \in Nat
          BY <4>1, FS_CardinalityType
        <4> QED
          BY <3>3, <4>1, <4>2, <4>3
      <3>6. IsFiniteSet(T \ {r}) /\ Cardinality(T \ {r}) = Cardinality(T) - 1
        BY <3>2, <3>3, FS_RemoveElement
      <3>7. Cardinality(S2) <= Cardinality(S \cup {n}) /\ Cardinality(S2) \in Nat
        BY <3>1, <3>5, FS_Subset, FS_CardinalityType
      <3>8. Cardinality(T2) <= Cardinality(T) - 1 /\ Cardinality(T2) \in Nat
        BY <3>2, <3>6, FS_Subset, FS_CardinalityType
      <3>9. Cardinality(S2) + Cardinality(T2) <= Cardinality(live)
        BY <1>a, <3>3, <3>4, <3>5, <3>7, <3>8
      <3> QED
        BY <2>1, <3>9 DEF S2, T2
    <2> QED
      BY <2>4, <2>5
  <1>4. CASE TimePasses
    <2>1. RowsKept /\ live' = live /\ proc' = proc
      BY <1>4, TimePassesQuietly DEF RowsQuiet
    <2>2. NoneOpens(c)
      BY <2>1, KeptOpensNone DEF NoneOpens, Creating
    <2> QED
      BY <2>1, <2>2, StillOne
  <1>5. CASE UNCHANGED vars
    <2>1. RowsKept /\ live' = live /\ proc' = proc
      BY <1>5, SameRows DEF RowsQuiet, vars
    <2>2. NoneOpens(c)
      BY <2>1, KeptOpensNone DEF NoneOpens, Creating
    <2> QED
      BY <2>1, <2>2, StillOne
  <1>6. NoneOpens(c) /\ live' = live =>
          Cardinality(OpenCodes(c)') + Cardinality(Creating(c)') <= Cardinality(live')
    BY StillOne
  <1> QED
    BY <1>1, <1>2, <1>3, <1>4, <1>5, <1>6 DEF Next, RequestStep

\* Of the codes a contact was sent, those that are not verified can be entered
\* one at a time, or one for each request that issues a code at the same time.
THEOREM LiveCodesBounded == Spec => []OneLiveCode
  <1>1. Spec => [](TypeInv /\ LiveInv)
    BY InitTypeInv, InitLiveInv, TypeInvStep, LiveStep, PTL DEF Spec
  <1>2. TypeInv /\ LiveInv => OneLiveCode
    <2> SUFFICES ASSUME TypeInv, LiveInv, NEW c \in Contacts
                 PROVE  Cardinality(OpenCodes(c)) <= Cardinality(live)
      BY DEF OneLiveCode, OpenCodes
    <2>1. /\ Cardinality(OpenCodes(c)) \in Nat /\ Cardinality(Creating(c)) \in Nat
          /\ Cardinality(live) \in Nat
      BY OpenCounted, LiveCounted
    <2>2. Cardinality(OpenCodes(c)) + Cardinality(Creating(c)) <= Cardinality(live)
      BY DEF LiveInv
    <2> QED
      BY <2>1, <2>2
  <1> QED
    BY <1>1, <1>2, PTL
=============================================================================
