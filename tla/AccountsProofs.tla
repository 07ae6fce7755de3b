--------------------------- MODULE AccountsProofs ---------------------------
(***************************************************************************)
(* Theorems about Accounts, for any number of requests in flight, every    *)
(* mix of them and every bound.                                            *)
(***************************************************************************)
EXTENDS Accounts, FiniteSetTheorems, TLAPS

\* The program counter of a request tells which record it holds.
LEMMA ReqKinds ==
    ASSUME NEW q \in ReqState
    PROVE  /\ q # Idle => q.pc # "idle"
           /\ q.pc = "miss" => q \in Guessing
           /\ q.pc \in {"admit", "open"} => q \in Opening
           /\ q.pc \in {"load", "persist"} => q \in Rotating
           /\ q.pc = "replace" => q \in Replacing
           /\ q.pc = "revokeFamily" => q \in Replayed
           /\ q.pc = "reset" => q \in Resetting
           /\ q.pc \in {"change", "revokeAll"} => q \in Changing
  BY DEF ReqState, Idle, Guessing, Opening, Rotating, Replacing, Replayed,
         Linking, Resetting, Changing

LEMMA KindsOfReq ==
    /\ Idle \in ReqState
    /\ \A n \in 0..(MaxFailed - 1) : [pc |-> "miss", fails |-> n] \in ReqState
    /\ \A p \in Nat : /\ [pc |-> "admit", password |-> p] \in ReqState
                      /\ [pc |-> "open", password |-> p] \in ReqState
    /\ \A k \in Tokens : /\ [pc |-> "load", token |-> k] \in ReqState
                         /\ [pc |-> "persist", token |-> k] \in ReqState
                         /\ [pc |-> "revokeFamily", family |-> k] \in ReqState
                         /\ \A n \in Tokens :
                               [pc |-> "replace", token |-> k, new |-> n] \in ReqState
    /\ [pc |-> "link"] \in ReqState
    /\ \A l \in Links, b \in BOOLEAN :
          [pc |-> "reset", link |-> l, activate |-> b] \in ReqState
    /\ \A k \in {NoToken} \cup Tokens :
          /\ [pc |-> "change", keep |-> k] \in ReqState
          /\ [pc |-> "revokeAll", keep |-> k] \in ReqState
  BY DEF ReqState, Idle, Guessing, Opening, Rotating, Replacing, Replayed,
         Linking, Resetting, Changing

-----------------------------------------------------------------------------
(* Type correctness *)

RotationPcs == {"load", "persist", "replace"}

\* The tokens that a request holds are among the first n.
Holds(q, n) ==
    /\ q.pc \in RotationPcs => q.token \in 1..n
    /\ q.pc = "replace" => q.new \in 1..n
    /\ q.pc \in {"change", "revokeAll"} => q.keep <= n

\* Every token issued belongs to a session that was opened, and requests hold
\* tokens that were issued.
TokensIssued ==
    /\ \A k \in 1..issued : token[k].family \in 1..issued
    /\ \A k \in Tokens : k > issued => ~token[k].revoked
    /\ \A r \in Requests : Holds(req[r], issued)

TypeInv == TypeOK /\ TokensIssued

LEMMA InitTypeInv == Init => TypeInv
  <1> SUFFICES ASSUME Init PROVE TypeInv
    OBVIOUS
  <1> USE AccountsAssumption
  <1>1. token \in [Tokens -> TokenRow]
    BY DEF Init, TokenRow, NoToken
  <1>2. account \in AccountRow
    <2>1. PICK s \in UserStatuses, p \in {0, 1} :
             account = [status |-> s, password |-> p, fails |-> 0, locked |-> FALSE]
      BY DEF Init, Undisclosed, UserStatuses
    <2>2. 0 \in 0..(MaxFailed - 1) /\ p \in 0..MaxPasswords
      OBVIOUS
    <2> QED
      BY <2>1, <2>2 DEF AccountRow
  <1>3. req \in [Requests -> ReqState]
    BY KindsOfReq DEF Init
  <1>4. link \in [Links -> LinkStates]
    BY DEF Init, LinkStates
  <1>5. TokensIssued
    BY DEF Init, TokensIssued, Holds, RotationPcs, Idle, Tokens
  <1>6. traffic \in SUBSET Kinds
    BY DEF Init
  <1>7. /\ born \in [Tokens -> Nat] /\ issued \in 0..MaxTokens
        /\ loose = {} /\ forked = {} /\ guesses = 0
    BY DEF Init
  <1> QED
    BY <1>1, <1>2, <1>3, <1>4, <1>5, <1>6, <1>7 DEF TypeInv, TypeOK

\* What a step does to one request's record.
LEMMA ReqStep ==
    ASSUME TypeInv, NEW r \in Requests, NEW state \in ReqState, Goto(r, state)
    PROVE  /\ req' \in [Requests -> ReqState]
           /\ req'[r] = state
           /\ \A q \in Requests : q # r => req'[q] = req[q]
  BY DEF TypeInv, TypeOK, Goto

\* A step of one request that keeps the tokens in order.
LEMMA HoldsStep ==
    ASSUME TypeInv, NEW r \in Requests, NEW state \in ReqState, Goto(r, state),
           issued' \in 0..MaxTokens, issued <= issued', Holds(state, issued'),
           \A k \in 1..issued' : token'[k].family \in 1..issued',
           \A k \in Tokens : k > issued' => ~token'[k].revoked
    PROVE  TokensIssued' /\ req' \in [Requests -> ReqState]
  <1> USE AccountsAssumption
  <1>1. req' \in [Requests -> ReqState] /\ req'[r] = state
        /\ \A q \in Requests : q # r => req'[q] = req[q]
    BY ReqStep
  <1>2. issued \in 0..MaxTokens
    BY DEF TypeInv, TypeOK
  <1>3. ASSUME NEW q \in Requests, q # r PROVE Holds(req[q], issued')
    <2>1. Holds(req[q], issued) /\ req[q] \in ReqState
      BY DEF TypeInv, TypeOK, TokensIssued
    <2>2. req[q].pc \in {"change", "revokeAll"} => req[q].keep \in Nat
      BY <2>1, ReqKinds DEF Changing, NoToken, Tokens
    <2> QED
      BY <1>2, <2>1, <2>2 DEF Holds
  <1>4. \A q \in Requests : Holds(req'[q], issued')
    BY <1>1, <1>3
  <1> QED
    BY <1>1, <1>4 DEF TokensIssued, Holds

\* The rows that an updateMany revokes differ in that alone.
LEMMA RevokeStep ==
    ASSUME TypeInv, NEW ks, token' = Revoke(ks)
    PROVE  /\ token' \in [Tokens -> TokenRow]
           /\ \A k \in Tokens : /\ token'[k].family = token[k].family
                                /\ token'[k].next = token[k].next
                                /\ token'[k].revoked <=> (token[k].revoked \/ k \in ks)
  <1> SUFFICES ASSUME NEW k \in Tokens
               PROVE  /\ token'[k] \in TokenRow
                      /\ token'[k].family = token[k].family
                      /\ token'[k].next = token[k].next
                      /\ token'[k].revoked <=> (token[k].revoked \/ k \in ks)
    BY DEF Revoke
  <1>1. token[k] \in TokenRow
    BY DEF TypeInv, TypeOK
  <1>2. token'[k] = IF k \in ks THEN [token[k] EXCEPT !.revoked = TRUE] ELSE token[k]
    BY DEF Revoke
  <1>3. CASE k \in ks
    BY <1>1, <1>2, <1>3 DEF TokenRow
  <1>4. CASE k \notin ks
    BY <1>1, <1>2, <1>4 DEF TokenRow
  <1> QED
    BY <1>3, <1>4

\* The token created for session f: the next number, live, without successor.
LEMMA CreateStep ==
    ASSUME TypeInv, issued < MaxTokens, issued' = issued + 1,
           NEW f \in 1..(issued + 1),
           token' = [token EXCEPT ![issued + 1].family = f]
    PROVE  /\ token' \in [Tokens -> TokenRow]
           /\ issued + 1 \in Tokens /\ issued' \in 0..MaxTokens
           /\ token'[issued + 1].family = f
           /\ ~token'[issued + 1].revoked
           /\ \A k \in Tokens : k # issued + 1 => token'[k] = token[k]
  <1> USE AccountsAssumption
  <1>1. issued \in Nat /\ issued + 1 \in Tokens /\ issued' \in 0..MaxTokens
    BY DEF TypeInv, TypeOK, Tokens
  <1>2. token[issued + 1] \in TokenRow /\ ~token[issued + 1].revoked
    BY <1>1 DEF TypeInv, TypeOK, TokensIssued
  <1>3. f \in 0..MaxTokens
    BY <1>1 DEF Tokens
  <1>4. [token[issued + 1] EXCEPT !.family = f] \in TokenRow
    BY <1>2, <1>3 DEF TokenRow
  <1> QED
    BY <1>1, <1>2, <1>3, <1>4 DEF TypeInv, TypeOK, TokenRow

\* The users row after a write to the columns named.
LEMMA AccountStep ==
    ASSUME TypeInv, NEW s \in UserStatuses, NEW p \in 0..MaxPasswords,
           NEW n \in 0..(MaxFailed - 1), NEW b \in BOOLEAN,
           account' = [account EXCEPT !.status = s, !.password = p,
                                      !.fails = n, !.locked = b]
    PROVE  account' \in AccountRow
  BY DEF TypeInv, TypeOK, AccountRow


\* TypeInv without the records of the requests.
Rows ==
    /\ traffic \in SUBSET Kinds
    /\ account \in AccountRow
    /\ link \in [Links -> LinkStates]
    /\ born \in [Tokens -> Nat]
    /\ loose \in SUBSET Nat
    /\ forked \in SUBSET Nat
    /\ guesses \in Nat

TokenRows ==
    /\ token \in [Tokens -> TokenRow]
    /\ issued \in 0..MaxTokens
    /\ \A k \in 1..issued : token[k].family \in 1..issued
    /\ \A k \in Tokens : k > issued => ~token[k].revoked

LEMMA Assemble ==
    ASSUME TypeInv, Rows', TokenRows', issued <= issued', NEW r \in Requests,
           NEW state \in ReqState, Goto(r, state), Holds(state, issued')
    PROVE  TypeInv'
  <1>1. TokensIssued' /\ req' \in [Requests -> ReqState]
    BY HoldsStep DEF TokenRows
  <1> QED
    BY <1>1 DEF Rows, TokenRows, TypeInv, TypeOK

LEMMA Facts ==
    ASSUME TypeInv, NEW r \in Requests
    PROVE  /\ req[r] \in ReqState /\ Holds(req[r], issued)
           /\ Rows /\ TokenRows
           /\ issued \in Nat /\ 1..issued \subseteq Tokens
           /\ Idle \in ReqState /\ Idle.pc = "idle" /\ Holds(Idle, issued')
           /\ \A state \in ReqState :
                 state.pc \notin RotationPcs \cup {"change", "revokeAll"}
                    => Holds(state, issued')
  BY AccountsAssumption, KindsOfReq
     DEF TypeInv, TypeOK, TokensIssued, Rows, TokenRows, Tokens, Idle, Holds,
         RotationPcs

LEMMA FamiliesAreNumbers ==
    ASSUME TypeInv
    PROVE  /\ BeingRotated \subseteq Nat
           /\ \A ks \in SUBSET Tokens : Sessions(ks) \subseteq Nat
           /\ LiveTokens \subseteq Tokens
  <1>1. \A k \in Tokens : token[k].family \in Nat
    BY AccountsAssumption DEF TypeInv, TypeOK, TokenRow
  <1>2. \A ks \in SUBSET Tokens : Sessions(ks) \subseteq Nat
    BY <1>1 DEF Sessions
  <1>3. ASSUME NEW r \in Requests, req[r].pc \in {"load", "persist"}
        PROVE  req[r].token \in Tokens
    BY <1>3, ReqKinds DEF TypeInv, TypeOK, Rotating
  <1>4. BeingRotated \subseteq Nat
    BY <1>1, <1>3 DEF BeingRotated, InFlight
  <1>5. LiveTokens \subseteq Tokens
    BY AccountsAssumption DEF LiveTokens, Tokens, TypeInv, TypeOK
  <1> QED
    BY <1>2, <1>4, <1>5

LEMMA LoginTypeInv ==
    ASSUME TypeInv, NEW r \in Requests, Login(r)
    PROVE  TypeInv'
  <1> USE AccountsAssumption
  <1>0. /\ req[r] \in ReqState /\ Holds(req[r], issued) /\ Rows /\ TokenRows
        /\ issued \in Nat /\ 1..issued \subseteq Tokens
        /\ Idle \in ReqState /\ Idle.pc = "idle" /\ Holds(Idle, issued')
        /\ \A state \in ReqState :
              state.pc \notin RotationPcs \cup {"change", "revokeAll"}
                 => Holds(state, issued')
    BY Facts
  <1>1. CASE LoginRead(r)
    <2> DEFINE a == [pc |-> "miss", fails |-> account.fails]
               b == [pc |-> "admit", password |-> account.password]
    <2>2. account.fails \in 0..(MaxFailed - 1) /\ account.password \in Nat
      BY <1>0 DEF Rows, AccountRow
    <2>a. a \in ReqState /\ b \in ReqState /\ a.pc = "miss" /\ b.pc = "admit"
      BY <2>2, KindsOfReq
    <2>b. Goto(r, a) \/ Goto(r, b)
      BY <1>1 DEF LoginRead
    <2> HIDE DEF a, b
    <2>1. PICK state \in {a, b} : Goto(r, state)
      BY <2>b
    <2>3. state \in ReqState /\ state.pc \in {"miss", "admit"}
      BY <2>1, <2>a
    <2>4. Holds(state, issued')
      BY <1>0, <2>3 DEF RotationPcs
    <2>5. Rows' /\ TokenRows' /\ issued <= issued'
      BY <1>0, <1>1 DEF LoginRead, Rows, TokenRows
    <2> QED
      BY <2>1, <2>3, <2>4, <2>5, Assemble
  <1>2. CASE LoginMiss(r)
    <2>1. req[r].fails \in 0..(MaxFailed - 1)
      BY <1>0, <1>2, ReqKinds DEF LoginMiss, Guessing
    <2>2. account' \in AccountRow
      <3> DEFINE attempts == req[r].fails + 1
                 lock == attempts >= MaxFailed
                 n == IF lock THEN 0 ELSE attempts
      <3>1. n \in 0..(MaxFailed - 1) /\ lock \in BOOLEAN
        BY <2>1
      <3>2. account' = [account EXCEPT !.fails = n, !.locked = lock]
        BY <1>2 DEF LoginMiss
      <3> HIDE DEF n, lock
      <3> QED
        BY <1>0, <3>1, <3>2 DEF Rows, AccountRow
    <2>3. Rows' /\ TokenRows' /\ issued <= issued' /\ Goto(r, Idle)
      BY <1>0, <1>2, <2>2 DEF LoginMiss, Rows, TokenRows
    <2> QED
      BY <1>0, <2>3, Assemble
  <1>3. CASE LoginAdmit(r)
    <2>1. req[r].password \in Nat
      BY <1>0, <1>3, ReqKinds DEF LoginAdmit, Opening
    <2>2. account' \in AccountRow
      <3>1. 0 \in 0..(MaxFailed - 1)
        OBVIOUS
      <3> QED
        BY <1>0, <1>3, <3>1 DEF LoginAdmit, Rows, AccountRow
    <2> DEFINE state == [pc |-> "open", password |-> req[r].password]
    <2>3. Goto(r, state) /\ state \in ReqState /\ state.pc = "open"
      BY <1>3, <2>1, KindsOfReq DEF LoginAdmit
    <2> HIDE DEF state
    <2>4. Holds(state, issued')
      BY <1>0, <2>3 DEF RotationPcs
    <2>5. Rows' /\ TokenRows' /\ issued <= issued'
      BY <1>0, <1>3, <2>2 DEF LoginAdmit, Rows, TokenRows
    <2> QED
      BY <2>3, <2>4, <2>5, Assemble
  <1>4. CASE IssueSession(r)
    <2>1. req[r].password \in Nat
      BY <1>0, <1>4, ReqKinds DEF IssueSession, Opening
    <2>2. /\ token' \in [Tokens -> TokenRow]
          /\ issued + 1 \in Tokens /\ issued' \in 0..MaxTokens
          /\ token'[issued + 1].family = issued + 1
          /\ ~token'[issued + 1].revoked
          /\ \A k \in Tokens : k # issued + 1 => token'[k] = token[k]
      <3>1. issued + 1 \in 1..(issued + 1)
        BY <1>0
      <3> QED
        BY <1>4, <3>1, CreateStep DEF IssueSession
    <2>3. TokenRows' /\ issued <= issued'
      BY <1>0, <1>4, <2>2 DEF IssueSession, TokenRows, Tokens
    <2>4. Rows' /\ Goto(r, Idle)
      BY <1>0, <1>4, <2>1, <2>2 DEF IssueSession, Rows
    <2> QED
      BY <1>0, <2>3, <2>4, Assemble
  <1> QED
    BY <1>1, <1>2, <1>3, <1>4 DEF Login

LEMMA RotateTypeInv ==
    ASSUME TypeInv, NEW r \in Requests, Rotate(r)
    PROVE  TypeInv'
  <1> USE AccountsAssumption
  <1>0. /\ req[r] \in ReqState /\ Holds(req[r], issued) /\ Rows /\ TokenRows
        /\ issued \in Nat /\ 1..issued \subseteq Tokens
        /\ Idle \in ReqState /\ Idle.pc = "idle" /\ Holds(Idle, issued')
        /\ \A state \in ReqState :
              state.pc \notin RotationPcs \cup {"change", "revokeAll"}
                 => Holds(state, issued')
    BY Facts
  <1>1. ASSUME NEW k \in Tokens, RotateRead(r, k) PROVE TypeInv'
    <2>1. k \in 1..issued /\ token[k].family \in 1..issued
      BY <1>0, <1>1 DEF RotateRead, TokenRows, Tokens
    <2> DEFINE a == [pc |-> "revokeFamily", family |-> token[k].family]
               b == [pc |-> "load", token |-> k]
    <2>a. /\ a \in ReqState /\ a.pc = "revokeFamily"
          /\ b \in ReqState /\ b.pc = "load" /\ b.token = k
      BY <1>0, <2>1, KindsOfReq
    <2>b. Goto(r, a) \/ Goto(r, b)
      BY <1>1 DEF RotateRead
    <2> HIDE DEF a, b
    <2>2. PICK state \in {a, b} : Goto(r, state)
      BY <2>b
    <2>3. /\ state \in ReqState /\ state.pc \in {"revokeFamily", "load"}
          /\ state.pc = "load" => state.token = k
      BY <2>2, <2>a
    <2>4. issued' = issued
      BY <1>1 DEF RotateRead
    <2>5. Holds(state, issued')
      BY <2>1, <2>3, <2>4 DEF Holds, RotationPcs
    <2>c. forked' = forked \/ forked' = forked \cup {token[k].family}
      BY <1>1 DEF RotateRead
    <2>6. forked' \in SUBSET Nat
      <3>1. token[k].family \in Nat /\ forked \in SUBSET Nat
        BY <1>0, <2>1 DEF Rows
      <3> QED
        BY <3>1, <2>c
    <2>7. Rows' /\ TokenRows' /\ issued <= issued'
      BY <1>0, <1>1, <2>6 DEF RotateRead, Rows, TokenRows
    <2> QED
      BY <2>2, <2>3, <2>5, <2>7, Assemble
  <1>2. CASE RotateLoad(r)
    <2>1. req[r].token \in 1..issued /\ token[req[r].token].family \in 1..issued
      BY <1>0, <1>2 DEF RotateLoad, TokenRows, Holds, RotationPcs
    <2> DEFINE a == [pc |-> "revokeFamily", family |-> token[req[r].token].family]
               b == [pc |-> "persist", token |-> req[r].token]
    <2>a. /\ a \in ReqState /\ a.pc = "revokeFamily"
          /\ b \in ReqState /\ b.pc = "persist" /\ b.token = req[r].token
      BY <1>0, <2>1, KindsOfReq
    <2>b. Goto(r, a) \/ Goto(r, b)
      BY <1>2 DEF RotateLoad
    <2> HIDE DEF a, b
    <2>2. PICK state \in {a, b} : Goto(r, state)
      BY <2>b
    <2>3. /\ state \in ReqState /\ state.pc \in {"revokeFamily", "persist"}
          /\ state.pc = "persist" => state.token = req[r].token
      BY <2>2, <2>a
    <2>4. issued' = issued
      BY <1>2 DEF RotateLoad
    <2>5. Holds(state, issued')
      BY <2>1, <2>3, <2>4 DEF Holds, RotationPcs
    <2>7. Rows' /\ TokenRows' /\ issued <= issued'
      BY <1>0, <1>2 DEF RotateLoad, Rows, TokenRows
    <2> QED
      BY <2>2, <2>3, <2>5, <2>7, Assemble
  <1>3. CASE RotatePersist(r)
    <2>1. req[r].token \in 1..issued /\ token[req[r].token].family \in 1..issued
      BY <1>0, <1>3 DEF RotatePersist, TokenRows, Holds, RotationPcs
    <2>2. /\ token' \in [Tokens -> TokenRow]
          /\ issued + 1 \in Tokens /\ issued' \in 0..MaxTokens
          /\ token'[issued + 1].family \in 1..issued
          /\ ~token'[issued + 1].revoked
          /\ \A k \in Tokens : k # issued + 1 => token'[k] = token[k]
      <3> DEFINE f == token[req[r].token].family
      <3>1. f \in 1..(issued + 1)
        BY <1>0, <2>1
      <3>2. token' = [token EXCEPT ![issued + 1].family = f]
        BY <1>3 DEF RotatePersist
      <3>3. f \in 1..issued
        BY <2>1
      <3> HIDE DEF f
      <3> QED
        BY <1>3, <3>1, <3>2, <3>3, CreateStep DEF RotatePersist
    <2> DEFINE state == [pc |-> "replace", token |-> req[r].token, new |-> issued + 1]
    <2>3. /\ Goto(r, state) /\ state \in ReqState /\ state.pc = "replace"
          /\ state.token = req[r].token /\ state.new = issued + 1
      BY <1>0, <1>3, <2>1, <2>2, KindsOfReq DEF RotatePersist
    <2> HIDE DEF state
    <2>4. issued' = issued + 1
      BY <1>3 DEF RotatePersist
    <2>5. Holds(state, issued')
      BY <1>0, <2>1, <2>3, <2>4 DEF Holds, RotationPcs
    <2>6. TokenRows' /\ issued <= issued'
      BY SMTT(30), <1>0, <2>2, <2>4 DEF TokenRows, Tokens
    <2>7. Rows'
      BY <1>0, <1>3 DEF RotatePersist, Rows
    <2> QED
      BY <2>3, <2>5, <2>6, <2>7, Assemble
  <1>4. CASE RotateReplace(r)
    <2>1. req[r].token \in 1..issued /\ req[r].new \in 1..issued
      BY <1>0, <1>4 DEF RotateReplace, Holds, RotationPcs
    <2>2. /\ token' \in [Tokens -> TokenRow]
          /\ \A k \in Tokens : /\ token'[k].family = token[k].family
                               /\ k # req[r].token => token'[k] = token[k]
      <3> DEFINE k == req[r].token
                 row == [token[k] EXCEPT !.revoked = TRUE, !.next = req[r].new]
      <3>1. k \in Tokens /\ token[k] \in TokenRow /\ req[r].new \in 0..MaxTokens
        BY <1>0, <2>1 DEF TokenRows, Tokens
      <3>2. row \in TokenRow /\ row.family = token[k].family
        BY <3>1 DEF TokenRow
      <3>3. token' = [token EXCEPT ![k] = row]
        BY <1>0, <1>4, <3>1 DEF RotateReplace, TokenRows, TokenRow
      <3> HIDE DEF k, row
      <3>4. token' \in [Tokens -> TokenRow]
            /\ \A j \in Tokens : /\ token'[j].family = token[j].family
                                 /\ j # k => token'[j] = token[j]
        BY <1>0, <3>1, <3>2, <3>3 DEF TokenRows
      <3> QED
        BY <3>4 DEF k
    <2>3. Rows' /\ issued' = issued /\ Goto(r, Idle)
      BY <1>0, <1>4 DEF RotateReplace, Rows
    <2>4. TokenRows'
      BY <1>0, <2>1, <2>2, <2>3 DEF TokenRows
    <2> QED
      BY <1>0, <2>3, <2>4, Assemble
  <1>5. CASE RevokeFamily(r)
    <2>1. token' = Revoke(OfSession(req[r].family))
          /\ issued' = issued /\ Rows' /\ Goto(r, Idle)
      BY <1>0, <1>5 DEF RevokeFamily, Rows
    <2>2. OfSession(req[r].family) \subseteq 1..issued
      BY DEF OfSession
    <2> DEFINE ks == OfSession(req[r].family)
    <2>a. ks \subseteq 1..issued /\ token' = Revoke(ks)
      BY <2>1, <2>2
    <2> HIDE DEF ks
    <2>b. /\ token' \in [Tokens -> TokenRow]
          /\ \A k \in Tokens : /\ token'[k].family = token[k].family
                               /\ token'[k].revoked <=> (token[k].revoked \/ k \in ks)
      BY <2>a, RevokeStep
    <2>3. TokenRows'
      <3>1. \A k \in Tokens : k > issued => ~token[k].revoked /\ k \notin ks
        BY <1>0, <2>a DEF TokenRows, Tokens
      <3>2. \A k \in Tokens : k > issued => ~token'[k].revoked
        BY <2>b, <3>1, Zenon
      <3> QED
        BY <1>0, <2>1, <2>b, <3>2 DEF TokenRows
    <2> QED
      BY <1>0, <2>1, <2>3, Assemble
  <1> QED
    BY <1>1, <1>2, <1>3, <1>4, <1>5 DEF Rotate

\* An updateMany that revokes, by id, tokens that were issued.
LEMMA RevokeTokenRows ==
    ASSUME TypeInv, NEW ks \in SUBSET (1..issued), token' = Revoke(ks), issued' = issued
    PROVE  TokenRows'
  <1>1. /\ token' \in [Tokens -> TokenRow]
        /\ \A k \in Tokens : /\ token'[k].family = token[k].family
                             /\ token'[k].revoked <=> (token[k].revoked \/ k \in ks)
    BY RevokeStep
  <1>2. TokenRows /\ issued \in Nat /\ 1..issued \subseteq Tokens
    BY AccountsAssumption DEF TypeInv, TypeOK, TokensIssued, TokenRows, Tokens
  <1>3. \A k \in Tokens : k > issued => ~token[k].revoked /\ k \notin ks
    BY <1>2 DEF TokenRows, Tokens
  <1>4. \A k \in Tokens : k > issued => ~token'[k].revoked
    BY <1>1, <1>3, Zenon
  <1> QED
    BY <1>1, <1>2, <1>4 DEF TokenRows

LEMMA PasswordTypeInv ==
    ASSUME TypeInv, NEW r \in Requests, Password(r)
    PROVE  TypeInv'
  <1> USE AccountsAssumption
  <1>0. /\ req[r] \in ReqState /\ Holds(req[r], issued) /\ Rows /\ TokenRows
        /\ issued \in Nat /\ 1..issued \subseteq Tokens
        /\ Idle \in ReqState /\ Idle.pc = "idle" /\ Holds(Idle, issued')
        /\ \A state \in ReqState :
              state.pc \notin RotationPcs \cup {"change", "revokeAll"}
                 => Holds(state, issued')
    BY Facts
  <1>1. CASE ForgotExpire(r)
    <2> DEFINE state == [pc |-> "link"]
    <2>1. Goto(r, state) /\ state \in ReqState /\ state.pc = "link"
      BY <1>1, KindsOfReq DEF ForgotExpire
    <2> HIDE DEF state
    <2>2. Holds(state, issued')
      BY <1>0, <2>1 DEF RotationPcs
    <2>3. link' \in [Links -> LinkStates]
      BY <1>0, <1>1 DEF ForgotExpire, Rows, LinkStates
    <2>4. Rows' /\ TokenRows' /\ issued <= issued'
      BY <1>0, <1>1, <2>3 DEF ForgotExpire, Rows, TokenRows
    <2> QED
      BY <2>1, <2>2, <2>4, Assemble
  <1>2. CASE ForgotCreate(r)
    <2>1. link' \in [Links -> LinkStates]
      BY <1>0, <1>2 DEF ForgotCreate, Rows, LinkStates
    <2>2. Rows' /\ TokenRows' /\ issued <= issued' /\ Goto(r, Idle)
      BY <1>0, <1>2, <2>1 DEF ForgotCreate, Rows, TokenRows
    <2> QED
      BY <1>0, <2>2, Assemble
  <1>3. ASSUME NEW l \in Links, ResetRead(r, l) PROVE TypeInv'
    <2> DEFINE b == account.status = "PENDING_VERIFICATION"
               state == [pc |-> "reset", link |-> l, activate |-> b]
    <2>1. Goto(r, state) /\ state \in ReqState /\ state.pc = "reset"
      BY <1>3, KindsOfReq DEF ResetRead
    <2> HIDE DEF state
    <2>2. Holds(state, issued')
      BY <1>0, <2>1 DEF RotationPcs
    <2>3. Rows' /\ TokenRows' /\ issued <= issued'
      BY <1>0, <1>3 DEF ResetRead, Rows, TokenRows
    <2> QED
      BY <2>1, <2>2, <2>3, Assemble
  <1>4. ASSUME NEW keep \in {NoToken} \cup Tokens, ChangeRead(r, keep) PROVE TypeInv'
    <2> DEFINE state == [pc |-> "change", keep |-> keep]
    <2>1. /\ Goto(r, state) /\ state \in ReqState /\ state.pc = "change"
          /\ state.keep = keep
      BY <1>4, KindsOfReq DEF ChangeRead
    <2> HIDE DEF state
    <2>2. keep <= issued /\ issued' = issued
      BY <1>4 DEF ChangeRead
    <2>3. Holds(state, issued')
      BY <2>1, <2>2 DEF Holds, RotationPcs
    <2>4. Rows' /\ TokenRows' /\ issued <= issued'
      BY <1>0, <1>4 DEF ChangeRead, Rows, TokenRows
    <2> QED
      BY <2>1, <2>3, <2>4, Assemble
  <1>5. CASE ResetCommit(r)
    <2>1. req[r].link \in Links
      BY <1>0, <1>5, ReqKinds DEF ResetCommit, Resetting
    <2>2. account' \in AccountRow
      <3>1. 0 \in 0..(MaxFailed - 1) /\ account.password + 1 \in 0..MaxPasswords
        BY <1>0, <1>5 DEF ResetCommit, Rows, AccountRow
      <3> DEFINE s == IF req[r].activate THEN "ACTIVE" ELSE account.status
      <3>2. s \in UserStatuses
        BY <1>0 DEF Rows, AccountRow, UserStatuses
      <3>3. account' = [account EXCEPT !.password = account.password + 1, !.fails = 0,
                                       !.locked = FALSE, !.status = s]
        BY <1>0, <1>5 DEF ResetCommit, Rows, AccountRow
      <3> HIDE DEF s
      <3> QED
        BY <1>0, <3>1, <3>2, <3>3 DEF Rows, AccountRow
    <2>3. link' \in [Links -> LinkStates]
      BY <1>0, <1>5, <2>1 DEF ResetCommit, Rows, LinkStates
    <2> DEFINE state == [pc |-> "revokeAll", keep |-> NoToken]
    <2>4. /\ Goto(r, state) /\ state \in ReqState /\ state.pc = "revokeAll"
          /\ state.keep = NoToken
      BY <1>5, KindsOfReq DEF ResetCommit
    <2> HIDE DEF state
    <2>5. issued' = issued /\ Holds(state, issued')
      BY <1>0, <1>5, <2>4 DEF ResetCommit, Holds, RotationPcs, NoToken
    <2>6. Rows' /\ TokenRows'
      BY <1>0, <1>5, <2>2, <2>3 DEF ResetCommit, Rows, TokenRows
    <2> QED
      BY <1>0, <2>4, <2>5, <2>6, Assemble
  <1>6. CASE ChangeCommit(r)
    <2>1. req[r].keep \in {NoToken} \cup Tokens /\ req[r].keep <= issued
      BY <1>0, <1>6, ReqKinds DEF ChangeCommit, Changing, Holds
    <2>2. account' \in AccountRow
      BY <1>0, <1>6 DEF ChangeCommit, Rows, AccountRow
    <2> DEFINE state == [pc |-> "revokeAll", keep |-> req[r].keep]
    <2>3. /\ Goto(r, state) /\ state \in ReqState /\ state.pc = "revokeAll"
          /\ state.keep = req[r].keep
      BY <1>6, <2>1, KindsOfReq DEF ChangeCommit
    <2> HIDE DEF state
    <2>4. issued' = issued /\ Holds(state, issued')
      BY <1>6, <2>1, <2>3 DEF ChangeCommit, Holds, RotationPcs
    <2>5. Rows' /\ TokenRows'
      BY <1>0, <1>6, <2>2 DEF ChangeCommit, Rows, TokenRows
    <2> QED
      BY <1>0, <2>3, <2>4, <2>5, Assemble
  <1>7. CASE RevokeAll(r)
    <2>1. TokenRows' /\ issued' = issued
      <3> DEFINE ks == 1..issued \ {req[r].keep}
      <3>1. ks \in SUBSET (1..issued) /\ token' = Revoke(ks) /\ issued' = issued
        BY <1>7 DEF RevokeAll
      <3> HIDE DEF ks
      <3> QED
        BY <3>1, RevokeTokenRows
    <2>2. BeingRotated \cup Sessions({req[r].keep} \cap Tokens) \subseteq Nat
      <3>1. {req[r].keep} \cap Tokens \in SUBSET Tokens
        OBVIOUS
      <3> QED
        BY <3>1, FamiliesAreNumbers
    <2>3. Rows' /\ Goto(r, Idle)
      BY <1>0, <1>7, <2>2 DEF RevokeAll, Rows
    <2> QED
      BY <1>0, <2>1, <2>3, Assemble
  <1> QED
    BY <1>1, <1>2, <1>3, <1>4, <1>5, <1>6, <1>7 DEF Password

LEMMA OtherTypeInv ==
    ASSUME TypeInv,
           \/ \E r \in Requests : Abandon(r)
           \/ \E k \in Tokens : SignOut(k)
           \/ LockLapses
           \/ \E status \in StaffStatuses : SetStatus(status)
    PROVE  TypeInv'
  <1> USE AccountsAssumption
  <1>1. ASSUME NEW r \in Requests, Abandon(r) PROVE TypeInv'
    <2>0. /\ req[r] \in ReqState /\ Holds(req[r], issued) /\ Rows /\ TokenRows
          /\ issued \in Nat /\ Idle \in ReqState /\ Holds(Idle, issued')
      BY Facts
    <2>1. BeingRotated \cup Sessions(LiveTokens) \subseteq Nat
      BY FamiliesAreNumbers
    <2>2. loose' \in SUBSET Nat
      BY <2>0, <2>1, <1>1 DEF Abandon, Rows
    <2>3. forked' \in SUBSET Nat
      <3>1. req[r].pc = "replace" => token[req[r].token].family \in Nat
        BY <2>0 DEF Holds, RotationPcs, TokenRows
      <3> QED
        BY <2>0, <1>1, <3>1 DEF Abandon, Rows
    <2>4. Rows' /\ TokenRows' /\ issued <= issued' /\ Goto(r, Idle)
      BY <2>0, <1>1, <2>2, <2>3 DEF Abandon, Rows, TokenRows
    <2> QED
      BY <2>0, <2>4, Assemble
  <1>2. ASSUME NEW k \in Tokens, SignOut(k) PROVE TypeInv'
    <2>1. k \in 1..issued
      BY <1>2 DEF SignOut, Live, Tokens
    <2>2. TokenRows'
      <3> DEFINE ks == {k}
      <3>1. ks \in SUBSET (1..issued) /\ token' = Revoke(ks) /\ issued' = issued
        BY <1>2, <2>1 DEF SignOut
      <3> HIDE DEF ks
      <3> QED
        BY <3>1, RevokeTokenRows
    <2> QED
      BY <1>2, <2>2 DEF SignOut, TokenRows, TypeInv, TypeOK, TokensIssued, Holds
  <1>3. CASE LockLapses
    BY <1>3 DEF LockLapses, TypeInv, TypeOK, TokensIssued, Holds, AccountRow
  <1>4. ASSUME NEW status \in StaffStatuses, SetStatus(status) PROVE TypeInv'
    BY <1>4 DEF SetStatus, TypeInv, TypeOK, TokensIssued, Holds, AccountRow
  <1> QED
    BY <1>1, <1>2, <1>3, <1>4

LEMMA TypeCorrectStep ==
    ASSUME TypeInv, [Next]_vars
    PROVE  TypeInv'
  <1>1. CASE UNCHANGED vars
    BY <1>1 DEF vars, TypeInv, TypeOK, TokensIssued, Holds
  <1> QED
    BY <1>1, LoginTypeInv, RotateTypeInv, PasswordTypeInv, OtherTypeInv DEF Next

\* Every step preserves the types, and the tokens stay in order.
THEOREM TypeCorrect == Spec => []TypeInv
  <1>1. TypeInv /\ [Next]_vars => TypeInv'
    BY TypeCorrectStep
  <1> QED
    BY <1>1, InitTypeInv, PTL DEF Spec

THEOREM TypesAreCorrect == Spec => []TypeOK
  BY TypeCorrect, PTL DEF TypeInv

-----------------------------------------------------------------------------
(* What a step does to the sessions *)

OldTokensKeep ==
    /\ issued <= issued'
    /\ \A k \in 1..issued : /\ token'[k].family = token[k].family
                            /\ token[k].revoked => token'[k].revoked

NewTokensJoin ==
    \A k \in 1..issued' : k > issued =>
        token'[k].family = k \/ token'[k].family \in BeingRotated

OnlyLiveRotates ==
    \A f \in BeingRotated' :
        \/ f \in BeingRotated
        \/ \E k \in 1..issued : ~token[k].revoked /\ token[k].family = f

SessionEffect == OldTokensKeep /\ NewTokensJoin /\ OnlyLiveRotates

\* The step of one request starts or goes on rotating one token at most.
LEMMA RotatedStep ==
    ASSUME TypeInv, OldTokensKeep, NEW r \in Requests, NEW state \in ReqState,
           Goto(r, state),
           state.pc \in {"load", "persist"} => state.token \in 1..issued
    PROVE  \A f \in BeingRotated' :
              \/ f \in BeingRotated
              \/ state.pc \in {"load", "persist"} /\ token[state.token].family = f
  <1> SUFFICES ASSUME NEW f \in BeingRotated', f \notin BeingRotated
               PROVE  state.pc \in {"load", "persist"} /\ token[state.token].family = f
    OBVIOUS
  <1>1. PICK q \in Requests : f \in InFlight(q)'
    BY DEF BeingRotated
  <1>2. req'[q].pc \in {"load", "persist"} /\ f = token'[req'[q].token].family
    BY <1>1 DEF InFlight
  <1>3. CASE q # r
    <2>1. req'[q] = req[q]
      BY <1>3, ReqStep
    <2>2. req[q].token \in 1..issued
      BY <1>2, <2>1 DEF TypeInv, TokensIssued, Holds, RotationPcs
    <2>3. f \in InFlight(q)
      BY <1>2, <2>1, <2>2 DEF InFlight, OldTokensKeep
    <2> QED
      BY <2>3 DEF BeingRotated
  <1>4. CASE q = r
    BY <1>2, <1>4, ReqStep DEF OldTokensKeep
  <1> QED
    BY <1>3, <1>4

\* A step that issues no token and revokes, if any, those of one statement.
LEMMA QuietTokens ==
    ASSUME TypeInv, issued' = issued,
           \/ token' = token
           \/ \E ks \in SUBSET (1..issued) : token' = Revoke(ks)
    PROVE  OldTokensKeep /\ NewTokensJoin
  <1>1. issued \in Nat /\ 1..issued \subseteq Tokens
    BY AccountsAssumption DEF TypeInv, TypeOK, Tokens
  <1>2. NewTokensJoin
    BY <1>1 DEF NewTokensJoin
  <1>3. CASE token' = token
    BY <1>1, <1>2, <1>3 DEF OldTokensKeep
  <1>4. ASSUME NEW ks \in SUBSET (1..issued), token' = Revoke(ks)
        PROVE  OldTokensKeep
    <2>1. \A k \in Tokens : /\ token'[k].family = token[k].family
                            /\ token'[k].revoked <=> (token[k].revoked \/ k \in ks)
      BY <1>4, RevokeStep
    <2>2. \A k \in 1..issued : token[k].revoked => token'[k].revoked
      BY <1>1, <2>1, Zenon
    <2> QED
      BY <1>1, <2>1, <2>2 DEF OldTokensKeep
  <1> QED
    BY <1>2, <1>3, <1>4

\* ... whose request then rotates nothing new.
LEMMA QuietEffect ==
    ASSUME TypeInv, issued' = issued,
           \/ token' = token
           \/ \E ks \in SUBSET (1..issued) : token' = Revoke(ks),
           \/ req' = req
           \/ \E r \in Requests, state \in ReqState :
                 Goto(r, state) /\ state.pc \notin {"load", "persist"}
    PROVE  SessionEffect
  <1>1. OldTokensKeep /\ NewTokensJoin
    BY QuietTokens
  <1>2. CASE req' = req
    <2>1. \A r \in Requests : req[r].pc \in {"load", "persist"} =>
              token'[req[r].token].family = token[req[r].token].family
      BY <1>1 DEF TypeInv, TokensIssued, Holds, RotationPcs, OldTokensKeep
    <2>2. BeingRotated' = BeingRotated
      BY <1>2, <2>1 DEF BeingRotated, InFlight
    <2> QED
      BY <1>1, <2>2 DEF SessionEffect, OnlyLiveRotates
  <1>3. ASSUME NEW r \in Requests, NEW state \in ReqState,
               Goto(r, state), state.pc \notin {"load", "persist"}
        PROVE  SessionEffect
    BY <1>1, <1>3, RotatedStep DEF SessionEffect, OnlyLiveRotates
  <1> QED
    BY <1>2, <1>3

LEMMA SessionStep ==
    ASSUME TypeInv, [Next]_vars
    PROVE  SessionEffect
  <1> USE AccountsAssumption
  <1>0. /\ issued \in Nat /\ 1..issued \subseteq Tokens
        /\ Idle \in ReqState /\ Idle.pc = "idle"
    BY KindsOfReq DEF TypeInv, TypeOK, Tokens, Idle
  <1>1. ASSUME NEW r \in Requests, Login(r) PROVE SessionEffect
    <2>1. CASE LoginRead(r)
      <3> DEFINE a == [pc |-> "miss", fails |-> account.fails]
                 b == [pc |-> "admit", password |-> account.password]
      <3>0. account.fails \in 0..(MaxFailed - 1) /\ account.password \in Nat
        BY DEF TypeInv, TypeOK, AccountRow
      <3>1. a \in ReqState /\ b \in ReqState /\ a.pc = "miss" /\ b.pc = "admit"
        BY <3>0, KindsOfReq
      <3>2. (Goto(r, a) \/ Goto(r, b)) /\ token' = token /\ issued' = issued
        BY <2>1 DEF LoginRead
      <3> HIDE DEF a, b
      <3>3. \E state \in ReqState : Goto(r, state) /\ state.pc \notin {"load", "persist"}
        BY <3>1, <3>2
      <3> QED
        BY <3>2, <3>3, QuietEffect
    <2>2. CASE LoginMiss(r)
      <3>1. Goto(r, Idle) /\ token' = token /\ issued' = issued
        BY <2>2 DEF LoginMiss
      <3> QED
        BY <1>0, <3>1, QuietEffect
    <2>3. CASE LoginAdmit(r)
      <3> DEFINE a == [pc |-> "open", password |-> req[r].password]
      <3>1. req[r].password \in Nat
        BY <2>3, ReqKinds DEF LoginAdmit, Opening, TypeInv, TypeOK
      <3>2. a \in ReqState /\ a.pc = "open"
        BY <3>1, KindsOfReq
      <3>3. Goto(r, a) /\ token' = token /\ issued' = issued
        BY <2>3 DEF LoginAdmit
      <3> HIDE DEF a
      <3> QED
        BY <3>2, <3>3, QuietEffect
    <2>4. CASE IssueSession(r)
      <3>1. issued + 1 \in 1..(issued + 1)
        BY <1>0
      <3>2. /\ token'[issued + 1].family = issued + 1
            /\ \A k \in Tokens : k # issued + 1 => token'[k] = token[k]
        BY <2>4, <3>1, CreateStep DEF IssueSession
      <3>3. issued' = issued + 1 /\ Goto(r, Idle)
        BY <2>4 DEF IssueSession
      <3>4. OldTokensKeep
        BY <1>0, <3>2, <3>3 DEF OldTokensKeep
      <3>5. NewTokensJoin
        BY <1>0, <3>2, <3>3 DEF NewTokensJoin
      <3> QED
        BY <1>0, <3>3, <3>4, <3>5, RotatedStep DEF SessionEffect, OnlyLiveRotates
    <2> QED
      BY <1>1, <2>1, <2>2, <2>3, <2>4 DEF Login
  <1>2. ASSUME NEW r \in Requests, Rotate(r) PROVE SessionEffect
    <2>1. ASSUME NEW k \in Tokens, RotateRead(r, k) PROVE SessionEffect
      <3>1. k \in 1..issued /\ token[k].family \in Tokens
        BY <1>0, <2>1 DEF RotateRead, TypeInv, TokensIssued, Tokens
      <3> DEFINE a == [pc |-> "revokeFamily", family |-> token[k].family]
                 b == [pc |-> "load", token |-> k]
      <3>2. /\ a \in ReqState /\ a.pc = "revokeFamily"
            /\ b \in ReqState /\ b.pc = "load" /\ b.token = k
        BY <1>0, <3>1, KindsOfReq
      <3>3. /\ token' = token /\ issued' = issued
            /\ (Goto(r, a) \/ (~Retired(k) /\ Goto(r, b)))
        BY <2>1 DEF RotateRead
      <3> HIDE DEF a, b
      <3>4. CASE Goto(r, a)
        BY <3>2, <3>3, <3>4, QuietEffect
      <3>5. CASE ~Retired(k) /\ Goto(r, b)
        <4>0. ~token[k].revoked
          BY <3>5 DEF Retired
        <4>1. OldTokensKeep /\ NewTokensJoin
          BY <3>3, QuietTokens
        <4>2. \A f \in BeingRotated' : f \in BeingRotated \/ token[k].family = f
          BY <3>1, <3>2, <3>5, <4>1, RotatedStep
        <4> QED
          BY <3>1, <4>0, <4>1, <4>2 DEF SessionEffect, OnlyLiveRotates
      <3> QED
        BY <3>3, <3>4, <3>5
    <2>2. CASE RotateLoad(r)
      <3>1. /\ req[r].pc = "load" /\ req[r].token \in 1..issued
            /\ token[req[r].token].family \in Tokens
        BY <1>0, <2>2 DEF RotateLoad, TypeInv, TokensIssued, Holds, RotationPcs
      <3> DEFINE a == [pc |-> "revokeFamily", family |-> token[req[r].token].family]
                 b == [pc |-> "persist", token |-> req[r].token]
      <3>2. /\ a \in ReqState /\ a.pc = "revokeFamily"
            /\ b \in ReqState /\ b.pc = "persist" /\ b.token = req[r].token
        BY <1>0, <3>1, KindsOfReq
      <3>3. token' = token /\ issued' = issued /\ (Goto(r, a) \/ Goto(r, b))
        BY <2>2 DEF RotateLoad
      <3> HIDE DEF a, b
      <3>4. CASE Goto(r, a)
        BY <3>2, <3>3, <3>4, QuietEffect
      <3>5. CASE Goto(r, b)
        <4>1. OldTokensKeep /\ NewTokensJoin
          BY <3>3, QuietTokens
        <4>2. \A f \in BeingRotated' :
                 f \in BeingRotated \/ token[req[r].token].family = f
          <5> DEFINE k == req[r].token
          <5>1. k \in 1..issued /\ b.token = k
            BY <3>1, <3>2
          <5> HIDE DEF k
          <5>2. \A f \in BeingRotated' : f \in BeingRotated \/ token[k].family = f
            BY <3>2, <3>5, <4>1, <5>1, RotatedStep
          <5> QED
            BY <5>2 DEF k
        <4>3. token[req[r].token].family \in BeingRotated
          <5>1. token[req[r].token].family \in InFlight(r)
            BY <3>1 DEF InFlight
          <5> QED
            BY <5>1 DEF BeingRotated
        <4> QED
          BY <4>1, <4>2, <4>3 DEF SessionEffect, OnlyLiveRotates
      <3> QED
        BY <3>3, <3>4, <3>5
    <2>3. CASE RotatePersist(r)
      <3>1. /\ req[r].pc = "persist" /\ req[r].token \in 1..issued
            /\ token[req[r].token].family \in 1..issued
        BY <2>3 DEF RotatePersist, TypeInv, TokensIssued, Holds, RotationPcs
      <3>2. /\ token'[issued + 1].family \in BeingRotated
            /\ \A k \in Tokens : k # issued + 1 => token'[k] = token[k]
            /\ issued + 1 \in Tokens
        <4> DEFINE f == token[req[r].token].family
        <4>0. f \in InFlight(r)
          BY <3>1 DEF InFlight
        <4>1. f \in 1..(issued + 1) /\ f \in BeingRotated
          BY <1>0, <3>1, <4>0 DEF BeingRotated
        <4>2. token' = [token EXCEPT ![issued + 1].family = f]
          BY <2>3 DEF RotatePersist
        <4> HIDE DEF f
        <4> QED
          BY <2>3, <4>1, <4>2, CreateStep DEF RotatePersist
      <3> DEFINE a == [pc |-> "replace", token |-> req[r].token, new |-> issued + 1]
      <3>3. issued' = issued + 1 /\ Goto(r, a)
        BY <2>3 DEF RotatePersist
      <3>4. a \in ReqState /\ a.pc = "replace"
        BY <1>0, <3>1, <3>2, KindsOfReq
      <3> HIDE DEF a
      <3>5. OldTokensKeep
        BY <1>0, <3>2, <3>3 DEF OldTokensKeep
      <3>6. NewTokensJoin
        BY <1>0, <3>2, <3>3 DEF NewTokensJoin
      <3> QED
        BY <3>3, <3>4, <3>5, <3>6, RotatedStep DEF SessionEffect, OnlyLiveRotates
    <2>4. CASE RotateReplace(r)
      <3>1. req[r].token \in 1..issued
        BY <2>4 DEF RotateReplace, TypeInv, TokensIssued, Holds, RotationPcs
      <3>2. issued' = issued /\ Goto(r, Idle)
        BY <2>4 DEF RotateReplace
      <3>3. \A k \in Tokens : /\ token'[k].family = token[k].family
                              /\ token[k].revoked => token'[k].revoked
        BY <1>0, <2>4, <3>1 DEF RotateReplace, TypeInv, TypeOK, TokenRow
      <3>4. OldTokensKeep /\ NewTokensJoin
        BY <1>0, <3>2, <3>3 DEF OldTokensKeep, NewTokensJoin
      <3> QED
        BY <1>0, <3>2, <3>4, RotatedStep DEF SessionEffect, OnlyLiveRotates
    <2>5. CASE RevokeFamily(r)
      <3>1. /\ OfSession(req[r].family) \in SUBSET (1..issued)
            /\ token' = Revoke(OfSession(req[r].family))
            /\ issued' = issued /\ Goto(r, Idle)
        BY <2>5 DEF RevokeFamily, OfSession
      <3> QED
        BY <1>0, <3>1, QuietEffect
    <2> QED
      BY <1>2, <2>1, <2>2, <2>3, <2>4, <2>5 DEF Rotate
  <1>3. ASSUME NEW r \in Requests, Password(r) PROVE SessionEffect
    <2>1. issued' = issued
      BY <1>3 DEF Password, ForgotExpire, ForgotCreate, ResetRead, ChangeRead,
         ResetCommit, ChangeCommit, RevokeAll
    <2>2. token' = token \/ \E ks \in SUBSET (1..issued) : token' = Revoke(ks)
      BY <1>3 DEF Password, ForgotExpire, ForgotCreate, ResetRead, ChangeRead,
         ResetCommit, ChangeCommit, RevokeAll
    <2>3. \E state \in ReqState :
             Goto(r, state) /\ state.pc \notin {"load", "persist"}
      <3>1. CASE ForgotExpire(r)
        BY <3>1, KindsOfReq DEF ForgotExpire
      <3>2. CASE ForgotCreate(r) \/ RevokeAll(r)
        BY <1>0, <3>2 DEF ForgotCreate, RevokeAll
      <3>3. CASE \E l \in Links : ResetRead(r, l)
        <4>1. PICK l \in Links : ResetRead(r, l)
          BY <3>3
        <4> DEFINE b == account.status = "PENDING_VERIFICATION"
                   state == [pc |-> "reset", link |-> l, activate |-> b]
        <4>2. Goto(r, state) /\ state \in ReqState /\ state.pc = "reset"
          BY <4>1, KindsOfReq DEF ResetRead
        <4> HIDE DEF state
        <4> QED
          BY <4>2
      <3>4. CASE \E k \in {NoToken} \cup Tokens : ChangeRead(r, k)
        BY <3>4, KindsOfReq DEF ChangeRead
      <3>5. CASE ResetCommit(r)
        <4> DEFINE state == [pc |-> "revokeAll", keep |-> NoToken]
        <4>1. Goto(r, state) /\ state \in ReqState /\ state.pc = "revokeAll"
          BY <3>5, KindsOfReq DEF ResetCommit
        <4> HIDE DEF state
        <4> QED
          BY <4>1
      <3>6. CASE ChangeCommit(r)
        <4>1. req[r].keep \in {NoToken} \cup Tokens
          BY <3>6, ReqKinds DEF ChangeCommit, Changing, TypeInv, TypeOK
        <4> QED
          BY <3>6, <4>1, KindsOfReq DEF ChangeCommit
      <3> QED
        BY <1>3, <3>1, <3>2, <3>3, <3>4, <3>5, <3>6 DEF Password
    <2> QED
      BY <2>1, <2>2, <2>3, QuietEffect
  <1>4. ASSUME NEW r \in Requests, Abandon(r) PROVE SessionEffect
    <2>1. Goto(r, Idle) /\ token' = token /\ issued' = issued
      BY <1>4 DEF Abandon
    <2> QED
      BY <1>0, <2>1, QuietEffect
  <1>5. ASSUME NEW k \in Tokens, SignOut(k) PROVE SessionEffect
    <2>1. {k} \in SUBSET (1..issued)
      BY <1>0, <1>5 DEF SignOut, Live, Tokens
    <2> QED
      BY <1>5, <2>1, QuietEffect DEF SignOut
  <1>6. CASE LockLapses \/ (\E status \in StaffStatuses : SetStatus(status))
             \/ UNCHANGED vars
    BY <1>6, QuietEffect DEF LockLapses, SetStatus, vars
  <1> QED
    BY <1>1, <1>2, <1>3, <1>4, <1>5, <1>6 DEF Next

\* A session that has ended stays ended, for any interleaving.
THEOREM SessionsEndForGood == Spec => EndedStaysEnded
  <1>1. TypeInv /\ [Next]_vars => \A f \in Tokens : Ended(f) => Ended(f)'
    <2> SUFFICES ASSUME TypeInv, [Next]_vars, NEW f \in Tokens, Ended(f)
                 PROVE  Ended(f)'
      OBVIOUS
    <2>1. SessionEffect
      BY SessionStep
    <2>2. issued \in Nat /\ issued' \in Nat /\ f \in 1..issued
      BY AccountsAssumption, TypeCorrectStep DEF TypeInv, TypeOK, Ended, Tokens
    <2>3. f <= issued' /\ token'[f].family = f
      BY <2>1, <2>2 DEF SessionEffect, OldTokensKeep, Ended
    <2>4. \A k \in 1..issued : token[k].family = f => token[k].revoked
      BY DEF Ended, OfSession, LiveTokens
    <2>5. f \notin BeingRotated'
      BY <2>1, <2>4 DEF SessionEffect, OnlyLiveRotates, Ended
    <2>6. \A k \in 1..issued' : token'[k].family = f => token'[k].revoked
      <3> SUFFICES ASSUME NEW k \in 1..issued', token'[k].family = f
                   PROVE  token'[k].revoked
        OBVIOUS
      <3>1. CASE k <= issued
        BY <2>1, <2>2, <2>4, <3>1 DEF SessionEffect, OldTokensKeep
      <3>2. CASE k > issued
        BY <2>1, <2>2, <3>2 DEF SessionEffect, NewTokensJoin, Ended
      <3> QED
        BY <2>2, <3>1, <3>2
    <2> QED
      BY <2>3, <2>5, <2>6 DEF Ended, OfSession, LiveTokens
  <1> QED
    BY <1>1, TypeCorrect, PTL DEF Spec, EndedStaysEnded

-----------------------------------------------------------------------------
(* Sessions and password changes *)

Pending == \E r \in Requests : req[r].pc = "revokeAll"
Fresh == {f \in Tokens : born[f] = account.password \/ f \in loose \/ Pending}

\* Not only the live tokens: also the sessions about to be given another.
PasswordInv ==
    /\ \A k \in 1..issued : ~token[k].revoked => token[k].family \in Fresh
    /\ \A f \in BeingRotated : f \in Fresh

LEMMA RotatedSessionsIssued ==
    ASSUME TypeInv
    PROVE  BeingRotated \subseteq 1..issued
  <1> SUFFICES ASSUME NEW r \in Requests, req[r].pc \in {"load", "persist"}
               PROVE  token[req[r].token].family \in 1..issued
    BY DEF BeingRotated, InFlight
  <1> QED
    BY DEF TypeInv, TokensIssued, Holds, RotationPcs

\* Steps after which the sessions there were are still excused, if they were.
LEMMA QuietPasswords ==
    ASSUME TypeInv, SessionEffect, PasswordInv, issued' \in Nat,
           \A f \in 1..issued : f \in Fresh => f \in Fresh',
           \A k \in 1..issued' : k > issued /\ token'[k].family = k => k \in Fresh'
    PROVE  PasswordInv'
  <1>1. issued \in Nat
    BY DEF TypeInv, TypeOK
  <1>2. \A f \in BeingRotated : f \in Fresh'
    BY RotatedSessionsIssued DEF PasswordInv
  <1>3. \A k \in 1..issued : ~token[k].revoked => token[k].family \in Fresh'
    BY DEF PasswordInv, TypeInv, TokensIssued
  <1>4. \A f \in BeingRotated' : f \in Fresh'
    BY <1>2, <1>3 DEF SessionEffect, OnlyLiveRotates
  <1>5. \A k \in 1..issued' : ~token'[k].revoked => token'[k].family \in Fresh'
    <2> SUFFICES ASSUME NEW k \in 1..issued', ~token'[k].revoked
                 PROVE  token'[k].family \in Fresh'
      OBVIOUS
    <2>1. CASE k <= issued
      BY <1>1, <1>3, <2>1 DEF SessionEffect, OldTokensKeep
    <2>2. CASE k > issued
      BY <1>2, <2>2 DEF SessionEffect, NewTokensJoin
    <2> QED
      BY <1>1, <2>1, <2>2
  <1> QED
    BY <1>4, <1>5 DEF PasswordInv

\* A request that was not about to revoke leaves a pending revocation pending.
LEMMA StillPending ==
    ASSUME TypeInv, NEW r \in Requests, NEW state \in ReqState, Goto(r, state),
           req[r].pc # "revokeAll", Pending
    PROVE  Pending'
  BY ReqStep DEF Pending

LEMMA PasswordStep ==
    ASSUME TypeInv, PasswordInv, [Next]_vars
    PROVE  PasswordInv'
  <1> USE AccountsAssumption
  <1>0. /\ SessionEffect /\ TypeInv' /\ issued \in Nat /\ issued' \in Nat
        /\ Idle \in ReqState /\ Idle.pc = "idle"
        /\ 1..issued \subseteq Tokens /\ 1..issued' \subseteq Tokens
        /\ BeingRotated \subseteq Tokens
        /\ \A k \in 1..issued' : token'[k].family \in Tokens
    <2>1. SessionEffect /\ TypeInv' /\ BeingRotated \subseteq 1..issued
      BY SessionStep, TypeCorrectStep, RotatedSessionsIssued
    <2>2. /\ issued \in Nat /\ issued' \in Nat
          /\ 1..issued \subseteq Tokens /\ 1..issued' \subseteq Tokens
          /\ \A k \in 1..issued' : token'[k].family \in 1..issued'
      BY <2>1 DEF TypeInv, TypeOK, TokensIssued, Tokens
    <2> QED
      BY <2>1, <2>2, KindsOfReq DEF Idle
  <1>1. ASSUME NEW r \in Requests, RevokeAll(r) PROVE PasswordInv'
    <2>1. /\ token' = Revoke(1..issued \ {req[r].keep}) /\ issued' = issued
          /\ loose' = loose \cup BeingRotated \cup Sessions({req[r].keep} \cap Tokens)
          /\ Goto(r, Idle)
      BY <1>1 DEF RevokeAll
    <2>2. \A f \in BeingRotated' : f \in BeingRotated
      BY <1>0, <2>1, RotatedStep DEF SessionEffect
    <2>3. \A k \in 1..issued : ~token'[k].revoked => k = req[r].keep /\ k \in Tokens
      <3> DEFINE ks == 1..issued \ {req[r].keep}
      <3>1. token' = Revoke(ks) /\ 1..issued \subseteq Tokens
        BY <2>1 DEF TypeInv, TypeOK, Tokens
      <3>2. \A k \in 1..issued : k # req[r].keep => k \in ks
        OBVIOUS
      <3> HIDE DEF ks
      <3>3. \A k \in Tokens : token'[k].revoked <=> (token[k].revoked \/ k \in ks)
        BY <3>1, RevokeStep
      <3> QED
        BY <3>1, <3>2, <3>3, Zenon
    <2>4. \A k \in 1..issued : ~token'[k].revoked => token'[k].family \in loose'
      BY <1>0, <2>1, <2>3 DEF Sessions, SessionEffect, OldTokensKeep
    <2> QED
      BY <1>0, <2>1, <2>2, <2>4 DEF PasswordInv, Fresh
  <1>2. ASSUME NEW r \in Requests, Abandon(r), req[r].pc = "revokeAll"
        PROVE  PasswordInv'
    <2>1. /\ token' = token /\ issued' = issued /\ Goto(r, Idle)
          /\ loose' = loose \cup Sessions(LiveTokens) \cup BeingRotated
      BY <1>2 DEF Abandon
    <2>2. \A f \in BeingRotated' : f \in BeingRotated
      BY <1>0, <2>1, RotatedStep DEF SessionEffect
    <2>3. \A k \in 1..issued : ~token[k].revoked => token[k].family \in loose'
      BY <2>1 DEF Sessions, LiveTokens
    <2> QED
      BY <1>0, <2>1, <2>2, <2>3 DEF PasswordInv, Fresh
  <1>3. ASSUME NEW r \in Requests, ResetCommit(r) \/ ChangeCommit(r)
        PROVE  PasswordInv'
    <2>1. issued' = issued
      BY <1>3 DEF ResetCommit, ChangeCommit
    <2>2. req'[r].pc = "revokeAll"
      BY <1>3 DEF ResetCommit, ChangeCommit, Goto, TypeInv, TypeOK
    <2>3. \A f \in Tokens : f \in Fresh'
      BY <2>2 DEF Fresh, Pending
    <2>4. \A k \in 1..issued' : k \in Tokens
      BY <1>0
    <2> QED
      BY <1>0, <2>3, <2>4, QuietPasswords
  <1>4. ASSUME NEW r \in Requests, IssueSession(r) PROVE PasswordInv'
    <2>1. /\ issued' = issued + 1 /\ account' = account /\ issued + 1 \in Tokens
          /\ born' = [born EXCEPT ![issued + 1] = req[r].password]
          /\ loose' = IF req[r].password = account.password
                      THEN loose ELSE loose \cup {issued + 1}
          /\ Goto(r, Idle) /\ req[r].pc = "open"
      BY <1>0, <1>4 DEF IssueSession, Tokens
    <2>2. born' \in [Tokens -> Nat] /\ born'[issued + 1] = req[r].password
          /\ \A f \in 1..issued : born'[f] = born[f]
      BY <1>0, <2>1 DEF TypeInv, TypeOK, Tokens
    <2>3. issued + 1 \in Fresh'
      BY <2>1, <2>2 DEF Fresh
    <2>4. Pending => Pending'
      BY <1>0, <2>1, StillPending
    <2>5. \A f \in 1..issued : f \in Fresh => f \in Fresh'
      BY <2>1, <2>2, <2>4 DEF Fresh
    <2>6. \A k \in 1..issued' : k > issued => k = issued + 1
      BY <1>0, <2>1
    <2> QED
      BY <1>0, <2>3, <2>5, <2>6, QuietPasswords
  <1>5. ASSUME born' = born, account'.password = account.password,
               loose \subseteq loose', Pending => Pending',
               issued' = issued \/ \E r \in Requests : RotatePersist(r)
        PROVE  PasswordInv'
    <2>1. \A f \in Tokens : f \in Fresh => f \in Fresh'
      BY <1>5 DEF Fresh
    <2>2. ASSUME NEW k \in 1..issued', k > issued, token'[k].family = k
          PROVE  FALSE
      <3>1. PICK r \in Requests : RotatePersist(r)
        BY <1>0, <1>5, <2>2
      <3>2. /\ req[r].token \in 1..issued /\ issued < MaxTokens /\ k = issued + 1
            /\ token[req[r].token].family \in 1..issued
        BY <1>0, <2>2, <3>1 DEF RotatePersist, TypeInv, TokensIssued, Holds, RotationPcs
      <3>3. token'[k].family = token[req[r].token].family
        BY <1>0, <3>1, <3>2 DEF RotatePersist, TypeInv, TypeOK, TokenRow, Tokens
      <3> QED
        BY <1>0, <2>2, <3>2, <3>3
    <2>3. \A f \in 1..issued : f \in Fresh => f \in Fresh'
      BY <1>0, <2>1
    <2>4. \A k \in 1..issued' : k > issued /\ token'[k].family = k => k \in Fresh'
      BY <2>2
    <2> QED
      BY <1>0, <2>3, <2>4, QuietPasswords
  <1>6. ASSUME NEW r \in Requests,
               LoginRead(r) \/ LoginMiss(r) \/ LoginAdmit(r)
        PROVE  PasswordInv'
    <2>1. /\ born' = born /\ loose' = loose /\ issued' = issued
          /\ account'.password = account.password
      BY <1>6 DEF LoginRead, LoginMiss, LoginAdmit, TypeInv, TypeOK, AccountRow
    <2>2. Pending => Pending'
      BY <1>6 DEF LoginRead, LoginMiss, LoginAdmit, Goto, Pending, Idle, TypeInv,
         TypeOK
    <2> QED
      BY <1>5, <2>1, <2>2
  <1>7. ASSUME NEW r \in Requests, Rotate(r) PROVE PasswordInv'
    <2>1. /\ born' = born /\ loose' = loose /\ account' = account
          /\ issued' = issued \/ \E q \in Requests : RotatePersist(q)
      BY <1>7 DEF Rotate, RotateRead, RotateLoad, RotatePersist, RotateReplace,
         RevokeFamily
    <2>2. Pending => Pending'
      BY <1>7 DEF Rotate, RotateRead, RotateLoad, RotatePersist, RotateReplace,
         RevokeFamily, Goto, Pending, Idle, TypeInv, TypeOK
    <2> QED
      BY <1>5, <2>1, <2>2
  <1>8. ASSUME NEW r \in Requests,
               \/ ForgotExpire(r) \/ ForgotCreate(r)
               \/ \E l \in Links : ResetRead(r, l)
               \/ \E k \in {NoToken} \cup Tokens : ChangeRead(r, k)
        PROVE  PasswordInv'
    <2>1. /\ born' = born /\ loose' = loose /\ account' = account /\ issued' = issued
      BY <1>8 DEF ForgotExpire, ForgotCreate, ResetRead, ChangeRead
    <2>2. Pending => Pending'
      BY <1>8 DEF ForgotExpire, ForgotCreate, ResetRead, ChangeRead, Goto, Pending,
         Idle, TypeInv, TypeOK
    <2> QED
      BY <1>5, <2>1, <2>2
  <1>9. ASSUME NEW r \in Requests, Abandon(r), req[r].pc # "revokeAll"
        PROVE  PasswordInv'
    <2>1. /\ born' = born /\ loose' = loose /\ account' = account /\ issued' = issued
          /\ Goto(r, Idle)
      BY <1>9 DEF Abandon
    <2>2. Pending => Pending'
      BY <1>0, <1>9, <2>1, StillPending
    <2> QED
      BY <1>5, <2>1, <2>2
  <1>10. CASE \/ \E k \in Tokens : SignOut(k)
              \/ LockLapses
              \/ \E status \in StaffStatuses : SetStatus(status)
              \/ UNCHANGED vars
    <2>1. /\ born' = born /\ loose' = loose /\ issued' = issued /\ req' = req
          /\ account'.password = account.password
      BY <1>10 DEF SignOut, LockLapses, SetStatus, vars, TypeInv, TypeOK, AccountRow
    <2>2. Pending => Pending'
      BY <2>1 DEF Pending
    <2> QED
      BY <1>5, <2>1, <2>2
  <1> QED
    BY <1>1, <1>2, <1>3, <1>4, <1>6, <1>7, <1>8, <1>9, <1>10
       DEF Next, Login, Password

\* A password change ends the sessions opened before it, but for those it keeps,
\* those that overlap it and those it died before reaching.
THEOREM PasswordChangeEndsSessions == Spec => []OldPasswordSessionsEnd
  <1>1. Init => PasswordInv
    BY DEF Init, PasswordInv, BeingRotated, InFlight, Idle
  <1>2. TypeInv /\ PasswordInv /\ [Next]_vars => PasswordInv'
    BY PasswordStep
  <1>3. TypeInv /\ PasswordInv => OldPasswordSessionsEnd
    BY DEF TypeInv, TypeOK, PasswordInv, OldPasswordSessionsEnd, Fresh, Pending,
       Live, Tokens
  <1> QED
    BY <1>1, <1>2, <1>3, TypeCorrect, PTL DEF Spec

-----------------------------------------------------------------------------
(* One head to a session's chain of tokens *)

Rotates(q, f) == req[q].pc \in RotationPcs /\ token[req[q].token].family = f
LiveOf(f) == OfSession(f) \cap LiveTokens

\* Of a session that never forked, one request at most rotates it, and the live
\* token is one: the one being rotated or, once that has a successor, those two.
HeadInv ==
    \A f \in Tokens : f \notin forked =>
        /\ \A p, q \in Requests : Rotates(p, f) /\ Rotates(q, f) => p = q
        /\ \A q \in Requests : Rotates(q, f) /\ req[q].pc # "replace"
               => LiveOf(f) \subseteq {req[q].token}
        /\ \A q \in Requests : Rotates(q, f) /\ req[q].pc = "replace"
               => LiveOf(f) \subseteq {req[q].token, req[q].new}
        /\ (\A q \in Requests : ~Rotates(q, f)) => \A j, k \in LiveOf(f) : j = k

\* A session's live tokens only go, while no token is issued.
LEMMA LiveShrinks ==
    ASSUME TypeInv, OldTokensKeep, issued' = issued, NEW f
    PROVE  /\ LiveOf(f)' \subseteq LiveOf(f)
           /\ \A q \in Requests :
                 req'[q].pc \in RotationPcs /\ req'[q].token \in 1..issued
                    => (Rotates(q, f)' <=> token[req'[q].token].family = f)
  BY DEF OldTokensKeep, LiveOf, OfSession, LiveTokens, Rotates

\* A request goes on with its token, or ends: in time, or leaving its session forked.
GoesOn(q) ==
    \/ req'[q] = req[q]
    \/ /\ req[q].pc = "load" /\ req'[q].pc = "persist"
       /\ req'[q].token = req[q].token
    \/ /\ req'[q].pc \notin RotationPcs
       /\ req[q].pc = "replace" => token[req[q].token].family \in forked'

LEMMA HeadFrame ==
    ASSUME TypeInv, HeadInv, OldTokensKeep, issued' = issued, forked \subseteq forked',
           \A q \in Requests : GoesOn(q)
    PROVE  HeadInv'
  <1>0. \A q \in Requests : req[q].pc \in RotationPcs => req[q].token \in 1..issued
    BY DEF TypeInv, TokensIssued, Holds
  <1> SUFFICES ASSUME NEW f \in Tokens, f \notin forked'
               PROVE  /\ \A p, q \in Requests : Rotates(p, f)' /\ Rotates(q, f)' => p = q
                      /\ \A q \in Requests : Rotates(q, f)' /\ req'[q].pc # "replace"
                             => LiveOf(f)' \subseteq {req'[q].token}
                      /\ \A q \in Requests : Rotates(q, f)' /\ req'[q].pc = "replace"
                             => LiveOf(f)' \subseteq {req'[q].token, req'[q].new}
                      /\ (\A q \in Requests : ~Rotates(q, f)')
                            => \A j, k \in LiveOf(f)' : j = k
    BY DEF HeadInv
  <1>1. f \notin forked /\ LiveOf(f)' \subseteq LiveOf(f)
    BY LiveShrinks
  <1>2. ASSUME NEW q \in Requests, Rotates(q, f)'
        PROVE  /\ Rotates(q, f) /\ req'[q].token = req[q].token
               /\ req'[q].pc = "replace" <=> req[q].pc = "replace"
               /\ req'[q].pc = "replace" => req'[q].new = req[q].new
    <2>1. req'[q].pc \in RotationPcs /\ req'[q].token = req[q].token
          /\ req[q].pc \in RotationPcs
          /\ (req'[q].pc = "replace" <=> req[q].pc = "replace")
          /\ (req'[q].pc = "replace" => req'[q].new = req[q].new)
      BY <1>2 DEF GoesOn, Rotates, RotationPcs
    <2>2. token[req[q].token].family = f
      BY <1>0, <1>2, <2>1, LiveShrinks
    <2> QED
      BY <2>1, <2>2 DEF Rotates
  <1>3. \A p, q \in Requests : Rotates(p, f)' /\ Rotates(q, f)' => p = q
    BY <1>1, <1>2 DEF HeadInv
  <1>4. \A q \in Requests : Rotates(q, f)' /\ req'[q].pc # "replace"
            => LiveOf(f)' \subseteq {req'[q].token}
    BY <1>1, <1>2 DEF HeadInv
  <1>5. \A q \in Requests : Rotates(q, f)' /\ req'[q].pc = "replace"
            => LiveOf(f)' \subseteq {req'[q].token, req'[q].new}
    BY <1>1, <1>2 DEF HeadInv
  <1>6. ASSUME \A q \in Requests : ~Rotates(q, f)'
        PROVE  \A j, k \in LiveOf(f) : j = k
    <2>1. ASSUME NEW q \in Requests, Rotates(q, f)
          PROVE  req[q].pc # "replace"
      <3>1. req'[q].pc \notin RotationPcs
        <4> SUFFICES ASSUME req'[q].pc \in RotationPcs PROVE FALSE
          OBVIOUS
        <4>1. req'[q].token = req[q].token /\ req[q].token \in 1..issued
          BY <1>0, <2>1 DEF GoesOn, Rotates
        <4> QED
          BY <1>6, <2>1, <4>1, LiveShrinks DEF Rotates
      <3> QED
        BY <2>1, <3>1 DEF GoesOn, Rotates
    <2>2. CASE \E q \in Requests : Rotates(q, f)
      <3>1. PICK q \in Requests : Rotates(q, f)
        BY <2>2
      <3>2. LiveOf(f) \subseteq {req[q].token}
        BY <1>1, <2>1, <3>1 DEF HeadInv
      <3> QED
        BY <3>2
    <2>3. CASE \A q \in Requests : ~Rotates(q, f)
      BY <1>1, <2>3 DEF HeadInv
    <2> QED
      BY <2>2, <2>3
  <1> QED
    BY <1>1, <1>3, <1>4, <1>5, <1>6

\* A request that was not replacing a token moves on to other work, or ends.
LEMMA HeadQuiet ==
    ASSUME TypeInv, HeadInv, OldTokensKeep, issued' = issued, forked' = forked,
           NEW r \in Requests, NEW state \in ReqState, Goto(r, state),
           state.pc \notin RotationPcs, req[r].pc # "replace"
    PROVE  HeadInv'
  <1>1. \A q \in Requests : GoesOn(q)
    BY ReqStep DEF GoesOn
  <1> QED
    BY <1>1, HeadFrame

\* What HeadInv says of one session.
OneChain(f) ==
    /\ \A p, q \in Requests : Rotates(p, f) /\ Rotates(q, f) => p = q
    /\ \A q \in Requests : Rotates(q, f) /\ req[q].pc # "replace"
           => LiveOf(f) \subseteq {req[q].token}
    /\ \A q \in Requests : Rotates(q, f) /\ req[q].pc = "replace"
           => LiveOf(f) \subseteq {req[q].token, req[q].new}
    /\ (\A q \in Requests : ~Rotates(q, f)) => \A j, k \in LiveOf(f) : j = k

\* A session whose live tokens a step leaves or revokes, and whose rotations it
\* leaves.
LEMMA OtherChains ==
    ASSUME NEW f, OneChain(f), LiveOf(f)' \subseteq LiveOf(f),
           \A q \in Requests : Rotates(q, f)' <=> Rotates(q, f),
           \A q \in Requests : Rotates(q, f) => req'[q] = req[q]
    PROVE  OneChain(f)'
  <1>1. \A p, q \in Requests : Rotates(p, f)' /\ Rotates(q, f)' => p = q
    BY DEF OneChain
  <1>2. \A q \in Requests : Rotates(q, f)' /\ req'[q].pc # "replace"
            => LiveOf(f)' \subseteq {req'[q].token}
    BY DEF OneChain
  <1>3. \A q \in Requests : Rotates(q, f)' /\ req'[q].pc = "replace"
            => LiveOf(f)' \subseteq {req'[q].token, req'[q].new}
    BY DEF OneChain
  <1>4. (\A q \in Requests : ~Rotates(q, f)') => \A j, k \in LiveOf(f)' : j = k
    BY DEF OneChain
  <1> QED
    BY <1>1, <1>2, <1>3, <1>4 DEF OneChain

LEMMA HeadIsChains ==
    /\ HeadInv <=> \A f \in Tokens : f \notin forked => OneChain(f)
    /\ HeadInv' <=> \A f \in Tokens : f \notin forked' => OneChain(f)'
  BY DEF HeadInv, OneChain

LEMMA HeadRead ==
    ASSUME TypeInv, HeadInv, OldTokensKeep,
           NEW r \in Requests, NEW k \in Tokens, RotateRead(r, k)
    PROVE  HeadInv'
  <1>0. /\ issued \in Nat /\ 1..issued \subseteq Tokens
        /\ k \in 1..issued /\ token[k].family \in 1..issued
        /\ token' = token /\ issued' = issued
        /\ \A q \in Requests : req[q].pc \in RotationPcs => req[q].token \in 1..issued
    BY AccountsAssumption DEF RotateRead, TypeInv, TypeOK, TokensIssued, Holds, Tokens
  <1> DEFINE a == [pc |-> "revokeFamily", family |-> token[k].family]
             b == [pc |-> "load", token |-> k]
  <1>1. /\ a \in ReqState /\ a.pc = "revokeFamily"
        /\ b \in ReqState /\ b.pc = "load" /\ b.token = k
    BY <1>0, KindsOfReq
  <1>2. /\ \/ Goto(r, a) /\ forked' = forked
           \/ /\ ~Retired(k) /\ Goto(r, b)
              /\ forked' = IF \E q \in Requests : Rotates(q, token[k].family)
                           THEN forked \cup {token[k].family} ELSE forked
        /\ req[r].pc = "idle"
    BY DEF RotateRead, Rotates, RotationPcs, Idle
  <1> HIDE DEF a, b
  <1>3. CASE Goto(r, a) /\ forked' = forked
    <2>1. a.pc \notin RotationPcs /\ req[r].pc # "replace"
      BY <1>1, <1>2 DEF RotationPcs
    <2> QED
      BY <1>0, <1>1, <1>3, <2>1, HeadQuiet
  <1>4. CASE /\ ~Retired(k) /\ Goto(r, b)
             /\ forked' = IF \E q \in Requests : Rotates(q, token[k].family)
                          THEN forked \cup {token[k].family} ELSE forked
    <2>1. req'[r] = b /\ \A q \in Requests : q # r => req'[q] = req[q]
      BY <1>1, <1>4, ReqStep
    <2>2. \A g : LiveOf(g)' = LiveOf(g)
      BY <1>0 DEF LiveOf, OfSession, LiveTokens
    <2>3. \A g : ~Rotates(r, g)
      BY <1>2 DEF Rotates, RotationPcs
    <2>4. \A g : Rotates(r, g)' <=> g = token[k].family
      BY <1>0, <1>1, <2>1 DEF Rotates, RotationPcs
    <2>5. \A g : \A q \in Requests : q # r => (Rotates(q, g)' <=> Rotates(q, g))
      BY <1>0, <2>1 DEF Rotates
    <2> SUFFICES ASSUME NEW f \in Tokens, f \notin forked'
                 PROVE  OneChain(f)'
      BY HeadIsChains
    <2>6. f \notin forked /\ OneChain(f)
      BY <1>4, HeadIsChains
    <2>7. CASE f # token[k].family
      <3>1. \A q \in Requests : Rotates(q, f)' <=> Rotates(q, f)
        BY <2>3, <2>4, <2>5, <2>7
      <3>2. \A q \in Requests : Rotates(q, f) => req'[q] = req[q]
        BY <2>1, <2>3
      <3>3. LiveOf(f)' \subseteq LiveOf(f)
        BY <2>2
      <3> QED
        BY <2>6, <3>1, <3>2, <3>3, OtherChains
    <2>8. CASE f = token[k].family
      <3>1. \A q \in Requests : ~Rotates(q, f)
        BY <1>4, <2>8
      <3>2. k \in LiveOf(f)
        BY <1>0, <1>4, <2>8 DEF LiveOf, OfSession, LiveTokens, Retired
      <3>3. LiveOf(f)' \subseteq {k}
        BY <2>2, <2>6, <3>1, <3>2 DEF OneChain
      <3>4. \A q \in Requests : Rotates(q, f)' <=> q = r
        BY <2>4, <2>5, <2>8, <3>1
      <3> QED
        BY <1>1, <2>1, <3>3, <3>4 DEF OneChain
    <2> QED
      BY <2>7, <2>8
  <1> QED
    BY <1>2, <1>3, <1>4

LEMMA HeadPersist ==
    ASSUME TypeInv, HeadInv, OldTokensKeep, NEW r \in Requests, RotatePersist(r)
    PROVE  HeadInv'
  <1>0. /\ issued \in Nat /\ 1..issued \subseteq Tokens
        /\ issued + 1 \in Tokens /\ issued' = issued + 1 /\ forked' = forked
        /\ req[r].pc = "persist"
        /\ req[r].token \in 1..issued /\ token[req[r].token].family \in 1..issued
        /\ \A q \in Requests : req[q].pc \in RotationPcs => req[q].token \in 1..issued
    BY AccountsAssumption DEF RotatePersist, TypeInv, TypeOK, TokensIssued, Holds,
       RotationPcs, Tokens
  <1> DEFINE f0 == token[req[r].token].family
             k == req[r].token
             b == [pc |-> "replace", token |-> k, new |-> issued + 1]
  <1>1. /\ b \in ReqState /\ b.pc = "replace" /\ b.token = k /\ b.new = issued + 1
        /\ f0 = token[k].family /\ k \in 1..issued
    BY <1>0, KindsOfReq
  <1>2. /\ token'[issued + 1].family = f0
        /\ \A j \in Tokens : j # issued + 1 => token'[j] = token[j]
    <2>1. f0 \in 1..(issued + 1) /\ token' = [token EXCEPT ![issued + 1].family = f0]
      BY <1>0 DEF RotatePersist
    <2> HIDE DEF f0
    <2> QED
      BY <1>0, <2>1, CreateStep DEF RotatePersist
  <1>3. Goto(r, b)
    BY DEF RotatePersist
  <1>4. k = req[r].token
    OBVIOUS
  <1> HIDE DEF f0, k, b
  <1>5. req'[r] = b /\ \A q \in Requests : q # r => req'[q] = req[q]
    BY <1>1, <1>3, ReqStep
  <1>6. \A g : Rotates(r, g) <=> g = f0
    BY <1>0, <1>1, <1>4 DEF Rotates, RotationPcs
  <1>7. \A j \in 1..issued : token'[j] = token[j]
    BY <1>0, <1>2
  <1>8. \A g : Rotates(r, g)' <=> g = f0
    BY <1>1, <1>5, <1>7 DEF Rotates, RotationPcs
  <1>9. \A g : \A q \in Requests : q # r => (Rotates(q, g)' <=> Rotates(q, g))
    BY <1>0, <1>5, <1>7 DEF Rotates
  <1>10. \A g : LiveOf(g)' \subseteq LiveOf(g) \cup (IF g = f0 THEN {issued + 1} ELSE {})
    <2>1. \A j \in 1..(issued + 1) : j \in 1..issued \/ j = issued + 1
      BY <1>0
    <2> QED
      BY <1>0, <1>2, <1>7, <2>1 DEF LiveOf, OfSession, LiveTokens
  <1> SUFFICES ASSUME NEW f \in Tokens, f \notin forked'
               PROVE  OneChain(f)'
    BY HeadIsChains
  <1>11. f \notin forked /\ OneChain(f)
    BY <1>0, HeadIsChains
  <1>12. CASE f # f0
    <2>1. \A q \in Requests : Rotates(q, f)' <=> Rotates(q, f)
      BY <1>6, <1>8, <1>9, <1>12
    <2>2. \A q \in Requests : Rotates(q, f) => req'[q] = req[q]
      BY <1>5, <1>6, <1>12
    <2>3. LiveOf(f)' \subseteq LiveOf(f)
      BY <1>10, <1>12
    <2> QED
      BY <1>11, <2>1, <2>2, <2>3, OtherChains
  <1>13. CASE f = f0
    <2>1. LiveOf(f) \subseteq {k}
      BY <1>0, <1>4, <1>6, <1>11, <1>13 DEF OneChain
    <2>2. LiveOf(f)' \subseteq {k, issued + 1}
      BY <1>10, <1>13, <2>1
    <2>3. \A q \in Requests : Rotates(q, f)' <=> q = r
      BY <1>6, <1>8, <1>9, <1>11, <1>13 DEF OneChain
    <2> QED
      BY <1>1, <1>5, <2>2, <2>3 DEF OneChain
  <1> QED
    BY <1>12, <1>13

LEMMA HeadReplace ==
    ASSUME TypeInv, HeadInv, OldTokensKeep, NEW r \in Requests, RotateReplace(r)
    PROVE  HeadInv'
  <1>0. /\ issued \in Nat /\ 1..issued \subseteq Tokens
        /\ issued' = issued /\ forked' = forked /\ req[r].pc = "replace"
        /\ req[r].token \in 1..issued
        /\ \A q \in Requests : req[q].pc \in RotationPcs => req[q].token \in 1..issued
        /\ Idle \in ReqState /\ Idle.pc = "idle" /\ Goto(r, Idle)
    BY AccountsAssumption, KindsOfReq DEF RotateReplace, TypeInv, TypeOK, TokensIssued,
       Holds, RotationPcs, Tokens, Idle
  <1> DEFINE k == req[r].token
             n == req[r].new
             f0 == token[k].family
  <1>1. token'[k].revoked
    BY <1>0 DEF RotateReplace, TypeInv, TypeOK, TokenRow
  <1>2. req'[r] = Idle /\ \A q \in Requests : q # r => req'[q] = req[q]
    BY <1>0, ReqStep
  <1>3. \A g : Rotates(r, g) <=> g = f0
    BY <1>0 DEF Rotates, RotationPcs
  <1>4. \A g : ~Rotates(r, g)'
    BY <1>0, <1>2 DEF Rotates, RotationPcs
  <1>5. \A g : \A q \in Requests : q # r => (Rotates(q, g)' <=> Rotates(q, g))
    BY <1>0, <1>2 DEF Rotates, OldTokensKeep
  <1>6. \A g : LiveOf(g)' \subseteq LiveOf(g) \ {k}
    BY <1>0, <1>1 DEF LiveOf, OfSession, LiveTokens, OldTokensKeep
  <1> SUFFICES ASSUME NEW f \in Tokens, f \notin forked'
               PROVE  OneChain(f)'
    BY HeadIsChains
  <1>7. f \notin forked /\ OneChain(f)
    BY <1>0, HeadIsChains
  <1>8. CASE f # f0
    <2>1. \A q \in Requests : Rotates(q, f)' <=> Rotates(q, f)
      BY <1>3, <1>4, <1>5, <1>8
    <2>2. \A q \in Requests : Rotates(q, f) => req'[q] = req[q]
      BY <1>2, <1>3, <1>8
    <2>3. LiveOf(f)' \subseteq LiveOf(f)
      BY <1>6
    <2> QED
      BY <1>7, <2>1, <2>2, <2>3, OtherChains
  <1>9. CASE f = f0
    <2>1. LiveOf(f) \subseteq {k, n}
      BY <1>0, <1>3, <1>7, <1>9 DEF OneChain
    <2>2. \A i, j \in LiveOf(f)' : i = j
      BY <1>6, <2>1
    <2>3. \A q \in Requests : ~Rotates(q, f)'
      BY <1>3, <1>4, <1>5, <1>7, <1>9 DEF OneChain
    <2> QED
      BY <2>2, <2>3 DEF OneChain
  <1> QED
    BY <1>8, <1>9

LEMMA HeadIssue ==
    ASSUME TypeInv, HeadInv, OldTokensKeep, NEW r \in Requests, IssueSession(r)
    PROVE  HeadInv'
  <1>0. /\ issued \in Nat /\ 1..issued \subseteq Tokens
        /\ issued + 1 \in Tokens /\ issued' = issued + 1 /\ forked' = forked
        /\ req[r].pc = "open" /\ Goto(r, Idle)
        /\ \A j \in 1..issued : token[j].family \in 1..issued
        /\ \A q \in Requests : req[q].pc \in RotationPcs => req[q].token \in 1..issued
        /\ Idle \in ReqState /\ Idle.pc = "idle"
    BY AccountsAssumption, KindsOfReq DEF IssueSession, TypeInv, TypeOK, TokensIssued,
       Holds, Tokens, Idle
  <1>1. /\ token'[issued + 1].family = issued + 1
        /\ \A j \in Tokens : j # issued + 1 => token'[j] = token[j]
    <2>1. issued + 1 \in 1..(issued + 1)
      BY <1>0
    <2> QED
      BY <1>0, <2>1, CreateStep DEF IssueSession
  <1>2. req'[r] = Idle /\ \A q \in Requests : q # r => req'[q] = req[q]
    BY <1>0, ReqStep
  <1>3. \A j \in 1..issued : token'[j] = token[j]
    BY <1>0, <1>1
  <1>4. \A g : \A q \in Requests : Rotates(q, g)' <=> Rotates(q, g)
    BY <1>0, <1>2, <1>3 DEF Rotates, RotationPcs
  <1>5. \A g : \A q \in Requests : Rotates(q, g) => req'[q] = req[q]
    BY <1>0, <1>2 DEF Rotates, RotationPcs
  <1>6. \A g : LiveOf(g)'
               \subseteq LiveOf(g) \cup (IF g = issued + 1 THEN {issued + 1} ELSE {})
    <2>1. \A j \in 1..(issued + 1) : j \in 1..issued \/ j = issued + 1
      BY <1>0
    <2> QED
      BY <1>0, <1>1, <1>3, <2>1 DEF LiveOf, OfSession, LiveTokens
  <1> SUFFICES ASSUME NEW f \in Tokens, f \notin forked'
               PROVE  OneChain(f)'
    BY HeadIsChains
  <1>7. OneChain(f)
    BY <1>0, HeadIsChains
  <1>8. CASE f # issued + 1
    <2>1. LiveOf(f)' \subseteq LiveOf(f)
      BY <1>6, <1>8
    <2> QED
      BY <1>4, <1>5, <1>7, <2>1, OtherChains
  <1>9. CASE f = issued + 1
    <2>1. LiveOf(f) = {}
      BY <1>0, <1>9 DEF LiveOf, OfSession
    <2>2. \A q \in Requests : ~Rotates(q, f)'
      BY <1>0, <1>4, <1>9 DEF Rotates
    <2>3. \A i, j \in LiveOf(f)' : i = j
      BY <1>6, <2>1
    <2> QED
      BY <2>2, <2>3 DEF OneChain
  <1> QED
    BY <1>8, <1>9

LEMMA HeadStep ==
    ASSUME TypeInv, HeadInv, [Next]_vars
    PROVE  HeadInv'
  <1>0. OldTokensKeep /\ TypeOK
    BY SessionStep DEF SessionEffect, TypeInv
  <1>1. ASSUME NEW r \in Requests, issued' = issued, forked' = forked,
               req[r].pc # "replace", req'[r].pc \notin RotationPcs,
               \A q \in Requests : q # r => req'[q] = req[q]
        PROVE  HeadInv'
    <2>1. \A q \in Requests : GoesOn(q)
      BY <1>1 DEF GoesOn
    <2> QED
      BY <1>0, <1>1, <2>1, HeadFrame
  <1>2. ASSUME NEW r \in Requests, LoginRead(r) \/ LoginMiss(r) \/ LoginAdmit(r)
        PROVE  HeadInv'
    <2>1. issued' = issued /\ forked' = forked /\ req[r].pc # "replace"
      BY <1>2 DEF LoginRead, LoginMiss, LoginAdmit, Idle
    <2>2. /\ req'[r].pc \notin RotationPcs
          /\ \A q \in Requests : q # r => req'[q] = req[q]
      BY <1>0, <1>2 DEF LoginRead, LoginMiss, LoginAdmit, Idle, Goto, RotationPcs,
         TypeOK
    <2> QED
      BY <1>1, <2>1, <2>2
  <1>3. ASSUME NEW r \in Requests, RevokeFamily(r) \/ Password(r)
        PROVE  HeadInv'
    <2>1. issued' = issued /\ forked' = forked
      BY <1>3 DEF RevokeFamily, Password, ForgotExpire, ForgotCreate, ResetRead,
         ResetCommit, ChangeRead, ChangeCommit, RevokeAll
    <2>3. req[r] = Idle \/ req[r].pc \in {"revokeFamily", "link", "reset", "change",
                                         "revokeAll"}
      BY <1>3 DEF RevokeFamily, Password, ForgotExpire, ForgotCreate, ResetRead,
         ResetCommit, ChangeRead, ChangeCommit, RevokeAll
    <2>4. req[r].pc # "replace"
      BY <2>3 DEF Idle
    <2>2. /\ req'[r].pc \notin RotationPcs
          /\ \A q \in Requests : q # r => req'[q] = req[q]
      BY <1>0, <1>3 DEF RevokeFamily, Password, ForgotExpire, ForgotCreate, ResetRead,
         ResetCommit, ChangeRead, ChangeCommit, RevokeAll, Idle, Goto, RotationPcs,
         TypeOK
    <2> QED
      BY <1>1, <2>1, <2>2, <2>4
  <1>4. ASSUME NEW r \in Requests, RotateLoad(r)
        PROVE  HeadInv'
    <2>1. issued' = issued /\ forked' = forked /\ req[r].pc = "load"
      BY <1>4 DEF RotateLoad
    <2>2. /\ \/ req'[r].pc = "revokeFamily"
             \/ req'[r].pc = "persist" /\ req'[r].token = req[r].token
          /\ \A q \in Requests : q # r => req'[q] = req[q]
      BY <1>0, <1>4 DEF RotateLoad, Goto, TypeOK
    <2>3. \A q \in Requests : GoesOn(q)
      BY <2>1, <2>2 DEF GoesOn, RotationPcs
    <2> QED
      BY <1>0, <2>1, <2>3, HeadFrame
  <1>5. ASSUME NEW r \in Requests, Abandon(r)
        PROVE  HeadInv'
    <2>1. /\ issued' = issued /\ forked \subseteq forked'
          /\ req[r].pc = "replace" => token[req[r].token].family \in forked'
      BY <1>5 DEF Abandon
    <2>2. /\ req'[r].pc \notin RotationPcs
          /\ \A q \in Requests : q # r => req'[q] = req[q]
      BY <1>0, <1>5 DEF Abandon, Goto, Idle, RotationPcs, TypeOK
    <2>3. \A q \in Requests : GoesOn(q)
      BY <2>1, <2>2 DEF GoesOn
    <2> QED
      BY <1>0, <2>1, <2>3, HeadFrame
  <1>6. ASSUME NEW r \in Requests, Login(r) PROVE HeadInv'
    BY <1>0, <1>2, <1>6, HeadIssue DEF Login
  <1>7. ASSUME NEW r \in Requests, Rotate(r) PROVE HeadInv'
    BY <1>0, <1>3, <1>4, <1>7, HeadRead, HeadPersist, HeadReplace DEF Rotate
  <1>8. CASE \/ \E k \in Tokens : SignOut(k)
             \/ LockLapses
             \/ \E status \in StaffStatuses : SetStatus(status)
             \/ UNCHANGED vars
    <2>1. issued' = issued /\ forked' = forked /\ req' = req
      BY <1>8 DEF SignOut, LockLapses, SetStatus, vars
    <2>2. \A q \in Requests : GoesOn(q)
      BY <2>1 DEF GoesOn
    <2> QED
      BY <1>0, <2>1, <2>2, HeadFrame
  <1> QED
    BY <1>3, <1>5, <1>6, <1>7, <1>8 DEF Next

LEMMA ChainHasOneHead ==
    ASSUME HeadInv, NEW f \in Tokens, f \notin forked
    PROVE  Cardinality(Heads(f)) <= 1
  <1>1. OneChain(f)
    BY HeadIsChains
  <1>2. Heads(f) \subseteq LiveOf(f)
    BY DEF Heads, LiveOf
  <1>3. \A q \in Requests : req[q].pc = "replace" => req[q].token \notin Heads(f)
    BY DEF Heads
  <1>4. \A j, k \in Heads(f) : j = k
    <2>1. CASE \A q \in Requests : ~Rotates(q, f)
      BY <1>1, <1>2, <2>1 DEF OneChain
    <2>2. ASSUME NEW q \in Requests, Rotates(q, f)
          PROVE  \A j, k \in Heads(f) : j = k
      <3>1. CASE req[q].pc # "replace"
        BY <1>1, <1>2, <2>2, <3>1 DEF OneChain
      <3>2. CASE req[q].pc = "replace"
        <4>1. LiveOf(f) \subseteq {req[q].token, req[q].new}
          BY <1>1, <2>2, <3>2 DEF OneChain
        <4> QED
          BY <1>2, <1>3, <3>2, <4>1
      <3> QED
        BY <3>1, <3>2
    <2> QED
      BY <2>1, <2>2
  <1>5. CASE Heads(f) = {}
    BY <1>5, FS_EmptySet
  <1>6. CASE Heads(f) # {}
    <2>1. PICK k : Heads(f) = {k}
      BY <1>4, <1>6
    <2> QED
      BY <2>1, FS_Singleton
  <1> QED
    BY <1>5, <1>6

\* Unless two of its rotations overlapped or one died half way, a session has one
\* token at most that can be exchanged, which is what makes a second use of any
\* other one a replay.
THEOREM SessionHasOneHead == Spec => []OneHead
  <1>1. Init => HeadInv
    BY DEF Init, HeadInv, Rotates, RotationPcs, LiveOf, OfSession, Idle
  <1>2. TypeInv /\ HeadInv /\ [Next]_vars => HeadInv'
    BY HeadStep
  <1>3. HeadInv => OneHead
    BY ChainHasOneHead DEF OneHead
  <1> QED
    BY <1>1, <1>2, <1>3, TypeCorrect, PTL DEF Spec

-----------------------------------------------------------------------------
(* The number of ways to choose *)

LEMMA ChoicesFinite ==
    ASSUME NEW a \in Nat, NEW b \in Nat
    PROVE  /\ IsFiniteSet(Choices(a, b)) /\ Ways(a, b) \in Nat
           /\ \A c \in Choices(a, b) : IsFiniteSet(c)
  <1>1. IsFiniteSet(1..(a + b))
    BY FS_Interval
  <1>2. IsFiniteSet(SUBSET (1..(a + b)))
    BY <1>1, FS_SUBSET
  <1>3. Choices(a, b) \subseteq SUBSET (1..(a + b))
    BY DEF Choices
  <1>4. IsFiniteSet(Choices(a, b)) /\ Ways(a, b) \in Nat
    BY <1>2, <1>3, FS_Subset, FS_CardinalityType DEF Ways
  <1> QED
    BY <1>1, <1>3, <1>4, FS_Subset

LEMMA WaysGrow ==
    ASSUME NEW a \in Nat, NEW d \in Nat, NEW b \in Nat, a <= d
    PROVE  Ways(a, b) <= Ways(d, b)
  <1>1. 1..(a + b) \subseteq 1..(d + b)
    OBVIOUS
  <1>2. Choices(a, b) \subseteq Choices(d, b)
    BY <1>1 DEF Choices
  <1> QED
    BY <1>2, ChoicesFinite, FS_Subset DEF Ways

LEMMA WaysOfNothing ==
    ASSUME NEW b \in Nat
    PROVE  Ways(0, b) = 1 /\ Ways(b, 0) = 1
  <1>1. IsFiniteSet(1..b) /\ Cardinality(1..b) = b
    BY FS_Interval
  <1>2. Choices(0, b) = {1..b}
    <2>1. \A c \in SUBSET (1..b) : Cardinality(c) = b => c = 1..b
      BY <1>1, FS_Subset
    <2>2. 0 + b = b
      OBVIOUS
    <2> QED
      BY <1>1, <2>1, <2>2 DEF Choices
  <1>3. Choices(b, 0) = {{}}
    <2>1. \A c \in SUBSET (1..b) : Cardinality(c) = 0 <=> c = {}
      BY <1>1, FS_Subset, FS_EmptySet
    <2>2. b + 0 = b
      OBVIOUS
    <2> QED
      BY <2>1, <2>2 DEF Choices
  <1> QED
    BY <1>2, <1>3, FS_Singleton DEF Ways

\* Pascal's rule: the choices without the last element, and those with it.
LEMMA WaysSplit ==
    ASSUME NEW a \in Nat, NEW b \in Nat
    PROVE  Ways(a + 1, b + 1) = Ways(a, b + 1) + Ways(a + 1, b)
  <1> DEFINE n == a + b + 2
             With == {c \in Choices(a + 1, b + 1) : n \in c}
             f == [c \in Choices(a + 1, b) |-> c \cup {n}]
  <1>0. /\ n \in Nat /\ n \notin 1..(a + b + 1)
        /\ (a + 1) + (b + 1) = n /\ a + (b + 1) = a + b + 1
        /\ (a + 1) + b = a + b + 1 /\ 1..n = 1..(a + b + 1) \cup {n}
        /\ a + 1 \in Nat /\ b + 1 \in Nat
    OBVIOUS
  <1>a. n = (a + 1) + (b + 1)
    OBVIOUS
  <1> HIDE DEF n
  <1>1. Choices(a + 1, b + 1) = Choices(a, b + 1) \cup With
    <2>1. \A c : c \in Choices(a, b + 1) <=>
                    c \subseteq 1..(a + b + 1) /\ Cardinality(c) = b + 1
      BY <1>0 DEF Choices
    <2>2. \A c : c \in Choices(a + 1, b + 1) <=>
                    c \subseteq 1..n /\ Cardinality(c) = b + 1
      BY <1>0 DEF Choices
    <2>3. \A c : c \subseteq 1..(a + b + 1) <=> c \subseteq 1..n /\ n \notin c
      BY <1>0
    <2> QED
      BY <2>1, <2>2, <2>3
  <1>2. Choices(a, b + 1) \cap With = {}
    BY <1>0 DEF Choices
  <1>3. ExistsBijection(Choices(a + 1, b), With)
    <2>1. ASSUME NEW c \in Choices(a + 1, b) PROVE c \cup {n} \in With /\ n \notin c
      <3>1. c \subseteq 1..(a + b + 1) /\ Cardinality(c) = b
        BY <1>0 DEF Choices
      <3>2. n \notin c /\ c \cup {n} \subseteq 1..n
        BY <1>0, <3>1
      <3>3. IsFiniteSet(c)
        BY <1>0, ChoicesFinite
      <3>4. Cardinality(c \cup {n}) = b + 1
        BY <3>1, <3>2, <3>3, FS_AddElement
      <3> QED
        BY <1>0, <3>2, <3>4 DEF Choices
    <2>2. ASSUME NEW c \in With PROVE c \ {n} \in Choices(a + 1, b)
      <3>1. c \subseteq 1..n /\ Cardinality(c) = b + 1 /\ n \in c
        BY <1>0 DEF Choices
      <3>2. IsFiniteSet(c)
        BY <1>0, ChoicesFinite
      <3>3. Cardinality(c \ {n}) = b
        BY <3>1, <3>2, FS_RemoveElement
      <3>4. c \ {n} \subseteq 1..(a + b + 1)
        BY <1>0, <3>1
      <3> QED
        BY <1>0, <3>3, <3>4 DEF Choices
    <2>3. f \in [Choices(a + 1, b) -> With]
      BY <2>1
    <2>4. \A c, d \in Choices(a + 1, b) : f[c] = f[d] => c = d
      <3>1. \A c \in Choices(a + 1, b) : f[c] \ {n} = c
        BY <2>1
      <3> HIDE DEF f
      <3> QED
        BY <3>1
    <2>5. \A c \in With : \E d \in Choices(a + 1, b) : f[d] = c
      <3> SUFFICES ASSUME NEW c \in With
                   PROVE  \E d \in Choices(a + 1, b) : f[d] = c
        OBVIOUS
      <3>1. c \ {n} \in Choices(a + 1, b) /\ (c \ {n}) \cup {n} = c
        BY <2>2
      <3> QED
        BY <3>1
    <2> HIDE DEF f, With
    <2> QED
      BY <2>3, <2>4, <2>5 DEF ExistsBijection, Bijection, Injection, Surjection, IsInjective
  <1>4. /\ IsFiniteSet(With) /\ Cardinality(With) = Ways(a + 1, b)
    BY <1>0, <1>3, ChoicesFinite, FS_Bijection DEF Ways
  <1>5. IsFiniteSet(Choices(a, b + 1)) /\ Ways(a, b + 1) \in Nat /\ Ways(a + 1, b) \in Nat
    BY <1>0, ChoicesFinite
  <1> HIDE DEF With
  <1>6. Cardinality(Choices(a + 1, b + 1))
           = Cardinality(Choices(a, b + 1)) + Cardinality(With)
             - Cardinality(Choices(a, b + 1) \cap With)
    BY <1>1, <1>4, <1>5, FS_Union
  <1>7. Cardinality(Choices(a, b + 1) \cap With) = 0
    BY <1>2, FS_EmptySet
  <1> QED
    BY <1>4, <1>5, <1>6, <1>7 DEF Ways

LEMMA LargestOf ==
    ASSUME NEW n \in Nat, NEW B \in SUBSET (0..n), B # {}
    PROVE  \E x \in B : \A y \in B : y <= x
  <1> DEFINE Tails == {x..n : x \in B}
  <1>1. IsFiniteSet(0..n)
    BY FS_Interval
  <1>2. IsWellFoundedOn(StrictSubsetOrdering(0..n), SUBSET (0..n))
    BY <1>1, FS_StrictSubsetOrderingWellFounded, FS_FiniteSubsetsOfFinite
  <1>3. Tails \subseteq SUBSET (0..n) /\ Tails # {}
    <2>1. \A x \in B : x..n \subseteq 0..n
      OBVIOUS
    <2> QED
      BY <2>1
  <1>4. PICK s \in Tails : \A t \in Tails : <<t, s>> \notin StrictSubsetOrdering(0..n)
    <2> HIDE DEF Tails
    <2> QED
      BY <1>2, <1>3, WFMin
  <1>5. PICK x \in B : s = x..n
    BY <1>4
  <1>6. ASSUME NEW y \in B, x < y PROVE FALSE
    <2>1. y..n \in Tails /\ y..n \in SUBSET (0..n) /\ s \in SUBSET (0..n)
      BY <1>5
    <2>2. y..n \subseteq s /\ x \in s /\ x \notin y..n
      BY <1>5, <1>6
    <2>3. <<y..n, s>> \in StrictSubsetOrdering(0..n)
      BY <2>1, <2>2 DEF StrictSubsetOrdering
    <2> QED
      BY <1>4, <2>1, <2>3
  <1>7. \A y \in B : y <= x
    BY <1>6
  <1> QED
    BY <1>7

-----------------------------------------------------------------------------
(* Wrong guesses *)

\* What the a-th request can add when it reaches count w after a - 1 others.
Gain(a, w) == IF a = 0 THEN 0 ELSE Ways(a - 1, MaxFailed - w + 1)

LEMMA GainType ==
    ASSUME NEW a \in Nat, NEW w \in 1..MaxFailed
    PROVE  Gain(a, w) \in Nat /\ MaxFailed - w \in Nat /\ MaxFailed - w + 1 \in Nat
  <1>1. MaxFailed - w \in Nat /\ MaxFailed - w + 1 \in Nat
    BY AccountsAssumption
  <1>2. CASE a = 0
    BY <1>1, <1>2 DEF Gain
  <1>3. CASE a # 0
    <2>1. a - 1 \in Nat
      BY <1>3
    <2> QED
      BY <1>1, <1>3, <2>1, ChoicesFinite DEF Gain
  <1> QED
    BY <1>1, <1>2, <1>3

LEMMA GainStep ==
    ASSUME NEW a \in Nat, NEW w \in 1..MaxFailed
    PROVE  /\ Gain(a + 1, w) = Ways(a, MaxFailed - w + 1)
           /\ Gain(a + 1, w) = Gain(a, w) + Ways(a, MaxFailed - w)
  <1> DEFINE b == MaxFailed - w
  <1>0. b \in Nat /\ b + 1 \in Nat
    BY GainType
  <1>1. Gain(a + 1, w) = Ways(a, b + 1)
    <2>1. a + 1 # 0 /\ (a + 1) - 1 = a
      OBVIOUS
    <2> QED
      BY <2>1 DEF Gain
  <1>2. CASE a = 0
    BY <1>0, <1>1, <1>2, WaysOfNothing DEF Gain
  <1>3. CASE a # 0
    <2>1. a - 1 \in Nat /\ (a - 1) + 1 = a
      BY <1>3
    <2> HIDE DEF b
    <2>2. Ways((a - 1) + 1, b + 1) = Ways(a - 1, b + 1) + Ways((a - 1) + 1, b)
      BY <1>0, <2>1, WaysSplit
    <2>3. Ways(a, b + 1) = Ways(a - 1, b + 1) + Ways(a, b)
      BY <2>1, <2>2
    <2>4. Gain(a, w) = Ways(a - 1, b + 1)
      BY <1>3 DEF Gain, b
    <2> QED
      BY <1>1, <2>3, <2>4 DEF b
  <1> QED
    BY <1>1, <1>2, <1>3

LEMMA GainGrows ==
    ASSUME NEW a \in Nat, NEW d \in Nat, a <= d, NEW w \in 1..MaxFailed
    PROVE  Gain(a, w) <= Gain(d, w)
  <1>1. CASE a = 0
    <2>1. Gain(a, w) = 0 /\ Gain(d, w) \in Nat
      BY <1>1, GainType DEF Gain
    <2> QED
      BY <2>1
  <1>2. CASE a # 0
    <2>1. a - 1 \in Nat /\ d - 1 \in Nat /\ a - 1 <= d - 1 /\ d # 0
      BY <1>2
    <2>2. MaxFailed - w + 1 \in Nat
      BY GainType
    <2> QED
      BY <1>2, <2>1, <2>2, WaysGrow DEF Gain
  <1> QED
    BY <1>1, <1>2

\* s[w] bounds the guesses that took the count past w, when count[w] requests
\* stand at w or later.
Covers(s, count) ==
    /\ s \in [0..MaxFailed -> Nat]
    /\ s[MaxFailed] = 0
    /\ \A w \in 1..MaxFailed : s[w - 1] <= s[w] + Gain(count[w], w)

LEMMA CoverBound ==
    ASSUME NEW s, NEW count \in [0..MaxFailed -> Nat], Covers(s, count),
           \A w \in 1..MaxFailed : count[w] <= count[w - 1]
    PROVE  \A w \in 0..MaxFailed : s[w] < Ways(count[w], MaxFailed - w)
  <1> DEFINE Bad == {w \in 0..MaxFailed : ~(s[w] < Ways(count[w], MaxFailed - w))}
  <1> SUFFICES ASSUME Bad # {} PROVE FALSE
    OBVIOUS
  <1>0. MaxFailed \in Nat \ {0}
    BY AccountsAssumption
  <1>1. PICK w \in Bad : \A y \in Bad : y <= w
    <2>1. Bad \in SUBSET (0..MaxFailed) /\ MaxFailed \in Nat
      BY <1>0
    <2> HIDE DEF Bad
    <2> QED
      BY <2>1, LargestOf
  <1>2. w \in 0..MaxFailed /\ ~(s[w] < Ways(count[w], MaxFailed - w))
    BY <1>1
  <1>3. CASE w = MaxFailed
    <2>1. s[w] = 0 /\ MaxFailed - w = 0 /\ count[w] \in Nat
      BY <1>0, <1>3 DEF Covers
    <2> QED
      BY <1>2, <2>1, WaysOfNothing
  <1>4. CASE w # MaxFailed
    <2> DEFINE v == w + 1
    <2>1. v \in 1..MaxFailed /\ v \in 0..MaxFailed /\ ~(v <= w) /\ w = v - 1
      BY <1>0, <1>2, <1>4
    <2>a. MaxFailed - w = MaxFailed - v + 1
      BY <1>0, <1>2
    <2> HIDE DEF v
    <2>2. s[v] < Ways(count[v], MaxFailed - v)
      BY <1>1, <2>1
    <2> HIDE DEF Bad
    <2>3. s[w] <= s[v] + Gain(count[v], v)
      BY <2>1 DEF Covers
    <2>4. /\ s[w] \in Nat /\ s[v] \in Nat /\ count[v] \in Nat /\ count[w] \in Nat
          /\ count[v] <= count[w]
      BY <1>2, <2>1 DEF Covers
    <2>5. /\ Gain(count[v] + 1, v) = Ways(count[v], MaxFailed - w)
          /\ Gain(count[v] + 1, v) = Gain(count[v], v) + Ways(count[v], MaxFailed - v)
      BY <2>1, <2>4, <2>a, GainStep
    <2>6. /\ Gain(count[v], v) \in Nat /\ MaxFailed - v \in Nat /\ MaxFailed - w \in Nat
      BY <2>1, <2>4, <2>a, GainType
    <2>7. /\ Ways(count[v], MaxFailed - v) \in Nat /\ Ways(count[w], MaxFailed - w) \in Nat
          /\ Ways(count[v], MaxFailed - w) \in Nat
          /\ Ways(count[v], MaxFailed - w) <= Ways(count[w], MaxFailed - w)
      BY <2>4, <2>6, ChoicesFinite, WaysGrow
    <2>8. s[w] < Ways(count[w], MaxFailed - w)
      BY <2>2, <2>3, <2>4, <2>5, <2>6, <2>7
    <2> QED
      BY <1>2, <2>8
  <1> QED
    BY <1>3, <1>4

\* A guess takes the count to t, and whoever was not past it with it: one request
\* more stands there.
LEMMA CoverMiss ==
    ASSUME NEW s, NEW count \in [0..MaxFailed -> Nat], Covers(s, count),
           \A w \in 1..MaxFailed : count[w] <= count[w - 1],
           NEW after \in [0..MaxFailed -> Nat], NEW t \in 1..MaxFailed,
           \A w \in 1..t : count[w] <= after[w], count[t] + 1 <= after[t],
           NEW g \in Nat, g <= s[0]
    PROVE  \E z : Covers(z, after) /\ g + 1 <= z[0]
  <1> DEFINE z == [w \in 0..MaxFailed |-> IF w < t THEN s[w] + 1 ELSE 0]
  <1>0. MaxFailed \in Nat \ {0} /\ t \in 0..MaxFailed /\ 0 \in 0..MaxFailed
    BY AccountsAssumption
  <1>1. s \in [0..MaxFailed -> Nat]
    BY DEF Covers
  <1>2. z \in [0..MaxFailed -> Nat] /\ z[MaxFailed] = 0 /\ z[0] = s[0] + 1
    <2>1. \A w \in 0..MaxFailed : s[w] \in Nat /\ s[w] + 1 \in Nat
      BY <1>1
    <2>2. z \in [0..MaxFailed -> Nat]
      BY <2>1
    <2>3. ~(MaxFailed < t) /\ 0 < t /\ MaxFailed \in 0..MaxFailed
      BY <1>0
    <2> QED
      BY <1>0, <2>2, <2>3
  <1>3. ASSUME NEW w \in 1..MaxFailed
        PROVE  z[w - 1] <= z[w] + Gain(after[w], w)
    <2>a. w \in 0..MaxFailed /\ w - 1 \in 0..MaxFailed
      BY <1>0
    <2>1. /\ w \in 0..MaxFailed /\ w - 1 \in 0..MaxFailed
          /\ s[w] \in Nat /\ s[w - 1] \in Nat
          /\ count[w] \in Nat /\ after[w] \in Nat
      <3> HIDE DEF z
      <3> QED
        BY <1>1, <2>a
    <2>2. Gain(after[w], w) \in Nat /\ Gain(count[w], w) \in Nat
      BY <2>1, GainType
    <2>3. s[w - 1] <= s[w] + Gain(count[w], w)
      BY DEF Covers
    <2>4. CASE w < t
      <3>1. z[w - 1] = s[w - 1] + 1 /\ z[w] = s[w] + 1
        BY <2>1, <2>4
      <3>2. count[w] <= after[w]
        BY <2>1, <2>4
      <3>3. Gain(count[w], w) <= Gain(after[w], w)
        BY <2>1, <3>2, GainGrows
      <3> HIDE DEF z
      <3> QED
        BY SMTT(30), <2>1, <2>2, <2>3, <3>1, <3>3
    <2>5. CASE w = t
      <3>1. z[w - 1] = s[w - 1] + 1 /\ z[w] = 0
        BY <2>1, <2>5
      <3>2. s[w] < Ways(count[w], MaxFailed - w)
        BY <2>1, CoverBound
      <3>3. Gain(count[w] + 1, w) = Gain(count[w], w) + Ways(count[w], MaxFailed - w)
        BY <2>1, GainStep
      <3>4. Gain(count[w] + 1, w) <= Gain(after[w], w)
        <4>1. count[w] + 1 <= after[w] /\ count[w] + 1 \in Nat
          BY <2>1, <2>5
        <4> QED
          BY <2>1, <4>1, GainGrows
      <3>5. MaxFailed - w \in Nat
        BY GainType, <2>1
      <3>6. Ways(count[w], MaxFailed - w) \in Nat
        BY <2>1, <3>5, ChoicesFinite
      <3> HIDE DEF z
      <3> QED
        BY SMTT(30), <2>1, <2>2, <2>3, <3>1, <3>2, <3>3, <3>4, <3>6
    <2>6. CASE w > t
      <3>1. z[w - 1] = 0 /\ z[w] = 0
        BY <2>1, <2>6
      <3> HIDE DEF z
      <3> QED
        BY <2>2, <3>1
    <2> QED
      BY <2>1, <2>4, <2>5, <2>6
  <1>4. Covers(z, after)
    BY <1>2, <1>3 DEF Covers
  <1>5. g + 1 <= z[0]
    BY SMTT(30), <1>0, <1>1, <1>2
  <1> QED
    BY <1>4, <1>5

\* How far the count is that a request works from, when those of B, wherever they
\* are, are taken not to have read it yet: they may still be abandoned.
Level(r, B) ==
    IF req[r].pc = "miss" /\ r \notin B THEN req[r].fails
    ELSE IF account.locked THEN MaxFailed ELSE account.fails
AtLeast(w, B) == {r \in Requests : Level(r, B) >= w}
Counts(B) == [w \in 0..MaxFailed |-> Cardinality(AtLeast(w, B))]

GuessInv == \A B \in SUBSET Requests : \E s : Covers(s, Counts(B)) /\ guesses <= s[0]

LEMMA LevelType ==
    ASSUME TypeInv, NEW r \in Requests, NEW B
    PROVE  /\ Level(r, B) \in 0..MaxFailed
           /\ req[r].pc = "miss" => req[r].fails \in 0..(MaxFailed - 1)
  <1>1. req[r] \in ReqState /\ account \in AccountRow
    BY DEF TypeInv, TypeOK
  <1>2. req[r].pc = "miss" => req[r].fails \in 0..(MaxFailed - 1)
    BY <1>1, ReqKinds DEF Guessing
  <1>3. account.fails \in 0..(MaxFailed - 1)
    BY <1>1 DEF AccountRow
  <1>4. \A n \in 0..(MaxFailed - 1) : n \in 0..MaxFailed
    BY AccountsAssumption
  <1>5. MaxFailed \in 0..MaxFailed
    BY AccountsAssumption
  <1> QED
    BY <1>2, <1>3, <1>4, <1>5 DEF Level

CountsOK(B) ==
    /\ Counts(B) \in [0..MaxFailed -> Nat]
    /\ \A w \in 0..MaxFailed : /\ IsFiniteSet(AtLeast(w, B))
                               /\ Counts(B)[w] = Cardinality(AtLeast(w, B))
    /\ \A w \in 1..MaxFailed : Counts(B)[w] <= Counts(B)[w - 1]
    /\ Counts(B)[0] <= Cardinality(Requests)
AllCountsOK == \A B \in SUBSET Requests : CountsOK(B)

LEMMA CountsType == TypeInv => AllCountsOK
  <1> SUFFICES ASSUME TypeInv, NEW B \in SUBSET Requests
               PROVE  CountsOK(B)
    BY DEF AllCountsOK
  <1>1. \A w : AtLeast(w, B) \subseteq Requests
    BY DEF AtLeast
  <1>2. \A w : /\ IsFiniteSet(AtLeast(w, B)) /\ Cardinality(AtLeast(w, B)) \in Nat
               /\ Cardinality(AtLeast(w, B)) <= Cardinality(Requests)
    BY <1>1, FS_Subset, FS_CardinalityType, AccountsAssumption
  <1>3. ASSUME NEW w \in 1..MaxFailed
        PROVE  Counts(B)[w] <= Counts(B)[w - 1]
    <2>1. w \in 0..MaxFailed /\ w - 1 \in 0..MaxFailed
      BY AccountsAssumption
    <2>2. \A n \in 0..MaxFailed : n >= w => n >= w - 1
      BY <2>1
    <2>3. AtLeast(w, B) \subseteq AtLeast(w - 1, B)
      BY <2>2, LevelType DEF AtLeast
    <2>4. Cardinality(AtLeast(w, B)) <= Cardinality(AtLeast(w - 1, B))
      BY <1>2, <2>3, FS_Subset
    <2> QED
      BY <2>1, <2>4 DEF Counts
  <1>4. 0 \in 0..MaxFailed
    BY AccountsAssumption
  <1> QED
    BY <1>2, <1>3, <1>4 DEF Counts, CountsOK

LEMMA CountsTypeNext == TypeInv' => AllCountsOK'
  BY CountsType, PTL

\* A step after which every request still works from the count it worked from.
LEMMA GuessFrame ==
    ASSUME GuessInv, guesses' = guesses,
           \A B \in SUBSET Requests : \E C \in SUBSET Requests :
              \A r \in Requests : Level(r, B)' = Level(r, C)
    PROVE  GuessInv'
  <1> SUFFICES ASSUME NEW B \in SUBSET Requests
               PROVE  \E s : Covers(s, Counts(B)') /\ guesses' <= s[0]
    BY DEF GuessInv
  <1>1. PICK C \in SUBSET Requests : \A r \in Requests : Level(r, B)' = Level(r, C)
    OBVIOUS
  <1>2. \A w : AtLeast(w, B)' = AtLeast(w, C)
    BY <1>1 DEF AtLeast
  <1>3. Counts(B)' = Counts(C)
    BY <1>2 DEF Counts
  <1> QED
    BY <1>3 DEF GuessInv

\* Nothing to bound where the guesses are forgotten.
NoGuesses == guesses = 0
LEMMA GuessReset == TypeInv /\ NoGuesses => GuessInv
  <1> SUFFICES ASSUME TypeInv, guesses = 0, NEW B \in SUBSET Requests
               PROVE  \E s : Covers(s, Counts(B)) /\ guesses <= s[0]
    BY DEF GuessInv, NoGuesses
  <1> DEFINE s == [w \in 0..MaxFailed |-> 0]
             count == Counts(B)
  <1>0. MaxFailed \in Nat
    BY AccountsAssumption
  <1>1. count \in [0..MaxFailed -> Nat]
    BY CountsType DEF AllCountsOK, CountsOK
  <1> HIDE DEF count
  <1>2. ASSUME NEW w \in 1..MaxFailed
        PROVE  s[w - 1] <= s[w] + Gain(count[w], w)
    <2>1. w \in 0..MaxFailed /\ w - 1 \in 0..MaxFailed
      BY <1>0
    <2>2. count[w] \in Nat
      BY <1>1, <2>1
    <2>3. Gain(count[w], w) \in Nat
      BY <2>2, GainType
    <2> QED
      BY <2>1, <2>3
  <1>3. s \in [0..MaxFailed -> Nat] /\ s[MaxFailed] = 0 /\ s[0] = 0
    BY <1>0
  <1> HIDE DEF s
  <1>4. Covers(s, count) /\ guesses <= s[0]
    <2>1. Covers(s, count)
      BY <1>2, <1>3 DEF Covers
    <2> QED
      BY <1>3, <2>1
  <1> QED
    BY <1>4 DEF count

LEMMA GuessResetNext == TypeInv' /\ NoGuesses' => GuessInv'
  BY GuessReset, PTL

LEMMA GuessMiss ==
    ASSUME TypeInv, TypeInv', GuessInv, NEW r \in Requests, LoginMiss(r)
    PROVE  GuessInv'
  <1> SUFFICES ASSUME NEW B \in SUBSET Requests
               PROVE  \E s : Covers(s, Counts(B)') /\ guesses' <= s[0]
    BY DEF GuessInv
  <1>a. /\ req[r].pc = "miss" /\ req[r].fails \in 0..(MaxFailed - 1)
        /\ MaxFailed \in Nat /\ guesses \in Nat /\ guesses' = guesses + 1
    <2>1. req[r].pc = "miss" /\ req[r].fails \in 0..(MaxFailed - 1)
      BY LevelType DEF LoginMiss
    <2> QED
      BY <2>1, AccountsAssumption DEF LoginMiss, TypeInv, TypeOK
  <1>b. req[r].fails + 1 \in 1..MaxFailed
    BY <1>a
  <1>c. PICK t \in 1..MaxFailed : t = req[r].fails + 1
    BY <1>b
  <1>d. PICK C \in SUBSET Requests : C = B \ {r}
    OBVIOUS
  <1>0. t \in 0..MaxFailed /\ t >= t /\ ~(req[r].fails >= t)
    BY <1>a, <1>c
  <1>1. /\ req'[r] = Idle /\ Idle.pc = "idle"
        /\ \A q \in Requests : q # r => req'[q] = req[q]
    BY DEF LoginMiss, Goto, TypeInv, TypeOK, Idle
  <1>2. (IF account'.locked THEN MaxFailed ELSE account'.fails) = t
    <2>1. /\ account' = [account EXCEPT !.fails = IF t >= MaxFailed THEN 0 ELSE t,
                                        !.locked = t >= MaxFailed]
          /\ account \in AccountRow
      BY <1>c DEF LoginMiss, TypeInv, TypeOK
    <2>2. /\ account'.fails = IF t >= MaxFailed THEN 0 ELSE t
          /\ account'.locked <=> t >= MaxFailed
      BY <2>1 DEF AccountRow
    <2>3. CASE t >= MaxFailed
      <3>1. account'.locked /\ t = MaxFailed
        BY <1>a, <1>c, <2>2, <2>3
      <3> QED
        BY <3>1
    <2>4. CASE ~(t >= MaxFailed)
      <3>1. ~account'.locked /\ account'.fails = t
        BY <2>2, <2>4
      <3> QED
        BY <3>1
    <2> QED
      BY <2>3, <2>4
  <1>3. \A q \in Requests : Level(q, B)' = Level(q, C) \/ Level(q, B)' = t
    BY <1>1, <1>2, <1>d DEF Level
  <1>4. Level(r, C) = req[r].fails /\ Level(r, B)' = t
    BY <1>a, <1>1, <1>2, <1>d DEF Level
  <1>5. \A q \in Requests : Level(q, C) \in 0..MaxFailed
    BY LevelType
  <1>6. ASSUME NEW w \in 1..t PROVE AtLeast(w, C) \subseteq AtLeast(w, B)'
    BY <1>3, <1>5, <1>6 DEF AtLeast
  <1>7. r \in AtLeast(t, B)' /\ r \notin AtLeast(t, C)
    BY <1>0, <1>4 DEF AtLeast
  <1> DEFINE count == Counts(C)
             after == Counts(B)'
  <1>8. /\ count \in [0..MaxFailed -> Nat] /\ after \in [0..MaxFailed -> Nat]
        /\ \A w \in 1..MaxFailed : count[w] <= count[w - 1]
        /\ \A w \in 0..MaxFailed :
              /\ IsFiniteSet(AtLeast(w, C)) /\ IsFiniteSet(AtLeast(w, B)')
              /\ count[w] = Cardinality(AtLeast(w, C))
              /\ after[w] = Cardinality(AtLeast(w, B)')
    <2>1. CountsOK(C) /\ CountsOK(B)'
      BY CountsType, CountsTypeNext DEF AllCountsOK
    <2> QED
      BY <2>1 DEF CountsOK
  <1>9. ASSUME NEW w \in 1..t PROVE count[w] <= after[w]
    <2>1. w \in 0..MaxFailed
      BY <1>a
    <2> QED
      BY <1>6, <1>8, <2>1, FS_Subset
  <1>10. count[t] + 1 <= after[t]
    <2> HIDE DEF count, after
    <2>1. t \in 1..t
      OBVIOUS
    <2>2. AtLeast(t, C) \cup {r} \subseteq AtLeast(t, B)'
      BY <1>6, <1>7, <2>1
    <2>3. /\ IsFiniteSet(AtLeast(t, C)) /\ IsFiniteSet(AtLeast(t, B)')
          /\ count[t] = Cardinality(AtLeast(t, C))
          /\ after[t] = Cardinality(AtLeast(t, B)')
      BY <1>0, <1>8
    <2>4. Cardinality(AtLeast(t, C) \cup {r}) = count[t] + 1
      BY <1>7, <2>3, FS_AddElement
    <2>5. Cardinality(AtLeast(t, C) \cup {r}) <= after[t]
      BY <2>2, <2>3, FS_Subset
    <2> QED
      BY <2>4, <2>5
  <1>11. PICK s : Covers(s, count) /\ guesses <= s[0]
    BY DEF GuessInv
  <1> HIDE DEF count, after
  <1>12. \E z : Covers(z, after) /\ guesses + 1 <= z[0]
    BY <1>a, <1>8, <1>9, <1>10, <1>11, CoverMiss
  <1> QED
    BY <1>a, <1>12 DEF after

LEMMA GuessStep ==
    ASSUME TypeInv, GuessInv, [Next]_vars
    PROVE  GuessInv'
  <1>0. TypeInv' /\ TypeOK
    BY TypeCorrectStep DEF TypeInv
  <1>1. ASSUME guesses' = guesses, account'.locked = account.locked,
               account'.fails = account.fails,
               \A r \in Requests : req'[r] = req[r] \/ req'[r].pc # "miss"
        PROVE  GuessInv'
    <2>1. ASSUME NEW B \in SUBSET Requests
          PROVE  \E C \in SUBSET Requests :
                    \A r \in Requests : Level(r, B)' = Level(r, C)
      <3> DEFINE C == B \cup {r \in Requests : req'[r].pc # "miss"}
      <3>1. \A r \in Requests : Level(r, B)' = Level(r, C)
        BY <1>1 DEF Level
      <3>2. C \in SUBSET Requests
        OBVIOUS
      <3> QED
        BY <3>1, <3>2
    <2> QED
      BY <1>1, <2>1, GuessFrame
  <1>2. ASSUME NEW r \in Requests, LoginRead(r) PROVE GuessInv'
    <2>1. /\ account' = account /\ guesses' = guesses /\ ~account.locked
          /\ req[r].pc = "idle"
      BY <1>2 DEF LoginRead, Idle
    <2>2. /\ req'[r].pc = "miss" => req'[r].fails = account.fails
          /\ \A q \in Requests : q # r => req'[q] = req[q]
      BY <1>0, <1>2 DEF LoginRead, Goto, TypeOK
    <2>3. \A B \in SUBSET Requests : \A q \in Requests : Level(q, B)' = Level(q, B)
      BY <2>1, <2>2 DEF Level
    <2> QED
      BY <2>1, <2>3, GuessFrame
  <1>3. ASSUME guesses' = 0 PROVE GuessInv'
    BY <1>0, <1>3, GuessResetNext DEF NoGuesses
  <1>4. ASSUME NEW r \in Requests, IssueSession(r) PROVE GuessInv'
    <2>1. guesses' = guesses /\ account' = account
      BY <1>4 DEF IssueSession
    <2>2. \A q \in Requests : req'[q] = req[q] \/ req'[q].pc # "miss"
      BY <1>0, <1>4 DEF IssueSession, Goto, Idle, TypeOK
    <2> QED
      BY <1>1, <2>1, <2>2
  <1>5. ASSUME NEW r \in Requests, Login(r) PROVE GuessInv'
    <2>1. LoginAdmit(r) => guesses' = 0
      BY DEF LoginAdmit
    <2> QED
      BY <1>0, <1>2, <1>3, <1>4, <1>5, <2>1, GuessMiss DEF Login
  <1>6. ASSUME NEW r \in Requests, Rotate(r) PROVE GuessInv'
    <2>1. guesses' = guesses /\ account' = account
      BY <1>6 DEF Rotate, RotateRead, RotateLoad, RotatePersist, RotateReplace,
         RevokeFamily
    <2>2. \A q \in Requests : req'[q] = req[q] \/ req'[q].pc # "miss"
      BY <1>0, <1>6 DEF Rotate, RotateRead, RotateLoad, RotatePersist, RotateReplace,
         RevokeFamily, Goto, Idle, TypeOK
    <2> QED
      BY <1>1, <2>1, <2>2
  <1>7. ASSUME NEW r \in Requests, Password(r), ~ResetCommit(r) PROVE GuessInv'
    <2>1. /\ guesses' = guesses /\ account'.locked = account.locked
          /\ account'.fails = account.fails
      BY <1>0, <1>7 DEF Password, ForgotExpire, ForgotCreate, ResetRead, ChangeRead,
         ChangeCommit, RevokeAll, TypeOK, AccountRow
    <2>2. \A q \in Requests : req'[q] = req[q] \/ req'[q].pc # "miss"
      BY <1>0, <1>7 DEF Password, ForgotExpire, ForgotCreate, ResetRead, ChangeRead,
         ChangeCommit, RevokeAll, Goto, Idle, TypeOK
    <2> QED
      BY <1>1, <2>1, <2>2
  <1>8. ASSUME NEW r \in Requests, Abandon(r) PROVE GuessInv'
    <2>1. guesses' = guesses /\ account' = account
      BY <1>8 DEF Abandon
    <2>2. \A q \in Requests : req'[q] = req[q] \/ req'[q].pc # "miss"
      BY <1>0, <1>8 DEF Abandon, Goto, Idle, TypeOK
    <2> QED
      BY <1>1, <2>1, <2>2
  <1>9. CASE (\E r \in Requests : ResetCommit(r)) \/ LockLapses
    BY <1>3, <1>9 DEF ResetCommit, LockLapses
  <1>10. CASE \/ \E k \in Tokens : SignOut(k)
              \/ \E status \in StaffStatuses : SetStatus(status)
              \/ UNCHANGED vars
    <2>1. /\ guesses' = guesses /\ account'.locked = account.locked
          /\ account'.fails = account.fails /\ req' = req
      BY <1>0, <1>10 DEF SignOut, SetStatus, vars, TypeOK, AccountRow
    <2> QED
      BY <1>1, <2>1
  <1> QED
    BY <1>5, <1>6, <1>7, <1>8, <1>9, <1>10 DEF Next

\* However many guesses overlap, and however they undo each other's count and
\* lock, between two openings of the account there are fewer than the ways to
\* choose MAX_FAILED_LOGINS of the requests and MAX_FAILED_LOGINS.
THEOREM LockBoundsGuesses == Spec => []GuessesBounded
  <1>1. Init => GuessInv
    BY InitTypeInv, GuessReset DEF Init, NoGuesses
  <1>2. TypeInv /\ GuessInv /\ [Next]_vars => GuessInv'
    BY GuessStep
  <1>3. TypeInv /\ GuessInv => GuessesBounded
    <2> SUFFICES ASSUME TypeInv, GuessInv PROVE GuessesBounded
      OBVIOUS
    <2> DEFINE count == Counts({})
    <2>1. PICK s : Covers(s, count) /\ guesses <= s[0]
      BY DEF GuessInv
    <2>2. /\ count \in [0..MaxFailed -> Nat]
          /\ \A w \in 1..MaxFailed : count[w] <= count[w - 1]
          /\ count[0] <= Cardinality(Requests)
      BY CountsType DEF AllCountsOK, CountsOK
    <2> HIDE DEF count
    <2>3. 0 \in 0..MaxFailed /\ MaxFailed \in Nat /\ MaxFailed - 0 = MaxFailed
      BY AccountsAssumption
    <2>4. s[0] < Ways(count[0], MaxFailed)
      BY <2>1, <2>2, <2>3, CoverBound
    <2>5. count[0] \in Nat /\ Cardinality(Requests) \in Nat
      BY <2>2, <2>3, FS_CardinalityType, AccountsAssumption
    <2>6. /\ Ways(count[0], MaxFailed) <= Ways(Cardinality(Requests), MaxFailed)
          /\ Ways(count[0], MaxFailed) \in Nat
          /\ Ways(Cardinality(Requests), MaxFailed) \in Nat
      BY <2>2, <2>3, <2>5, WaysGrow, ChoicesFinite
    <2>7. s[0] \in Nat /\ guesses \in Nat
      BY <2>1, <2>3 DEF Covers, TypeInv, TypeOK
    <2> QED
      BY <2>1, <2>4, <2>6, <2>7 DEF GuessesBounded
  <1> QED
    BY <1>1, <1>2, <1>3, TypeCorrect, PTL DEF Spec
=============================================================================
