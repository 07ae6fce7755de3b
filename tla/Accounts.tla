------------------------------ MODULE Accounts ------------------------------
(***************************************************************************)
(* One account: the sessions TokensService keeps for it, and how           *)
(* AuthService opens, refreshes and ends them: login, refresh, logout,     *)
(* revokeSession, forgotPassword, resetPassword and changePassword, with   *)
(* AdminUsersService changing the account's status.                        *)
(*                                                                         *)
(* Each awaited statement of a request is a step, and what the request     *)
(* read before it is kept in its record.  A request that is refused        *)
(* changes nothing and is not a step.  An expired token or link is always  *)
(* refused, so it is one that nobody presents again.                       *)
(***************************************************************************)
EXTENDS Integers, FiniteSets

CONSTANTS
    Requests,      \* requests about the account that may be in flight at once
    Traffic,       \* the mixes of requests an account may meet: sets of Kinds
    StaffStatuses, \* the statuses that staff give an account
    MaxFailed,     \* MAX_FAILED_LOGINS
    MaxTokens,     \* bound: refresh tokens issued
    MaxLinks,      \* bound: reset links issued
    MaxPasswords   \* bound: passwords set

Kinds == {"login", "guess", "refresh", "forgot", "reset", "change"}
UserStatuses == {"PENDING_VERIFICATION", "ACTIVE", "SUSPENDED", "DISABLED"}
Barred == {"SUSPENDED", "DISABLED"}

ASSUME AccountsAssumption ==
    /\ IsFiniteSet(Requests)
    /\ Traffic \subseteq SUBSET Kinds
    /\ StaffStatuses \subseteq UserStatuses
    /\ MaxFailed \in Nat \ {0}
    /\ MaxTokens \in Nat
    /\ MaxLinks \in Nat \ {0}
    /\ MaxPasswords \in Nat \ {0}

VARIABLES
    traffic,  \* the kinds of requests that are sent; never changes
    account,  \* the users row
    token,    \* refresh_tokens, numbered in the order they were created
    issued,   \* how many there are
    link,     \* password_reset_tokens, in the order they were created
    born,     \* born[f]: the password under which session f was opened
    loose,    \* sessions that a password change ran past
    forked,   \* sessions whose rotations overlapped or died half way
    guesses,  \* wrong passwords since the account was last opened up
    req       \* what each request read and where it stands

vars == <<traffic, account, token, issued, link, born, loose, forked, guesses, req>>

NoToken == 0
Undisclosed == 0   \* the random password of an account made for an applicant

Tokens == 1..MaxTokens
Links == 1..MaxLinks
LinkStates == {"none", "unused", "used"}

AccountRow == [status: UserStatuses, password: 0..MaxPasswords,
               fails: 0..(MaxFailed - 1), locked: BOOLEAN]

\* A token names its session (the family) by that session's first token.
TokenRow == [family: 0..MaxTokens, revoked: BOOLEAN, next: 0..MaxTokens]

Idle == [pc |-> "idle"]
Guessing == [pc: {"miss"}, fails: 0..(MaxFailed - 1)]
Opening == [pc: {"admit", "open"}, password: Nat]
Rotating == [pc: {"load", "persist"}, token: Tokens]
Replacing == [pc: {"replace"}, token: Tokens, new: Tokens]
Replayed == [pc: {"revokeFamily"}, family: Tokens]
Linking == [pc: {"link"}]
Resetting == [pc: {"reset"}, link: Links, activate: BOOLEAN]
Changing == [pc: {"change", "revokeAll"}, keep: {NoToken} \cup Tokens]
ReqState == {Idle} \cup Guessing \cup Opening \cup Rotating \cup Replacing
            \cup Replayed \cup Linking \cup Resetting \cup Changing

\* A customer who registered, or one whom an approved application gave an
\* account and an invitation link.
Init ==
    /\ traffic \in Traffic
    /\ \/ /\ account = [status |-> "ACTIVE", password |-> 1,
                        fails |-> 0, locked |-> FALSE]
          /\ link = [l \in Links |-> "none"]
       \/ /\ account = [status |-> "PENDING_VERIFICATION",
                        password |-> Undisclosed, fails |-> 0, locked |-> FALSE]
          /\ link = [l \in Links |-> IF l = 1 THEN "unused" ELSE "none"]
    /\ token = [k \in Tokens |-> [family |-> 0, revoked |-> FALSE, next |-> NoToken]]
    /\ issued = 0
    /\ born = [f \in Tokens |-> 0]
    /\ loose = {}
    /\ forked = {}
    /\ guesses = 0
    /\ req = [r \in Requests |-> Idle]

-----------------------------------------------------------------------------
Live(k) == k <= issued /\ ~token[k].revoked
OfSession(f) == {k \in 1..issued : token[k].family = f}

\* Sessions that a request is about to give another token.
InFlight(r) == IF req[r].pc \in {"load", "persist"}
               THEN {token[req[r].token].family} ELSE {}
BeingRotated == UNION {InFlight(r) : r \in Requests}

\* updateMany({... revokedAt: null}): the rows in ks are revoked.
Revoke(ks) == [k \in Tokens |-> IF k \in ks THEN [token[k] EXCEPT !.revoked = TRUE]
                                ELSE token[k]]

Sessions(ks) == {token[k].family : k \in ks}
LiveTokens == {k \in 1..issued : ~token[k].revoked}

Goto(r, state) == req' = [req EXCEPT ![r] = state]

-----------------------------------------------------------------------------
(* login *)

\* The account is found and not locked, and the password compared.
LoginRead(r) ==
    /\ req[r] = Idle
    /\ ~account.locked
    /\ \/ /\ "guess" \in traffic
          /\ Goto(r, [pc |-> "miss", fails |-> account.fails])
       \/ /\ "login" \in traffic
          /\ account.password # Undisclosed
          /\ account.status \notin Barred
          /\ Goto(r, [pc |-> "admit", password |-> account.password])
    /\ UNCHANGED <<traffic, account, token, issued, link, born, loose, forked, guesses>>

\* Defect: the count starts again without a lock.
LoginMissNoLock(r) ==
    /\ req[r].pc = "miss"
    /\ LET attempts == req[r].fails + 1
       IN  account' = [account EXCEPT !.fails = attempts % MaxFailed]
    /\ guesses' = guesses + 1
    /\ Goto(r, Idle)
    /\ UNCHANGED <<traffic, token, issued, link, born, loose, forked>>

\* Defect: locking leaves the count where it is.
LoginMissKeepsCount(r) ==
    /\ req[r].pc = "miss"
    /\ LET attempts == req[r].fails + 1
       IN  account' = [account EXCEPT !.fails = attempts,
                                      !.locked = attempts >= MaxFailed]
    /\ guesses' = guesses + 1
    /\ Goto(r, Idle)
    /\ UNCHANGED <<traffic, token, issued, link, born, loose, forked>>

\* registerFailedLogin writes the count it read plus one, and the lock with it.
LoginMiss(r) ==
    /\ req[r].pc = "miss"
    /\ LET attempts == req[r].fails + 1
           lock == attempts >= MaxFailed
       IN  account' = [account EXCEPT !.fails = IF lock THEN 0 ELSE attempts,
                                      !.locked = lock]
    /\ guesses' = guesses + 1
    /\ Goto(r, Idle)
    /\ UNCHANGED <<traffic, token, issued, link, born, loose, forked>>

LoginAdmit(r) ==
    /\ req[r].pc = "admit"
    /\ account' = [account EXCEPT !.fails = 0, !.locked = FALSE]
    /\ guesses' = 0
    /\ Goto(r, [pc |-> "open", password |-> req[r].password])
    /\ UNCHANGED <<traffic, token, issued, link, born, loose, forked>>

\* issueSession: the first token of a new family.
IssueSession(r) ==
    /\ req[r].pc = "open"
    /\ issued < MaxTokens
    /\ issued' = issued + 1
    /\ token' = [token EXCEPT ![issued + 1].family = issued + 1]
    /\ born' = [born EXCEPT ![issued + 1] = req[r].password]
    /\ loose' = IF req[r].password = account.password
                THEN loose ELSE loose \cup {issued + 1}
    /\ Goto(r, Idle)
    /\ UNCHANGED <<traffic, account, link, forked, guesses>>

LockLapses ==
    /\ account.locked
    /\ account' = [account EXCEPT !.locked = FALSE]
    /\ guesses' = 0
    /\ UNCHANGED <<traffic, token, issued, link, born, loose, forked, req>>

-----------------------------------------------------------------------------
(* refresh *)

\* Defect: only a token that was exchanged counts as replayed.
RetiredByExchange(k) == token[k].next # NoToken

Retired(k) == token[k].revoked \/ token[k].next # NoToken

\* rotate looks the presented token up; one that was retired ends its family.
RotateRead(r, k) ==
    /\ "refresh" \in traffic
    /\ req[r] = Idle
    /\ k <= issued
    /\ IF Retired(k)
       THEN /\ Goto(r, [pc |-> "revokeFamily", family |-> token[k].family])
            /\ forked' = forked
       ELSE /\ Goto(r, [pc |-> "load", token |-> k])
            /\ forked' = IF \E q \in Requests :
                                /\ req[q].pc \in {"load", "persist", "replace"}
                                /\ token[req[q].token].family = token[k].family
                         THEN forked \cup {token[k].family} ELSE forked
    /\ UNCHANGED <<traffic, account, token, issued, link, born, loose, guesses>>

\* loadActiveUser
RotateLoad(r) ==
    /\ req[r].pc = "load"
    /\ Goto(r, IF account.status \in Barred
               THEN [pc |-> "revokeFamily", family |-> token[req[r].token].family]
               ELSE [pc |-> "persist", token |-> req[r].token])
    /\ UNCHANGED <<traffic, account, token, issued, link, born, loose, forked, guesses>>

\* persist creates the successor, and then retires the token it replaces.
RotatePersist(r) ==
    /\ req[r].pc = "persist"
    /\ issued < MaxTokens
    /\ issued' = issued + 1
    /\ token' = [token EXCEPT ![issued + 1].family = token[req[r].token].family]
    /\ Goto(r, [pc |-> "replace", token |-> req[r].token, new |-> issued + 1])
    /\ UNCHANGED <<traffic, account, link, born, loose, forked, guesses>>

\* Defect: the exchanged token is left as it was.
RotateReplaceNot(r) ==
    /\ req[r].pc = "replace"
    /\ Goto(r, Idle)
    /\ UNCHANGED <<traffic, account, token, issued, link, born, loose, forked, guesses>>

RotateReplace(r) ==
    /\ req[r].pc = "replace"
    /\ token' = [token EXCEPT ![req[r].token].revoked = TRUE,
                              ![req[r].token].next = req[r].new]
    /\ Goto(r, Idle)
    /\ UNCHANGED <<traffic, account, issued, link, born, loose, forked, guesses>>

RevokeFamily(r) ==
    /\ req[r].pc = "revokeFamily"
    /\ token' = Revoke(OfSession(req[r].family))
    /\ Goto(r, Idle)
    /\ UNCHANGED <<traffic, account, issued, link, born, loose, forked, guesses>>

\* logout with its cookie, or DELETE sessions/:id: one token, not its family.
SignOut(k) ==
    /\ Live(k)
    /\ token' = Revoke({k})
    /\ UNCHANGED <<traffic, account, issued, link, born, loose, forked, guesses, req>>

-----------------------------------------------------------------------------
(* Passwords *)

Unused(l) == link[l] = "unused"

\* forgotPassword retires the links there are before it creates one.
ForgotExpire(r) ==
    /\ "forgot" \in traffic
    /\ req[r] = Idle
    /\ link' = [l \in Links |-> IF Unused(l) THEN "used" ELSE link[l]]
    /\ Goto(r, [pc |-> "link"])
    /\ UNCHANGED <<traffic, account, token, issued, born, loose, forked, guesses>>

ForgotCreate(r) ==
    /\ req[r].pc = "link"
    /\ \E l \in Links :
          /\ link[l] = "none"
          /\ \A m \in Links : m < l => link[m] # "none"
          /\ link' = [link EXCEPT ![l] = "unused"]
    /\ Goto(r, Idle)
    /\ UNCHANGED <<traffic, account, token, issued, born, loose, forked, guesses>>

\* resetPassword reads the link with the status of its account.
ResetRead(r, l) ==
    /\ "reset" \in traffic
    /\ req[r] = Idle
    /\ Unused(l)
    /\ Goto(r, [pc |-> "reset", link |-> l,
                activate |-> account.status = "PENDING_VERIFICATION"])
    /\ UNCHANGED <<traffic, account, token, issued, link, born, loose, forked, guesses>>

\* One transaction; the link may have been used or retired since.
ResetCommit(r) ==
    /\ req[r].pc = "reset"
    /\ account.password < MaxPasswords
    /\ account' = [account EXCEPT
                      !.password = @ + 1, !.fails = 0, !.locked = FALSE,
                      !.status = IF req[r].activate THEN "ACTIVE" ELSE @]
    /\ link' = [link EXCEPT ![req[r].link] = "used"]
    /\ guesses' = 0
    /\ Goto(r, [pc |-> "revokeAll", keep |-> NoToken])
    /\ UNCHANGED <<traffic, token, issued, born, loose, forked>>

\* changePassword compares the current password; keep is the cookie's token.
ChangeRead(r, keep) ==
    /\ "change" \in traffic
    /\ req[r] = Idle
    /\ account.password # Undisclosed
    /\ keep <= issued
    /\ Goto(r, [pc |-> "change", keep |-> keep])
    /\ UNCHANGED <<traffic, account, token, issued, link, born, loose, forked, guesses>>

ChangeCommit(r) ==
    /\ req[r].pc = "change"
    /\ account.password < MaxPasswords
    /\ account' = [account EXCEPT !.password = @ + 1]
    /\ Goto(r, [pc |-> "revokeAll", keep |-> req[r].keep])
    /\ UNCHANGED <<traffic, token, issued, link, born, loose, forked, guesses>>

\* Defect: only the rows that were never exchanged.
RevokeAllUnexchanged(r) ==
    /\ req[r].pc = "revokeAll"
    /\ token' = Revoke({k \in 1..issued : token[k].family = k} \ {req[r].keep})
    /\ loose' = loose \cup BeingRotated \cup Sessions({req[r].keep} \cap Tokens)
    /\ Goto(r, Idle)
    /\ UNCHANGED <<traffic, account, issued, link, born, forked, guesses>>

\* revokeAllForUser, but for the device that made the change.
RevokeAll(r) ==
    /\ req[r].pc = "revokeAll"
    /\ token' = Revoke(1..issued \ {req[r].keep})
    /\ loose' = loose \cup BeingRotated \cup Sessions({req[r].keep} \cap Tokens)
    /\ Goto(r, Idle)
    /\ UNCHANGED <<traffic, account, issued, link, born, forked, guesses>>

-----------------------------------------------------------------------------
(* Staff, and failures *)

\* updateStaff, or its effect on a customer's user row.
SetStatus(status) ==
    /\ status # account.status
    /\ account' = [account EXCEPT !.status = status]
    /\ UNCHANGED <<traffic, token, issued, link, born, loose, forked, guesses, req>>

\* A process dies or a statement throws, and what it committed stays.  So does
\* the create of a token signed within the second of its predecessor, which has
\* the same text: tokenHash is unique.
Abandon(r) ==
    /\ req[r] # Idle
    /\ forked' = IF req[r].pc = "replace"
                 THEN forked \cup {token[req[r].token].family} ELSE forked
    /\ loose' = IF req[r].pc = "revokeAll"
                THEN loose \cup Sessions(LiveTokens) \cup BeingRotated ELSE loose
    /\ Goto(r, Idle)
    /\ UNCHANGED <<traffic, account, token, issued, link, born, guesses>>

Login(r) == LoginRead(r) \/ LoginMiss(r) \/ LoginAdmit(r) \/ IssueSession(r)
Rotate(r) == \/ \E k \in Tokens : RotateRead(r, k)
             \/ RotateLoad(r) \/ RotatePersist(r) \/ RotateReplace(r)
             \/ RevokeFamily(r)
Password(r) == \/ ForgotExpire(r) \/ ForgotCreate(r)
               \/ \E l \in Links : ResetRead(r, l)
               \/ \E k \in {NoToken} \cup Tokens : ChangeRead(r, k)
               \/ ResetCommit(r) \/ ChangeCommit(r) \/ RevokeAll(r)

Next ==
    \/ \E r \in Requests : Login(r) \/ Rotate(r) \/ Password(r) \/ Abandon(r)
    \/ \E k \in Tokens : SignOut(k)
    \/ LockLapses
    \/ \E status \in StaffStatuses : SetStatus(status)

Spec == Init /\ [][Next]_vars

-----------------------------------------------------------------------------
(* Properties *)

TypeOK ==
    /\ traffic \in SUBSET Kinds
    /\ account \in AccountRow
    /\ token \in [Tokens -> TokenRow]
    /\ issued \in 0..MaxTokens
    /\ link \in [Links -> LinkStates]
    /\ born \in [Tokens -> Nat]
    /\ loose \in SUBSET Nat
    /\ forked \in SUBSET Nat
    /\ guesses \in Nat
    /\ req \in [Requests -> ReqState]

\* A session with no live token and no rotation under way.
Ended(f) ==
    /\ f <= issued /\ token[f].family = f
    /\ OfSession(f) \cap LiveTokens = {}
    /\ f \notin BeingRotated

\* Signed out, replayed, revoked or reset: a session that has ended stays ended,
\* whichever of its old tokens is presented again and however it forked.
EndedStaysEnded == [][\A f \in Tokens : Ended(f) => Ended(f)']_vars

\* "A password change invalidates every existing session": a live token belongs
\* to a session opened with the password of now, unless a change is about to
\* revoke it, kept it, died before it could, or met it being rotated or opened.
OldPasswordSessionsEnd ==
    \A k \in Tokens :
        Live(k) => \/ born[token[k].family] = account.password
                   \/ token[k].family \in loose
                   \/ \E r \in Requests : req[r].pc = "revokeAll"

\* Tokens that can be exchanged and are not being exchanged already.
Heads(f) == (OfSession(f) \cap LiveTokens)
            \ {req[r].token : r \in {q \in Requests : req[q].pc = "replace"}}

\* The replay check rests on a chain of tokens with one head: a session has a
\* second one only if two of its rotations overlapped or one died half way.
OneHead == \A f \in Tokens : f \notin forked => Cardinality(Heads(f)) <= 1

\* The number of ways to choose b of a + b.
Choices(a, b) == {chosen \in SUBSET (1..(a + b)) : Cardinality(chosen) = b}
Ways(a, b) == Cardinality(Choices(a, b))

\* MAX_FAILED_LOGINS against guesses that overlap, each of which may take the
\* count back and lift the lock: there are never more wrong guesses on a lock's
\* time than this (for one at a time, MAX_FAILED_LOGINS).
GuessesBounded == guesses < Ways(Cardinality(Requests), MaxFailed)
=============================================================================
