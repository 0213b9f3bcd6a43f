------------------------------ MODULE Accounts ------------------------------
(***************************************************************************)
(* One account: signing in with its lockout, the two tokens of a session,  *)
(* logging out, and everything that writes the users row: the              *)
(* administration, the owner, cmd/reset-password and the seed of every     *)
(* server start.  Sources: internal/service/auth.go, user.go,              *)
(* internal/repo/user.go, pkg/jwt.  Each database statement and each Redis *)
(* command is one action of the client whose call makes it.  What a token  *)
(* carries besides its account, the rules for a good password and the last *)
(* login are left out; the roles of a user are in Roles.                   *)
(***************************************************************************)
EXTENDS Integers, FiniteSets

CONSTANTS
    Clients,        \* callers, each with one call under way at a time
    Passwords,
    SeedPassword,   \* SEED_ADMIN_PASSWORD
    MaxAttempts,    \* loginFailMax
    AccessLife, RefreshLife,            \* of the tokens, in ticks
    MaxSessions, MaxCalls, MaxTicks, MaxFaults      \* bounds

Sessions == 1..MaxSessions

ASSUME AccountsAssumption ==
    /\ IsFiniteSet(Clients) /\ SeedPassword \in Passwords
    /\ MaxAttempts \in Nat \ {0}
    /\ AccessLife \in Nat \ {0} /\ RefreshLife \in Nat \ {0}
    /\ {MaxSessions, MaxCalls, MaxTicks, MaxFaults} \subseteq Nat

VARIABLES
    builtin,    \* the account is admin, with the id 1; never changes
    row,        \* its row of users: there or soft-deleted, status, password
    attempts,   \* login_attempts:<name>
    locked,     \* login_locked:<name>
    issued,     \* of each session, when its tokens were issued
    blacklist,  \* token:blacklist:<jti> of its access token: there until then
    pc, arg,    \* of each client: the step it is at, what it goes on with
    bounds,     \* calls, ticks and faults so far
    guesses,    \* history: wrong passwords since the count was cleared, or a lock ended
    lastSet,    \* history: the password set last
    out         \* history: sessions whose logout reached Redis

rowVars == <<row, lastSet>>
lockVars == <<attempts, locked, guesses>>
tokenVars == <<issued, blacklist, out>>
vars == <<builtin, rowVars, lockVars, tokenVars, pc, arg, bounds>>

NotYet == -1
clock == bounds.ticks
Nothing == [pw |-> SeedPassword, on |-> FALSE, tool |-> FALSE, session |-> 0, ttl |-> 0]

Init ==
    /\ builtin \in BOOLEAN
    /\ row = [there |-> FALSE, gone |-> FALSE, on |-> FALSE, pw |-> SeedPassword]
    /\ attempts = 0 /\ locked = FALSE
    /\ issued = [k \in Sessions |-> NotYet]
    /\ blacklist = [k \in Sessions |-> 0]
    /\ pc = [c \in Clients |-> "idle"]
    /\ arg = [c \in Clients |-> Nothing]
    /\ bounds = [calls |-> 0, ticks |-> 0, faults |-> 0]
    /\ guesses = 0 /\ lastSet = SeedPassword /\ out = {}

Found == row.there /\ ~row.gone
Spend(what) == bounds' = [bounds EXCEPT ![what] = @ + 1]

\* A Redis command of this call fails, and the call goes on.  One that writes may
\* have been carried out, when it is the answer that is lost.
RedisFails == bounds.faults < MaxFaults /\ Spend("faults")
RedisWorks == UNCHANGED bounds

\* A request arrives and its handler makes one call of the service.
Begin(c, step, a) ==
    /\ pc[c] = "idle" /\ bounds.calls < MaxCalls /\ Spend("calls")
    /\ pc' = [pc EXCEPT ![c] = step] /\ arg' = [arg EXCEPT ![c] = a]
    /\ UNCHANGED builtin

\* The next step of the call; the last one is "idle".
GoTo(c, step) ==
    /\ pc' = [pc EXCEPT ![c] = step]
    /\ arg' = [arg EXCEPT ![c] = IF step = "idle" THEN Nothing ELSE @]
    /\ UNCHANGED builtin

-----------------------------------------------------------------------------
(* Signing in.                                                             *)

Login(c, p) ==
    /\ Begin(c, "lock", [Nothing EXCEPT !.pw = p])
    /\ UNCHANGED <<rowVars, lockVars, tokenVars>>

\* An error of this look lets the caller pass.
CheckLock(c) ==
    /\ pc[c] = "lock"
    /\ \/ RedisWorks /\ GoTo(c, IF locked THEN "idle" ELSE "compare")
       \/ RedisFails /\ GoTo(c, "compare")
    /\ UNCHANGED <<rowVars, lockVars, tokenVars>>

\* GetByUsername and bcrypt.  No such user counts as a failure, an account that
\* is switched off does not.
CheckPassword(c) ==
    /\ pc[c] = "compare"
    /\ GoTo(c, CASE ~Found -> "count"
                 [] Found /\ ~row.on -> "idle"
                 [] Found /\ row.on /\ row.pw # arg[c].pw -> "count"
                 [] Found /\ row.on /\ row.pw = arg[c].pw -> "clear")
    /\ guesses' = (IF Found /\ row.on /\ row.pw # arg[c].pw THEN guesses + 1 ELSE guesses)
    /\ UNCHANGED <<rowVars, attempts, locked, tokenVars, bounds>>

\* Mutant: the count as it was before this failure is what is compared.
RecordFailureOffByOne(c) ==
    /\ pc[c] = "count"
    /\ \/ /\ RedisWorks /\ attempts' = attempts + 1
          /\ GoTo(c, IF attempts >= MaxAttempts THEN "setLock" ELSE "idle")
       \/ RedisFails /\ GoTo(c, "idle") /\ attempts' \in {attempts, attempts + 1}
    /\ UNCHANGED <<rowVars, locked, guesses, tokenVars>>

\* INCR and EXPIRE in one pipeline; the limit makes the lock, in a command of
\* its own.
RecordFailure(c) ==
    /\ pc[c] = "count"
    /\ \/ /\ RedisWorks /\ attempts' = attempts + 1
          /\ GoTo(c, IF attempts' >= MaxAttempts THEN "setLock" ELSE "idle")
       \/ RedisFails /\ GoTo(c, "idle") /\ attempts' \in {attempts, attempts + 1}
    /\ UNCHANGED <<rowVars, locked, guesses, tokenVars>>

SetLock(c) ==
    /\ pc[c] = "setLock" /\ GoTo(c, "idle")
    /\ (RedisWorks /\ locked' = TRUE) \/ (RedisFails /\ locked' \in {locked, TRUE})
    /\ UNCHANGED <<rowVars, attempts, guesses, tokenVars>>

\* The right password clears the count and leaves the lock.
ClearAttempts(c) ==
    /\ pc[c] = "clear" /\ GoTo(c, "issue")
    /\ \/ (RedisWorks \/ RedisFails) /\ attempts' = 0 /\ guesses' = 0
       \/ RedisFails /\ UNCHANGED <<attempts, guesses>>
    /\ UNCHANGED <<rowVars, locked, tokenVars>>

\* Five minutes after the last failure.
AttemptsExpire ==
    /\ attempts > 0 /\ attempts' = 0 /\ guesses' = 0
    /\ UNCHANGED <<builtin, rowVars, locked, tokenVars, pc, arg, bounds>>

\* Thirty minutes after the last SET, whatever the count is by then.
LockExpires ==
    /\ locked /\ locked' = FALSE /\ guesses' = 0
    /\ UNCHANGED <<builtin, rowVars, attempts, tokenVars, pc, arg, bounds>>

-----------------------------------------------------------------------------
(* Tokens.                                                                 *)

Live(k, life) == issued[k] # NotYet /\ clock < issued[k] + life
Revoked(k) == blacklist[k] > clock

\* JWTAuth of a request with the access token of k: a look at the blacklist that
\* Redis does not answer lets the token pass.
Accepted(k, answers) == Live(k, AccessLife) /\ (answers => ~Revoked(k))

\* Both tokens of a session, in the next free number.
Issue(c) ==
    /\ pc[c] = "issue"
    /\ \E k \in Sessions :
          /\ issued[k] = NotYet /\ \A j \in 1..(k - 1) : issued[j] # NotYet
          /\ issued' = [issued EXCEPT ![k] = clock]
    /\ GoTo(c, "idle")
    /\ UNCHANGED <<rowVars, lockVars, blacklist, out, bounds>>

\* Parse looks at the blacklist only for a token with a jti: a refresh token has
\* none, so logging out leaves it alone and it renews as often as it likes.
Refresh(c, k) ==
    /\ Live(k, RefreshLife)
    /\ Begin(c, "renew", Nothing)
    /\ UNCHANGED <<rowVars, lockVars, tokenVars>>

ReadForRefresh(c) ==
    /\ pc[c] = "renew"
    /\ GoTo(c, IF Found /\ row.on THEN "issue" ELSE "idle")
    /\ UNCHANGED <<rowVars, lockVars, tokenVars, bounds>>

\* Mutant: the time since the token was issued for the time it has left.
LogoutTtlSince(c, k) ==
    /\ \E answers \in BOOLEAN : Accepted(k, answers)
    /\ Begin(c, "blacklist", [Nothing EXCEPT !.session = k, !.ttl = clock - issued[k]])
    /\ UNCHANGED <<rowVars, lockVars, tokenVars>>

\* Parse, whose look at the blacklist is no fault of the bounds when it goes
\* unanswered, and the time the token has left.
Logout(c, k) ==
    /\ \E answers \in BOOLEAN : Accepted(k, answers)
    /\ Begin(c, "blacklist", [Nothing EXCEPT !.session = k, !.ttl = issued[k] + AccessLife - clock])
    /\ UNCHANGED <<rowVars, lockVars, tokenVars>>

\* An error is logged and the caller told that all is well.
StoreBlacklist(c) ==
    /\ pc[c] = "blacklist" /\ GoTo(c, "idle")
    /\ \/ /\ RedisWorks \/ RedisFails
          /\ blacklist' = [blacklist EXCEPT ![arg[c].session] = clock + arg[c].ttl]
          /\ out' = out \cup {arg[c].session}
       \/ RedisFails /\ UNCHANGED <<blacklist, out>>
    /\ UNCHANGED <<rowVars, lockVars, issued>>

Tick ==
    /\ clock < MaxTicks /\ Spend("ticks")
    /\ UNCHANGED <<builtin, rowVars, lockVars, tokenVars, pc, arg>>

-----------------------------------------------------------------------------
(* Writing the row.                                                        *)

\* Create looks for the name among the rows that are not deleted (the built-in
\* account is there before anyone can call) ...
Create(c, p) ==
    /\ ~builtin /\ ~Found
    /\ Begin(c, "insert", [Nothing EXCEPT !.pw = p])
    /\ UNCHANGED <<rowVars, lockVars, tokenVars>>

\* ... and the unique key counts those that are, too.
InsertUser(c) ==
    /\ pc[c] = "insert" /\ GoTo(c, "idle")
    /\ IF row.there
       THEN UNCHANGED rowVars
       ELSE /\ row' = [there |-> TRUE, gone |-> FALSE, on |-> TRUE, pw |-> arg[c].pw]
            /\ lastSet' = arg[c].pw
    /\ UNCHANGED <<lockVars, tokenVars, bounds>>

\* Update reads the row; a status that is not in the request stays as read.
Update(c, on) ==
    /\ Found
    /\ Begin(c, "profile", [Nothing EXCEPT !.on = on, !.pw = row.pw])
    /\ UNCHANGED <<rowVars, lockVars, tokenVars>>

\* Mutant: Save(u), which writes every column as it was read.
WriteProfileSave(c) ==
    /\ pc[c] = "profile" /\ GoTo(c, "idle")
    /\ row' = (IF Found THEN [row EXCEPT !.on = arg[c].on, !.pw = arg[c].pw] ELSE row)
    /\ UNCHANGED <<lastSet, lockVars, tokenVars, bounds>>

\* Everything but the password and the last login; nothing when it is deleted.
WriteProfile(c) ==
    /\ pc[c] = "profile" /\ GoTo(c, "idle")
    /\ row' = (IF Found THEN [row EXCEPT !.on = arg[c].on] ELSE row)
    /\ UNCHANGED <<lastSet, lockVars, tokenVars, bounds>>

Delete ==
    /\ Found /\ ~builtin
    /\ row' = [row EXCEPT !.gone = TRUE]
    /\ UNCHANGED <<builtin, lastSet, lockVars, tokenVars, pc, arg, bounds>>

\* The owner, whose old password is compared with the row as read here.
ChangePassword(c, old, new) ==
    /\ Found /\ row.pw = old /\ new # old
    /\ Begin(c, "password", [Nothing EXCEPT !.pw = new])
    /\ UNCHANGED <<rowVars, lockVars, tokenVars>>

\* An administrator.
ResetPassword(c, new) ==
    /\ Found
    /\ Begin(c, "password", [Nothing EXCEPT !.pw = new])
    /\ UNCHANGED <<rowVars, lockVars, tokenVars>>

\* The command, which clears the lockout afterwards.
ResetByCommand(c, new) ==
    /\ Found
    /\ Begin(c, "password", [Nothing EXCEPT !.pw = new, !.tool = TRUE])
    /\ UNCHANGED <<rowVars, lockVars, tokenVars>>

UpdatePassword(c) ==
    /\ pc[c] = "password"
    /\ GoTo(c, IF arg[c].tool THEN "unlock" ELSE "idle")
    /\ IF Found THEN row' = [row EXCEPT !.pw = arg[c].pw] /\ lastSet' = arg[c].pw
                ELSE UNCHANGED rowVars
    /\ UNCHANGED <<lockVars, tokenVars, bounds>>

ClearLoginState(c) ==
    /\ pc[c] = "unlock" /\ GoTo(c, "idle")
    /\ \/ /\ RedisWorks \/ RedisFails
          /\ attempts' = 0 /\ locked' = FALSE /\ guesses' = 0
       \/ RedisFails /\ UNCHANGED lockVars
    /\ UNCHANGED <<rowVars, tokenVars>>

\* A server starts: the built-in account is created, or switched on with the
\* seed's password.
SeedAdmin(c) ==
    /\ builtin
    /\ Begin(c, IF Found THEN "reseed" ELSE "insert", Nothing)
    /\ UNCHANGED <<rowVars, lockVars, tokenVars>>

Reseed(c) ==
    /\ pc[c] = "reseed" /\ GoTo(c, "idle")
    /\ row' = [row EXCEPT !.on = TRUE, !.pw = SeedPassword]
    /\ lastSet' = SeedPassword
    /\ UNCHANGED <<lockVars, tokenVars, bounds>>

Next ==
    \/ \E c \in Clients :
          \/ \E p \in Passwords : Login(c, p) \/ Create(c, p)
          \/ CheckLock(c) \/ CheckPassword(c) \/ RecordFailure(c) \/ SetLock(c)
          \/ ClearAttempts(c) \/ Issue(c)
          \/ \E k \in Sessions : Refresh(c, k) \/ Logout(c, k)
          \/ ReadForRefresh(c) \/ StoreBlacklist(c)
          \/ \E on \in BOOLEAN : Update(c, on)
          \/ \E old, new \in Passwords : ChangePassword(c, old, new)
          \/ \E new \in Passwords : ResetPassword(c, new) \/ ResetByCommand(c, new)
          \/ InsertUser(c) \/ WriteProfile(c) \/ UpdatePassword(c) \/ ClearLoginState(c)
          \/ SeedAdmin(c) \/ Reseed(c)
    \/ AttemptsExpire \/ LockExpires \/ Tick \/ Delete

Spec == Init /\ [][Next]_vars

-----------------------------------------------------------------------------
TypeOK ==
    /\ builtin \in BOOLEAN /\ locked \in BOOLEAN
    /\ row \in [there : BOOLEAN, gone : BOOLEAN, on : BOOLEAN, pw : Passwords]
    /\ attempts \in Nat /\ guesses \in Nat
    /\ issued \in [Sessions -> Nat \cup {NotYet}]
    /\ blacklist \in [Sessions -> Nat] /\ out \subseteq Sessions
    /\ pc \in [Clients -> {"idle", "lock", "compare", "count", "setLock", "clear", "issue",
                           "renew", "blacklist", "insert", "profile", "password", "unlock",
                           "reseed"}]
    /\ arg \in [Clients -> [pw : Passwords, on : BOOLEAN, tool : BOOLEAN,
                            session : Sessions \cup {0}, ttl : Nat]]
    /\ bounds \in [{"calls", "ticks", "faults"} -> Nat]
    /\ lastSet \in Passwords

\* The lockout (loginFailMax): between two moments that clear the count or end a
\* lock, no more wrong passwords are compared than the limit allows, plus what the
\* other callers had under way when it was reached, plus one for every failed Redis
\* command.
GuessesBounded == guesses <= MaxAttempts - 1 + Cardinality(Clients) + bounds.faults

\* "Everything but the password": whatever profile edits, sign-ins and deletions
\* run at the same time, the row keeps the password that was set last (the
\* comment of UserRepo.Update).
PasswordSurvivesEdits == Found => row.pw = lastSet

\* Once a logout has reached Redis the access token is not accepted again by any
\* request whose look at the blacklist is answered: the entry outlives the token,
\* however long the call took to write it.
LoggedOutStaysOut == \A k \in out : ~Accepted(k, TRUE)
=============================================================================
