---------------------------- MODULE AccountsProofs ----------------------------
(***************************************************************************)
(* Proofs about Accounts, for any callers, passwords, lives of tokens and  *)
(* bounds: the types, that an edit never brings an older password back,    *)
(* that a logout which reached Redis lasts, and that the lockout bounds    *)
(* the guesses.                                                            *)
(***************************************************************************)
EXTENDS Accounts, FiniteSetTheorems, TLAPS

Steps == {"idle", "lock", "compare", "count", "setLock", "clear", "issue", "renew",
          "blacklist", "insert", "profile", "password", "unlock", "reseed"}
Args == [pw : Passwords, on : BOOLEAN, tool : BOOLEAN, session : Sessions \cup {0}, ttl : Nat]

-------------------------------------------------------------------------------
(* Types.                                                                  *)

LEMMA NothingIsTyped == Nothing \in Args
BY AccountsAssumption DEF Nothing, Args

LEMMA SpendIsTyped ==
    ASSUME TypeOK, NEW what \in {"calls", "ticks", "faults"}, Spend(what)
    PROVE  bounds' \in [{"calls", "ticks", "faults"} -> Nat]
BY DEF TypeOK, Spend

LEMMA RedisIsTyped ==
    ASSUME TypeOK, RedisWorks \/ RedisFails
    PROVE  bounds' \in [{"calls", "ticks", "faults"} -> Nat]
BY SpendIsTyped DEF RedisWorks, RedisFails, TypeOK

LEMMA GoToIsTyped ==
    ASSUME TypeOK, NEW c \in Clients, NEW step \in Steps, GoTo(c, step)
    PROVE  pc' \in [Clients -> Steps] /\ arg' \in [Clients -> Args] /\ builtin' \in BOOLEAN
<1> DEFINE a == IF step = "idle" THEN Nothing ELSE arg[c]
<1>1. pc \in [Clients -> Steps] /\ arg \in [Clients -> Args]
  BY DEF TypeOK, Steps, Args
<1>2. a \in Args
  BY <1>1, NothingIsTyped
<1>3. arg' = [arg EXCEPT ![c] = a] /\ pc' = [pc EXCEPT ![c] = step] /\ builtin' = builtin
  BY <1>1 DEF GoTo
<1> HIDE DEF a
<1> QED BY <1>1, <1>2, <1>3 DEF TypeOK

LEMMA BeginIsTyped ==
    ASSUME TypeOK, NEW c \in Clients, NEW step \in Steps, NEW a \in Args, Begin(c, step, a)
    PROVE  /\ pc' \in [Clients -> Steps] /\ arg' \in [Clients -> Args]
           /\ builtin' \in BOOLEAN /\ bounds' \in [{"calls", "ticks", "faults"} -> Nat]
<1>1. pc \in [Clients -> Steps] /\ arg \in [Clients -> Args] /\ builtin \in BOOLEAN
  BY DEF TypeOK, Steps, Args
<1>2. bounds' \in [{"calls", "ticks", "faults"} -> Nat]
  BY SpendIsTyped DEF Begin
<1> QED BY <1>1, <1>2 DEF Begin

LEMMA SignInIsTyped ==
    ASSUME TypeOK, NEW c \in Clients,
           \/ \E p \in Passwords : Login(c, p)
           \/ CheckLock(c) \/ CheckPassword(c) \/ RecordFailure(c) \/ SetLock(c)
           \/ ClearAttempts(c)
    PROVE  TypeOK'
<1> USE DEF Steps
<1>1. ASSUME NEW p \in Passwords, Login(c, p) PROVE TypeOK'
  <2>1. [Nothing EXCEPT !.pw = p] \in Args
    BY NothingIsTyped DEF Args
  <2> QED BY <1>1, <2>1, BeginIsTyped
          DEF Login, TypeOK, rowVars, lockVars, tokenVars, Args
<1>2. CASE CheckLock(c)
  <2>1. (RedisWorks \/ RedisFails) /\ (GoTo(c, "idle") \/ GoTo(c, "compare"))
    BY <1>2 DEF CheckLock
  <2> QED BY <1>2, <2>1, GoToIsTyped, RedisIsTyped
          DEF CheckLock, TypeOK, rowVars, lockVars, tokenVars, Args
<1>3. CASE CheckPassword(c)
  <2>1. GoTo(c, "count") \/ GoTo(c, "idle") \/ GoTo(c, "clear")
    BY <1>3 DEF CheckPassword, TypeOK
  <2> QED BY <1>3, <2>1, GoToIsTyped
          DEF CheckPassword, TypeOK, rowVars, tokenVars, Args
<1>4. CASE RecordFailure(c)
  <2>1. (RedisWorks \/ RedisFails) /\ (GoTo(c, "setLock") \/ GoTo(c, "idle"))
    BY <1>4 DEF RecordFailure
  <2> QED BY <1>4, <2>1, GoToIsTyped, RedisIsTyped
          DEF RecordFailure, TypeOK, rowVars, tokenVars, Args
<1>5. CASE SetLock(c)
  BY <1>5, GoToIsTyped, RedisIsTyped DEF SetLock, TypeOK, rowVars, tokenVars, Args
<1>6. CASE ClearAttempts(c)
  BY <1>6, GoToIsTyped, RedisIsTyped DEF ClearAttempts, TypeOK, rowVars, tokenVars, Args
<1> QED BY <1>1, <1>2, <1>3, <1>4, <1>5, <1>6

LEMMA TokensAreTyped ==
    ASSUME TypeOK, NEW c \in Clients,
           \/ Issue(c) \/ ReadForRefresh(c)
           \/ \E k \in Sessions : Refresh(c, k) \/ Logout(c, k)
    PROVE  TypeOK'
<1> USE DEF Steps
<1>1. CASE Issue(c)
  <2>1. bounds.ticks \in Nat
    BY DEF TypeOK
  <2>2. issued' \in [Sessions -> Nat \cup {NotYet}]
    BY <1>1, <2>1 DEF Issue, TypeOK, clock
  <2> QED BY <1>1, <2>2, GoToIsTyped DEF Issue, TypeOK, rowVars, lockVars, Args
<1>2. CASE ReadForRefresh(c)
  <2>1. GoTo(c, "issue") \/ GoTo(c, "idle")
    BY <1>2 DEF ReadForRefresh
  <2> QED BY <1>2, <2>1, GoToIsTyped
          DEF ReadForRefresh, TypeOK, rowVars, lockVars, tokenVars, Args
<1>3. ASSUME NEW k \in Sessions, Refresh(c, k) PROVE TypeOK'
  BY <1>3, NothingIsTyped, BeginIsTyped
     DEF Refresh, TypeOK, rowVars, lockVars, tokenVars, Args
<1>4. ASSUME NEW k \in Sessions, Logout(c, k) PROVE TypeOK'
  <2> DEFINE left == issued[k] + AccessLife - clock
  <2>1. left \in Nat
    <3>1. issued[k] \in Nat /\ clock \in Nat /\ AccessLife \in Nat
      BY <1>4, AccountsAssumption DEF Logout, Accepted, Live, clock, TypeOK
    <3>2. clock < issued[k] + AccessLife
      BY <1>4 DEF Logout, Accepted, Live
    <3> QED BY <3>1, <3>2
  <2> HIDE DEF left
  <2>2. [Nothing EXCEPT !.session = k, !.ttl = left] \in Args
    BY <2>1, NothingIsTyped DEF Args
  <2>3. Begin(c, "blacklist", [Nothing EXCEPT !.session = k, !.ttl = left])
    BY <1>4 DEF Logout, left
  <2> QED BY <1>4, <2>2, <2>3, BeginIsTyped
          DEF Logout, TypeOK, rowVars, lockVars, tokenVars, Args
<1> QED BY <1>1, <1>2, <1>3, <1>4

-------------------------------------------------------------------------------
(* A logout lasts.  An entry written, and one about to be, outlives the    *)
(* token it is for.                                                        *)

Outlives(t, k) == issued[k] # NotYet /\ t >= issued[k] + AccessLife
LogoutsAreTimed ==
    /\ \A c \in Clients : pc[c] = "blacklist" =>
          arg[c].session \in Sessions /\ Outlives(clock + arg[c].ttl, arg[c].session)
    /\ \A k \in out : Outlives(blacklist[k], k)

LEMMA StoreIsTyped ==
    ASSUME TypeOK, LogoutsAreTimed, NEW c \in Clients, StoreBlacklist(c)
    PROVE  TypeOK'
<1>1. arg[c].session \in Sessions /\ arg[c].ttl \in Nat /\ clock \in Nat
  BY DEF StoreBlacklist, LogoutsAreTimed, TypeOK, clock
<1>2. blacklist' \in [Sessions -> Nat] /\ out' \subseteq Sessions
  BY <1>1 DEF StoreBlacklist, TypeOK
<1> QED BY <1>2, GoToIsTyped, RedisIsTyped
        DEF StoreBlacklist, TypeOK, rowVars, lockVars, Args, Steps

LEMMA RowStartsAreTyped ==
    ASSUME TypeOK, NEW c \in Clients,
           \/ SeedAdmin(c)
           \/ \E on \in BOOLEAN : Update(c, on)
           \/ \E p \in Passwords : Create(c, p) \/ ResetPassword(c, p) \/ ResetByCommand(c, p)
           \/ \E old, new \in Passwords : ChangePassword(c, old, new)
    PROVE  TypeOK'
<1>1. PICK step \in Steps, a \in Args : Begin(c, step, a)
  <2> USE NothingIsTyped DEF Args, Steps
  <2>1. CASE SeedAdmin(c)
    BY <2>1 DEF SeedAdmin
  <2>2. ASSUME NEW on \in BOOLEAN, Update(c, on)
        PROVE  \E step \in Steps, a \in Args : Begin(c, step, a)
    <3>1. [Nothing EXCEPT !.on = on, !.pw = row.pw] \in Args
      BY DEF TypeOK
    <3> QED BY <2>2, <3>1 DEF Update
  <2>3. ASSUME NEW p \in Passwords,
               \/ Create(c, p) \/ ResetPassword(c, p) \/ ResetByCommand(c, p)
               \/ \E old \in Passwords : ChangePassword(c, old, p)
        PROVE  \E step \in Steps, a \in Args : Begin(c, step, a)
    <3>1. /\ [Nothing EXCEPT !.pw = p] \in Args
          /\ [Nothing EXCEPT !.pw = p, !.tool = TRUE] \in Args
      OBVIOUS
    <3> QED BY <2>3, <3>1 DEF Create, ResetPassword, ResetByCommand, ChangePassword
  <2> QED BY <2>1, <2>2, <2>3
<1>2. UNCHANGED <<rowVars, lockVars, tokenVars>>
  BY DEF SeedAdmin, Update, Create, ResetPassword, ResetByCommand, ChangePassword
<1> QED BY <1>1, <1>2, BeginIsTyped DEF TypeOK, rowVars, lockVars, tokenVars, Args, Steps

LEMMA RowWritesAreTyped ==
    ASSUME TypeOK, NEW c \in Clients,
           \/ InsertUser(c) \/ WriteProfile(c) \/ UpdatePassword(c) \/ ClearLoginState(c)
           \/ Reseed(c)
    PROVE  TypeOK'
<1> DEFINE Row == [there : BOOLEAN, gone : BOOLEAN, on : BOOLEAN, pw : Passwords]
<1>0. arg[c].pw \in Passwords /\ arg[c].on \in BOOLEAN
  BY DEF TypeOK
<1>1. row' \in Row /\ lastSet' \in Passwords
  <2>1. CASE InsertUser(c)
    <3>1. \/ UNCHANGED rowVars
          \/ /\ row' = [there |-> TRUE, gone |-> FALSE, on |-> TRUE, pw |-> arg[c].pw]
             /\ lastSet' = arg[c].pw
      BY <2>1, Zenon DEF InsertUser
    <3>2. CASE UNCHANGED rowVars
      BY <3>2 DEF rowVars, TypeOK
    <3>3. [there |-> TRUE, gone |-> FALSE, on |-> TRUE, pw |-> arg[c].pw] \in Row
      BY <1>0
    <3> QED BY <1>0, <3>1, <3>2, <3>3
  <2>2. CASE WriteProfile(c)
    BY <1>0, <2>2 DEF WriteProfile, TypeOK
  <2>3. CASE UpdatePassword(c)
    BY <1>0, <2>3 DEF UpdatePassword, rowVars, TypeOK
  <2>4. CASE ClearLoginState(c)
    BY <2>4 DEF ClearLoginState, rowVars, TypeOK
  <2>5. CASE Reseed(c)
    BY <2>5, AccountsAssumption DEF Reseed, TypeOK
  <2> QED BY <2>1, <2>2, <2>3, <2>4, <2>5
<1>2. GoTo(c, "unlock") \/ GoTo(c, "idle")
  BY DEF InsertUser, WriteProfile, UpdatePassword, ClearLoginState, Reseed
<1>3. pc' \in [Clients -> Steps] /\ arg' \in [Clients -> Args] /\ builtin' \in BOOLEAN
  BY <1>2, GoToIsTyped DEF Steps
<1>4. bounds' \in [{"calls", "ticks", "faults"} -> Nat]
  BY RedisIsTyped DEF InsertUser, WriteProfile, UpdatePassword, ClearLoginState, Reseed, TypeOK
<1>5. attempts' \in Nat /\ guesses' \in Nat /\ locked' \in BOOLEAN
  <2>1. UNCHANGED lockVars \/ (attempts' = 0 /\ locked' = FALSE /\ guesses' = 0)
    BY Zenon DEF InsertUser, WriteProfile, UpdatePassword, ClearLoginState, Reseed
  <2>2. CASE UNCHANGED lockVars
    BY <2>2 DEF TypeOK, lockVars
  <2>3. CASE attempts' = 0 /\ locked' = FALSE /\ guesses' = 0
    BY <2>3
  <2> QED BY <2>1, <2>2, <2>3
<1>6. UNCHANGED tokenVars
  BY DEF InsertUser, WriteProfile, UpdatePassword, ClearLoginState, Reseed
<1> QED BY <1>1, <1>3, <1>4, <1>5, <1>6 DEF TypeOK, tokenVars, Args, Steps

LEMMA EnvironmentIsTyped ==
    ASSUME TypeOK, AttemptsExpire \/ LockExpires \/ Tick \/ Delete PROVE TypeOK'
<1>1. CASE Tick
  BY <1>1, SpendIsTyped DEF Tick, TypeOK, rowVars, lockVars, tokenVars
<1>2. CASE AttemptsExpire
  BY <1>2 DEF AttemptsExpire, TypeOK, rowVars, tokenVars
<1>3. CASE LockExpires
  <2>1. locked' \in BOOLEAN /\ guesses' \in Nat
    BY <1>3 DEF LockExpires
  <2> QED BY <1>3, <2>1 DEF LockExpires, TypeOK, rowVars, tokenVars
<1>4. CASE Delete
  <2>1. row' \in [there : BOOLEAN, gone : BOOLEAN, on : BOOLEAN, pw : Passwords]
    BY <1>4 DEF Delete, TypeOK
  <2> QED BY <1>4, <2>1 DEF Delete, TypeOK, lockVars, tokenVars
<1> QED BY <1>1, <1>2, <1>3, <1>4

LEMMA NothingTouchesTyped == ASSUME TypeOK, UNCHANGED vars PROVE TypeOK'
BY DEF TypeOK, vars, rowVars, lockVars, tokenVars

(* A step of a call that is not a logout, and a tick.                      *)
LEMMA OthersKeepLogouts ==
    ASSUME TypeOK, LogoutsAreTimed, NEW c \in Clients, NEW step, step # "blacklist",
           GoTo(c, step) \/ \E a : Begin(c, step, a),
           bounds'.ticks = bounds.ticks, UNCHANGED <<blacklist, out>>,
           \A k \in Sessions : issued[k] # NotYet => issued'[k] = issued[k]
    PROVE  LogoutsAreTimed'
<1>1. ASSUME NEW d \in Clients, pc'[d] = "blacklist"
      PROVE  pc[d] = "blacklist" /\ arg'[d] = arg[d]
  BY <1>1 DEF TypeOK, GoTo, Begin
<1>2. \A k \in Sessions : \A t : Outlives(t, k) => Outlives(t, k)'
  BY DEF Outlives
<1>3. clock' = clock
  BY DEF clock
<1> QED BY <1>1, <1>2, <1>3 DEF LogoutsAreTimed, TypeOK

LEMMA LogoutIsTimed ==
    ASSUME TypeOK, LogoutsAreTimed, NEW c \in Clients, NEW k \in Sessions, Logout(c, k)
    PROVE  LogoutsAreTimed'
<1>1. issued[k] \in Nat /\ clock \in Nat /\ AccessLife \in Nat /\ issued[k] # NotYet
  BY AccountsAssumption DEF Logout, Accepted, Live, clock, TypeOK
<1> DEFINE left == issued[k] + AccessLife - clock
<1>2. clock' = clock /\ UNCHANGED <<issued, blacklist, out>>
  BY DEF Logout, Begin, Spend, clock, TypeOK, tokenVars
<1>3. arg' = [arg EXCEPT ![c] = [Nothing EXCEPT !.session = k, !.ttl = left]]
      /\ pc' = [pc EXCEPT ![c] = "blacklist"]
  BY DEF Logout, Begin
<1>4. left \in Int /\ clock + left >= issued[k] + AccessLife
  BY <1>1
<1> HIDE DEF left
<1>5. arg'[c].session = k /\ arg'[c].ttl = left
  BY <1>3 DEF Nothing, TypeOK
<1>6. \A d \in Clients \ {c} : arg'[d] = arg[d] /\ pc'[d] = pc[d]
  BY <1>3 DEF TypeOK
<1>7. (arg[c].session \in Sessions /\ Outlives(clock + arg[c].ttl, arg[c].session))'
  BY <1>1, <1>2, <1>4, <1>5 DEF Outlives
<1> QED BY <1>2, <1>6, <1>7 DEF LogoutsAreTimed, Outlives

LEMMA StoreIsTimed ==
    ASSUME TypeOK, LogoutsAreTimed, NEW c \in Clients, StoreBlacklist(c)
    PROVE  LogoutsAreTimed'
<1> DEFINE k == arg[c].session
           t == clock + arg[c].ttl
<1>1. k \in Sessions /\ Outlives(t, k)
  BY DEF StoreBlacklist, LogoutsAreTimed
<1>2. clock' = clock /\ issued' = issued
  BY DEF StoreBlacklist, RedisWorks, RedisFails, Spend, clock, TypeOK
<1>3. pc' = [pc EXCEPT ![c] = "idle"] /\ \A d \in Clients \ {c} : arg'[d] = arg[d]
  BY DEF StoreBlacklist, GoTo, TypeOK
<1>4. \A d \in Clients : pc'[d] = "blacklist" => d # c /\ pc[d] = "blacklist" /\ arg'[d] = arg[d]
  BY <1>3 DEF TypeOK
<1>5. \/ blacklist' = [blacklist EXCEPT ![k] = t] /\ out' = out \cup {k}
      \/ UNCHANGED <<blacklist, out>>
  BY DEF StoreBlacklist
<1> HIDE DEF k, t
<1>6. \A j \in out' : Outlives(blacklist'[j], j)
  BY <1>1, <1>5 DEF LogoutsAreTimed, TypeOK
<1> QED BY <1>2, <1>4, <1>6 DEF LogoutsAreTimed, Outlives

(* The two together are inductive.                                         *)
LEMMA TimedStep ==
    ASSUME TypeOK, LogoutsAreTimed, [Next]_vars PROVE TypeOK' /\ LogoutsAreTimed'
<1>1. ASSUME NEW c \in Clients,
             \/ \E p \in Passwords : Login(c, p)
             \/ CheckLock(c) \/ CheckPassword(c) \/ RecordFailure(c) \/ SetLock(c)
             \/ ClearAttempts(c)
      PROVE  TypeOK' /\ LogoutsAreTimed'
  <2>1. TypeOK'
    BY <1>1, SignInIsTyped
  <2>2. UNCHANGED tokenVars
    BY <1>1 DEF Login, CheckLock, CheckPassword, RecordFailure, SetLock, ClearAttempts
  <2>3. \/ \E a : Begin(c, "lock", a)
        \/ \E step \in Steps \ {"blacklist"} : GoTo(c, step)
    BY <1>1 DEF Login, CheckLock, CheckPassword, RecordFailure, SetLock, ClearAttempts, Steps,
                TypeOK
  <2>4. bounds'.ticks = bounds.ticks
    BY <1>1 DEF Login, Begin, CheckLock, CheckPassword, RecordFailure, SetLock, ClearAttempts,
                RedisWorks, RedisFails, Spend, TypeOK
  <2> QED BY <2>1, <2>2, <2>3, <2>4, OthersKeepLogouts DEF tokenVars
<1>2. ASSUME NEW c \in Clients,
             \/ Issue(c) \/ ReadForRefresh(c) \/ \E k \in Sessions : Refresh(c, k)
      PROVE  TypeOK' /\ LogoutsAreTimed'
  <2>1. TypeOK'
    BY <1>2, TokensAreTyped
  <2>2. /\ UNCHANGED <<blacklist, out>>
        /\ \A k \in Sessions : issued[k] # NotYet => issued'[k] = issued[k]
    BY <1>2 DEF Issue, ReadForRefresh, Refresh, tokenVars, TypeOK
  <2>3. (\E a : Begin(c, "renew", a)) \/ GoTo(c, "issue") \/ GoTo(c, "idle")
    BY <1>2 DEF Issue, ReadForRefresh, Refresh
  <2>4. bounds'.ticks = bounds.ticks
    BY <1>2 DEF Issue, ReadForRefresh, Refresh, Begin, Spend, TypeOK
  <2> QED BY <2>1, <2>2, <2>3, <2>4, OthersKeepLogouts
<1>3. ASSUME NEW c \in Clients, NEW k \in Sessions, Logout(c, k)
      PROVE  TypeOK' /\ LogoutsAreTimed'
  BY <1>3, TokensAreTyped, LogoutIsTimed
<1>4. ASSUME NEW c \in Clients, StoreBlacklist(c) PROVE TypeOK' /\ LogoutsAreTimed'
  BY <1>4, StoreIsTyped, StoreIsTimed
<1>5. ASSUME NEW c \in Clients,
             \/ SeedAdmin(c)
             \/ \E on \in BOOLEAN : Update(c, on)
             \/ \E p \in Passwords : Create(c, p) \/ ResetPassword(c, p) \/ ResetByCommand(c, p)
             \/ \E old, new \in Passwords : ChangePassword(c, old, new)
      PROVE  TypeOK' /\ LogoutsAreTimed'
  <2>1. TypeOK'
    BY <1>5, RowStartsAreTyped
  <2>2. \E step \in {"insert", "profile", "password", "reseed"} : \E a : Begin(c, step, a)
    BY <1>5 DEF SeedAdmin, Update, Create, ResetPassword, ResetByCommand, ChangePassword
  <2>3. bounds'.ticks = bounds.ticks
    BY <2>2 DEF Begin, Spend, TypeOK
  <2>4. UNCHANGED tokenVars
    BY <1>5 DEF SeedAdmin, Update, Create, ResetPassword, ResetByCommand, ChangePassword
  <2> QED BY <2>1, <2>2, <2>3, <2>4, OthersKeepLogouts DEF tokenVars
<1>6. ASSUME NEW c \in Clients,
             \/ InsertUser(c) \/ WriteProfile(c) \/ UpdatePassword(c) \/ ClearLoginState(c)
             \/ Reseed(c)
      PROVE  TypeOK' /\ LogoutsAreTimed'
  <2>1. TypeOK'
    BY <1>6, RowWritesAreTyped
  <2>2. GoTo(c, "unlock") \/ GoTo(c, "idle")
    BY <1>6 DEF InsertUser, WriteProfile, UpdatePassword, ClearLoginState, Reseed
  <2>3. bounds'.ticks = bounds.ticks
    BY <1>6 DEF InsertUser, WriteProfile, UpdatePassword, ClearLoginState, Reseed,
                RedisWorks, RedisFails, Spend, TypeOK
  <2>4. UNCHANGED tokenVars
    BY <1>6 DEF InsertUser, WriteProfile, UpdatePassword, ClearLoginState, Reseed
  <2> QED BY <2>1, <2>2, <2>3, <2>4, OthersKeepLogouts DEF tokenVars
<1>7. CASE AttemptsExpire \/ LockExpires \/ Delete \/ UNCHANGED vars
  <2>1. UNCHANGED <<tokenVars, pc, arg, bounds>>
    BY <1>7 DEF AttemptsExpire, LockExpires, Delete, vars
  <2>2. LogoutsAreTimed'
    BY <2>1 DEF LogoutsAreTimed, Outlives, clock, tokenVars
  <2> QED BY <1>7, <2>2, EnvironmentIsTyped, NothingTouchesTyped
<1>8. CASE Tick
  <2>1. clock' = clock + 1 /\ clock \in Nat /\ UNCHANGED <<tokenVars, pc, arg>>
    BY <1>8 DEF Tick, Spend, clock, TypeOK
  <2>2. \A c \in Clients : arg[c].ttl \in Nat
    BY DEF TypeOK
  <2>3. \A k \in Sessions : issued[k] # NotYet => issued[k] \in Nat
    BY DEF TypeOK
  <2>4. LogoutsAreTimed'
    BY <2>1, <2>2, <2>3, AccountsAssumption DEF LogoutsAreTimed, Outlives, tokenVars
  <2> QED BY <1>8, <2>4, EnvironmentIsTyped
<1> QED BY <1>1, <1>2, <1>3, <1>4, <1>5, <1>6, <1>7, <1>8 DEF Next

LEMMA InitIsTimed == ASSUME Init PROVE TypeOK /\ LogoutsAreTimed
<1>1. TypeOK
  <2>1. row \in [there : BOOLEAN, gone : BOOLEAN, on : BOOLEAN, pw : Passwords]
        /\ lastSet \in Passwords /\ locked \in BOOLEAN
    BY AccountsAssumption DEF Init
  <2>2. pc \in [Clients -> Steps] /\ arg \in [Clients -> Args]
    BY NothingIsTyped DEF Init, Steps
  <2>3. bounds \in [{"calls", "ticks", "faults"} -> Nat]
    BY DEF Init
  <2>4. issued \in [Sessions -> Nat \cup {NotYet}] /\ blacklist \in [Sessions -> Nat]
    BY DEF Init
  <2> QED BY <2>1, <2>2, <2>3, <2>4 DEF Init, TypeOK, Args, Steps
<1> QED BY <1>1 DEF Init, LogoutsAreTimed

(* The tables, the keys in Redis and the calls keep their types, for any   *)
(* number of callers and any limits.                                       *)
THEOREM TypeCorrect == Spec => []TypeOK
<1> QED BY InitIsTimed, TimedStep, PTL DEF Spec

(* For any lives of the tokens and however long a logout takes between     *)
(* Parse and the entry, the token it was for is not accepted after it by a *)
(* request that Redis answers.                                             *)
THEOREM LogoutLasts == Spec => []LoggedOutStaysOut
<1>1. ASSUME TypeOK, LogoutsAreTimed PROVE LoggedOutStaysOut
  <2>1. SUFFICES ASSUME NEW k \in out, clock < issued[k] + AccessLife, blacklist[k] <= clock
                 PROVE  FALSE
    BY <1>1 DEF LoggedOutStaysOut, Accepted, Live, Revoked, TypeOK, clock
  <2>2. blacklist[k] >= issued[k] + AccessLife /\ issued[k] # NotYet
    BY <1>1, <2>1 DEF LogoutsAreTimed, Outlives
  <2>3. blacklist[k] \in Nat /\ clock \in Nat /\ issued[k] \in Nat /\ AccessLife \in Nat
    BY <1>1, <2>1, <2>2, AccountsAssumption DEF TypeOK, clock
  <2> QED BY <2>1, <2>2, <2>3
<1> QED BY <1>1, InitIsTimed, TimedStep, PTL DEF Spec

-------------------------------------------------------------------------------
(* The password.                                                           *)

LEMMA EditsKeepPasswords ==
    ASSUME TypeOK, PasswordSurvivesEdits, [Next]_vars PROVE PasswordSurvivesEdits'
<1> USE DEF PasswordSurvivesEdits, Found
<1>1. ASSUME UNCHANGED rowVars PROVE PasswordSurvivesEdits'
  BY <1>1 DEF rowVars
<1>2. ASSUME NEW c \in Clients, InsertUser(c) PROVE PasswordSurvivesEdits'
  <2>1. \/ UNCHANGED rowVars
        \/ /\ row' = [there |-> TRUE, gone |-> FALSE, on |-> TRUE, pw |-> arg[c].pw]
           /\ lastSet' = arg[c].pw
    BY <1>2, Zenon DEF InsertUser
  <2> QED BY <1>1, <2>1
<1>3. ASSUME NEW c \in Clients, WriteProfile(c) PROVE PasswordSurvivesEdits'
  BY <1>3 DEF WriteProfile, TypeOK
<1>4. ASSUME NEW c \in Clients, UpdatePassword(c) PROVE PasswordSurvivesEdits'
  BY <1>1, <1>4 DEF UpdatePassword, TypeOK
<1>5. ASSUME NEW c \in Clients, Reseed(c) PROVE PasswordSurvivesEdits'
  BY <1>5 DEF Reseed, TypeOK
<1>6. CASE Delete
  BY <1>6 DEF Delete, TypeOK
<1> QED BY <1>1, <1>2, <1>3, <1>4, <1>5, <1>6
        DEF Next, vars, Login, Create, CheckLock, CheckPassword, RecordFailure, SetLock,
            ClearAttempts, Issue, Refresh, Logout, ReadForRefresh, StoreBlacklist, Update,
            ChangePassword, ResetPassword, ResetByCommand, ClearLoginState, SeedAdmin,
            AttemptsExpire, LockExpires, Tick

(* Whatever runs beside it, no profile edit writes an older password back. *)
THEOREM EditsLeavePasswords == Spec => []PasswordSurvivesEdits
<1>1. ASSUME Init PROVE PasswordSurvivesEdits
  BY <1>1 DEF Init, PasswordSurvivesEdits, Found
<1> QED BY <1>1, TypeCorrect, EditsKeepPasswords, PTL DEF Spec

-------------------------------------------------------------------------------
(* The guesses.  Below the limit every guess is counted, about to be, or   *)
(* was lost to a failed command; from the limit on each caller has at most *)
(* one guess of its own until the lock is there, and then the callers that *)
(* had passed the look at it have one each.                                *)

AtStep(at, S) == {c \in Clients : at[c] \in S}
Tally(at, S) == Cardinality(AtStep(at, S))

Failing == {"count", "setLock"}

GuessInv ==
    /\ attempts < MaxAttempts =>
          guesses <= attempts + Tally(pc, {"count"}) + bounds.faults
    /\ attempts >= MaxAttempts /\ ~locked =>
          guesses <= MaxAttempts - 1 + Tally(pc, Failing) + bounds.faults
    /\ attempts >= MaxAttempts /\ locked =>
          guesses + Tally(pc, {"compare"}) <= MaxAttempts - 1 + Cardinality(Clients) + bounds.faults

LEMMA TallyType ==
    ASSUME NEW at, NEW S
    PROVE  /\ IsFiniteSet(AtStep(at, S)) /\ Tally(at, S) \in Nat
           /\ Tally(at, S) <= Cardinality(Clients) /\ Cardinality(Clients) \in Nat
<1>1. AtStep(at, S) \subseteq Clients
  BY DEF AtStep
<1> QED BY <1>1, AccountsAssumption, FS_Subset, FS_CardinalityType DEF Tally

\* What one caller's move from one step to another does to a tally.
LEMMA MoveCounts ==
    ASSUME TypeOK, NEW c \in Clients, NEW step, pc' = [pc EXCEPT ![c] = step], NEW S
    PROVE  /\ pc[c] \in S /\ step \notin S => Tally(pc', S) = Tally(pc, S) - 1
           /\ pc[c] \notin S /\ step \in S => Tally(pc', S) = Tally(pc, S) + 1
           /\ (pc[c] \in S <=> step \in S) => Tally(pc', S) = Tally(pc, S)
<1> DEFINE A == AtStep(pc, S)
           B == AtStep(pc', S)
<1>0. B = IF step \in S THEN A \cup {c} ELSE A \ {c}
  BY DEF AtStep, TypeOK
<1>1. pc[c] \in S <=> c \in A
  BY DEF AtStep
<1>2. IsFiniteSet(A)
  BY TallyType
<1> HIDE DEF A, B
<1>3. ASSUME pc[c] \in S, step \notin S PROVE Cardinality(B) = Cardinality(A) - 1
  BY <1>0, <1>1, <1>2, <1>3, FS_RemoveElement
<1>4. ASSUME pc[c] \notin S, step \in S PROVE Cardinality(B) = Cardinality(A) + 1
  BY <1>0, <1>1, <1>2, <1>4, FS_AddElement
<1>5. ASSUME pc[c] \in S <=> step \in S PROVE B = A
  BY <1>0, <1>1, <1>5
<1> QED BY <1>3, <1>4, <1>5 DEF Tally, A, B

LEMMA TalliesAreApart ==
    /\ Tally(pc, {"count"}) <= Tally(pc, Failing)
    /\ Tally(pc, Failing) + Tally(pc, {"compare"}) <= Cardinality(Clients)
<1> USE TallyType
<1>1. Tally(pc, {"count"}) <= Tally(pc, Failing)
  <2>1. AtStep(pc, {"count"}) \subseteq AtStep(pc, Failing)
    BY DEF AtStep, Failing
  <2> QED BY <2>1, FS_Subset DEF Tally
<1>2. Tally(pc, Failing) + Tally(pc, {"compare"}) <= Cardinality(Clients)
  <2> DEFINE A == AtStep(pc, Failing)
             B == AtStep(pc, {"compare"})
  <2>1. A \cap B = {} /\ A \cup B \subseteq Clients
    BY DEF AtStep, Failing
  <2>2. IsFiniteSet(A) /\ IsFiniteSet(B) /\ Cardinality(A) \in Nat /\ Cardinality(B) \in Nat
    BY DEF Tally
  <2> HIDE DEF A, B
  <2>3. Cardinality(A \cup B) = Cardinality(A) + Cardinality(B) - Cardinality(A \cap B)
    BY <2>2, FS_Union
  <2>4. Cardinality(A \cap B) = 0
    BY <2>1, FS_EmptySet
  <2>5. Cardinality(A \cup B) <= Cardinality(Clients)
    BY <2>1, AccountsAssumption, FS_Subset
  <2>6. Cardinality(A) + Cardinality(B) <= Cardinality(Clients)
    BY <2>2, <2>3, <2>4, <2>5
  <2> QED BY <2>6 DEF Tally, A, B
<1> QED BY <1>1, <1>2

\* The tallies of GuessInv after a caller's move.
LEMMA Moved ==
    ASSUME TypeOK, NEW c \in Clients, NEW step,
           GoTo(c, step) \/ pc' = [pc EXCEPT ![c] = step]
    PROVE  /\ pc[c] = "count" /\ step # "count" =>
                  Tally(pc', {"count"}) = Tally(pc, {"count"}) - 1
           /\ pc[c] # "count" /\ step = "count" =>
                  Tally(pc', {"count"}) = Tally(pc, {"count"}) + 1
           /\ pc[c] # "count" /\ step # "count" =>
                  Tally(pc', {"count"}) = Tally(pc, {"count"})
           /\ pc[c] = "compare" /\ step # "compare" =>
                  Tally(pc', {"compare"}) = Tally(pc, {"compare"}) - 1
           /\ pc[c] # "compare" /\ step = "compare" =>
                  Tally(pc', {"compare"}) = Tally(pc, {"compare"}) + 1
           /\ pc[c] # "compare" /\ step # "compare" =>
                  Tally(pc', {"compare"}) = Tally(pc, {"compare"})
           /\ pc[c] \in Failing /\ step \notin Failing =>
                  Tally(pc', Failing) = Tally(pc, Failing) - 1
           /\ pc[c] \notin Failing /\ step \in Failing =>
                  Tally(pc', Failing) = Tally(pc, Failing) + 1
           /\ (pc[c] \in Failing <=> step \in Failing) =>
                  Tally(pc', Failing) = Tally(pc, Failing)
<1>p. pc' = [pc EXCEPT ![c] = step]
  BY DEF GoTo
<1>1. \A S : /\ pc[c] \in S /\ step \notin S => Tally(pc', S) = Tally(pc, S) - 1
             /\ pc[c] \notin S /\ step \in S => Tally(pc', S) = Tally(pc, S) + 1
             /\ (pc[c] \in S <=> step \in S) => Tally(pc', S) = Tally(pc, S)
  BY <1>p, MoveCounts
<1>2. ASSUME NEW x
      PROVE  /\ pc[c] = x /\ step # x => Tally(pc', {x}) = Tally(pc, {x}) - 1
             /\ pc[c] # x /\ step = x => Tally(pc', {x}) = Tally(pc, {x}) + 1
             /\ pc[c] # x /\ step # x => Tally(pc', {x}) = Tally(pc, {x})
  <2> DEFINE S == {x}
  <2>1. \A y : y \in S <=> y = x
    OBVIOUS
  <2> HIDE DEF S
  <2>2. /\ pc[c] = x /\ step # x => Tally(pc', S) = Tally(pc, S) - 1
        /\ pc[c] # x /\ step = x => Tally(pc', S) = Tally(pc, S) + 1
        /\ pc[c] # x /\ step # x => Tally(pc', S) = Tally(pc, S)
    BY <1>1, <2>1
  <2> QED BY <2>2 DEF S
<1> QED BY <1>1, <1>2

\* The step of a caller that is on no tally before it or after it, and one that
\* clears the guesses.
LEMMA QuietMoves ==
    ASSUME TypeOK, GuessInv, NEW c \in Clients, NEW step,
           pc' = [pc EXCEPT ![c] = step], UNCHANGED lockVars, bounds'.faults = bounds.faults,
           pc[c] \notin {"compare", "count", "setLock"},
           step \notin {"compare", "count", "setLock"}
    PROVE  GuessInv'
<1>1. /\ Tally(pc', {"count"}) = Tally(pc, {"count"})
      /\ Tally(pc', Failing) = Tally(pc, Failing)
      /\ Tally(pc', {"compare"}) = Tally(pc, {"compare"})
  BY Moved DEF Failing
<1> QED BY <1>1 DEF GuessInv, lockVars

LEMMA CleanSlate ==
    ASSUME attempts = 0, guesses = 0, bounds.faults \in Nat
    PROVE  GuessInv
BY AccountsAssumption, TallyType DEF GuessInv

LEMMA GuessStep ==
    ASSUME TypeOK, TypeOK', GuessInv, [Next]_vars PROVE GuessInv'
<1> DEFINE F == bounds.faults
           N == Cardinality(Clients)
<1>t. /\ attempts \in Nat /\ guesses \in Nat /\ locked \in BOOLEAN /\ F \in Nat /\ N \in Nat
      /\ Tally(pc, {"count"}) \in Nat /\ Tally(pc, {"compare"}) \in Nat
      /\ Tally(pc, Failing) \in Nat /\ MaxAttempts \in Nat \ {0}
  BY TallyType, AccountsAssumption DEF TypeOK
<1>u. attempts' \in Nat /\ guesses' \in Nat /\ F' \in Nat
  BY DEF TypeOK
\* How a Redis command of a call counts.
<1>r. (RedisWorks => F' = F) /\ (RedisFails => F' = F + 1)
  BY DEF RedisWorks, RedisFails, Spend, TypeOK
<1>g. guesses' = 0 => GuessInv'
  <2>1. ASSUME guesses' = 0 PROVE GuessInv'
    <3>1. /\ Tally(pc', {"count"}) \in Nat /\ Tally(pc', Failing) \in Nat
          /\ Tally(pc', {"compare"}) \in Nat /\ Tally(pc', {"compare"}) <= N
      BY TallyType
    <3> QED BY <2>1, <3>1, <1>t, <1>u DEF GuessInv
  <2> QED BY <2>1
<1>1. ASSUME NEW c \in Clients, CheckLock(c) PROVE GuessInv'
  <2>1. pc[c] = "lock" /\ UNCHANGED lockVars
    BY <1>1 DEF CheckLock
  <2>2. CASE GoTo(c, "idle") /\ RedisWorks
    BY <2>1, <2>2, <1>r, QuietMoves DEF GoTo
  <2>3. CASE GoTo(c, "compare")
    <3>1. /\ Tally(pc', {"count"}) = Tally(pc, {"count"})
          /\ Tally(pc', Failing) = Tally(pc, Failing)
          /\ Tally(pc', {"compare"}) = Tally(pc, {"compare"}) + 1
      BY <2>1, <2>3, Moved DEF Failing
    <3>2. (F' = F /\ ~locked) \/ F' = F + 1
      BY <1>1, <2>3, <1>r DEF CheckLock, GoTo, TypeOK
    <3> QED BY <2>1, <3>1, <3>2, <1>t DEF GuessInv, lockVars
  <2> QED BY <1>1, <2>2, <2>3 DEF CheckLock
<1>2. ASSUME NEW c \in Clients, CheckPassword(c) PROVE GuessInv'
  <2>1. pc[c] = "compare" /\ UNCHANGED <<attempts, locked, bounds>>
    BY <1>2 DEF CheckPassword
  <2>2. PICK step \in {"idle", "count", "clear"} :
           /\ pc' = [pc EXCEPT ![c] = step]
           /\ step # "count" => guesses' = guesses
           /\ guesses' \in {guesses, guesses + 1}
    BY <1>2 DEF CheckPassword, GoTo, TypeOK
  <2>3. CASE step = "count"
    <3>1. /\ Tally(pc', {"count"}) = Tally(pc, {"count"}) + 1
          /\ Tally(pc', Failing) = Tally(pc, Failing) + 1
          /\ Tally(pc', {"compare"}) = Tally(pc, {"compare"}) - 1
      BY <2>1, <2>2, <2>3, Moved DEF Failing
    <3> QED BY <2>1, <2>2, <3>1, <1>t DEF GuessInv
  <2>4. CASE step # "count"
    <3>1. /\ Tally(pc', {"count"}) = Tally(pc, {"count"})
          /\ Tally(pc', Failing) = Tally(pc, Failing)
          /\ Tally(pc', {"compare"}) = Tally(pc, {"compare"}) - 1
      BY <2>1, <2>2, <2>4, Moved DEF Failing
    <3> QED BY <2>1, <2>2, <2>4, <3>1, <1>t DEF GuessInv
  <2> QED BY <2>3, <2>4
<1>3. ASSUME NEW c \in Clients, RecordFailure(c) PROVE GuessInv'
  <2>1. pc[c] = "count" /\ UNCHANGED <<locked, guesses>>
    BY <1>3 DEF RecordFailure
  <2>2. CASE RedisFails /\ GoTo(c, "idle") /\ attempts' \in {attempts, attempts + 1}
    <3>1. /\ Tally(pc', {"count"}) = Tally(pc, {"count"}) - 1
          /\ Tally(pc', Failing) = Tally(pc, Failing) - 1
          /\ Tally(pc', {"compare"}) = Tally(pc, {"compare"})
      BY <2>1, <2>2, Moved DEF Failing
    <3>2. CASE attempts' = attempts
      BY <2>1, <2>2, <3>1, <3>2, <1>t, <1>r DEF GuessInv
    <3>3. CASE attempts' = attempts + 1
      BY <2>1, <2>2, <3>1, <3>3, <1>t, <1>r, TalliesAreApart DEF GuessInv
    <3> QED BY <2>2, <3>2, <3>3
  <2>3. CASE RedisWorks /\ attempts' = attempts + 1 /\ GoTo(c, "idle") /\ attempts' < MaxAttempts
    <3>1. Tally(pc', {"count"}) = Tally(pc, {"count"}) - 1
      BY <2>1, <2>3, Moved DEF Failing
    <3> QED BY <2>1, <2>3, <3>1, <1>t, <1>r DEF GuessInv
  <2>4. CASE RedisWorks /\ attempts' = attempts + 1 /\ GoTo(c, "setLock")
             /\ attempts' >= MaxAttempts
    <3>1. /\ Tally(pc', Failing) = Tally(pc, Failing)
          /\ Tally(pc', {"compare"}) = Tally(pc, {"compare"})
      BY <2>1, <2>4, Moved DEF Failing
    <3>2. attempts < MaxAttempts => guesses <= MaxAttempts - 1 + Tally(pc, {"count"}) + F
      BY <2>4, <1>t DEF GuessInv
    <3> QED BY <2>1, <2>4, <3>1, <3>2, <1>t, <1>r, TalliesAreApart DEF GuessInv
  <2> QED BY <1>3, <2>2, <2>3, <2>4, <1>t DEF RecordFailure
<1>4. ASSUME NEW c \in Clients, SetLock(c) PROVE GuessInv'
  <2>1. /\ pc[c] = "setLock" /\ GoTo(c, "idle") /\ UNCHANGED <<attempts, guesses>>
        /\ (RedisWorks /\ locked') \/ (RedisFails /\ (locked' \/ UNCHANGED locked))
    BY <1>4 DEF SetLock
  <2>2. /\ Tally(pc', {"count"}) = Tally(pc, {"count"})
        /\ Tally(pc', Failing) = Tally(pc, Failing) - 1
        /\ Tally(pc', {"compare"}) = Tally(pc, {"compare"})
    BY <2>1, Moved DEF Failing
  <2>3. CASE locked' /\ F' >= F
    BY <2>1, <2>2, <2>3, <1>t, <1>u, TalliesAreApart DEF GuessInv
  <2>4. CASE UNCHANGED locked /\ F' = F + 1
    BY <2>1, <2>2, <2>4, <1>t, <1>u DEF GuessInv
  <2> QED BY <2>1, <2>3, <2>4, <1>t, <1>r
<1>5. ASSUME NEW c \in Clients, ClearAttempts(c) \/ ClearLoginState(c) PROVE GuessInv'
  <2>1. CASE attempts' = 0 /\ guesses' = 0
    BY <2>1, <1>g
  <2>2. CASE RedisFails /\ UNCHANGED lockVars
    <3>1. /\ pc[c] \in {"clear", "unlock"}
          /\ GoTo(c, "issue") \/ GoTo(c, "idle")
      BY <1>5 DEF ClearAttempts, ClearLoginState
    <3>2. /\ Tally(pc', {"count"}) = Tally(pc, {"count"})
          /\ Tally(pc', Failing) = Tally(pc, Failing)
          /\ Tally(pc', {"compare"}) = Tally(pc, {"compare"})
      BY <3>1, Moved DEF Failing
    <3> QED BY <2>2, <3>2, <1>t, <1>r DEF GuessInv, lockVars
  <2> QED BY <1>5, <2>1, <2>2 DEF ClearAttempts, ClearLoginState, lockVars
<1>6. CASE AttemptsExpire \/ LockExpires
  BY <1>6, <1>g DEF AttemptsExpire, LockExpires
<1>7. CASE UNCHANGED <<lockVars, pc>> /\ F' = F
  BY <1>7 DEF GuessInv, lockVars, Tally, AtStep
<1>8. CASE Tick \/ Delete \/ UNCHANGED vars
  BY <1>7, <1>8 DEF Tick, Delete, Spend, vars, TypeOK
<1>9. ASSUME NEW c \in Clients, StoreBlacklist(c) PROVE GuessInv'
  <2>1. pc[c] = "blacklist" /\ GoTo(c, "idle") /\ UNCHANGED lockVars /\ F' >= F
    BY <1>9, <1>r, <1>t DEF StoreBlacklist
  <2>2. /\ Tally(pc', {"count"}) = Tally(pc, {"count"})
        /\ Tally(pc', Failing) = Tally(pc, Failing)
        /\ Tally(pc', {"compare"}) = Tally(pc, {"compare"})
    BY <2>1, Moved DEF Failing
  <2> QED BY <2>1, <2>2, <1>t, <1>u DEF GuessInv, lockVars
\* The calls that begin, and those of the tokens and of the row.
<1>10. ASSUME NEW c \in Clients,
              \E step \in Steps \ {"compare", "count", "setLock"} :
                 \E a : Begin(c, step, a),
              UNCHANGED lockVars
       PROVE  GuessInv'
  <2>1. PICK step \in Steps \ {"compare", "count", "setLock"} : \E a : Begin(c, step, a)
    BY <1>10
  <2>2. pc[c] = "idle" /\ pc' = [pc EXCEPT ![c] = step] /\ F' = F
    BY <2>1 DEF Begin, Spend, TypeOK
  <2> QED BY <1>10, <2>2, QuietMoves
<1>11. ASSUME NEW c \in Clients,
              \/ \E p \in Passwords : Login(c, p) \/ Create(c, p)
              \/ \E k \in Sessions : Refresh(c, k) \/ Logout(c, k)
              \/ SeedAdmin(c)
              \/ \E on \in BOOLEAN : Update(c, on)
              \/ \E p \in Passwords : ResetPassword(c, p) \/ ResetByCommand(c, p)
              \/ \E old, new \in Passwords : ChangePassword(c, old, new)
       PROVE  GuessInv'
  <2>1. UNCHANGED lockVars
    BY <1>11 DEF Login, Create, Refresh, Logout, SeedAdmin, Update, ResetPassword,
                 ResetByCommand, ChangePassword
  <2>2. \E step \in Steps \ {"compare", "count", "setLock"} : \E a : Begin(c, step, a)
    BY <1>11 DEF Login, Create, Refresh, Logout, SeedAdmin, Update, ResetPassword,
                 ResetByCommand, ChangePassword, Steps
  <2> QED BY <2>1, <2>2, <1>10
<1>12. ASSUME NEW c \in Clients,
              \/ Issue(c) \/ ReadForRefresh(c) \/ InsertUser(c) \/ WriteProfile(c)
              \/ UpdatePassword(c) \/ Reseed(c)
       PROVE  GuessInv'
  <2>1. UNCHANGED <<lockVars, bounds>> /\ pc[c] \notin {"compare", "count", "setLock"}
    BY <1>12 DEF Issue, ReadForRefresh, InsertUser, WriteProfile, UpdatePassword, Reseed
  <2>2. GoTo(c, "idle") \/ GoTo(c, "issue") \/ GoTo(c, "unlock")
    BY <1>12 DEF Issue, ReadForRefresh, InsertUser, WriteProfile, UpdatePassword, Reseed
  <2> QED BY <2>1, <2>2, QuietMoves DEF GoTo
<1> QED BY <1>1, <1>2, <1>3, <1>4, <1>5, <1>6, <1>8, <1>9, <1>11, <1>12 DEF Next

(* The lockout holds for any number of callers: past the limit there is at *)
(* most one guess for each of them, and one for each failed Redis command. *)
THEOREM GuessingIsBounded == Spec => []GuessesBounded
<1>1. Init => GuessInv
  <2>1. Init => attempts = 0 /\ guesses = 0 /\ bounds.faults \in Nat
    BY DEF Init
  <2> QED BY <2>1, CleanSlate
<1>2. TypeOK /\ GuessInv => GuessesBounded
  <2> SUFFICES ASSUME TypeOK, GuessInv PROVE GuessesBounded
    OBVIOUS
  <2>1. /\ Tally(pc, {"count"}) \in Nat /\ Tally(pc, Failing) \in Nat
        /\ Tally(pc, {"compare"}) \in Nat /\ Cardinality(Clients) \in Nat
        /\ Tally(pc, {"count"}) <= Cardinality(Clients)
        /\ Tally(pc, Failing) <= Cardinality(Clients)
    BY TallyType
  <2>2. attempts \in Nat /\ guesses \in Nat /\ bounds.faults \in Nat /\ locked \in BOOLEAN
        /\ MaxAttempts \in Nat
    BY AccountsAssumption DEF TypeOK
  <2> QED BY <2>1, <2>2 DEF GuessInv, GuessesBounded
<1>3. TypeOK /\ TypeOK' /\ GuessInv /\ [Next]_vars => GuessInv'
  BY GuessStep
<1> QED BY <1>1, <1>2, <1>3, TypeCorrect, PTL DEF Spec
=============================================================================
