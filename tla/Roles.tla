------------------------------- MODULE Roles --------------------------------
(***************************************************************************)
(* Roles and what they permit, in three places: the tables, the cached     *)
(* permission codes of a role in Redis, and the policy that every server   *)
(* process holds in memory and checks its requests against.  Sources:      *)
(* internal/service/role.go, internal/repo/role.go, seed.go, cache.go,     *)
(* pkg/casbin and NewApp of internal/server/server.go.                     *)
(* An actor is an administrator, with one call at a time, or a server on   *)
(* its way up.  A transaction is one action where it reads nothing it could*)
(* see change; a rule of the policy is a step, since SyncCasbin runs       *)
(* without a lock.  Names, data scope and status of a role and the cached  *)
(* list of roles, which is deleted with the codes, are left out.           *)
(***************************************************************************)
EXTENDS Integers, FiniteSets

CONSTANTS
    Servers, Admins,
    Readers,                \* requests that read a role with its codes
    RoleIds, SystemRoles,   \* the seed makes the system roles, with is_system
    Perms,                  \* pairs of a resource and an action
    SeedPerms,              \* what the seed gives to a system role
    MaxEdits, MaxStarts, MaxFaults      \* bounds

Actors == Admins \cup Servers
Pairs == RoleIds \X Perms

ASSUME RolesAssumption ==
    /\ Admins \cap Servers = {}
    /\ SystemRoles \subseteq RoleIds /\ SeedPerms \subseteq Perms
    /\ IsFiniteSet(RoleIds) /\ IsFiniteSet(Perms)
    /\ {MaxEdits, MaxStarts, MaxFaults} \subseteq Nat

VARIABLES
    row,        \* of each role: none, live, gone (soft-deleted)
    perms,      \* role_permissions
    held,       \* the roles in user_roles
    table,      \* casbin_rule
    cache,      \* role:perm_codes:<id>
    fill,       \* of each reader: the role it asks for, and the codes it loaded
    policy,     \* of each server: its enforcer's rules in memory
    up,         \* the servers that take requests
    job,        \* of each actor: the call it is in
    bounds,     \* edits, starts and faults so far
    excused,    \* history: servers with a reason for too wide a policy
    raced       \* history: roles with a reason for old codes

dbVars == <<row, perms, held>>
cacheVars == <<cache, fill, raced>>
vars == <<dbVars, cacheVars, table, policy, up, job, bounds, excused>>

Idle == [step |-> "idle", at |-> "none", role |-> "none", codes |-> {}, rules |-> {},
         sync |-> FALSE, alone |-> FALSE]
Missing == [there |-> FALSE, codes |-> {}]
NoFill == [step |-> "idle", role |-> "none", codes |-> {}, old |-> FALSE]

\* The system has been started for the first time: the seed has filled the tables,
\* and the first rule of every rewriting was refused.
Init ==
    /\ row = [r \in RoleIds |-> IF r \in SystemRoles THEN "live" ELSE "none"]
    /\ perms = [r \in RoleIds |-> IF r \in SystemRoles THEN SeedPerms ELSE {}]
    /\ held = SystemRoles
    /\ table = SystemRoles \X SeedPerms
    /\ cache = [r \in RoleIds |-> Missing]
    /\ fill = [q \in Readers |-> NoFill]
    /\ policy = [s \in Servers |-> {}]
    /\ up = Servers
    /\ job = [a \in Actors |-> Idle]
    /\ bounds = [edits |-> 0, starts |-> 0, faults |-> 0]
    /\ excused = {} /\ raced = {}

Spend(what) == bounds' = [bounds EXCEPT ![what] = @ + 1]
Fails == bounds.faults < MaxFaults /\ Spend("faults")
Works == UNCHANGED bounds

\* AllRolePermissions: the join leaves out the roles that are deleted.
AllRolePermissions == {p \in Pairs : row[p[1]] = "live" /\ p[2] \in perms[p[1]]}

\* What the rbac closure asks the enforcer; super_admin is never asked about.
Enforce(s, r, p) == <<r, p>> \in policy[s]

At(a, steps) == job[a].step \in steps
Go(a, step) == job' = [job EXCEPT ![a] = IF step = "idle" THEN Idle ELSE [@ EXCEPT !.step = step]]

Begin(a, s, step, r, codes, sync) ==
    /\ At(a, {"idle"}) /\ s \in up
    /\ bounds.edits < MaxEdits /\ Spend("edits")
    /\ job' = [job EXCEPT ![a] = [Idle EXCEPT !.step = step, !.at = s, !.role = r,
                                              !.codes = codes, !.sync = sync]]
    /\ UNCHANGED <<dbVars, cacheVars, table, policy, up, excused>>

-----------------------------------------------------------------------------
(* The policy.                                                             *)

Loaded == {"clear", "add"}
Syncing(s) == {a \in Actors : job[a].at = s /\ At(a, Loaded)}

\* After a commit through server s that may take a permission away: what other
\* actors have loaded is old, and no other server is told.
Committed(a, s, step) ==
    /\ excused' = excused \cup (Servers \ {s})
    /\ job' = [b \in Actors |-> IF b # a THEN [job[b] EXCEPT !.alone = FALSE]
                                ELSE [job[a] EXCEPT !.step = step]]

\* SyncCasbin.  Two that rewrite one policy at the same time are an excuse for
\* either, and so is a query that fails.
LoadPairs(a) ==
    LET s == job[a].at  others == Syncing(s) IN
    /\ At(a, {"load"})
    /\ \/ /\ Works
          /\ job' = [b \in Actors |->
                CASE b = a -> [job[a] EXCEPT !.step = "clear", !.rules = AllRolePermissions,
                                             !.alone = others = {}]
                  [] b \in others -> [job[b] EXCEPT !.alone = FALSE]
                  [] OTHER -> job[b]]
          /\ excused' = (IF others = {} THEN excused ELSE excused \cup {s})
          /\ UNCHANGED up
       \/ /\ Fails /\ Go(a, "idle") /\ excused' = excused \cup {s}
          /\ up' = up \cup {s}
    /\ UNCHANGED <<dbVars, cacheVars, table, policy>>

\* The rules in memory, and only these: the table keeps its own.
ClearPolicy(a) ==
    LET s == job[a].at IN
    /\ At(a, {"clear"}) /\ Go(a, "add")
    /\ policy' = [policy EXCEPT ![s] = {}]
    /\ excused' = (IF job[a].alone THEN excused \ {s} ELSE excused)
    /\ UNCHANGED <<dbVars, cacheVars, table, up, bounds>>

\* AddPolicy passes over a rule that is in memory, and writes any other to the
\* table before it is in memory ...
AddRule(a, p) ==
    LET s == job[a].at IN
    /\ Works /\ job' = [job EXCEPT ![a].rules = @ \ {p}]
    /\ \/ p \in policy[s] /\ UNCHANGED <<policy, table>>
       \/ /\ p \notin policy[s] \cup table
          /\ policy' = [policy EXCEPT ![s] = @ \cup {p}] /\ table' = table \cup {p}
    /\ UNCHANGED up

\* ... where the unique key refuses one that is there already: that, and a failing
\* insertion, which may have been made, end the rewriting where it is.
RefuseRule(a, p) ==
    LET s == job[a].at IN
    /\ p \notin policy[s] /\ Go(a, "idle") /\ up' = up \cup {s}
    /\ \/ Works /\ p \in table /\ UNCHANGED table
       \/ Fails /\ table' \in {table, table \cup {p}}
    /\ UNCHANGED policy

AddPolicy(a) ==
    /\ At(a, {"add"})
    /\ \E p \in job[a].rules : AddRule(a, p) \/ RefuseRule(a, p)
    /\ UNCHANGED <<dbVars, cacheVars, excused>>

AddedAll(a) ==
    /\ At(a, {"add"}) /\ job[a].rules = {} /\ Go(a, "save")
    /\ UNCHANGED <<dbVars, cacheVars, table, policy, up, bounds, excused>>

\* SavePolicy puts what this process holds in the place of the whole table, which
\* it empties first; its error is only logged.
SavePolicy(a) ==
    LET s == job[a].at IN
    /\ At(a, {"save"}) /\ Go(a, "idle") /\ up' = up \cup {s}
    /\ (Works /\ table' = policy[s]) \/ (Fails /\ table' \in {table, {}, policy[s]})
    /\ UNCHANGED <<dbVars, cacheVars, policy, excused>>

-----------------------------------------------------------------------------
(* The cached codes of a role.                                             *)

Asks(q, step) == fill[q].step = step
Moves(q, f) == fill' = [fill EXCEPT ![q] = f]

\* Get finds the row of the role ...
FindRow(q, r) ==
    /\ Asks(q, "idle") /\ row[r] = "live"
    /\ Moves(q, [NoFill EXCEPT !.step = "look", !.role = r])
    /\ UNCHANGED <<dbVars, cache, raced, table, policy, up, job, bounds, excused>>

\* ... and looks for its codes, where a failing look is a miss ...
LookUp(q) ==
    LET there == cache[fill[q].role].there IN
    /\ Asks(q, "look")
    /\ \/ Works /\ there /\ Moves(q, NoFill)
       \/ (Fails \/ (Works /\ ~there)) /\ Moves(q, [fill[q] EXCEPT !.step = "missed"])
    /\ UNCHANGED <<dbVars, cache, raced, table, policy, up, job, excused>>

\* ... loads them ...
LoadCodes(q) ==
    /\ Asks(q, "missed")
    /\ \/ Works /\ Moves(q, [fill[q] EXCEPT !.step = "loaded", !.codes = perms[fill[q].role]])
       \/ Fails /\ Moves(q, NoFill)
    /\ UNCHANGED <<dbVars, cache, raced, table, policy, up, job, excused>>

\* ... and sets them.  A commit since they were loaded, and one that is about to
\* come and has deleted the key already, are reasons for old codes.
PutCodes(q) ==
    LET r == fill[q].role IN
    /\ Asks(q, "loaded") /\ Moves(q, NoFill)
    /\ \/ /\ Works /\ cache' = [cache EXCEPT ![r] = [there |-> TRUE, codes |-> fill[q].codes]]
          /\ raced' = (IF fill[q].old \/ \E a \in Admins : At(a, {"commit"}) /\ job[a].role = r
                       THEN raced \cup {r} ELSE raced \ {r})
       \/ Fails /\ UNCHANGED <<cache, raced>>
    /\ UNCHANGED <<dbVars, table, policy, up, job, excused>>

\* Five minutes.
CodesExpire(r) ==
    /\ cache[r].there
    /\ cache' = [cache EXCEPT ![r] = Missing] /\ raced' = raced \ {r}
    /\ UNCHANGED <<dbVars, fill, table, policy, up, job, bounds, excused>>

\* DeletePattern role:perm_codes:*, whose error nobody looks at.
DeleteCodes ==
    \/ /\ Works /\ cache' = [r \in RoleIds |-> Missing] /\ raced' = {}
    \/ /\ Fails /\ UNCHANGED cache
       /\ raced' = raced \cup {r \in RoleIds : cache[r].there}

\* The permissions of these roles change: what readers have loaded is old.
Aged(changed) ==
    fill' = [q \in Readers |-> IF fill[q].step = "loaded" /\ fill[q].role \in changed
                               THEN [fill[q] EXCEPT !.old = TRUE] ELSE fill[q]]

-----------------------------------------------------------------------------
(* The administration.                                                     *)

CreateRole(a, s, r, codes) == row[r] # "live" /\ Begin(a, s, "insert", r, codes, codes # {})

\* The unique key on the code counts deleted roles too.
InsertRole(a) ==
    LET r == job[a].role IN
    /\ At(a, {"insert"})
    /\ IF row[r] = "none"
       THEN /\ row' = [row EXCEPT ![r] = "live"]
            /\ perms' = [perms EXCEPT ![r] = job[a].codes]
            /\ Go(a, IF job[a].sync THEN "load" ELSE "idle")
       ELSE Go(a, "idle") /\ UNCHANGED <<row, perms>>
    /\ UNCHANGED <<held, cacheVars, table, policy, up, bounds, excused>>

\* Update, with or without a list of permissions.
UpdateRole(a, s, r, codes, sync) == row[r] = "live" /\ Begin(a, s, "edit", r, codes, sync)

\* Mutant: the codes stay in the cache.
EditRoleKeepsCodes(a) ==
    /\ At(a, {"edit"})
    /\ \A b \in Admins : ~(At(b, {"commit"}) /\ job[b].role = job[a].role)
    /\ Go(a, IF job[a].sync THEN "commit" ELSE "idle")
    /\ UNCHANGED <<dbVars, cacheVars, table, policy, up, bounds, excused>>

\* In the transaction: the row, which stays locked, and the cached codes of all
\* roles, before the permissions are written ...
EditRole(a) ==
    /\ At(a, {"edit"})
    /\ \A b \in Admins : ~(At(b, {"commit"}) /\ job[b].role = job[a].role)
    /\ Go(a, IF job[a].sync THEN "commit" ELSE "idle")
    /\ DeleteCodes
    /\ UNCHANGED <<dbVars, fill, table, policy, up, excused>>

\* ... and SetRolePermissions, and the end of the transaction.
CommitPermissions(a) ==
    LET r == job[a].role IN
    /\ At(a, {"commit"}) /\ Committed(a, job[a].at, "load")
    /\ perms' = [perms EXCEPT ![r] = job[a].codes]
    /\ Aged({r})
    /\ UNCHANGED <<row, held, cache, raced, table, policy, up, bounds>>

\* Delete counts the users of the role in its transaction ...
DeleteRole(a, s, r) ==
    /\ row[r] = "live" /\ r \notin SystemRoles /\ r \notin held
    /\ Begin(a, s, "remove", r, {}, TRUE)

\* ... and deletes it there, whoever was given it meanwhile; another one may
\* have deleted it, which is not found out here.
RemoveRole(a) ==
    LET r == job[a].role IN
    /\ At(a, {"remove"})
    /\ \A b \in Admins : ~(At(b, {"commit"}) /\ job[b].role = r)
    /\ row' = [row EXCEPT ![r] = "gone"] /\ perms' = [perms EXCEPT ![r] = {}]
    /\ Committed(a, job[a].at, "uncache") /\ Aged({r})
    /\ UNCHANGED <<held, cache, raced, table, policy, up, bounds>>

\* Mutant: Delete leaves the policy to the next edit.
UncacheRoleUnsynced(a) ==
    /\ At(a, {"uncache"}) /\ Go(a, "idle")
    /\ DeleteCodes
    /\ UNCHANGED <<dbVars, fill, table, policy, up, excused>>

UncacheRole(a) ==
    /\ At(a, {"uncache"}) /\ Go(a, "load")
    /\ DeleteCodes
    /\ UNCHANGED <<dbVars, fill, table, policy, up, excused>>

\* SetRoles of the user service: any ids, whether or not there are such roles.
AssignRoles(rs) ==
    /\ bounds.edits < MaxEdits /\ Spend("edits")
    /\ held' = rs
    /\ UNCHANGED <<row, perms, cacheVars, table, policy, up, job, excused>>

-----------------------------------------------------------------------------
(* A server process ends, and starts again.                                *)

\* The enforcer of the new process starts with the table.
NewEnforcer(s) == policy' = [policy EXCEPT ![s] = table]

Seeds == SystemRoles \X SeedPerms

\* Whatever calls it was in end with it; an open transaction is rolled back.
Restart(s) ==
    /\ bounds.starts < MaxStarts /\ Spend("starts")
    /\ up' = up \ {s}
    /\ job' = [a \in Actors |->
          IF a = s THEN [Idle EXCEPT !.step = "seed", !.at = s, !.rules = Seeds]
          ELSE IF job[a].at = s THEN Idle ELSE job[a]]
    /\ NewEnforcer(s)
    /\ UNCHANGED <<dbVars, cacheVars, table, excused>>

\* A permission the system role has not comes back to it, also when an administrator
\* took it away; the cached codes are left.
Give(r, p) ==
    LET new == p \notin perms[r] IN
    /\ perms' = [perms EXCEPT ![r] = @ \cup {p}]
    /\ Aged(IF new THEN {r} ELSE {})
    /\ raced' = (IF new /\ cache[r].there THEN raced \cup {r} ELSE raced)

\* The seed inserts one permission after the other.  An error, here and below, ends
\* the seed, but not the start.
SeedPermission(s) ==
    /\ At(s, {"seed"})
    /\ \E p \in job[s].rules :
          \/ Works /\ Give(p[1], p[2]) /\ job' = [job EXCEPT ![s].rules = @ \ {p}]
          \/ /\ Fails /\ Go(s, "load")
             /\ Give(p[1], p[2]) \/ UNCHANGED <<perms, fill, raced>>
    /\ UNCHANGED <<row, held, cache, table, policy, up, excused>>

SeededPermissions(s) ==
    /\ At(s, {"seed"}) /\ job[s].rules = {}
    /\ job' = [job EXCEPT ![s].step = "count", ![s].rules = Seeds]
    /\ UNCHANGED <<dbVars, cacheVars, table, policy, up, bounds, excused>>

\* The rules: each is counted ...
CountRule(s) ==
    /\ At(s, {"count"})
    /\ \/ /\ Works
          /\ \E p \in job[s].rules :
                job' = [job EXCEPT ![s].rules = @ \ {p},
                                   ![s].step = IF p \in table THEN "count" ELSE "create",
                                   ![s].role = p[1], ![s].codes = {p[2]}]
       \/ Fails /\ job[s].rules # {} /\ Go(s, "load")
    /\ UNCHANGED <<dbVars, cacheVars, table, policy, up, excused>>

\* ... and created, unless somebody else has done so by then.
CreateRule(s) ==
    LET p == {job[s].role} \X job[s].codes IN
    /\ At(s, {"create"})
    /\ \/ Works /\ p \cap table = {} /\ table' = table \cup p /\ Go(s, "count")
       \/ Works /\ p \cap table # {} /\ UNCHANGED table /\ Go(s, "load")
       \/ Fails /\ table' \in {table, table \cup p} /\ Go(s, "load")
    /\ UNCHANGED <<dbVars, cacheVars, policy, up, excused>>

SeededRules(s) ==
    /\ At(s, {"count"}) /\ job[s].rules = {} /\ Go(s, "load")
    /\ UNCHANGED <<dbVars, cacheVars, table, policy, up, bounds, excused>>

Next ==
    \/ \E a \in Admins :
          \/ \E s \in Servers, r \in RoleIds :
                \/ DeleteRole(a, s, r)
                \/ \E codes \in SUBSET Perms :
                      \/ CreateRole(a, s, r, codes)
                      \/ \E sync \in BOOLEAN : UpdateRole(a, s, r, codes, sync)
          \/ InsertRole(a) \/ EditRole(a) \/ CommitPermissions(a)
          \/ RemoveRole(a) \/ UncacheRole(a)
    \/ \E a \in Actors :
          LoadPairs(a) \/ ClearPolicy(a) \/ AddPolicy(a) \/ AddedAll(a) \/ SavePolicy(a)
    \/ \E q \in Readers :
          LookUp(q) \/ LoadCodes(q) \/ PutCodes(q) \/ \E r \in RoleIds : FindRow(q, r)
    \/ \E r \in RoleIds : CodesExpire(r)
    \/ \E rs \in SUBSET RoleIds : AssignRoles(rs)
    \/ \E s \in Servers :
          \/ Restart(s) \/ SeedPermission(s) \/ SeededPermissions(s)
          \/ CountRule(s) \/ CreateRule(s) \/ SeededRules(s)

Spec == Init /\ [][Next]_vars

-----------------------------------------------------------------------------
Steps == {"idle", "insert", "edit", "commit", "remove", "uncache",
          "seed", "count", "create", "load", "clear", "add", "save"}

TypeOK ==
    /\ row \in [RoleIds -> {"none", "live", "gone"}]
    /\ perms \in [RoleIds -> SUBSET Perms] /\ held \subseteq RoleIds
    /\ table \subseteq Pairs /\ policy \in [Servers -> SUBSET Pairs] /\ up \subseteq Servers
    /\ cache \in [RoleIds -> [there : BOOLEAN, codes : SUBSET Perms]]
    /\ fill \in [Readers -> [step : {"idle", "look", "missed", "loaded"},
                             role : RoleIds \cup {"none"}, codes : SUBSET Perms, old : BOOLEAN]]
    /\ \A q \in Readers : ~Asks(q, "idle") => fill[q].role \in RoleIds
    /\ job \in [Actors -> [step : Steps, at : Servers \cup {"none"},
                           role : RoleIds \cup {"none"}, codes : SUBSET Perms,
                           rules : SUBSET Pairs, sync : BOOLEAN, alone : BOOLEAN]]
    /\ bounds \in [{"edits", "starts", "faults"} -> Nat]
    /\ excused \subseteq Servers /\ raced \subseteq RoleIds

\* No call through s has committed without having cleared the policy since.
Settled(s) == \A a \in Actors : job[a].at = s => At(a, {"idle", "insert", "edit", "commit",
                                                       "remove", "add", "save"})

\* A server that takes requests permits nothing that the tables do not permit, as
\* soon as its own edits have cleared its policy, while the policy is filled again
\* and after that, wherever the filling ends.  The only reasons for too wide a
\* policy are an edit or a removal through another server, two rewritings at the same
\* time, and one that could not load; each lasts until a rewriting that has s for
\* itself, and has loaded after the last commit, clears the policy.
PolicyDoesNotExceed ==
    \A s \in up \ excused : Settled(s) =>
        \A r \in RoleIds, p \in Perms : Enforce(s, r, p) => <<r, p>> \in AllRolePermissions

\* The cached codes of a role differ from the tables only when a reader set what it
\* had loaded before a commit, set it between the deletion of the key and the
\* commit, the deletion failed, or a start gave permissions back.
StaleCodesHaveCause ==
    \A r \in RoleIds \ raced : row[r] = "live" /\ cache[r].there => cache[r].codes = perms[r]
=============================================================================
