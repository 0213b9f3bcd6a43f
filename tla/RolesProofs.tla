----------------------------- MODULE RolesProofs ------------------------------
(***************************************************************************)
(* Proofs about Roles, for any servers, administrators, roles, permissions *)
(* and bounds: the types, and that neither does the policy of a server     *)
(* exceed the tables nor are the cached codes of a role old without a cause.*)
(***************************************************************************)
EXTENDS Roles, TLAPS

Jobs == [step : Steps, at : Servers \cup {"none"}, role : RoleIds \cup {"none"},
         codes : SUBSET Perms, rules : SUBSET Pairs, sync : BOOLEAN, alone : BOOLEAN]
Fills == [step : {"idle", "look", "missed", "loaded"}, role : RoleIds \cup {"none"},
          codes : SUBSET Perms, old : BOOLEAN]
Counts == [{"edits", "starts", "faults"} -> Nat]

\* A call is at a server, that of a server at itself, and a rule that the seed is
\* about to create is that of a role.
JobsInv ==
    /\ \A a \in Actors : ~At(a, {"idle"}) => job[a].at \in Servers
    /\ \A s \in Servers : ~At(s, {"idle"}) => job[s].at = s
    /\ \A s \in Servers : At(s, {"create"}) => job[s].role \in RoleIds

-------------------------------------------------------------------------------
(* The policy.                                                             *)

\* One that rewrites a policy alone has nothing to add that the tables do not permit.
RulesOf(a) ==
    At(a, Loaded) /\ job[a].alone =>
        /\ \A b \in Actors : job[b].at = job[a].at /\ At(b, Loaded) => b = a
        /\ job[a].rules \subseteq AllRolePermissions

\* Where no rewriting is about to begin, nor to clear the policy, there is nothing
\* in it and nothing to be added that the tables do not permit.
Begins == {"uncache", "seed", "count", "create", "load"}
Pending(s) == \E a \in Actors : job[a].at = s /\ At(a, Begins)
PolicyOf(s) ==
    s \notin excused /\ ~Pending(s) =>
        /\ \A a \in Actors : job[a].at = s /\ At(a, Loaded) => job[a].rules \subseteq AllRolePermissions
        /\ (\A a \in Actors : job[a].at = s => ~At(a, {"clear"}))
              => policy[s] \subseteq AllRolePermissions

PolicyInv == (\A a \in Actors : RulesOf(a)) /\ (\A s \in Servers : PolicyOf(s))

-------------------------------------------------------------------------------
(* The cached codes.                                                       *)

CodesOf(r) ==
    /\ row[r] = "none" => ~cache[r].there
    /\ row[r] = "live" /\ cache[r].there /\ r \notin raced =>
          /\ cache[r].codes = perms[r]
          /\ \A a \in Admins : At(a, {"commit"}) => job[a].role # r

\* A reader asks for a role that there is or was.
FillOf(q) ==
    /\ ~Asks(q, "idle") => row[fill[q].role] # "none"
    /\ Asks(q, "loaded") /\ ~fill[q].old => fill[q].codes = perms[fill[q].role]

CodesInv == (\A r \in RoleIds : CodesOf(r)) /\ (\A q \in Readers : FillOf(q))

-------------------------------------------------------------------------------
(* How the calls move.                                                     *)

Kept(a) == /\ job'[a].at = job[a].at /\ job'[a].role = job[a].role
           /\ job'[a].codes = job[a].codes /\ job'[a].sync = job[a].sync

LEMMA IdleIsTyped == Idle \in Jobs
BY DEF Idle, Jobs, Steps

LEMMA GoMoves ==
    ASSUME TypeOK, NEW a \in Actors, NEW step \in Steps, Go(a, step)
    PROVE  /\ job' \in [Actors -> Jobs] /\ job'[a].step = step
           /\ \A b \in Actors : b # a => job'[b] = job[b]
           /\ step # "idle" => /\ Kept(a) /\ job'[a].rules = job[a].rules
                              /\ job'[a].alone = job[a].alone
<1> DEFINE j == IF step = "idle" THEN Idle ELSE [job[a] EXCEPT !.step = step]
<1>1. job \in [Actors -> Jobs]
  BY DEF TypeOK, Jobs
<1>2. job' = [job EXCEPT ![a] = j]
  BY <1>1 DEF Go
<1>3. /\ j \in Jobs /\ j.step = step
      /\ step # "idle" => /\ j.at = job[a].at /\ j.role = job[a].role /\ j.codes = job[a].codes
                         /\ j.rules = job[a].rules /\ j.sync = job[a].sync
                         /\ j.alone = job[a].alone
  <2>1. CASE step = "idle"
    BY <2>1, IdleIsTyped DEF Idle
  <2>2. CASE step # "idle"
    BY <1>1, <2>2 DEF Jobs
  <2> QED BY <2>1, <2>2
<1> HIDE DEF j
<1> QED BY <1>1, <1>2, <1>3 DEF Kept

LEMMA CommittedMoves ==
    ASSUME TypeOK, NEW a \in Actors, NEW s \in Servers, NEW step \in {"load", "uncache"},
           Committed(a, s, step)
    PROVE  /\ job' \in [Actors -> Jobs] /\ job'[a].step = step /\ Kept(a)
           /\ \A b \in Actors : b # a => /\ job'[b].step = job[b].step /\ Kept(b)
                                        /\ ~job'[b].alone
           /\ excused' = excused \cup (Servers \ {s}) /\ excused' \subseteq Servers
<1>1. job \in [Actors -> Jobs]
  BY DEF TypeOK, Jobs
<1>2. job' = [b \in Actors |-> IF b # a THEN [job[b] EXCEPT !.alone = FALSE]
                                       ELSE [job[a] EXCEPT !.step = step]]
  BY DEF Committed
<1>3. \A b \in Actors : /\ [job[b] EXCEPT !.alone = FALSE] \in Jobs
                        /\ [job[b] EXCEPT !.step = step] \in Jobs
  BY <1>1 DEF Jobs, Steps
<1>4. /\ job' \in [Actors -> Jobs] /\ job'[a].step = step /\ Kept(a)
  BY <1>1, <1>2, <1>3 DEF Kept, Jobs
<1>5. ASSUME NEW b \in Actors, b # a
      PROVE  job'[b].step = job[b].step /\ Kept(b) /\ ~job'[b].alone
  BY <1>1, <1>2, <1>5 DEF Kept, Jobs
<1>6. excused' = excused \cup (Servers \ {s}) /\ excused' \subseteq Servers
  BY DEF Committed, TypeOK
<1> QED BY <1>4, <1>5, <1>6

\* A rewriting that has loaded its rules, and one whose query failed.
LEMMA LoadMoves ==
    ASSUME TypeOK, NEW a \in Actors, LoadPairs(a), job'[a].step # "idle"
    PROVE  /\ job' \in [Actors -> Jobs]
           /\ job'[a].step = "clear" /\ Kept(a) /\ job'[a].rules = AllRolePermissions
           /\ job'[a].alone = (Syncing(job[a].at) = {})
           /\ \A b \in Actors : b # a =>
                 /\ job'[b].step = job[b].step /\ Kept(b) /\ job'[b].rules = job[b].rules
                 /\ job'[b].alone = (b \notin Syncing(job[a].at) /\ job[b].alone)
           /\ excused' = (IF Syncing(job[a].at) = {} THEN excused ELSE excused \cup {job[a].at})
           /\ UNCHANGED up /\ Works
<1> DEFINE others == Syncing(job[a].at)
           mine == [job[a] EXCEPT !.step = "clear", !.rules = AllRolePermissions,
                                  !.alone = others = {}]
<1>1. job \in [Actors -> Jobs] /\ AllRolePermissions \subseteq Pairs
  BY DEF TypeOK, Jobs, AllRolePermissions
<1>2. a \notin others
  BY DEF LoadPairs, At, Syncing, Loaded
<1>3. /\ job' = [b \in Actors |-> IF b = a THEN mine
                     ELSE IF b \in others THEN [job[b] EXCEPT !.alone = FALSE] ELSE job[b]]
      /\ excused' = (IF others = {} THEN excused ELSE excused \cup {job[a].at})
      /\ UNCHANGED up /\ Works
  <2>1. ~Go(a, "idle")
    BY <1>1, GoMoves DEF Steps
  <2> HIDE DEF mine
  <2>2. job' = [b \in Actors |-> CASE b = a -> mine
                  [] b \in others -> [job[b] EXCEPT !.alone = FALSE] [] OTHER -> job[b]]
    BY <2>1 DEF LoadPairs, mine
  <2>3. job' = [b \in Actors |-> IF b = a THEN mine
                  ELSE IF b \in others THEN [job[b] EXCEPT !.alone = FALSE] ELSE job[b]]
    BY <1>2, <2>2
  <2> QED BY <2>1, <2>3 DEF LoadPairs
<1>4. /\ mine \in Jobs /\ mine.step = "clear" /\ mine.at = job[a].at /\ mine.sync = job[a].sync
      /\ mine.role = job[a].role /\ mine.codes = job[a].codes
      /\ mine.rules = AllRolePermissions /\ mine.alone = (others = {})
  BY <1>1 DEF Jobs, Steps, Loaded
<1>5. \A b \in Actors : [job[b] EXCEPT !.alone = FALSE] \in Jobs
  BY <1>1 DEF Jobs
<1> HIDE DEF mine, others
<1>6. job' \in [Actors -> Jobs] /\ job'[a] = mine
  BY <1>1, <1>3, <1>4, <1>5
<1>7. ASSUME NEW b \in Actors, b # a
      PROVE  /\ job'[b].step = job[b].step /\ Kept(b) /\ job'[b].rules = job[b].rules
             /\ job'[b].alone = (b \notin others /\ job[b].alone)
  BY <1>1, <1>3, <1>7 DEF Kept, Jobs
<1> QED BY <1>3, <1>4, <1>6, <1>7 DEF others, Kept

LEMMA LoadFails ==
    ASSUME TypeOK, NEW a \in Actors, LoadPairs(a), job'[a].step = "idle"
    PROVE  /\ Fails /\ Go(a, "idle")
           /\ excused' = excused \cup {job[a].at} /\ up' = up \cup {job[a].at}
<1>1. job \in [Actors -> Jobs]
  BY DEF TypeOK, Jobs
<1>2. SUFFICES ASSUME job' = [b \in Actors |->
                CASE b = a -> [job[a] EXCEPT !.step = "clear", !.rules = AllRolePermissions,
                                             !.alone = Syncing(job[a].at) = {}]
                  [] b \in Syncing(job[a].at) -> [job[b] EXCEPT !.alone = FALSE]
                  [] OTHER -> job[b]]
                 PROVE  FALSE
  BY DEF LoadPairs
<1>3. a \notin Syncing(job[a].at)
  BY DEF LoadPairs, At, Syncing, Loaded
<1>4. job'[a] = [job[a] EXCEPT !.step = "clear", !.rules = AllRolePermissions,
                             !.alone = Syncing(job[a].at) = {}]
  BY <1>2, <1>3
<1>5. job'[a].step = "clear"
  BY <1>1, <1>4 DEF Jobs
<1> QED BY <1>5

\* A rule that is passed over or goes into the policy, and one that ends the rewriting.
LEMMA AddMoves ==
    ASSUME TypeOK, NEW a \in Actors, AddPolicy(a), job'[a].step # "idle", job[a].at \in Servers
    PROVE  /\ Works /\ job' \in [Actors -> Jobs] /\ Kept(a)
           /\ job'[a].step = "add" /\ job'[a].rules \subseteq job[a].rules
           /\ job'[a].alone = job[a].alone
           /\ \A b \in Actors : b # a => job'[b] = job[b]
           /\ UNCHANGED <<up, excused>> /\ table' \subseteq Pairs
           /\ policy' \in [Servers -> SUBSET Pairs]
           /\ policy'[job[a].at] \subseteq policy[job[a].at] \cup job[a].rules
           /\ \A t \in Servers : t # job[a].at => policy'[t] = policy[t]
<1> DEFINE s == job[a].at
<1>1. job \in [Actors -> Jobs] /\ job[a].rules \subseteq Pairs
  BY DEF TypeOK, Jobs
<1>2. ~Go(a, "idle")
  BY GoMoves DEF Steps
<1>3. PICK p \in job[a].rules : AddRule(a, p)
  BY <1>2 DEF AddPolicy, RefuseRule
<1>4. [job[a] EXCEPT !.rules = @ \ {p}] \in Jobs
  BY <1>1 DEF Jobs
<1>5. /\ job' \in [Actors -> Jobs] /\ Kept(a)
      /\ job'[a].step = job[a].step /\ job'[a].rules = job[a].rules \ {p}
      /\ job'[a].alone = job[a].alone
      /\ \A b \in Actors : b # a => job'[b] = job[b]
  BY <1>1, <1>3, <1>4 DEF AddRule, Kept, Jobs
<1>6. p \in Pairs /\ policy \in [Servers -> SUBSET Pairs] /\ table \subseteq Pairs
  BY <1>1 DEF TypeOK
<1>7. /\ table' \subseteq Pairs /\ policy' \in [Servers -> SUBSET Pairs]
      /\ policy'[s] \subseteq policy[s] \cup {p}
      /\ \A t \in Servers : t # s => policy'[t] = policy[t]
  <2>1. CASE UNCHANGED <<policy, table>>
    BY <1>6, <2>1
  <2>2. CASE policy' = [policy EXCEPT ![s] = @ \cup {p}] /\ table' = table \cup {p}
    BY <1>6, <2>2
  <2> QED BY <1>3, <2>1, <2>2 DEF AddRule
<1> QED BY <1>3, <1>5, <1>7 DEF AddPolicy, AddRule, At

LEMMA AddFails ==
    ASSUME TypeOK, NEW a \in Actors, AddPolicy(a), job'[a].step = "idle"
    PROVE  /\ Works \/ Fails
           /\ Go(a, "idle") /\ UNCHANGED <<policy, excused>>
           /\ table' \subseteq Pairs /\ up' = up \cup {job[a].at}
<1>1. job \in [Actors -> Jobs] /\ job[a].step = "add"
  BY DEF TypeOK, Jobs, AddPolicy, At
<1>2. ASSUME NEW p, AddRule(a, p) PROVE FALSE
  <2>1. job' = [job EXCEPT ![a].rules = @ \ {p}]
    BY <1>2 DEF AddRule
  <2> QED BY <1>1, <2>1 DEF Jobs
<1>3. PICK p \in job[a].rules : RefuseRule(a, p)
  BY <1>2 DEF AddPolicy
<1>4. p \in Pairs /\ table \subseteq Pairs
  BY <1>1 DEF TypeOK, Jobs
<1> QED BY <1>3, <1>4 DEF AddPolicy, RefuseRule

\* What the seed adds to the permissions and to the table.
LEMMA GivenIsTyped ==
    ASSUME TypeOK, NEW r \in RoleIds, NEW p \in Perms, Give(r, p)
    PROVE  /\ perms' \in [RoleIds -> SUBSET Perms] /\ raced' \subseteq RoleIds
           /\ \A q \in RoleIds : perms[q] \subseteq perms'[q]
BY DEF Give, TypeOK

Seeding(s) ==
    \/ SeedPermission(s) \/ SeededPermissions(s) \/ CountRule(s) \/ CreateRule(s)
    \/ SeededRules(s)

LEMMA SeedMoves ==
    ASSUME TypeOK, JobsInv, NEW s \in Servers, Seeding(s)
    PROVE  /\ job' \in [Actors -> Jobs] /\ job'[s].at = s /\ job[s].at = s
           /\ At(s, {"seed", "count", "create"})
           /\ At(s, {"seed", "count", "create", "load"})'
           /\ At(s, {"create"})' => job'[s].role \in RoleIds
           /\ \A b \in Actors : b # s => job'[b] = job[b]
           /\ Works \/ Fails
           /\ UNCHANGED <<row, held, policy, up, excused, cache>>
<1>0. /\ s \in Actors /\ job \in [Actors -> Jobs] /\ job[s].at = s
      /\ At(s, {"seed", "count", "create"}) /\ job[s].rules \subseteq Pairs
  BY DEF Actors, TypeOK, Jobs, JobsInv, At, Seeding, SeedPermission, SeededPermissions,
         CountRule, CreateRule, SeededRules
<1>1. ASSUME NEW step \in {"load", "count"}, Go(s, step)
      PROVE  /\ job' \in [Actors -> Jobs] /\ job'[s].at = s /\ job'[s].step = step
             /\ \A b \in Actors : b # s => job'[b] = job[b]
  BY <1>0, <1>1, GoMoves DEF Kept, Steps
<1>2. ASSUME NEW j \in Jobs, job' = [job EXCEPT ![s] = j], j.at = s,
             j.step \in {"seed", "count", "create", "load"},
             j.step = "create" => j.role \in RoleIds
      PROVE  /\ job' \in [Actors -> Jobs] /\ job'[s].at = s
             /\ At(s, {"seed", "count", "create", "load"})'
             /\ At(s, {"create"})' => job'[s].role \in RoleIds
             /\ \A b \in Actors : b # s => job'[b] = job[b]
  BY <1>0, <1>2 DEF At
<1>3. CASE SeedPermission(s)
  <2>1. ASSUME NEW p \in job[s].rules, job' = [job EXCEPT ![s].rules = @ \ {p}]
        PROVE  /\ job' \in [Actors -> Jobs] /\ job'[s].at = s /\ At(s, {"seed"})'
               /\ \A b \in Actors : b # s => job'[b] = job[b]
    <3> DEFINE j == [job[s] EXCEPT !.rules = @ \ {p}]
    <3>1. j \in Jobs /\ j.at = s /\ j.step = "seed"
      BY <1>0, <1>3 DEF Jobs, SeedPermission, At
    <3>2. job' = [job EXCEPT ![s] = j]
      BY <1>0, <2>1
    <3> HIDE DEF j
    <3> QED BY <1>0, <3>1, <3>2 DEF At
  <2> QED BY <1>0, <1>1, <1>3, <2>1 DEF SeedPermission, Give, At
<1>4. CASE SeededPermissions(s)
  <2> DEFINE j == [job[s] EXCEPT !.step = "count", !.rules = Seeds]
  <2>0. Seeds \in SUBSET Pairs
    BY RolesAssumption DEF Seeds, Pairs
  <2>1. j \in Jobs /\ j.at = s /\ j.step = "count"
    BY <1>0, <2>0 DEF Jobs, Steps
  <2>2. job' = [job EXCEPT ![s] = j]
    BY <1>0, <1>4 DEF SeededPermissions
  <2> HIDE DEF j
  <2> QED BY <1>0, <1>2, <1>4, <2>1, <2>2 DEF SeededPermissions, Works, dbVars, cacheVars
<1>5. CASE CountRule(s)
  <2>1. ASSUME NEW p \in job[s].rules,
               job' = [job EXCEPT ![s].rules = @ \ {p},
                                  ![s].step = IF p \in table THEN "count" ELSE "create",
                                  ![s].role = p[1], ![s].codes = {p[2]}]
        PROVE  /\ job' \in [Actors -> Jobs] /\ job'[s].at = s
               /\ At(s, {"seed", "count", "create", "load"})'
               /\ At(s, {"create"})' => job'[s].role \in RoleIds
               /\ \A b \in Actors : b # s => job'[b] = job[b]
    <3> DEFINE j == [job[s] EXCEPT !.rules = @ \ {p},
                                   !.step = IF p \in table THEN "count" ELSE "create",
                                   !.role = p[1], !.codes = {p[2]}]
    <3>1. p[1] \in RoleIds /\ p[2] \in Perms
      BY <1>0 DEF Pairs
    <3>2. j \in Jobs /\ j.at = s /\ j.step \in {"count", "create"} /\ j.role \in RoleIds
      BY <1>0, <3>1 DEF Jobs, Steps
    <3>3. job' = [job EXCEPT ![s] = j]
      BY <1>0, <2>1
    <3> HIDE DEF j
    <3> QED BY <1>2, <3>2, <3>3
  <2> QED BY <1>0, <1>1, <1>5, <2>1 DEF CountRule, dbVars, cacheVars, At
<1>6. CASE CreateRule(s)
  BY <1>0, <1>1, <1>6 DEF CreateRule, dbVars, cacheVars, At
<1>7. CASE SeededRules(s)
  BY <1>0, <1>1, <1>7 DEF SeededRules, Works, dbVars, cacheVars, At
<1> QED BY <1>3, <1>4, <1>5, <1>6, <1>7 DEF Seeding

\* What the roles may do only grows when the seed adds to it, or a new role comes.
LEMMA PermissionsGrow ==
    ASSUME TypeOK, \A r \in RoleIds : row[r] = "live" => row'[r] = "live" /\ perms[r] \subseteq perms'[r]
    PROVE  AllRolePermissions \subseteq AllRolePermissions'
BY DEF AllRolePermissions, Pairs

LEMMA SeedGives ==
    ASSUME TypeOK, JobsInv, NEW s \in Servers, Seeding(s)
    PROVE  /\ perms' \in [RoleIds -> SUBSET Perms] /\ table' \subseteq Pairs
           /\ \/ UNCHANGED <<perms, raced, fill>>
              \/ \E r \in RoleIds, p \in Perms : Give(r, p)
           /\ \A q \in RoleIds : perms[q] \subseteq perms'[q]
<1>1. perms \in [RoleIds -> SUBSET Perms] /\ table \subseteq Pairs
      /\ job[s].rules \subseteq Pairs /\ job[s].codes \subseteq Perms
  BY DEF TypeOK, Actors
<1>2. CASE SeedPermission(s)
  <2>1. PICK p \in job[s].rules : Give(p[1], p[2]) \/ UNCHANGED <<perms, fill, raced>>
    BY <1>2 DEF SeedPermission
  <2>2. p[1] \in RoleIds /\ p[2] \in Perms
    BY <1>1 DEF Pairs
  <2> QED BY <1>1, <1>2, <2>1, <2>2, GivenIsTyped DEF SeedPermission
<1>3. CASE CreateRule(s)
  <2>1. job[s].role \in RoleIds
    BY <1>3 DEF CreateRule, JobsInv, At
  <2> QED BY <1>1, <1>3, <2>1 DEF CreateRule, dbVars, cacheVars, Pairs
<1>4. CASE SeededPermissions(s) \/ CountRule(s) \/ SeededRules(s)
  BY <1>1, <1>4 DEF SeededPermissions, CountRule, SeededRules, dbVars, cacheVars
<1> QED BY <1>2, <1>3, <1>4 DEF Seeding

\* A call begins.
LEMMA CallsStart ==
    ASSUME TypeOK, NEW a \in Admins, NEW s \in Servers, NEW r \in RoleIds,
           \/ DeleteRole(a, s, r)
           \/ \E codes \in SUBSET Perms :
                 \/ CreateRole(a, s, r, codes)
                 \/ \E sync \in BOOLEAN : UpdateRole(a, s, r, codes, sync)
    PROVE  /\ At(a, {"idle"}) /\ At(a, {"insert", "edit", "remove"})'
           /\ \A b \in Actors : b # a => job'[b] = job[b]
           /\ UNCHANGED <<row, perms, cacheVars, policy, excused>>
<1>1. PICK step \in {"insert", "edit", "remove"}, codes \in SUBSET Perms, sync \in BOOLEAN :
         Begin(a, s, step, r, codes, sync)
  BY DEF DeleteRole, CreateRole, UpdateRole
<1> DEFINE j == [Idle EXCEPT !.step = step, !.at = s, !.role = r, !.codes = codes, !.sync = sync]
<1>2. job \in [Actors -> Jobs] /\ a \in Actors /\ j.step = step /\ job' = [job EXCEPT ![a] = j]
  BY <1>1 DEF TypeOK, Jobs, Actors, Begin, Idle
<1> HIDE DEF j
<1>3. job'[a].step = step /\ \A b \in Actors : b # a => job'[b] = job[b]
  BY <1>2
<1>4. At(a, {"idle"}) /\ UNCHANGED <<row, perms, cacheVars, policy, excused>>
  BY <1>1 DEF Begin, dbVars
<1> QED BY <1>3, <1>4 DEF At

-------------------------------------------------------------------------------
(* Types, and where the calls are.                                         *)

\* The calls keep their places when each stays where it was, or ends, and no new
\* one starts.
LEMMA PlacesHold ==
    ASSUME JobsInv, job' \in [Actors -> Jobs],
           \A b \in Actors :
              \/ At(b, {"idle"})'
              \/ /\ Kept(b) /\ ~At(b, {"idle"})
                 /\ job'[b].step = "create" => job[b].step = "create"
    PROVE  JobsInv'
<1>1. \A s \in Servers : s \in Actors
  BY DEF Actors
<1> QED BY <1>1 DEF JobsInv, At, Kept

LEMMA FaultsAreTyped ==
    ASSUME TypeOK, Works \/ Fails
    PROVE  bounds' \in Counts
BY DEF TypeOK, Works, Fails, Spend, Counts

LEMMA RewritingIsTyped ==
    ASSUME TypeOK, JobsInv, NEW a \in Actors,
           LoadPairs(a) \/ ClearPolicy(a) \/ AddPolicy(a) \/ AddedAll(a) \/ SavePolicy(a)
    PROVE  TypeOK' /\ JobsInv'
<1> USE DEF Jobs, Counts
<1>1. job[a].at \in Servers
  BY DEF JobsInv, At, LoadPairs, ClearPolicy, AddPolicy, AddedAll, SavePolicy
<1>2. CASE LoadPairs(a)
  <2>0. ~At(a, {"idle"})
    BY <1>2 DEF LoadPairs, At
  <2>1. CASE job'[a].step = "idle"
    <3>1. JobsInv'
      BY <1>2, <2>1, LoadFails, GoMoves, PlacesHold DEF At, Steps, Kept
    <3> QED BY <1>1, <1>2, <2>1, <3>1, LoadFails, GoMoves, FaultsAreTyped
            DEF TypeOK, Asks, LoadPairs, dbVars, cacheVars, Steps
  <2>2. CASE job'[a].step # "idle"
    <3>1. /\ job' \in [Actors -> Jobs] /\ job'[a].step = "clear"
          /\ \A b \in Actors : b # a => job'[b].step = job[b].step /\ Kept(b)
          /\ UNCHANGED up /\ Works
      BY <1>2, <2>2, LoadMoves
    <3>2. Kept(a)
      BY <1>2, <2>2, LoadMoves
    <3>3. JobsInv'
      BY <2>0, <3>1, <3>2, PlacesHold DEF At, Kept
    <3>4. excused' = excused \/ excused' = excused \cup {job[a].at}
      BY <1>2, <2>2, LoadMoves
    <3> QED BY <1>1, <1>2, <3>1, <3>3, <3>4, FaultsAreTyped
            DEF TypeOK, Asks, LoadPairs, dbVars, cacheVars
  <2> QED BY <2>1, <2>2
<1>3. CASE ClearPolicy(a)
  <2>1. Go(a, "add") /\ ~At(a, {"idle"}) /\ "add" \in Steps
    BY <1>3 DEF ClearPolicy, At, Steps
  <2>2. JobsInv'
    BY <2>1, GoMoves, PlacesHold DEF At, Kept
  <2> QED BY <1>3, <2>1, <2>2, GoMoves DEF TypeOK, Asks, ClearPolicy, dbVars, cacheVars
<1>4. CASE AddPolicy(a)
  <2>1. CASE job'[a].step = "idle"
    <3>1. /\ Works \/ Fails
          /\ Go(a, "idle") /\ UNCHANGED <<policy, excused>>
          /\ table' \subseteq Pairs /\ up' = up \cup {job[a].at}
      BY <1>4, <2>1, AddFails
    <3>2. JobsInv'
      BY <3>1, GoMoves, PlacesHold DEF At, Kept, Steps
    <3> QED BY <1>1, <1>4, <3>1, <3>2, GoMoves, FaultsAreTyped
            DEF TypeOK, AddPolicy, Asks, dbVars, cacheVars, Steps
  <2>2. CASE job'[a].step # "idle"
    <3>1. /\ Works /\ job' \in [Actors -> Jobs] /\ Kept(a) /\ job'[a].step = "add"
          /\ \A b \in Actors : b # a => job'[b] = job[b]
          /\ UNCHANGED <<up, excused>> /\ table' \subseteq Pairs
          /\ policy' \in [Servers -> SUBSET Pairs]
      BY <1>1, <1>4, <2>2, AddMoves
    <3>2. JobsInv'
      BY <1>4, <3>1, PlacesHold DEF At, Kept, AddPolicy
    <3> QED BY <1>4, <3>1, <3>2, FaultsAreTyped
            DEF TypeOK, AddPolicy, Asks, dbVars, cacheVars
  <2> QED BY <2>1, <2>2
<1>5. CASE AddedAll(a)
  <2>1. Go(a, "save") /\ ~At(a, {"idle"}) /\ "save" \in Steps
    BY <1>5 DEF AddedAll, At, Steps
  <2>2. JobsInv'
    BY <2>1, GoMoves, PlacesHold DEF At, Kept
  <2> QED BY <1>5, <2>1, <2>2, GoMoves DEF TypeOK, Asks, AddedAll, dbVars, cacheVars
<1>6. CASE SavePolicy(a)
  <2>1. /\ Go(a, "idle") /\ "idle" \in Steps
        /\ policy[job[a].at] \subseteq Pairs /\ table' \subseteq Pairs
    BY <1>1, <1>6 DEF SavePolicy, Steps, TypeOK
  <2>2. JobsInv'
    BY <2>1, GoMoves, PlacesHold DEF At, Kept
  <2> QED BY <1>1, <1>6, <2>1, <2>2, GoMoves, FaultsAreTyped
          DEF TypeOK, Asks, SavePolicy, dbVars, cacheVars
<1> QED BY <1>2, <1>3, <1>4, <1>5, <1>6

LEMMA ReaderIsTyped ==
    ASSUME TypeOK, JobsInv, NEW q \in Readers,
           \/ LookUp(q) \/ LoadCodes(q) \/ PutCodes(q) \/ \E r \in RoleIds : FindRow(q, r)
    PROVE  TypeOK' /\ JobsInv'
<1>1. /\ fill \in [Readers -> Fills] /\ NoFill \in Fills
      /\ \A r \in Readers : ~Asks(r, "idle") => fill[r].role \in RoleIds
  BY DEF TypeOK, Fills, NoFill
<1>2. JobsInv'
  BY DEF FindRow, LookUp, LoadCodes, PutCodes, JobsInv, At
<1>3. ASSUME NEW f \in Fills, Moves(q, f), f.step # "idle" => f.role \in RoleIds
      PROVE  /\ fill' \in [Readers -> Fills]
             /\ \A r \in Readers : ~Asks(r, "idle")' => fill'[r].role \in RoleIds
  BY <1>1, <1>3 DEF Moves, Asks
<1>4. Moves(q, NoFill) => /\ fill' \in [Readers -> Fills]
                          /\ \A r \in Readers : ~Asks(r, "idle")' => fill'[r].role \in RoleIds
  BY <1>1, <1>3 DEF NoFill
<1>5. CASE \E r \in RoleIds : FindRow(q, r)
  <2>1. PICK r \in RoleIds : FindRow(q, r)
    BY <1>5
  <2> DEFINE f == [NoFill EXCEPT !.step = "look", !.role = r]
  <2>2. f \in Fills /\ f.role \in RoleIds
    BY <1>1 DEF NoFill, Fills
  <2> QED BY <1>2, <1>3, <2>1, <2>2 DEF FindRow, TypeOK, Fills, dbVars
<1>6. CASE LookUp(q)
  <2> DEFINE f == [fill[q] EXCEPT !.step = "missed"]
  <2>1. f \in Fills /\ f.role \in RoleIds
    BY <1>1, <1>6 DEF LookUp, Asks, Fills
  <2>2. bounds' \in Counts
    BY <1>6, FaultsAreTyped DEF LookUp
  <2> QED BY <1>2, <1>3, <1>4, <1>6, <2>1, <2>2 DEF LookUp, TypeOK, Fills, Counts, dbVars
<1>7. CASE LoadCodes(q)
  <2> DEFINE f == [fill[q] EXCEPT !.step = "loaded", !.codes = perms[fill[q].role]]
  <2>1. f \in Fills /\ f.role \in RoleIds
    BY <1>1, <1>7 DEF LoadCodes, Asks, Fills, TypeOK
  <2>2. bounds' \in Counts
    BY <1>7, FaultsAreTyped DEF LoadCodes
  <2> QED BY <1>2, <1>3, <1>4, <1>7, <2>1, <2>2 DEF LoadCodes, TypeOK, Fills, Counts, dbVars
<1>8. CASE PutCodes(q)
  <2>1. bounds' \in Counts
    BY <1>8, FaultsAreTyped DEF PutCodes
  <2>2. fill[q].role \in RoleIds /\ fill[q].codes \in SUBSET Perms
    BY <1>1, <1>8 DEF PutCodes, Asks, Fills
  <2>3. /\ cache' \in [RoleIds -> [there : BOOLEAN, codes : SUBSET Perms]]
        /\ raced' \subseteq RoleIds
    <3>1. CASE UNCHANGED <<cache, raced>>
      BY <3>1 DEF TypeOK
    <3>2. CASE cache' = [cache EXCEPT ![fill[q].role] = [there |-> TRUE, codes |-> fill[q].codes]]
               /\ raced' \in {raced \cup {fill[q].role}, raced \ {fill[q].role}}
      BY <2>2, <3>2 DEF TypeOK
    <3> QED BY <1>8, <3>1, <3>2 DEF PutCodes
  <2> QED BY <1>2, <1>4, <1>8, <2>1, <2>3 DEF PutCodes, TypeOK, Fills, Counts, dbVars
<1> QED BY <1>5, <1>6, <1>7, <1>8

LEMMA ExpiryIsTyped ==
    ASSUME TypeOK, JobsInv, NEW r \in RoleIds, CodesExpire(r)
    PROVE  TypeOK' /\ JobsInv'
BY DEF CodesExpire, TypeOK, JobsInv, At, Asks, Missing, dbVars

LEMMA DeletionIsTyped ==
    ASSUME TypeOK, DeleteCodes
    PROVE  /\ cache' \in [RoleIds -> [there : BOOLEAN, codes : SUBSET Perms]]
           /\ raced' \subseteq RoleIds /\ bounds' \in Counts
<1>1. CASE Works /\ cache' = [r \in RoleIds |-> Missing] /\ raced' = {}
  BY <1>1, FaultsAreTyped DEF Missing
<1>2. CASE Fails /\ UNCHANGED cache /\ raced' = raced \cup {r \in RoleIds : cache[r].there}
  <2>1. raced' \subseteq RoleIds
    BY <1>2 DEF TypeOK
  <2> QED BY <1>2, <2>1, FaultsAreTyped DEF TypeOK
<1> QED BY <1>1, <1>2 DEF DeleteCodes

LEMMA AgedIsTyped ==
    ASSUME TypeOK, NEW changed, Aged(changed)
    PROVE  /\ fill' \in [Readers -> Fills]
           /\ \A q \in Readers : ~Asks(q, "idle")' => fill'[q].role \in RoleIds
<1>1. fill \in [Readers -> Fills]
  BY DEF TypeOK, Fills
<1>2. \A q \in Readers : /\ [fill[q] EXCEPT !.old = TRUE] \in Fills
                         /\ [fill[q] EXCEPT !.old = TRUE].step = fill[q].step
                         /\ [fill[q] EXCEPT !.old = TRUE].role = fill[q].role
  BY <1>1 DEF Fills
<1>3. \A q \in Readers : fill'[q] \in {fill[q], [fill[q] EXCEPT !.old = TRUE]}
  BY DEF Aged
<1>4. fill' \in [Readers -> Fills]
  BY <1>1, <1>2 DEF Aged
<1>5. \A q \in Readers : fill'[q].step = fill[q].step /\ fill'[q].role = fill[q].role
  BY <1>2, <1>3
<1> QED BY <1>4, <1>5 DEF TypeOK, Asks

LEMMA BeginIsTyped ==
    ASSUME TypeOK, JobsInv, NEW a \in Admins, NEW s \in Servers, NEW r \in RoleIds,
           \/ DeleteRole(a, s, r)
           \/ \E codes \in SUBSET Perms :
                 \/ CreateRole(a, s, r, codes)
                 \/ \E sync \in BOOLEAN : UpdateRole(a, s, r, codes, sync)
    PROVE  TypeOK' /\ JobsInv'
<1>1. PICK step \in {"insert", "edit", "remove"}, codes \in SUBSET Perms, sync \in BOOLEAN :
         Begin(a, s, step, r, codes, sync)
  BY DEF DeleteRole, CreateRole, UpdateRole
<1>2. /\ job' \in [Actors -> Jobs] /\ job'[a].step = step /\ job'[a].at = s
      /\ \A b \in Actors : b # a => job'[b] = job[b]
      /\ bounds' \in Counts
  <2> DEFINE j == [Idle EXCEPT !.step = step, !.at = s, !.role = r, !.codes = codes,
                               !.sync = sync]
  <2>1. job \in [Actors -> Jobs] /\ bounds \in Counts /\ a \in Actors
    BY DEF TypeOK, Jobs, Counts, Actors
  <2>2. job' = [job EXCEPT ![a] = j] /\ bounds' \in Counts
    BY <1>1, <2>1 DEF Begin, Spend, Counts
  <2>3. j \in Jobs /\ j.step = step /\ j.at = s
    BY IdleIsTyped DEF Idle, Jobs, Steps
  <2> HIDE DEF j
  <2> QED BY <2>1, <2>2, <2>3
<1>3. JobsInv'
  BY <1>1, <1>2, RolesAssumption DEF JobsInv, At, Actors
<1> QED BY <1>1, <1>2, <1>3 DEF Begin, TypeOK, Asks, dbVars, cacheVars, Jobs, Counts

LEMMA EditingIsTyped ==
    ASSUME TypeOK, JobsInv, NEW a \in Admins,
           \/ InsertRole(a) \/ EditRole(a) \/ CommitPermissions(a)
           \/ RemoveRole(a) \/ UncacheRole(a)
    PROVE  TypeOK' /\ JobsInv'
<1> USE DEF Jobs, Counts
<1>1. a \in Actors /\ ~At(a, {"idle"}) /\ job[a].at \in Servers /\ job[a].codes \subseteq Perms
  BY DEF Actors, JobsInv, TypeOK, At, InsertRole, EditRole, CommitPermissions, RemoveRole,
         UncacheRole
<1>2. CASE InsertRole(a)
  <2>1. PICK step \in {"load", "idle"} : Go(a, step)
    BY <1>2 DEF InsertRole
  <2>2. JobsInv'
    BY <1>1, <2>1, GoMoves, PlacesHold DEF At, Kept, Steps
  <2>3. /\ row' \in [RoleIds -> {"none", "live", "gone"}] /\ perms' \in [RoleIds -> SUBSET Perms]
    BY <1>1, <1>2 DEF InsertRole, TypeOK
  <2>4. job' \in [Actors -> Jobs]
    BY <1>1, <2>1, GoMoves DEF Steps
  <2> QED BY <1>2, <2>2, <2>3, <2>4 DEF InsertRole, TypeOK, Asks, dbVars, cacheVars
<1>3. CASE EditRole(a)
  <2>1. PICK step \in {"commit", "idle"} : Go(a, step)
    BY <1>3 DEF EditRole
  <2>2. JobsInv'
    BY <1>1, <2>1, GoMoves, PlacesHold DEF At, Kept, Steps
  <2> QED BY <1>1, <1>3, <2>1, <2>2, GoMoves, DeletionIsTyped DEF EditRole, TypeOK, Asks, dbVars, Steps
<1>4. CASE CommitPermissions(a)
  <2>1. JobsInv'
    BY <1>1, <1>4, CommittedMoves, PlacesHold DEF CommitPermissions, At, Kept
  <2> QED BY <1>1, <1>4, <2>1, CommittedMoves, AgedIsTyped DEF CommitPermissions, TypeOK, Fills
<1>5. CASE RemoveRole(a)
  <2>1. JobsInv'
    BY <1>1, <1>5, CommittedMoves, PlacesHold DEF RemoveRole, At, Kept
  <2> QED BY <1>1, <1>5, <2>1, CommittedMoves, AgedIsTyped DEF RemoveRole, TypeOK, Fills
<1>6. CASE UncacheRole(a)
  <2>1. Go(a, "load")
    BY <1>6 DEF UncacheRole
  <2>2. JobsInv'
    BY <1>1, <2>1, GoMoves, PlacesHold DEF At, Kept, Steps
  <2> QED BY <1>1, <1>6, <2>1, <2>2, GoMoves, DeletionIsTyped DEF UncacheRole, TypeOK, Asks, dbVars, Steps
<1> QED BY <1>2, <1>3, <1>4, <1>5, <1>6

\* Who was at the server that ends is idle, but for the server itself.
LEMMA RestartMoves ==
    ASSUME TypeOK, JobsInv, NEW s \in Servers, Restart(s)
    PROVE  /\ job' \in [Actors -> Jobs] /\ job'[s].step = "seed" /\ job'[s].at = s
           /\ \A b \in Actors : b # s =>
                 IF job[b].at = s THEN At(b, {"idle"})' ELSE job'[b] = job[b]
<1> DEFINE j == [Idle EXCEPT !.step = "seed", !.at = s, !.rules = Seeds]
<1>1. job \in [Actors -> Jobs] /\ s \in Actors
  BY DEF TypeOK, Jobs, Actors
<1>2. job' = [b \in Actors |-> IF b = s THEN j ELSE IF job[b].at = s THEN Idle ELSE job[b]]
  BY DEF Restart
<1>3. j \in Jobs /\ j.step = "seed" /\ j.at = s
  BY IdleIsTyped, RolesAssumption DEF Idle, Jobs, Steps, Seeds, Pairs
<1> HIDE DEF j
<1>4. Idle.step = "idle"
  BY DEF Idle
<1> QED BY <1>1, <1>2, <1>3, <1>4, IdleIsTyped DEF At

LEMMA StartIsTyped ==
    ASSUME TypeOK, JobsInv, NEW s \in Servers, Restart(s) \/ Seeding(s)
    PROVE  TypeOK' /\ JobsInv'
<1> USE DEF Jobs, Counts
<1>1. s \in Actors /\ \A t \in Servers : t \in Actors
  BY DEF Actors
<1>2. CASE Restart(s)
  <2>1. JobsInv'
    BY <1>1, <1>2, RestartMoves DEF JobsInv, At
  <2>2. bounds' \in Counts
    BY <1>2 DEF Restart, Spend, TypeOK
  <2> QED BY <1>2, <2>1, <2>2, RestartMoves
          DEF Restart, NewEnforcer, TypeOK, Asks, dbVars, cacheVars
<1>3. CASE Seeding(s)
  <2>1. JobsInv'
    BY <1>1, <1>3, SeedMoves DEF JobsInv, At
  <2>2. /\ fill' \in [Readers -> Fills] /\ raced' \subseteq RoleIds
        /\ \A q \in Readers : ~Asks(q, "idle")' => fill'[q].role \in RoleIds
    <3>1. CASE UNCHANGED <<raced, fill>>
      BY <3>1 DEF TypeOK, Asks, Fills
    <3>2. ASSUME NEW r \in RoleIds, NEW p \in Perms, Give(r, p)
          PROVE  /\ fill' \in [Readers -> Fills] /\ raced' \subseteq RoleIds
                 /\ \A q \in Readers : ~Asks(q, "idle")' => fill'[q].role \in RoleIds
      BY <3>2, GivenIsTyped, AgedIsTyped DEF Give
    <3> QED BY <1>3, <3>1, <3>2, SeedGives
  <2> QED BY <1>3, <2>1, <2>2, SeedMoves, SeedGives, FaultsAreTyped DEF TypeOK, Fills
<1> QED BY <1>2, <1>3

LEMMA TypesHoldInit == Init => TypeOK /\ JobsInv
<1> SUFFICES ASSUME Init PROVE TypeOK /\ JobsInv
  OBVIOUS
<1>1. job \in [Actors -> Jobs] /\ \A a \in Actors : job[a].step = "idle"
  BY IdleIsTyped DEF Init, Idle
<1>2. JobsInv
  BY <1>1 DEF JobsInv, At, Actors
<1>3. table \subseteq Pairs /\ policy \in [Servers -> SUBSET Pairs]
  BY RolesAssumption DEF Init, Pairs
<1> QED BY <1>1, <1>2, <1>3, RolesAssumption DEF Init, TypeOK, Asks, Jobs, Missing, NoFill

LEMMA TypesHoldNext == TypeOK /\ JobsInv /\ [Next]_vars => TypeOK' /\ JobsInv'
<1> SUFFICES ASSUME TypeOK, JobsInv, [Next]_vars PROVE TypeOK' /\ JobsInv'
  OBVIOUS
<1>1. CASE Next
  <2>1. ASSUME NEW rs \in SUBSET RoleIds, AssignRoles(rs) PROVE TypeOK' /\ JobsInv'
    BY <2>1 DEF AssignRoles, Spend, TypeOK, Asks, JobsInv, At, cacheVars
  <2> QED BY <1>1, <2>1, BeginIsTyped, EditingIsTyped, RewritingIsTyped, ReaderIsTyped,
             ExpiryIsTyped, StartIsTyped
          DEF Next, Seeding
<1>2. CASE UNCHANGED vars
  BY <1>2 DEF vars, dbVars, cacheVars, TypeOK, Asks, JobsInv, At
<1> QED BY <1>1, <1>2

\* The type invariant of Roles, for any number of servers and administrators.
THEOREM TypeCorrect == Spec => []TypeOK
<1>1. Spec => [](TypeOK /\ JobsInv)
  BY TypesHoldInit, TypesHoldNext, PTL DEF Spec
<1> QED BY <1>1, PTL

-------------------------------------------------------------------------------
(* Cached codes: proof.                                                    *)

LEMMA AgedMoves ==
    ASSUME TypeOK, NEW changed, Aged(changed), NEW q \in Readers
    PROVE  /\ fill'[q].step = fill[q].step /\ fill'[q].codes = fill[q].codes
           /\ fill'[q].role = fill[q].role
           /\ Asks(q, "loaded") /\ fill[q].role \in changed => fill'[q].old
           /\ fill[q].role \notin changed => fill'[q] = fill[q]
<1>1. fill[q] \in Fills
  BY DEF TypeOK, Fills
<1>2. fill'[q] = IF Asks(q, "loaded") /\ fill[q].role \in changed
                 THEN [fill[q] EXCEPT !.old = TRUE] ELSE fill[q]
  BY DEF Aged, Asks
<1> QED BY <1>1, <1>2 DEF Fills

\* A reader stays explained when only roles change whose change has aged it, and no
\* row that there was is as if it had not been.
LEMMA FillsHold ==
    ASSUME TypeOK, CodesInv, NEW q \in Readers, NEW changed, Aged(changed),
           \A r \in RoleIds : row'[r] = "none" => row[r] = "none",
           \A r \in RoleIds \ changed : perms'[r] = perms[r]
    PROVE  FillOf(q)'
<1>1. FillOf(q) /\ (~Asks(q, "idle") => fill[q].role \in RoleIds)
  BY DEF CodesInv, TypeOK
<1>2. Asks(q, "loaded") => ~Asks(q, "idle")
  BY DEF Asks
<1> QED BY <1>1, <1>2, AgedMoves DEF FillOf, Asks

LEMMA FillsStay ==
    ASSUME TypeOK, CodesInv, NEW q \in Readers, UNCHANGED <<perms, fill>>,
           \A r \in RoleIds : row'[r] = "none" => row[r] = "none"
    PROVE  FillOf(q)'
<1>1. FillOf(q) /\ (~Asks(q, "idle") => fill[q].role \in RoleIds)
  BY DEF CodesInv, TypeOK
<1> QED BY <1>1 DEF FillOf, Asks

\* A step that changes no row and nobody's codes, and brings no one to a commit.
LEMMA CodesUntouched ==
    ASSUME CodesInv, UNCHANGED <<row, perms, cacheVars>>,
           \A a \in Admins : At(a, {"commit"})' => At(a, {"commit"}) /\ job'[a].role = job[a].role
    PROVE  CodesInv'
BY DEF CodesInv, CodesOf, FillOf, Asks, cacheVars, At

LEMMA EditingKeepsFills ==
    ASSUME TypeOK, CodesInv, NEW a \in Admins, NEW q \in Readers,
           \/ InsertRole(a) \/ EditRole(a) \/ CommitPermissions(a)
           \/ RemoveRole(a) \/ UncacheRole(a)
    PROVE  FillOf(q)'
<1>1. row \in [RoleIds -> {"none", "live", "gone"}] /\ perms \in [RoleIds -> SUBSET Perms]
  BY DEF TypeOK
<1>2. CASE InsertRole(a)
  <2>1. \A p \in RoleIds : \/ row'[p] = row[p] /\ perms'[p] = perms[p]
                           \/ row[p] = "none" /\ row'[p] = "live"
    BY <1>1, <1>2 DEF InsertRole
  <2>2. FillOf(q) /\ (~Asks(q, "idle") => fill[q].role \in RoleIds) /\ UNCHANGED fill
    BY <1>2 DEF CodesInv, TypeOK, InsertRole, cacheVars
  <2>3. Asks(q, "loaded") => ~Asks(q, "idle")
    BY DEF Asks
  <2> QED BY <2>1, <2>2, <2>3 DEF FillOf, Asks
<1>3. CASE EditRole(a) \/ UncacheRole(a)
  BY <1>3, FillsStay DEF EditRole, UncacheRole, dbVars
<1>4. CASE CommitPermissions(a) \/ RemoveRole(a)
  <2>1. /\ Aged({job[a].role}) /\ \A p \in RoleIds : row'[p] = "none" => row[p] = "none"
        /\ \A p \in RoleIds \ {job[a].role} : perms'[p] = perms[p]
    BY <1>1, <1>4 DEF CommitPermissions, RemoveRole
  <2> QED BY <2>1, FillsHold
<1> QED BY <1>2, <1>3, <1>4

LEMMA EditingKeepsCodes ==
    ASSUME TypeOK, JobsInv, CodesInv, NEW a \in Admins,
           \/ InsertRole(a) \/ EditRole(a) \/ CommitPermissions(a)
           \/ RemoveRole(a) \/ UncacheRole(a)
    PROVE  CodesInv'
<1>0. a \in Actors /\ job[a].at \in Servers /\ \A b \in Admins : b \in Actors
  BY DEF Actors, JobsInv, At, InsertRole, EditRole, CommitPermissions, RemoveRole, UncacheRole
<1> SUFFICES ASSUME NEW r \in RoleIds PROVE CodesOf(r)'
  BY EditingKeepsFills DEF CodesInv
<1>1. CodesOf(r) /\ row \in [RoleIds -> {"none", "live", "gone"}]
  BY DEF CodesInv, TypeOK
<1>2. CASE InsertRole(a)
  <2>1. \A b \in Admins : At(b, {"commit"})' => At(b, {"commit"}) /\ job'[b].role = job[b].role
    BY <1>0, <1>2, GoMoves DEF InsertRole, At, Kept, Steps
  <2>2. UNCHANGED cacheVars /\ row[r] \in {"none", "live", "gone"}
    BY <1>2 DEF InsertRole, TypeOK
  <2>3. \A p \in RoleIds : \/ row'[p] = row[p] /\ perms'[p] = perms[p]
                           \/ row[p] = "none" /\ row'[p] = "live"
    BY <1>2 DEF InsertRole, TypeOK
  <2> QED BY <1>1, <2>1, <2>2, <2>3 DEF CodesOf, cacheVars, At
<1>3. CASE EditRole(a)
  <2>1. UNCHANGED <<row, perms, fill>>
    BY <1>3 DEF EditRole, dbVars
  <2>2. CASE cache' = [p \in RoleIds |-> Missing]
    BY <1>1, <2>1, <2>2 DEF CodesOf, Missing
  <2>3. CASE UNCHANGED cache /\ raced' = raced \cup {p \in RoleIds : cache[p].there}
    BY <1>1, <2>1, <2>3 DEF CodesOf
  <2> QED BY <1>3, <2>2, <2>3 DEF EditRole, DeleteCodes
<1>4. CASE UncacheRole(a)
  <2>1. UNCHANGED <<row, perms, fill>>
    BY <1>4 DEF UncacheRole, dbVars
  <2>2. CASE cache' = [p \in RoleIds |-> Missing]
    BY <1>1, <2>1, <2>2 DEF CodesOf, Missing
  <2>3. CASE UNCHANGED cache /\ raced' = raced \cup {p \in RoleIds : cache[p].there}
    BY <1>1, <2>1, <2>3 DEF CodesOf
  <2> QED BY <1>4, <2>2, <2>3 DEF UncacheRole, DeleteCodes
<1>5. CASE CommitPermissions(a)
  <2>1. \A b \in Admins : At(b, {"commit"})' => At(b, {"commit"}) /\ job'[b].role = job[b].role
    BY <1>0, <1>5, CommittedMoves DEF CommitPermissions, At, Kept
  <2>2. CASE r = job[a].role
    <3>1. ~(row[r] = "live" /\ cache[r].there /\ r \notin raced)
      BY <1>1, <1>5, <2>2 DEF CodesOf, CommitPermissions
    <3> QED BY <1>1, <1>5, <2>2, <3>1 DEF CodesOf, CommitPermissions
  <2>3. CASE r # job[a].role
    <3>1. perms'[r] = perms[r] /\ UNCHANGED <<row, cache, raced>>
      BY <1>5, <2>3 DEF CommitPermissions, TypeOK
    <3> QED BY <1>1, <2>1, <3>1 DEF CodesOf
  <2> QED BY <2>2, <2>3
<1>6. CASE RemoveRole(a)
  <2>1. \A b \in Admins : At(b, {"commit"})' => At(b, {"commit"}) /\ job'[b].role = job[b].role
    BY <1>0, <1>6, CommittedMoves DEF RemoveRole, At, Kept
  <2>2. CASE r = job[a].role
    <3>1. row'[r] = "gone"
      BY <1>6, <2>2 DEF RemoveRole, TypeOK
    <3> QED BY <3>1 DEF CodesOf
  <2>3. CASE r # job[a].role
    <3>1. perms'[r] = perms[r] /\ row'[r] = row[r] /\ UNCHANGED <<cache, raced>>
      BY <1>6, <2>3 DEF RemoveRole, TypeOK
    <3> QED BY <1>1, <2>1, <3>1 DEF CodesOf
  <2> QED BY <2>2, <2>3
<1> QED BY <1>2, <1>3, <1>4, <1>5, <1>6

LEMMA CachingKeepsCodes ==
    ASSUME TypeOK, CodesInv, NEW q \in Readers,
           \/ LookUp(q) \/ LoadCodes(q) \/ PutCodes(q) \/ \E r \in RoleIds : FindRow(q, r)
    PROVE  CodesInv'
<1>0. /\ UNCHANGED <<row, perms, job>> /\ fill \in [Readers -> Fills]
      /\ ~Asks(q, "idle") => fill[q].role \in RoleIds
  BY DEF FindRow, LookUp, LoadCodes, PutCodes, dbVars, TypeOK, Fills
<1>1. (\A p \in Readers : FillOf(p)) /\ (\A r \in RoleIds : CodesOf(r))
  BY Zenon DEF CodesInv
<1>2. ASSUME NEW p \in Readers PROVE FillOf(p)'
  <2>1. FillOf(p) /\ FillOf(q)
    BY <1>1
  <2>2. ASSUME NEW f, Moves(q, f), f.step = "idle" \/ row[f.role] # "none",
               f.step = "loaded" /\ ~f.old => f.codes = perms[f.role]
        PROVE  FillOf(p)'
    BY <1>0, <2>1, <2>2 DEF Moves, FillOf, Asks
  <2>3. CASE Moves(q, NoFill)
    BY <2>2, <2>3 DEF NoFill
  <2>4. CASE \E r \in RoleIds : FindRow(q, r)
    BY <2>2, <2>4 DEF FindRow, NoFill
  <2>5. CASE LookUp(q)
    <3>1. /\ [fill[q] EXCEPT !.step = "missed"].step = "missed"
          /\ [fill[q] EXCEPT !.step = "missed"].role = fill[q].role
      BY <1>0 DEF Fills
    <3>2. row[fill[q].role] # "none"
      BY <2>1, <2>5 DEF LookUp, FillOf, Asks
    <3> QED BY <2>2, <2>3, <2>5, <3>1, <3>2 DEF LookUp
  <2>6. CASE LoadCodes(q)
    <3> DEFINE f == [fill[q] EXCEPT !.step = "loaded", !.codes = perms[fill[q].role]]
    <3>1. f.role = fill[q].role /\ f.codes = perms[fill[q].role]
      BY <1>0 DEF Fills
    <3>2. row[fill[q].role] # "none"
      BY <2>1, <2>6 DEF LoadCodes, FillOf, Asks
    <3> QED BY <2>2, <2>3, <2>6, <3>1, <3>2 DEF LoadCodes
  <2>7. CASE PutCodes(q)
    BY <2>3, <2>7 DEF PutCodes
  <2> QED BY <2>4, <2>5, <2>6, <2>7
<1>3. ASSUME NEW r \in RoleIds PROVE CodesOf(r)'
  <2>1. CodesOf(r) /\ FillOf(q)
    BY <1>1
  <2>2. CASE UNCHANGED <<cache, raced>>
    BY <1>0, <2>1, <2>2 DEF CodesOf, At
  <2>3. CASE PutCodes(q) /\ ~UNCHANGED <<cache, raced>>
    <3> DEFINE p == fill[q].role
    <3>1. /\ p \in RoleIds /\ row[p] # "none"
          /\ ~fill[q].old => fill[q].codes = perms[p]
      BY <1>0, <2>1, <2>3 DEF PutCodes, FillOf, Asks
    <3>2. /\ cache' = [cache EXCEPT ![p] = [there |-> TRUE, codes |-> fill[q].codes]]
          /\ raced' = (IF fill[q].old \/ \E a \in Admins : At(a, {"commit"}) /\ job[a].role = p
                       THEN raced \cup {p} ELSE raced \ {p})
      BY <2>3 DEF PutCodes
    <3> HIDE DEF p
    <3>3. CASE r = p
      BY <1>0, <3>1, <3>2, <3>3 DEF CodesOf, TypeOK, At
    <3>4. CASE r # p
      BY <1>0, <2>1, <3>2, <3>4 DEF CodesOf, TypeOK, At
    <3> QED BY <3>3, <3>4
  <2> QED BY <2>2, <2>3 DEF FindRow, LookUp, LoadCodes
<1> QED BY <1>2, <1>3 DEF CodesInv

LEMMA ExpiryKeepsCodes ==
    ASSUME TypeOK, CodesInv, NEW p \in RoleIds, CodesExpire(p)
    PROVE  CodesInv'
<1>1. UNCHANGED <<row, perms, fill, job>>
  BY DEF CodesExpire, dbVars
<1>2. ASSUME NEW r \in RoleIds PROVE CodesOf(r)'
  <2>1. CodesOf(r)
    BY DEF CodesInv
  <2> QED BY <1>1, <2>1 DEF CodesExpire, CodesOf, TypeOK, Missing, At
<1>3. \A q \in Readers : FillOf(q)'
  BY <1>1 DEF CodesInv, FillOf, Asks
<1> QED BY <1>2, <1>3 DEF CodesInv

LEMMA StartsKeepCodes ==
    ASSUME TypeOK, JobsInv, CodesInv, NEW s \in Servers, Restart(s) \/ Seeding(s)
    PROVE  CodesInv'
<1>0. s \in Actors /\ s \notin Admins /\ \A b \in Admins : b \in Actors
  BY RolesAssumption DEF Actors
<1>1. CASE Restart(s)
  BY <1>0, <1>1, RestartMoves, CodesUntouched DEF Restart, dbVars, At
<1>2. CASE Seeding(s)
  <2>1. UNCHANGED <<row, cache>> /\ \A b \in Admins : job'[b] = job[b]
    BY <1>0, <1>2, SeedMoves
  <2>2. CASE UNCHANGED <<perms, raced, fill>>
    BY <2>1, <2>2, CodesUntouched DEF cacheVars, At
  <2>3. ASSUME NEW p \in RoleIds, NEW x \in Perms, Give(p, x) PROVE CodesInv'
    <3> DEFINE new == x \notin perms[p]
    <3>1. /\ perms' = [perms EXCEPT ![p] = @ \cup {x}] /\ perms \in [RoleIds -> SUBSET Perms]
          /\ Aged(IF new THEN {p} ELSE {})
          /\ raced' = (IF new /\ cache[p].there THEN raced \cup {p} ELSE raced)
      BY <2>3 DEF Give, TypeOK
    <3>2. \A r \in RoleIds \ (IF new THEN {p} ELSE {}) : perms'[r] = perms[r]
      BY <3>1
    <3>3. \A q \in Readers : FillOf(q)'
      BY <2>1, <3>1, <3>2, FillsHold
    <3>4. ASSUME NEW r \in RoleIds PROVE CodesOf(r)'
      <4>1. CodesOf(r)
        BY DEF CodesInv
      <4>2. CASE r = p /\ new
        BY <2>1, <3>1, <4>1, <4>2 DEF CodesOf
      <4>3. CASE ~(r = p /\ new)
        <5>1. perms'[r] = perms[r] /\ (r \in raced' <=> r \in raced)
          BY <3>1, <3>2, <4>3
        <5> QED BY <2>1, <4>1, <5>1 DEF CodesOf, At
      <4> QED BY <4>2, <4>3
    <3> QED BY <3>3, <3>4 DEF CodesInv
  <2> QED BY <1>2, <2>2, <2>3, SeedGives
<1> QED BY <1>1, <1>2

LEMMA CodesHoldNext == TypeOK /\ JobsInv /\ CodesInv /\ [Next]_vars => CodesInv'
<1> SUFFICES ASSUME TypeOK, JobsInv, CodesInv, [Next]_vars PROVE CodesInv'
  OBVIOUS
<1>0. \A b \in Admins : b \in Actors
  BY DEF Actors
<1>1. ASSUME NEW a \in Admins, NEW s \in Servers, NEW r \in RoleIds,
             \/ DeleteRole(a, s, r)
             \/ \E codes \in SUBSET Perms :
                   \/ CreateRole(a, s, r, codes)
                   \/ \E sync \in BOOLEAN : UpdateRole(a, s, r, codes, sync)
      PROVE  CodesInv'
  BY <1>0, <1>1, CallsStart, CodesUntouched DEF At
<1>2. ASSUME NEW a \in Actors,
             LoadPairs(a) \/ ClearPolicy(a) \/ AddPolicy(a) \/ AddedAll(a) \/ SavePolicy(a)
      PROVE  CodesInv'
  <2>1. UNCHANGED <<row, perms, cacheVars>>
    BY <1>2 DEF LoadPairs, ClearPolicy, AddPolicy, AddedAll, SavePolicy, dbVars
  <2>2. \A b \in Admins : At(b, {"commit"})' => At(b, {"commit"}) /\ job'[b].role = job[b].role
    <3>1. CASE LoadPairs(a)
      BY <1>0, <3>1, LoadMoves, LoadFails, GoMoves DEF At, Kept, Steps
    <3>2. CASE ClearPolicy(a)
      BY <1>0, <3>2, GoMoves DEF ClearPolicy, At, Steps
    <3>3. CASE AddPolicy(a)
      <4>1. job[a].at \in Servers
        BY <3>3 DEF AddPolicy, JobsInv, At
      <4> QED BY <1>0, <3>3, <4>1, AddMoves, AddFails, GoMoves DEF AddPolicy, At, Kept, Steps
    <3>4. CASE AddedAll(a) \/ SavePolicy(a)
      BY <1>0, <3>4, GoMoves DEF AddedAll, SavePolicy, At, Steps
    <3> QED BY <1>2, <3>1, <3>2, <3>3, <3>4
  <2> QED BY <2>1, <2>2, CodesUntouched
<1>3. ASSUME NEW rs \in SUBSET RoleIds, AssignRoles(rs) PROVE CodesInv'
  BY <1>3, CodesUntouched DEF AssignRoles, At
<1>4. CASE UNCHANGED vars
  BY <1>4, CodesUntouched DEF vars, dbVars, At
<1> QED BY <1>1, <1>2, <1>3, <1>4, EditingKeepsCodes, CachingKeepsCodes,
           ExpiryKeepsCodes, StartsKeepCodes
        DEF Next, Seeding

\* Cached codes that differ from the tables have a cause, for any readers, edits,
\* starts and failures.
THEOREM StaleCodesAreExplained == Spec => []StaleCodesHaveCause
<1>1. Init => CodesInv
  BY DEF Init, CodesInv, CodesOf, FillOf, Asks, Missing, NoFill
<1>2. CodesInv => StaleCodesHaveCause
  BY DEF CodesInv, CodesOf, StaleCodesHaveCause
<1> QED BY <1>1, <1>2, TypesHoldInit, TypesHoldNext, CodesHoldNext, PTL DEF Spec

-------------------------------------------------------------------------------
(* The policy: proof.                                                      *)

\* A step that rewrites no policy and takes no permission away: whoever has loaded
\* rules, and is still there, stays as it is, and a rewriting that was to begin
\* still is, or the server is excused.
LEMMA PolicyUntouched ==
    ASSUME PolicyInv, UNCHANGED policy, excused \subseteq excused',
           AllRolePermissions \subseteq AllRolePermissions',
           \A b \in Actors :
              \/ UNCHANGED job[b]
              \/ /\ ~At(b, {"clear"}) /\ ~At(b, Loaded)'
                 /\ At(b, Begins) => \/ At(b, Begins)' /\ job'[b].at = job[b].at
                                     \/ job[b].at \in excused'
    PROVE  PolicyInv'
<1>1. ASSUME NEW b \in Actors, At(b, Loaded)' \/ At(b, {"clear"})
      PROVE  job'[b] = job[b]
  BY <1>1
<1>2. ASSUME NEW a \in Actors PROVE RulesOf(a)'
  <2>1. SUFFICES ASSUME At(a, Loaded)', job'[a].alone PROVE RulesOf(a)'
    BY DEF RulesOf
  <2>2. job'[a] = job[a] /\ At(a, Loaded) /\ RulesOf(a)
    BY <1>1, <2>1 DEF PolicyInv, At
  <2>3. ASSUME NEW b \in Actors, job'[b].at = job'[a].at, At(b, Loaded)' PROVE b = a
    <3>1. job'[b] = job[b] /\ At(b, Loaded)
      BY <1>1, <2>3 DEF At
    <3> QED BY <2>1, <2>2, <2>3, <3>1 DEF RulesOf
  <2> QED BY <2>1, <2>2, <2>3 DEF RulesOf
<1>3. ASSUME NEW s \in Servers PROVE PolicyOf(s)'
  <2>1. SUFFICES ASSUME s \notin excused', ~Pending(s)' PROVE PolicyOf(s)'
    BY DEF PolicyOf
  <2>2. ASSUME NEW b \in Actors, job[b].at = s, At(b, Begins) PROVE FALSE
    <3>1. At(b, Begins)' /\ job'[b].at = s
      BY <2>1, <2>2 DEF At
    <3> QED BY <2>1, <3>1 DEF Pending
  <2>3. PolicyOf(s) /\ s \notin excused /\ ~Pending(s)
    BY <2>1, <2>2 DEF PolicyInv, Pending
  <2>4. ASSUME NEW a \in Actors, job'[a].at = s, At(a, Loaded)'
        PROVE  job'[a].rules \subseteq AllRolePermissions'
    <3>1. job'[a] = job[a] /\ At(a, Loaded)
      BY <1>1, <2>4 DEF At
    <3> QED BY <2>3, <2>4, <3>1 DEF PolicyOf
  <2>5. ASSUME \A a \in Actors : job'[a].at = s => ~At(a, {"clear"})'
        PROVE  policy'[s] \subseteq AllRolePermissions'
    <3>1. ASSUME NEW a \in Actors, job[a].at = s PROVE ~At(a, {"clear"})
      BY <1>1, <2>5, <3>1 DEF At
    <3> QED BY <2>3, <3>1 DEF PolicyOf
  <2> QED BY <2>4, <2>5 DEF PolicyOf
<1> QED BY <1>2, <1>3 DEF PolicyInv

\* A commit that may take a permission away.
LEMMA CommitsAreExcused ==
    ASSUME TypeOK, JobsInv, PolicyInv, NEW a \in Actors, NEW s \in Servers,
           NEW step \in {"load", "uncache"}, Committed(a, s, step), job[a].at = s
    PROVE  PolicyInv'
<1>1. /\ job'[a].step = step /\ job'[a].at = s
      /\ \A b \in Actors : b # a => ~job'[b].alone
      /\ excused' = excused \cup (Servers \ {s})
  BY CommittedMoves DEF Kept
<1>2. ASSUME NEW b \in Actors PROVE RulesOf(b)'
  BY <1>1 DEF RulesOf, At, Loaded
<1>3. ASSUME NEW t \in Servers PROVE PolicyOf(t)'
  BY <1>1 DEF PolicyOf, Pending, At, Begins
<1> QED BY <1>2, <1>3 DEF PolicyInv

LEMMA LoadKeepsPolicy ==
    ASSUME TypeOK, JobsInv, PolicyInv, NEW a \in Actors, LoadPairs(a)
    PROVE  PolicyInv'
<1> DEFINE s == job[a].at
<1>0. s \in Servers /\ At(a, {"load"}) /\ UNCHANGED <<row, perms, policy>>
  BY DEF LoadPairs, JobsInv, At, dbVars
<1>1. AllRolePermissions' = AllRolePermissions
  BY <1>0 DEF AllRolePermissions
<1>2. CASE job'[a].step = "idle"
  <2>1. (\A b \in Actors : b # a => job'[b] = job[b]) /\ excused' = excused \cup {s}
    BY <1>2, LoadFails, GoMoves DEF Steps
  <2> HIDE DEF s
  <2>2. ~At(a, {"clear"}) /\ ~At(a, Loaded)' /\ s \in excused'
    BY <1>0, <1>2, <2>1 DEF At, Loaded
  <2> QED BY <1>0, <1>1, <2>1, <2>2, PolicyUntouched DEF s
<1> HIDE DEF s
<1>3. CASE job'[a].step # "idle"
  <2>1. /\ job'[a].step = "clear" /\ job'[a].at = s
        /\ job'[a].rules = AllRolePermissions /\ job'[a].alone = (Syncing(s) = {})
        /\ excused' = (IF Syncing(s) = {} THEN excused ELSE excused \cup {s})
    BY <1>3, LoadMoves DEF Kept, s
  <2>2. \A b \in Actors : b # a =>
           /\ job'[b].step = job[b].step /\ job'[b].at = job[b].at
           /\ job'[b].rules = job[b].rules
           /\ job'[b].alone = (b \notin Syncing(s) /\ job[b].alone)
    BY <1>3, LoadMoves DEF Kept, s
  <2>3. ASSUME NEW b \in Actors PROVE RulesOf(b)'
    <3>1. CASE b = a
      <4>1. Syncing(s) = {} => \A c \in Actors : job'[c].at = s /\ At(c, Loaded)' => c = a
        BY <2>2 DEF Syncing, At
      <4> QED BY <1>1, <2>1, <3>1, <4>1 DEF RulesOf, At
    <3>2. CASE b # a
      <4>1. SUFFICES ASSUME At(b, Loaded), job[b].alone, b \notin Syncing(s)
                     PROVE  RulesOf(b)'
        BY <2>2, <3>2 DEF RulesOf, At
      <4>2. job[b].at # s
        BY <4>1 DEF Syncing
      <4>3. RulesOf(b)
        BY DEF PolicyInv
      <4> QED BY <1>0, <1>1, <2>1, <2>2, <3>2, <4>1, <4>2, <4>3 DEF RulesOf, At
    <3> QED BY <3>1, <3>2
  <2>4. ASSUME NEW t \in Servers PROVE PolicyOf(t)'
    <3>1. PolicyOf(t)
      BY DEF PolicyInv
    <3>2. CASE t = s
      <4>1. SUFFICES ASSUME Syncing(s) = {} PROVE PolicyOf(t)'
        BY <2>1, <3>2 DEF PolicyOf
      <4>2. ASSUME NEW c \in Actors, job'[c].at = s, At(c, Loaded)' PROVE c = a
        BY <2>2, <4>1, <4>2 DEF Syncing, At
      <4> QED BY <1>1, <2>1, <3>2, <4>1, <4>2 DEF PolicyOf, At
    <3>3. CASE t # s
      <4>1. Pending(t) => Pending(t)'
        BY <1>0, <2>2, <3>3 DEF Pending, At, s
      <4>2. ASSUME NEW c \in Actors, job[c].at = t \/ job'[c].at = t
            PROVE  job'[c].step = job[c].step /\ job'[c].at = t /\ job[c].at = t
                   /\ job'[c].rules = job[c].rules
        BY <2>1, <2>2, <3>3, <4>2 DEF s
      <4>3. t \notin excused' => t \notin excused
        BY <2>1
      <4> QED BY <1>0, <1>1, <3>1, <4>1, <4>2, <4>3 DEF PolicyOf, At
    <3> QED BY <3>2, <3>3
  <2> QED BY <2>3, <2>4 DEF PolicyInv
<1> QED BY <1>2, <1>3

LEMMA WriteKeepsPolicy ==
    ASSUME TypeOK, JobsInv, PolicyInv, NEW a \in Actors,
           ClearPolicy(a) \/ (AddPolicy(a) /\ job'[a].step # "idle")
    PROVE  PolicyInv'
<1> DEFINE s == job[a].at
<1>0. s \in Servers /\ At(a, Loaded) /\ UNCHANGED <<row, perms>>
      /\ policy \in [Servers -> SUBSET Pairs]
  BY DEF ClearPolicy, AddPolicy, JobsInv, At, Loaded, dbVars, TypeOK
<1>1. AllRolePermissions' = AllRolePermissions
  BY <1>0 DEF AllRolePermissions
<1>2. /\ \A b \in Actors : b # a => job'[b] = job[b]
      /\ job'[a].step = "add" /\ job'[a].at = s /\ job'[a].alone = job[a].alone
      /\ job'[a].rules \subseteq job[a].rules
      /\ \A t \in Servers : t # s => policy'[t] = policy[t]
  <2>1. CASE ClearPolicy(a)
    BY <1>0, <2>1, GoMoves DEF ClearPolicy, Steps, Kept
  <2>2. CASE AddPolicy(a) /\ job'[a].step # "idle"
    BY <1>0, <2>2, AddMoves DEF Kept
  <2> QED BY <2>1, <2>2
<1>3. \/ /\ policy'[s] = {} /\ At(a, {"clear"})
         /\ excused' = (IF job[a].alone THEN excused \ {s} ELSE excused)
      \/ /\ policy'[s] \subseteq policy[s] \cup job[a].rules /\ At(a, {"add"})
         /\ UNCHANGED excused
  <2>1. CASE ClearPolicy(a)
    BY <1>0, <2>1 DEF ClearPolicy
  <2>2. CASE AddPolicy(a) /\ job'[a].step # "idle"
    BY <1>0, <2>2, AddMoves DEF AddPolicy
  <2> QED BY <2>1, <2>2
<1> HIDE DEF s
<1>4. ASSUME NEW b \in Actors PROVE RulesOf(b)'
  <2>1. RulesOf(b) /\ RulesOf(a)
    BY DEF PolicyInv
  <2>2. SUFFICES ASSUME At(b, Loaded)', job'[b].alone PROVE RulesOf(b)'
    BY DEF RulesOf
  <2>3. /\ At(b, Loaded) /\ job[b].alone /\ job'[b].at = job[b].at
        /\ job'[b].rules \subseteq job[b].rules
    BY <1>0, <1>2, <2>2 DEF At, s
  <2>4. ASSUME NEW c \in Actors, job'[c].at = job'[b].at, At(c, Loaded)' PROVE c = b
    <3>1. job[c].at = job'[c].at /\ At(c, Loaded)
      BY <1>0, <1>2, <2>4 DEF At, s
    <3> QED BY <2>1, <2>3, <2>4, <3>1 DEF RulesOf
  <2> QED BY <1>1, <2>1, <2>3, <2>4 DEF RulesOf
<1>5. ASSUME NEW t \in Servers PROVE PolicyOf(t)'
  <2>1. PolicyOf(t) /\ RulesOf(a)
    BY DEF PolicyInv
  <2>2. SUFFICES ASSUME t \notin excused', ~Pending(t)' PROVE PolicyOf(t)'
    BY DEF PolicyOf
  <2>3. ~Pending(t)
    <3>1. ASSUME NEW b \in Actors, At(b, Begins) PROVE job'[b] = job[b]
      BY <1>0, <1>2, <3>1 DEF At, Begins, Loaded
    <3> QED BY <2>2, <3>1 DEF Pending, At
  <2>4. ASSUME NEW c \in Actors, job'[c].at = t, At(c, Loaded)'
        PROVE  /\ job[c].at = t /\ At(c, Loaded) /\ job'[c].rules \subseteq job[c].rules
    BY <1>0, <1>2, <2>4 DEF At, s
  <2>5. CASE t \notin excused
    <3>1. \A c \in Actors : job[c].at = t /\ At(c, Loaded) => job[c].rules \subseteq AllRolePermissions
      BY <2>1, <2>3, <2>5 DEF PolicyOf
    <3>2. ASSUME \A c \in Actors : job'[c].at = t => ~At(c, {"clear"})'
          PROVE  policy'[t] \subseteq AllRolePermissions
      <4>1. \A c \in Actors : c # a /\ job[c].at = t => ~At(c, {"clear"})
        BY <1>2, <3>2 DEF At
      <4>2. CASE t = s /\ policy'[s] = {}
        BY <4>2
      <4>3. CASE t = s /\ policy'[s] \subseteq policy[s] \cup job[a].rules /\ At(a, {"add"})
        <5>1. \A c \in Actors : job[c].at = t => ~At(c, {"clear"})
          BY <4>1, <4>3 DEF At
        <5> QED BY <1>0, <2>1, <2>3, <2>5, <3>1, <4>3, <5>1 DEF PolicyOf, s
      <4>4. CASE t # s
        <5>1. \A c \in Actors : job[c].at = t => ~At(c, {"clear"})
          BY <4>1, <4>4 DEF s
        <5> QED BY <1>2, <2>1, <2>3, <2>5, <4>4, <5>1 DEF PolicyOf
      <4> QED BY <1>3, <4>2, <4>3, <4>4
    <3>3. ASSUME NEW c \in Actors, job'[c].at = t, At(c, Loaded)'
          PROVE  job'[c].rules \subseteq AllRolePermissions'
      BY <1>1, <2>4, <3>1, <3>3
    <3> QED BY <1>1, <3>2, <3>3 DEF PolicyOf
  <2>6. CASE t \in excused
    <3>1. t = s /\ policy'[s] = {} /\ job[a].alone
      BY <1>3, <2>2, <2>6
    <3>2. ASSUME NEW c \in Actors, job'[c].at = t, At(c, Loaded)'
          PROVE  job'[c].rules \subseteq AllRolePermissions'
      <4>1. c = a
        BY <1>0, <2>1, <2>4, <3>1, <3>2 DEF RulesOf, s
      <4> QED BY <1>0, <1>1, <1>2, <2>1, <3>1, <4>1 DEF RulesOf
    <3> QED BY <3>1, <3>2 DEF PolicyOf
  <2> QED BY <2>5, <2>6
<1> QED BY <1>4, <1>5 DEF PolicyInv

LEMMA RestartKeepsPolicy ==
    ASSUME TypeOK, JobsInv, PolicyInv, NEW s \in Servers, Restart(s)
    PROVE  PolicyInv'
<1>0. s \in Actors /\ UNCHANGED <<row, perms, excused>>
      /\ \A t \in Servers : t # s => policy'[t] = policy[t]
  BY DEF Restart, NewEnforcer, dbVars, Actors, TypeOK
<1>1. AllRolePermissions' = AllRolePermissions
  BY <1>0 DEF AllRolePermissions
<1>2. /\ job'[s].step = "seed" /\ job'[s].at = s
      /\ \A b \in Actors : b # s =>
            IF job[b].at = s THEN At(b, {"idle"})' ELSE job'[b] = job[b]
  BY RestartMoves
<1>3. ASSUME NEW b \in Actors PROVE RulesOf(b)'
  <2>1. RulesOf(b)
    BY DEF PolicyInv
  <2>2. SUFFICES ASSUME At(b, Loaded)', job'[b].alone PROVE RulesOf(b)'
    BY DEF RulesOf
  <2>3. b # s /\ job'[b] = job[b] /\ job[b].at # s /\ job[b].at \in Servers
    BY <1>2, <2>2 DEF At, JobsInv, Loaded
  <2>4. ASSUME NEW c \in Actors, job'[c].at = job'[b].at, At(c, Loaded)' PROVE c = b
    <3>1. c # s /\ job'[c] = job[c]
      BY <1>2, <2>3, <2>4 DEF At, Loaded
    <3> QED BY <2>1, <2>2, <2>3, <2>4, <3>1 DEF RulesOf, At
  <2> QED BY <1>0, <1>1, <2>1, <2>2, <2>3, <2>4 DEF RulesOf, At
<1>4. ASSUME NEW t \in Servers PROVE PolicyOf(t)'
  <2>1. PolicyOf(t)
    BY DEF PolicyInv
  <2>2. CASE t = s
    BY <1>0, <1>2, <2>2 DEF PolicyOf, Pending, At, Begins
  <2>3. CASE t # s
    <3>1. job[s].at = t => At(s, {"idle"})
      BY <1>0, <2>3 DEF JobsInv
    <3>2. ASSUME NEW c \in Actors,
                 \/ job[c].at = t /\ ~At(c, {"idle"})
                 \/ job'[c].at = t /\ ~At(c, {"idle"})'
          PROVE  job'[c] = job[c]
      BY <1>2, <2>3, <3>1, <3>2 DEF At
    <3> QED BY <1>0, <1>1, <2>1, <2>3, <3>2 DEF PolicyOf, Pending, At, Begins, Loaded
  <2> QED BY <2>2, <2>3
<1> QED BY <1>3, <1>4 DEF PolicyInv

LEMMA EditingKeepsPolicy ==
    ASSUME TypeOK, JobsInv, PolicyInv, NEW a \in Admins,
           \/ InsertRole(a) \/ EditRole(a) \/ CommitPermissions(a)
           \/ RemoveRole(a) \/ UncacheRole(a)
    PROVE  PolicyInv'
<1> DEFINE s == job[a].at
<1>1. a \in Actors /\ s \in Servers
      /\ At(a, {"insert", "edit", "commit", "remove", "uncache"})
  BY DEF Actors, JobsInv, At, InsertRole, EditRole, CommitPermissions, RemoveRole, UncacheRole
<1>2. ASSUME NEW step \in {"load", "uncache"}, Committed(a, s, step) PROVE PolicyInv'
  BY <1>1, <1>2, CommitsAreExcused
<1>3. CASE InsertRole(a)
  <2>1. PICK step \in {"load", "idle"} : Go(a, step)
    BY <1>3 DEF InsertRole
  <2>2. job'[a].step = step /\ \A b \in Actors : b # a => job'[b] = job[b]
    BY <1>1, <2>1, GoMoves DEF Steps
  <2>3. UNCHANGED <<policy, excused>> /\ At(a, {"insert"})
    BY <1>3 DEF InsertRole
  <2>4. AllRolePermissions \subseteq AllRolePermissions'
    <3>1. \A r \in RoleIds : row[r] = "live" => row'[r] = "live" /\ perms[r] \subseteq perms'[r]
      BY <1>3 DEF InsertRole, TypeOK
    <3> QED BY <3>1, PermissionsGrow
  <2>5. ~At(a, {"clear"}) /\ ~At(a, Begins) /\ ~At(a, Loaded)'
    BY <2>2, <2>3 DEF At, Begins, Loaded
  <2> QED BY <2>2, <2>3, <2>4, <2>5, PolicyUntouched
<1>4. CASE EditRole(a) \/ UncacheRole(a)
  <2>1. PICK step \in {"commit", "idle", "load"} : Go(a, step) /\ (At(a, Begins) => step = "load")
    BY <1>4 DEF EditRole, UncacheRole, At, Begins
  <2>2. /\ job'[a].step = step /\ (step = "load" => job'[a].at = s)
        /\ \A b \in Actors : b # a => job'[b] = job[b]
    BY <1>1, <2>1, GoMoves DEF Steps, Kept
  <2>3. UNCHANGED <<row, perms, policy, excused>>
    BY <1>4 DEF EditRole, UncacheRole, dbVars
  <2>4. AllRolePermissions \subseteq AllRolePermissions'
    BY <2>3 DEF AllRolePermissions
  <2>5. /\ ~At(a, {"clear"}) /\ ~At(a, Loaded)'
        /\ At(a, Begins) => At(a, Begins)' /\ job'[a].at = s
    BY <1>1, <2>1, <2>2 DEF At, Loaded, Begins
  <2> QED BY <2>2, <2>3, <2>4, <2>5, PolicyUntouched
<1>5. CASE CommitPermissions(a)
  BY <1>2, <1>5 DEF CommitPermissions
<1>6. CASE RemoveRole(a)
  BY <1>2, <1>6 DEF RemoveRole
<1> QED BY <1>3, <1>4, <1>5, <1>6

LEMMA PolicyHoldsNext == TypeOK /\ JobsInv /\ PolicyInv /\ [Next]_vars => PolicyInv'
<1> SUFFICES ASSUME TypeOK, JobsInv, PolicyInv, [Next]_vars PROVE PolicyInv'
  OBVIOUS
<1>0. (\A b \in Admins : b \in Actors) /\ (\A s \in Servers : s \in Actors)
  BY DEF Actors
<1>1. UNCHANGED <<row, perms>> => AllRolePermissions \subseteq AllRolePermissions'
  BY DEF AllRolePermissions
<1>2. ASSUME NEW a \in Admins, NEW s \in Servers, NEW r \in RoleIds,
             \/ DeleteRole(a, s, r)
             \/ \E codes \in SUBSET Perms :
                   \/ CreateRole(a, s, r, codes)
                   \/ \E sync \in BOOLEAN : UpdateRole(a, s, r, codes, sync)
      PROVE  PolicyInv'
  <2>1. /\ At(a, {"idle"}) /\ At(a, {"insert", "edit", "remove"})'
        /\ \A b \in Actors : b # a => job'[b] = job[b]
        /\ UNCHANGED <<row, perms, policy, excused>>
    BY <1>2, CallsStart
  <2>2. ~At(a, {"clear"}) /\ ~At(a, Begins) /\ ~At(a, Loaded)'
    BY <2>1 DEF At, Begins, Loaded
  <2> QED BY <1>1, <2>1, <2>2, PolicyUntouched
<1>3. ASSUME NEW a \in Actors,
             \/ AddedAll(a) \/ SavePolicy(a)
             \/ AddPolicy(a) /\ job'[a].step = "idle"
      PROVE  PolicyInv'
  <2>1. PICK step \in {"save", "idle"} : Go(a, step)
    BY <1>3, AddFails DEF AddedAll, SavePolicy
  <2>2. job'[a].step = step /\ \A b \in Actors : b # a => job'[b] = job[b]
    BY <2>1, GoMoves DEF Steps
  <2>3. UNCHANGED <<row, perms, policy, excused>> /\ At(a, {"add", "save"})
    BY <1>3, AddFails DEF AddedAll, SavePolicy, AddPolicy, At, dbVars
  <2>4. ~At(a, {"clear"}) /\ ~At(a, Begins) /\ ~At(a, Loaded)'
    BY <2>2, <2>3 DEF At, Begins, Loaded
  <2> QED BY <1>1, <2>2, <2>3, <2>4, PolicyUntouched
<1>4. ASSUME NEW s \in Servers, Seeding(s) PROVE PolicyInv'
  <2>1. /\ job'[s].at = job[s].at /\ At(s, {"seed", "count", "create"})
        /\ At(s, {"seed", "count", "create", "load"})'
        /\ \A b \in Actors : b # s => job'[b] = job[b]
        /\ UNCHANGED <<row, policy, excused>>
    BY <1>4, SeedMoves
  <2>2. AllRolePermissions \subseteq AllRolePermissions'
    BY <1>4, <2>1, SeedGives, PermissionsGrow
  <2>3. ~At(s, {"clear"}) /\ ~At(s, Loaded)' /\ At(s, Begins)'
    BY <2>1 DEF At, Begins, Loaded
  <2> QED BY <2>1, <2>2, <2>3, PolicyUntouched
<1>5. ASSUME \/ \E q \in Readers : \/ LookUp(q) \/ LoadCodes(q) \/ PutCodes(q)
                                   \/ \E r \in RoleIds : FindRow(q, r)
             \/ \E r \in RoleIds : CodesExpire(r)
             \/ \E rs \in SUBSET RoleIds : AssignRoles(rs)
             \/ UNCHANGED vars
      PROVE  PolicyInv'
  <2>1. UNCHANGED <<row, perms, policy, excused, job>>
    BY <1>5 DEF FindRow, LookUp, LoadCodes, PutCodes, CodesExpire, AssignRoles, vars, dbVars
  <2> QED BY <1>1, <2>1, PolicyUntouched
<1> QED BY <1>2, <1>3, <1>4, <1>5, EditingKeepsPolicy, LoadKeepsPolicy, WriteKeepsPolicy,
           RestartKeepsPolicy
        DEF Next, Seeding

\* The policy of a server permits nothing that the tables do not permit once its own
\* edits have cleared it, but for the causes named, for any servers, administrators
\* and failures.
THEOREM PoliciesDoNotExceed == Spec => []PolicyDoesNotExceed
<1>1. Init => PolicyInv
  <2> SUFFICES ASSUME Init PROVE PolicyInv
    OBVIOUS
  <2>1. \A a \in Actors : ~At(a, Loaded)
    BY DEF Init, Idle, At, Loaded
  <2> QED BY <2>1 DEF Init, PolicyInv, RulesOf, PolicyOf
<1>2. TypeOK /\ PolicyInv => PolicyDoesNotExceed
  <2> SUFFICES ASSUME TypeOK, PolicyInv, NEW s \in up \ excused, Settled(s)
               PROVE  policy[s] \subseteq AllRolePermissions
    BY DEF PolicyDoesNotExceed, Enforce
  <2>1. s \in Servers /\ PolicyOf(s)
    BY DEF TypeOK, PolicyInv
  <2>2. ~Pending(s) /\ \A a \in Actors : job[a].at = s => ~At(a, {"clear"})
    BY DEF Settled, Pending, At, Begins
  <2> QED BY <2>1, <2>2 DEF PolicyOf
<1> QED BY <1>1, <1>2, TypesHoldInit, TypesHoldNext, PolicyHoldsNext, PTL DEF Spec
===============================================================================
