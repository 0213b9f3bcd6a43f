-------------------------------- MODULE Catalog --------------------------------
(***************************************************************************)
(* One model of the model catalog: its row, and the two Redis keys that    *)
(* repo.Get (internal/repo/cache.go) fills and the writes of ModelRepo     *)
(* delete, "one" for model:<id> and "all" for the list of enabled models.  *)
(* A client is one request, or the loading of adapters by a process that   *)
(* starts; each statement and each Redis command is one action.            *)
(*                                                                         *)
(* Of the row the model keeps the key of the upstream service, which its   *)
(* JSON leaves out (model.Model.APIKeyEncrypted), and for every cache key  *)
(* a version of all the rest: vers["one"] counts the writes to the row,    *)
(* vers["all"] those that change what LoadAllAdapters, its only reader,    *)
(* takes from the list (not the health figures, nor updated_at).  What a   *)
(* caller does with the model it read (building an adapter, calling the    *)
(* service) changes nothing here.                                          *)
(***************************************************************************)
EXTENDS Integers

CONSTANTS
    Clients,
    Keys, NoKey,      \* upstream keys, and none
    MaxWrites,        \* bound on the writes of a behaviour
    MaxLost           \* bound on the deletions that never reach Redis

ASSUME CatalogAssumption == NoKey \notin Keys /\ MaxWrites \in Nat /\ MaxLost \in Nat

CacheKeys == {"one", "all"}

VARIABLES
    row,      \* [st, key]
    vers,     \* of what belongs under each cache key
    cache,    \* what Redis has under each
    missed,   \* its entry outlived a deletion that was lost
    call,     \* what each client is doing
    lost      \* deletions lost so far

vars == <<row, vers, cache, missed, call, lost>>

Absent == [there |-> FALSE, ver |-> 0, late |-> FALSE]

\* op: what the request is for; key: of the model as it was read; ver: its
\* version; new: the key the request brings.
Idle == [pc |-> "idle", op |-> "none", ver |-> 0, key |-> NoKey, new |-> NoKey]

At(c, pc) == call[c].pc = pc
Goto(c, pc) == call' = [call EXCEPT ![c].pc = pc]
Begin(c, pc, op, new) ==
    /\ At(c, "idle")
    /\ call' = [call EXCEPT ![c] = [Idle EXCEPT !.pc = pc, !.op = op, !.new = new]]
End(c) == call' = [call EXCEPT ![c] = Idle]

Live == row.st = "live"

Init ==
    /\ row \in [st : {"none"}, key : {NoKey}] \cup [st : {"live"}, key : Keys \cup {NoKey}]
    /\ vers = [k \in CacheKeys |-> 0]
    /\ cache = [k \in CacheKeys |-> Absent]
    /\ missed = [k \in CacheKeys |-> FALSE]
    /\ call = [c \in Clients |-> Idle]
    /\ lost = 0

-------------------------------------------------------------------------------
(* repo.Get: the entry, if Redis answers and has it; else the row, which   *)
(* is then put into Redis, if Redis answers.                               *)
ReadKey(c) == IF call[c].op = "load" THEN "all" ELSE "one"

\* An update and a health check go on with the model; a reader is done.
Resume(c, key) ==
    CASE call[c].op = "update" -> call' = [call EXCEPT ![c].pc = "write", ![c].key = key]
      [] call[c].op = "health" -> Goto(c, "mark")
      [] OTHER -> End(c)

(* The JSON in Redis has no upstream key.                                  *)
GetHit(c) ==
    /\ At(c, "get")
    /\ cache[ReadKey(c)].there
    /\ Resume(c, NoKey)
    /\ UNCHANGED <<row, vers, cache, missed, lost>>

(* Redis has no entry, or does not answer.  A row that is not there ends   *)
(* the request; a list may be empty.                                       *)
GetLoad(c) ==
    /\ At(c, "get")
    /\ call[c].op = "load" \/ Live
    /\ call' = [call EXCEPT ![c].pc = "fill", ![c].key = row.key, ![c].ver = vers[ReadKey(c)]]
    /\ UNCHANGED <<row, vers, cache, missed, lost>>

\* late: what is put was changed since it was read.
Put(k, ver) ==
    /\ cache' = [cache EXCEPT ![k] = [there |-> TRUE, ver |-> ver, late |-> ver # vers[k]]]
    /\ missed' = [missed EXCEPT ![k] = FALSE]

GetFill(c) ==
    /\ At(c, "fill")
    /\ Put(ReadKey(c), call[c].ver) \/ UNCHANGED <<cache, missed>>
    /\ Resume(c, call[c].key)
    /\ UNCHANGED <<row, vers, lost>>

Drop(k) ==
    /\ cache' = [cache EXCEPT ![k] = Absent]
    /\ missed' = [missed EXCEPT ![k] = FALSE]

(* Not the code: Redis is told of no time to live.                         *)
ExpireNever(k) ==
    /\ cache[k].there /\ FALSE
    /\ Drop(k)
    /\ UNCHANGED <<row, vers, call, lost>>

(* The entry reaches its time to live, five minutes.                       *)
Expire(k) ==
    /\ cache[k].there
    /\ Drop(k)
    /\ UNCHANGED <<row, vers, call, lost>>

-------------------------------------------------------------------------------
(* The writes, each followed by its deletions.                             *)
Changed(K) == vers' = [k \in CacheKeys |-> IF k \in K THEN vers[k] + 1 ELSE vers[k]]

(* A statement on a deleted row changes nothing and is no error.           *)
IfLive(new, K) ==
    IF Live THEN row' = new /\ Changed(K) ELSE UNCHANGED <<row, vers>>

(* The code of a model is unique, also among deleted ones.                 *)
Insert(c) ==
    /\ At(c, "insert")
    /\ row.st = "none"
    /\ row' = [st |-> "live", key |-> call[c].new] /\ Changed(CacheKeys)
    /\ Goto(c, "clear")
    /\ UNCHANGED <<cache, missed, lost>>

(* Not the code: the statement also finds a deleted row.                   *)
WriteRowUnscoped(c) ==
    /\ At(c, "write")
    /\ row' = [st |-> "live", key |-> call[c].key] /\ Changed(CacheKeys)
    /\ Goto(c, "clear")
    /\ UNCHANGED <<cache, missed, lost>>

(* ModelRepo.Update writes every column, the upstream key as it was read.  *)
WriteRow(c) ==
    /\ At(c, "write")
    /\ IfLive([row EXCEPT !.key = call[c].key], CacheKeys)
    /\ Goto(c, "clear")
    /\ UNCHANGED <<cache, missed, lost>>

WriteKey(c) ==
    /\ At(c, "key")
    /\ IfLive([row EXCEPT !.key = call[c].new], {"one"})
    /\ Goto(c, "clearLast")
    /\ UNCHANGED <<cache, missed, lost>>

MarkHealth(c) ==
    /\ At(c, "mark")
    /\ IfLive(row, {"one"})
    /\ Goto(c, "clearLast")
    /\ UNCHANGED <<cache, missed, lost>>

Remove(c) ==
    /\ At(c, "remove")
    /\ IfLive([row EXCEPT !.st = "deleted"], CacheKeys)
    /\ Goto(c, "clear")
    /\ UNCHANGED <<cache, missed, lost>>

(* repo.Delete; nobody looks at its error.                                 *)
Clear(k) ==
    \/ Drop(k) /\ UNCHANGED lost
    \/ /\ lost < MaxLost /\ lost' = lost + 1
       /\ missed' = [missed EXCEPT ![k] = cache[k].there]
       /\ UNCHANGED cache

ClearOne(c) ==
    /\ At(c, "clear")
    /\ Clear("one") /\ Goto(c, "clearAll")
    /\ UNCHANGED <<row, vers>>

AfterClear(c) ==
    IF call[c].op = "update" /\ call[c].new # NoKey THEN Goto(c, "key") ELSE End(c)

(* Not the code: the list is forgotten.                                    *)
ClearAllForgotten(c) ==
    /\ At(c, "clearAll")
    /\ AfterClear(c)
    /\ UNCHANGED <<row, vers, cache, missed, lost>>

ClearAll(c) ==
    /\ At(c, "clearAll")
    /\ Clear("all") /\ AfterClear(c)
    /\ UNCHANGED <<row, vers>>

ClearLast(c) ==
    /\ At(c, "clearLast")
    /\ Clear("one") /\ End(c)
    /\ UNCHANGED <<row, vers>>

\* The deletions a client has yet to make.
Owes(c, k) ==
    \/ At(c, "clear")
    \/ At(c, "clearAll") /\ k = "all"
    \/ At(c, "clearLast") /\ k = "one"

(* A statement fails, the client goes away and its context with it, or the *)
(* process dies; the deletions it owed are lost.                           *)
Abandon(c) ==
    /\ ~At(c, "idle")
    /\ IF \E k \in CacheKeys : Owes(c, k)
       THEN lost < MaxLost /\ lost' = lost + 1 ELSE UNCHANGED lost
    /\ missed' = [k \in CacheKeys |-> missed[k] \/ (Owes(c, k) /\ cache[k].there)]
    /\ End(c)
    /\ UNCHANGED <<row, vers, cache>>

-------------------------------------------------------------------------------
(* Get and GetAdapter read; LoadAllAdapters reads the list.                *)
Start(c) ==
    /\ UNCHANGED <<row, vers, cache, missed, lost>>
    /\ \/ \E op \in {"read", "load"} : Begin(c, "get", op, NoKey)
       \/ /\ vers["one"] < MaxWrites
          /\ \/ \E new \in Keys \cup {NoKey} :
                   Begin(c, "get", "update", new) \/ Begin(c, "insert", "create", new)
             \/ Begin(c, "get", "health", NoKey) \/ Begin(c, "remove", "delete", NoKey)

Step(c) ==
    \/ GetHit(c) \/ GetLoad(c) \/ GetFill(c)
    \/ Insert(c) \/ WriteRow(c) \/ WriteKey(c) \/ MarkHealth(c) \/ Remove(c)
    \/ ClearOne(c) \/ ClearAll(c) \/ ClearLast(c)

Next ==
    \/ \E c \in Clients : Start(c) \/ Step(c) \/ Abandon(c)
    \/ \E k \in CacheKeys : Expire(k)

(* A request goes on or is given up; an entry expires.                     *)
Fairness ==
    /\ \A c \in Clients : WF_vars(Step(c) \/ Abandon(c))
    /\ \A k \in CacheKeys : WF_vars(Expire(k))

Spec == Init /\ [][Next]_vars /\ Fairness

-------------------------------------------------------------------------------
Row == [st : {"none", "live", "deleted"}, key : Keys \cup {NoKey}]
CacheEntry == [there : BOOLEAN, ver : Nat, late : BOOLEAN]
Call == [pc : {"idle", "get", "fill", "insert", "write", "key", "mark", "remove",
               "clear", "clearAll", "clearLast"},
         op : {"none", "read", "load", "update", "create", "health", "delete"},
         ver : Nat, key : Keys \cup {NoKey}, new : Keys \cup {NoKey}]

TypeOK ==
    /\ row \in Row
    /\ vers \in [CacheKeys -> Nat]
    /\ cache \in [CacheKeys -> CacheEntry]
    /\ missed \in [CacheKeys -> BOOLEAN]
    /\ call \in [Clients -> Call]
    /\ lost \in Nat

(* A cached model or list that is not what the database has was put by a   *)
(* reader who was overtaken by a write, outlived a lost deletion, or is    *)
(* about to be deleted: no write forgets what it makes stale, and no order *)
(* of readers and writers leaves more than that (repo/model.go:83-141).    *)
StaleHasCause ==
    \A k \in CacheKeys : cache[k].there /\ cache[k].ver # vers[k] =>
        cache[k].late \/ missed[k] \/ \E c \in Clients : Owes(c, k)

(* Once the writing stops, what is cached is what the database has, from   *)
(* some moment on: a stale entry is not put back for ever by readers who   *)
(* load and fill without a lock, and its time to live ends it              *)
(* (repo/cache.go:28-58).                                                  *)
CacheConverges ==
    \A k \in CacheKeys : <>[](cache[k].there => cache[k].ver = vers[k])

(* An edit or a health check that read the model before it was deleted     *)
(* does not bring it back, although it writes every column                 *)
(* (repo/model.go:97-104).                                                 *)
DeletedStaysDeleted == [][row.st = "deleted" => row' = row]_row
===============================================================================
