------------------------------- MODULE PlayerData -------------------------------
(***************************************************************************)
(* The player data centre: one playerDataCenter service with the modules   *)
(* (Key) of one player.  Data lives in the service's memory, in the local  *)
(* redis and in the database.  A write goes to memory and redis at once    *)
(* and to the database either in the same request (update, delete) or      *)
(* later, from dbTask (sendUpdate, sendDelete).  A write that redis        *)
(* refuses goes to redisTask.  Timer coroutines drain both task lists.     *)
(*                                                                         *)
(* Requests on one key are serialised by that key's sq; every skynet.call  *)
(* (redis, database) suspends the coroutine, and co[t].pc names the call it   *)
(* is suspended in.  What runs between two calls is one action.            *)
(*                                                                         *)
(* Data is abstracted to versions: the n-th value a client writes is n,    *)
(* and 0 stands for no data.  The player lives in this kingdom throughout. *)
(***************************************************************************)
EXTENDS Integers, Sequences, FiniteSets

CONSTANTS
    Key,          \* modules of the player (a redis hash field, a database row each)
    Client,       \* coroutines that serve requests
    DbTimer,      \* the coroutine of the tDealDbTask timer
    RedisTimer,   \* the coroutine of the tDealRedisTask timer
    DbType,       \* dbconf.dbtype: "mongodb" or "mysql"
    Ops,          \* the operations callers may ask for
    RedisFaults,  \* redis calls may fail
    DbFaults,     \* database calls may fail
    MaxVer        \* bound: values written in one behaviour

AllOps == {"query", "update", "sendUpdate", "delete", "sendDelete", "logout", "stop"}

ASSUME ThreadsAssumption ==
    DbTimer \notin Client /\ RedisTimer \notin Client /\ DbTimer # RedisTimer
ASSUME ConfigAssumption ==
    /\ Key # {}
    /\ DbType \in {"mongodb", "mysql"}
    /\ Ops \subseteq AllOps
    /\ RedisFaults \in BOOLEAN /\ DbFaults \in BOOLEAN
    /\ MaxVer \in Nat

Thread == Client \cup {DbTimer, RedisTimer}

Nil == 0            \* no data
Ver == 0..MaxVer    \* contents of a store
NoTask == -1        \* no task in a list
Junk == -2          \* a statement the database rejects

VARIABLES
    mem,        \* playerDataCache.cacheData
    redis,      \* the player's hash in the local redis
    db,         \* the database row
    redisTask,  \* redisTask[k]: version to write, Nil for a delete, NoTask
    dbTask,     \* dbTask[k]: stmt and whether the task carries a cmd field
    line, orphan,  \* the sq table
    co,         \* the coroutines: the call each is suspended in and its locals
    latest,     \* history: the last write each key accepted
    issued,     \* history: versions handed out
    stoping, stoped

INSTANCE SqTable

sq == <<line, orphan>>
stores == <<mem, redis, db>>
tasks == <<redisTask, dbTask>>
history == <<latest, issued>>
stopping == <<stoping, stoped>>
vars == <<stores, tasks, sq, co, history, stopping>>

NoDbTask == [stmt |-> NoTask, named |-> FALSE]

\* A coroutine's locals: the request it serves (op, key, val), the value and
\* the return address of the dbWrap call it is in (arg, ret), the statement
\* dealDbTask took from dbTask (early), the modules a logout has yet to look at.
Resting ==
    [pc |-> "idle", op |-> "none", key |-> CHOOSE k \in Key : TRUE, val |-> Nil,
     arg |-> Nil, ret |-> "done", early |-> NoTask, todo |-> {}]

Init ==
    /\ mem = [k \in Key |-> Nil] /\ redis = [k \in Key |-> Nil]
    /\ db = [k \in Key |-> Nil]
    /\ redisTask = [k \in Key |-> NoTask]
    /\ dbTask = [k \in Key |-> NoDbTask]
    /\ SqInit
    /\ co = [t \in Thread |-> Resting]
    /\ latest = [k \in Key |-> Nil] /\ issued = 0
    /\ stoping = FALSE /\ stoped = FALSE

--------------------------------------------------------------------------------
(* Moving a coroutine from one call to the next. *)

Goto(t, p) == co' = [co EXCEPT ![t].pc = p] /\ UNCHANGED sq

\* The function passed to the sq ends and the coroutine leaves it.  A logout
\* goes on to the next module unless an error ends it; a request is over.
Finish(t, ok) ==
    /\ Exit(t, co[t].key)
    /\ co' = [co EXCEPT ![t] = IF ok /\ @.op = "logout"
                               THEN [Resting EXCEPT !.pc = "scan", !.op = "logout", !.todo = co[t].todo]
                               ELSE Resting]

Writes == {"update", "sendUpdate", "delete", "sendDelete"}
Async == {"sendUpdate", "sendDelete"}

\* What follows dealRedisTask in each operation.
AfterRedisTask(o) == IF o \in Writes THEN "write"
                     ELSE IF o = "query" THEN "lookup" ELSE "flush"

\* A dbWrap call ends.  Called for a pending redis task it returns to the
\* operation, whose xpcall swallows an error when it is a write; an error ends
\* a query or a logout.
EndDbWrap(t, ok) ==
    IF co[t].ret # "done" /\ (ok \/ co[t].op \in Writes)
    THEN /\ co' = [co EXCEPT ![t].pc = co[t].ret, ![t].arg = Nil, ![t].ret = "done"]
         /\ UNCHANGED sq
    ELSE Finish(t, ok)

\* A fault: a key that has a task keeps it.
PushDbKeeps(k, s, n) ==
    dbTask' = [dbTask EXCEPT ![k] = IF @ = NoDbTask THEN [stmt |-> s, named |-> n] ELSE @]

\* filterList.push: the newest task of a key replaces an older one.
PushDb(k, s, n) == dbTask' = [dbTask EXCEPT ![k] = [stmt |-> s, named |-> n]]
PushRedis(k, v) == redisTask' = [redisTask EXCEPT ![k] = v]

--------------------------------------------------------------------------------
(* Requests. *)

\* dispatchCmd -> query/update/sendUpdate/delete/sendDelete: get the key's sq
\* and call it.
Request(t, o, k) ==
    /\ co[t].pc = "idle"
    /\ o \in Ops \cap (Writes \cup {"query"})
    /\ o \in {"update", "sendUpdate"} => issued < MaxVer
    /\ issued' = IF o \in {"update", "sendUpdate"} THEN issued + 1 ELSE issued
    /\ co' = [co EXCEPT ![t] = [@ EXCEPT !.pc = "begin", !.op = o, !.key = k,
                   !.val = IF o \in {"update", "sendUpdate"} THEN issued + 1 ELSE Nil]]
    /\ Enter(t, k)
    /\ UNCHANGED <<stores, tasks, latest, stopping>>

CmdOf(v) == IF v = Nil THEN "delete" ELSE "update"
OwnCmd(o) == IF o \in {"update", "sendUpdate"} THEN "update"
             ELSE IF o \in {"delete", "sendDelete"} THEN "delete" ELSE "none"

\* dealRedisTask, up to isRedisAlive: a pending task of the operation's own cmd
\* is left where it is.
CheckRedisTask(t) ==
    LET k == co[t].key
        due == redisTask[k] # NoTask /\ CmdOf(redisTask[k]) # OwnCmd(co[t].op)
    IN /\ co[t].pc = "begin" /\ Holds(t, k)
       /\ Goto(t, IF due THEN "isRedisAlive" ELSE AfterRedisTask(co[t].op))
       /\ UNCHANGED <<stores, tasks, history, stopping>>

\* A fault: the task seen before isRedisAlive is taken for granted after it.
DealRedisTaskStale(t) ==
    LET k == co[t].key IN
    /\ co[t].pc = "isRedisAlive" /\ Holds(t, k)
    /\ PushRedis(k, NoTask)
    /\ mem' = [mem EXCEPT ![k] = redisTask[k]]
    /\ co' = [co EXCEPT ![t].pc = "redisSet", ![t].arg = redisTask[k],
                         ![t].ret = AfterRedisTask(co[t].op)]
    /\ UNCHANGED sq
    /\ UNCHANGED <<redis, db, dbTask, history, stopping>>

\* redis is connected: the task, if the timer has not taken it meanwhile, is
\* removed and handed to dbWrap, whose first step writes the memory cache.
DealRedisTask(t) ==
    LET k == co[t].key IN
    /\ co[t].pc = "isRedisAlive" /\ Holds(t, k)
    /\ redisTask[k] # NoTask
    /\ PushRedis(k, NoTask)
    /\ mem' = [mem EXCEPT ![k] = redisTask[k]]
    /\ co' = [co EXCEPT ![t].pc = "redisSet", ![t].arg = redisTask[k],
                         ![t].ret = AfterRedisTask(co[t].op)]
    /\ UNCHANGED sq
    /\ UNCHANGED <<redis, db, dbTask, history, stopping>>

\* redis is not connected, or the task is gone.
SkipRedisTask(t) ==
    /\ co[t].pc = "isRedisAlive" /\ Holds(t, co[t].key)
    /\ RedisFaults \/ redisTask[co[t].key] = NoTask
    /\ Goto(t, AfterRedisTask(co[t].op))
    /\ UNCHANGED <<stores, tasks, history, stopping>>

\* dbWrap update/sendUpdate/delete/sendDelete -> playerDataCache update/delete:
\* the memory cache first, then redis.  The redis timer comes here with the
\* task it popped.
StartWrite(t) ==
    LET k == co[t].key IN
    /\ co[t].pc = "write" /\ Holds(t, k)
    /\ mem' = [mem EXCEPT ![k] = co[t].val]
    /\ latest' = IF t \in Client THEN [latest EXCEPT ![k] = co[t].val] ELSE latest
    /\ co' = [co EXCEPT ![t].pc = "redisSet", ![t].arg = co[t].val]
    /\ UNCHANGED sq
    /\ UNCHANGED <<redis, db, tasks, issued, stopping>>

\* redis took the write.  An asynchronous operation queues its database task
\* and is done; a synchronous one goes on to the database.
RedisSetOk(t) ==
    LET k == co[t].key
        queued == co[t].ret = "done" /\ co[t].op \in Async
    IN /\ co[t].pc = "redisSet" /\ Holds(t, k)
       /\ redis' = [redis EXCEPT ![k] = co[t].arg]
       /\ IF queued THEN PushDb(k, co[t].arg, TRUE) /\ Finish(t, TRUE)
          ELSE Goto(t, "dealDbTask") /\ UNCHANGED dbTask
       /\ UNCHANGED <<mem, db, redisTask, history, stopping>>

\* A fault: a write redis refuses is dropped.
RedisSetFailDrops(t) ==
    LET k == co[t].key IN
    /\ RedisFaults
    /\ co[t].pc = "redisSet" /\ Holds(t, k)
    /\ \E v \in {redis[k], co[t].arg} : redis' = [redis EXCEPT ![k] = v]
    /\ EndDbWrap(t, FALSE)
    /\ UNCHANGED <<mem, db, tasks, history, stopping>>

\* redis failed, before or after applying the write: reconnect, queue the write
\* as a redis task and raise an error, so that the database is not reached.
RedisSetFail(t) ==
    LET k == co[t].key IN
    /\ RedisFaults
    /\ co[t].pc = "redisSet" /\ Holds(t, k)
    /\ \E v \in {redis[k], co[t].arg} : redis' = [redis EXCEPT ![k] = v]
    /\ PushRedis(k, co[t].arg)
    /\ EndDbWrap(t, FALSE)
    /\ UNCHANGED <<mem, db, dbTask, history, stopping>>

--------------------------------------------------------------------------------
(* The database. *)

\* dealDbTask inside dbWrap.update/delete runs under xpcall; what follows it is
\* the write itself.  Inside query and logout ("flush") an error ends the
\* operation, and success leads to the database query or the next module.
AfterDbTask(t, ok) ==
    CASE co[t].pc \in {"dealDbTask", "sql"} -> Goto(t, "execute")
      [] co[t].pc \in {"flush", "flushSql"} ->
            IF ok /\ co[t].op = "query" THEN Goto(t, "dbQuery") ELSE Finish(t, ok)

\* No pending task for the key, or the database does not answer the keepalive
\* (mongodbService's keepalive always answers true).
NoDbTaskDue(t) ==
    /\ co[t].pc \in {"dealDbTask", "flush"} /\ Holds(t, co[t].key)
    /\ dbTask[co[t].key] = NoDbTask \/ (DbFaults /\ DbType = "mysql")
    /\ AfterDbTask(t, TRUE)
    /\ UNCHANGED <<stores, tasks, history, stopping>>

\* The pending task is removed and task.sql executed.  A mongodb task has no
\* sql field: the call fails on the missing command, and so does string.find
\* on it before the task is queued again.
DealDbTaskMongo(t) ==
    LET k == co[t].key IN
    /\ DbType = "mongodb"
    /\ co[t].pc \in {"dealDbTask", "flush"} /\ Holds(t, k)
    /\ dbTask[k] # NoDbTask
    /\ dbTask' = [dbTask EXCEPT ![k] = NoDbTask]
    /\ AfterDbTask(t, FALSE)
    /\ UNCHANGED <<stores, redisTask, history, stopping>>

\* What executeSqlSafe leaves in the database when it reports a failure, and
\* whether it can report success: mongodbService's delete returns nothing.
Landed(k, s) == IF s = Junk THEN {db[k]}
                ELSE IF DbFaults THEN {db[k], s} ELSE {s}
Acknowledged(s) == s # Junk /\ ~(DbType = "mongodb" /\ s = Nil)

\* mysql: the removed task's sql is executed.
DealDbTaskMysql(t) ==
    LET k == co[t].key IN
    /\ DbType = "mysql"
    /\ co[t].pc \in {"dealDbTask", "flush"} /\ Holds(t, k)
    /\ dbTask[k] # NoDbTask
    /\ dbTask' = [dbTask EXCEPT ![k] = NoDbTask]
    /\ co' = [co EXCEPT ![t].early = dbTask[k].stmt,
                         ![t].pc = IF co[t].pc = "flush" THEN "flushSql" ELSE "sql"]
    /\ UNCHANGED sq
    /\ UNCHANGED <<stores, redisTask, history, stopping>>

EarlySqlOk(t) ==
    LET k == co[t].key IN
    /\ co[t].pc \in {"sql", "flushSql"} /\ Holds(t, k)
    /\ Acknowledged(co[t].early)
    /\ db' = [db EXCEPT ![k] = co[t].early]
    /\ AfterDbTask(t, TRUE)
    /\ UNCHANGED <<mem, redis, tasks, history, stopping>>

EarlySqlFail(t) ==
    LET k == co[t].key IN
    /\ co[t].pc \in {"sql", "flushSql"} /\ Holds(t, k)
    /\ DbFaults \/ ~Acknowledged(co[t].early)
    /\ \E v \in Landed(k, co[t].early) : db' = [db EXCEPT ![k] = v]
    /\ PushDb(k, co[t].early, FALSE)
    /\ AfterDbTask(t, FALSE)
    /\ UNCHANGED <<mem, redis, redisTask, history, stopping>>

\* executeSqlSafe succeeds.  mongodbWrap.update then indexes the boolean reply
\* (ret.err), so the dbWrap call raises an error although the write is done.
ExecuteOk(t) ==
    LET k == co[t].key IN
    /\ co[t].pc = "execute" /\ Holds(t, k)
    /\ Acknowledged(co[t].arg)
    /\ db' = [db EXCEPT ![k] = co[t].arg]
    /\ EndDbWrap(t, DbType = "mysql")
    /\ UNCHANGED <<mem, redis, tasks, history, stopping>>

\* executeSqlSafe fails: reconnect, queue the statement again, raise an error.
ExecuteFail(t) ==
    LET k == co[t].key IN
    /\ co[t].pc = "execute" /\ Holds(t, k)
    /\ DbFaults \/ ~Acknowledged(co[t].arg)
    /\ \E v \in Landed(k, co[t].arg) : db' = [db EXCEPT ![k] = v]
    /\ PushDb(k, co[t].arg, DbType = "mongodb")
    /\ EndDbWrap(t, FALSE)
    /\ UNCHANGED <<mem, redis, redisTask, history, stopping>>

--------------------------------------------------------------------------------
(* query, after dealRedisTask. *)

LookupMem(t) ==
    /\ co[t].pc = "lookup" /\ Holds(t, co[t].key)
    /\ IF mem[co[t].key] # Nil THEN Finish(t, TRUE) ELSE Goto(t, "redisGet")
    /\ UNCHANGED <<stores, tasks, history, stopping>>

\* A hit in redis fills the memory cache; a miss leads to the database.
LookupRedis(t) ==
    LET k == co[t].key IN
    /\ co[t].pc = "redisGet" /\ Holds(t, k)
    /\ IF redis[k] # Nil
       THEN mem' = [mem EXCEPT ![k] = redis[k]] /\ Finish(t, TRUE)
       ELSE Goto(t, "flush") /\ UNCHANGED mem
    /\ UNCHANGED <<redis, db, tasks, history, stopping>>

\* redis or the database fails during a query: the query raises an error.
QueryFail(t) ==
    /\ \/ co[t].pc = "redisGet" /\ RedisFaults
       \/ co[t].pc = "dbQuery" /\ DbFaults
    /\ Holds(t, co[t].key)
    /\ Finish(t, FALSE)
    /\ UNCHANGED <<stores, tasks, history, stopping>>

\* dbWrap.query.  mongodb's findOne answers with one document, which
\* queryResultPack takes for an empty list of rows: the query yields nothing.
\* A mysql row is put into the memory cache and sent to redis.
QueryDb(t) ==
    LET k == co[t].key
        found == DbType = "mysql" /\ db[k] # Nil
    IN /\ co[t].pc = "dbQuery" /\ Holds(t, k)
       /\ IF found
          THEN /\ mem' = [mem EXCEPT ![k] = db[k]]
               /\ co' = [co EXCEPT ![t].pc = "fill", ![t].arg = db[k]]
               /\ UNCHANGED sq
          ELSE Finish(t, TRUE) /\ UNCHANGED mem
       /\ UNCHANGED <<redis, db, tasks, history, stopping>>

\* playerDataCache.update(..., false): a failure is raised and not queued.
FillRedis(t) ==
    LET k == co[t].key IN
    /\ co[t].pc = "fill" /\ Holds(t, k)
    /\ \E v \in {co[t].arg} \cup IF RedisFaults THEN {redis[k]} ELSE {} :
          redis' = [redis EXCEPT ![k] = v]
    /\ Finish(t, TRUE)
    /\ UNCHANGED <<mem, db, tasks, history, stopping>>

--------------------------------------------------------------------------------
(* Timers.  filterList.pop takes the oldest task; the model lets it take any, *)
(* and a task is popped before the coroutine has the key's sq.                *)

\* A fault: the last task of the list is left in it.
DbPopLeavesLast(k) ==
    LET task == dbTask[k] IN
    /\ co[DbTimer].pc = "idle"
    /\ task # NoDbTask /\ \E j \in Key \ {k} : dbTask[j] # NoDbTask
    /\ dbTask' = [dbTask EXCEPT ![k] = NoDbTask]
    /\ co' = [co EXCEPT ![DbTimer] = [@ EXCEPT !.pc = "execute", !.key = k, !.arg = task.stmt]]
    /\ Enter(DbTimer, k)
    /\ UNCHANGED <<stores, redisTask, history, stopping>>

\* One round of onDealDbTask: task.cmd or task.sql is what gets executed, so a
\* mysql task that carries a cmd sends the bare word "update" or "delete".
DbPop(k) ==
    LET task == dbTask[k]
        s == IF DbType = "mysql" /\ task.named THEN Junk ELSE task.stmt
    IN /\ co[DbTimer].pc = "idle"
       /\ task # NoDbTask
       /\ dbTask' = [dbTask EXCEPT ![k] = NoDbTask]
       /\ co' = [co EXCEPT ![DbTimer] = [@ EXCEPT !.pc = "execute", !.key = k, !.arg = s]]
       /\ Enter(DbTimer, k)
       /\ UNCHANGED <<stores, redisTask, history, stopping>>

\* One round of onDealRedisTask: the task is replayed as a synchronous write.
RedisPop(k) ==
    /\ co[RedisTimer].pc = "idle"
    /\ redisTask[k] # NoTask
    /\ PushRedis(k, NoTask)
    /\ co' = [co EXCEPT ![RedisTimer] = [@ EXCEPT !.pc = "write", !.key = k,
                                                    !.val = redisTask[k]]]
    /\ Enter(RedisTimer, k)
    /\ UNCHANGED <<stores, dbTask, history, stopping>>

\* onTimerClearCache: a key nobody asked for leaves the memory cache.
ClearCache(k) ==
    /\ mem[k] # Nil
    /\ mem' = [mem EXCEPT ![k] = Nil]
    /\ UNCHANGED <<redis, db, tasks, sq, co, history, stopping>>

\* onTimerClearRedis: the player's whole hash expires.
ClearRedis ==
    /\ \E k \in Key : redis[k] # Nil
    /\ redis' = [k \in Key |-> Nil]
    /\ UNCHANGED <<mem, db, tasks, sq, co, history, stopping>>

--------------------------------------------------------------------------------
(* Logout and stop. *)

Logout(t) ==
    /\ co[t].pc = "idle" /\ "logout" \in Ops
    /\ co' = [co EXCEPT ![t] = [@ EXCEPT !.pc = "scan", !.op = "logout", !.todo = Key]]
    /\ UNCHANGED <<stores, tasks, sq, history, stopping>>

\* A module with a pending task is flushed inside its sq; the others are
\* passed over.
LogoutModule(t, k) ==
    /\ co[t].pc = "scan" /\ k \in co[t].todo
    /\ IF redisTask[k] # NoTask \/ dbTask[k] # NoDbTask
       THEN /\ co' = [co EXCEPT ![t] = [@ EXCEPT !.pc = "begin", !.key = k,
                                                 !.todo = co[t].todo \ {k}]]
            /\ Enter(t, k)
       ELSE co' = [co EXCEPT ![t].todo = @ \ {k}] /\ UNCHANGED sq
    /\ UNCHANGED <<stores, tasks, history, stopping>>

\* The sq of all modules are dropped, whoever is using them.
LogoutDone(t) ==
    /\ co[t].pc = "scan" /\ co[t].todo = {}
    /\ DelSq(Key)
    /\ co' = [co EXCEPT ![t] = Resting]
    /\ UNCHANGED <<stores, tasks, history, stopping>>

Stop ==
    /\ "stop" \in Ops /\ ~stoping
    /\ stoping' = TRUE
    /\ UNCHANGED <<stores, tasks, sq, co, history, stoped>>

\* The waiting loop of stop: dbTask:count() is a number and hence true in Lua,
\* and the loop ends whatever the message queue holds.
StopDone ==
    /\ stoping /\ ~stoped
    /\ \A k \in Key : redisTask[k] = NoTask
    /\ stoped' = TRUE
    /\ UNCHANGED <<stores, tasks, sq, co, history, stoping>>

--------------------------------------------------------------------------------
\* What a coroutine does between being resumed and its next call.
Step(t) ==
    \/ CheckRedisTask(t) \/ DealRedisTask(t) \/ SkipRedisTask(t)
    \/ StartWrite(t) \/ RedisSetOk(t) \/ RedisSetFail(t)
    \/ NoDbTaskDue(t) \/ DealDbTaskMongo(t) \/ DealDbTaskMysql(t)
    \/ EarlySqlOk(t) \/ EarlySqlFail(t) \/ ExecuteOk(t) \/ ExecuteFail(t)
    \/ LookupMem(t) \/ LookupRedis(t) \/ QueryFail(t) \/ QueryDb(t) \/ FillRedis(t)
    \/ \E k \in Key : LogoutModule(t, k)
    \/ LogoutDone(t)

Next ==
    \/ \E t \in Client, o \in Ops, k \in Key : Request(t, o, k)
    \/ \E t \in Client : Logout(t)
    \/ \E t \in Thread : Step(t)
    \/ \E k \in Key : DbPop(k) \/ RedisPop(k) \/ ClearCache(k)
    \/ ClearRedis
    \/ Stop \/ StopDone

\* Every call returns or raises, so a coroutine that has its sq goes on; the
\* two timers are armed again after every round, until stop pauses them.
Fairness ==
    /\ \A t \in Thread : WF_vars(Step(t))
    /\ WF_vars(~stoped /\ \E k \in Key : DbPop(k))
    /\ WF_vars(~stoped /\ \E k \in Key : RedisPop(k))
    /\ WF_vars(StopDone)

Spec == Init /\ [][Next]_vars
FairSpec == Spec /\ Fairness

--------------------------------------------------------------------------------
PcValues ==
    {"idle", "begin", "isRedisAlive", "write", "redisSet", "dealDbTask", "sql",
     "execute", "lookup", "redisGet", "flush", "flushSql", "dbQuery", "fill", "scan"}

Coroutine ==
    [pc : PcValues, op : AllOps \cup {"none"}, key : Key, val : Ver,
     arg : Ver \cup {Junk}, ret : {"done", "write", "lookup", "flush"},
     early : Ver \cup {NoTask, Junk}, todo : SUBSET Key]

\* The type invariant.  NoTask and Junk mark tasks only and never get into a
\* store: in particular dealRedisTask never applies a task the redis timer took
\* while it was suspended in isRedisAlive.
TypeOK ==
    /\ mem \in [Key -> Ver] /\ redis \in [Key -> Ver] /\ db \in [Key -> Ver]
    /\ redisTask \in [Key -> Ver \cup {NoTask}]
    /\ dbTask \in [Key -> [stmt : Ver \cup {Junk}, named : BOOLEAN] \cup {NoDbTask}]
    /\ SqTypeOK
    /\ co \in [Thread -> Coroutine]
    /\ latest \in [Key -> Ver] /\ issued \in Ver
    /\ stoping \in BOOLEAN /\ stoped \in BOOLEAN

\* A coroutine is between writing the memory cache of k and hearing from redis.
Writing(k) == \E t \in Thread : co[t].key = k /\ co[t].pc \in {"redisSet", "fill"}

CoherentAt(k) ==
    \/ Writing(k)
    \/ mem[k] = Nil \/ redis[k] = Nil \/ mem[k] = redis[k]
    \/ redisTask[k] # NoTask
    \/ co[RedisTimer].pc = "write" /\ co[RedisTimer].key = k

\* The two caches agree.  Whenever no request is between its memory write and
\* its redis write, a value in memory is the value in redis, or redis has none,
\* or a task that will bring them together is queued or in the hands of the
\* redis timer (playerDataCache.update/delete and their error paths).
CacheCoherent == \A k \in Key : CoherentAt(k)

\* Write-behind loses nothing: the last accepted write of a key is in the
\* database, or queued for it, or carried by a coroutine on its way there
\* (sendUpdate, onDealDbTask).
NoLostUpdate ==
    \A k \in Key :
        \/ db[k] = latest[k]
        \/ dbTask[k].stmt = latest[k]
        \/ \E t \in Thread :
              co[t].key = k /\ co[t].pc \in {"redisSet", "execute"} /\ co[t].arg = latest[k]

\* The database never goes back to an older version of a key.
DbMonotone == [][\A k \in Key : db'[k] >= db[k]]_db

\* redis never goes back to an older version of a key; it may lose it.
RedisMonotone == [][\A k \in Key : redis'[k] >= redis[k] \/ redis'[k] = Nil]_redis

\* Once clients stop writing, the database ends up with the last write.
DbConverges == <>[](\A k \in Key : db[k] = latest[k])

\* Every request and every logout comes to an end, whatever redis and the
\* database do and whoever deletes the sq it waits in.
RequestsReturn == \A t \in Client : co[t].pc # "idle" ~> co[t].pc = "idle"

\* Calls on one key run one after the other ("sq", the serial queue of a key).
SerialPerKey ==
    \A k \in Key, t, u \in Thread : Holds(t, k) /\ Holds(u, k) => t = u

\* stop reports the service stopped only when both task lists are drained
\* (playerDataCenter.stop).
StopDrained ==
    stoped => \A k \in Key : redisTask[k] = NoTask /\ dbTask[k] = NoDbTask

\* A logout that ends without error while nothing else is going on leaves the
\* player's last writes in the database (playerDataCenter.logout).
LogoutLands ==
    [][\A t \in Client :
         /\ co[t].pc = "scan" /\ co'[t].pc = "idle"
         /\ \A u \in Thread \ {t} : co[u].pc = "idle"
         => \A k \in Key : db[k] = latest[k]]_vars
================================================================================
