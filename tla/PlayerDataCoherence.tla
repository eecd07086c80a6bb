-------------------------- MODULE PlayerDataCoherence --------------------------
(***************************************************************************)
(* The memory cache and redis stay coherent, for any number of modules,    *)
(* clients and versions, on mongodb and on mysql, with redis and database  *)
(* failures and evictions at any time - as long as nobody logs out: logout *)
(* is what drops serial queues that are in use.                            *)
(***************************************************************************)
EXTENDS PlayerDataProofs

\* Calls of a query that has missed redis.
Missed == {"flush", "flushSql", "dbQuery", "fill"}

NoOrphans == \A k \in Key : orphan[k] = {}

\* A coroutine that has missed redis, or is writing, holds the key's queue.  So
\* redis stays without a value while a query looks in the database, and memory
\* keeps what is being written unless the timer evicts it.
ThreadInv(t) ==
    /\ co[t].op # "logout" /\ co[t].pc # "scan" /\ co[t].ret # "flush"
    /\ co[t].pc \in {"begin", "isRedisAlive"} => co[t].op \in Writes \cup {"query"}
    /\ co[t].pc \in Missed \cup {"redisSet"} => Holds(t, co[t].key)
    /\ co[t].pc \in Missed => redis[co[t].key] = Nil
    /\ co[t].pc \in {"redisSet", "fill"} => mem[co[t].key] \in {co[t].arg, Nil}

CohInv == NoOrphans /\ (\A t \in Thread : ThreadInv(t)) /\ CacheCoherent

--------------------------------------------------------------------------------
(* A step of a coroutine that holds its key's queue. *)

\* t leaves its queue and rests, or keeps it and goes on to a call in P.
Moved(t, P) ==
    /\ \A u \in Thread \ {t} : co'[u] = co[u]
    /\ \/ Exit(t, co[t].key) /\ co'[t] = Resting
       \/ /\ UNCHANGED sq
          /\ co'[t].pc \in P /\ co'[t].key = co[t].key /\ co'[t].op = co[t].op
          /\ co'[t].ret # "flush"

LEMMA Moves ==
    ASSUME TypeInv, NEW t \in Thread, ThreadInv(t), NEW ok \in BOOLEAN
    PROVE  /\ \A p \in PcValues : Goto(t, p) => Moved(t, {p})
           /\ \A P : Finish(t, ok) => Moved(t, P)
           /\ EndDbWrap(t, ok) => Moved(t, {"write", "lookup"})
           /\ co[t].pc \in {"dealDbTask", "sql"} /\ AfterDbTask(t, ok) => Moved(t, {"execute"})
           /\ co[t].pc \in {"flush", "flushSql"} /\ AfterDbTask(t, ok) => Moved(t, {"dbQuery"})
<1>0. co \in [Thread -> Coroutine] /\ co[t] \in Coroutine
      /\ co[t].ret \in {"done", "write", "lookup"}
  BY DEF TypeInv, TypeOK, Coroutine, ThreadInv
<1>1. ASSUME NEW p \in PcValues, Goto(t, p) PROVE Moved(t, {p})
  BY <1>0, <1>1 DEF Goto, Moved, Coroutine
<1>2. ASSUME NEW P, Finish(t, ok) PROVE Moved(t, P)
  BY <1>0, <1>2 DEF Finish, Moved, ThreadInv
<1>3. ASSUME EndDbWrap(t, ok) PROVE Moved(t, {"write", "lookup"})
  <2>1. CASE /\ co[t].ret # "done"
             /\ co' = [co EXCEPT ![t].pc = co[t].ret, ![t].arg = Nil, ![t].ret = "done"]
             /\ UNCHANGED sq
    BY <1>0, <2>1 DEF Moved, Coroutine
  <2> QED
    BY <1>2, <1>3, <2>1 DEF EndDbWrap
<1>4. ASSUME co[t].pc \in {"dealDbTask", "sql"}, AfterDbTask(t, ok)
      PROVE  Moved(t, {"execute"})
  BY <1>1, <1>4 DEF AfterDbTask, PcValues
<1>5. ASSUME co[t].pc \in {"flush", "flushSql"}, AfterDbTask(t, ok)
      PROVE  Moved(t, {"dbQuery"})
  <2>1. Goto(t, "dbQuery") \/ Finish(t, ok)
    BY <1>5 DEF AfterDbTask
  <2> QED
    BY <1>1, <1>2, <2>1 DEF PcValues
<1> QED
  BY <1>1, <1>2, <1>3, <1>4, <1>5

\* Without orphans only the head of a key's line holds its queue.
LEMMA OneHolder ==
    ASSUME NoOrphans, NEW k \in Key, NEW t, NEW u, Holds(t, k), Holds(u, k)
    PROVE  t = u /\ line[k] # <<>> /\ Head(line[k]) = t
  BY DEF NoOrphans, Holds

\* A coroutine that holds its queue disturbs neither the other coroutines nor
\* the other keys.
LEMMA Frame ==
    ASSUME TypeInv, CohInv, NEW t \in Thread, NEW P,
           Holds(t, co[t].key), Moved(t, P),
           \A j \in Key \ {co[t].key} :
               redis'[j] = redis[j] /\ mem'[j] = mem[j] /\ redisTask'[j] = redisTask[j]
    PROVE  /\ NoOrphans'
           /\ \A u \in Thread \ {t} : ThreadInv(u)'
           /\ \A j \in Key \ {co[t].key} : CoherentAt(j)'
           /\ co'[t].pc # "idle" => Holds(t, co[t].key)'
<1> DEFINE k == co[t].key
<1>0. /\ k \in Key /\ SqTypeOK /\ NoOrphans
      /\ \A u \in Thread : co[u].key \in Key
  BY DEF TypeInv, TypeOK, Coroutine, CohInv
<1>1. \/ UNCHANGED sq
      \/ /\ line[k] # <<>> /\ Head(line[k]) = t
         /\ line' = [line EXCEPT ![k] = Tail(@)]
         /\ UNCHANGED orphan
  BY <1>0 DEF Moved, Exit, NoOrphans
<1>2. NoOrphans'
  BY <1>0, <1>1 DEF NoOrphans, sq
<1>3. \A j \in Key \ {k}, u \in Thread : Holds(u, j) => Holds(u, j)'
  BY <1>0, <1>1 DEF Holds, SqTypeOK, sq, NoOrphans
<1>4. ASSUME NEW u \in Thread \ {t} PROVE ThreadInv(u)'
  <2>1. co'[u] = co[u] /\ ThreadInv(u) /\ co[u].key \in Key
    BY <1>0 DEF Moved, CohInv
  <2>2. CASE co[u].pc \in Missed \cup {"redisSet"}
    <3>1. Holds(u, co[u].key)
      BY <2>1, <2>2 DEF ThreadInv
    <3>2. co[u].key # k
      BY <1>0, <3>1, OneHolder
    <3> QED
      BY <1>3, <2>1, <3>1, <3>2 DEF ThreadInv
  <2>3. CASE co[u].pc \notin Missed \cup {"redisSet"}
    BY <2>1, <2>3 DEF ThreadInv, Missed
  <2> QED
    BY <2>2, <2>3
<1>5. ASSUME NEW j \in Key \ {k} PROVE CoherentAt(j)'
  <2>1. CoherentAt(j) /\ redis'[j] = redis[j] /\ mem'[j] = mem[j] /\ redisTask'[j] = redisTask[j]
    BY DEF CohInv, CacheCoherent
  <2>2. Writing(j) => Writing(j)'
    BY DEF Writing, Moved
  <2>3. co[RedisTimer].key = j => co'[RedisTimer] = co[RedisTimer]
    BY DEF Moved, Thread
  <2> QED
    BY <2>1, <2>2, <2>3 DEF CoherentAt
<1>6. co'[t].pc # "idle" => Holds(t, co[t].key)'
  <2>1. co'[t].pc # "idle" => UNCHANGED sq /\ co'[t].key = co[t].key
    BY DEF Moved, Resting
  <2> QED
    BY <2>1 DEF Holds, sq
<1> QED
  BY <1>2, <1>4, <1>5, <1>6 DEF Moved

\* Enough for the invariant: what the step did to t and to its key.
LEMMA Close ==
    ASSUME TypeInv, CohInv, NEW t \in Thread, NEW P,
           Holds(t, co[t].key), Moved(t, P),
           \A j \in Key \ {co[t].key} :
               redis'[j] = redis[j] /\ mem'[j] = mem[j] /\ redisTask'[j] = redisTask[j],
           ThreadInv(t)', NEW k \in Key, k = co[t].key, CoherentAt(k)'
    PROVE  CohInv'
  BY Frame DEF CohInv, CacheCoherent

\* The coroutine itself, when its step does not lead to a call that follows a
\* redis miss or a memory write.
LEMMA PlainMove ==
    ASSUME TypeInv, CohInv, NEW t \in Thread, NEW P,
           Holds(t, co[t].key), Moved(t, P),
           P \cap (Missed \cup {"redisSet", "begin", "isRedisAlive", "scan"}) = {}
    PROVE  ThreadInv(t)'
<1>1. ThreadInv(t)
  BY DEF CohInv
<1>2. /\ co'[t].op # "logout" /\ co'[t].ret # "flush"
      /\ co'[t].pc \in P \cup {"idle"}
  BY <1>1 DEF Moved, ThreadInv, Resting
<1> QED
  BY <1>2 DEF ThreadInv, Missed

\* Its key, when stores and redisTask are left alone by a coroutine that was not
\* in the middle of a write.
LEMMA QuietKey ==
    ASSUME TypeInv, CohInv, NEW t \in Thread, NEW P,
           Holds(t, co[t].key), Moved(t, P),
           co[t].pc \notin {"redisSet", "fill", "write"},
           UNCHANGED <<mem, redis, redisTask>>
    PROVE  \A k \in Key : CoherentAt(k)'
<1> SUFFICES ASSUME NEW k \in Key PROVE CoherentAt(k)'
  OBVIOUS
<1>1. CoherentAt(k)
  BY DEF CohInv, CacheCoherent
<1>2. Writing(k) => Writing(k)'
  BY DEF Writing, Moved
<1>3. co[RedisTimer].pc = "write" => co'[RedisTimer] = co[RedisTimer]
  BY DEF Moved, Thread
<1> QED
  BY <1>1, <1>2, <1>3 DEF CoherentAt

\* Steps that touch neither cache nor redisTask.
LEMMA QuietMove ==
    ASSUME TypeInv, CohInv, NEW t \in Thread, NEW P,
           Holds(t, co[t].key), Moved(t, P),
           P \cap (Missed \cup {"redisSet", "begin", "isRedisAlive", "scan"}) = {},
           co[t].pc \notin {"redisSet", "fill", "write"},
           UNCHANGED <<mem, redis, redisTask>>
    PROVE  CohInv'
<1>1. ThreadInv(t)' /\ \A k \in Key : CoherentAt(k)'
  BY PlainMove, QuietKey
<1>2. co[t].key \in Key
  BY DEF TypeInv, TypeOK, Coroutine
<1> QED
  BY <1>1, <1>2, Close

\* Steps of a query that has missed redis, up to its database query.
LEMMA MissedMove ==
    ASSUME TypeInv, CohInv, NEW t \in Thread,
           Holds(t, co[t].key), Moved(t, {"flushSql", "dbQuery"}),
           co[t].pc \in {"flush", "flushSql", "dbQuery"},
           UNCHANGED <<mem, redis, redisTask>>
    PROVE  CohInv'
<1>0. ThreadInv(t) /\ co[t].key \in Key
  BY DEF CohInv, TypeInv, TypeOK, Coroutine
<1>1. co'[t].pc # "idle" => Holds(t, co[t].key)'
  BY Frame
<1>2. ThreadInv(t)'
  BY <1>0, <1>1 DEF ThreadInv, Missed, Moved, Resting
<1>3. \A k \in Key : CoherentAt(k)'
  BY QuietKey
<1> QED
  BY <1>0, <1>2, <1>3, Close

--------------------------------------------------------------------------------
(* One lemma per group of actions. *)

LEMMA RedisTaskCoh ==
    ASSUME TypeInv, CohInv, NEW t \in Thread,
           CheckRedisTask(t) \/ DealRedisTask(t) \/ SkipRedisTask(t)
    PROVE  CohInv'
<1>0. /\ ThreadInv(t) /\ co[t].key \in Key /\ co \in [Thread -> Coroutine]
      /\ Holds(t, co[t].key) /\ co[t].pc \in {"begin", "isRedisAlive"}
  BY DEF CohInv, TypeInv, TypeOK, Coroutine, CheckRedisTask, DealRedisTask, SkipRedisTask
<1>1. AfterRedisTask(co[t].op) \in {"write", "lookup"}
  BY <1>0 DEF ThreadInv, AfterRedisTask
<1>2. {"write", "lookup", "isRedisAlive"} \subseteq PcValues
  BY DEF PcValues
<1>3. ASSUME Goto(t, AfterRedisTask(co[t].op)), UNCHANGED <<mem, redis, redisTask>>
      PROVE  CohInv'
  <2>1. Moved(t, {AfterRedisTask(co[t].op)})
    BY <1>0, <1>1, <1>2, <1>3, Moves
  <2> QED
    BY <1>0, <1>1, <1>3, <2>1, QuietMove DEF Missed
<1>4. CASE CheckRedisTask(t)
  <2>1. CASE Goto(t, "isRedisAlive")
    <3>1. Moved(t, {"isRedisAlive"})
      BY <1>0, <1>2, <2>1, Moves
    <3>2. UNCHANGED <<mem, redis, redisTask>>
      BY <1>4 DEF CheckRedisTask, stores, tasks
    <3>3. ThreadInv(t)'
      BY <1>0, <3>1, <3>2 DEF ThreadInv, Moved, Missed, Resting
    <3>4. \A k \in Key : CoherentAt(k)'
      BY <1>0, <3>1, <3>2, QuietKey
    <3> QED
      BY <1>0, <3>1, <3>2, <3>3, <3>4, Close
  <2> QED
    BY <1>3, <1>4, <2>1 DEF CheckRedisTask, stores, tasks
<1>5. CASE SkipRedisTask(t)
  BY <1>3, <1>5 DEF SkipRedisTask, stores, tasks
<1>6. CASE DealRedisTask(t)
  <2>0. PICK k \in Key : k = co[t].key
    BY <1>0
  <2>1. Moved(t, {"redisSet"})
    BY <1>0, <2>0, <1>1, <1>6 DEF DealRedisTask, Moved, Coroutine
  <2>2. mem'[k] = co'[t].arg /\ co'[t].pc = "redisSet" /\ co'[t].key = k
    BY <1>0, <2>0, <1>6 DEF DealRedisTask, Coroutine, TypeInv, TypeOK
  <2>3. \A j \in Key \ {k} :
           redis'[j] = redis[j] /\ mem'[j] = mem[j] /\ redisTask'[j] = redisTask[j]
    BY <1>0, <2>0, <1>6 DEF DealRedisTask, PushRedis, TypeInv, TypeOK
  <2>4. Holds(t, co[t].key)'
    BY <1>0, <2>0, <2>1, <2>2, <2>3, Frame
  <2>5. ThreadInv(t)'
    BY <1>0, <2>0, <2>1, <2>2, <2>4 DEF ThreadInv, Moved, Missed, Resting
  <2>6. CoherentAt(k)'
    BY <2>0, <2>2 DEF CoherentAt, Writing
  <2> QED
    BY <1>0, <2>0, <2>1, <2>3, <2>5, <2>6, Close
<1> QED
  BY <1>4, <1>5, <1>6

LEMMA WriteCoh ==
    ASSUME TypeInv, CohInv, NEW t \in Thread,
           StartWrite(t) \/ RedisSetOk(t) \/ RedisSetFail(t)
    PROVE  CohInv'
<1>k. PICK k \in Key : k = co[t].key
  BY DEF TypeInv, TypeOK, Coroutine
<1>0. /\ ThreadInv(t) /\ k = co[t].key /\ co \in [Thread -> Coroutine] /\ Holds(t, k)
      /\ mem \in [Key -> Ver] /\ redis \in [Key -> Ver]
      /\ redisTask \in [Key -> Ver \cup {NoTask}]
  BY <1>k DEF CohInv, TypeInv, TypeOK, Coroutine, StartWrite, RedisSetOk, RedisSetFail
<1>1. CASE StartWrite(t)
  <2>1. Moved(t, {"redisSet"})
    BY <1>0, <1>1 DEF StartWrite, Moved, Coroutine, ThreadInv
  <2>2. mem'[k] = co'[t].arg /\ co'[t].pc = "redisSet" /\ co'[t].key = k
    BY <1>0, <1>1 DEF StartWrite, Coroutine
  <2>3. \A j \in Key \ {k} :
           redis'[j] = redis[j] /\ mem'[j] = mem[j] /\ redisTask'[j] = redisTask[j]
    BY <1>0, <1>1 DEF StartWrite, tasks
  <2>4. Holds(t, co[t].key)'
    BY <1>0, <2>1, <2>2, <2>3, Frame
  <2>5. ThreadInv(t)'
    BY <1>0, <2>1, <2>2, <2>4 DEF ThreadInv, Moved, Missed, Resting
  <2>6. CoherentAt(k)'
    BY <1>0, <2>2 DEF CoherentAt, Writing
  <2> QED
    BY <1>0, <2>1, <2>3, <2>5, <2>6, Close
<1>2. CASE RedisSetOk(t)
  <2>1. Moved(t, {"dealDbTask"})
    <3>1. Goto(t, "dealDbTask") \/ Finish(t, TRUE)
      BY <1>2 DEF RedisSetOk
    <3> QED
      BY <1>0, <3>1, Moves DEF PcValues
  <2>2. redis'[k] = co[t].arg /\ mem' = mem /\ mem[k] \in {co[t].arg, Nil}
    BY <1>0, <1>2 DEF RedisSetOk, ThreadInv
  <2>3. \A j \in Key \ {k} :
           redis'[j] = redis[j] /\ mem'[j] = mem[j] /\ redisTask'[j] = redisTask[j]
    BY <1>0, <1>2 DEF RedisSetOk
  <2>4. ThreadInv(t)'
    BY <1>0, <2>1, PlainMove DEF Missed
  <2>5. CoherentAt(k)'
    BY <1>0, <2>2 DEF CoherentAt
  <2> QED
    BY <1>0, <2>1, <2>3, <2>4, <2>5, Close
<1>3. CASE RedisSetFail(t)
  <2>1. Moved(t, {"write", "lookup"})
    BY <1>0, <1>3, Moves DEF RedisSetFail
  <2>2. redisTask'[k] # NoTask
    BY <1>0, <1>3, Constants DEF RedisSetFail, PushRedis, TypeInv, LocalsOK
  <2>3. \A j \in Key \ {k} :
           redis'[j] = redis[j] /\ mem'[j] = mem[j] /\ redisTask'[j] = redisTask[j]
    BY <1>0, <1>3 DEF RedisSetFail, PushRedis
  <2>4. ThreadInv(t)'
    BY <1>0, <2>1, PlainMove DEF Missed
  <2>5. CoherentAt(k)'
    BY <1>0, <2>2 DEF CoherentAt
  <2> QED
    BY <1>0, <2>1, <2>3, <2>4, <2>5, Close
<1> QED
  BY <1>1, <1>2, <1>3

LEMMA DbCoh ==
    ASSUME TypeInv, CohInv, NEW t \in Thread,
           \/ NoDbTaskDue(t) \/ DealDbTaskMongo(t) \/ DealDbTaskMysql(t)
           \/ EarlySqlOk(t) \/ EarlySqlFail(t) \/ ExecuteOk(t) \/ ExecuteFail(t)
    PROVE  CohInv'
<1>0. /\ ThreadInv(t) /\ Holds(t, co[t].key) /\ co \in [Thread -> Coroutine]
      /\ co[t].pc \in {"dealDbTask", "sql", "execute", "flush", "flushSql"}
      /\ UNCHANGED <<mem, redis, redisTask>>
  BY DEF CohInv, NoDbTaskDue, DealDbTaskMongo, DealDbTaskMysql, EarlySqlOk, EarlySqlFail,
         ExecuteOk, ExecuteFail, TypeInv, TypeOK, stores, tasks
<1>1. ASSUME NEW ok \in BOOLEAN, AfterDbTask(t, ok),
             co[t].pc \in {"dealDbTask", "sql", "flush", "flushSql"}
      PROVE  CohInv'
  <2>1. CASE co[t].pc \in {"dealDbTask", "sql"}
    <3>1. Moved(t, {"execute"})
      BY <1>0, <1>1, <2>1, Moves
    <3> QED
      BY <1>0, <3>1, QuietMove DEF Missed
  <2>2. CASE co[t].pc \in {"flush", "flushSql"}
    <3>1. Moved(t, {"flushSql", "dbQuery"})
      BY <1>0, <1>1, <2>2, Moves DEF Moved
    <3> QED
      BY <1>0, <2>2, <3>1, MissedMove
  <2> QED
    BY <1>1, <2>1, <2>2
<1>2. CASE NoDbTaskDue(t) \/ DealDbTaskMongo(t) \/ EarlySqlOk(t) \/ EarlySqlFail(t)
  BY <1>1, <1>2 DEF NoDbTaskDue, DealDbTaskMongo, EarlySqlOk, EarlySqlFail
<1>3. CASE DealDbTaskMysql(t)
  <2>1. CASE co[t].pc = "dealDbTask"
    <3>1. Moved(t, {"sql"})
      BY <1>0, <1>3, <2>1 DEF DealDbTaskMysql, Moved, Coroutine, ThreadInv
    <3> QED
      BY <1>0, <2>1, <3>1, QuietMove DEF Missed
  <2>2. CASE co[t].pc = "flush"
    <3>1. Moved(t, {"flushSql", "dbQuery"})
      BY <1>0, <1>3, <2>2 DEF DealDbTaskMysql, Moved, Coroutine, ThreadInv
    <3> QED
      BY <1>0, <2>2, <3>1, MissedMove
  <2> QED
    BY <1>3, <2>1, <2>2 DEF DealDbTaskMysql
<1>4. CASE ExecuteOk(t) \/ ExecuteFail(t)
  <2>1. \E ok \in BOOLEAN : EndDbWrap(t, ok)
    BY <1>4 DEF ExecuteOk, ExecuteFail
  <2>2. Moved(t, {"write", "lookup"})
    BY <1>0, <2>1, Moves
  <2>3. co[t].pc = "execute"
    BY <1>4 DEF ExecuteOk, ExecuteFail
  <2> QED
    BY <1>0, <2>2, <2>3, QuietMove DEF Missed
<1> QED
  BY <1>2, <1>3, <1>4

LEMMA QueryCoh ==
    ASSUME TypeInv, CohInv, NEW t \in Thread,
           \/ LookupMem(t) \/ LookupRedis(t) \/ QueryFail(t)
           \/ QueryDb(t) \/ FillRedis(t)
    PROVE  CohInv'
<1>k. PICK k \in Key : k = co[t].key
  BY DEF TypeInv, TypeOK, Coroutine
<1>0. /\ ThreadInv(t) /\ k = co[t].key /\ Holds(t, k) /\ co \in [Thread -> Coroutine]
      /\ mem \in [Key -> Ver] /\ redis \in [Key -> Ver]
  BY <1>k DEF CohInv, TypeInv, TypeOK, LookupMem, LookupRedis, QueryFail, QueryDb, FillRedis
<1>1. CASE LookupMem(t)
  <2>1. Finish(t, TRUE) \/ Goto(t, "redisGet")
    BY <1>1 DEF LookupMem
  <2>2. Moved(t, {"redisGet"})
    BY <1>0, <2>1, Moves DEF PcValues
  <2> QED
    BY <1>0, <1>1, <2>2, QuietMove DEF LookupMem, Missed, stores, tasks
<1>2. CASE LookupRedis(t) /\ redis[k] # Nil
  <2>1. Finish(t, TRUE) /\ mem' = [mem EXCEPT ![k] = redis[k]] /\ UNCHANGED <<redis, redisTask>>
    BY <1>0, <1>2 DEF LookupRedis, tasks
  <2>2. Moved(t, {})
    BY <1>0, <2>1, Moves
  <2>3. ThreadInv(t)'
    BY <1>0, <2>2, PlainMove
  <2>4. CoherentAt(k)'
    BY <1>0, <2>1 DEF CoherentAt
  <2> QED
    BY <1>0, <2>1, <2>2, <2>3, <2>4, Close
<1>3. CASE LookupRedis(t) /\ redis[k] = Nil
  <2>1. Goto(t, "flush") /\ UNCHANGED <<mem, redis, redisTask>> /\ co[t].pc = "redisGet"
    BY <1>0, <1>3 DEF LookupRedis, tasks
  <2>2. Moved(t, {"flush"})
    BY <1>0, <2>1, Moves DEF PcValues
  <2>3. co'[t].pc # "idle" => Holds(t, co[t].key)'
    BY <1>0, <2>1, <2>2, Frame
  <2>4. ThreadInv(t)'
    BY <1>0, <1>3, <2>1, <2>2, <2>3 DEF ThreadInv, Moved, Missed, Resting
  <2>5. CoherentAt(k)'
    BY <1>0, <2>1, <2>2, QuietKey
  <2> QED
    BY <1>0, <2>1, <2>2, <2>4, <2>5, Close
<1>4. CASE QueryFail(t)
  <2>1. Moved(t, {})
    BY <1>0, <1>4, Moves DEF QueryFail
  <2> QED
    BY <1>0, <1>4, <2>1, QuietMove DEF QueryFail, stores, tasks
<1>5. CASE QueryDb(t) /\ Finish(t, TRUE) /\ UNCHANGED mem
  <2>1. Moved(t, {})
    BY <1>0, <1>5, Moves
  <2> QED
    BY <1>0, <1>5, <2>1, QuietMove DEF QueryDb, tasks
<1>6. CASE /\ QueryDb(t) /\ mem' = [mem EXCEPT ![k] = db[k]]
           /\ co' = [co EXCEPT ![t].pc = "fill", ![t].arg = db[k]]
           /\ UNCHANGED sq
  <2>1. Moved(t, {"fill"})
    BY <1>0, <1>6 DEF Moved, Coroutine, ThreadInv
  <2>2. /\ mem'[k] = co'[t].arg /\ co'[t].pc = "fill" /\ co'[t].key = k
        /\ redis' = redis /\ redisTask' = redisTask
    BY <1>0, <1>6 DEF QueryDb, Coroutine, tasks
  <2>3. redis[k] = Nil
    BY <1>0, <1>6 DEF QueryDb, ThreadInv, Missed
  <2>4. Holds(t, co[t].key)'
    BY <1>0, <1>6, <2>1, <2>2, Frame
  <2>5. ThreadInv(t)'
    BY <1>0, <2>1, <2>2, <2>3, <2>4 DEF ThreadInv, Moved, Missed, Resting
  <2>6. CoherentAt(k)'
    BY <2>2 DEF CoherentAt, Writing
  <2> QED
    BY <1>0, <1>6, <2>1, <2>2, <2>5, <2>6, Close
<1>7. CASE FillRedis(t)
  <2>1. Moved(t, {})
    BY <1>0, <1>7, Moves DEF FillRedis
  <2>2. /\ redis'[k] \in {co[t].arg, Nil} /\ mem' = mem /\ mem[k] \in {co[t].arg, Nil}
        /\ redisTask' = redisTask
    BY <1>0, <1>7 DEF FillRedis, ThreadInv, Missed, tasks
  <2>3. \A j \in Key \ {k} : redis'[j] = redis[j]
    BY <1>0, <1>7 DEF FillRedis
  <2>4. ThreadInv(t)'
    BY <1>0, <2>1, PlainMove
  <2>5. CoherentAt(k)'
    BY <2>2 DEF CoherentAt
  <2> QED
    BY <1>0, <2>1, <2>2, <2>3, <2>4, <2>5, Close
<1>8. QueryDb(t) => <1>5!1 \/ <1>6!1
  BY <1>0 DEF QueryDb
<1> QED
  BY <1>1, <1>2, <1>3, <1>4, <1>5, <1>6, <1>7, <1>8

\* A resting coroutine joins the line of a key: a client with a request, a timer
\* with a task.
Starts(t, k) ==
    /\ co[t].pc = "idle" /\ Enter(t, k) /\ UNCHANGED <<mem, redis>>
    /\ \A u \in Thread \ {t} : co'[u] = co[u]
    /\ co'[t].op # "logout" /\ co'[t].ret # "flush"
    /\ \/ co'[t].pc = "begin" /\ co'[t].op \in Writes \cup {"query"}
       \/ co'[t].pc \in {"execute", "write"}
    /\ \A j \in Key : \/ redisTask'[j] = redisTask[j]
                      \/ t = RedisTimer /\ co'[t].pc = "write" /\ co'[t].key = j

\* It disturbs nobody.
LEMMA StartCoh ==
    ASSUME TypeInv, CohInv, NEW t \in Thread, NEW k \in Key, Starts(t, k)
    PROVE  CohInv'
<1>0. /\ SqTypeOK /\ NoOrphans /\ \A u \in Thread : co[u].key \in Key
  BY DEF TypeInv, TypeOK, Coroutine, CohInv
<1>1. NoOrphans'
  BY <1>0 DEF NoOrphans, Enter, Starts
<1>2. \A u \in Thread, j \in Key : Holds(u, j) => Holds(u, j)'
  <2>1. \A q \in Seq(Thread) : q # <<>> =>
           Append(q, t) # <<>> /\ Head(Append(q, t)) = Head(q)
    OBVIOUS
  <2> QED
    BY <1>0, <2>1 DEF Starts, Holds, Enter, SqTypeOK, NoOrphans
<1>3. ThreadInv(t)'
  BY DEF Starts, ThreadInv, Missed
<1>4. ASSUME NEW u \in Thread \ {t} PROVE ThreadInv(u)'
  <2>1. ThreadInv(u) /\ co'[u] = co[u] /\ co[u].key \in Key
    BY <1>0 DEF CohInv, Starts
  <2> QED
    BY <1>2, <2>1 DEF ThreadInv, Starts
<1>5. ASSUME NEW j \in Key PROVE CoherentAt(j)'
  <2>1. CoherentAt(j)
    BY DEF CohInv, CacheCoherent
  <2>2. Writing(j) => Writing(j)'
    BY DEF Writing, Starts
  <2>3. co[RedisTimer].pc = "write" => co'[RedisTimer] = co[RedisTimer]
    BY DEF Thread, Starts
  <2> QED
    BY <2>1, <2>2, <2>3 DEF CoherentAt, Starts
<1> QED
  BY <1>1, <1>3, <1>4, <1>5 DEF CohInv, CacheCoherent

\* Eviction empties a cache, which never breaks coherence; stop touches nothing.
LEMMA OtherCoh ==
    ASSUME TypeInv, CohInv,
           (\E k \in Key : ClearCache(k)) \/ ClearRedis \/ Stop \/ StopDone
    PROVE  CohInv'
<1>0. /\ UNCHANGED <<co, sq, redisTask>>
      /\ \A j \in Key : mem'[j] \in {mem[j], Nil} /\ redis'[j] \in {redis[j], Nil}
      /\ \A u \in Thread : co[u].key \in Key
  BY DEF TypeInv, TypeOK, Coroutine, ClearCache, ClearRedis, Stop, StopDone, stores, tasks
<1>1. NoOrphans' /\ \A u \in Thread, j \in Key : Holds(u, j) => Holds(u, j)'
  BY <1>0 DEF CohInv, NoOrphans, Holds, sq
<1>2. ASSUME NEW u \in Thread PROVE ThreadInv(u)'
  <2>1. ThreadInv(u)
    BY DEF CohInv
  <2> QED
    BY <1>0, <1>1, <2>1 DEF ThreadInv
<1>3. ASSUME NEW j \in Key PROVE CoherentAt(j)'
  <2>1. CoherentAt(j)
    BY DEF CohInv, CacheCoherent
  <2> QED
    BY <1>0, <2>1 DEF CoherentAt, Writing
<1> QED
  BY <1>1, <1>2, <1>3 DEF CohInv, CacheCoherent

LEMMA InitCoh == Init => CohInv
<1> SUFFICES ASSUME Init PROVE CohInv
  OBVIOUS
<1>1. Resting.pc = "idle" /\ Resting.op = "none" /\ Resting.ret = "done"
  BY DEF Resting
<1>2. \A t \in Thread : ThreadInv(t)
  BY <1>1 DEF Init, ThreadInv, Missed
<1>3. NoOrphans /\ CacheCoherent
  BY DEF Init, SqInit, NoOrphans, CacheCoherent, CoherentAt
<1> QED
  BY <1>2, <1>3 DEF CohInv

LEMMA NextCoh ==
    ASSUME "logout" \notin Ops
    PROVE  TypeInv /\ CohInv /\ [Next]_vars => CohInv'
<1> SUFFICES ASSUME TypeInv, CohInv, [Next]_vars PROVE CohInv'
  OBVIOUS
<1>0. co \in [Thread -> Coroutine] /\ DbTimer \in Thread /\ RedisTimer \in Thread
  BY DEF TypeInv, TypeOK, Thread
<1>1. ASSUME NEW t \in Thread, Step(t) PROVE CohInv'
  <2>1. co[t].pc # "scan"
    BY DEF CohInv, ThreadInv
  <2>2. ~LogoutDone(t) /\ \A k \in Key : ~LogoutModule(t, k)
    BY <2>1 DEF LogoutDone, LogoutModule
  <2> QED
    BY <1>1, <2>2, RedisTaskCoh, WriteCoh, DbCoh, QueryCoh DEF Step
<1>2. ASSUME NEW t \in Client, NEW o \in Ops, NEW k \in Key, Request(t, o, k)
      PROVE  CohInv'
  <2>1. t \in Thread /\ ThreadInv(t)
    BY DEF Thread, CohInv
  <2>2. /\ co[t].pc = "idle" /\ Enter(t, k) /\ UNCHANGED <<mem, redis, redisTask>>
        /\ \A u \in Thread \ {t} : co'[u] = co[u]
        /\ co'[t].pc = "begin" /\ co'[t].op = o /\ co'[t].ret = co[t].ret
    BY <1>0, <1>2, <2>1 DEF Request, Coroutine, stores, tasks
  <2>3. o \in Writes \cup {"query"}
    BY <1>2 DEF Request
  <2>4. Starts(t, k)
    BY <2>1, <2>2, <2>3 DEF Starts, ThreadInv, Writes
  <2> QED
    BY <1>0, <2>1, <2>4, StartCoh
<1>3. ASSUME NEW t \in Client, Logout(t) PROVE CohInv'
  BY <1>3 DEF Logout
<1>4. ASSUME NEW k \in Key, DbPop(k) PROVE CohInv'
  <2>1. ThreadInv(DbTimer)
    BY <1>0 DEF CohInv
  <2>2. /\ co[DbTimer].pc = "idle" /\ Enter(DbTimer, k) /\ UNCHANGED <<mem, redis, redisTask>>
        /\ \A u \in Thread \ {DbTimer} : co'[u] = co[u]
        /\ co'[DbTimer].pc = "execute" /\ co'[DbTimer].op = co[DbTimer].op
        /\ co'[DbTimer].ret = co[DbTimer].ret
    BY <1>0, <1>4 DEF DbPop, Coroutine, stores
  <2>4. Starts(DbTimer, k)
    BY <2>1, <2>2 DEF Starts, ThreadInv, Writes
  <2> QED
    BY <1>0, <2>1, <2>4, StartCoh
<1>5. ASSUME NEW k \in Key, RedisPop(k) PROVE CohInv'
  <2>1. ThreadInv(RedisTimer)
    BY <1>0 DEF CohInv
  <2>2. /\ co[RedisTimer].pc = "idle" /\ Enter(RedisTimer, k) /\ UNCHANGED <<mem, redis>>
        /\ \A u \in Thread \ {RedisTimer} : co'[u] = co[u]
        /\ co'[RedisTimer].pc = "write" /\ co'[RedisTimer].op = co[RedisTimer].op
        /\ co'[RedisTimer].ret = co[RedisTimer].ret /\ co'[RedisTimer].key = k
    BY <1>0, <1>5 DEF RedisPop, Coroutine, stores
  <2>3. \A j \in Key : redisTask'[j] = redisTask[j] \/ j = k
    BY <1>5 DEF RedisPop, PushRedis, TypeInv, TypeOK
  <2>4. Starts(RedisTimer, k)
    BY <2>1, <2>2, <2>3 DEF Starts, ThreadInv, Writes
  <2> QED
    BY <1>0, <2>1, <2>4, StartCoh
<1>6. CASE (\E k \in Key : ClearCache(k)) \/ ClearRedis \/ Stop \/ StopDone
  BY <1>6, OtherCoh
<1>7. CASE UNCHANGED vars
  BY <1>7 DEF vars, stores, tasks, sq, CohInv, NoOrphans, ThreadInv, Holds, CacheCoherent,
              CoherentAt, Writing
<1>8. CASE Next
  BY <1>1, <1>2, <1>3, <1>4, <1>5, <1>6, <1>8 DEF Next
<1> QED
  BY <1>7, <1>8

\* The memory cache and redis never disagree unless a write is under way or a
\* task that will settle the matter exists (playerDataCache.update/delete/query
\* and dbWrap's error paths), whatever redis and the database do and whenever
\* the timers evict - provided no logout drops the serial queues.
THEOREM CachesAgree ==
    ASSUME "logout" \notin Ops
    PROVE  Spec => []CacheCoherent
<1>1. CohInv => CacheCoherent
  BY DEF CohInv
<1>2. TypeInv /\ CohInv /\ [Next]_vars => CohInv'
  BY NextCoh
<1> QED
  BY <1>1, <1>2, InitCoh, TypeInvariant, PTL DEF Spec

\* Calls on one key run one after the other (playerDataCenter's sq of each key)
\* in a service that sees no logout: nothing else drops a queue in use
\* (playerDataCenter.logout does, and then they overlap).
THEOREM SerialWithoutLogout ==
    ASSUME "logout" \notin Ops
    PROVE  Spec => []SerialPerKey
<1>1. CohInv => SerialPerKey
  BY OneHolder DEF CohInv, SerialPerKey
<1>2. TypeInv /\ CohInv /\ [Next]_vars => CohInv'
  BY NextCoh
<1> QED
  BY <1>1, <1>2, InitCoh, TypeInvariant, PTL DEF Spec
=============================================================================
