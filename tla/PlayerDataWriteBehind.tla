------------------------- MODULE PlayerDataWriteBehind -------------------------
(***************************************************************************)
(* The asynchronous write path (sendUpdate, filterList, onDealDbTask) on   *)
(* its own: callers only use sendUpdate, redis and mongodb answer every    *)
(* call, evictions and stop may come at any time.  For any number of       *)
(* modules, clients and versions nothing is lost and neither store ever    *)
(* goes back to an older version.                                          *)
(***************************************************************************)
EXTENDS PlayerDataProofs

\* The conditions of the theorems of this module.
AsyncOnly ==
    /\ Ops \subseteq {"sendUpdate", "stop"}
    /\ DbType = "mongodb" /\ ~RedisFaults /\ ~DbFaults

\* The calls a coroutine can be in, and what it carries.
ClientCalls(c) ==
    /\ co[c].pc \in {"idle", "begin", "write", "redisSet"} /\ co[c].ret = "done"
    /\ co[c].pc # "idle" => co[c].op = "sendUpdate" /\ co[c].val \in 1..issued
    /\ co[c].pc = "redisSet" => /\ Holds(c, co[c].key)
                                /\ co[c].arg = latest[co[c].key] /\ co[c].arg = co[c].val

TimerCalls ==
    /\ co[RedisTimer].pc = "idle"
    /\ co[DbTimer].pc \in {"idle", "execute"}
    /\ co[DbTimer].ret = "done" /\ co[DbTimer].op = "none"
    /\ co[DbTimer].pc = "execute" => co[DbTimer].arg \in 1..MaxVer

NoFaultTasks ==
    \A k \in Key : /\ orphan[k] = {} /\ redisTask[k] = NoTask
                   /\ dbTask[k] # NoDbTask => dbTask[k].stmt \in 1..MaxVer

\* A client is in the line of its key from its request to the end of its
\* write, and the line orders the clients by the versions they write.
Places ==
    /\ \A c \in Client : co[c].pc # "idle" =>
          \E i \in DOMAIN line[co[c].key] : line[co[c].key][i] = c
    /\ \A k \in Key : \A i \in DOMAIN line[k] : line[k][i] \in Client =>
          co[line[k][i]].pc # "idle" /\ co[line[k][i]].key = k
    /\ \A k \in Key : \A i, j \in DOMAIN line[k] :
          i < j /\ line[k][i] \in Client /\ line[k][j] \in Client
             => co[line[k][i]].val < co[line[k][j]].val

\* DbTimer has taken a task of k.
Executing(k) == co[DbTimer].pc = "execute" /\ co[DbTimer].key = k

\* Versions get older along the path client, dbTask, DbTimer, database.
Ages(k) ==
    /\ \A c \in Client : co[c].key = k /\ co[c].pc \in {"begin", "write"} =>
          latest[k] < co[c].val
    /\ latest[k] <= issued /\ redis[k] <= latest[k] /\ db[k] <= latest[k]
    /\ dbTask[k] # NoDbTask => db[k] <= dbTask[k].stmt /\ dbTask[k].stmt <= latest[k]
    /\ Executing(k) => /\ db[k] <= co[DbTimer].arg /\ co[DbTimer].arg <= latest[k]
                       /\ dbTask[k] # NoDbTask => co[DbTimer].arg <= dbTask[k].stmt

\* Where the last accepted write of k is: with the client, in dbTask, with
\* DbTimer, or in the database when nothing older is on its way there.
Carried(k) ==
    \/ \E c \in Client : co[c].key = k /\ co[c].pc = "redisSet"
    \/ dbTask[k].stmt = latest[k]
    \/ dbTask[k] = NoDbTask /\ Executing(k) /\ co[DbTimer].arg = latest[k]
    \/ dbTask[k] = NoDbTask /\ ~Executing(k) /\ db[k] = latest[k]

WriteInv ==
    /\ \A c \in Client : ClientCalls(c)
    /\ TimerCalls /\ NoFaultTasks /\ Places
    /\ \A k \in Key : Ages(k) /\ Carried(k)

--------------------------------------------------------------------------------
(* Facts used in every step. *)

LEMMA Facts ==
    ASSUME TypeInv
    PROVE  /\ co \in [Thread -> Coroutine]
           /\ \A t \in Thread : co[t] \in Coroutine /\ co[t].key \in Key /\ co[t].val \in Int
           /\ Client \subseteq Thread /\ DbTimer \in Thread /\ RedisTimer \in Thread
           /\ DbTimer \notin Client
           /\ line \in [Key -> Seq(Thread)] /\ orphan \in [Key -> SUBSET (Seq(Thread) \ {<<>>})]
           /\ mem \in [Key -> Ver] /\ redis \in [Key -> Ver] /\ db \in [Key -> Ver]
           /\ latest \in [Key -> Ver] /\ issued \in Nat /\ Ver \subseteq Nat
           /\ dbTask \in [Key -> [stmt : Ver \cup {Junk}, named : BOOLEAN] \cup {NoDbTask}]
           /\ redisTask \in [Key -> Ver \cup {NoTask}]
<1>1. Ver \subseteq Nat
  BY ConfigAssumption DEF Ver
<1>2. co \in [Thread -> Coroutine] /\ SqTypeOK
  BY DEF TypeInv, TypeOK
<1>3. \A t \in Thread : co[t] \in Coroutine /\ co[t].key \in Key /\ co[t].val \in Ver
  BY <1>2 DEF Coroutine
<1>4. Client \subseteq Thread /\ DbTimer \in Thread /\ RedisTimer \in Thread
      /\ DbTimer \notin Client
  BY ThreadsAssumption DEF Thread
<1>5. /\ mem \in [Key -> Ver] /\ redis \in [Key -> Ver] /\ db \in [Key -> Ver]
      /\ latest \in [Key -> Ver] /\ issued \in Ver
      /\ dbTask \in [Key -> [stmt : Ver \cup {Junk}, named : BOOLEAN] \cup {NoDbTask}]
      /\ redisTask \in [Key -> Ver \cup {NoTask}]
  BY DEF TypeInv, TypeOK
<1>6. issued \in Nat /\ \A t \in Thread : co[t].val \in Int
  <2>1. issued \in Nat
    BY <1>1, <1>5
  <2>2. \A v \in Ver : v \in Int
    BY <1>1
  <2> QED
    BY <1>3, <2>1, <2>2
<1>7. line \in [Key -> Seq(Thread)] /\ orphan \in [Key -> SUBSET (Seq(Thread) \ {<<>>})]
  BY <1>2 DEF SqTypeOK
<1> QED
  BY <1>1, <1>2, <1>3, <1>4, <1>5, <1>6, <1>7

\* The head and the tail of a line, and a line with one more in it.
LEMMA Lines ==
    ASSUME NEW q \in Seq(Thread), NEW t \in Thread
    PROVE  /\ DOMAIN q = 1..Len(q) /\ Len(q) \in Nat
           /\ q # <<>> => /\ Len(q) >= 1 /\ Head(q) = q[1]
                          /\ DOMAIN Tail(q) = 1..(Len(q) - 1)
                          /\ \A i \in 1..(Len(q) - 1) : Tail(q)[i] = q[i + 1]
           /\ DOMAIN Append(q, t) = 1..(Len(q) + 1)
           /\ \A i \in 1..Len(q) : Append(q, t)[i] = q[i]
           /\ Append(q, t)[Len(q) + 1] = t
           /\ q # <<>> => Append(q, t) # <<>> /\ Head(Append(q, t)) = Head(q)
  OBVIOUS

\* A coroutine that rests joins the line of k.
Joins(t, k) ==
    /\ Enter(t, k)
    /\ \A u \in Thread \ {t} : co'[u] = co[u]
    /\ co[t].pc = "idle" /\ co'[t].pc # "idle" /\ co'[t].key = k
    /\ t \in Client => co'[t].val = issued + 1

\* The holder of a line leaves it.
Leaves(t) ==
    /\ Exit(t, co[t].key)
    /\ \A u \in Thread \ {t} : co'[u] = co[u]
    /\ co[t].pc # "idle" /\ co'[t].pc = "idle"

LEMMA JoinPlaces ==
    ASSUME TypeInv, WriteInv, NEW t \in Thread, NEW k \in Key, Joins(t, k)
    PROVE  Places'
<1>0. Places /\ \A c \in Client : ClientCalls(c)
  BY DEF WriteInv
<1> DEFINE q == line[k]  n == Len(line[k])
<1>1. /\ q \in Seq(Thread) /\ n \in Nat /\ DOMAIN q = 1..n
      /\ line'[k] = Append(q, t) /\ DOMAIN line'[k] = 1..(n + 1)
      /\ \A i \in 1..n : line'[k][i] = q[i]
      /\ line'[k][n + 1] = t
      /\ \A j \in Key \ {k} : line'[j] = line[j]
  BY Facts, Lines DEF Joins, Enter
<1>2. \A j \in Key : \A i \in DOMAIN line[j] :
         line[j][i] \in Client => line[j][i] # t /\ co'[line[j][i]] = co[line[j][i]]
  BY <1>0, Facts DEF Places, Joins
<1>3. \A c \in Client : co'[c].pc # "idle" =>
         \E i \in DOMAIN line'[co'[c].key] : line'[co'[c].key][i] = c
  <2> SUFFICES ASSUME NEW c \in Client, co'[c].pc # "idle"
               PROVE  \E i \in DOMAIN line'[co'[c].key] : line'[co'[c].key][i] = c
    OBVIOUS
  <2>1. CASE c = t
    BY <1>1, <2>1 DEF Joins
  <2>2. CASE c # t
    <3>1. co'[c] = co[c] /\ co[c].key \in Key
      BY <2>2, Facts DEF Joins
    <3>2. PICK i \in DOMAIN line[co[c].key] : line[co[c].key][i] = c
      BY <1>0, <3>1 DEF Places
    <3> QED
      BY <1>1, <3>1, <3>2
  <2> QED
    BY <2>1, <2>2
<1>4. \A j \in Key : \A i \in DOMAIN line'[j] : line'[j][i] \in Client =>
         co'[line'[j][i]].pc # "idle" /\ co'[line'[j][i]].key = j
  <2> SUFFICES ASSUME NEW j \in Key, NEW i \in DOMAIN line'[j], line'[j][i] \in Client
               PROVE  co'[line'[j][i]].pc # "idle" /\ co'[line'[j][i]].key = j
    OBVIOUS
  <2>1. CASE j = k /\ i = n + 1
    BY <1>1, <2>1 DEF Joins
  <2>2. CASE ~(j = k /\ i = n + 1)
    <3>1. i \in DOMAIN line[j] /\ line'[j][i] = line[j][i]
      BY <1>1, <2>2
    <3> QED
      BY <1>0, <1>2, <3>1 DEF Places
  <2> QED
    BY <2>1, <2>2
<1>5. \A j \in Key : \A a, b \in DOMAIN line'[j] :
         a < b /\ line'[j][a] \in Client /\ line'[j][b] \in Client
            => co'[line'[j][a]].val < co'[line'[j][b]].val
  <2> SUFFICES ASSUME NEW j \in Key, NEW a \in DOMAIN line'[j], NEW b \in DOMAIN line'[j],
                      a < b, line'[j][a] \in Client, line'[j][b] \in Client
               PROVE  co'[line'[j][a]].val < co'[line'[j][b]].val
    OBVIOUS
  <2>1. a \in DOMAIN line[j] /\ line'[j][a] = line[j][a]
    BY <1>1
  <2>2. CASE j = k /\ b = n + 1
    <3>1. co'[line'[j][b]].val = issued + 1
      BY <1>1, <2>2 DEF Joins
    <3>2. co'[line'[j][a]].val \in 1..issued
      BY <1>0, <1>2, <2>1 DEF Places, ClientCalls
    <3> QED
      BY <3>1, <3>2, Facts
  <2>3. CASE ~(j = k /\ b = n + 1)
    <3>1. b \in DOMAIN line[j] /\ line'[j][b] = line[j][b]
      BY <1>1, <2>3
    <3> QED
      BY <1>0, <1>2, <2>1, <3>1 DEF Places
  <2> QED
    BY <2>2, <2>3
<1> QED
  BY <1>3, <1>4, <1>5 DEF Places

LEMMA LeavePlaces ==
    ASSUME TypeInv, WriteInv, NEW t \in Thread, Leaves(t)
    PROVE  Places'
<1>k. PICK k \in Key : k = co[t].key
  BY Facts
<1>0. Places /\ orphan[k] = {}
  BY DEF WriteInv, NoFaultTasks
<1> DEFINE q == line[k]  n == Len(line[k])
<1>1. /\ q \in Seq(Thread) /\ n \in Nat /\ n >= 1 /\ DOMAIN q = 1..n /\ q[1] = t
      /\ DOMAIN line'[k] = 1..(n - 1)
      /\ \A i \in 1..(n - 1) : line'[k][i] = q[i + 1]
      /\ \A j \in Key \ {k} : line'[j] = line[j]
  <2>1. /\ q # <<>> /\ Head(q) = t /\ line' = [line EXCEPT ![k] = Tail(q)]
    BY <1>k, <1>0 DEF Leaves, Exit
  <2> QED
    BY <2>1, Facts, Lines
<1>2. \A i \in 1..(n - 1) : q[i + 1] \in Client => q[i + 1] # t
  <2> SUFFICES ASSUME NEW i \in 1..(n - 1), q[i + 1] \in Client, q[i + 1] = t PROVE FALSE
    OBVIOUS
  <2>1. 1 \in DOMAIN q /\ i + 1 \in DOMAIN q /\ 1 < i + 1 /\ q[1] \in Client
    BY <1>1
  <2>2. co[q[1]].val < co[q[i + 1]].val
    BY <1>0, <2>1 DEF Places
  <2> QED
    BY <1>1, <2>2, Facts
<1>3. \A j \in Key \ {k} : \A i \in DOMAIN line[j] : line[j][i] \in Client => line[j][i] # t
  BY <1>k, <1>0 DEF Places
<1>4. \A u \in Client : u # t => co'[u] = co[u]
  BY Facts DEF Leaves
<1>5. \A c \in Client : co'[c].pc # "idle" =>
         \E i \in DOMAIN line'[co'[c].key] : line'[co'[c].key][i] = c
  <2> SUFFICES ASSUME NEW c \in Client, co'[c].pc # "idle"
               PROVE  \E i \in DOMAIN line'[co'[c].key] : line'[co'[c].key][i] = c
    OBVIOUS
  <2>1. c # t /\ co'[c] = co[c] /\ co[c].key \in Key
    BY <1>4, Facts DEF Leaves
  <2>2. PICK i \in DOMAIN line[co[c].key] : line[co[c].key][i] = c
    BY <1>0, <2>1 DEF Places
  <2>3. CASE co[c].key = k
    <3>1. i \in 1..n /\ i # 1
      BY <1>1, <2>1, <2>2, <2>3
    <3>2. i - 1 \in 1..(n - 1) /\ (i - 1) + 1 = i
      BY <1>1, <3>1
    <3>3. line'[k][i - 1] = c
      BY <1>1, <2>2, <2>3, <3>2
    <3> QED
      BY <1>1, <2>1, <2>3, <3>2, <3>3
  <2>4. CASE co[c].key # k
    BY <1>1, <2>1, <2>2, <2>4
  <2> QED
    BY <2>3, <2>4
<1>6. \A j \in Key : \A i \in DOMAIN line'[j] : line'[j][i] \in Client =>
         \E h \in DOMAIN line[j] :
            /\ line'[j][i] = line[j][h] /\ line[j][h] # t
            /\ h = IF j = k THEN i + 1 ELSE i
  <2> SUFFICES ASSUME NEW j \in Key, NEW i \in DOMAIN line'[j], line'[j][i] \in Client
               PROVE  \E h \in DOMAIN line[j] :
                         /\ line'[j][i] = line[j][h] /\ line[j][h] # t
                         /\ h = IF j = k THEN i + 1 ELSE i
    OBVIOUS
  <2>1. CASE j = k
    <3>0. i \in 1..(n - 1) /\ i + 1 \in 1..n
      <4>1. DOMAIN line'[j] = 1..(n - 1)
        BY <1>1, <2>1
      <4> HIDE DEF n
      <4> QED
        BY <1>1, <4>1
    <3>1. i \in 1..(n - 1) /\ i + 1 \in DOMAIN line[j] /\ line'[j][i] = line[j][i + 1]
      BY <1>1, <2>1, <3>0
    <3>2. line[j][i + 1] # t
      BY <1>2, <2>1, <3>1
    <3> QED
      BY <2>1, <3>1, <3>2
  <2>2. CASE j # k
    BY <1>1, <1>3, <2>2
  <2> QED
    BY <2>1, <2>2
<1>7. \A j \in Key : \A i \in DOMAIN line'[j] : line'[j][i] \in Client =>
         co'[line'[j][i]].pc # "idle" /\ co'[line'[j][i]].key = j
  BY <1>0, <1>4, <1>6 DEF Places
<1>8. \A j \in Key : \A a, b \in DOMAIN line'[j] :
         a < b /\ line'[j][a] \in Client /\ line'[j][b] \in Client
            => co'[line'[j][a]].val < co'[line'[j][b]].val
  <2> SUFFICES ASSUME NEW j \in Key, NEW a \in DOMAIN line'[j], NEW b \in DOMAIN line'[j],
                      a < b, line'[j][a] \in Client, line'[j][b] \in Client
               PROVE  co'[line'[j][a]].val < co'[line'[j][b]].val
    OBVIOUS
  <2>0. a \in Nat /\ b \in Nat
    <3>1. DOMAIN line[j] = 1..Len(line[j])
      BY Facts, Lines
    <3> QED
      BY <1>1, <3>1
  <2>1. PICK h \in DOMAIN line[j] :
            /\ line'[j][a] = line[j][h] /\ line[j][h] # t
            /\ h = IF j = k THEN a + 1 ELSE a
    BY <1>6
  <2>2. PICK g \in DOMAIN line[j] :
            /\ line'[j][b] = line[j][g] /\ line[j][g] # t
            /\ g = IF j = k THEN b + 1 ELSE b
    BY <1>6
  <2>3. h < g
    BY <2>0, <2>1, <2>2
  <2>4. co[line[j][h]].val < co[line[j][g]].val
    BY <1>0, <2>1, <2>2, <2>3 DEF Places
  <2> QED
    BY <1>4, <2>1, <2>2, <2>4
<1> QED
  BY <1>5, <1>7, <1>8 DEF Places

\* Those who hold another queue, or the same one still, keep it.
LEMMA HoldsKept ==
    ASSUME TypeInv, WriteInv, NEW t \in Thread,
           Leaves(t) \/ (\E k \in Key : Joins(t, k)) \/ UNCHANGED sq
    PROVE  /\ \A u \in Thread \ {t}, j \in Key : Holds(u, j) => Holds(u, j)'
           /\ \A k \in Key : orphan'[k] = {}
           /\ UNCHANGED sq => \A j \in Key : Holds(t, j) => Holds(t, j)'
<1>0. \A k \in Key : orphan[k] = {}
  BY DEF WriteInv, NoFaultTasks
<1>1. CASE UNCHANGED sq
  BY <1>0, <1>1 DEF sq, Holds
<1>2. ASSUME NEW k \in Key, Joins(t, k)
      PROVE  /\ \A u \in Thread \ {t}, j \in Key : Holds(u, j) => Holds(u, j)'
             /\ \A j \in Key : orphan'[j] = {}
  <2>1. line[k] \in Seq(Thread) /\ line' = [line EXCEPT ![k] = Append(line[k], t)]
        /\ orphan' = orphan
    BY <1>2, Facts DEF Joins, Enter
  <2>2. line[k] # <<>> => Append(line[k], t) # <<>> /\ Head(Append(line[k], t)) = Head(line[k])
    BY <2>1, Lines
  <2> QED
    BY <1>0, <2>1, <2>2, Facts DEF Holds
<1>3. ASSUME Leaves(t)
      PROVE  /\ \A u \in Thread \ {t}, j \in Key : Holds(u, j) => Holds(u, j)'
             /\ \A j \in Key : orphan'[j] = {}
  <2>1. PICK k \in Key : k = co[t].key
    BY Facts
  <2>2. /\ Head(line[k]) = t /\ line' = [line EXCEPT ![k] = Tail(line[k])]
        /\ orphan' = orphan
    BY <1>0, <1>3, <2>1 DEF Leaves, Exit
  <2> QED
    BY <1>0, <2>2, Facts DEF Holds
<1>4. (Leaves(t) \/ \E k \in Key : Joins(t, k)) => line' # line
  <2>1. ASSUME Leaves(t) PROVE line' # line
    <3>1. PICK k \in Key : k = co[t].key
      BY Facts
    <3>2. line[k] # <<>> /\ line'[k] = Tail(line[k]) /\ line[k] \in Seq(Thread)
      BY <1>0, <2>1, <3>1, Facts DEF Leaves, Exit
    <3>3. Len(Tail(line[k])) # Len(line[k])
      BY <3>2
    <3> QED
      BY <3>2, <3>3
  <2>2. ASSUME NEW k \in Key, Joins(t, k) PROVE line' # line
    <3>1. line'[k] = Append(line[k], t) /\ line[k] \in Seq(Thread)
      BY <2>2, Facts DEF Joins, Enter
    <3>2. Len(Append(line[k], t)) # Len(line[k])
      BY <3>1
    <3> QED
      BY <3>1, <3>2
  <2> QED
    BY <2>1, <2>2
<1> QED
  BY <1>1, <1>2, <1>3, <1>4 DEF sq

\* A step that leaves the lines alone and no client's place in doubt.
LEMMA StayPlaces ==
    ASSUME TypeInv, WriteInv, UNCHANGED line,
           \A c \in Client : /\ co'[c].key = co[c].key /\ co'[c].val = co[c].val
                             /\ co'[c].pc = "idle" <=> co[c].pc = "idle"
    PROVE  Places'
  BY DEF WriteInv, Places

\* Only these steps are left when nothing fails and only sendUpdate is used.
LEMMA OnlySteps ==
    ASSUME AsyncOnly, TypeInv, WriteInv, NEW t \in Thread, Step(t)
    PROVE  \/ t \in Client /\ (CheckRedisTask(t) \/ StartWrite(t) \/ RedisSetOk(t))
           \/ t = DbTimer /\ ExecuteOk(t)
<1>1. CASE t \in Client
  <2>1. co[t].pc \in {"idle", "begin", "write", "redisSet"} /\ ~RedisFaults
    BY <1>1 DEF WriteInv, ClientCalls, AsyncOnly
  <2> QED
    BY <1>1, <2>1
       DEF Step, CheckRedisTask, DealRedisTask, SkipRedisTask, StartWrite, RedisSetOk,
           RedisSetFail, NoDbTaskDue, DealDbTaskMongo, DealDbTaskMysql, EarlySqlOk,
           EarlySqlFail, ExecuteOk, ExecuteFail, LookupMem, LookupRedis, QueryFail,
           QueryDb, FillRedis, LogoutModule, LogoutDone
<1>2. CASE t \in {DbTimer, RedisTimer}
  <2>1. /\ co[t].pc \in {"idle", "execute"} /\ (co[t].pc = "execute" => t = DbTimer)
        /\ (co[t].pc = "execute" => co[t].arg \in 1..MaxVer) /\ ~DbFaults
    BY <1>2 DEF WriteInv, TimerCalls, AsyncOnly
  <2>2. co[t].pc = "execute" => Acknowledged(co[t].arg)
    BY <2>1, ConfigAssumption DEF Acknowledged, Junk, Nil
  <2> QED
    BY <2>1, <2>2
       DEF Step, CheckRedisTask, DealRedisTask, SkipRedisTask, StartWrite, RedisSetOk,
           RedisSetFail, NoDbTaskDue, DealDbTaskMongo, DealDbTaskMysql, EarlySqlOk,
           EarlySqlFail, ExecuteOk, ExecuteFail, LookupMem, LookupRedis, QueryFail,
           QueryDb, FillRedis, LogoutModule, LogoutDone
<1> QED
  BY <1>1, <1>2 DEF Thread

--------------------------------------------------------------------------------
(* One lemma per action. *)

LEMMA RequestWrites ==
    ASSUME AsyncOnly, TypeInv, WriteInv, NEW t \in Client, NEW o \in Ops, NEW k \in Key,
           Request(t, o, k)
    PROVE  WriteInv'
<1>0. o = "sendUpdate" /\ t \in Thread
  BY Facts DEF Request, AsyncOnly, Writes
<1>1. /\ issued' = issued + 1 /\ issued \in Nat /\ issued' \in Nat
      /\ co' = [co EXCEPT ![t] = [co[t] EXCEPT !.pc = "begin", !.op = "sendUpdate",
                                              !.key = k, !.val = issued + 1]]
      /\ UNCHANGED <<redis, db, dbTask, redisTask, latest>>
  BY <1>0, Facts DEF Request, stores, tasks
<1>2. /\ co'[t].pc = "begin" /\ co'[t].op = "sendUpdate" /\ co'[t].key = k
      /\ co'[t].val = issued + 1 /\ co'[t].ret = co[t].ret
      /\ \A u \in Thread \ {t} : co'[u] = co[u]
  BY <1>0, <1>1, Facts DEF Coroutine
<1>3. Joins(t, k)
  BY <1>2 DEF Joins, Request
<1>4. \A c \in Client : ClientCalls(c)'
  <2>1. ClientCalls(t)'
    BY <1>1, <1>2 DEF ClientCalls, WriteInv
  <2>2. ASSUME NEW c \in Client \ {t} PROVE ClientCalls(c)'
    <3>1. ClientCalls(c) /\ co'[c] = co[c] /\ c \in Thread /\ co[c].key \in Key
      BY <1>2, Facts DEF WriteInv
    <3>2. Holds(c, co[c].key) => Holds(c, co[c].key)'
      BY <1>0, <1>3, <3>1, HoldsKept
    <3> QED
      BY <1>1, <3>1, <3>2 DEF ClientCalls
  <2> QED
    BY <2>1, <2>2
<1>5. TimerCalls'
  BY <1>2, Facts, ThreadsAssumption DEF TimerCalls, WriteInv
<1>6. NoFaultTasks'
  BY <1>0, <1>1, <1>3, HoldsKept DEF NoFaultTasks, WriteInv
<1>7. Places'
  BY <1>0, <1>3, JoinPlaces
<1>8. ASSUME NEW j \in Key PROVE Ages(j)' /\ Carried(j)'
  <2>1. Ages(j) /\ Carried(j) /\ co'[DbTimer] = co[DbTimer] /\ co[t].pc = "idle"
    BY <1>2, Facts DEF WriteInv, Request
  <2>2. latest[j] \in Nat
    BY Facts
  <2>3. Ages(j)'
    <3>1. ASSUME NEW c \in Client, co'[c].key = j, co'[c].pc \in {"begin", "write"}
          PROVE  latest[j] < co'[c].val
      BY <1>1, <1>2, <2>1, <2>2, <3>1, Facts DEF Ages
    <3> QED
      BY <1>1, <2>1, <2>2, <3>1 DEF Ages, Executing
  <2>4. Carried(j)'
    BY <1>1, <1>2, <2>1, Facts DEF Carried, Executing
  <2> QED
    BY <2>3, <2>4
<1> QED
  BY <1>4, <1>5, <1>6, <1>7, <1>8 DEF WriteInv

LEMMA CheckWrites ==
    ASSUME AsyncOnly, TypeInv, WriteInv, NEW t \in Client, CheckRedisTask(t)
    PROVE  WriteInv'
<1>0. t \in Thread /\ co[t].key \in Key /\ co[t].op = "sendUpdate" /\ co[t].pc = "begin"
  BY Facts DEF WriteInv, ClientCalls, CheckRedisTask
<1>1. Goto(t, "write")
  BY <1>0 DEF CheckRedisTask, AfterRedisTask, WriteInv, NoFaultTasks, Writes
<1>2. /\ co'[t].pc = "write" /\ co'[t].op = "sendUpdate" /\ co'[t].key = co[t].key
      /\ co'[t].val = co[t].val /\ co'[t].ret = co[t].ret
      /\ \A u \in Thread \ {t} : co'[u] = co[u]
      /\ UNCHANGED sq
  BY <1>0, <1>1, Facts DEF Goto, Coroutine
<1>3. UNCHANGED <<redis, db, dbTask, redisTask, latest, issued>>
  BY DEF CheckRedisTask, stores, tasks, history
<1>4. \A c \in Client : ClientCalls(c)'
  <2>1. ClientCalls(t)'
    BY <1>0, <1>2, <1>3 DEF ClientCalls, WriteInv
  <2>2. ASSUME NEW c \in Client \ {t} PROVE ClientCalls(c)'
    <3>1. ClientCalls(c) /\ co'[c] = co[c] /\ c \in Thread /\ co[c].key \in Key
      BY <1>2, Facts DEF WriteInv
    <3>2. Holds(c, co[c].key) => Holds(c, co[c].key)'
      BY <1>0, <1>2, <3>1, HoldsKept
    <3> QED
      BY <1>3, <3>1, <3>2 DEF ClientCalls
  <2> QED
    BY <2>1, <2>2
<1>5. TimerCalls'
  BY <1>2, Facts, ThreadsAssumption DEF TimerCalls, WriteInv
<1>6. NoFaultTasks'
  BY <1>0, <1>2, <1>3, HoldsKept DEF NoFaultTasks, WriteInv
<1>7. Places'
  BY <1>0, <1>2, Facts, StayPlaces DEF sq
<1>8. ASSUME NEW j \in Key PROVE Ages(j)' /\ Carried(j)'
  <2>1. Ages(j) /\ Carried(j) /\ co'[DbTimer] = co[DbTimer]
    BY <1>2, Facts DEF WriteInv
  <2>2. \A c \in Client : c # t => co'[c] = co[c]
    BY <1>2, Facts
  <2> QED
    BY <1>0, <1>2, <1>3, <2>1, <2>2 DEF Ages, Carried, Executing
<1> QED
  BY <1>4, <1>5, <1>6, <1>7, <1>8 DEF WriteInv

LEMMA StartWrites ==
    ASSUME AsyncOnly, TypeInv, WriteInv, NEW t \in Client, StartWrite(t)
    PROVE  WriteInv'
<1>k. PICK k \in Key : k = co[t].key
  BY Facts
<1>0. /\ t \in Thread /\ co[t].op = "sendUpdate" /\ co[t].pc = "write" /\ Holds(t, k)
      /\ co[t].val \in 1..issued /\ co[t].val \in Int
  BY <1>k, Facts DEF WriteInv, ClientCalls, StartWrite
<1>1. /\ co' = [co EXCEPT ![t].pc = "redisSet", ![t].arg = co[t].val]
      /\ latest' = [latest EXCEPT ![k] = co[t].val]
      /\ UNCHANGED <<redis, db, dbTask, redisTask, issued>> /\ UNCHANGED sq
  BY <1>k DEF StartWrite, tasks
<1>2. /\ co'[t].pc = "redisSet" /\ co'[t].op = "sendUpdate" /\ co'[t].key = k
      /\ co'[t].arg = co[t].val /\ co'[t].val = co[t].val /\ co'[t].ret = co[t].ret
      /\ \A u \in Thread \ {t} : co'[u] = co[u]
  BY <1>k, <1>0, <1>1, Facts DEF Coroutine
<1>3. latest'[k] = co[t].val /\ \A j \in Key \ {k} : latest'[j] = latest[j]
  BY <1>1, Facts
<1>4. orphan[k] = {} /\ line[k] # <<>> /\ Head(line[k]) = t /\ line[k] \in Seq(Thread)
  BY <1>0, Facts DEF Holds, WriteInv, NoFaultTasks
<1>5. \A c \in Client : ClientCalls(c)'
  <2>1. ClientCalls(t)'
    <3>1. Holds(t, k)'
      BY <1>0, <1>1, HoldsKept
    <3> QED
      BY <1>0, <1>1, <1>2, <1>3, <3>1 DEF ClientCalls, WriteInv
  <2>2. ASSUME NEW c \in Client \ {t} PROVE ClientCalls(c)'
    <3>1. ClientCalls(c) /\ co'[c] = co[c] /\ c \in Thread /\ co[c].key \in Key
      BY <1>2, Facts DEF WriteInv
    <3>2. Holds(c, co[c].key) => Holds(c, co[c].key)' /\ co[c].key # k
      BY <1>0, <1>1, <1>4, <3>1, HoldsKept DEF Holds
    <3> QED
      BY <1>1, <1>3, <3>1, <3>2 DEF ClientCalls
  <2> QED
    BY <2>1, <2>2
<1>6. TimerCalls'
  BY <1>2, Facts, ThreadsAssumption DEF TimerCalls, WriteInv
<1>7. NoFaultTasks'
  BY <1>0, <1>1, HoldsKept DEF NoFaultTasks, WriteInv
<1>8. Places'
  BY <1>k, <1>0, <1>1, <1>2, Facts, StayPlaces DEF sq
<1>9. ASSUME NEW c \in Client \ {t}, co[c].key = k, co[c].pc \in {"begin", "write"}
      PROVE  co[t].val < co[c].val
  <2>1. PICK i \in DOMAIN line[k] : line[k][i] = c
    BY <1>9 DEF WriteInv, Places
  <2>2. i \in 1..Len(line[k]) /\ 1 \in DOMAIN line[k] /\ line[k][1] = t /\ i # 1
    BY <1>0, <1>4, <2>1, Lines
  <2>3. 1 < i
    BY <1>4, <2>2
  <2> QED
    BY <2>1, <2>2, <2>3 DEF WriteInv, Places
<1>10. ASSUME NEW j \in Key PROVE Ages(j)' /\ Carried(j)'
  <2>1. Ages(j) /\ Carried(j) /\ co'[DbTimer] = co[DbTimer]
    BY <1>2, Facts DEF WriteInv
  <2>2. \A c \in Client : c # t => co'[c] = co[c]
    BY <1>2, Facts
  <2>3. CASE j # k
    BY <1>k, <1>1, <1>2, <1>3, <2>1, <2>2, <2>3 DEF Ages, Carried, Executing
  <2>4. CASE j = k
    <3>1. Carried(j)'
      BY <1>2, <2>4 DEF Carried
    <3>2. /\ latest[j] < co[t].val /\ co[t].val <= issued
          /\ latest[j] \in Nat /\ redis[j] \in Nat /\ db[j] \in Nat
      BY <1>k, <1>0, <2>1, <2>4, Facts DEF Ages
    <3>3. dbTask[j] # NoDbTask => dbTask[j].stmt \in Nat
      BY ConfigAssumption DEF WriteInv, NoFaultTasks
    <3>4. Executing(j) => co[DbTimer].arg \in Nat
      BY ConfigAssumption DEF WriteInv, TimerCalls, Executing
    <3>5. \A c \in Client : co'[c].key = j /\ co'[c].pc \in {"begin", "write"} =>
             co[t].val < co'[c].val
      BY <1>2, <1>9, <2>2, <2>4
    <3>6. redis[j] <= co[t].val /\ db[j] <= co[t].val
      BY <1>0, <2>1, <3>2 DEF Ages
    <3>7. dbTask[j] # NoDbTask => db[j] <= dbTask[j].stmt /\ dbTask[j].stmt <= co[t].val
      BY <1>0, <2>1, <3>2, <3>3 DEF Ages
    <3>8. Executing(j) =>
             /\ db[j] <= co[DbTimer].arg /\ co[DbTimer].arg <= co[t].val
             /\ dbTask[j] # NoDbTask => co[DbTimer].arg <= dbTask[j].stmt
      BY <1>0, <2>1, <3>2, <3>4 DEF Ages
    <3> QED
      BY <1>1, <1>3, <2>1, <2>4, <3>1, <3>2, <3>5, <3>6, <3>7, <3>8 DEF Ages, Executing
  <2> QED
    BY <2>3, <2>4
<1> QED
  BY <1>5, <1>6, <1>7, <1>8, <1>10 DEF WriteInv

LEMMA QueueWrites ==
    ASSUME AsyncOnly, TypeInv, WriteInv, NEW t \in Client, RedisSetOk(t)
    PROVE  WriteInv'
<1>k. PICK k \in Key : k = co[t].key
  BY Facts
<1>0. /\ t \in Thread /\ co[t].op = "sendUpdate" /\ co[t].ret = "done" /\ co[t].pc = "redisSet"
      /\ co[t].arg = latest[k] /\ co[t].arg \in 1..issued
  BY <1>k, Facts DEF WriteInv, ClientCalls, RedisSetOk
<1>1. /\ Finish(t, TRUE) /\ redis' = [redis EXCEPT ![k] = latest[k]]
      /\ dbTask' = [dbTask EXCEPT ![k] = [stmt |-> latest[k], named |-> TRUE]]
      /\ UNCHANGED <<db, redisTask, latest, issued>>
  BY <1>k, <1>0 DEF RedisSetOk, PushDb, Async, history
<1>2. /\ co'[t].pc = "idle" /\ co'[t].ret = "done"
      /\ \A u \in Thread \ {t} : co'[u] = co[u]
      /\ Exit(t, k)
  BY <1>k, <1>0, <1>1, Facts DEF Finish, Resting
<1>3. Leaves(t)
  BY <1>k, <1>0, <1>2 DEF Leaves
<1>4. /\ redis'[k] = latest[k] /\ \A j \in Key \ {k} : redis'[j] = redis[j]
      /\ dbTask'[k].stmt = latest[k] /\ \A j \in Key \ {k} : dbTask'[j] = dbTask[j]
  BY <1>1, Facts
<1>5. \A c \in Client : ClientCalls(c)'
  <2>1. ClientCalls(t)'
    BY <1>2 DEF ClientCalls
  <2>2. ASSUME NEW c \in Client \ {t} PROVE ClientCalls(c)'
    <3>1. ClientCalls(c) /\ co'[c] = co[c] /\ c \in Thread /\ co[c].key \in Key
      BY <1>2, Facts DEF WriteInv
    <3>2. Holds(c, co[c].key) => Holds(c, co[c].key)'
      BY <1>0, <1>3, <3>1, HoldsKept
    <3> QED
      BY <1>1, <3>1, <3>2 DEF ClientCalls
  <2> QED
    BY <2>1, <2>2
<1>6. TimerCalls'
  BY <1>2, Facts, ThreadsAssumption DEF TimerCalls, WriteInv
<1>7. NoFaultTasks'
  <2>1. latest[k] \in 1..MaxVer
    BY <1>0, Facts, ConfigAssumption DEF Ver
  <2> QED
    BY <1>0, <1>1, <1>3, <1>4, <2>1, HoldsKept DEF NoFaultTasks, WriteInv
<1>8. Places'
  BY <1>0, <1>3, LeavePlaces
<1>9. ASSUME NEW j \in Key PROVE Ages(j)' /\ Carried(j)'
  <2>1. Ages(j) /\ Carried(j) /\ co'[DbTimer] = co[DbTimer]
    BY <1>2, Facts DEF WriteInv
  <2>2. \A c \in Client : c # t => co'[c] = co[c]
    BY <1>2, Facts
  <2>3. CASE j # k
    BY <1>k, <1>1, <1>2, <1>4, <2>1, <2>2, <2>3 DEF Ages, Carried, Executing
  <2>4. CASE j = k
    <3>1. latest[k] \in Nat /\ latest[k] <= latest[k]
      BY Facts
    <3>2. Ages(j)'
      BY <1>1, <1>2, <1>4, <2>1, <2>2, <2>4, <3>1 DEF Ages, Executing
    <3>3. Carried(j)'
      BY <1>1, <1>4, <2>4 DEF Carried
    <3> QED
      BY <3>2, <3>3
  <2> QED
    BY <2>3, <2>4
<1> QED
  BY <1>5, <1>6, <1>7, <1>8, <1>9 DEF WriteInv

LEMMA PopWrites ==
    ASSUME AsyncOnly, TypeInv, WriteInv, NEW k \in Key, DbPop(k)
    PROVE  WriteInv'
<1>0. co[DbTimer].pc = "idle" /\ dbTask[k] # NoDbTask /\ dbTask[k].stmt \in 1..MaxVer
  BY DEF DbPop, WriteInv, NoFaultTasks
<1>1. /\ co' = [co EXCEPT ![DbTimer] = [co[DbTimer] EXCEPT !.pc = "execute", !.key = k,
                                                        !.arg = dbTask[k].stmt]]
      /\ dbTask' = [dbTask EXCEPT ![k] = NoDbTask]
      /\ Enter(DbTimer, k)
      /\ UNCHANGED <<redis, db, redisTask, latest, issued>>
  BY DEF DbPop, AsyncOnly, stores, history
<1>2. /\ co'[DbTimer].pc = "execute" /\ co'[DbTimer].key = k
      /\ co'[DbTimer].arg = dbTask[k].stmt
      /\ co'[DbTimer].ret = co[DbTimer].ret /\ co'[DbTimer].op = co[DbTimer].op
      /\ \A u \in Thread \ {DbTimer} : co'[u] = co[u]
      /\ dbTask'[k] = NoDbTask /\ \A j \in Key \ {k} : dbTask'[j] = dbTask[j]
  BY <1>1, Facts DEF Coroutine
<1>3. Joins(DbTimer, k)
  BY <1>0, <1>1, <1>2, Facts DEF Joins
<1>4. ASSUME NEW c \in Client PROVE ClientCalls(c)'
  <2>1. /\ ClientCalls(c) /\ co'[c] = co[c] /\ c \in Thread \ {DbTimer}
        /\ co[c].key \in Key
    BY <1>2, Facts DEF WriteInv
  <2>2. Holds(c, co[c].key) => Holds(c, co[c].key)'
    BY <1>3, <2>1, Facts, HoldsKept
  <2> QED
    BY <1>1, <2>1, <2>2 DEF ClientCalls
<1>5. TimerCalls'
  BY <1>0, <1>2, Facts, ThreadsAssumption DEF TimerCalls, WriteInv
<1>6. NoFaultTasks'
  BY <1>1, <1>2, <1>3, Facts, HoldsKept DEF NoFaultTasks, WriteInv
<1>7. Places'
  BY <1>3, Facts, JoinPlaces
<1>8. ASSUME NEW j \in Key PROVE Ages(j)' /\ Carried(j)'
  <2>1. Ages(j) /\ Carried(j)
    BY DEF WriteInv
  <2>2. \A c \in Client : co'[c] = co[c]
    BY <1>2, Facts
  <2> QED
    BY <1>0, <1>1, <1>2, <2>1, <2>2 DEF Ages, Carried, Executing
<1> QED
  BY <1>4, <1>5, <1>6, <1>7, <1>8 DEF WriteInv

LEMMA ExecuteWrites ==
    ASSUME AsyncOnly, TypeInv, WriteInv, ExecuteOk(DbTimer)
    PROVE  WriteInv'
<1>k. PICK k \in Key : k = co[DbTimer].key
  BY Facts
<1>0. /\ co[DbTimer].pc = "execute" /\ co[DbTimer].ret = "done" /\ co[DbTimer].op = "none"
      /\ Ages(k) /\ Carried(k) /\ Executing(k)
  BY <1>k DEF ExecuteOk, WriteInv, TimerCalls, Executing
<1>1. /\ Finish(DbTimer, FALSE) /\ db' = [db EXCEPT ![k] = co[DbTimer].arg]
      /\ UNCHANGED <<redis, dbTask, redisTask, latest, issued>>
  BY <1>k, <1>0 DEF ExecuteOk, EndDbWrap, AsyncOnly, tasks, history
<1>2. /\ co'[DbTimer].pc = "idle" /\ co'[DbTimer].ret = "done" /\ co'[DbTimer].op = "none"
      /\ \A u \in Thread \ {DbTimer} : co'[u] = co[u]
      /\ Exit(DbTimer, k)
  BY <1>k, <1>0, <1>1, Facts DEF Finish, Resting
<1>3. Leaves(DbTimer)
  BY <1>k, <1>0, <1>2 DEF Leaves
<1>4. db'[k] = co[DbTimer].arg /\ \A j \in Key \ {k} : db'[j] = db[j]
  BY <1>1, Facts
<1>5. ASSUME NEW c \in Client PROVE ClientCalls(c)'
  <2>1. /\ ClientCalls(c) /\ co'[c] = co[c] /\ c \in Thread \ {DbTimer}
        /\ co[c].key \in Key
    BY <1>2, Facts DEF WriteInv
  <2>2. Holds(c, co[c].key) => Holds(c, co[c].key)'
    BY <1>3, <2>1, Facts, HoldsKept
  <2> QED
    BY <1>1, <2>1, <2>2 DEF ClientCalls
<1>6. TimerCalls'
  BY <1>2, Facts, ThreadsAssumption DEF TimerCalls, WriteInv
<1>7. NoFaultTasks'
  BY <1>1, <1>3, Facts, HoldsKept DEF NoFaultTasks, WriteInv
<1>8. Places'
  BY <1>3, Facts, LeavePlaces
<1>9. ASSUME NEW j \in Key PROVE Ages(j)' /\ Carried(j)'
  <2>1. Ages(j) /\ Carried(j)
    BY DEF WriteInv
  <2>2. \A c \in Client : co'[c] = co[c]
    BY <1>2, Facts
  <2> QED
    BY <1>k, <1>0, <1>1, <1>2, <1>4, <2>1, <2>2 DEF Ages, Carried, Executing
<1> QED
  BY <1>5, <1>6, <1>7, <1>8, <1>9 DEF WriteInv

\* Evictions and stop.
LEMMA OtherWrites ==
    ASSUME TypeInv, WriteInv,
           \/ (\E k \in Key : ClearCache(k)) \/ ClearRedis \/ Stop \/ StopDone
           \/ UNCHANGED vars
    PROVE  WriteInv'
<1>1. /\ UNCHANGED <<db, dbTask, redisTask, latest, issued, co, line, orphan>>
      /\ \A j \in Key : redis'[j] \in {redis[j], 0}
  BY DEF ClearCache, ClearRedis, Stop, StopDone, vars, stores, tasks, sq, history, Nil
<1>2. \A c \in Client : ClientCalls(c)'
  BY <1>1 DEF WriteInv, ClientCalls, Holds
<1>3. TimerCalls' /\ NoFaultTasks' /\ Places'
  BY <1>1 DEF WriteInv, TimerCalls, NoFaultTasks, Places
<1>4. ASSUME NEW j \in Key PROVE Ages(j)' /\ Carried(j)'
  <2>1. Ages(j) /\ Carried(j) /\ latest[j] \in Nat
    BY Facts DEF WriteInv
  <2>2. redis'[j] <= latest[j]
    BY <1>1, <2>1 DEF Ages
  <2> QED
    BY <1>1, <2>1, <2>2 DEF Ages, Carried, Executing
<1> QED
  BY <1>2, <1>3, <1>4 DEF WriteInv

LEMMA InitWrites == Init => WriteInv
<1> SUFFICES ASSUME Init PROVE WriteInv
  OBVIOUS
<1>1. Resting.pc = "idle" /\ Resting.op = "none" /\ Resting.ret = "done"
  BY DEF Resting
<1>2. /\ \A t \in Thread : co[t] = Resting
      /\ Client \subseteq Thread /\ DbTimer \in Thread /\ RedisTimer \in Thread
  BY DEF Init, Thread
<1>3. /\ \A k \in Key : /\ line[k] = <<>> /\ orphan[k] = {} /\ redisTask[k] = NoTask
                         /\ dbTask[k] = NoDbTask /\ latest[k] = 0 /\ redis[k] = 0 /\ db[k] = 0
      /\ issued = 0
  BY DEF Init, SqInit, Nil
<1>4. \A c \in Client : ClientCalls(c)
  BY <1>1, <1>2 DEF ClientCalls
<1>5. TimerCalls /\ NoFaultTasks
  BY <1>1, <1>2, <1>3 DEF TimerCalls, NoFaultTasks
<1>6. Places
  <2>1. DOMAIN <<>> = {}
    OBVIOUS
  <2> QED
    BY <1>1, <1>2, <1>3, <2>1 DEF Places
<1>7. ASSUME NEW k \in Key PROVE Ages(k) /\ Carried(k)
  BY <1>1, <1>2, <1>3 DEF Ages, Carried, Executing
<1> QED
  BY <1>4, <1>5, <1>6, <1>7 DEF WriteInv

LEMMA NextWrites ==
    ASSUME AsyncOnly
    PROVE  TypeInv /\ WriteInv /\ [Next]_vars => WriteInv'
<1> SUFFICES ASSUME TypeInv, WriteInv, [Next]_vars PROVE WriteInv'
  OBVIOUS
<1>1. ASSUME NEW t \in Thread, Step(t) PROVE WriteInv'
  BY <1>1, OnlySteps, CheckWrites, StartWrites, QueueWrites, ExecuteWrites
<1>2. ASSUME NEW t \in Client, NEW o \in Ops, NEW k \in Key, Request(t, o, k)
      PROVE  WriteInv'
  BY <1>2, RequestWrites
<1>3. ASSUME NEW t \in Client, Logout(t) PROVE WriteInv'
  BY <1>3 DEF Logout, AsyncOnly
<1>4. ASSUME NEW k \in Key, DbPop(k) PROVE WriteInv'
  BY <1>4, PopWrites
<1>5. ASSUME NEW k \in Key, RedisPop(k) PROVE WriteInv'
  BY <1>5 DEF RedisPop, WriteInv, NoFaultTasks
<1>6. CASE \/ (\E k \in Key : ClearCache(k)) \/ ClearRedis \/ Stop \/ StopDone
           \/ UNCHANGED vars
  BY <1>6, OtherWrites
<1>7. CASE Next
  BY <1>1, <1>2, <1>3, <1>4, <1>5, <1>6, <1>7 DEF Next
<1> QED
  BY <1>6, <1>7

LEMMA WriteInvariant ==
    ASSUME AsyncOnly
    PROVE  Spec => [](TypeInv /\ WriteInv)
<1>1. TypeInv /\ WriteInv /\ [Next]_vars => WriteInv'
  BY NextWrites
<1> QED
  BY <1>1, InitWrites, TypeInvariant, PTL DEF Spec

\* The last write sendUpdate accepted is in the database, in dbTask, or with a
\* coroutine that is about to put it there: a newer sendUpdate may replace a
\* queued task while onDealDbTask waits for the sq with an older one, and still
\* nothing is lost.
THEOREM WriteBehindLosesNothing ==
    ASSUME AsyncOnly
    PROVE  Spec => []NoLostUpdate
<1>1. TypeInv /\ WriteInv => NoLostUpdate
  <2> SUFFICES ASSUME TypeInv, WriteInv, NEW k \in Key
               PROVE  \/ db[k] = latest[k] \/ dbTask[k].stmt = latest[k]
                      \/ \E t \in Thread : /\ co[t].key = k /\ co[t].arg = latest[k]
                                            /\ co[t].pc \in {"redisSet", "execute"}
    BY DEF NoLostUpdate
  <2>1. Carried(k) /\ Client \subseteq Thread /\ DbTimer \in Thread
    BY Facts DEF WriteInv
  <2>2. \A c \in Client : co[c].pc = "redisSet" => co[c].arg = latest[co[c].key]
    BY DEF WriteInv, ClientCalls
  <2> QED
    BY <2>1, <2>2 DEF Carried, Executing
<1> QED
  BY <1>1, WriteInvariant, PTL

\* What a step does to the two stores.
LEMMA StoreSteps ==
    ASSUME AsyncOnly, TypeInv, WriteInv, [Next]_vars, NEW k \in Key
    PROVE  /\ db'[k] >= db[k]
           /\ redis'[k] >= redis[k] \/ redis'[k] = Nil
<1>0. db[k] \in Nat /\ redis[k] \in Nat /\ db[k] >= db[k] /\ redis[k] >= redis[k]
  BY Facts
<1>1. ASSUME NEW t \in Client, RedisSetOk(t)
      PROVE  db'[k] = db[k] /\ redis'[k] >= redis[k]
  <2>1. t \in Thread /\ co[t].key \in Key /\ co[t].arg = latest[co[t].key]
    BY <1>1, Facts DEF WriteInv, ClientCalls, RedisSetOk
  <2>2. db' = db /\ redis' = [redis EXCEPT ![co[t].key] = latest[co[t].key]]
    BY <1>1, <2>1 DEF RedisSetOk
  <2>3. redis[k] <= latest[k] /\ latest[k] \in Nat
    BY Facts DEF WriteInv, Ages
  <2> QED
    BY <1>0, <2>2, <2>3, Facts
<1>2. ASSUME ExecuteOk(DbTimer) PROVE db'[k] >= db[k] /\ redis'[k] = redis[k]
  <2>1. /\ redis' = redis /\ co[DbTimer].pc = "execute" /\ co[DbTimer].key \in Key
        /\ db' = [db EXCEPT ![co[DbTimer].key] = co[DbTimer].arg]
    BY <1>2, Facts DEF ExecuteOk
  <2>2. co[DbTimer].arg \in Nat
    BY <2>1, ConfigAssumption DEF WriteInv, TimerCalls
  <2>3. co[DbTimer].key = k => db[k] <= co[DbTimer].arg
    BY <2>1 DEF WriteInv, Ages, Executing
  <2> QED
    BY <1>0, <2>1, <2>2, <2>3, Facts
<1>3. ASSUME NEW t \in Thread, Step(t)
      PROVE  db'[k] >= db[k] /\ redis'[k] >= redis[k]
  <2>1. CASE t \in Client /\ (CheckRedisTask(t) \/ StartWrite(t))
    BY <1>0, <2>1 DEF CheckRedisTask, StartWrite, stores
  <2> QED
    BY <1>0, <1>1, <1>2, <1>3, <2>1, OnlySteps
<1>4. ASSUME NEW t \in Client, NEW o \in Ops, NEW j \in Key, Request(t, o, j) \/ Logout(t)
      PROVE  db' = db /\ redis' = redis
  BY <1>4 DEF Request, Logout, stores
<1>5. ASSUME NEW j \in Key, DbPop(j) \/ RedisPop(j) \/ ClearCache(j)
      PROVE  db' = db /\ redis' = redis
  BY <1>5 DEF DbPop, RedisPop, ClearCache, stores
<1>6. CASE ClearRedis
  BY <1>0, <1>6 DEF ClearRedis
<1>7. CASE Stop \/ StopDone \/ UNCHANGED vars
  BY <1>0, <1>7 DEF Stop, StopDone, vars, stores
<1>8. CASE Next
  <2>1. ASSUME NEW t \in Client, Logout(t) PROVE db' = db /\ redis' = redis
    BY <2>1 DEF Logout, stores
  <2> QED
    BY <1>0, <1>3, <1>4, <1>5, <1>6, <1>7, <1>8, <2>1 DEF Next
<1> QED
  BY <1>7, <1>8

\* The database never goes back to an older version: onDealDbTask pops a task
\* before it has the key's sq, and still only ever overwrites older data.
THEOREM WriteBehindDbMonotone ==
    ASSUME AsyncOnly
    PROVE  Spec => DbMonotone
<1>1. TypeInv /\ WriteInv /\ [Next]_vars => [\A k \in Key : db'[k] >= db[k]]_db
  BY StoreSteps
<1> QED
  BY <1>1, WriteInvariant, PTL DEF Spec, DbMonotone

\* redis never goes back either, though the timer may expire the whole hash.
THEOREM WriteBehindRedisMonotone ==
    ASSUME AsyncOnly
    PROVE  Spec => RedisMonotone
<1>1. TypeInv /\ WriteInv /\ [Next]_vars
        => [\A k \in Key : redis'[k] >= redis[k] \/ redis'[k] = Nil]_redis
  BY StoreSteps
<1> QED
  BY <1>1, WriteInvariant, PTL DEF Spec, RedisMonotone
================================================================================
