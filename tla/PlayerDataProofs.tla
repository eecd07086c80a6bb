---------------------------- MODULE PlayerDataProofs ----------------------------
(***************************************************************************)
(* Proofs about PlayerData, for any number of modules, client coroutines   *)
(* and versions.                                                           *)
(***************************************************************************)
EXTENDS PlayerData, TLAPS

--------------------------------------------------------------------------------
(* Type correctness. *)

\* What a coroutine's locals hold at the calls that use them.
LocalsOK ==
    \A t \in Thread :
        /\ co[t].pc \in {"redisSet", "fill"} => co[t].arg \in Ver
        /\ co[t].pc \in {"sql", "flushSql"} => co[t].early # NoTask

CoOK == co \in [Thread -> Coroutine] /\ LocalsOK
TypeInv == TypeOK /\ LocalsOK

\* A coroutine at rest is a coroutine.
LEMMA RestingType == Resting \in Coroutine
<1>1. (CHOOSE k \in Key : TRUE) \in Key
  BY ConfigAssumption
<1> QED
  BY <1>1, ConfigAssumption DEF Resting, Coroutine, PcValues, AllOps, Ver, Nil

\* Entering and leaving a queue keeps the queue table well typed.
LEMMA SqTypes ==
    ASSUME SqTypeOK, NEW t \in Thread, NEW k \in Key
    PROVE  /\ Enter(t, k) => SqTypeOK'
           /\ Exit(t, k) => SqTypeOK'
           /\ DelSq(Key) => SqTypeOK'
<1>1. ASSUME Enter(t, k) PROVE SqTypeOK'
  BY <1>1 DEF Enter, SqTypeOK
<1>2. ASSUME Exit(t, k) PROVE SqTypeOK'
  <2>1. CASE line[k] # <<>> /\ line' = [line EXCEPT ![k] = Tail(@)] /\ UNCHANGED orphan
    BY <2>1 DEF SqTypeOK
  <2>2. CASE \E q \in orphan[k] :
               /\ orphan' = [orphan EXCEPT ![k] =
                              (@ \ {q}) \cup IF Len(q) = 1 THEN {} ELSE {Tail(q)}]
               /\ UNCHANGED line
    <3>1. PICK q \in orphan[k] :
               /\ orphan' = [orphan EXCEPT ![k] =
                              (@ \ {q}) \cup IF Len(q) = 1 THEN {} ELSE {Tail(q)}]
               /\ UNCHANGED line
      BY <2>2
    <3>2. q \in Seq(Thread) /\ q # <<>>
      BY DEF SqTypeOK
    <3>3. Len(q) # 1 => Tail(q) \in Seq(Thread) /\ Tail(q) # <<>>
      <4>1. Tail(q) \in Seq(Thread) /\ Len(Tail(q)) = Len(q) - 1
        BY <3>2
      <4>2. Len(q) \in Nat /\ Len(<<>>) = 0
        BY <3>2
      <4> QED
        BY <4>1, <4>2
    <3> DEFINE new == (orphan[k] \ {q}) \cup IF Len(q) = 1 THEN {} ELSE {Tail(q)}
    <3>4. new \in SUBSET (Seq(Thread) \ {<<>>})
      BY <3>3 DEF SqTypeOK
    <3>5. orphan' = [orphan EXCEPT ![k] = new] /\ UNCHANGED line
      BY <3>1
    <3> HIDE DEF new
    <3> QED
      BY <3>4, <3>5 DEF SqTypeOK
  <2> QED
    BY <1>2, <2>1, <2>2 DEF Exit
<1>3. ASSUME DelSq(Key) PROVE SqTypeOK'
  BY <1>3 DEF DelSq, SqTypeOK
<1> QED
  BY <1>1, <1>2, <1>3

\* A coroutine's record may be replaced by any well-typed one.
LEMMA CoUpdate ==
    ASSUME CoOK, NEW t \in Thread, NEW r \in Coroutine,
           r.pc \in {"redisSet", "fill"} => r.arg \in Ver,
           r.pc \in {"sql", "flushSql"} => r.early # NoTask,
           co' = [co EXCEPT ![t] = r]
    PROVE  CoOK'
<1>1. co \in [Thread -> Coroutine]
  BY DEF CoOK
<1>2. /\ co' \in [Thread -> Coroutine]
      /\ \A u \in Thread : co'[u] = IF u = t THEN r ELSE co[u]
  BY <1>1
<1> QED
  BY <1>2 DEF CoOK, LocalsOK

\* Moving a coroutine to its next call keeps its record well typed.
LEMMA MoveTypes ==
    ASSUME TypeInv, NEW t \in Thread, NEW ok \in BOOLEAN
    PROVE  /\ \A p \in PcValues \ {"redisSet", "fill", "sql", "flushSql"} :
                 Goto(t, p) => SqTypeOK' /\ CoOK'
           /\ Finish(t, ok) => SqTypeOK' /\ CoOK'
           /\ EndDbWrap(t, ok) => SqTypeOK' /\ CoOK'
           /\ co[t].pc \in {"dealDbTask", "sql", "flush", "flushSql"} /\ AfterDbTask(t, ok)
                 => SqTypeOK' /\ CoOK'
<1>0. /\ SqTypeOK /\ co \in [Thread -> Coroutine] /\ LocalsOK
      /\ co[t].key \in Key /\ co[t].ret \in {"done", "write", "lookup", "flush"}
      /\ co[t].todo \in SUBSET Key
  BY DEF TypeInv, TypeOK, Coroutine
<1>1. ASSUME NEW p \in PcValues \ {"redisSet", "fill", "sql", "flushSql"}, Goto(t, p)
      PROVE  SqTypeOK' /\ CoOK'
  <2> DEFINE r == [co[t] EXCEPT !.pc = p]
  <2>1. r \in Coroutine /\ r.pc = p
    BY <1>0 DEF Coroutine
  <2>2. co' = [co EXCEPT ![t] = r] /\ UNCHANGED sq
    BY <1>0, <1>1 DEF Goto
  <2> HIDE DEF r
  <2>3. CoOK'
    BY <1>0, <2>1, <2>2, CoUpdate DEF CoOK
  <2> QED
    BY <1>0, <2>2, <2>3 DEF sq, SqTypeOK
<1>2. ASSUME Finish(t, ok) PROVE SqTypeOK' /\ CoOK'
  <2>1. SqTypeOK'
    BY <1>0, <1>2, SqTypes DEF Finish
  <2> DEFINE r == IF ok /\ co[t].op = "logout"
                  THEN [Resting EXCEPT !.pc = "scan", !.op = "logout", !.todo = co[t].todo]
                  ELSE Resting
  <2>2. r \in Coroutine /\ r.pc \in {"idle", "scan"}
    <3>1. Resting.pc = "idle"
      BY DEF Resting
    <3>2. CASE ok /\ co[t].op = "logout"
      BY <1>0, <3>2, RestingType DEF Coroutine, PcValues, AllOps
    <3>3. CASE ~ (ok /\ co[t].op = "logout")
      BY <3>1, <3>3, RestingType
    <3> QED
      BY <3>2, <3>3
  <2>3. co' = [co EXCEPT ![t] = r]
    BY <1>2 DEF Finish
  <2> HIDE DEF r
  <2> QED
    BY <1>0, <2>1, <2>2, <2>3, CoUpdate DEF CoOK
<1>3. ASSUME EndDbWrap(t, ok) PROVE SqTypeOK' /\ CoOK'
  <2>1. CASE /\ co[t].ret # "done"
             /\ co' = [co EXCEPT ![t].pc = co[t].ret, ![t].arg = Nil, ![t].ret = "done"]
             /\ UNCHANGED sq
    <3> DEFINE r == [co[t] EXCEPT !.pc = co[t].ret, !.arg = Nil, !.ret = "done"]
    <3>1. r \in Coroutine /\ r.pc \in {"write", "lookup", "flush"}
      BY <1>0, <2>1, ConfigAssumption DEF Coroutine, PcValues, Nil, Ver
    <3>2. co' = [co EXCEPT ![t] = r]
      BY <1>0, <2>1
    <3> HIDE DEF r
    <3>3. CoOK'
      BY <1>0, <3>1, <3>2, CoUpdate DEF CoOK
    <3> QED
      BY <1>0, <2>1, <3>3 DEF sq, SqTypeOK
  <2> QED
    BY <1>2, <1>3, <2>1 DEF EndDbWrap
<1>4. ASSUME co[t].pc \in {"dealDbTask", "sql", "flush", "flushSql"}, AfterDbTask(t, ok)
      PROVE  SqTypeOK' /\ CoOK'
  <2>1. Goto(t, "execute") \/ Goto(t, "dbQuery") \/ Finish(t, ok)
    BY <1>4 DEF AfterDbTask
  <2>2. {"execute", "dbQuery"} \subseteq PcValues \ {"redisSet", "fill", "sql", "flushSql"}
    BY DEF PcValues
  <2> QED
    BY <1>1, <1>2, <2>1, <2>2
<1> QED
  BY <1>1, <1>2, <1>3, <1>4

\* The stores, the task lists and the counters.
DataOK ==
    /\ mem \in [Key -> Ver] /\ redis \in [Key -> Ver] /\ db \in [Key -> Ver]
    /\ redisTask \in [Key -> Ver \cup {NoTask}]
    /\ dbTask \in [Key -> [stmt : Ver \cup {Junk}, named : BOOLEAN] \cup {NoDbTask}]
    /\ latest \in [Key -> Ver] /\ issued \in Ver
    /\ stoping \in BOOLEAN /\ stoped \in BOOLEAN

LEMMA TypeParts == TypeInv <=> DataOK /\ SqTypeOK /\ CoOK
  BY DEF TypeInv, TypeOK, DataOK, CoOK

LEMMA TypePartsNext == ASSUME DataOK', SqTypeOK', CoOK' PROVE TypeInv'
  BY DEF TypeInv, TypeOK, DataOK, CoOK

LEMMA Constants ==
    /\ Nil \in Ver /\ NoTask \notin Ver /\ Junk \notin Ver /\ NoTask # Junk
    /\ \A s \in Ver \cup {Junk} : [stmt |-> s, named |-> TRUE] # NoDbTask
    /\ \A s \in Ver \cup {Junk} : [stmt |-> s, named |-> FALSE] # NoDbTask
  BY ConfigAssumption DEF Ver, Nil, NoTask, Junk, NoDbTask

\* A step of a coroutine that changes nothing but the coroutine.
LEMMA QuietTypes ==
    ASSUME TypeInv, SqTypeOK' /\ CoOK', UNCHANGED <<stores, tasks, history, stopping>>
    PROVE  TypeInv'
<1>1. DataOK'
  BY TypeParts DEF DataOK, stores, tasks, history, stopping
<1> QED
  BY <1>1, TypePartsNext

\* Requests and the part of an operation that deals with redis tasks.
LEMMA RedisTaskTypes ==
    ASSUME TypeInv, NEW t \in Thread,
           CheckRedisTask(t) \/ DealRedisTask(t) \/ SkipRedisTask(t)
    PROVE  TypeInv'
<1>0. DataOK /\ SqTypeOK /\ CoOK /\ co[t] \in Coroutine /\ co[t].key \in Key
  BY TypeParts DEF CoOK, Coroutine
<1>1. \A o : AfterRedisTask(o) \in {"write", "lookup", "flush"}
  BY DEF AfterRedisTask
<1>2. {"write", "lookup", "flush", "isRedisAlive"}
         \subseteq PcValues \ {"redisSet", "fill", "sql", "flushSql"}
  BY DEF PcValues
<1>3. CASE CheckRedisTask(t)
  <2>1. \E p \in PcValues \ {"redisSet", "fill", "sql", "flushSql"} : Goto(t, p)
    BY <1>1, <1>2, <1>3 DEF CheckRedisTask
  <2> QED
    BY <1>3, <2>1, MoveTypes, QuietTypes DEF CheckRedisTask
<1>4. CASE SkipRedisTask(t)
  <2>1. \E p \in PcValues \ {"redisSet", "fill", "sql", "flushSql"} : Goto(t, p)
    BY <1>1, <1>2, <1>4 DEF SkipRedisTask
  <2> QED
    BY <1>4, <2>1, MoveTypes, QuietTypes DEF SkipRedisTask
<1>5. CASE DealRedisTask(t)
  <2> DEFINE k == co[t].key
             r == [co[t] EXCEPT !.pc = "redisSet", !.arg = redisTask[k],
                                !.ret = AfterRedisTask(co[t].op)]
  <2>1. redisTask[k] \in Ver
    BY <1>0, <1>5 DEF DealRedisTask, DataOK
  <2>2. r \in Coroutine /\ r.pc = "redisSet" /\ r.arg \in Ver
    BY <1>0, <1>1, <2>1 DEF Coroutine, PcValues
  <2>3. co' = [co EXCEPT ![t] = r] /\ UNCHANGED sq
    BY <1>0, <1>5 DEF DealRedisTask, CoOK
  <2>4. DataOK'
    BY <1>0, <1>5, <2>1
       DEF DealRedisTask, PushRedis, DataOK, history, stopping
  <2> HIDE DEF r
  <2>5. CoOK'
    BY <1>0, <2>2, <2>3, CoUpdate
  <2> QED
    BY <1>0, <2>3, <2>4, <2>5, TypePartsNext DEF sq, SqTypeOK
<1> QED
  BY <1>3, <1>4, <1>5

\* The memory and redis part of a write.
LEMMA WriteTypes ==
    ASSUME TypeInv, NEW t \in Thread,
           StartWrite(t) \/ RedisSetOk(t) \/ RedisSetFail(t)
    PROVE  TypeInv'
<1>0. DataOK /\ SqTypeOK /\ CoOK /\ co[t] \in Coroutine /\ co[t].key \in Key
  BY TypeParts DEF CoOK, Coroutine
<1>1. CASE StartWrite(t)
  <2> DEFINE r == [co[t] EXCEPT !.pc = "redisSet", !.arg = co[t].val]
  <2>1. r \in Coroutine /\ r.pc = "redisSet" /\ r.arg \in Ver
    BY <1>0 DEF Coroutine, PcValues
  <2>2. co' = [co EXCEPT ![t] = r] /\ UNCHANGED sq
    BY <1>0, <1>1 DEF StartWrite, CoOK
  <2>3. DataOK'
    BY <1>0, <1>1 DEF StartWrite, DataOK, Coroutine, tasks, stopping
  <2> HIDE DEF r
  <2>4. CoOK'
    BY <1>0, <2>1, <2>2, CoUpdate
  <2> QED
    BY <1>0, <2>2, <2>3, <2>4, TypePartsNext DEF sq, SqTypeOK
<1>2. CASE RedisSetOk(t)
  <2>1. co[t].arg \in Ver
    BY <1>0, <1>2 DEF RedisSetOk, CoOK, LocalsOK
  <2>2. Finish(t, TRUE) \/ Goto(t, "dealDbTask")
    BY <1>2 DEF RedisSetOk
  <2>3. SqTypeOK' /\ CoOK'
    <3>1. "dealDbTask" \in PcValues \ {"redisSet", "fill", "sql", "flushSql"}
      BY DEF PcValues
    <3> QED
      BY <2>2, <3>1, MoveTypes
  <2>4. DataOK'
    <3>1. dbTask' \in [Key -> [stmt : Ver \cup {Junk}, named : BOOLEAN] \cup {NoDbTask}]
      <4>1. dbTask' = dbTask
            \/ dbTask' = [dbTask EXCEPT ![co[t].key] = [stmt |-> co[t].arg, named |-> TRUE]]
        BY <1>2 DEF RedisSetOk, PushDb
      <4>2. [stmt |-> co[t].arg, named |-> TRUE] \in [stmt : Ver \cup {Junk}, named : BOOLEAN]
        BY <2>1
      <4> QED
        BY <1>0, <4>1, <4>2 DEF DataOK
    <3> QED
      BY <1>0, <1>2, <2>1, <3>1 DEF RedisSetOk, DataOK, history, stopping
  <2> QED
    BY <2>3, <2>4, TypePartsNext
<1>3. CASE RedisSetFail(t)
  <2>1. co[t].arg \in Ver
    BY <1>0, <1>3 DEF RedisSetFail, CoOK, LocalsOK
  <2>2. SqTypeOK' /\ CoOK'
    BY <1>3, MoveTypes DEF RedisSetFail
  <2>3. DataOK'
    BY <1>0, <1>3, <2>1 DEF RedisSetFail, PushRedis, DataOK, history, stopping
  <2> QED
    BY <2>2, <2>3, TypePartsNext
<1> QED
  BY <1>1, <1>2, <1>3

\* dealDbTask.
LEMMA DbTaskTypes ==
    ASSUME TypeInv, NEW t \in Thread,
           \/ NoDbTaskDue(t) \/ DealDbTaskMongo(t) \/ DealDbTaskMysql(t)
           \/ EarlySqlOk(t) \/ EarlySqlFail(t)
    PROVE  TypeInv'
<1>0. DataOK /\ SqTypeOK /\ CoOK /\ co[t] \in Coroutine /\ co[t].key \in Key
  BY TypeParts DEF CoOK, Coroutine
<1>1. CASE NoDbTaskDue(t)
  BY <1>1, MoveTypes, QuietTypes DEF NoDbTaskDue
<1>2. CASE DealDbTaskMongo(t)
  <2>1. SqTypeOK' /\ CoOK'
    BY <1>2, MoveTypes DEF DealDbTaskMongo
  <2>2. DataOK'
    BY <1>0, <1>2 DEF DealDbTaskMongo, DataOK, stores, history, stopping
  <2> QED
    BY <2>1, <2>2, TypePartsNext
<1>3. CASE DealDbTaskMysql(t)
  <2> DEFINE k == co[t].key
             r == [co[t] EXCEPT !.early = dbTask[k].stmt,
                                !.pc = IF co[t].pc = "flush" THEN "flushSql" ELSE "sql"]
  <2>1. dbTask[k].stmt \in Ver \cup {Junk}
    BY <1>0, <1>3 DEF DealDbTaskMysql, DataOK
  <2>2. r \in Coroutine /\ r.pc \in {"flushSql", "sql"} /\ r.early # NoTask
    <3>1. co[t] \in Coroutine
      BY <1>0
    <3>2. r \in Coroutine
      <4>1. CASE co[t].pc = "flush"
        BY <2>1, <3>1, <4>1 DEF Coroutine, PcValues
      <4>2. CASE co[t].pc # "flush"
        BY <2>1, <3>1, <4>2 DEF Coroutine, PcValues
      <4> QED
        BY <4>1, <4>2
    <3>3. r.pc \in {"flushSql", "sql"} /\ r.early = dbTask[k].stmt
      BY <3>1 DEF Coroutine
    <3> QED
      BY <2>1, <3>2, <3>3, Constants
  <2>3. co' = [co EXCEPT ![t] = r] /\ UNCHANGED sq
    BY <1>0, <1>3 DEF DealDbTaskMysql, CoOK
  <2>4. DataOK'
    BY <1>0, <1>3 DEF DealDbTaskMysql, DataOK, stores, history, stopping
  <2> HIDE DEF r
  <2>5. CoOK'
    BY <1>0, <2>2, <2>3, CoUpdate
  <2> QED
    BY <1>0, <2>3, <2>4, <2>5, TypePartsNext DEF sq, SqTypeOK
<1>4. CASE EarlySqlOk(t)
  <2>1. co[t].early \in Ver
    BY <1>0, <1>4 DEF EarlySqlOk, Acknowledged, Coroutine, CoOK, LocalsOK
  <2>2. SqTypeOK' /\ CoOK'
    BY <1>4, MoveTypes DEF EarlySqlOk
  <2>3. DataOK'
    BY <1>0, <1>4, <2>1 DEF EarlySqlOk, DataOK, tasks, history, stopping
  <2> QED
    BY <2>2, <2>3, TypePartsNext
<1>5. CASE EarlySqlFail(t)
  <2>1. co[t].early \in Ver \cup {Junk}
    BY <1>0, <1>5 DEF EarlySqlFail, Coroutine, CoOK, LocalsOK
  <2>2. Landed(co[t].key, co[t].early) \subseteq Ver
    BY <1>0, <2>1 DEF Landed, DataOK
  <2>3. SqTypeOK' /\ CoOK'
    BY <1>5, MoveTypes DEF EarlySqlFail
  <2>4. DataOK'
    BY <1>0, <1>5, <2>1, <2>2 DEF EarlySqlFail, PushDb, DataOK, history, stopping
  <2> QED
    BY <2>3, <2>4, TypePartsNext
<1> QED
  BY <1>1, <1>2, <1>3, <1>4, <1>5

\* The database write and the rest of query.
LEMMA ExecuteTypes ==
    ASSUME TypeInv, NEW t \in Thread, ExecuteOk(t) \/ ExecuteFail(t)
    PROVE  TypeInv'
<1>0. DataOK /\ SqTypeOK /\ CoOK /\ co[t] \in Coroutine /\ co[t].key \in Key
  BY TypeParts DEF CoOK, Coroutine
<1>1. (DbType = "mysql") \in BOOLEAN /\ (DbType = "mongodb") \in BOOLEAN
  OBVIOUS
<1>2. SqTypeOK' /\ CoOK'
  BY <1>1, MoveTypes DEF ExecuteOk, ExecuteFail
<1>3. CASE ExecuteOk(t)
  <2>1. co[t].arg \in Ver
    BY <1>0, <1>3 DEF ExecuteOk, Acknowledged, Coroutine
  <2>2. DataOK'
    BY <1>0, <1>3, <2>1 DEF ExecuteOk, DataOK, tasks, history, stopping
  <2> QED
    BY <1>2, <2>2, TypePartsNext
<1>4. CASE ExecuteFail(t)
  <2>1. Landed(co[t].key, co[t].arg) \subseteq Ver /\ co[t].arg \in Ver \cup {Junk}
    BY <1>0 DEF Landed, DataOK, Coroutine
  <2>2. DataOK'
    BY <1>0, <1>1, <1>4, <2>1 DEF ExecuteFail, PushDb, DataOK, history, stopping
  <2> QED
    BY <1>2, <2>2, TypePartsNext
<1> QED
  BY <1>3, <1>4

LEMMA QueryTypes ==
    ASSUME TypeInv, NEW t \in Thread,
           \/ LookupMem(t) \/ LookupRedis(t) \/ QueryFail(t)
           \/ QueryDb(t) \/ FillRedis(t)
    PROVE  TypeInv'
<1>0. DataOK /\ SqTypeOK /\ CoOK /\ co[t] \in Coroutine /\ co[t].key \in Key
  BY TypeParts DEF CoOK, Coroutine
<1>1. {"redisGet", "flush"} \subseteq PcValues \ {"redisSet", "fill", "sql", "flushSql"}
  BY DEF PcValues
<1>2. CASE LookupMem(t)
  <2>1. Finish(t, TRUE) \/ Goto(t, "redisGet")
    BY <1>2 DEF LookupMem
  <2> QED
    BY <1>1, <1>2, <2>1, MoveTypes, QuietTypes DEF LookupMem
<1>3. CASE LookupRedis(t)
  <2>1. Finish(t, TRUE) \/ Goto(t, "flush")
    BY <1>3 DEF LookupRedis
  <2>2. DataOK'
    BY <1>0, <1>3 DEF LookupRedis, DataOK, tasks, history, stopping
  <2> QED
    BY <1>1, <2>1, <2>2, MoveTypes, TypePartsNext
<1>4. CASE QueryFail(t)
  BY <1>4, MoveTypes, QuietTypes DEF QueryFail
<1>5. CASE QueryDb(t)
  <2> DEFINE k == co[t].key
             r == [co[t] EXCEPT !.pc = "fill", !.arg = db[k]]
  <2>1. r \in Coroutine /\ r.pc = "fill" /\ r.arg \in Ver
    BY <1>0 DEF Coroutine, PcValues, DataOK
  <2>2. \/ co' = [co EXCEPT ![t] = r] /\ UNCHANGED sq
        \/ Finish(t, TRUE)
    BY <1>0, <1>5 DEF QueryDb, CoOK
  <2>3. DataOK'
    BY <1>0, <1>5 DEF QueryDb, DataOK, tasks, history, stopping
  <2> HIDE DEF r
  <2>4. SqTypeOK' /\ CoOK'
    <3>1. CASE co' = [co EXCEPT ![t] = r] /\ UNCHANGED sq
      BY <1>0, <2>1, <3>1, CoUpdate DEF sq, SqTypeOK
    <3> QED
      BY <2>2, <3>1, MoveTypes
  <2> QED
    BY <2>3, <2>4, TypePartsNext
<1>6. CASE FillRedis(t)
  <2>1. co[t].arg \in Ver
    BY <1>0, <1>6 DEF FillRedis, CoOK, LocalsOK
  <2>2. DataOK'
    BY <1>0, <1>6, <2>1 DEF FillRedis, DataOK, tasks, history, stopping
  <2> QED
    BY <1>6, <2>2, MoveTypes, TypePartsNext DEF FillRedis
<1> QED
  BY <1>2, <1>3, <1>4, <1>5, <1>6

\* Coroutines that start a request, a logout or a round of a timer, and the
\* steps of logout.
LEMMA StartTypes ==
    ASSUME TypeInv, NEW t \in Client, NEW o \in Ops, NEW k \in Key,
           Request(t, o, k) \/ Logout(t)
    PROVE  TypeInv'
<1>0. /\ DataOK /\ SqTypeOK /\ CoOK /\ t \in Thread
      /\ co[t] \in Coroutine /\ o \in AllOps
  BY TypeParts, ConfigAssumption DEF CoOK, Thread
<1>1. CASE Request(t, o, k)
  <2> DEFINE v == IF o \in {"update", "sendUpdate"} THEN issued + 1 ELSE Nil
             r == [co[t] EXCEPT !.pc = "begin", !.op = o, !.key = k, !.val = v]
  <2>1. v \in Ver /\ issued' \in Ver
    BY <1>0, <1>1, ConfigAssumption DEF Request, DataOK, Ver, Nil
  <2>2. co' = [co EXCEPT ![t] = r]
    BY <1>0, <1>1 DEF Request, CoOK
  <2>3. DataOK'
    BY <1>0, <1>1, <2>1 DEF Request, DataOK, stores, tasks, stopping
  <2> HIDE DEF v
  <2>4. r \in Coroutine /\ r.pc = "begin"
    BY <1>0, <2>1 DEF Coroutine, PcValues
  <2> HIDE DEF r
  <2> QED
    BY <1>0, <1>1, <2>2, <2>3, <2>4, CoUpdate, SqTypes, TypePartsNext DEF Request
<1>2. CASE Logout(t)
  <2> DEFINE r == [co[t] EXCEPT !.pc = "scan", !.op = "logout", !.todo = Key]
  <2>1. r \in Coroutine /\ r.pc = "scan"
    BY <1>0 DEF Coroutine, PcValues, AllOps
  <2>2. co' = [co EXCEPT ![t] = r]
    BY <1>0, <1>2 DEF Logout, CoOK
  <2> HIDE DEF r
  <2>3. CoOK' /\ SqTypeOK'
    BY <1>0, <1>2, <2>1, <2>2, CoUpdate DEF Logout, sq, SqTypeOK
  <2> QED
    BY <1>2, <2>3, QuietTypes DEF Logout
<1> QED
  BY <1>1, <1>2

LEMMA PopTypes ==
    ASSUME TypeInv, NEW k \in Key, DbPop(k) \/ RedisPop(k)
    PROVE  TypeInv'
<1>0. /\ DataOK /\ SqTypeOK /\ CoOK /\ DbTimer \in Thread /\ RedisTimer \in Thread
      /\ co[DbTimer] \in Coroutine /\ co[RedisTimer] \in Coroutine
  BY TypeParts DEF CoOK, Thread
<1>1. CASE DbPop(k)
  <2> DEFINE s == IF DbType = "mysql" /\ dbTask[k].named THEN Junk ELSE dbTask[k].stmt
             r == [co[DbTimer] EXCEPT !.pc = "execute", !.key = k, !.arg = s]
  <2>1. s \in Ver \cup {Junk}
    BY <1>0, <1>1 DEF DbPop, DataOK
  <2>2. co' = [co EXCEPT ![DbTimer] = r]
    BY <1>0, <1>1 DEF DbPop, CoOK
  <2> HIDE DEF s
  <2>3. r \in Coroutine /\ r.pc = "execute"
    BY <1>0, <2>1 DEF Coroutine, PcValues
  <2>4. DataOK'
    BY <1>0, <1>1 DEF DbPop, DataOK, stores, history, stopping
  <2> HIDE DEF r
  <2> QED
    BY <1>0, <1>1, <2>2, <2>3, <2>4, CoUpdate, SqTypes, TypePartsNext DEF DbPop
<1>2. CASE RedisPop(k)
  <2> DEFINE r == [co[RedisTimer] EXCEPT !.pc = "write", !.key = k, !.val = redisTask[k]]
  <2>1. redisTask[k] \in Ver
    BY <1>0, <1>2 DEF RedisPop, DataOK
  <2>2. co' = [co EXCEPT ![RedisTimer] = r]
    BY <1>0, <1>2 DEF RedisPop, CoOK
  <2>3. r \in Coroutine /\ r.pc = "write"
    <3>1. co[RedisTimer] \in Coroutine
      BY <1>0
    <3> QED
      BY <2>1, <3>1 DEF Coroutine, PcValues
  <2>4. DataOK'
    BY <1>0, <1>2 DEF RedisPop, PushRedis, DataOK, stores, history, stopping
  <2> HIDE DEF r
  <2> QED
    BY <1>0, <1>2, <2>2, <2>3, <2>4, CoUpdate, SqTypes, TypePartsNext DEF RedisPop
<1> QED
  BY <1>1, <1>2

LEMMA LogoutTypes ==
    ASSUME TypeInv, NEW t \in Thread,
           (\E k \in Key : LogoutModule(t, k)) \/ LogoutDone(t)
    PROVE  TypeInv'
<1>0. DataOK /\ SqTypeOK /\ CoOK /\ co[t] \in Coroutine /\ co[t].todo \in SUBSET Key
  BY TypeParts DEF CoOK, Coroutine
<1>1. ASSUME NEW k \in Key, LogoutModule(t, k) PROVE TypeInv'
  <2> DEFINE r == [co[t] EXCEPT !.pc = "begin", !.key = k, !.todo = co[t].todo \ {k}]
             s == [co[t] EXCEPT !.todo = co[t].todo \ {k}]
  <2>1. /\ r \in Coroutine /\ r.pc = "begin"
        /\ s \in Coroutine /\ s.pc = "scan"
    BY <1>0, <1>1 DEF LogoutModule, Coroutine, PcValues
  <2>2. \/ co' = [co EXCEPT ![t] = r] /\ Enter(t, k)
        \/ co' = [co EXCEPT ![t] = s] /\ UNCHANGED sq
    BY <1>0, <1>1 DEF LogoutModule, CoOK
  <2> HIDE DEF r, s
  <2>3. CoOK'
    BY <1>0, <2>1, <2>2, CoUpdate
  <2>4. SqTypeOK'
    <3>1. CASE UNCHANGED sq
      BY <1>0, <3>1 DEF sq, SqTypeOK
    <3> QED
      BY <1>0, <2>2, <3>1, SqTypes
  <2> QED
    BY <1>1, <2>3, <2>4, QuietTypes DEF LogoutModule
<1>2. CASE LogoutDone(t)
  <2>1. CoOK'
    <3>1. Resting.pc = "idle"
      BY DEF Resting
    <3> QED
      BY <1>0, <1>2, <3>1, RestingType, CoUpdate DEF LogoutDone
  <2>2. SqTypeOK'
    <3>1. PICK k \in Key : TRUE
      BY ConfigAssumption
    <3> QED
      BY <1>0, <1>2, <3>1, SqTypes DEF LogoutDone
  <2> QED
    BY <1>2, <2>1, <2>2, QuietTypes DEF LogoutDone
<1> QED
  BY <1>1, <1>2

\* Cache eviction and stop.
LEMMA OtherTypes ==
    ASSUME TypeInv,
           (\E k \in Key : ClearCache(k)) \/ ClearRedis \/ Stop \/ StopDone
    PROVE  TypeInv'
<1>0. DataOK /\ SqTypeOK /\ CoOK
  BY TypeParts
<1>1. SqTypeOK' /\ CoOK'
  BY <1>0 DEF ClearCache, ClearRedis, Stop, StopDone, sq, SqTypeOK, CoOK, LocalsOK
<1>2. DataOK'
  <2>1. ASSUME NEW k \in Key, ClearCache(k) PROVE DataOK'
    BY <1>0, <2>1, Constants DEF ClearCache, DataOK, tasks, history, stopping
  <2>2. CASE ClearRedis
    BY <1>0, <2>2, Constants DEF ClearRedis, DataOK, tasks, history, stopping
  <2>3. CASE Stop
    BY <1>0, <2>3 DEF Stop, DataOK, stores, tasks, history
  <2>4. CASE StopDone
    BY <1>0, <2>4 DEF StopDone, DataOK, stores, tasks, history
  <2> QED
    BY <2>1, <2>2, <2>3, <2>4
<1> QED
  BY <1>1, <1>2, TypePartsNext

LEMMA InitTypes == Init => TypeInv
<1> SUFFICES ASSUME Init PROVE TypeInv
  OBVIOUS
<1>1. DataOK
  <2>1. 0 \in Ver
    BY ConfigAssumption DEF Ver
  <2> QED
    BY <2>1, Constants DEF Init, DataOK
<1>2. SqTypeOK
  BY DEF Init, SqInit, SqTypeOK
<1>3. CoOK
  <2>1. Resting.pc = "idle"
    BY DEF Resting
  <2> QED
    BY <2>1, RestingType DEF Init, CoOK, LocalsOK
<1> QED
  BY <1>1, <1>2, <1>3, TypeParts

LEMMA NextTypes == TypeInv /\ [Next]_vars => TypeInv'
<1> SUFFICES ASSUME TypeInv, [Next]_vars PROVE TypeInv'
  OBVIOUS
<1>1. ASSUME NEW t \in Thread, Step(t) PROVE TypeInv'
  BY <1>1, RedisTaskTypes, WriteTypes, DbTaskTypes, ExecuteTypes, QueryTypes, LogoutTypes
     DEF Step
<1>2. ASSUME NEW t \in Client, NEW o \in Ops, NEW k \in Key, Request(t, o, k)
      PROVE  TypeInv'
  BY <1>2, StartTypes
<1>3. ASSUME NEW t \in Client, Logout(t) PROVE TypeInv'
  <2>1. PICK k \in Key : TRUE
    BY ConfigAssumption
  <2>2. "logout" \in Ops
    BY <1>3 DEF Logout
  <2> QED
    BY <1>3, <2>1, <2>2, StartTypes
<1>4. ASSUME NEW k \in Key, DbPop(k) \/ RedisPop(k) \/ ClearCache(k) PROVE TypeInv'
  BY <1>4, PopTypes, OtherTypes
<1>5. CASE ClearRedis \/ Stop \/ StopDone
  BY <1>5, OtherTypes
<1>6. CASE UNCHANGED vars
  <2>1. UNCHANGED <<stores, tasks, history, stopping>> /\ UNCHANGED sq /\ UNCHANGED co
    BY <1>6 DEF vars
  <2>2. SqTypeOK' /\ CoOK'
    BY <2>1, TypeParts DEF sq, SqTypeOK, CoOK, LocalsOK
  <2> QED
    BY <2>1, <2>2, QuietTypes
<1> QED
  <2>1. CASE Next
    BY <1>1, <1>2, <1>3, <1>4, <1>5, <2>1 DEF Next
  <2> QED
    BY <1>6, <2>1

\* The variables keep their types, and a coroutine's locals fit the call it is
\* suspended in (what TypeOK needs to be inductive).
THEOREM TypeInvariant == Spec => []TypeInv
  BY InitTypes, NextTypes, PTL DEF Spec

\* Every variable of the player data centre keeps its type: in particular no
\* store is ever given the mark of an empty task list or a statement the
\* database would reject, whatever fails and whoever drops a serial queue.
THEOREM DataTypeOK == Spec => []TypeOK
<1>1. TypeInv => TypeOK
  BY DEF TypeInv
<1> QED
  BY <1>1, TypeInvariant, PTL
================================================================================
