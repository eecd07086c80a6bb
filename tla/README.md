# A TLA+ model of sncpp: the skynet scheduler and timer, serial queues, the player data centre and player sessions

sncpp is a game-server framework on skynet. A game server, a login server and a
global server each run many skynet services: a service is a single Lua state
that runs coroutines cooperatively, one per message. A coroutine runs without
interruption until it suspends (`skynet.call`, `skynet.sleep`, `skynet.wait`);
what goes wrong in the Lua code goes wrong because something else ran while a
coroutine was suspended. Its modules model exactly that: an action is what one
coroutine does from one suspension to the next. Below Lua, the skynet node runs
services on several worker threads; in the modules of that part an action is what
a thread does under one lock or with one atomic operation.

## Inventory

| Component | State | Operations | What makes it correct | Modelled |
|---|---|---|---|---|
| message queues and dispatch (`skynet-src/skynet_mq.c`, `skynet_server.c`, `skynet_start.c`) | the global queue, a queue and a context per service, reference counts, sleeping workers | send, dispatch, launch, kill, abort, free, sleep, wake, quit | one owner per queue, one thread per service, order per sender, nothing used after it was freed, the node comes to rest and ends | `SkynetDispatch` |
| timer (`skynet-src/skynet_timer.c`) | tick counter, near array, four levels | timeout, shift, dispatch | every timeout fires once, in its tick, in the order set | `SkynetTimer` |
| handle table (`skynet-src/skynet_handle.c`) | slots, `handle_index`, names | register, retire, grab, name | a handle finds its service or none | as a set, in `SkynetDispatch` |
| `skynet.queue` (`framework/skynet/lualib/skynet/queue.lua`) | `current_thread`, `ref`, `thread_queue` | call, nested call, release, wake-up | one at a time, first come first served, the assertion holds, everybody is served | `SkynetQueue`, `SerialQueue` |
| sq table (`playerDataCenter.getSq/delSq`, the same in `serviceCenterBase2`) | one queue per id | get or create, delete | calls on one id are serial | `SqTable` |
| `filterList` | at most one task per key, ordered by time | push, remove, pop, get, has, count | the newest task of a key survives | in `PlayerData` |
| player data centre (`playerDataCenter.lua`) | `redisTask`, `dbTask`, `sq`, `stoping`, `stoped` | query, update, sendUpdate, delete, sendDelete, the two task timers, logout, stop | no accepted write is lost, no store goes back, logout and stop leave nothing behind, every request ends | `PlayerData` |
| player data cache (`playerDataCache.lua`) | memory cache, expiry sets, the redis hash | query, update, delete, two evictions | memory and redis agree | in `PlayerData` |
| `dbWrap` (`mongodbWrap.lua`, `mysqlWrap.lua`) | - | query, four writes, `executeSqlSafe` | a failed statement is queued again | in `PlayerData` |
| data timer (`playerDataTimer.lua`) | armed timers, reconnect flags | arm, fire, reconnect | timers are armed again; a lost connection comes back | timers in `PlayerData`; flags no |
| data library (`playerDataLib.lua`) | - | sharding by hash over eight services, kid lookup, migration | a logout reaches every shard that has data | no |
| agent pool (`agentPool/`) | cells per uid, `agentNum`, migration locks | login, checkin, afk, logout, callAgent, timers | one agent per player, the count is right | checkin and afk, in `PlayerSession` |
| gate (`gate/gateCenter.lua`) | `uidMap`, `usernameMap`, `connection`, `handshake`, sq | open, auth, login, afk, logout, close | an old session's afk never ends a newer one | all but logout, in `PlayerSession` |
| login master/slave (`app-loginserver/.../login/`) | `userOnline`, `aliveList` | accept, logout, register | `userOnline` tells who is on line | accept and logout, in `PlayerSession` |
| agent and player | agent state, modules | login, afk, logout, free | an answer or request carries the session it is about | message order and `subid`, in `PlayerSession` |
| mail, march queue, maps, search, aoi, rank, event, cache, alliance, chat | tables per service | gameplay | - | no: data more than protocol (mail and march queue are later candidates) |
| redis and database services, logging, alerts, elastic search, translation, web | connections | I/O | - | no: pure I/O |
| harbor (`skynet-src/skynet_harbor.c`, `service-src/service_harbor.c`), a service of every node: `harbor = 0` in all configs, `bootstrap.lua` starts `cdummy`, `cdummy.lua` launches it | `REMOTE`, a reserved context that the total does not count | start, send, pass on, exit | the pointer is valid until the threads have ended, and does not keep the node up | in `SkynetDispatch`; its connections no |
| skynet monitor, sockets, modules; native libraries | - | - | - | no: see Not modelled |

How they interact. A client logs in at the login master, which calls the gate of
the player's game server; the gate calls the agent pool, which starts an agent
service; the agent's modules read and write through `playerDataLib`, which
chooses one of eight data-centre services. A data centre serialises the requests
on one (player, module) pair by an sq, keeps memory and the local redis in step,
and writes the database at once (`update`, `delete`) or later (`sendUpdate`,
`sendDelete`). What fails is put into one of two task lists that timers drain.

The agent answers client requests that the gate redirects to it; going away
starts at the client, at the socket, at the login master (a second login) or at a
timer, and runs through gate, login master, pool and agent under two queues, the
gate's for the player and the pool cell's.

All of them are services of one skynet node (the login master of another): their
messages go through `skynet_mq.c`, their timeouts through `skynet_timer.c`.

What is hard here: every `skynet.call` is a suspension; timers pop a task before
they have the sq of its key; redis and the database may fail before or after they
applied a write; a failed write re-enters a task list that may have moved on;
logout drops queues that may be in use; stop races with the timers. The hazards
in `PROJECT.json` give the lines. In the node itself, a service's context and its
queue are freed by whichever thread comes last, a queue must have exactly one owner
among the global queue, the workers and a launch, and the timer thread dispatches
without its lock.

## Modules

- `SkynetDispatch` (with `MCSkynetDispatch`, which gives the workers their weights)
  - the scheduler. `pc` is the program counter of each worker and of the timer
  thread; the functions that several callers share (`skynet_context_push`,
  `skynet_context_release` with `delete_context`) are called through `obj` and
  `ret`, an argument and a return label. A handle stands for the service, its
  context and its queue: `slot` is the handle table, `ref` the count of the
  context, `mq`, `in_global` and `release` the fields of the queue, `freed` what
  `_release` has freed. `REMOTE` is the pointer to the harbor service of
  `skynet_harbor.c`, which holds a reference, and `reserved` the context that
  `skynet_context_reserve` took out of the total; it stays so after `REMOTE` is gone.

  | Actions | Code |
  |---|---|
  | `Release`, `MarkRelease`, `ContextDec` | `skynet_context_release`, `delete_context` |
  | `PushGrab`, `MqPush` | `skynet_context_push` |
  | `Loop`, `Sleep`, `Wake`, `SpuriousWake` | `thread_worker` |
  | `GlobalPop`, `Grab`, `MqPopMessage`, `MqPopEmpty`, `MqLength`, `CallbackReturn`, `SwapPop`, `SwapPush` | `skynet_context_message_dispatch` |
  | `MqRelease`, `Drop`, `DropEnd` | `skynet_mq_release` |
  | `Send`, `Kill`, `Launch`, `InitSend`, `InitEnd`, `LaunchSetInit`, `LaunchEnqueue`, `LaunchRetire` | what a callback may do: `skynet_send`, `handle_exit`, `skynet_context_new` |
  | `HarborStart` | `skynet_harbor_start` with `skynet_context_reserve`, at the end of the harbor's init |
  | `HarborSend`, `HarborForward` | `skynet_harbor_send`, by any service; the harbor passing a message on in the name of its source (`remote_send_handle`) |
  | `TimerPush`, `TimerWakeup`, `TimerQuit` | `thread_timer` |
  | `HarborExit`, `Exit` | `skynet_start` after the threads: `skynet_harbor_exit` and the end |

- `SkynetTimer` - the timing wheel, with the shifts and the number of levels as
  constants. `wheel` maps `<<level, index>>` to a list, `near` being level 0.
  `SlotOf` is `add_node`, `MoveList` with `GoingTo` and `Subsequence` is `move_list`,
  `Cascade` is `timer_shift`;
  `TimerUpdate`, `Dispatch` and `Relock` are `timer_update` and `timer_execute`, cut
  where the lock is given up. `left` and `older` are history variables: the ticks
  until a timeout is due and the pending timeouts of its tick that were set first.
- `PlayerSession` - one player at the login master, the gate, the pool and the
  agent, over `SqTable`. A thread is a chain of synchronous calls that starts in
  `accept`, in a client request or at a socket; `at` says in which call it is.
  `AfkFirst`, `LoginFirst` and `DisconnectFirst` are the handlers up to their first
  suspension, where all tests are made; `MasterLogout`, `PoolCall`, `CellAfk`,
  `CellCheckin`, `Agent` and `CellAnswer` are the calls that follow, and `CloseInSq`,
  `LoginEnter`, `LoginFail`, `DisconnectLast` the ends. `ended` is a history variable.

- `SerialQueue` - the abstract specification: a line of coroutines; newcomers
  join at the end, only the head leaves.
- `SkynetQueue` - `queue.lua`. The variables carry the names of the upvalues.
  `CallFree`, `CallBusy` and `CallNested` are the three ways through the returned
  function, `Resume` is the part after `skynet.wait()`, `Release` is `xpcall_ret`
  with `HandOver` for the case that `ref` reaches zero. `woken` holds coroutines
  that `skynet.wakeup` has put into the scheduler's queue. A function that fails
  releases like one that returns. Refinement: `line` is the holder followed by
  `thread_queue`.
- `SqTable` - queues by id, on top of what `SerialQueue` promises. A queue deleted
  while in use goes on as an orphan next to a fresh queue of the same id.
- `PlayerData` - one data-centre service with the modules (`Key`) of one player.
  `co[t].pc` names the call in which coroutine `t` is suspended:

  | pc | suspended in | continued by |
  |---|---|---|
  | begin | waiting for the sq, or the kid lookup | `CheckRedisTask` |
  | isRedisAlive | `dealRedisTask`'s `isRedisAlive` | `DealRedisTask`, `SkipRedisTask` |
  | write | about to enter `dbWrap` (the redis timer waits for the sq here) | `StartWrite` |
  | redisSet | `redisType.set/del` | `RedisSetOk`, `RedisSetFail` |
  | dealDbTask, flush | `isDbAlive` in `dealDbTask`, inside a write / inside query or logout | `NoDbTaskDue`, `DealDbTaskMongo`, `DealDbTaskMysql` |
  | sql, flushSql | `executeSqlSafe(task.sql)` of `dealDbTask` | `EarlySqlOk`, `EarlySqlFail` |
  | execute | `executeSqlSafe` of the write itself, or of `onDealDbTask` | `ExecuteOk`, `ExecuteFail` |
  | lookup, redisGet, dbQuery, fill | query: caches, database, filling redis | `LookupMem`, `LookupRedis`, `QueryDb`, `QueryFail`, `FillRedis` |
  | scan | logout, between two modules | `LogoutModule`, `LogoutDone` |

  Both databases are modelled, with what their wrappers really do: a mongodb task
  has no `sql` field, so `dealDbTask` drops it; mongodb's `delete` answers nothing
  and hence counts as failed; `mongodbWrap.update` raises an error after a
  successful write because it indexes a boolean; `queryResultPack` finds no rows
  in mongodb's single document; a mysql task queued by `sendUpdate` makes
  `onDealDbTask` send its `cmd` word as the statement (`Junk`), which the database
  rejects.
- `SkynetQueueProofs`, `PlayerDataProofs`, `PlayerDataCoherence`,
  `PlayerDataWriteBehind` - the proofs.

Definitions whose comment starts with "A fault" are the mutated forms
`PROJECT.json` lists; no specification uses them.

### Abstractions

`SkynetDispatch`: a message is its number and its source. A handle is used once
(the index has 2^24 values). Registering a context, creating its queue and
counting it are one step: nobody knows the handle before. A queue is a sequence;
the ring buffer and its growth are not visible outside the lock. The socket
thread pushes as the timer thread does. A service without callback, the overload
warning and the monitor's trigger change nothing that the properties see. Of the
harbor, what it does to the scheduler is modelled: the grab and the `context_dec` of
`skynet_context_reserve` are one step, because the launching thread has a reference to
the context and the service that launches it is counted; the harbor kills and launches
nobody and there is one per node (`reserved` is set once); a send through `REMOTE`
happens after it is set, which the code asserts. A message that the harbor passes on
has no number, like an error: what a service sends by way of the harbor may be
overtaken by what it sends itself. `UsedContexts` leaves out one read of a context,
`cmd_launch`'s of `inst->handle` right after the launch, which `NoUseAfterFree` names
as an exception together with `LaunchSetInit`.

`SkynetTimer`: a timeout is its session. Time zero or less is sent at once and does
not enter the wheel. The clock, its steps backwards included, is the choice of how
many ticks `skynet_updatetime` makes up for.

`PlayerSession`: one player, one login node, one gate. A username is its subid.
`secret`, `version` and the hmac are the choice whether `Auth` succeeds. Calls of
the login node reach the gate in order (one cluster connection); its answers and
the gate's calls to the login master are not ordered with them. A message from the
agent to the gate is queued at once. Bringing an agent up is the first `checkin`, or
fails; the cell's tests for another uid or kid and for its status in `checkin` then hold,
and are left out. `disconnectHandler` inside `close(fd, tag, true)` never finds its session,
since its callers have cleared `u.fd` or the username.

`PlayerData`:

- Data is a version number: the n-th accepted client write is n, a delete is 0.
  `latest` and `issued` are history variables.
- The player belongs to this kingdom: no migration, no cross-kingdom query. The
  kid lookup is one more suspension at `begin` under the sq.
- A failing redis or database call, the reconnect attempt and the push of the
  task that follow it are one step.
- In a mongodb `dealDbTask` the removal of the task and the call that fails for
  want of a command are one step.
- Eviction may come at any time, a pop may take any task, the timers may pop
  whether or not the keepalive before the round succeeded, and may do so after
  stop: each allows more than the code does. One `DbPop` or `RedisPop` is one
  round of the loop in `onDealDbTask` or `onDealRedisTask`.
- `CheckRedisTask` and `StartWrite` of a write without a due redis task are one
  run of the code. What others do between them commutes with one of the two, so
  the split adds no outcome.
- `onTimerClearSq` is taken to meet idle queues only (its deadline is five
  minutes after the last `getSq`); deleting an idle queue changes nothing.
- Logout covers the modules that live on the service it reaches.
- Tables without `columns`, the `custom` conditions and the SQL text are left out.

## Runs

| Run | Instance | Shows |
|---|---|---|
| `skynet_queue` | 4 coroutines, 2 nested calls each | types, mutual exclusion, the assertion, refinement of `SerialQueue`, every waiter is served |
| `pd_async` | 2 keys, 2 clients, 4 versions, sendUpdate on mongodb, no faults | `NoLostUpdate`, `DbMonotone`, `RedisMonotone`, `DbConverges` |
| `pd_faults` | 1 key, 2 clients, 2 versions, all reads and writes on mysql, all faults | `TypeOK`, `CacheCoherent` |
| `pd_lifecycle` | 1 key, 2 clients, 1 version, logout and stop on mongodb, all faults | `RequestsReturn` |
| `skynet_dispatch` | 2 workers (weights -1 and 0), the timer thread, 2 services, of which one is launched later as an ordinary service or as the harbor, 2 messages | `RefCounted`, `OwnedOnce`, `OneThreadPerService`, `InitFirst`, `NoUseAfterFree`, `TurnsCovered`, `InOrder`, `QuitWhenDead`, `ComesToRest`, `Terminates` |
| `skynet_timer` | 4 levels above near, 1 bit each, 2 timeouts at a time, up to 2 ticks at once; every start value | `OnTime`, `InPlace`, `Once`, `SetOrder`, `NoneLost`, `Fires` |
| `player_session` | violation: 2 logins, 1 client connection, 1 request | an afk of the first session ends the second |
| `pd_serial` | violation | requests on one key overlap after a logout deleted the queue |
| `pd_stop` | violation | stop reports "stopped" with a database task queued |
| `pd_db_rollback` | violation | a popped task overwrites a newer synchronous update |
| `pd_redis_rollback` | violation | a redis task of the same kind is replayed over a newer write |
| `pd_logout` | violation | logout drops a mongodb task instead of writing it |

Bounds. Four coroutines give a holder, a woken one and two waiters whose order can
be confused; two nested calls tell counting from setting. Two clients and the two
timers put up to four coroutines on one key. Two versions are the least that can
be in the wrong order; four versions on two keys let both tasks of a key and both
keys be pending at once. `MaxVer` and `MaxNested` are the only cut-offs there.

`skynet_dispatch`: two workers are the least that can meet on a queue, the timer
thread is a third sender; with two services one can be launched, killed and freed
while the other sends to it, and a service can kill or launch while it is being
killed. Two numbered messages give an order to confuse; the messages of init and
the errors of dropped queues come on top. One worker takes one message per turn, the
other all, the two cases of the loop. The second service may be the harbor: it is sent
to through `REMOTE` while it is killed, dispatched or freed, and left when the first one
is gone and the node ends. `MaxHandle` and `MaxMsg` are the cut-offs.

`skynet_timer`: with one bit per level the counter has 32 values and every tick
cascades, through all levels and the wrap; delays go up to half the range, as
positive ints do. The run has no cut-off in time: sessions are used again. The slot
of the current tick is never found filled when the lock is taken (second half of
`OnTime`), so the code's "timeout 0 (rare condition)" branch is dead; it is in the
model, and never taken. That holds for all shifts (`DueEmpty` in `SkynetTimerProofs`).

`pd_async` and `player_session` turn deadlock checking off: in `pd_async`, once the clients have used up their
versions and everything is drained and evicted, the service is idle, and in
`player_session` the player may stay online.

The six violations are disagreements between comments in the source and what the
code does; `PROJECT.json` quotes the lines. The counterexamples in `PlayerData` are
6 to 13 states long. The one in `PlayerSession` has 31: the first session's socket
closes; while the gate is busy with that, the player logs in again and the login
waits in the gate's queue; the agent, which had a reqAfk of the first session in its
queue, sends the gate an afk with the first subid, which waits behind the login;
the login succeeds, and the afk removes the session it made. The action properties among them are checked under `FairSpec`.

### Fairness

`SkynetDispatch`: weak fairness on each worker and on the timer thread, because the
kernel runs every thread and every callback returns, and on the main thread's
`HarborExit` after them; spurious wakeups are allowed and not relied on. A killed
harbor's queue goes round among the workers until the node ends, because `REMOTE`
keeps its context: `ComesToRest` excepts it. `skynet_mq_push` signals nobody: that a message is handled
although its push came right after a worker's last look rests on the timer thread's
wakeup. `SkynetTimer`: the clock goes on and the timer thread runs.

`SkynetQueue`: a woken coroutine is resumed (skynet's scheduler drains its wake-up
queue) and every function passed to a queue ends. `PlayerData`: weak fairness on
the steps of every coroutine, because each call returns or raises; on the two
pops until the service has stopped, because `playerDataTimer` arms its timers
again after every round, failed or not; and on the loop in stop. Clients, logouts
and evictions are under no obligation, and neither success nor failure of a call
is fair: `RequestsReturn` holds however often redis and the database fail.

## Proofs

The theorems hold for every value of the constants, from the named assumptions of
the modules and nothing else: `SkynetQueue` (`None` is no coroutine), `PlayerData` (the
timers are distinct coroutines, the configuration constants have their types; keys
and coroutines may be infinite sets), `DispatchAssumption` (finitely many workers, at
least one, the timer thread is none of them, weights from -1 up, at least one boot
service) and `TimerAssumption` (positive shifts, at least one level; the 8, 6 and 4
of `skynet_timer.c` are one case). Every safety property of the passing runs is the
statement of a theorem, some under conditions on the operations, given below.

- `SkynetQueueProofs`: `QueueTypeOK`, `QueueExcludes`, `QueueAssert`,
  `QueueImplementsSerial`. The inductive invariant `QueueInv` adds to the types that
  the holder's depth is `ref` (`HolderInv`), that a free queue is empty (`FreeInv`),
  that during a hand-over the woken coroutine is `current_thread` and `ref` is zero
  (`WokenInv`), and that `thread_queue` lists distinct suspended coroutines
  (`WaitersInv`). `WokenInv` is what closes the gap between wake-up and resumption.
- `PlayerDataProofs`: `DataTypeOK`, for all operations, faults and both databases.
  `TypeOK` alone is not inductive: a coroutine about to write redis must carry a
  version and not `Junk` (`LocalsOK`).
- `PlayerDataCoherence`: `CachesAgree`, under the condition that there is no logout.
  `CohInv` says that there are no orphan queues, that whoever is writing, or has
  missed redis in a query, holds the sq of its key, that redis stays empty during
  the rest of such a query, and that memory holds the value being written unless it
  was evicted. The condition is needed: a logout may delete the queue under a
  query, and mutual exclusion on the key is gone (`pd_serial`).
  `SerialWithoutLogout` is the other side of that run: without logouts calls on one
  key do not overlap, whatever fails.
- `PlayerDataWriteBehind`: `WriteBehindLosesNothing`, `WriteBehindDbMonotone`,
  `WriteBehindRedisMonotone`, under `AsyncOnly` (sendUpdate and stop on mongodb, no
  faults). The argument: versions get older along the path client, `dbTask`,
  timer, database (`Ages`); the line of a key orders its clients by version
  (`Places`), which is where the first-come-first-served promise of the queue
  comes in; the newest version is at exactly one place (`Carried`). With
  synchronous updates the claim is false (`pd_db_rollback`), with redis faults too
  (`pd_redis_rollback`), hence the conditions.
- `SkynetDispatchProofs`: `TypeCorrect`, `CountsExact` (`RefCounted`), `QueueOwnedOnce`
  (`OwnedOnce`), `RunsAlone` (`OneThreadPerService`) and `NothingFreedIsUsed`
  (`NoUseAfterFree`), all from `Inductive`: `DispatchInv` is an invariant. Its parts:
  - `PcInv`, `WorkerInv`: at each place of the code, through the shared calls too,
    the registers hold what the code there relies on; without it the counts below
    could not be told from the program counters;
  - `RefCounted`: the count of a context is the number of references that the table,
    `REMOTE` and the threads have; `OwnInv`: a queue that is queued, taken or marked has exactly
    one owner, any other none. `OwnedOnce` alone is not inductive: a queue that nobody
    has must be one that the next push, and only it, puts into the global queue;
  - `DeleteInv`: one thread deletes a context, after its last reference; a queue is
    dropped after that; `MessageInv`: a queue with messages has an owner;
    `FreshInv`: a handle not yet given has nothing; `TotalInv`: `G_NODE.total` counts
    the contexts in use and those being deleted, less one when one is reserved.

  The argument is by counting. A step is one thread's, so the sizes of the sets that
  `RefCounted` and `OwnInv` add up change by what this thread gains or loses (`CountStep`
  and the lemmas on `Held` and `Owned`); each action then owes an equation between
  numbers of at most two.
- `SkynetDispatchOrder`, on top of it: `InitBeforeMessages` (`InitFirst`) from `ReadyInv`
  (a service in the table without its init flag is still with the thread that
  launches it); `QuitsWhenDead` (`QuitWhenDead`) from `QuitInv` (after quit only
  the reserved context is in use and none is being deleted) and `HarborInv` (`REMOTE`
  keeps the reserved context while a thread runs, so that a total of zero leaves exactly
  it, and it is not deleted under the last workers); `TurnsAreCovered`
  (`TurnsCovered`) from `TurnInv` (only the worker that has the queue takes from it,
  by `OwnInv`); `MessagesInOrder` (`InOrder`) from `FlightInv` and `OrderInv` (messages
  of one source stand in the order of their numbers, before the one the source is
  pushing). The order rests on `OneThreadPerService`: a service that ran in two threads
  could have two messages under way.
- `SkynetTimerProofs`: `TimerTypes`, `NodesInPlace` (`InPlace`), `FiresOnTime` (`OnTime`)
  from `TimerInductive`; `InOneList` (`Once`) and `DispatchedInOrder` (`SetOrder`) from
  `ListsInductive`; `TimeoutsKept` (`NoneLost`). `TimerInv` says that a node of the wheel
  expires when its timeout has run out (`DueInv`), that it stands where the coming
  ticks will look (`PlaceInv`), and that a list being dispatched has run out (`RunOut`).
  `InPlace` is the condition between ticks; the proof needs it in the middle of a tick
  too, where the nodes of the carried level come down (`Arrived`). The argument:
  the counter in the mixed radix of the levels, its digits as remainders of iterated
  quotients; a tick changes the digits up to the level of its carry, and the cascade
  of `timer_shift` visits exactly the slot whose nodes agree with the new time above
  it; the wrap is the case of the last level. `ListInv` adds that timeouts of one tick
  always share a slot, because a right place is unique (`PlacedUnique`), so that
  moving lists in order cannot let one overtake another. The provers have no induction
  over data, so powers of two are handled as sizes of power sets and induction over
  levels as a least counterexample (`Least`). `move_list` is written with
  `Subsequence` (the elements at given positions, by rank) and not with `SelectSeq`,
  whose operator argument the provers cannot instantiate.

`CohInv`, `WriteInv`, `DispatchInv` with the parts of `SkynetDispatchOrder`, `TimerInv`
and `ListInv` were model-checked (on the instances of the runs; the timer's with three
levels and three timeouts) before they were proved.

Only model-checked: the liveness properties (`WaiterServed`, `DbConverges`,
`RequestsReturn`, `ComesToRest`, `Terminates`, `Fires`), because fairness and ENABLED are
out of the prover's reach, and the violations, each of which is one counterexample.
`TimeoutsKept` with `FiresOnTime` is what can be proved of `Fires`: a timeout stays until
it is dispatched, and is dispatched at its tick, if the ticks come.

## Not modelled

- Agent pool: logout, safeFree, callAgent and sendAgent, the link timeout and the
  migration lock; gate: logout. The hazards name what is known to go wrong there: a
  deadlock between safeFree and a login, and a link timeout applied to a later
  session.
- Player data: migration to another kingdom, the eight shards, the reconnect flags.
- skynet: the hash slots of the handle table and their expansion, service names, the
  ring buffer, the monitor (it only warns), the socket server (I/O; it
  reaches the scheduler by the same push as the timer thread), the harbor's connections
  to other nodes and its names, module loading.
- Gameplay services (mail, march queue, maps, rank, alliance, chat) are tables and
  data formats more than protocols. Logging, alerts, databases, web are I/O.
- Most of the repository's lines are vendored or generated (protobuf, lua, json,
  tolua++, lookup tables, libfaketime).

## Plan

Done: `SkynetQueue`, `SqTable`, `PlayerData`, because every service stands on the
queue and every gameplay module on the data centre; then the node below them,
`SkynetDispatch` and `SkynetTimer`, and `PlayerSession`, which composes login
master, gate, pool and agent.

All safety properties of the passing runs are proved.

Next: gate logout and safeFree in `PlayerSession` with a passing run of their own, and
coherence of `PlayerData` with logouts restricted to idle players.

Further ahead: the reconnect flags, the mysql `cmd` loop, re-queued statements and
deletes on mongodb as runs of their own, and logout over two shards.
