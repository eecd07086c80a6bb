--------------------------- MODULE SkynetDispatch ---------------------------
(***************************************************************************)
(* The message scheduler of the skynet node (skynet-src): the global queue *)
(* of services that have work, one message queue and one reference-counted *)
(* context per service, the worker threads that take a service's queue,    *)
(* run its callback and give the queue back, and the timer thread that     *)
(* pushes messages, wakes sleeping workers and ends the node.  One service *)
(* may be the harbor, whose context is reserved: it outlives the threads.  *)
(*                                                                         *)
(* A step is what a thread does under one lock or with one atomic          *)
(* operation.  pc says where a thread is; obj, msg and ret are the         *)
(* argument registers and the return address of the calls that a thread    *)
(* makes into skynet_context_push and skynet_context_release.  A handle is *)
(* used for one service only: the handle index runs through 2^24 values    *)
(* before it comes back to one.                                            *)
(***************************************************************************)
EXTENDS Integers, Sequences, FiniteSets

CONSTANTS
    Worker,    \* the worker threads
    Timer,     \* the timer thread; the socket thread pushes as it does
    Weight,    \* the dispatch weight of each worker
    NBoot,     \* the services launched before the threads start
    MaxHandle, \* bound: services ever launched
    MaxMsg     \* bound: messages sent by services and by the timer

ASSUME DispatchAssumption ==
    /\ IsFiniteSet(Worker) /\ Worker # {} /\ Timer \notin Worker
    /\ Weight \in [Worker -> Nat \cup {-1}]
    /\ NBoot \in Nat \ {0} /\ MaxHandle \in Nat /\ NBoot <= MaxHandle
    /\ MaxMsg \in Nat

VARIABLES
    globalmq,   \* Q: the queues that wait for a worker
    mq,         \* the messages of each queue
    in_global,  \* the queue is in globalmq, or a worker has it
    release,    \* the queue's context was deleted
    freed,      \* the queues that were freed
    handle_index, \* the handle that the next service gets
    slot,       \* the handles in the handle table
    ref,        \* reference count of each context
    init,       \* the contexts whose init flag is set
    total,      \* G_NODE.total, the number of contexts
    quit,       \* monitor.quit
    REMOTE,     \* skynet_harbor.c's pointer to the harbor service
    reserved,   \* the context that total does not count, or NoHandle
    sent,       \* messages sent so far
    pc, ret,    \* where a thread is, and where its call returns to
    obj,        \* the context a thread pushes to or releases
    msg,        \* the message a thread pushes
    q, ctx,     \* the queue a worker has, and the context it grabbed for it
    left,       \* further iterations of the dispatch loop
    child       \* the service a worker is launching

mqVars     == <<globalmq, mq, in_global, release, freed>>
ctxVars    == <<handle_index, slot, ref, init, total>>
nodeVars   == <<quit, REMOTE, reserved>>
callVars   == <<ret, obj, msg>>
workerVars == <<q, ctx, left, child>>
vars == <<mqVars, ctxVars, nodeVars, sent, pc, callVars, workerVars>>

Thread  == Worker \cup {Timer}
Handle  == 1..MaxHandle
NoHandle == 0   \* also the source of a message that no service sent
Message == [id : 0..MaxMsg, src : Handle \cup {NoHandle}]

NoMessage == [id |-> 0, src |-> NoHandle]

\* The handles that were given to a service so far.
Launched == 1..(handle_index - 1)

\* skynet_start launches the logger and the bootstrap service, each with its
\* queue in the global queue, before it starts the threads; bootstrap, a snlua
\* service, has sent itself its first message.
Init ==
    /\ globalmq = [i \in 1..NBoot |-> i]
    /\ mq = [h \in Handle |-> IF h = NBoot THEN <<[id |-> 0, src |-> h]>> ELSE <<>>]
    /\ in_global = [h \in Handle |-> h <= NBoot]
    /\ release = [h \in Handle |-> FALSE]
    /\ freed = {}
    /\ handle_index = NBoot + 1
    /\ slot = 1..NBoot
    /\ ref = [h \in Handle |-> IF h <= NBoot THEN 1 ELSE 0]
    /\ init = 1..NBoot
    /\ total = NBoot
    /\ quit = FALSE
    /\ REMOTE = NoHandle /\ reserved = NoHandle
    /\ sent = 0
    /\ pc = [t \in Thread |-> IF t = Timer THEN "tick" ELSE "loop"]
    /\ ret = [t \in Thread |-> "loop"]
    /\ obj = [t \in Thread |-> NoHandle]
    /\ msg = [t \in Thread |-> NoMessage]
    /\ q = [w \in Worker |-> NoHandle]
    /\ ctx = [w \in Worker |-> NoHandle]
    /\ left = [w \in Worker |-> 0]
    /\ child = [w \in Worker |-> NoHandle]

Goto(t, l) == pc' = [pc EXCEPT ![t] = l]

\* t calls a function on context h and continues at l when it returns.
Call(t, f, h, l) ==
    /\ Goto(t, f)
    /\ obj' = [obj EXCEPT ![t] = h]
    /\ ret' = [ret EXCEPT ![t] = l]

\* The call returns, to l; its registers are dead.
Return(t, l) ==
    /\ Goto(t, l)
    /\ obj' = [obj EXCEPT ![t] = NoHandle]
    /\ ret' = [ret EXCEPT ![t] = "loop"]
    /\ msg' = [msg EXCEPT ![t] = NoMessage]

-----------------------------------------------------------------------------
(* skynet_context_release and delete_context                               *)

\* A fault: the count is taken down without looking for its end.
ReleaseNeverDeletes(t) ==
    /\ pc[t] = "release"
    /\ ref' = [ref EXCEPT ![obj[t]] = @ - 1]
    /\ Return(t, ret[t])
    /\ UNCHANGED <<mqVars, handle_index, slot, init, total, nodeVars, sent, workerVars>>

\* A fault: the count of contexts goes down when a context is retired.
ReleaseCountsDown(t) ==
    /\ pc[t] = "release"
    /\ ref' = [ref EXCEPT ![obj[t]] = @ - 1]
    /\ total' = IF obj[t] \in slot \/ total = 0 THEN total ELSE total - 1
    /\ IF ref[obj[t]] = 1 THEN Goto(t, "delete") /\ UNCHANGED callVars ELSE Return(t, ret[t])
    /\ UNCHANGED <<mqVars, handle_index, slot, init, nodeVars, sent, workerVars>>

\* ATOM_FDEC: the one who takes the count from 1 to 0 deletes the context.
Release(t) ==
    /\ pc[t] = "release"
    /\ ref' = [ref EXCEPT ![obj[t]] = @ - 1]
    /\ IF ref[obj[t]] = 1 THEN Goto(t, "delete") /\ UNCHANGED callVars ELSE Return(t, ret[t])
    /\ UNCHANGED <<mqVars, handle_index, slot, init, total, nodeVars, sent, workerVars>>

\* A fault: mark_release queues the queue whether or not it is queued.
MarkReleaseAlways(t) ==
    /\ pc[t] = "delete"
    /\ release' = [release EXCEPT ![obj[t]] = TRUE]
    /\ globalmq' = Append(globalmq, obj[t])
    /\ Goto(t, "deleted")
    /\ UNCHANGED <<mq, in_global, freed, ctxVars, nodeVars, sent, callVars, workerVars>>

\* skynet_mq_mark_release: a queue that nobody has goes to the global queue,
\* for a worker to find that its context is gone and to free it.
MarkRelease(t) ==
    /\ pc[t] = "delete"
    /\ release' = [release EXCEPT ![obj[t]] = TRUE]
    /\ globalmq' = IF in_global[obj[t]] THEN globalmq ELSE Append(globalmq, obj[t])
    /\ Goto(t, "deleted")
    /\ UNCHANGED <<mq, in_global, freed, ctxVars, nodeVars, sent, callVars, workerVars>>

\* context_dec; skynet_context_release returns NULL, so that the launch of a
\* context that was deleted does not set its init flag.
ContextDec(t) ==
    /\ pc[t] = "deleted"
    /\ total' = total - 1
    /\ Return(t, IF ret[t] = "launched" THEN "enqueue" ELSE ret[t])
    /\ UNCHANGED <<mqVars, handle_index, slot, ref, init, nodeVars, sent, workerVars>>

-----------------------------------------------------------------------------
(* skynet_context_push: grab the context, push the message, release it     *)

\* A fault: the context is used without a reference to it.
PushGrabUncounted(t) ==
    /\ pc[t] = "grabdst"
    /\ IF obj[t] \in slot THEN Goto(t, "push") /\ UNCHANGED callVars ELSE Return(t, ret[t])
    /\ UNCHANGED <<mqVars, ctxVars, nodeVars, sent, workerVars>>

\* skynet_handle_grab of the destination; without it the message is freed.
PushGrab(t) ==
    /\ pc[t] = "grabdst"
    /\ \/ /\ obj[t] \in slot
          /\ ref' = [ref EXCEPT ![obj[t]] = @ + 1]
          /\ Goto(t, "push") /\ UNCHANGED callVars
       \/ /\ obj[t] \notin slot
          /\ Return(t, ret[t]) /\ UNCHANGED ref
    /\ UNCHANGED <<mqVars, handle_index, slot, init, total, nodeVars, sent, workerVars>>

\* A fault: the message goes to the front of the queue.
MqPushFront(t) ==
    /\ pc[t] = "push"
    /\ mq' = [mq EXCEPT ![obj[t]] = <<msg[t]>> \o @]
    /\ in_global' = [in_global EXCEPT ![obj[t]] = TRUE]
    /\ globalmq' = IF in_global[obj[t]] THEN globalmq ELSE Append(globalmq, obj[t])
    /\ Goto(t, "release")
    /\ msg' = [msg EXCEPT ![t] = NoMessage]
    /\ UNCHANGED <<release, freed, ctxVars, nodeVars, sent, obj, ret, workerVars>>

\* skynet_mq_push: the first message of a queue nobody has queues it.
MqPush(t) ==
    /\ pc[t] = "push"
    /\ mq' = [mq EXCEPT ![obj[t]] = Append(@, msg[t])]
    /\ in_global' = [in_global EXCEPT ![obj[t]] = TRUE]
    /\ globalmq' = IF in_global[obj[t]] THEN globalmq ELSE Append(globalmq, obj[t])
    /\ Goto(t, "release")
    /\ msg' = [msg EXCEPT ![t] = NoMessage]
    /\ UNCHANGED <<release, freed, ctxVars, nodeVars, sent, obj, ret, workerVars>>

-----------------------------------------------------------------------------
(* thread_worker and skynet_context_message_dispatch                       *)

\* while (!m->quit)
Loop(w) ==
    /\ pc[w] = "loop"
    /\ Goto(w, CASE quit -> "done" [] ~quit /\ q[w] = NoHandle -> "pop" [] OTHER -> "grab")
    /\ UNCHANGED <<mqVars, ctxVars, nodeVars, sent, callVars, workerVars>>

\* skynet_globalmq_pop, at the start of a dispatch ("pop") or as the queue
\* that a dispatch returns ("next").  No queue sends the worker to sleep.
GlobalPop(w) ==
    /\ pc[w] \in {"pop", "next"}
    /\ \/ /\ globalmq = <<>>
          /\ Goto(w, "sleep")
          /\ UNCHANGED <<globalmq, q>>
       \/ /\ globalmq # <<>>
          /\ q' = [q EXCEPT ![w] = Head(globalmq)]
          /\ globalmq' = Tail(globalmq)
          /\ Goto(w, IF pc[w] = "pop" THEN "grab" ELSE "loop")
    /\ UNCHANGED <<mq, in_global, release, freed, ctxVars, nodeVars, sent, callVars,
                   ctx, left, child>>

\* skynet_handle_grab of the queue's own service.
Grab(w) ==
    /\ pc[w] = "grab"
    /\ \/ /\ q[w] \in slot
          /\ ref' = [ref EXCEPT ![q[w]] = @ + 1]
          /\ ctx' = [ctx EXCEPT ![w] = q[w]]
          /\ Goto(w, "first")
       \/ /\ q[w] \notin slot
          /\ Goto(w, "mqrelease")
          /\ UNCHANGED <<ref, ctx>>
    /\ UNCHANGED <<mqVars, handle_index, slot, init, total, nodeVars, sent, callVars, q, left, child>>

\* A fault: the queue leaves the global queue with its last message, while
\* the worker that took the message is still to run the callback.
MqPopMessageLast(w) ==
    /\ pc[w] \in {"first", "more"}
    /\ mq[q[w]] # <<>>
    /\ mq' = [mq EXCEPT ![q[w]] = Tail(@)]
    /\ in_global' = [in_global EXCEPT ![q[w]] = Len(mq[q[w]]) > 1]
    /\ left' = [left EXCEPT ![w] = IF pc[w] = "first" THEN 0 ELSE @]
    /\ Goto(w, IF pc[w] = "first" /\ Weight[w] >= 0 THEN "length" ELSE "calling")
    /\ UNCHANGED <<globalmq, release, freed, ctxVars, nodeVars, sent, callVars, q, ctx, child>>

\* skynet_mq_pop with a message: the callback of the service runs.
MqPopMessage(w) ==
    /\ pc[w] \in {"first", "more"}
    /\ mq[q[w]] # <<>>
    /\ mq' = [mq EXCEPT ![q[w]] = Tail(@)]
    /\ left' = [left EXCEPT ![w] = IF pc[w] = "first" THEN 0 ELSE @]
    /\ Goto(w, IF pc[w] = "first" /\ Weight[w] >= 0 THEN "length" ELSE "calling")
    /\ UNCHANGED <<globalmq, in_global, release, freed, ctxVars, nodeVars, sent, callVars,
                   q, ctx, child>>

\* skynet_mq_pop on an empty queue: from here on the next push queues it.
MqPopEmpty(w) ==
    /\ pc[w] \in {"first", "more"}
    /\ mq[q[w]] = <<>>
    /\ in_global' = [in_global EXCEPT ![q[w]] = FALSE]
    /\ Call(w, "release", q[w], "next")
    /\ q' = [q EXCEPT ![w] = NoHandle]
    /\ ctx' = [ctx EXCEPT ![w] = NoHandle]
    /\ UNCHANGED <<globalmq, mq, release, freed, ctxVars, nodeVars, sent, msg, left, child>>

\* A fault: the length of the queue counts the message already taken.
MqLengthPlusOne(w) ==
    /\ pc[w] = "length"
    /\ left' = [left EXCEPT ![w] = (Len(mq[q[w]]) + 1) \div 2 ^ Weight[w]]
    /\ Goto(w, "calling")
    /\ UNCHANGED <<mqVars, ctxVars, nodeVars, sent, callVars, q, ctx, child>>

\* n = skynet_mq_length(q) >> weight: the loop runs n times, at least once.
MqLength(w) ==
    /\ pc[w] = "length"
    /\ LET n == Len(mq[q[w]]) \div 2 ^ Weight[w]
       IN  left' = [left EXCEPT ![w] = IF n = 0 THEN 0 ELSE n - 1]
    /\ Goto(w, "calling")
    /\ UNCHANGED <<mqVars, ctxVars, nodeVars, sent, callVars, q, ctx, child>>

\* The callback returns.
CallbackReturn(w) ==
    /\ pc[w] = "calling"
    /\ Goto(w, IF left[w] > 0 THEN "more" ELSE "swap")
    /\ left' = [left EXCEPT ![w] = IF @ > 0 THEN @ - 1 ELSE 0]
    /\ UNCHANGED <<mqVars, ctxVars, nodeVars, sent, callVars, q, ctx, child>>

\* nq = skynet_globalmq_pop() after the loop: alone, the worker keeps q.
SwapPop(w) ==
    /\ pc[w] = "swap"
    /\ \/ /\ globalmq = <<>>
          /\ Call(w, "release", ctx[w], "loop")
          /\ ctx' = [ctx EXCEPT ![w] = NoHandle]
          /\ UNCHANGED globalmq
       \/ /\ globalmq # <<>>
          /\ obj' = [obj EXCEPT ![w] = Head(globalmq)]
          /\ globalmq' = Tail(globalmq)
          /\ Goto(w, "pushback")
          /\ UNCHANGED <<ret, ctx>>
    /\ UNCHANGED <<mq, in_global, release, freed, ctxVars, nodeVars, sent, msg, q, left, child>>

\* skynet_globalmq_push(q); q = nq
SwapPush(w) ==
    /\ pc[w] = "pushback"
    /\ globalmq' = Append(globalmq, q[w])
    /\ q' = [q EXCEPT ![w] = obj[w]]
    /\ Call(w, "release", ctx[w], "loop")
    /\ ctx' = [ctx EXCEPT ![w] = NoHandle]
    /\ UNCHANGED <<mq, in_global, release, freed, ctxVars, nodeVars, sent, msg, left, child>>

-----------------------------------------------------------------------------
(* skynet_mq_release, of a dispatch that found no context and of a launch  *)
(* that failed                                                             *)

Dead(w) == IF child[w] # NoHandle THEN child[w] ELSE q[w]

\* The queue is no longer w's; a dispatch goes on to the next queue, a launch
\* returns to the callback that made it.
GiveUp(w) ==
    IF child[w] # NoHandle
    THEN Goto(w, "calling") /\ child' = [child EXCEPT ![w] = NoHandle] /\ UNCHANGED q
    ELSE Goto(w, "next") /\ q' = [q EXCEPT ![w] = NoHandle] /\ UNCHANGED child

\* A fault: the queue is dropped though its context may still be in use.
MqReleaseUntested(w) ==
    /\ pc[w] = "mqrelease"
    /\ Goto(w, "drop")
    /\ UNCHANGED <<mqVars, ctxVars, nodeVars, sent, callVars, workerVars>>

\* While somebody still holds the context the queue goes back to the end.
MqRelease(w) ==
    /\ pc[w] = "mqrelease"
    /\ \/ /\ release[Dead(w)]
          /\ Goto(w, "drop")
          /\ UNCHANGED <<globalmq, q, child>>
       \/ /\ ~release[Dead(w)]
          /\ globalmq' = Append(globalmq, Dead(w))
          /\ GiveUp(w)
    /\ UNCHANGED <<mq, in_global, release, freed, ctxVars, nodeVars, sent, callVars, ctx, left>>

\* _drop_queue: an error goes back to the source of every message; handle 0
\* gets none.  An error message has no number.
Drop(w) ==
    /\ pc[w] = "drop"
    /\ mq[Dead(w)] # <<>>
    /\ mq' = [mq EXCEPT ![Dead(w)] = Tail(@)]
    /\ LET src == Head(mq[Dead(w)]).src
       IN  \/ /\ src # NoHandle
              /\ msg' = [msg EXCEPT ![w] = [id |-> 0, src |-> Dead(w)]]
              /\ Call(w, "grabdst", src, "drop")
           \/ /\ src = NoHandle
              /\ UNCHANGED <<pc, callVars>>
    /\ UNCHANGED <<globalmq, in_global, release, freed, ctxVars, nodeVars, sent, workerVars>>

\* _release
DropEnd(w) ==
    /\ pc[w] = "drop"
    /\ mq[Dead(w)] = <<>>
    /\ in_global' = [in_global EXCEPT ![Dead(w)] = FALSE]
    /\ freed' = freed \cup {Dead(w)}
    /\ GiveUp(w)
    /\ UNCHANGED <<globalmq, mq, release, ctxVars, nodeVars, sent, callVars, ctx, left>>

-----------------------------------------------------------------------------
(* What a callback does to the scheduler                                   *)

\* skynet_send to any service, known to be alive or not.
Send(w, d) ==
    /\ pc[w] = "calling"
    /\ sent < MaxMsg /\ d \in Launched
    /\ sent' = sent + 1
    /\ msg' = [msg EXCEPT ![w] = [id |-> sent + 1, src |-> q[w]]]
    /\ Call(w, "grabdst", d, "calling")
    /\ UNCHANGED <<mqVars, ctxVars, nodeVars, workerVars>>

\* skynet_harbor_send, of a message to a global name: it goes to the harbor's
\* queue without a reference to the harbor.
HarborSend(w) ==
    /\ pc[w] = "calling" /\ REMOTE # NoHandle
    /\ sent < MaxMsg
    /\ sent' = sent + 1
    /\ mq' = [mq EXCEPT ![REMOTE] = Append(@, [id |-> sent + 1, src |-> q[w]])]
    /\ in_global' = [in_global EXCEPT ![REMOTE] = TRUE]
    /\ globalmq' = IF in_global[REMOTE] THEN globalmq ELSE Append(globalmq, REMOTE)
    /\ UNCHANGED <<release, freed, ctxVars, nodeVars, pc, callVars, workerVars>>

\* remote_send_handle: the harbor passes a message on in the name of its source.
\* It has no number, like an error: it may overtake what the source sent itself.
HarborForward(w, d, s) ==
    /\ pc[w] = "calling" /\ q[w] = REMOTE
    /\ sent < MaxMsg /\ d \in Launched /\ s \in Launched
    /\ sent' = sent + 1
    /\ msg' = [msg EXCEPT ![w] = [id |-> 0, src |-> s]]
    /\ Call(w, "grabdst", d, "calling")
    /\ UNCHANGED <<mqVars, ctxVars, nodeVars, workerVars>>

\* handle_exit and, over all services, cmd_abort: skynet_handle_retire takes
\* the context out of the table and gives the table's reference back.  The
\* harbor kills and launches nobody.
Kill(w, v) ==
    /\ pc[w] = "calling" /\ q[w] # REMOTE
    /\ v \in slot
    /\ slot' = slot \ {v}
    /\ Call(w, "release", v, "calling")
    /\ UNCHANGED <<mqVars, handle_index, ref, init, total, nodeVars, sent, msg, workerVars>>

\* A fault: a new queue is created as one that nobody has.
LaunchUnflagged(w, h) ==
    /\ pc[w] = "calling" /\ q[w] # REMOTE
    /\ h = handle_index
    /\ handle_index' = h + 1
    /\ slot' = slot \cup {h}
    /\ ref' = [ref EXCEPT ![h] = 2]
    /\ in_global' = [in_global EXCEPT ![h] = FALSE]
    /\ total' = total + 1
    /\ child' = [child EXCEPT ![w] = h]
    /\ Goto(w, "init")
    /\ UNCHANGED <<globalmq, mq, release, freed, init, nodeVars, sent, callVars, q, ctx, left>>

\* skynet_context_new up to the call of the module's init: one reference for
\* the handle table and one for this function.
Launch(w, h) ==
    /\ pc[w] = "calling" /\ q[w] # REMOTE
    /\ h = handle_index
    /\ handle_index' = h + 1
    /\ slot' = slot \cup {h}
    /\ ref' = [ref EXCEPT ![h] = 2]
    /\ in_global' = [in_global EXCEPT ![h] = TRUE]
    /\ total' = total + 1
    /\ child' = [child EXCEPT ![w] = h]
    /\ Goto(w, "init")
    /\ UNCHANGED <<globalmq, mq, release, freed, init, nodeVars, sent, callVars, q, ctx, left>>

\* snlua's init sends the service its own first message.
InitSend(w) ==
    /\ pc[w] = "init"
    /\ sent < MaxMsg
    /\ sent' = sent + 1
    /\ msg' = [msg EXCEPT ![w] = [id |-> sent + 1, src |-> child[w]]]
    /\ Call(w, "grabdst", child[w], "inited")
    /\ UNCHANGED <<mqVars, ctxVars, nodeVars, workerVars>>

\* init ends, well (continue at "launched") or badly (at "retire").
InitEnd(w) ==
    /\ pc[w] \in {"init", "inited"}
    /\ \E l \in {"launched", "retire"} : Call(w, "release", child[w], l)
    /\ UNCHANGED <<mqVars, ctxVars, nodeVars, sent, msg, workerVars>>

\* A fault: the reserved context is counted.
HarborStartCounted(w) ==
    /\ pc[w] = "init" /\ reserved = NoHandle
    /\ ref' = [ref EXCEPT ![child[w]] = @ + 1]
    /\ REMOTE' = child[w] /\ reserved' = child[w]
    /\ Call(w, "release", child[w], "launched")
    /\ UNCHANGED <<mqVars, handle_index, slot, init, total, quit, sent, msg, workerVars>>

\* skynet_harbor_start, the end of the harbor service's init: REMOTE keeps a
\* reference until the threads have ended, so skynet_context_reserve takes the
\* context out of the total.  The grab and context_dec are one step: the thread
\* has a reference to the context, and the service that launches it is counted,
\* so that nobody sees the total in between.  A node has one harbor.
HarborStart(w) ==
    /\ pc[w] = "init" /\ reserved = NoHandle
    /\ ref' = [ref EXCEPT ![child[w]] = @ + 1]
    /\ total' = total - 1
    /\ REMOTE' = child[w] /\ reserved' = child[w]
    /\ Call(w, "release", child[w], "launched")
    /\ UNCHANGED <<mqVars, handle_index, slot, init, quit, sent, msg, workerVars>>

\* ctx->init = true
LaunchSetInit(w) ==
    /\ pc[w] = "launched"
    /\ init' = init \cup {child[w]}
    /\ Goto(w, "enqueue")
    /\ UNCHANGED <<mqVars, handle_index, slot, ref, total, nodeVars, sent, callVars, workerVars>>

\* skynet_globalmq_push(queue)
LaunchEnqueue(w) ==
    /\ pc[w] = "enqueue"
    /\ globalmq' = Append(globalmq, child[w])
    /\ child' = [child EXCEPT ![w] = NoHandle]
    /\ Goto(w, "calling")
    /\ UNCHANGED <<mq, in_global, release, freed, ctxVars, nodeVars, sent, callVars, q, ctx, left>>

\* skynet_handle_retire after a failed init, which may find it retired.
LaunchRetire(w) ==
    /\ pc[w] = "retire"
    /\ \/ /\ child[w] \in slot
          /\ slot' = slot \ {child[w]}
          /\ Call(w, "release", child[w], "mqrelease")
       \/ /\ child[w] \notin slot
          /\ Goto(w, "mqrelease")
          /\ UNCHANGED <<slot, obj, ret>>
    /\ UNCHANGED <<mqVars, handle_index, ref, init, total, nodeVars, sent, msg, workerVars>>

-----------------------------------------------------------------------------
(* Sleeping workers and the timer thread                                   *)

Waiting == {w \in Worker : pc[w] = "waiting"}

\* A fault: the worker does not look at quit under the mutex.
SleepUntested(w) ==
    /\ pc[w] = "sleep"
    /\ Goto(w, "waiting")
    /\ UNCHANGED <<mqVars, ctxVars, nodeVars, sent, callVars, workerVars>>

\* With the mutex: if (!m->quit) pthread_cond_wait
Sleep(w) ==
    /\ pc[w] = "sleep"
    /\ Goto(w, IF quit THEN "loop" ELSE "waiting")
    /\ UNCHANGED <<mqVars, ctxVars, nodeVars, sent, callVars, workerVars>>

\* A signalled worker gets the mutex back; -- m->sleep
Wake(w) ==
    /\ pc[w] = "woken"
    /\ Goto(w, "loop")
    /\ UNCHANGED <<mqVars, ctxVars, nodeVars, sent, callVars, workerVars>>

\* pthread_cond_wait may return without a signal.
SpuriousWake(w) ==
    /\ pc[w] = "waiting"
    /\ Goto(w, "woken")
    /\ UNCHANGED <<mqVars, ctxVars, nodeVars, sent, callVars, workerVars>>

\* A timeout or a socket event becomes a message that no service sent.
TimerPush(d) ==
    /\ pc[Timer] = "tick"
    /\ sent < MaxMsg /\ d \in Launched
    /\ sent' = sent + 1
    /\ msg' = [msg EXCEPT ![Timer] = [id |-> sent + 1, src |-> NoHandle]]
    /\ Call(Timer, "grabdst", d, "tick")
    /\ UNCHANGED <<mqVars, ctxVars, nodeVars, workerVars>>

\* wakeup(m, m->count - 1): signal when at least one worker sleeps.
TimerWakeup ==
    /\ pc[Timer] = "tick"
    /\ total # 0
    /\ \E w \in Waiting : Goto(w, "woken")
    /\ UNCHANGED <<mqVars, ctxVars, nodeVars, sent, callVars, workerVars>>

\* CHECK_ABORT leaves the loop: quit is set with the mutex, and broadcast.
TimerQuit ==
    /\ pc[Timer] = "tick"
    /\ total = 0
    /\ quit' = TRUE
    /\ pc' = [t \in Thread |-> CASE t = Timer -> "done"
                                 [] t \in Waiting -> "woken"
                                 [] OTHER -> pc[t]]
    /\ UNCHANGED <<mqVars, ctxVars, REMOTE, reserved, sent, callVars, workerVars>>

-----------------------------------------------------------------------------

\* The callback that w runs makes one of its calls, or returns.
Callback(w) ==
    \/ CallbackReturn(w)
    \/ \E d \in Handle : Send(w, d) \/ Kill(w, d) \/ Launch(w, d)
    \/ HarborSend(w) \/ \E d, s \in Handle : HarborForward(w, d, s)
    \/ InitSend(w) \/ InitEnd(w) \/ HarborStart(w) \/ LaunchSetInit(w) \/ LaunchEnqueue(w) \/ LaunchRetire(w)

ThreadStep(t) ==
    Release(t) \/ MarkRelease(t) \/ ContextDec(t) \/ PushGrab(t) \/ MqPush(t)

WorkerStep(w) ==
    \/ ThreadStep(w) \/ Callback(w)
    \/ Loop(w) \/ GlobalPop(w) \/ Grab(w)
    \/ MqPopMessage(w) \/ MqPopEmpty(w) \/ MqLength(w)
    \/ SwapPop(w) \/ SwapPush(w)
    \/ MqRelease(w) \/ Drop(w) \/ DropEnd(w)
    \/ Sleep(w) \/ Wake(w)

TimerStep ==
    \/ ThreadStep(Timer)
    \/ \E d \in Handle : TimerPush(d)
    \/ TimerWakeup \/ TimerQuit

Joined == \A t \in Thread : pc[t] = "done"

\* skynet_harbor_exit, after skynet_start has joined its threads: the harbor's
\* context is deleted, unless nobody took it out of the handle table.
HarborExit ==
    /\ Joined /\ REMOTE # NoHandle
    /\ REMOTE' = NoHandle
    /\ ref' = [ref EXCEPT ![REMOTE] = @ - 1]
    /\ \/ /\ ref[REMOTE] = 1
          /\ total' = total - 1
          /\ release' = [release EXCEPT ![REMOTE] = TRUE]
          /\ globalmq' = IF in_global[REMOTE] THEN globalmq ELSE Append(globalmq, REMOTE)
       \/ /\ ref[REMOTE] # 1
          /\ UNCHANGED <<total, release, globalmq>>
    /\ UNCHANGED <<mq, in_global, freed, handle_index, slot, init, quit, reserved, sent,
                   pc, callVars, workerVars>>

\* The process ends.
Exit == Joined /\ REMOTE = NoHandle /\ UNCHANGED vars

Next ==
    \/ \E w \in Worker : WorkerStep(w) \/ SpuriousWake(w)
    \/ TimerStep
    \/ HarborExit \/ Exit

Spec == Init /\ [][Next]_vars

\* Every thread keeps running, the main one too; nothing is assumed of spurious wakeups.
FairSpec ==
    /\ Spec
    /\ \A w \in Worker : WF_vars(WorkerStep(w))
    /\ WF_vars(TimerStep)
    /\ WF_vars(HarborExit)
-----------------------------------------------------------------------------
(* Properties                                                              *)

TypeOK ==
    /\ globalmq \in Seq(Handle)
    /\ mq \in [Handle -> Seq(Message)]
    /\ in_global \in [Handle -> BOOLEAN]
    /\ release \in [Handle -> BOOLEAN]
    /\ freed \subseteq Handle
    /\ handle_index \in 1..(MaxHandle + 1)
    /\ slot \subseteq Handle /\ init \subseteq Handle
    /\ ref \in [Handle -> Nat]
    /\ total \in Int
    /\ quit \in BOOLEAN
    /\ reserved \in Handle \cup {NoHandle} /\ REMOTE \in {NoHandle, reserved}
    /\ sent \in 0..MaxMsg
    /\ obj \in [Thread -> Handle \cup {NoHandle}]
    /\ msg \in [Thread -> Message]
    /\ {q, ctx, child} \subseteq [Worker -> Handle \cup {NoHandle}]
    /\ left \in [Worker -> Nat]

\* The references to context h: the handle table's, REMOTE's, a worker's for the
\* queue it dispatches, a push's or a pending release's, and a launch's.
References(h) ==
    (IF h \in slot THEN 1 ELSE 0) + (IF h = REMOTE THEN 1 ELSE 0)
    + Cardinality({w \in Worker : ctx[w] = h})
    + Cardinality({t \in Thread : obj[t] = h /\ pc[t] \in {"push", "release"}})
    + Cardinality({w \in Worker : child[w] = h /\
          \/ pc[w] \in {"init", "inited"}
          \/ pc[w] \in {"grabdst", "push", "release"} /\ ret[w] = "inited"})

\* A context's count is the number of its users (skynet_context_grab and
\* skynet_context_release pair up on every path, error paths included), so
\* that it is deleted when the last of them lets go, and only then.
RefCounted == \A h \in Handle : ref[h] = References(h)

\* The owners of queue h: places in the global queue, workers, launches.
Owners(h) ==
    Cardinality({i \in DOMAIN globalmq : globalmq[i] = h})
    + Cardinality({w \in Worker : q[w] = h})
    + Cardinality({w \in Worker : pc[w] = "pushback" /\ obj[w] = h})
    + Cardinality({w \in Worker : child[w] = h})

\* A queue is never in two places (assert(queue->next == NULL) in
\* skynet_globalmq_push); one that has messages or is to be freed is in one
\* place, so that a worker gets to it; one that was freed is nowhere.
OwnedOnce ==
    \A h \in Launched :
        /\ Owners(h) = IF h \notin freed /\ (in_global[h] \/ release[h]) THEN 1 ELSE 0
        /\ mq[h] # <<>> => Owners(h) = 1

\* The service whose code w runs: a callback or the init of a new service.
Running(w) ==
    CASE pc[w] \in {"init", "inited"} -> child[w]
      [] pc[w] = "calling" -> q[w]
      [] OTHER -> NoHandle

\* CHECKCALLING: the code of a service never runs in two threads at once.
OneThreadPerService ==
    \A v, w \in Worker : v # w /\ Running(v) # NoHandle => Running(v) # Running(w)

\* dispatch_message's assert(ctx->init): no callback before init has ended.
\* A launch that was overtaken by a kill is never dispatched.
InitFirst == \A w \in Worker : pc[w] = "calling" => q[w] \in init

\* The queues and contexts that thread t is about to use.
UsedQueues(t) ==
    CASE pc[t] \in {"push", "delete"} -> {obj[t]}
      [] t \in Worker /\ pc[t] \in {"grab", "first", "more", "length", "swap", "pushback"} -> {q[t]}
      [] t \in Worker /\ pc[t] \in {"mqrelease", "drop"} -> {Dead(t)}
      [] t \in Worker /\ pc[t] = "enqueue" -> {child[t]}
      [] OTHER -> {}

UsedContexts(t) ==
    CASE pc[t] \in {"push", "release"} -> {obj[t]}
      [] t \in Worker /\ pc[t] \in {"first", "more", "length", "calling", "swap", "pushback"} -> {q[t]}
      [] t \in Worker /\ pc[t] \in {"init", "inited"} -> {child[t]}
      [] t \in Worker /\ pc[t] = "launched" -> {child[t]} \cap slot
      [] OTHER -> {}

\* No thread uses a queue that was freed, or a context that was deleted, and
\* the harbor, to whose queue skynet_harbor_send pushes without a reference of
\* its own, is neither ("the HARBOR must be reserved to ensure the pointer is
\* valid").  The one exception is what follows a launch: skynet_context_new
\* after its release, and cmd_launch, which reads the handle of the context it
\* gets.  A service that is killed right then is written to and read after it
\* was freed (see the hazards).
NoUseAfterFree ==
    /\ \A t \in Thread :
          /\ UsedQueues(t) \cap freed = {}
          /\ \A h \in UsedContexts(t) : ref[h] > 0
    /\ REMOTE # NoHandle => ref[REMOTE] > 0 /\ REMOTE \notin freed

\* The dispatch loop was given a number of turns that the queue covers: only
\* its first pop may find the queue empty, which gives the queue up.
TurnsCovered ==
    \A w \in Worker : pc[w] = "more" => Len(mq[q[w]]) > left[w]

\* Messages from one service to another are handled in the order they were
\* sent: they are in order in the queue, and later than none in flight.  What
\* the harbor passes on is outside it, and has no number.
InOrder ==
    \A h \in Handle, s \in Handle :
        LET from(m) == m.src = s /\ m.id # 0
        IN  \A i \in DOMAIN mq[h] : from(mq[h][i]) =>
              /\ \A j \in i + 1 .. Len(mq[h]) : from(mq[h][j]) => mq[h][i].id < mq[h][j].id
              /\ \A t \in Thread : pc[t] = "push" /\ obj[t] = h /\ from(msg[t])
                                     => mq[h][i].id < msg[t].id

\* The node ends only when every service but the reserved harbor is gone
\* (CHECK_ABORT): no other context is left in the table or in a thread, and no
\* other callback runs.
QuitWhenDead ==
    quit => /\ slot \subseteq {reserved}
            /\ \A h \in Handle \ {reserved} : ref[h] = 0
            /\ \A w \in Worker : Running(w) \in {NoHandle, reserved}

\* When nothing is sent any more the node comes to rest: every message was
\* handled or dropped, and every killed service's queue is freed, unless the
\* node ends first.  skynet_mq_push wakes nobody: a worker that found no queue
\* right before a push sleeps until the timer's next wakeup.  The queue of a
\* killed harbor is not freed, because REMOTE keeps the context: workers hand it
\* round until the node ends.
ComesToRest ==
    <>[](quit \/ \A h \in Launched :
            \/ mq[h] = <<>> /\ (h \in slot \/ h \in freed)
            \/ h = reserved /\ h \notin slot)

\* Once the last service but the harbor is gone the node ends: every thread,
\* asleep or not, and then the harbor's reference (the count of contexts gets to
\* zero, because the harbor is not in it).
Terminates ==
    (\A h \in Handle \ {reserved} : ref[h] = 0) ~> Joined /\ REMOTE = NoHandle
=============================================================================
