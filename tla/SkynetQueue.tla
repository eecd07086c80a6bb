------------------------------ MODULE SkynetQueue ------------------------------
(***************************************************************************)
(* skynet.queue(), src/framework/skynet/lualib/skynet/queue.lua: the       *)
(* critical section on which every service of the game server builds its   *)
(* per-id "sq".  Coroutines are scheduled cooperatively: a coroutine runs  *)
(* from one yield to the next, and each action below is one such run.      *)
(*                                                                         *)
(* The closure's upvalues are current_thread, ref and thread_queue.  A     *)
(* coroutine may call the queue again while it holds it (depth counts its  *)
(* open calls); a call may end with an error, which releases the queue     *)
(* exactly as a return does before it is raised again.                     *)
(***************************************************************************)
EXTENDS Integers, Sequences

CONSTANTS
    Thread,         \* the coroutines of the service
    None,           \* Lua's nil for current_thread
    MaxNested       \* bound: nested calls inside one outermost call

ASSUME ThreadAssumption == None \notin Thread
ASSUME NestedAssumption == MaxNested \in Nat

VARIABLES
    current_thread, \* queue.lua: local current_thread
    ref,            \* queue.lua: local ref
    thread_queue,   \* queue.lua: local thread_queue
    pc,             \* "outside", "waiting" (in skynet.wait) or "inside"
    woken,          \* coroutines in skynet's wakeup queue, not yet resumed
    depth,          \* open calls of each coroutine on this queue
    nested          \* nested calls made since the outermost one

vars == <<current_thread, ref, thread_queue, pc, woken, depth, nested>>

Init ==
    /\ current_thread = None
    /\ ref = 0
    /\ thread_queue = <<>>
    /\ pc = [t \in Thread |-> "outside"]
    /\ woken = {}
    /\ depth = [t \in Thread |-> 0]
    /\ nested = [t \in Thread |-> 0]

\* A fault: ref set to one where it should be counted up.
TakeQueueNoCount(t) ==
    /\ current_thread' = t
    /\ ref' = 1
    /\ depth' = [depth EXCEPT ![t] = @ + 1]
    /\ pc' = [pc EXCEPT ![t] = "inside"]

\* The tail of the returned function: take the queue and run f under xpcall.
TakeQueue(t) ==
    /\ current_thread' = t
    /\ ref' = ref + 1
    /\ depth' = [depth EXCEPT ![t] = @ + 1]
    /\ pc' = [pc EXCEPT ![t] = "inside"]

\* A fault: the test of current_thread is missing.
CallFreeUntested(t) ==
    /\ pc[t] = "outside"
    /\ TakeQueue(t)
    /\ UNCHANGED <<thread_queue, woken, nested>>

\* sq(f) by a coroutine that finds the queue free: f starts at once.
CallFree(t) ==
    /\ pc[t] = "outside"
    /\ current_thread = None
    /\ TakeQueue(t)
    /\ UNCHANGED <<thread_queue, woken, nested>>

\* sq(f) by a coroutine that finds another one in current_thread: it is put
\* into thread_queue and suspended in skynet.wait().
CallBusy(t) ==
    /\ pc[t] = "outside"
    /\ current_thread # None /\ current_thread # t
    /\ thread_queue' = Append(thread_queue, t)
    /\ pc' = [pc EXCEPT ![t] = "waiting"]
    /\ UNCHANGED <<current_thread, ref, woken, depth, nested>>

\* sq(f) from inside f: current_thread is the caller, so it enters again.
CallNested(t) ==
    /\ pc[t] = "inside"
    /\ nested[t] < MaxNested
    /\ current_thread \in {None, t}
    /\ TakeQueue(t)
    /\ nested' = [nested EXCEPT ![t] = @ + 1]
    /\ UNCHANGED <<thread_queue, woken>>

\* The coroutine woken by a release is resumed from skynet.wait(), passes
\* assert(ref == 0) and takes the queue.
Resume(t) ==
    /\ pc[t] = "waiting"
    /\ t \in woken
    /\ ref = 0
    /\ woken' = woken \ {t}
    /\ TakeQueue(t)
    /\ UNCHANGED <<thread_queue, nested>>

\* Faults of the hand-over: the queue is marked free, the newest waiter is
\* preferred, the waiter is not woken.
HandOverFree ==
    /\ current_thread' = None
    /\ thread_queue' = IF thread_queue = <<>> THEN <<>> ELSE Tail(thread_queue)
    /\ woken' = IF thread_queue = <<>> THEN woken ELSE woken \cup {Head(thread_queue)}
HandOverNewest ==
    LET n == Len(thread_queue) IN
    IF n = 0
    THEN current_thread' = None /\ UNCHANGED <<thread_queue, woken>>
    ELSE /\ current_thread' = thread_queue[n]
         /\ thread_queue' = SubSeq(thread_queue, 1, n - 1)
         /\ woken' = woken \cup {thread_queue[n]}
HandOverSilent ==
    IF thread_queue = <<>>
    THEN current_thread' = None /\ UNCHANGED <<thread_queue, woken>>
    ELSE /\ current_thread' = Head(thread_queue)
         /\ thread_queue' = Tail(thread_queue)
         /\ UNCHANGED woken

\* xpcall_ret, ref has come down to zero: the first waiter gets the queue.  It
\* is woken but runs only when the scheduler gets to it.
HandOver ==
    IF thread_queue = <<>>
    THEN current_thread' = None /\ UNCHANGED <<thread_queue, woken>>
    ELSE /\ current_thread' = Head(thread_queue)
         /\ thread_queue' = Tail(thread_queue)
         /\ woken' = woken \cup {Head(thread_queue)}

\* xpcall_ret: f has returned or failed.
Release(t) ==
    /\ pc[t] = "inside"
    /\ ref' = ref - 1
    /\ depth' = [depth EXCEPT ![t] = @ - 1]
    /\ IF ref = 1 THEN HandOver
       ELSE UNCHANGED <<current_thread, thread_queue, woken>>
    /\ IF depth[t] = 1
       THEN /\ pc' = [pc EXCEPT ![t] = "outside"]
            /\ nested' = [nested EXCEPT ![t] = 0]
       ELSE UNCHANGED <<pc, nested>>

Next ==
    \E t \in Thread :
        CallFree(t) \/ CallBusy(t) \/ CallNested(t) \/ Resume(t) \/ Release(t)

\* The scheduler resumes every woken coroutine, and every f ends: the code run
\* under a queue is a finite handler whose calls return or raise.
Fairness == \A t \in Thread : WF_vars(Resume(t)) /\ WF_vars(Release(t))

Spec == Init /\ [][Next]_vars
FairSpec == Spec /\ Fairness

--------------------------------------------------------------------------------
\* The type invariant: in particular ref never goes below zero, and current_thread
\* never takes a value that is not a coroutine or nil.
TypeOK ==
    /\ current_thread \in Thread \cup {None}
    /\ ref \in Nat
    /\ thread_queue \in Seq(Thread)
    /\ pc \in [Thread -> {"outside", "waiting", "inside"}]
    /\ woken \in SUBSET Thread
    /\ depth \in [Thread -> Nat]
    /\ nested \in [Thread -> Nat]

\* The functions passed to one queue never overlap: at most one coroutine is
\* inside, however the others arrive while it is suspended in a call.
MutualExclusion ==
    \A t, u \in Thread : pc[t] = "inside" /\ pc[u] = "inside" => t = u

\* assert(ref == 0) after skynet.wait() (queue.lua:29) never fails: between the
\* release that woke a coroutine and its resumption nobody else can get in.
WakeAssert ==
    \A t \in woken : pc[t] = "waiting" => ref = 0 /\ current_thread = t

\* The queue seen from outside: its holder followed by its waiters.
queueLine == IF current_thread = None THEN <<>>
             ELSE <<current_thread>> \o thread_queue

Serial == INSTANCE SerialQueue WITH line <- queueLine

\* skynet.queue implements the serial queue the services rely on: first come,
\* first served, one at a time, with the hand-over to the head of thread_queue.
ImplementsSerialQueue == Serial!SerialSpec

\* A coroutine that waits for the queue gets it.
WaiterServed == \A t \in Thread : pc[t] = "waiting" ~> pc[t] = "inside"
================================================================================
