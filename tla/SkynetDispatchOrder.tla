------------------------ MODULE SkynetDispatchOrder -------------------------
(***************************************************************************)
(* What the scheduler promises a service, for every set of workers, every  *)
(* weight and every number of services and messages: its messages come in  *)
(* the order in which they were sent, none before its init has ended, and  *)
(* the node does not end while it lives, unless it is the harbor.          *)
(***************************************************************************)
EXTENDS SkynetDispatchProofs

USE DEF nodeVars

\* A launch before it sets the init flag or takes the service out again.
Starting == {"init", "inited", "launched", "retire"}

\* A service in the handle table whose init flag is not set is still with the
\* thread that launches it; a dispatch has only services whose flag is set.
ReadyInv ==
    /\ \A h \in slot \ init : \E w \in Worker : child[w] = h /\ At(w) \in Starting
    /\ \A w \in Worker : ctx[w] # NoHandle => ctx[w] \in init

\* The turns that a dispatch has left are covered by its queue.
TurnOf(w) ==
    /\ pc[w] = "more" => left[w] < Len(mq[q[w]])
    /\ ctx[w] # NoHandle /\ pc[w] # "first" => left[w] <= Len(mq[q[w]])

TurnInv == \A w \in Worker : TurnOf(w)

\* The quit flag is set only when no context but the harbor's is left, and none
\* comes back.
QuitInv == quit => Live \subseteq {reserved} /\ Deleting = {}

\* REMOTE keeps the reserved context until the threads have ended.
HarborInv == reserved # NoHandle /\ REMOTE = NoHandle => Joined

\* The service in whose name w sends.
Source(w) == IF ret[w] = "inited" THEN child[w] ELSE q[w]

\* A message of a service or of the timer that is not in a queue yet.
Numbered(t) == pc[t] \in {"grabdst", "push"} /\ msg[t].id # 0

\* No number is used before it is given, and a thread sends only in the name
\* of the service that it runs.
FlightOf(t) ==
    /\ msg[t].id <= sent
    /\ Numbered(t) => IF t = Timer THEN msg[t].src = NoHandle
                      ELSE ret[t] \in {"calling", "inited"} /\ msg[t].src = Source(t)

FlightInv ==
    /\ \A t \in Thread : FlightOf(t)
    /\ \A h \in Handle : \A i \in 1..Len(mq[h]) : mq[h][i].id <= sent

\* Messages of one service are in order when the earlier one has the lower number.
FromService(m) == m.id # 0 /\ m.src # NoHandle
Before(m, n)   == FromService(n) /\ n.src = m.src => m.id < n.id

\* The messages of one source stand in a queue in the order of their numbers,
\* and before those still to be pushed.
OrderInv ==
    \A h \in Handle : \A i \in 1..Len(mq[h]) : FromService(mq[h][i]) =>
        /\ \A j \in (i + 1)..Len(mq[h]) : Before(mq[h][i], mq[h][j])
        /\ \A t \in Thread : Numbered(t) => Before(mq[h][i], msg[t])

-----------------------------------------------------------------------------
(* A step changes the registers of its own thread only                     *)

\* The registers are functions on the threads or the workers.
Registers ==
    /\ DOMAIN pc = Thread /\ DOMAIN ret = Thread /\ DOMAIN obj = Thread /\ DOMAIN msg = Thread
    /\ DOMAIN q = Worker /\ DOMAIN ctx = Worker /\ DOMAIN left = Worker /\ DOMAIN child = Worker

\* The registers have their domains.
LEMMA RegistersTyped == DispatchInv => Registers
  BY DEF DispatchInv, TypeOK, PcInv, Registers

\* A step of push or release changes the registers of its caller only.
LEMMA ThreadMoves ==
    ASSUME DispatchInv, NEW t \in Thread, ThreadStep(t)
    PROVE  Moves(t) /\ UNCHANGED <<workerVars, handle_index, slot, init, nodeVars, sent>>
<1> USE RegistersTyped DEF Registers, Moves, Goto, Return, callVars, workerVars, ctxVars
<1>1. CASE Release(t)
  BY <1>1 DEF Release
<1>2. CASE MarkRelease(t)
  BY <1>2 DEF MarkRelease
<1>3. CASE ContextDec(t)
  BY <1>3 DEF ContextDec
<1>4. CASE PushGrab(t)
  BY <1>4 DEF PushGrab
<1>5. CASE MqPush(t)
  BY <1>5 DEF MqPush
<1> QED BY <1>1, <1>2, <1>3, <1>4, <1>5 DEF ThreadStep

\* A step of a callback changes the registers of its worker only.
LEMMA CallbackMoves ==
    ASSUME DispatchInv, NEW w \in Worker, Callback(w)
    PROVE  Moves(w)
<1> USE RegistersTyped DEF Registers, Moves, Goto, Call, callVars, workerVars
<1>1. CASE CallbackReturn(w)
  BY <1>1 DEF CallbackReturn
<1>2. ASSUME NEW d \in Handle, Send(w, d) \/ Kill(w, d) \/ Launch(w, d) PROVE Moves(w)
  BY <1>2 DEF Send, Kill, Launch
<1>3. CASE InitSend(w) \/ InitEnd(w)
  BY <1>3 DEF InitSend, InitEnd
<1>4. CASE LaunchSetInit(w) \/ LaunchEnqueue(w)
  BY <1>4 DEF LaunchSetInit, LaunchEnqueue
<1>5. CASE LaunchRetire(w)
  BY <1>5 DEF LaunchRetire
<1>6. CASE HarborStart(w) \/ HarborSend(w)
  BY <1>6 DEF HarborStart, HarborSend
<1>7. ASSUME NEW d \in Handle, NEW s \in Handle, HarborForward(w, d, s) PROVE Moves(w)
  BY <1>7 DEF HarborForward
<1> QED BY <1>1, <1>2, <1>3, <1>4, <1>5, <1>6, <1>7 DEF Callback

\* A step of a worker changes its own registers only.
LEMMA WorkerMoves ==
    ASSUME DispatchInv, NEW w \in Worker, WorkerStep(w) \/ SpuriousWake(w)
    PROVE  Moves(w) /\ w \in Thread
<1>1. w \in Thread
  BY DEF Thread
<1> USE RegistersTyped DEF Registers, Moves, Goto, Call, callVars, workerVars, GiveUp
<1>2. CASE ThreadStep(w)
  BY <1>1, <1>2, ThreadMoves
<1>3. CASE Callback(w)
  BY <1>1, <1>3, CallbackMoves
<1>4. CASE Loop(w) \/ Sleep(w) \/ Wake(w) \/ SpuriousWake(w)
  BY <1>1, <1>4 DEF Loop, Sleep, Wake, SpuriousWake
<1>5. CASE GlobalPop(w) \/ Grab(w)
  BY <1>1, <1>5 DEF GlobalPop, Grab
<1>6. CASE MqPopMessage(w) \/ MqLength(w)
  BY <1>1, <1>6 DEF MqPopMessage, MqLength
<1>7. CASE MqPopEmpty(w)
  BY <1>1, <1>7 DEF MqPopEmpty
<1>8. CASE SwapPop(w) \/ SwapPush(w)
  BY <1>1, <1>8 DEF SwapPop, SwapPush
<1>9. CASE MqRelease(w)
  BY <1>1, <1>9 DEF MqRelease
<1>10. CASE Drop(w)
  BY <1>1, <1>10 DEF Drop
<1>11. CASE DropEnd(w)
  BY <1>1, <1>11 DEF DropEnd
<1> QED BY <1>2, <1>3, <1>4, <1>5, <1>6, <1>7, <1>8, <1>9, <1>10, <1>11 DEF WorkerStep

\* The timer thread wakes workers, and changes nothing else of theirs.
LEMMA TimerMoves ==
    ASSUME DispatchInv, (\E d \in Handle : TimerPush(d)) \/ TimerWakeup \/ TimerQuit
    PROVE  /\ UNCHANGED <<mqVars, ctxVars, workerVars>>
           /\ \A w \in Worker : /\ pc'[w] = pc[w] \/ (pc[w] = "waiting" /\ pc'[w] = "woken")
                                /\ ret'[w] = ret[w] /\ obj'[w] = obj[w] /\ msg'[w] = msg[w]
<1>1. Timer \notin Worker
  BY DispatchAssumption
<1>2. UNCHANGED <<mqVars, ctxVars, workerVars>>
  BY DEF TimerPush, TimerWakeup, TimerQuit
<1> SUFFICES ASSUME NEW w \in Worker
             PROVE  /\ pc'[w] = pc[w] \/ (pc[w] = "waiting" /\ pc'[w] = "woken")
                    /\ ret'[w] = ret[w] /\ obj'[w] = obj[w] /\ msg'[w] = msg[w]
  BY <1>2
<1>3. w \in Thread /\ w # Timer
  BY <1>1 DEF Thread
<1>4. CASE \E d \in Handle : TimerPush(d)
  BY <1>3, <1>4, RegistersTyped DEF TimerPush, Registers, Call, Goto
<1>5. CASE TimerWakeup
  <2>1. PICK v \in Worker : pc[v] = "waiting" /\ Goto(v, "woken")
    BY <1>5 DEF TimerWakeup, Waiting
  <2> QED BY <1>3, <1>5, <2>1, RegistersTyped DEF TimerWakeup, Registers, Goto, callVars
<1>6. CASE TimerQuit
  <2>1. pc'[w] = IF pc[w] = "waiting" THEN "woken" ELSE pc[w]
    BY <1>3, <1>6 DEF TimerQuit, Waiting
  <2> QED BY <1>6, <2>1 DEF TimerQuit, callVars
<1> QED BY <1>4, <1>5, <1>6

-----------------------------------------------------------------------------
(* No callback before init has ended                                       *)

\* What a step must do for ReadyInv: no new handle, no flag taken back, and a launch
\* not left before its flag is set.
LEMMA ReadyFrame ==
    ASSUME ReadyInv, NEW t \in Thread, Moves(t), slot' \subseteq slot, init \subseteq init',
           t \in Worker => /\ ctx'[t] \in init' \cup {ctx[t], NoHandle}
                           /\ At(t) \in Starting /\ child[t] \in slot' \ init' =>
                                 child'[t] = child[t] /\ At(t)' \in Starting
    PROVE  ReadyInv'
<1>1. \A w \in Worker : w # t => ctx'[w] = ctx[w] /\ child'[w] = child[w] /\ At(w)' = At(w)
  BY DEF Moves, At, Thread
<1>2. ASSUME NEW h \in slot' \ init' PROVE \E w \in Worker : child'[w] = h /\ At(w)' \in Starting
  <2>1. PICK w \in Worker : child[w] = h /\ At(w) \in Starting
    BY <1>2 DEF ReadyInv
  <2> QED BY <1>1, <1>2, <2>1
<1>3. ASSUME NEW w \in Worker, ctx'[w] # NoHandle PROVE ctx'[w] \in init'
  BY <1>1, <1>3 DEF ReadyInv
<1> QED BY <1>2, <1>3 DEF ReadyInv

\* A call keeps the thread's place, but for the launch of a service that was
\* deleted meanwhile: it goes on without setting the flag.
LEMMA ReadyCall ==
    ASSUME DispatchInv, ReadyInv, NEW t \in Thread, ThreadStep(t)
    PROVE  ReadyInv'
<1>1. Moves(t) /\ UNCHANGED <<workerVars, handle_index, slot, init, nodeVars, sent>>
  BY ThreadMoves
<1> SUFFICES ASSUME t \in Worker, At(t) \in Starting, child[t] \in slot
             PROVE  At(t)' \in Starting
  BY <1>1, ReadyFrame DEF workerVars
<1>2. CallOf(t) /\ pc[t] \in InCall /\ ret[t] \in Starting
  BY DEF DispatchInv, PcInv, ThreadStep, Release, MarkRelease, ContextDec, PushGrab, MqPush, InCall, At
<1>3. pc'[t] \in InCall => ret'[t] = ret[t]
  <2> USE RegistersTyped DEF Registers, Goto, Return, callVars, InCall, Starting
  <2>1. CASE Release(t)
    BY <1>2, <2>1 DEF Release
  <2>2. CASE MarkRelease(t)
    BY <2>2 DEF MarkRelease
  <2>3. CASE ContextDec(t)
    BY <1>2, <2>3 DEF ContextDec
  <2>4. CASE PushGrab(t)
    BY <1>2, <2>4 DEF PushGrab
  <2>5. CASE MqPush(t)
    BY <2>5 DEF MqPush
  <2> QED BY <2>1, <2>2, <2>3, <2>4, <2>5 DEF ThreadStep
<1>4. pc'[t] \notin InCall => pc'[t] = ret[t]
  <2> USE RegistersTyped DEF Registers, Goto, Return, callVars, InCall
  <2>1. CASE Release(t)
    BY <2>1 DEF Release
  <2>2. CASE MarkRelease(t)
    BY <2>2 DEF MarkRelease
  <2>3. CASE ContextDec(t)
    <3>1. pc[t] = "deleted" /\ release[obj[t]] /\ obj[t] \in Handle
      BY <1>2, <2>3 DEF ContextDec, DispatchInv, DeleteInv, TypeOK, CallOf
    <3>2. ref[obj[t]] = 0
      BY <3>1 DEF DispatchInv, DeleteInv
    <3>3. obj[t] \notin slot
      BY <3>1, <3>2, RefUse DEF DispatchInv
    <3>4. ret[t] # "launched"
      BY <1>2, <3>3 DEF CallOf, InLaunchCall
    <3> QED BY <2>3, <3>4 DEF ContextDec
  <2>4. CASE PushGrab(t)
    BY <2>4 DEF PushGrab
  <2>5. CASE MqPush(t)
    BY <2>5 DEF MqPush
  <2> QED BY <2>1, <2>2, <2>3, <2>4, <2>5 DEF ThreadStep
<1> QED BY <1>2, <1>3, <1>4 DEF At

\* A worker outside a launch has no service that is starting.
LEMMA ReadyElsewhere ==
    ASSUME ReadyInv, NEW w \in Worker, w \in Thread, Moves(w), slot' \subseteq slot, init \subseteq init',
           pc[w] \notin InCall \cup Starting, ctx'[w] \in init' \cup {ctx[w], NoHandle}
    PROVE  ReadyInv'
<1>1. At(w) \notin Starting
  BY DEF At
<1> QED BY <1>1, ReadyFrame

\* Callbacks keep ReadyInv; Launch is the one that adds a handle.
LEMMA ReadyCallback ==
    ASSUME DispatchInv, ReadyInv, NEW w \in Worker, Callback(w)
    PROVE  ReadyInv'
<1>1. w \in Thread /\ Moves(w)
  BY CallbackMoves DEF Thread
<1> USE DEF InCall, Starting
<1>2. CASE CallbackReturn(w)
  BY <1>1, <1>2, ReadyElsewhere DEF CallbackReturn, ctxVars
<1>3. ASSUME NEW d \in Handle, Send(w, d) \/ Kill(w, d) PROVE ReadyInv'
  BY <1>1, <1>3, ReadyElsewhere DEF Send, Kill, ctxVars, workerVars
<1>4. ASSUME NEW d \in Handle, Launch(w, d) PROVE ReadyInv'
  <2>1. /\ pc[w] = "calling" /\ slot' = slot \cup {d} /\ init' = init /\ ctx' = ctx
        /\ child' = [child EXCEPT ![w] = d] /\ Goto(w, "init")
    BY <1>4 DEF Launch
  <2>2. child'[w] = d /\ At(w)' = "init"
    BY <1>1, <2>1, RegistersTyped DEF Registers, Goto, At
  <2>3. At(w) \notin Starting
    BY <2>1 DEF At
  <2>4. \A v \in Worker : v # w => child'[v] = child[v] /\ At(v)' = At(v)
    BY <1>1 DEF Moves, At, Thread
  <2>5. ASSUME NEW h \in slot' \ init' PROVE \E v \in Worker : child'[v] = h /\ At(v)' \in Starting
    <3>1. CASE h = d
      BY <2>2, <3>1
    <3>2. CASE h # d
      <4>1. PICK v \in Worker : child[v] = h /\ At(v) \in Starting
        BY <2>1, <2>5, <3>2 DEF ReadyInv
      <4> QED BY <2>3, <2>4, <4>1
    <3> QED BY <3>1, <3>2
  <2> QED BY <2>1, <2>5 DEF ReadyInv
<1>5. CASE InitSend(w)
  <2>1. At(w)' = "inited" /\ UNCHANGED <<slot, init, ctx, child>>
    BY <1>1, <1>5, RegistersTyped DEF InitSend, Call, Goto, Registers, At, ctxVars, workerVars
  <2> QED BY <1>1, <2>1, ReadyFrame
<1>6. CASE InitEnd(w)
  <2>1. At(w)' \in {"launched", "retire"} /\ UNCHANGED <<slot, init, ctx, child>>
    BY <1>1, <1>6, RegistersTyped DEF InitEnd, Call, Goto, Registers, At, ctxVars, workerVars
  <2> QED BY <1>1, <2>1, ReadyFrame
<1>7. CASE LaunchSetInit(w)
  <2>1. init' = init \cup {child[w]} /\ UNCHANGED <<slot, ctx>>
    BY <1>7 DEF LaunchSetInit, workerVars
  <2> QED BY <1>1, <2>1, ReadyFrame
<1>8. CASE LaunchEnqueue(w)
  BY <1>1, <1>8, ReadyElsewhere DEF LaunchEnqueue, ctxVars
<1>9. CASE LaunchRetire(w)
  <2>1. slot' = slot \ {child[w]} /\ UNCHANGED <<init, ctx>>
    BY <1>9 DEF LaunchRetire, workerVars
  <2> QED BY <1>1, <2>1, ReadyFrame
<1>10. CASE HarborStart(w)
  <2>1. At(w)' = "launched" /\ UNCHANGED <<slot, init, ctx, child>>
    BY <1>1, <1>10, RegistersTyped DEF HarborStart, Call, Goto, Registers, At, workerVars
  <2> QED BY <1>1, <2>1, ReadyFrame
<1>11. CASE HarborSend(w)
  BY <1>1, <1>11, ReadyElsewhere DEF HarborSend, ctxVars, workerVars
<1>12. ASSUME NEW d \in Handle, NEW s \in Handle, HarborForward(w, d, s) PROVE ReadyInv'
  BY <1>1, <1>12, ReadyElsewhere DEF HarborForward, ctxVars, workerVars
<1> QED BY <1>2, <1>3, <1>4, <1>5, <1>6, <1>7, <1>8, <1>9, <1>10, <1>11, <1>12 DEF Callback

\* A dispatch grabs a service from the table: its queue is the worker's, so no
\* launch has it any more, and its flag is set.
LEMMA ReadyGrab ==
    ASSUME DispatchInv, ReadyInv, NEW w \in Worker, pc[w] = "grab", q[w] \in slot
    PROVE  q[w] \in init
<1> SUFFICES ASSUME q[w] \notin init PROVE FALSE
  OBVIOUS
<1>1. PICK v \in Worker : child[v] = q[w]
  BY DEF ReadyInv
<1>2. q[w] \in Handle /\ Has(w, q[w]) /\ QueueOf(w, q[w]) /\ ChildOf(v, q[w]) /\ Has(v, q[w])
  BY <1>1 DEF DispatchInv, TypeOK, Has, QueueOf, ChildOf
<1>3. v = w
  BY <1>2, SoleOwner DEF DispatchInv, TypeOK
<1> QED BY <1>2, <1>3, SoleOwner DEF DispatchInv, TypeOK

\* Every step keeps ReadyInv.
LEMMA ReadyStep ==
    ASSUME DispatchInv, ReadyInv, [Next]_vars
    PROVE  ReadyInv'
<1>1. ASSUME NEW w \in Worker, WorkerStep(w) \/ SpuriousWake(w) PROVE ReadyInv'
  <2>1. w \in Thread /\ Moves(w)
    BY <1>1, WorkerMoves
  <2>2. CASE ThreadStep(w)
    BY <2>1, <2>2, ReadyCall
  <2>3. CASE Callback(w)
    BY <2>3, ReadyCallback
  <2>4. CASE Grab(w)
    <3>1. pc[w] \notin InCall \cup Starting /\ UNCHANGED <<slot, init>>
      BY <2>4 DEF Grab, InCall, Starting
    <3>2. ctx'[w] \in init' \cup {ctx[w], NoHandle}
      BY <2>4, <3>1, ReadyGrab, RegistersTyped DEF Grab, Registers
    <3> QED BY <2>1, <3>1, <3>2, ReadyElsewhere
  <2>5. CASE Loop(w) \/ GlobalPop(w) \/ MqPopMessage(w) \/ MqLength(w)
             \/ Sleep(w) \/ Wake(w) \/ SpuriousWake(w)
    <3>1. pc[w] \notin InCall \cup Starting /\ UNCHANGED <<slot, init, ctx>>
      BY <2>5 DEF Loop, GlobalPop, MqPopMessage, MqLength, Sleep, Wake, SpuriousWake, InCall, Starting,
                  ctxVars, workerVars
    <3> QED BY <2>1, <3>1, ReadyElsewhere
  <2>6. CASE MqPopEmpty(w) \/ SwapPop(w) \/ SwapPush(w)
    <3>1. pc[w] \notin InCall \cup Starting /\ UNCHANGED <<slot, init>>
      BY <2>6 DEF MqPopEmpty, SwapPop, SwapPush, InCall, Starting, ctxVars
    <3>2. ctx'[w] \in {ctx[w], NoHandle}
      BY <2>6, RegistersTyped DEF MqPopEmpty, SwapPop, SwapPush, Registers
    <3> QED BY <2>1, <3>1, <3>2, ReadyElsewhere
  <2>7. CASE MqRelease(w) \/ Drop(w) \/ DropEnd(w)
    <3>1. pc[w] \notin InCall \cup Starting /\ UNCHANGED <<slot, init, ctx>>
      BY <2>7 DEF MqRelease, Drop, DropEnd, InCall, Starting, ctxVars, workerVars
    <3> QED BY <2>1, <3>1, ReadyElsewhere
  <2> QED BY <1>1, <2>2, <2>3, <2>4, <2>5, <2>6, <2>7 DEF WorkerStep
<1>2. ASSUME TimerStep PROVE ReadyInv'
  <2>1. CASE ThreadStep(Timer)
    BY <2>1, ReadyCall DEF Thread
  <2>2. CASE ~ ThreadStep(Timer)
    <3>1. /\ UNCHANGED <<mqVars, ctxVars, workerVars>>
          /\ \A w \in Worker : /\ pc'[w] = pc[w] \/ (pc[w] = "waiting" /\ pc'[w] = "woken")
                               /\ ret'[w] = ret[w] /\ obj'[w] = obj[w] /\ msg'[w] = msg[w]
      BY <1>2, <2>2, TimerMoves DEF TimerStep
    <3>2. \A w \in Worker : At(w) \in Starting => At(w)' = At(w)
      BY <3>1 DEF At, InCall, Starting
    <3> QED BY <3>1, <3>2 DEF ReadyInv, ctxVars, workerVars
  <2> QED BY <2>1, <2>2
<1>3. ASSUME UNCHANGED vars PROVE ReadyInv'
  BY <1>3 DEF ReadyInv, At, vars, ctxVars, callVars, workerVars
<1>4. ASSUME HarborExit PROVE ReadyInv'
  BY <1>4 DEF HarborExit, ReadyInv, At, callVars, workerVars
<1> QED BY <1>1, <1>2, <1>3, <1>4 DEF Next, Exit

\* dispatch_message's assert(ctx->init): no message is handled by a service
\* whose init has not ended.
THEOREM InitBeforeMessages == Spec => []InitFirst
<1>1. Init => ReadyInv
  BY DEF Init, ReadyInv
<1>2. DispatchInv /\ ReadyInv /\ [Next]_vars => ReadyInv'
  BY ReadyStep
<1>3. DispatchInv /\ ReadyInv => InitFirst
  <2> SUFFICES ASSUME DispatchInv, ReadyInv, NEW w \in Worker, pc[w] = "calling" PROVE q[w] \in init
    BY DEF InitFirst
  <2>1. RegistersAt(w, "calling")
    BY HereRegisters DEF InCall
  <2> QED BY <2>1 DEF RegistersAt, InDispatch, ReadyInv
<1> QED BY <1>1, <1>2, <1>3, Inductive, PTL DEF Spec

-----------------------------------------------------------------------------
(* The node ends when nothing but the harbor is left                       *)

\* A total of zero leaves nobody, or the reserved context alone.
LEMMA TotalZero ==
    ASSUME DispatchInv, HarborInv, ~ Joined, total = 0
    PROVE  Live \subseteq {reserved} /\ Deleting = {}
<1> DEFINE A == Live
           B == Deleting
<1>1. /\ A \in SUBSET Handle /\ B \in SUBSET Thread
      /\ 0 = Cardinality(A) + Cardinality(B) - (IF reserved = NoHandle THEN 0 ELSE 1)
  BY DEF Live, Deleting, DispatchInv, TotalInv
<1>2. reserved # NoHandle => reserved \in A
  <2> SUFFICES ASSUME reserved # NoHandle PROVE reserved \in A
    OBVIOUS
  <2>1. REMOTE = reserved /\ reserved \in Handle
    BY DEF HarborInv, DispatchInv, TypeOK
  <2> QED BY <2>1, RefUse DEF DispatchInv, Live
<1> HIDE DEF A, B
<1>3. /\ Cardinality(A) \in Nat /\ \A x \in A : Cardinality(A) >= 1
      /\ \A x, y \in A : x # y => Cardinality(A) >= 2
      /\ Cardinality(B) \in Nat /\ \A x \in B : Cardinality(B) >= 1
  BY <1>1, CountMembers, ThreadsFinite
<1>4. CASE reserved = NoHandle
  <2>1. Cardinality(A) = 0 /\ Cardinality(B) = 0
    BY <1>1, <1>3, <1>4
  <2> QED BY <1>3, <2>1 DEF A, B
<1>5. CASE reserved # NoHandle
  <2>1. Cardinality(A) = 1 /\ Cardinality(B) = 0
    BY <1>1, <1>2, <1>3, <1>5
  <2>2. ASSUME NEW y \in A PROVE y = reserved
    BY <1>2, <1>3, <1>5, <2>1
  <2>3. B = {}
    BY <1>3, <2>1
  <2> QED BY <2>2, <2>3 DEF A, B
<1> QED BY <1>4, <1>5

\* The service whose code a worker runs has a context in use.
LEMMA RunningLives ==
    ASSUME DispatchInv, NEW w \in Worker, Running(w) # NoHandle
    PROVE  Running(w) \in Live
<1>1. pc[w] \in {"init", "inited", "calling"} /\ w \in Thread
  BY DEF Running, Thread
<1>2. RegistersAt(w, pc[w])
  BY <1>1, HereRegisters DEF InCall
<1>3. CASE pc[w] = "calling"
  <2>1. Running(w) = q[w] /\ q[w] \in Handle /\ CtxRef(w, q[w])
    BY <1>2, <1>3 DEF Running, RegistersAt, InDispatch, CtxRef, DispatchInv, TypeOK
  <2> QED BY <1>1, <2>1, RefUse DEF DispatchInv, Live
<1>4. CASE pc[w] \in {"init", "inited"}
  <2>1. Running(w) = child[w] /\ child[w] \in Handle /\ ChildRef(w, child[w])
    BY <1>4 DEF Running, ChildRef, DispatchInv, TypeOK
  <2> QED BY <1>1, <2>1, RefUse DEF DispatchInv, Live
<1> QED BY <1>1, <1>3, <1>4

\* The reserved context stays REMOTE's while a thread runs.
LEMMA HarborStep ==
    ASSUME DispatchInv, HarborInv, [Next]_vars
    PROVE  HarborInv'
<1>1. ASSUME HarborExit PROVE HarborInv'
  BY <1>1 DEF HarborExit, HarborInv, Joined
<1>2. ASSUME NEW w \in Worker, HarborStart(w) PROVE HarborInv'
  BY <1>2 DEF HarborStart, HarborInv
<1>3. ASSUME UNCHANGED <<REMOTE, reserved>>, ~ Joined \/ pc' = pc PROVE HarborInv'
  BY <1>3 DEF HarborInv, Joined
<1>4. ASSUME NEW t \in Thread, pc[t] # "done" PROVE ~ Joined
  BY <1>4 DEF Joined
<1>5. ASSUME NEW t \in Thread, ThreadStep(t) PROVE HarborInv'
  <2>1. pc[t] # "done" /\ UNCHANGED nodeVars
    BY <1>5, ThreadMoves DEF ThreadStep, Release, MarkRelease, ContextDec, PushGrab, MqPush
  <2> QED BY <1>3, <1>4, <2>1
<1>6. ASSUME NEW w \in Worker, Callback(w), ~ HarborStart(w) PROVE HarborInv'
  <2>1. pc[w] # "done" /\ UNCHANGED nodeVars
    BY <1>6
    DEF Callback, CallbackReturn, Send, Kill, Launch, HarborSend, HarborForward, InitSend, InitEnd,
        LaunchSetInit, LaunchEnqueue, LaunchRetire
  <2> QED BY <1>3, <1>4, <2>1 DEF Thread
<1>7. ASSUME NEW w \in Worker, WorkerStep(w) \/ SpuriousWake(w), ~ ThreadStep(w), ~ Callback(w)
      PROVE  HarborInv'
  <2>1. pc[w] # "done" /\ UNCHANGED nodeVars
    BY <1>7
    DEF WorkerStep, Loop, GlobalPop, Grab, MqPopMessage, MqPopEmpty, MqLength, SwapPop, SwapPush,
        MqRelease, Drop, DropEnd, Sleep, Wake, SpuriousWake
  <2> QED BY <1>3, <1>4, <2>1 DEF Thread
<1>8. ASSUME TimerStep PROVE HarborInv'
  <2>1. Timer \in Thread
    BY DEF Thread
  <2>2. CASE ~ ThreadStep(Timer)
    BY <1>3, <1>4, <1>8, <2>1, <2>2 DEF TimerStep, TimerPush, TimerWakeup, TimerQuit
  <2> QED BY <1>5, <2>1, <2>2
<1>9. ASSUME UNCHANGED vars PROVE HarborInv'
  BY <1>3, <1>9 DEF vars
<1> QED BY <1>1, <1>2, <1>5, <1>6, <1>7, <1>8, <1>9 DEF Next, Exit, Thread

\* A call returns to code outside of push and release.
LEMMA ReturnsOutside ==
    ASSUME DispatchInv, NEW t \in Thread, pc[t] \in InCall
    PROVE  ret[t] \notin InCall
<1>1. CallOf(t)
  BY DEF DispatchInv, PcInv
<1>2. t = Timer \/ t \in Worker
  BY DEF Thread
<1>3. ret[t] \in {"tick", "loop", "next", "calling", "drop"} \cup InLaunchCall
  BY <1>1, <1>2 DEF CallOf
<1> QED BY <1>3 DEF InCall, InLaunchCall

\* A step that gives no dead context a reference and sends no thread to delete one.
LEMMA QuitFrame ==
    ASSUME QuitInv, UNCHANGED <<quit, reserved>>,
           \A h \in Handle : ref'[h] > 0 => ref[h] > 0,
           \A t \in Thread : pc'[t] \in {"delete", "deleted"} => pc[t] \in {"delete", "deleted"}
    PROVE  QuitInv'
  BY DEF QuitInv, Live, Deleting

\* The reserved context is not deleted while a thread runs: REMOTE has one more
\* reference than the one that is given back.
LEMMA QuitRelease ==
    ASSUME DispatchInv, QuitInv, HarborInv, NEW t \in Thread, Release(t)
    PROVE  QuitInv'
<1> SUFFICES ASSUME quit PROVE QuitInv'
  BY DEF QuitInv, Release
<1> DEFINE x == obj[t]
<1>1. /\ pc[t] = "release" /\ ref' = [ref EXCEPT ![x] = @ - 1] /\ UNCHANGED <<quit, reserved>>
      /\ ref[x] # 1 => Return(t, ret[t])
  BY DEF Release
<1>2. x \in Handle /\ ObjRef(t, x)
  BY <1>1 DEF DispatchInv, PcInv, CallOf, InCall, TypeOK, ObjRef
<1>3. ref[x] > 0 /\ ref \in [Handle -> Nat]
  BY <1>2, RefUse DEF DispatchInv, TypeOK
<1>4. reserved = x
  BY <1>2, <1>3 DEF QuitInv, Live
<1>5. REMOTE = x
  BY <1>1, <1>2, <1>4 DEF HarborInv, Joined, DispatchInv, TypeOK, Handle, NoHandle
<1>6. Held(t, x) >= 1 /\ Held(t, x) \in Nat
  BY <1>2 DEF Held
<1>7. ref[x] >= 1 + Held(t, x)
  BY <1>2, <1>5, RefUse DEF DispatchInv
<1>8. ref[x] # 1
  BY <1>2, <1>3, <1>6, <1>7
<1>9. \A h \in Handle : ref'[h] > 0 => ref[h] > 0
  BY <1>1, <1>2, <1>3
<1>10. ret[t] \notin InCall
  BY <1>1, ReturnsOutside DEF InCall
<1>11. \A u \in Thread : pc'[u] \in {"delete", "deleted"} => pc[u] \in {"delete", "deleted"}
  BY <1>1, <1>8, <1>10, RegistersTyped DEF Return, Goto, Registers, InCall
<1> QED BY <1>1, <1>9, <1>11, QuitFrame

\* Every step keeps QuitInv: with no other context left nobody can launch.
LEMMA QuitStep ==
    ASSUME DispatchInv, QuitInv, HarborInv, [Next]_vars
    PROVE  QuitInv'
<1>1. ASSUME NEW t \in Thread, ThreadStep(t) PROVE QuitInv'
  <2>1. UNCHANGED <<quit, reserved>> /\ Moves(t)
    BY <1>1, ThreadMoves
  <2>2. CASE MarkRelease(t) \/ ContextDec(t)
    <3>1. ~ quit
      BY <2>2 DEF MarkRelease, ContextDec, QuitInv, Deleting
    <3> QED BY <2>1, <3>1 DEF QuitInv
  <2>3. CASE PushGrab(t)
    <3>1. \A h \in Handle : ref'[h] > 0 => ref[h] > 0
      BY <2>3, RefUse DEF PushGrab, DispatchInv, TypeOK
    <3>2. ret[t] \notin InCall
      BY <2>3, ReturnsOutside DEF PushGrab, InCall
    <3>3. \A u \in Thread : pc'[u] \in {"delete", "deleted"} => pc[u] \in {"delete", "deleted"}
      BY <2>3, <3>2, RegistersTyped DEF PushGrab, Return, Goto, Registers, InCall
    <3> QED BY <2>1, <3>1, <3>3, QuitFrame
  <2>4. CASE MqPush(t)
    <3>1. ref' = ref /\ \A u \in Thread : pc'[u] \in {"delete", "deleted"} => pc[u] \in {"delete", "deleted"}
      BY <2>4, RegistersTyped DEF MqPush, Goto, Registers, ctxVars
    <3> QED BY <2>1, <3>1, QuitFrame
  <2> QED BY <1>1, <2>2, <2>3, <2>4, QuitRelease DEF ThreadStep
<1>2. ASSUME NEW w \in Worker, Moves(w), pc'[w] \notin {"delete", "deleted"}
      PROVE  \A t \in Thread : pc'[t] \in {"delete", "deleted"} => pc[t] \in {"delete", "deleted"}
  BY <1>2 DEF Moves
<1>3. ASSUME NEW w \in Worker, Callback(w) PROVE QuitInv'
  <2>1. Moves(w) /\ w \in Thread
    BY <1>3, CallbackMoves DEF Thread
  <2>2. ASSUME NEW h \in Handle, Launch(w, h) PROVE QuitInv'
    <3>1. pc[w] = "calling" /\ q[w] # REMOTE /\ UNCHANGED <<quit, reserved>>
      BY <2>2 DEF Launch
    <3>2. RegistersAt(w, "calling")
      BY <3>1, HereRegisters DEF InCall
    <3>3. Running(w) = q[w] /\ q[w] # NoHandle
      BY <3>1, <3>2 DEF Running, RegistersAt, InDispatch
    <3>4. q[w] \in Live /\ ~ Joined
      BY <2>1, <3>1, <3>3, RunningLives DEF Joined
    <3>5. q[w] # reserved
      BY <3>1, <3>3, <3>4 DEF HarborInv, DispatchInv, TypeOK
    <3> QED BY <3>1, <3>4, <3>5 DEF QuitInv
  <2>3. CASE HarborStart(w)
    <3>1. pc[w] = "init" /\ reserved = NoHandle /\ quit' = quit
      BY <2>3 DEF HarborStart
    <3>2. RegistersAt(w, "init")
      BY <3>1, HereRegisters DEF InCall
    <3>3. Running(w) # NoHandle
      BY <3>1, <3>2 DEF Running, RegistersAt, InLaunch, InDispatch
    <3>4. Running(w) \in Live
      BY <3>3, RunningLives
    <3> QED BY <3>1, <3>3, <3>4 DEF QuitInv
  <2>4. ASSUME UNCHANGED <<quit, reserved, ref>>, pc'[w] \notin {"delete", "deleted"} PROVE QuitInv'
    BY <1>2, <2>1, <2>4, QuitFrame
  <2>5. ASSUME NEW d \in Handle, Send(w, d) \/ Kill(w, d) PROVE QuitInv'
    BY <2>1, <2>4, <2>5, RegistersTyped DEF Send, Kill, Call, Goto, Registers, ctxVars
  <2>6. ASSUME NEW d \in Handle, NEW s \in Handle, HarborForward(w, d, s) PROVE QuitInv'
    BY <2>1, <2>4, <2>6, RegistersTyped DEF HarborForward, Call, Goto, Registers, ctxVars
  <2>7. CASE CallbackReturn(w) \/ HarborSend(w)
    BY <2>1, <2>4, <2>7, RegistersTyped DEF CallbackReturn, HarborSend, Goto, Registers, ctxVars
  <2>8. CASE InitSend(w) \/ InitEnd(w)
    BY <2>1, <2>4, <2>8, RegistersTyped DEF InitSend, InitEnd, Call, Goto, Registers, ctxVars
  <2>9. CASE LaunchSetInit(w) \/ LaunchEnqueue(w) \/ LaunchRetire(w)
    BY <2>1, <2>4, <2>9, RegistersTyped
    DEF LaunchSetInit, LaunchEnqueue, LaunchRetire, Call, Goto, Registers, ctxVars
  <2> QED BY <1>3, <2>2, <2>3, <2>5, <2>6, <2>7, <2>8, <2>9 DEF Callback
<1>4. ASSUME NEW w \in Worker, WorkerStep(w) \/ SpuriousWake(w) PROVE QuitInv'
  <2>1. Moves(w) /\ w \in Thread
    BY <1>4, WorkerMoves
  <2>2. ASSUME UNCHANGED <<quit, reserved, ref>>, pc'[w] \notin {"delete", "deleted"} PROVE QuitInv'
    BY <1>2, <2>1, <2>2, QuitFrame
  <2>3. CASE Grab(w)
    <3>1. \A h \in Handle : ref'[h] > 0 => ref[h] > 0
      BY <2>3, RefUse DEF Grab, DispatchInv, TypeOK
    <3>2. UNCHANGED <<quit, reserved>> /\ pc'[w] \notin {"delete", "deleted"}
      BY <2>1, <2>3, RegistersTyped DEF Grab, Goto, Registers
    <3> QED BY <1>2, <2>1, <3>1, <3>2, QuitFrame
  <2>4. CASE Loop(w) \/ Sleep(w) \/ Wake(w) \/ SpuriousWake(w) \/ GlobalPop(w)
    BY <2>1, <2>2, <2>4, RegistersTyped
    DEF Loop, Sleep, Wake, SpuriousWake, GlobalPop, Goto, Registers, ctxVars
  <2>5. CASE MqPopMessage(w) \/ MqPopEmpty(w) \/ MqLength(w)
    BY <2>1, <2>2, <2>5, RegistersTyped
    DEF MqPopMessage, MqPopEmpty, MqLength, Call, Goto, Registers, ctxVars
  <2>6. CASE SwapPop(w) \/ SwapPush(w)
    BY <2>1, <2>2, <2>6, RegistersTyped DEF SwapPop, SwapPush, Call, Goto, Registers, ctxVars
  <2>7. CASE MqRelease(w) \/ DropEnd(w)
    BY <2>1, <2>2, <2>7, RegistersTyped DEF MqRelease, DropEnd, GiveUp, Goto, Registers, ctxVars
  <2>8. CASE Drop(w)
    BY <2>1, <2>2, <2>8, RegistersTyped DEF Drop, Call, Goto, Registers, ctxVars
  <2> QED BY <1>1, <1>3, <1>4, <2>1, <2>3, <2>4, <2>5, <2>6, <2>7, <2>8 DEF WorkerStep
<1>5. ASSUME TimerStep PROVE QuitInv'
  <2>1. Timer \in Thread /\ Timer \notin Worker
    BY DispatchAssumption DEF Thread
  <2>2. CASE TimerQuit
    <3>1. pc[Timer] = "tick" /\ total = 0 /\ UNCHANGED <<reserved, ref>>
      BY <2>2 DEF TimerQuit, ctxVars
    <3>2. Live \subseteq {reserved} /\ Deleting = {}
      BY <2>1, <3>1, TotalZero DEF Joined
    <3>3. pc' = [t \in Thread |-> CASE t = Timer -> "done" [] t \in Waiting -> "woken" [] OTHER -> pc[t]]
      BY <2>2 DEF TimerQuit
    <3>4. \A t \in Thread : pc'[t] \in {"done", "woken", pc[t]}
      BY <3>3
    <3> QED BY <3>1, <3>2, <3>4 DEF QuitInv, Live, Deleting
  <2>3. CASE TimerWakeup
    <3>1. PICK v \in Worker : Goto(v, "woken")
      BY <2>3 DEF TimerWakeup, Waiting
    <3>2. UNCHANGED <<quit, reserved, ref>>
      BY <2>3 DEF TimerWakeup, ctxVars
    <3>3. \A t \in Thread : pc'[t] \in {"woken", pc[t]}
      BY <3>1, RegistersTyped DEF Goto, Registers
    <3> QED BY <3>2, <3>3, QuitFrame
  <2>4. ASSUME NEW d \in Handle, TimerPush(d) PROVE QuitInv'
    <3>1. UNCHANGED <<quit, reserved, ref>> /\ \A t \in Thread : pc'[t] \in {"grabdst", pc[t]}
      BY <2>4, RegistersTyped DEF TimerPush, Call, Goto, Registers, ctxVars
    <3> QED BY <3>1, QuitFrame
  <2> QED BY <1>1, <1>5, <2>1, <2>2, <2>3, <2>4 DEF TimerStep
<1>6. ASSUME HarborExit PROVE QuitInv'
  <2>1. UNCHANGED <<quit, reserved, pc>> /\ ref' = [ref EXCEPT ![REMOTE] = @ - 1]
    BY <1>6 DEF HarborExit
  <2>2. \A h \in Handle : ref'[h] > 0 => ref[h] > 0
    BY <2>1 DEF DispatchInv, TypeOK
  <2> QED BY <2>1, <2>2, QuitFrame
<1>7. ASSUME UNCHANGED vars PROVE QuitInv'
  BY <1>7, QuitFrame DEF vars, ctxVars
<1> QED BY <1>4, <1>5, <1>6, <1>7 DEF Next, Exit

\* The node ends only when every service but the reserved harbor is gone
\* (CHECK_ABORT reads a count that skynet_context_reserve took the harbor out
\* of), and no other callback runs.
THEOREM QuitsWhenDead == Spec => []QuitWhenDead
<1>1. Init => QuitInv /\ HarborInv
  BY DEF Init, QuitInv, HarborInv
<1>2. DispatchInv /\ QuitInv /\ HarborInv /\ [Next]_vars => QuitInv' /\ HarborInv'
  BY QuitStep, HarborStep
<1>3. DispatchInv /\ QuitInv => QuitWhenDead
  <2> SUFFICES ASSUME DispatchInv, Live \subseteq {reserved}
               PROVE  /\ slot \subseteq {reserved}
                      /\ \A h \in Handle \ {reserved} : ref[h] = 0
                      /\ \A w \in Worker : Running(w) \in {NoHandle, reserved}
    BY DEF QuitWhenDead, QuitInv
  <2>1. \A h \in Handle \ {reserved} : ref[h] = 0
    <3>1. \A h \in Handle : ref[h] \in Nat
      BY DEF DispatchInv, TypeOK
    <3> QED BY <3>1 DEF Live
  <2>2. slot \subseteq {reserved}
    <3>1. slot \subseteq Handle
      BY DEF DispatchInv, TypeOK
    <3>2. \A h \in slot : h \in Live
      BY <3>1, RefUse DEF DispatchInv, Live
    <3> QED BY <3>2
  <2> QED BY <2>1, <2>2, RunningLives
<1> QED BY <1>1, <1>2, <1>3, Inductive, PTL DEF Spec

-----------------------------------------------------------------------------
(* The turns of a dispatch                                                 *)

\* Where w has a context it is that of its queue.
LEMMA DispatchedQueue ==
    ASSUME DispatchInv, NEW w \in Worker, pc[w] = "more" \/ ctx[w] # NoHandle
    PROVE  q[w] \in Handle /\ ctx[w] = q[w] /\ q[w] # child[w]
<1>1. At(w) \in WorkerAt
  <2>1. pc[w] \in Location /\ CallOf(w) /\ w # Timer
    BY DispatchAssumption DEF DispatchInv, PcInv, Thread
  <2>2. pc[w] \in InCall => ret[w] \in WorkerAt
    BY <2>1 DEF CallOf, InLaunchCall, WorkerAt, Outside, HasNoQueue, InDispatch, InLaunch, InDrop
  <2>3. pc[w] \notin InCall => pc[w] \in WorkerAt
    BY <2>1 DEF CallOf, Location
  <2> QED BY <2>2, <2>3 DEF At
<1>2. RegistersAt(w, At(w))
  BY DEF DispatchInv, WorkerInv, RegistersOf
<1>3. pc[w] = "more" => At(w) \in InDispatch
  BY DEF At, InCall, InDispatch
<1>4. ctx[w] = q[w] /\ q[w] # NoHandle
  BY <1>1, <1>2, <1>3 DEF RegistersAt, WorkerAt
<1>5. q[w] \in Handle /\ Has(w, q[w]) /\ QueueOf(w, q[w])
  BY <1>4 DEF DispatchInv, TypeOK, Has, QueueOf
<1>6. ~ ChildOf(w, q[w])
  BY <1>5, SoleOwner DEF DispatchInv, TypeOK
<1> QED BY <1>4, <1>5, <1>6 DEF ChildOf

\* Other threads may add to a queue that is being dispatched and not take from it.
LEMMA TurnFrame ==
    ASSUME DispatchInv, TurnInv, NEW t \in Thread, Moves(t), mq' \in [Handle -> Seq(Message)],
           \A w \in Worker : w # t /\ q[w] \in Handle /\ ctx[w] = q[w] => Len(mq'[q[w]]) >= Len(mq[q[w]]),
           t \in Worker => TurnOf(t)'
    PROVE  TurnInv'
<1> SUFFICES ASSUME NEW w \in Worker, w # t PROVE TurnOf(w)'
  BY DEF TurnInv, TurnOf
<1>1. pc'[w] = pc[w] /\ left'[w] = left[w] /\ q'[w] = q[w] /\ ctx'[w] = ctx[w]
  BY DEF Moves, Thread
<1>2. TurnOf(w) /\ left[w] \in Nat
  BY DEF TurnInv, TurnOf, DispatchInv, TypeOK
<1>3. ASSUME pc[w] = "more" \/ ctx[w] # NoHandle
      PROVE  /\ Len(mq'[q[w]]) >= Len(mq[q[w]])
             /\ Len(mq'[q[w]]) \in Nat /\ Len(mq[q[w]]) \in Nat
  <2>1. q[w] \in Handle /\ ctx[w] = q[w]
    BY <1>3, DispatchedQueue
  <2>2. mq[q[w]] \in Seq(Message) /\ mq'[q[w]] \in Seq(Message)
    BY <2>1 DEF DispatchInv, TypeOK
  <2> QED BY <2>1, <2>2, LenProperties
<1>4. pc[w] = "more" => left[w] < Len(mq'[q[w]])
  BY <1>2, <1>3 DEF TurnOf
<1>5. ctx[w] # NoHandle /\ pc[w] # "first" => left[w] <= Len(mq'[q[w]])
  BY <1>2, <1>3 DEF TurnOf
<1> QED BY <1>1, <1>4, <1>5 DEF TurnOf

\* A step that takes no message from a queue and does not go round the loop.
LEMMA TurnElsewhere ==
    ASSUME DispatchInv, TurnInv, NEW t \in Thread, Moves(t), mq' = mq,
           t \in Worker =>
              /\ pc'[t] # "more"
              /\ \/ ctx'[t] = NoHandle
                 \/ pc'[t] = "first"
                 \/ pc[t] # "first" /\ ctx'[t] = ctx[t] /\ q'[t] = q[t] /\ left'[t] = left[t]
    PROVE  TurnInv'
<1>1. t \in Worker => TurnOf(t)'
  BY DEF TurnInv, TurnOf
<1>2. mq' \in [Handle -> Seq(Message)]
  BY DEF DispatchInv, TypeOK
<1>3. \A w \in Worker : w # t /\ q[w] \in Handle /\ ctx[w] = q[w] => Len(mq'[q[w]]) >= Len(mq[q[w]])
  <2> SUFFICES ASSUME NEW w \in Worker, q[w] \in Handle PROVE Len(mq[q[w]]) >= Len(mq[q[w]])
    OBVIOUS
  <2>1. Len(mq[q[w]]) \in Nat
    BY LenProperties DEF DispatchInv, TypeOK
  <2> QED BY <2>1
<1> QED BY <1>1, <1>2, <1>3, TurnFrame

\* A message is appended to a queue by a thread that does not go round the loop.
LEMMA TurnAppend ==
    ASSUME DispatchInv, TurnInv, NEW t \in Thread, Moves(t), UNCHANGED workerVars,
           NEW x \in Handle, NEW m \in Message, mq' = [mq EXCEPT ![x] = Append(@, m)],
           pc[t] # "first", pc'[t] # "more"
    PROVE  TurnInv'
<1>1. mq \in [Handle -> Seq(Message)]
  BY DEF DispatchInv, TypeOK
<1>2. ASSUME NEW h \in Handle
      PROVE  /\ mq'[h] \in Seq(Message) /\ Len(mq[h]) \in Nat /\ Len(mq'[h]) \in Nat
             /\ Len(mq'[h]) >= Len(mq[h])
  <2>1. mq'[h] = IF h = x THEN Append(mq[h], m) ELSE mq[h]
    BY <1>1
  <2>2. /\ mq[h] \in Seq(Message) /\ Append(mq[h], m) \in Seq(Message)
        /\ Len(Append(mq[h], m)) = Len(mq[h]) + 1
    BY <1>1, AppendProperties
  <2>3. Len(mq[h]) \in Nat
    BY <2>2, LenProperties
  <2> QED BY <2>1, <2>2, <2>3
<1>3. mq' \in [Handle -> Seq(Message)]
  BY <1>1, <1>2
<1>4. ASSUME t \in Worker PROVE TurnOf(t)'
  <2>1. TurnOf(t) /\ left[t] \in Nat
    BY <1>4 DEF TurnInv, DispatchInv, TypeOK
  <2>2. ctx[t] # NoHandle => q[t] \in Handle
    BY <1>4, DispatchedQueue
  <2>3. ctx[t] # NoHandle => left[t] <= Len(mq'[q[t]])
    BY <1>2, <2>1, <2>2 DEF TurnOf
  <2> QED BY <2>3 DEF TurnOf, workerVars
<1> QED BY <1>2, <1>3, <1>4, TurnFrame

\* Push and release keep TurnInv: they only append.
LEMMA TurnCall ==
    ASSUME DispatchInv, TurnInv, NEW t \in Thread, ThreadStep(t)
    PROVE  TurnInv'
<1>1. Moves(t) /\ UNCHANGED workerVars
  BY ThreadMoves
<1>2. CallOf(t) /\ pc[t] \in InCall
  BY DEF DispatchInv, PcInv, ThreadStep, Release, MarkRelease, ContextDec, PushGrab, MqPush, InCall
<1>3. t \in Worker => ret[t] # "more"
  BY <1>2 DEF CallOf, InLaunchCall
<1>4. CASE ~ MqPush(t)
  <2>1. mq' = mq
    BY <1>4 DEF ThreadStep, Release, MarkRelease, ContextDec, PushGrab, mqVars
  <2>2. pc'[t] \in {"delete", "deleted", "push", "enqueue", ret[t]}
    BY <1>4, RegistersTyped
    DEF ThreadStep, Release, MarkRelease, ContextDec, PushGrab, Registers, Goto, Return
  <2> QED BY <1>1, <1>2, <1>3, <2>1, <2>2, TurnElsewhere DEF InCall, workerVars
<1>5. CASE MqPush(t)
  <2>1. obj[t] \in Handle /\ mq' = [mq EXCEPT ![obj[t]] = Append(@, msg[t])] /\ pc[t] = "push"
    BY <1>2, <1>5 DEF MqPush, CallOf, DispatchInv, TypeOK
  <2>2. pc'[t] = "release"
    BY <1>5, RegistersTyped DEF MqPush, Registers, Goto
  <2>3. msg[t] \in Message
    BY DEF DispatchInv, TypeOK
  <2> QED BY <1>1, <2>1, <2>2, <2>3, TurnAppend
<1> QED BY <1>4, <1>5

\* skynet_mq_pop of w, or _drop_queue, takes a message of a queue that is w's.
LEMMA TurnTake ==
    ASSUME DispatchInv, TurnInv, NEW w \in Worker, Moves(w), NEW x \in Handle, Has(w, x), mq[x] # <<>>,
           mq' = [mq EXCEPT ![x] = Tail(@)], TurnOf(w)'
    PROVE  TurnInv'
<1>1. /\ mq' \in [Handle -> Seq(Message)]
      /\ \A g \in Handle : g # x => mq'[g] = mq[g]
  BY PopTypes
<1>2. ASSUME NEW u \in Worker, u # w, q[u] \in Handle PROVE Len(mq'[q[u]]) >= Len(mq[q[u]])
  <2>1. q[u] # x
    BY <1>2, SoleOwner DEF Has, QueueOf, DispatchInv, TypeOK
  <2>2. Len(mq[q[u]]) \in Nat
    BY <1>2, LenProperties DEF DispatchInv, TypeOK
  <2> QED BY <1>1, <1>2, <2>1, <2>2
<1> QED BY <1>1, <1>2, TurnFrame DEF Thread

\* Callbacks keep TurnInv.
LEMMA TurnCallback ==
    ASSUME DispatchInv, TurnInv, NEW w \in Worker, Callback(w)
    PROVE  TurnInv'
<1>1. w \in Thread /\ Moves(w)
  BY CallbackMoves DEF Thread
<1>2. CASE CallbackReturn(w)
  <2>1. /\ pc[w] = "calling" /\ pc'[w] = IF left[w] > 0 THEN "more" ELSE "swap"
        /\ left'[w] = IF left[w] > 0 THEN left[w] - 1 ELSE 0
        /\ UNCHANGED <<mq, q, ctx>>
    BY <1>1, <1>2, RegistersTyped DEF CallbackReturn, Registers, Goto, mqVars
  <2>2. RegistersAt(w, "calling")
    BY <2>1, HereRegisters DEF InCall
  <2>3. q[w] \in Handle /\ ctx[w] # NoHandle
    BY <2>2 DEF RegistersAt, InDispatch, DispatchInv, TypeOK
  <2>4. Len(mq[q[w]]) \in Nat /\ left[w] \in Nat /\ left[w] <= Len(mq[q[w]])
    BY <2>1, <2>3, LenProperties DEF DispatchInv, TypeOK, TurnInv, TurnOf
  <2>5. TurnOf(w)'
    BY <2>1, <2>4 DEF TurnOf
  <2>6. \A u \in Worker : q[u] \in Handle => Len(mq'[q[u]]) >= Len(mq[q[u]])
    <3> SUFFICES ASSUME NEW u \in Worker, q[u] \in Handle PROVE Len(mq[q[u]]) >= Len(mq[q[u]])
      BY <2>1
    <3>1. Len(mq[q[u]]) \in Nat
      BY LenProperties DEF DispatchInv, TypeOK
    <3> QED BY <3>1
  <2>7. mq' \in [Handle -> Seq(Message)]
    BY <2>1 DEF DispatchInv, TypeOK
  <2> QED BY <1>1, <2>5, <2>6, <2>7, TurnFrame
<1>3. ASSUME pc[w] # "first", pc'[w] # "more", UNCHANGED <<mq, q, ctx, left>> PROVE TurnInv'
  BY <1>1, <1>3, TurnElsewhere
<1>4. ASSUME NEW d \in Handle, Send(w, d) \/ Kill(w, d) \/ Launch(w, d) PROVE TurnInv'
  BY <1>1, <1>3, <1>4, RegistersTyped DEF Send, Kill, Launch, Registers, Call, Goto, mqVars, workerVars
<1>5. CASE InitSend(w) \/ InitEnd(w)
  BY <1>1, <1>3, <1>5, RegistersTyped DEF InitSend, InitEnd, Registers, Call, Goto, mqVars, workerVars
<1>6. CASE LaunchSetInit(w) \/ LaunchEnqueue(w) \/ LaunchRetire(w)
  BY <1>1, <1>3, <1>6, RegistersTyped
  DEF LaunchSetInit, LaunchEnqueue, LaunchRetire, Registers, Call, Goto, mqVars, workerVars
<1>7. CASE HarborStart(w)
  BY <1>1, <1>3, <1>7, RegistersTyped DEF HarborStart, Registers, Call, Goto, mqVars, workerVars
<1>8. ASSUME NEW d \in Handle, NEW s \in Handle, HarborForward(w, d, s) PROVE TurnInv'
  BY <1>1, <1>3, <1>8, RegistersTyped DEF HarborForward, Registers, Call, Goto, mqVars, workerVars
<1>9. CASE HarborSend(w)
  <2>1. /\ pc[w] = "calling" /\ UNCHANGED <<pc, workerVars>>
        /\ mq' = [mq EXCEPT ![REMOTE] = Append(@, [id |-> sent + 1, src |-> q[w]])]
    BY <1>9 DEF HarborSend
  <2>2. REMOTE \in Handle /\ [id |-> sent + 1, src |-> q[w]] \in Message
    BY <1>9, DispatchAssumption DEF HarborSend, DispatchInv, TypeOK, Message
  <2> QED BY <1>1, <2>1, <2>2, TurnAppend
<1> QED BY <1>2, <1>4, <1>5, <1>6, <1>7, <1>8, <1>9 DEF Callback

\* n = skynet_mq_length(q) >> weight: no more turns than the queue has messages.
LEMMA TurnLength ==
    ASSUME DispatchInv, TurnInv, NEW w \in Worker, MqLength(w)
    PROVE  TurnInv'
<1> DEFINE n == Len(mq[q[w]]) \div 2 ^ Weight[w]
<1>1. w \in Thread /\ Moves(w)
  BY WorkerMoves DEF WorkerStep
<1>2. /\ pc[w] = "length" /\ pc'[w] = "calling" /\ left'[w] = IF n = 0 THEN 0 ELSE n - 1
      /\ UNCHANGED <<mq, q, ctx>>
  BY <1>1, RegistersTyped DEF MqLength, Registers, Goto, mqVars
<1>3. RegistersAt(w, "length")
  BY <1>2, HereRegisters DEF InCall
<1>4. q[w] \in Handle /\ Weight[w] \in Nat
  BY <1>3 DEF RegistersAt, InDispatch, DispatchInv, TypeOK
<1>5. Len(mq[q[w]]) \in Nat
  BY <1>4, LenProperties DEF DispatchInv, TypeOK
<1>6. n \in Nat /\ n <= Len(mq[q[w]])
  BY <1>4, <1>5, ShiftBound
<1> HIDE DEF n
<1>7. TurnOf(w)'
  BY <1>2, <1>5, <1>6 DEF TurnOf
<1>8. \A u \in Worker : q[u] \in Handle => Len(mq'[q[u]]) >= Len(mq[q[u]])
  <2> SUFFICES ASSUME NEW u \in Worker, q[u] \in Handle PROVE Len(mq[q[u]]) >= Len(mq[q[u]])
    BY <1>2
  <2>1. Len(mq[q[u]]) \in Nat
    BY LenProperties DEF DispatchInv, TypeOK
  <2> QED BY <2>1
<1>9. mq' \in [Handle -> Seq(Message)]
  BY <1>2 DEF DispatchInv, TypeOK
<1> QED BY <1>1, <1>7, <1>8, <1>9, TurnFrame

\* One message less, one turn less.
LEMMA TurnPop ==
    ASSUME DispatchInv, TurnInv, NEW w \in Worker, MqPopMessage(w)
    PROVE  TurnInv'
<1> DEFINE x == q[w]
<1>1. Moves(w) /\ w \in Thread
  BY WorkerMoves DEF WorkerStep
<1>2. /\ pc[w] \in {"first", "more"} /\ pc'[w] \in {"length", "calling"} /\ mq[x] # <<>>
      /\ mq' = [mq EXCEPT ![x] = Tail(@)] /\ left'[w] = (IF pc[w] = "first" THEN 0 ELSE left[w])
      /\ UNCHANGED <<q, ctx>>
  BY <1>1, RegistersTyped DEF MqPopMessage, Registers, Goto
<1>3. RegistersAt(w, pc[w])
  BY <1>2, HereRegisters DEF InCall
<1>4. x \in Handle /\ Has(w, x)
  BY <1>2, <1>3 DEF RegistersAt, InDispatch, DispatchInv, TypeOK, Has, QueueOf
<1>5. mq' \in [Handle -> Seq(Message)] /\ Len(mq'[x]) = Len(mq[x]) - 1
  BY <1>2, <1>4, PopTypes
<1>6. Len(mq[x]) \in Nat /\ Len(mq'[x]) \in Nat /\ left[w] \in Nat
  <2>1. mq[x] \in Seq(Message) /\ mq'[x] \in Seq(Message)
    BY <1>4, <1>5 DEF DispatchInv, TypeOK
  <2> QED BY <2>1, LenProperties DEF DispatchInv, TypeOK
<1>7. TurnOf(w)
  BY DEF TurnInv
<1>8. left'[w] <= Len(mq'[x])
  BY <1>2, <1>5, <1>6, <1>7 DEF TurnOf
<1>9. TurnOf(w)'
  BY <1>2, <1>8 DEF TurnOf
<1> QED BY <1>1, <1>2, <1>4, <1>9, TurnTake

\* A queue that is dropped is in no dispatch.
LEMMA TurnDrop ==
    ASSUME DispatchInv, TurnInv, NEW w \in Worker, Drop(w)
    PROVE  TurnInv'
<1> DEFINE x == Dead(w)
<1>1. Moves(w) /\ w \in Thread
  BY WorkerMoves DEF WorkerStep
<1>2. /\ pc[w] = "drop" /\ pc'[w] \in {"grabdst", "drop"} /\ mq[x] # <<>>
      /\ mq' = [mq EXCEPT ![x] = Tail(@)] /\ UNCHANGED <<q, ctx, left, child>>
  BY <1>1, RegistersTyped DEF Drop, Registers, Call, Goto, workerVars
<1>3. RegistersAt(w, "drop")
  BY <1>2, HereRegisters DEF InCall
<1>4. x \in Handle /\ Has(w, x)
  BY <1>3 DEF RegistersAt, InDrop, DispatchInv, TypeOK, Has, QueueOf, ChildOf, Dead
<1>5. \A g \in Handle : g # x => mq'[g] = mq[g]
  BY <1>2, <1>4, PopTypes
<1>6. ctx[w] # NoHandle => q[w] \in Handle /\ q[w] # x
  BY <1>3, DispatchedQueue DEF RegistersAt, InDrop, Dead
<1>7. TurnOf(w)'
  BY <1>2, <1>5, <1>6 DEF TurnInv, TurnOf
<1> QED BY <1>1, <1>2, <1>4, <1>7, TurnTake

\* Every step keeps TurnInv.
LEMMA TurnStep ==
    ASSUME DispatchInv, TurnInv, [Next]_vars
    PROVE  TurnInv'
<1>1. ASSUME NEW w \in Worker, WorkerStep(w) \/ SpuriousWake(w) PROVE TurnInv'
  <2>1. w \in Thread /\ Moves(w)
    BY <1>1, WorkerMoves
  <2>2. CASE Loop(w) \/ Sleep(w) \/ Wake(w) \/ SpuriousWake(w)
    <3>1. pc[w] # "first" /\ pc'[w] # "more" /\ UNCHANGED <<mq, q, ctx, left>>
      BY <2>1, <2>2, RegistersTyped
      DEF Loop, Sleep, Wake, SpuriousWake, Registers, Goto, mqVars, workerVars
    <3> QED BY <2>1, <3>1, TurnElsewhere
  <2>3. CASE GlobalPop(w)
    <3>1. pc[w] \in {"pop", "next"} /\ pc'[w] # "more" /\ UNCHANGED <<mq, ctx, left>>
      BY <2>1, <2>3, RegistersTyped DEF GlobalPop, Registers, Goto
    <3>2. RegistersAt(w, pc[w])
      BY <3>1, HereRegisters DEF InCall
    <3>3. ctx'[w] = NoHandle
      BY <3>1, <3>2 DEF RegistersAt, Outside, HasNoQueue
    <3> QED BY <2>1, <3>1, <3>3, TurnElsewhere
  <2>4. CASE Grab(w)
    <3>1. /\ pc[w] # "first" /\ pc'[w] # "more" /\ UNCHANGED <<mq, q, left>>
          /\ pc'[w] = "first" \/ ctx' = ctx
      BY <2>1, <2>4, RegistersTyped DEF Grab, Registers, Goto, mqVars
    <3> QED BY <2>1, <3>1, TurnElsewhere
  <2>5. CASE MqPopEmpty(w) \/ SwapPush(w)
    <3>1. pc'[w] = "release" /\ ctx'[w] = NoHandle /\ mq' = mq
      BY <2>1, <2>5, RegistersTyped DEF MqPopEmpty, SwapPush, Registers, Call, Goto
    <3> QED BY <2>1, <3>1, TurnElsewhere
  <2>6. CASE SwapPop(w)
    <3>1. /\ pc[w] = "swap" /\ pc'[w] # "more" /\ UNCHANGED <<mq, q, left>>
          /\ ctx'[w] = NoHandle \/ ctx' = ctx
      BY <2>1, <2>6, RegistersTyped DEF SwapPop, Registers, Call, Goto
    <3> QED BY <2>1, <3>1, TurnElsewhere
  <2>7. CASE MqRelease(w) \/ DropEnd(w)
    <3>1. /\ pc[w] \in InDrop /\ pc'[w] # "more" /\ UNCHANGED <<mq, ctx, left>>
          /\ q' = q \/ child[w] = NoHandle
      BY <2>1, <2>7, RegistersTyped DEF MqRelease, DropEnd, GiveUp, Registers, Goto, InDrop
    <3>2. RegistersAt(w, pc[w])
      BY <3>1, HereRegisters DEF InCall, InDrop
    <3>3. q' = q \/ ctx'[w] = NoHandle
      BY <3>1, <3>2 DEF RegistersAt
    <3> QED BY <2>1, <3>1, <3>3, TurnElsewhere DEF InDrop
  <2> QED BY <1>1, <2>1, <2>2, <2>3, <2>4, <2>5, <2>6, <2>7, TurnCall, TurnCallback, TurnLength, TurnPop,
             TurnDrop
          DEF WorkerStep
<1>2. ASSUME TimerStep PROVE TurnInv'
  <2>1. Timer \notin Worker /\ Timer \in Thread
    BY DispatchAssumption DEF Thread
  <2>2. CASE ThreadStep(Timer)
    BY <2>1, <2>2, TurnCall
  <2>3. CASE ~ ThreadStep(Timer)
    <3>1. /\ UNCHANGED <<mqVars, ctxVars, workerVars>>
          /\ \A w \in Worker : /\ pc'[w] = pc[w] \/ (pc[w] = "waiting" /\ pc'[w] = "woken")
                               /\ ret'[w] = ret[w] /\ obj'[w] = obj[w] /\ msg'[w] = msg[w]
      BY <1>2, <2>3, TimerMoves DEF TimerStep
    <3> QED BY <3>1 DEF TurnInv, TurnOf, mqVars, workerVars
  <2> QED BY <2>2, <2>3
<1>3. ASSUME UNCHANGED vars PROVE TurnInv'
  BY <1>3 DEF TurnInv, TurnOf, vars, mqVars, workerVars
<1>4. ASSUME HarborExit PROVE TurnInv'
  BY <1>4 DEF HarborExit, TurnInv, TurnOf, workerVars
<1> QED BY <1>1, <1>2, <1>3, <1>4 DEF Next, Exit

\* Only the first pop of a dispatch may find its queue empty.
THEOREM TurnsAreCovered == Spec => []TurnsCovered
<1>1. Init => TurnInv
  <2> SUFFICES ASSUME Init, NEW w \in Worker PROVE TurnOf(w)
    BY DEF TurnInv
  <2>1. pc[w] # "more" /\ ctx[w] = NoHandle
    BY DEF Init, Thread
  <2> QED BY <2>1 DEF TurnOf
<1>2. DispatchInv /\ TurnInv /\ [Next]_vars => TurnInv'
  BY TurnStep
<1>3. DispatchInv /\ TurnInv => TurnsCovered
  <2> SUFFICES ASSUME DispatchInv, TurnInv, NEW w \in Worker, pc[w] = "more"
               PROVE  Len(mq[q[w]]) > left[w]
    BY DEF TurnsCovered
  <2>1. q[w] \in Handle
    BY DispatchedQueue
  <2>2. Len(mq[q[w]]) \in Nat /\ left[w] \in Nat /\ left[w] < Len(mq[q[w]])
    BY <2>1, LenProperties DEF TurnInv, TurnOf, DispatchInv, TypeOK
  <2> QED BY <2>2
<1> QED BY <1>1, <1>2, <1>3, Inductive, PTL DEF Spec

-----------------------------------------------------------------------------
(* The order of messages                                                   *)

\* Two threads never send in the name of one service.
LEMMA SoleSender ==
    ASSUME DispatchInv, FlightInv, NEW t \in Thread, NEW u \in Thread, Numbered(t), Numbered(u),
           msg[t].src # NoHandle, msg[u].src = msg[t].src
    PROVE  t = u
<1> DEFINE h == msg[t].src
<1>1. t # Timer /\ u # Timer /\ FlightOf(t) /\ FlightOf(u)
  BY DEF FlightInv, FlightOf
<1>2. t \in Worker /\ u \in Worker /\ h \in Handle
  BY <1>1 DEF Thread, DispatchInv, TypeOK, Message
<1>3. Has(t, h) /\ Has(u, h)
  BY <1>1, <1>2 DEF FlightOf, Source, Has, QueueOf, ChildOf
<1> QED BY <1>2, <1>3, SoleOwner DEF DispatchInv, TypeOK

\* r is what is left of s when messages are taken from its front.
Rest(r, s) == \E k \in Nat : /\ Len(r) + k <= Len(s)
                            /\ \A i \in 1..Len(r) : r[i] = s[i + k]

\* A list and its tail are what is left of the list.
LEMMA RestTail ==
    ASSUME NEW s \in Seq(Message)
    PROVE  Rest(s, s) /\ (s # <<>> => Rest(Tail(s), s))
<1>1. Len(s) \in Nat
  BY LenProperties
<1>2. Rest(s, s)
  <2>1. Len(s) + 0 <= Len(s) /\ \A i \in 1..Len(s) : s[i] = s[i + 0]
    BY <1>1
  <2> QED BY <2>1 DEF Rest
<1>3. ASSUME s # <<>> PROVE Rest(Tail(s), s)
  <2>1. Len(Tail(s)) = Len(s) - 1 /\ \A i \in 1..Len(Tail(s)) : Tail(s)[i] = s[i + 1]
    BY <1>3, HeadTailProperties
  <2>2. Len(Tail(s)) + 1 <= Len(s)
    BY <1>1, <2>1
  <2> QED BY <2>1, <2>2 DEF Rest
<1> QED BY <1>2, <1>3

\* The queues keep their messages or lose them from the front, and the thread's
\* own message, if it has one, is the same or has a new number.
LEMMA OrderFrame ==
    ASSUME DispatchInv, FlightInv, OrderInv, NEW t \in Thread, Moves(t), TypeOK',
           \A h \in Handle : Rest(mq'[h], mq[h]), sent' >= sent, FlightOf(t)',
           Numbered(t)' => (Numbered(t) /\ msg'[t] = msg[t]) \/ msg'[t].id > sent
    PROVE  FlightInv' /\ OrderInv'
<1>1. sent \in Nat /\ sent' \in Nat
  BY DispatchAssumption DEF DispatchInv, TypeOK
<1>2. \A u \in Thread : msg[u].id \in Nat /\ msg'[u].id \in Nat
  <2>1. msg \in [Thread -> Message] /\ msg' \in [Thread -> Message]
    BY DEF DispatchInv, TypeOK
  <2> QED BY <2>1, DispatchAssumption DEF Message
<1>3. ASSUME NEW u \in Thread, u # t
      PROVE  /\ msg'[u] = msg[u] /\ (Numbered(u)' <=> Numbered(u))
             /\ u # Timer => ret'[u] = ret[u] /\ Source(u)' = Source(u)
  BY <1>3 DEF Moves, Numbered, Source, Thread
<1>4. \A u \in Thread : FlightOf(u)'
  <2> SUFFICES ASSUME NEW u \in Thread, u # t PROVE FlightOf(u)'
    OBVIOUS
  <2>1. FlightOf(u)
    BY DEF FlightInv
  <2>2. msg[u].id <= sent'
    BY <1>1, <1>2, <2>1 DEF FlightOf
  <2> QED BY <1>3, <2>1, <2>2 DEF FlightOf
<1>5. ASSUME NEW h \in Handle, NEW i \in 1..Len(mq'[h])
      PROVE  /\ mq'[h][i].id <= sent'
             /\ FromService(mq'[h][i]) =>
                  /\ \A j \in (i + 1)..Len(mq'[h]) : Before(mq'[h][i], mq'[h][j])
                  /\ \A u \in Thread : Numbered(u)' => Before(mq'[h][i], msg'[u])
  <2>1. PICK k \in Nat : /\ Len(mq'[h]) + k <= Len(mq[h])
                         /\ \A l \in 1..Len(mq'[h]) : mq'[h][l] = mq[h][l + k]
    BY DEF Rest
  <2>2. Len(mq[h]) \in Nat /\ Len(mq'[h]) \in Nat
    <3>1. mq[h] \in Seq(Message) /\ mq'[h] \in Seq(Message)
      BY DEF DispatchInv, TypeOK
    <3> QED BY <3>1, LenProperties
  <2>3. i + k \in 1..Len(mq[h]) /\ mq'[h][i] = mq[h][i + k]
    BY <2>1, <2>2
  <2>4. mq[h][i + k].id <= sent /\ mq[h][i + k].id \in Nat
    <3>1. mq[h] \in Seq(Message)
      BY DEF DispatchInv, TypeOK
    <3>2. mq[h][i + k] \in Message
      BY <2>3, <3>1, ElementOfSeq
    <3> QED BY <2>3, <3>2, DispatchAssumption DEF FlightInv, Message
  <2>5. ASSUME FromService(mq'[h][i]), NEW j \in (i + 1)..Len(mq'[h]) PROVE Before(mq'[h][i], mq'[h][j])
    <3>1. j \in 1..Len(mq'[h])
      BY <2>2
    <3>2. mq'[h][j] = mq[h][j + k]
      BY <2>1, <3>1
    <3>3. j + k \in (i + k + 1)..Len(mq[h])
      BY <2>1, <2>2
    <3> QED BY <2>3, <2>5, <3>2, <3>3 DEF OrderInv
  <2>6. ASSUME FromService(mq'[h][i]), NEW u \in Thread, Numbered(u)' PROVE Before(mq'[h][i], msg'[u])
    <3>1. ASSUME Numbered(u), msg'[u] = msg[u] PROVE Before(mq'[h][i], msg'[u])
      BY <2>3, <2>6, <3>1 DEF OrderInv
    <3>2. CASE u # t
      BY <1>3, <2>6, <3>1, <3>2
    <3>3. CASE u = t /\ msg'[t].id > sent
      BY <1>1, <1>2, <2>3, <2>4, <3>3 DEF Before
    <3> QED BY <2>6, <3>1, <3>2, <3>3
  <2> QED BY <1>1, <2>3, <2>4, <2>5, <2>6
<1> QED BY <1>4, <1>5 DEF FlightInv, OrderInv

\* The same, of a step that leaves the queues alone ...
LEMMA OrderSame ==
    ASSUME DispatchInv, FlightInv, OrderInv, NEW t \in Thread, Moves(t), TypeOK', mq' = mq,
           sent' >= sent, FlightOf(t)',
           Numbered(t)' => (Numbered(t) /\ msg'[t] = msg[t]) \/ msg'[t].id > sent
    PROVE  FlightInv' /\ OrderInv'
<1>1. \A h \in Handle : Rest(mq'[h], mq[h])
  BY RestTail DEF DispatchInv, TypeOK
<1> QED BY <1>1, OrderFrame

\* ... of one that sends nothing ...
LEMMA OrderElsewhere ==
    ASSUME DispatchInv, FlightInv, OrderInv, NEW t \in Thread, Moves(t), TypeOK',
           UNCHANGED <<mq, msg, sent>>, pc'[t] \notin {"grabdst", "push"}
    PROVE  FlightInv' /\ OrderInv'
<1>1. ~ Numbered(t)' /\ FlightOf(t)'
  BY DEF Numbered, FlightOf, FlightInv
<1>2. sent' >= sent
  BY DEF DispatchInv, TypeOK
<1> QED BY <1>1, <1>2, OrderSame

\* ... and of one that takes the first message of a queue.
LEMMA OrderTake ==
    ASSUME DispatchInv, FlightInv, OrderInv, NEW w \in Worker, Moves(w), TypeOK',
           NEW x \in Handle, mq[x] # <<>>, mq' = [mq EXCEPT ![x] = Tail(@)],
           sent' = sent, FlightOf(w)', ~ Numbered(w)'
    PROVE  FlightInv' /\ OrderInv'
<1>1. ASSUME NEW h \in Handle PROVE Rest(mq'[h], mq[h])
  <2>1. mq[h] \in Seq(Message) /\ mq'[h] = IF h = x THEN Tail(mq[h]) ELSE mq[h]
    BY DEF DispatchInv, TypeOK
  <2> QED BY <2>1, RestTail
<1>2. sent' >= sent /\ w \in Thread
  BY DEF DispatchInv, TypeOK, Thread
<1> QED BY <1>1, <1>2, OrderFrame

\* A message is appended that is newer than those of its source in the queue,
\* and that no thread can follow with an older one.
LEMMA OrderAppend ==
    ASSUME DispatchInv, FlightInv, OrderInv, NEW t \in Thread, Moves(t), TypeOK',
           NEW x \in Handle, NEW m \in Message, mq' = [mq EXCEPT ![x] = Append(@, m)],
           sent' >= sent, m.id <= sent', msg'[t].id <= sent', ~ Numbered(t)',
           FromService(m) =>
              /\ \A i \in 1..Len(mq[x]) : FromService(mq[x][i]) => Before(mq[x][i], m)
              /\ \A u \in Thread : u # t /\ Numbered(u) => msg[u].src # m.src
    PROVE  FlightInv' /\ OrderInv'
<1>1. sent \in Nat /\ sent' \in Nat
  BY DispatchAssumption DEF DispatchInv, TypeOK
<1>2. \A u \in Thread : msg[u].id \in Nat
  <2>1. msg \in [Thread -> Message]
    BY DEF DispatchInv, TypeOK
  <2> QED BY <2>1, DispatchAssumption DEF Message
<1>3. ASSUME NEW u \in Thread, u # t
      PROVE  /\ msg'[u] = msg[u] /\ (Numbered(u)' <=> Numbered(u))
             /\ u # Timer => ret'[u] = ret[u] /\ Source(u)' = Source(u)
  BY <1>3 DEF Moves, Numbered, Source, Thread
<1>4. \A u \in Thread : Numbered(u)' => u # t /\ Numbered(u) /\ msg'[u] = msg[u]
  BY <1>3
<1>5. \A u \in Thread : FlightOf(u)'
  <2>1. FlightOf(t)'
    BY DEF FlightOf
  <2>2. ASSUME NEW u \in Thread, u # t PROVE FlightOf(u)'
    <3>1. FlightOf(u)
      BY DEF FlightInv
    <3>2. msg[u].id <= sent'
      BY <1>1, <1>2, <3>1 DEF FlightOf
    <3> QED BY <1>3, <2>2, <3>1, <3>2 DEF FlightOf
  <2> QED BY <2>1, <2>2
<1>6. ASSUME NEW h \in Handle, NEW i \in 1..Len(mq'[h])
      PROVE  /\ mq'[h][i].id <= sent'
             /\ FromService(mq'[h][i]) =>
                  /\ \A j \in (i + 1)..Len(mq'[h]) : Before(mq'[h][i], mq'[h][j])
                  /\ \A u \in Thread : Numbered(u)' => Before(mq'[h][i], msg'[u])
  <2> DEFINE s == mq[h]
  <2>1. s \in Seq(Message) /\ Len(s) \in Nat
    BY LenProperties DEF DispatchInv, TypeOK
  <2>2. ASSUME NEW k \in 1..Len(s)
        PROVE  /\ s[k].id <= sent'
               /\ FromService(s[k]) =>
                    /\ \A j \in (k + 1)..Len(s) : Before(s[k], s[j])
                    /\ \A u \in Thread : Numbered(u) => Before(s[k], msg[u])
    <3>1. s[k] \in Message
      BY <2>1, ElementOfSeq
    <3>2. s[k].id \in Nat /\ s[k].id <= sent
      BY <2>2, <3>1, DispatchAssumption DEF FlightInv, Message
    <3> QED BY <1>1, <2>2, <3>2 DEF OrderInv
  <2>3. CASE h # x
    <3>1. mq'[h] = s
      BY <2>3 DEF DispatchInv, TypeOK
    <3> HIDE DEF s
    <3>2. i \in 1..Len(s)
      BY <3>1
    <3> QED BY <1>4, <2>2, <3>1, <3>2
  <2>4. CASE h = x
    <3>1. mq'[h] = Append(s, m)
      BY <2>4 DEF DispatchInv, TypeOK
    <3>2. /\ Len(Append(s, m)) = Len(s) + 1 /\ Append(s, m)[Len(s) + 1] = m
          /\ \A k \in 1..Len(s) : Append(s, m)[k] = s[k]
      BY <2>1, AppendProperties
    <3>3. CASE i \in 1..Len(s)
      <4>1. mq'[h][i] = s[i]
        BY <3>1, <3>2, <3>3
      <4>2. ASSUME FromService(s[i]), NEW j \in (i + 1)..(Len(s) + 1) PROVE Before(s[i], mq'[h][j])
        <5>1. CASE j = Len(s) + 1
          <6>1. mq'[h][j] = m
            BY <3>1, <3>2, <5>1
          <6>2. FromService(m) => Before(s[i], m)
            BY <2>4, <3>3, <4>2
          <6> QED BY <6>1, <6>2 DEF Before
        <5>2. CASE j # Len(s) + 1
          <6>1. j \in 1..Len(s) /\ j \in (i + 1)..Len(s)
            BY <2>1, <3>3, <5>2
          <6>2. mq'[h][j] = s[j]
            BY <3>1, <3>2, <6>1
          <6> QED BY <2>2, <3>3, <4>2, <6>1, <6>2
        <5> QED BY <5>1, <5>2
      <4>3. Len(mq'[h]) = Len(s) + 1
        BY <3>1, <3>2
      <4> HIDE DEF s
      <4> QED BY <1>4, <2>2, <3>3, <4>1, <4>2, <4>3
    <3>4. CASE i \notin 1..Len(s)
      <4>1. i = Len(s) + 1 /\ Len(mq'[h]) = Len(s) + 1 /\ mq'[h][i] = m
        BY <2>1, <3>1, <3>2, <3>4
      <4>2. \A j \in (i + 1)..Len(mq'[h]) : FALSE
        BY <2>1, <4>1
      <4>3. ASSUME FromService(m), NEW u \in Thread, Numbered(u)' PROVE Before(m, msg'[u])
        BY <1>4, <4>3 DEF Before
      <4> QED BY <4>1, <4>2, <4>3
    <3> QED BY <3>3, <3>4
  <2> QED BY <2>3, <2>4
<1> QED BY <1>5, <1>6 DEF FlightInv, OrderInv

\* skynet_mq_push: a service's message comes after its earlier ones.
LEMMA OrderPush ==
    ASSUME DispatchInv, FlightInv, OrderInv, TypeOK', NEW t \in Thread, MqPush(t)
    PROVE  FlightInv' /\ OrderInv'
<1> DEFINE x == obj[t]
           m == msg[t]
<1>1. /\ pc[t] = "push" /\ mq' = [mq EXCEPT ![x] = Append(@, m)] /\ sent' = sent
      /\ pc'[t] = "release" /\ msg'[t] = NoMessage
  BY RegistersTyped DEF MqPush, Registers, Goto
<1>2. Moves(t) /\ x \in Handle /\ m \in Message /\ sent \in Nat
  <2>1. Moves(t)
    BY ThreadMoves DEF ThreadStep
  <2>2. x # NoHandle
    BY <1>1 DEF DispatchInv, PcInv, CallOf, InCall
  <2>3. x \in Handle \cup {NoHandle} /\ m \in Message /\ sent \in Nat
    BY DispatchAssumption DEF DispatchInv, TypeOK
  <2> QED BY <2>1, <2>2, <2>3
<1>3. ~ Numbered(t)' /\ sent' >= sent /\ m.id <= sent' /\ msg'[t].id <= sent'
  <2>1. m.id <= sent
    BY DEF FlightInv, FlightOf
  <2> QED BY <1>1, <1>2, <2>1 DEF Numbered, NoMessage
<1>4. ASSUME FromService(m)
      PROVE  /\ \A i \in 1..Len(mq[x]) : FromService(mq[x][i]) => Before(mq[x][i], m)
             /\ \A u \in Thread : u # t /\ Numbered(u) => msg[u].src # m.src
  <2>1. Numbered(t) /\ m.src # NoHandle
    BY <1>1, <1>4 DEF FromService, Numbered
  <2> QED BY <1>2, <2>1, SoleSender DEF OrderInv
<1> HIDE DEF x, m
<1> QED BY <1>1, <1>2, <1>3, <1>4, OrderAppend

\* skynet_harbor_send: the message is newer than all, and no other thread sends
\* in the name of the service that w runs.
LEMMA OrderHarbor ==
    ASSUME DispatchInv, FlightInv, OrderInv, TypeOK', NEW w \in Worker, HarborSend(w)
    PROVE  FlightInv' /\ OrderInv'
<1> DEFINE x == REMOTE
           m == [id |-> sent + 1, src |-> q[w]]
<1>1. /\ pc[w] = "calling" /\ x # NoHandle /\ sent < MaxMsg /\ sent' = sent + 1
      /\ mq' = [mq EXCEPT ![x] = Append(@, m)] /\ UNCHANGED <<pc, callVars, workerVars>>
  BY DEF HarborSend
<1>2. w \in Thread /\ w # Timer /\ Moves(w)
  BY CallbackMoves, DispatchAssumption DEF Thread, Callback
<1>3. x \in Handle /\ m \in Message /\ sent \in Nat
  BY <1>1, DispatchAssumption DEF DispatchInv, TypeOK, Message
<1>4. ~ Numbered(w)' /\ sent' >= sent /\ m.id <= sent' /\ msg'[w].id <= sent'
  <2>1. msg[w].id <= sent /\ msg[w].id \in Nat
    <3>1. msg[w] \in Message
      BY <1>2 DEF DispatchInv, TypeOK
    <3> QED BY <1>2, <3>1, DispatchAssumption DEF FlightInv, FlightOf, Message
  <2> QED BY <1>1, <1>3, <2>1 DEF Numbered, callVars
<1>5. \A i \in 1..Len(mq[x]) : Before(mq[x][i], m)
  <2> SUFFICES ASSUME NEW i \in 1..Len(mq[x]) PROVE mq[x][i].id < m.id
    BY DEF Before
  <2>1. mq[x] \in Seq(Message)
    BY <1>3 DEF DispatchInv, TypeOK
  <2>2. mq[x][i] \in Message
    BY <2>1, ElementOfSeq
  <2>3. mq[x][i].id \in Nat /\ mq[x][i].id <= sent
    BY <1>3, <2>2, DispatchAssumption DEF FlightInv, Message
  <2> QED BY <1>3, <2>3
<1>6. ASSUME NEW u \in Thread, u # w, Numbered(u) PROVE msg[u].src # m.src
  <2> SUFFICES ASSUME msg[u].src = q[w] PROVE FALSE
    OBVIOUS
  <2>1. RegistersAt(w, "calling")
    BY <1>1, HereRegisters DEF InCall
  <2>2. q[w] \in Handle
    BY <2>1 DEF RegistersAt, InDispatch, DispatchInv, TypeOK
  <2>3. u \in Worker /\ msg[u].src = Source(u)
    BY <1>6, <2>2 DEF FlightInv, FlightOf, Thread, Handle, NoHandle
  <2>4. Has(w, q[w]) /\ Has(u, q[w])
    BY <2>3 DEF Source, Has, QueueOf, ChildOf
  <2> QED BY <1>6, <2>2, <2>3, <2>4, SoleOwner DEF DispatchInv, TypeOK
<1> HIDE DEF x, m
<1> QED BY <1>1, <1>2, <1>3, <1>4, <1>5, <1>6, OrderAppend

\* Push and release keep the order: what is pushed is newer than what is queued.
LEMMA OrderCall ==
    ASSUME DispatchInv, FlightInv, OrderInv, TypeOK', NEW t \in Thread, ThreadStep(t)
    PROVE  FlightInv' /\ OrderInv'
<1>1. Moves(t) /\ UNCHANGED <<workerVars, sent>>
  BY ThreadMoves
<1>2. sent' >= sent /\ sent \in Nat
  BY <1>1, DispatchAssumption DEF DispatchInv, TypeOK
<1>3. FlightOf(t)
  BY DEF FlightInv
<1>4. CASE ~ MqPush(t)
  <2>1. mq' = mq
    BY <1>4 DEF ThreadStep, Release, MarkRelease, ContextDec, PushGrab, mqVars
  <2>2. ASSUME msg'[t] = NoMessage PROVE FlightOf(t)' /\ ~ Numbered(t)'
    BY <1>1, <1>2, <2>2 DEF FlightOf, Numbered, NoMessage
  <2>3. ASSUME msg'[t] = msg[t], pc'[t] \in {"delete", "deleted"} PROVE FlightOf(t)' /\ ~ Numbered(t)'
    BY <1>1, <1>3, <2>3 DEF FlightOf, Numbered
  <2>4. ASSUME pc[t] = "grabdst", pc'[t] = "push", UNCHANGED callVars
        PROVE  FlightOf(t)' /\ (Numbered(t)' => Numbered(t) /\ msg'[t] = msg[t])
    BY <1>1, <1>3, <2>4 DEF FlightOf, Numbered, Source, callVars, workerVars
  <2>5. \/ msg'[t] = NoMessage
        \/ msg'[t] = msg[t] /\ pc'[t] \in {"delete", "deleted"}
        \/ pc[t] = "grabdst" /\ pc'[t] = "push" /\ UNCHANGED callVars
    <3> USE RegistersTyped DEF Registers, Goto, Return
    <3>1. CASE Release(t)
      BY <3>1 DEF Release, callVars
    <3>2. CASE MarkRelease(t)
      BY <3>2 DEF MarkRelease, callVars
    <3>3. CASE ContextDec(t)
      BY <3>3 DEF ContextDec
    <3>4. CASE PushGrab(t)
      BY <3>4 DEF PushGrab
    <3> QED BY <1>4, <3>1, <3>2, <3>3, <3>4 DEF ThreadStep
  <2> QED BY <1>1, <1>2, <2>1, <2>2, <2>3, <2>4, <2>5, OrderSame
<1>5. CASE MqPush(t)
  BY <1>5, OrderPush
<1> QED BY <1>4, <1>5

\* A message that is sent gets a number larger than any before.
LEMMA OrderSend ==
    ASSUME DispatchInv, FlightInv, OrderInv, TypeOK', NEW t \in Thread, Moves(t),
           NEW s, sent' = sent + 1, msg'[t] = [id |-> sent + 1, src |-> s], mq' = mq,
           IF t = Timer THEN s = NoHandle ELSE ret'[t] \in {"calling", "inited"} /\ s = Source(t)'
    PROVE  FlightInv' /\ OrderInv'
<1>1. sent \in Nat
  BY DispatchAssumption DEF DispatchInv, TypeOK
<1>2. msg'[t].id = sent + 1 /\ msg'[t].src = s
  OBVIOUS
<1>3. sent' >= sent /\ msg'[t].id > sent /\ msg'[t].id <= sent'
  BY <1>1, <1>2
<1>4. FlightOf(t)'
  BY <1>2, <1>3 DEF FlightOf
<1> QED BY <1>3, <1>4, OrderSame

\* Callbacks keep the order: a message gets a number above all others.
LEMMA OrderCallback ==
    ASSUME DispatchInv, FlightInv, OrderInv, TypeOK', NEW w \in Worker, Callback(w)
    PROVE  FlightInv' /\ OrderInv'
<1>1. w \in Thread /\ Moves(w) /\ w # Timer
  BY CallbackMoves, DispatchAssumption DEF Thread
<1>2. ASSUME NEW d \in Handle, Send(w, d) PROVE FlightInv' /\ OrderInv'
  <2>1. /\ sent' = sent + 1 /\ msg'[w] = [id |-> sent + 1, src |-> q[w]] /\ mq' = mq
        /\ ret'[w] = "calling" /\ Source(w)' = q[w]
    BY <1>1, <1>2, RegistersTyped DEF Send, Call, Registers, Source, mqVars, workerVars
  <2> QED BY <1>1, <2>1, OrderSend
<1>3. CASE InitSend(w)
  <2>1. /\ sent' = sent + 1 /\ msg'[w] = [id |-> sent + 1, src |-> child[w]] /\ mq' = mq
        /\ ret'[w] = "inited" /\ Source(w)' = child[w]
    BY <1>1, <1>3, RegistersTyped DEF InitSend, Call, Registers, Source, mqVars, workerVars
  <2> QED BY <1>1, <2>1, OrderSend
<1>4. ASSUME UNCHANGED <<mq, msg, sent>>, pc'[w] \notin {"grabdst", "push"} PROVE FlightInv' /\ OrderInv'
  BY <1>1, <1>4, OrderElsewhere
<1>5. ASSUME NEW d \in Handle, Kill(w, d) \/ Launch(w, d) PROVE FlightInv' /\ OrderInv'
  BY <1>1, <1>4, <1>5, RegistersTyped DEF Kill, Launch, Registers, Call, Goto, mqVars, callVars
<1>6. CASE CallbackReturn(w) \/ InitEnd(w)
  BY <1>1, <1>4, <1>6, RegistersTyped DEF CallbackReturn, InitEnd, Registers, Call, Goto, mqVars, callVars
<1>7. CASE LaunchSetInit(w) \/ LaunchEnqueue(w) \/ LaunchRetire(w)
  BY <1>1, <1>4, <1>7, RegistersTyped
  DEF LaunchSetInit, LaunchEnqueue, LaunchRetire, Registers, Call, Goto, mqVars, callVars
<1>8. CASE HarborStart(w)
  BY <1>1, <1>4, <1>8, RegistersTyped DEF HarborStart, Registers, Call, Goto, mqVars, callVars
<1>9. CASE HarborSend(w)
  BY <1>9, OrderHarbor
<1>10. ASSUME NEW d \in Handle, NEW s \in Handle, HarborForward(w, d, s) PROVE FlightInv' /\ OrderInv'
  <2>1. sent' = sent + 1 /\ msg'[w] = [id |-> 0, src |-> s] /\ mq' = mq
    BY <1>1, <1>10, RegistersTyped DEF HarborForward, Registers, mqVars
  <2>2. sent \in Nat /\ msg'[w].id = 0
    BY <2>1, DispatchAssumption DEF DispatchInv, TypeOK
  <2>3. sent' >= sent /\ FlightOf(w)' /\ ~ Numbered(w)'
    BY <2>1, <2>2 DEF FlightOf, Numbered
  <2> QED BY <1>1, <2>1, <2>3, OrderSame
<1> QED BY <1>2, <1>3, <1>5, <1>6, <1>7, <1>8, <1>9, <1>10 DEF Callback

\* Every step keeps the order.
LEMMA OrderStep ==
    ASSUME DispatchInv, FlightInv, OrderInv, DispatchInv', [Next]_vars
    PROVE  FlightInv' /\ OrderInv'
<1>1. TypeOK'
  BY DEF DispatchInv
<1>2. ASSUME NEW w \in Worker, WorkerStep(w) \/ SpuriousWake(w) PROVE FlightInv' /\ OrderInv'
  <2>1. w \in Thread /\ Moves(w)
    BY <1>2, WorkerMoves
  <2>2. ASSUME UNCHANGED <<mq, msg, sent>>, pc'[w] \notin {"grabdst", "push"} PROVE FlightInv' /\ OrderInv'
    BY <1>1, <2>1, <2>2, OrderElsewhere
  <2>3. CASE Loop(w) \/ Sleep(w) \/ Wake(w) \/ SpuriousWake(w) \/ GlobalPop(w)
    BY <2>1, <2>2, <2>3, RegistersTyped
    DEF Loop, Sleep, Wake, SpuriousWake, GlobalPop, Registers, Goto, mqVars, callVars
  <2>4. CASE Grab(w) \/ MqLength(w) \/ MqPopEmpty(w)
    BY <2>1, <2>2, <2>4, RegistersTyped
    DEF Grab, MqLength, MqPopEmpty, Registers, Call, Goto, mqVars, callVars
  <2>5. CASE SwapPop(w) \/ SwapPush(w)
    BY <2>1, <2>2, <2>5, RegistersTyped DEF SwapPop, SwapPush, Registers, Call, Goto
  <2>6. CASE MqRelease(w) \/ DropEnd(w)
    BY <2>1, <2>2, <2>6, RegistersTyped DEF MqRelease, DropEnd, GiveUp, Registers, Goto, callVars
  <2>7. CASE MqPopMessage(w)
    <3>1. /\ pc[w] \in {"first", "more"} /\ pc'[w] \in {"length", "calling"} /\ mq[q[w]] # <<>>
          /\ mq' = [mq EXCEPT ![q[w]] = Tail(@)] /\ UNCHANGED <<msg, sent>>
      BY <2>1, <2>7, RegistersTyped DEF MqPopMessage, Registers, Goto, callVars
    <3>2. RegistersAt(w, pc[w])
      BY <3>1, HereRegisters DEF InCall
    <3>3. q[w] \in Handle
      BY <3>1, <3>2 DEF RegistersAt, InDispatch, DispatchInv, TypeOK
    <3>4. FlightOf(w)' /\ ~ Numbered(w)'
      BY <2>1, <3>1 DEF FlightInv, FlightOf, Numbered
    <3> QED BY <1>1, <2>1, <3>1, <3>3, <3>4, OrderTake
  <2>8. CASE Drop(w)
    <3>1. /\ pc[w] = "drop" /\ mq[Dead(w)] # <<>>
          /\ mq' = [mq EXCEPT ![Dead(w)] = Tail(@)] /\ sent' = sent
          /\ msg'[w].id = 0 \/ (msg'[w] = msg[w] /\ pc'[w] = "drop")
      BY <2>1, <2>8, RegistersTyped DEF Drop, Registers, callVars
    <3>2. RegistersAt(w, "drop")
      BY <3>1, HereRegisters DEF InCall
    <3>3. Dead(w) \in Handle
      BY <3>2 DEF RegistersAt, InDrop, Dead, DispatchInv, TypeOK
    <3>4. sent \in Nat
      BY DispatchAssumption DEF DispatchInv, TypeOK
    <3>5. FlightOf(w)' /\ ~ Numbered(w)'
      BY <2>1, <3>1, <3>4 DEF FlightInv, FlightOf, Numbered
    <3> QED BY <1>1, <2>1, <3>1, <3>3, <3>5, OrderTake
  <2> QED BY <1>1, <1>2, <2>1, <2>3, <2>4, <2>5, <2>6, <2>7, <2>8, OrderCall, OrderCallback DEF WorkerStep
<1>3. ASSUME TimerStep PROVE FlightInv' /\ OrderInv'
  <2>1. Timer \notin Worker /\ Timer \in Thread
    BY DispatchAssumption DEF Thread
  <2>2. CASE ThreadStep(Timer)
    BY <1>1, <2>1, <2>2, OrderCall
  <2>3. ASSUME NEW d \in Handle, TimerPush(d) PROVE FlightInv' /\ OrderInv'
    <3>1. Moves(Timer)
      BY <2>3, RegistersTyped DEF TimerPush, Moves, Registers, Call, Goto, workerVars
    <3>2. sent' = sent + 1 /\ msg'[Timer] = [id |-> sent + 1, src |-> NoHandle] /\ mq' = mq
      BY <2>1, <2>3, RegistersTyped DEF TimerPush, Registers, mqVars
    <3> QED BY <1>1, <2>1, <3>1, <3>2, OrderSend
  <2>4. CASE TimerWakeup \/ TimerQuit
    <3>1. UNCHANGED <<mq, msg, ret, sent, q, child>>
      BY <2>4 DEF TimerWakeup, TimerQuit, mqVars, callVars, workerVars
    <3>2. \A w \in Worker : Numbered(w)' => Numbered(w)
      BY <2>4, <3>1, TimerMoves DEF Numbered
    <3>3. ~ Numbered(Timer)'
      <4>1. CASE TimerWakeup
        BY <2>1, <4>1, RegistersTyped DEF TimerWakeup, Waiting, Registers, Goto, Numbered
      <4>2. CASE TimerQuit
        <5>1. pc'[Timer] = CASE Timer = Timer -> "done" [] Timer \in Waiting -> "woken" [] OTHER -> pc[Timer]
          BY <2>1, <4>2 DEF TimerQuit
        <5>2. Timer \notin Waiting
          BY <2>1 DEF Waiting
        <5> QED BY <5>1, <5>2 DEF Numbered
      <4> QED BY <2>4, <4>1, <4>2
    <3>4. \A t \in Thread : Numbered(t)' => Numbered(t)
      BY <3>2, <3>3 DEF Thread
    <3>5. \A t \in Thread : FlightOf(t)'
      BY <3>1, <3>4 DEF FlightInv, FlightOf, Source
    <3> QED BY <3>1, <3>4, <3>5 DEF FlightInv, OrderInv
  <2> QED BY <1>3, <2>2, <2>3, <2>4 DEF TimerStep
<1>4. ASSUME UNCHANGED vars PROVE FlightInv' /\ OrderInv'
  BY <1>4 DEF FlightInv, FlightOf, OrderInv, Numbered, Source, vars, mqVars, callVars, workerVars
<1>5. ASSUME HarborExit PROVE FlightInv' /\ OrderInv'
  BY <1>5 DEF HarborExit, FlightInv, FlightOf, OrderInv, Numbered, Source, callVars, workerVars
<1> QED BY <1>2, <1>3, <1>4, <1>5 DEF Next, Exit

\* Messages that one service sends to another by its handle are handled in the
\* order they were sent, whichever threads carried them and whoever was scheduled
\* in between; so are those it sends to the harbor.
THEOREM MessagesInOrder == Spec => []InOrder
<1>1. Init => FlightInv /\ OrderInv
  <2> SUFFICES ASSUME Init PROVE FlightInv /\ OrderInv
    OBVIOUS
  <2>1. \A t \in Thread : msg[t] = NoMessage /\ msg[t].id = 0
    BY DEF Init, NoMessage
  <2>2. \A h \in Handle : \A i \in 1..Len(mq[h]) : mq[h][i].id = 0
    <3> SUFFICES ASSUME NEW h \in Handle, NEW i \in 1..Len(mq[h]) PROVE mq[h][i].id = 0
      OBVIOUS
    <3>1. CASE h = NBoot
      <4>1. mq[h] = <<[id |-> 0, src |-> h]>>
        BY <3>1 DEF Init
      <4> QED BY <4>1
    <3>2. CASE h # NBoot
      <4>1. mq[h] = <<>>
        BY <3>2 DEF Init
      <4> QED BY <4>1
    <3> QED BY <3>1, <3>2
  <2>3. sent = 0
    BY DEF Init
  <2>4. FlightInv
    BY <2>1, <2>2, <2>3 DEF FlightInv, FlightOf, Numbered
  <2>5. OrderInv
    BY <2>2 DEF OrderInv, FromService
  <2> QED BY <2>4, <2>5
<1>2. DispatchInv /\ FlightInv /\ OrderInv /\ DispatchInv' /\ [Next]_vars => FlightInv' /\ OrderInv'
  BY OrderStep
<1>3. DispatchInv /\ OrderInv => InOrder
  <2> SUFFICES ASSUME DispatchInv, OrderInv, NEW h \in Handle, NEW s \in Handle,
                      NEW i \in DOMAIN mq[h], mq[h][i].src = s, mq[h][i].id # 0
               PROVE  /\ \A j \in i + 1 .. Len(mq[h]) :
                            mq[h][j].src = s /\ mq[h][j].id # 0 => mq[h][i].id < mq[h][j].id
                      /\ \A t \in Thread : pc[t] = "push" /\ obj[t] = h /\ msg[t].src = s /\ msg[t].id # 0
                            => mq[h][i].id < msg[t].id
    BY DEF InOrder
  <2>1. i \in 1..Len(mq[h]) /\ s # NoHandle
    BY LenProperties DEF DispatchInv, TypeOK, Handle, NoHandle
  <2>2. FromService(mq[h][i])
    BY <2>1 DEF FromService
  <2>3. /\ \A j \in (i + 1)..Len(mq[h]) : Before(mq[h][i], mq[h][j])
        /\ \A t \in Thread : Numbered(t) => Before(mq[h][i], msg[t])
    BY <2>1, <2>2 DEF OrderInv
  <2> QED BY <2>1, <2>3 DEF Before, FromService, Numbered
<1> QED BY <1>1, <1>2, <1>3, Inductive, PTL DEF Spec
=============================================================================
