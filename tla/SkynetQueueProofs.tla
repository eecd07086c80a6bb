--------------------------- MODULE SkynetQueueProofs ---------------------------
(***************************************************************************)
(* For every set of coroutines and every nesting bound: skynet.queue       *)
(* excludes, never trips its assertion, and implements SerialQueue.        *)
(***************************************************************************)
EXTENDS SkynetQueue, SequenceTheorems, TLAPS

\* The holder of the queue: its depth is the reference count.
HolderInv ==
    \A t \in Thread :
        /\ pc[t] = "inside" => current_thread = t /\ depth[t] = ref /\ ref > 0
        /\ pc[t] # "inside" => depth[t] = 0

\* A queue without current_thread is empty and released.
FreeInv ==
    current_thread = None => thread_queue = <<>> /\ ref = 0

\* A hand-over in progress: the woken coroutine is the only one with a claim.
WokenInv ==
    /\ \A t \in woken : pc[t] = "waiting" /\ current_thread = t /\ ref = 0
    /\ \A t \in Thread : current_thread = t /\ pc[t] # "inside" => t \in woken

\* thread_queue lists suspended coroutines, each once, and never the holder.
WaitersInv ==
    /\ \A i \in 1..Len(thread_queue) :
          /\ pc[thread_queue[i]] = "waiting"
          /\ thread_queue[i] # current_thread
          /\ thread_queue[i] \notin woken
    /\ \A i, j \in 1..Len(thread_queue) :
          thread_queue[i] = thread_queue[j] => i = j

QueueInv == TypeOK /\ HolderInv /\ FreeInv /\ WokenInv /\ WaitersInv

--------------------------------------------------------------------------------
\* table.remove(thread_queue, 1): what is taken from a non-empty queue and what
\* stays behind.
LEMMA RemoveFirst ==
    ASSUME NEW S, NEW q \in Seq(S), q # <<>>
    PROVE  /\ Head(q) \in S /\ Head(q) = q[1]
           /\ Tail(q) \in Seq(S)
           /\ Len(Tail(q)) = Len(q) - 1
           /\ \A i \in 1..Len(Tail(q)) : Tail(q)[i] = q[i + 1]
           /\ 1 \in 1..Len(q)
  BY HeadTailProperties, EmptySeq

LEMMA InitInv == Init => QueueInv
  BY ThreadAssumption DEF Init, QueueInv, TypeOK, HolderInv, FreeInv, WokenInv, WaitersInv

LEMMA CallFreeInv ==
    ASSUME QueueInv, NEW t \in Thread, CallFree(t)
    PROVE  QueueInv'
  BY ThreadAssumption
  DEF QueueInv, TypeOK, HolderInv, FreeInv, WokenInv, WaitersInv, CallFree, TakeQueue

LEMMA CallBusyInv ==
    ASSUME QueueInv, NEW t \in Thread, CallBusy(t)
    PROVE  QueueInv'
<1> USE DEF QueueInv, TypeOK, HolderInv, FreeInv, WokenInv, WaitersInv, CallBusy
<1>1. /\ thread_queue' \in Seq(Thread)
      /\ Len(thread_queue') = Len(thread_queue) + 1
      /\ \A i \in 1..Len(thread_queue) : thread_queue'[i] = thread_queue[i]
      /\ thread_queue'[Len(thread_queue) + 1] = t
  BY AppendProperties
<1>2. TypeOK'
  BY <1>1
<1>3. HolderInv' /\ FreeInv' /\ WokenInv'
  BY ThreadAssumption
<1>4. \A i \in 1..Len(thread_queue) : thread_queue[i] # t
  OBVIOUS
<1>5. Len(thread_queue) \in Nat
  BY LenProperties
<1>6. WaitersInv'
  BY <1>1, <1>4, <1>5
<1> QED BY <1>2, <1>3, <1>6

LEMMA CallNestedInv ==
    ASSUME QueueInv, NEW t \in Thread, CallNested(t)
    PROVE  QueueInv'
  BY ThreadAssumption
  DEF QueueInv, TypeOK, HolderInv, FreeInv, WokenInv, WaitersInv, CallNested, TakeQueue

LEMMA ResumeInv ==
    ASSUME QueueInv, NEW t \in Thread, Resume(t)
    PROVE  QueueInv'
  BY ThreadAssumption
  DEF QueueInv, TypeOK, HolderInv, FreeInv, WokenInv, WaitersInv, Resume, TakeQueue

LEMMA ReleaseInv ==
    ASSUME QueueInv, NEW t \in Thread, Release(t)
    PROVE  QueueInv'
<1>1. pc[t] = "inside" /\ current_thread = t /\ depth[t] = ref /\ ref > 0
  BY DEF QueueInv, HolderInv, Release
<1>2. woken = {}
  BY <1>1 DEF QueueInv, WokenInv
<1>3. \A u \in Thread \ {t} : pc[u] # "inside" /\ depth[u] = 0
  BY <1>1 DEF QueueInv, HolderInv
<1>4. CASE ref # 1
  BY <1>1, <1>4 DEF QueueInv, TypeOK, HolderInv, FreeInv, WokenInv, WaitersInv, Release, HandOver
<1>5. CASE ref = 1 /\ thread_queue = <<>>
  <2>1. /\ ref' = 0 /\ current_thread' = None
        /\ UNCHANGED <<thread_queue, woken>>
        /\ depth' = [depth EXCEPT ![t] = 0]
        /\ pc' = [pc EXCEPT ![t] = "outside"]
        /\ nested' = [nested EXCEPT ![t] = 0]
    BY <1>1, <1>5 DEF QueueInv, TypeOK, Release, HandOver
  <2>2. TypeOK' /\ HolderInv'
    BY <1>3, <2>1 DEF QueueInv, TypeOK, HolderInv
  <2>3. FreeInv' /\ WokenInv' /\ WaitersInv'
    BY <1>2, <1>5, <2>1, ThreadAssumption DEF FreeInv, WokenInv, WaitersInv
  <2> QED BY <2>2, <2>3 DEF QueueInv
<1>6. CASE ref = 1 /\ thread_queue # <<>>
  <2> DEFINE h == Head(thread_queue)
  <2>1. /\ h \in Thread /\ h = thread_queue[1]
        /\ Tail(thread_queue) \in Seq(Thread)
        /\ Len(Tail(thread_queue)) = Len(thread_queue) - 1
        /\ \A i \in 1..Len(Tail(thread_queue)) : Tail(thread_queue)[i] = thread_queue[i + 1]
        /\ 1 \in 1..Len(thread_queue)
    BY <1>6, RemoveFirst DEF QueueInv, TypeOK
  <2>2. Len(thread_queue) \in Nat
    BY LenProperties DEF QueueInv, TypeOK
  <2>3. pc[h] = "waiting" /\ h # t
    BY <1>1, <2>1 DEF QueueInv, WaitersInv
  <2>4. /\ ref' = 0 /\ current_thread' = h
        /\ thread_queue' = Tail(thread_queue) /\ woken' = {h}
        /\ depth' = [depth EXCEPT ![t] = 0]
        /\ pc' = [pc EXCEPT ![t] = "outside"]
        /\ nested' = [nested EXCEPT ![t] = 0]
    BY <1>1, <1>2, <1>6 DEF QueueInv, TypeOK, Release, HandOver
  <2> HIDE DEF h
  <2>5. TypeOK' /\ HolderInv'
    BY <1>3, <2>1, <2>4 DEF QueueInv, TypeOK, HolderInv
  <2>6. FreeInv' /\ WokenInv'
    BY <1>3, <2>1, <2>3, <2>4, ThreadAssumption DEF QueueInv, TypeOK, FreeInv, WokenInv
  <2>7. \A i \in 1..Len(thread_queue') :
            i + 1 \in 1..Len(thread_queue) /\ thread_queue'[i] = thread_queue[i + 1]
    BY <2>1, <2>2, <2>4
  <2>8. \A i \in 1..Len(thread_queue') : thread_queue'[i] # h
    BY <2>1, <2>2, <2>7 DEF QueueInv, WaitersInv
  <2>9. \A i \in 1..Len(thread_queue') : pc'[thread_queue'[i]] = "waiting"
    <3> SUFFICES ASSUME NEW i \in 1..Len(thread_queue')
                 PROVE  pc'[thread_queue'[i]] = "waiting"
      OBVIOUS
    <3>1. /\ thread_queue[i + 1] \in Thread
          /\ pc[thread_queue[i + 1]] = "waiting"
          /\ thread_queue[i + 1] # t
      BY <1>1, <2>2, <2>7 DEF QueueInv, TypeOK, WaitersInv
    <3> QED BY <2>4, <2>7, <3>1 DEF QueueInv, TypeOK
  <2>10. \A i, j \in 1..Len(thread_queue') : thread_queue'[i] = thread_queue'[j] => i = j
    BY <2>7 DEF QueueInv, WaitersInv
  <2>11. WaitersInv'
    BY <2>4, <2>8, <2>9, <2>10 DEF WaitersInv
  <2> QED BY <2>5, <2>6, <2>11 DEF QueueInv
<1> QED BY <1>4, <1>5, <1>6

LEMMA QueueInvariant == Spec => []QueueInv
<1>1. QueueInv /\ [Next]_vars => QueueInv'
  <2> SUFFICES ASSUME QueueInv, [Next]_vars PROVE QueueInv'
    OBVIOUS
  <2>1. CASE UNCHANGED vars
    BY <2>1 DEF QueueInv, TypeOK, HolderInv, FreeInv, WokenInv, WaitersInv, vars
  <2>2. CASE Next
    BY <2>2, CallFreeInv, CallBusyInv, CallNestedInv, ResumeInv, ReleaseInv DEF Next
  <2> QED BY <2>1, <2>2
<1> QED BY <1>1, InitInv, PTL DEF Spec

\* Type correctness of the queue's state.
THEOREM QueueTypeOK == Spec => []TypeOK
<1>1. QueueInv => TypeOK
  BY DEF QueueInv
<1> QED BY <1>1, QueueInvariant, PTL

\* The functions passed to one queue (queue.lua:24-35) never overlap.
THEOREM QueueExcludes == Spec => []MutualExclusion
<1>1. QueueInv => MutualExclusion
  BY DEF QueueInv, HolderInv, MutualExclusion
<1> QED BY <1>1, QueueInvariant, PTL

\* assert(ref == 0) (queue.lua:29) never fails.
THEOREM QueueAssert == Spec => []WakeAssert
<1>1. QueueInv => WakeAssert
  BY DEF QueueInv, WokenInv, WakeAssert
<1> QED BY <1>1, QueueInvariant, PTL

--------------------------------------------------------------------------------
\* The holder in front of its waiters: what Append, Head and Tail do to it.
LEMMA HolderFirst ==
    ASSUME NEW S, NEW q \in Seq(S), NEW c \in S, NEW t \in S
    PROVE  /\ Append(<<c>> \o q, t) = <<c>> \o Append(q, t)
           /\ <<c>> \o q # <<>>
           /\ Head(<<c>> \o q) = c
           /\ Tail(<<c>> \o q) = q
           /\ Len(<<c>> \o q) = Len(q) + 1
           /\ (<<c>> \o q)[1] = c
           /\ \A i \in 2..Len(q) + 1 : (<<c>> \o q)[i] = q[i - 1]
  OBVIOUS

\* The order in which skynet.queue serves its callers is that of a FIFO line:
\* every step of queue.lua is an arrival at its end, a departure of its head,
\* or invisible.
THEOREM QueueImplementsSerial == Spec => ImplementsSerialQueue
<1>1. Init => Serial!SerialInit
  BY DEF Init, Serial!SerialInit, queueLine
<1>2. QueueInv /\ [Next]_vars => [Serial!SerialNext]_queueLine
  <2> SUFFICES ASSUME QueueInv, [Next]_vars
               PROVE  Serial!SerialNext \/ UNCHANGED queueLine
    OBVIOUS
  <2>0. TypeOK /\ Len(thread_queue) \in Nat
    BY LenProperties DEF QueueInv, TypeOK
  <2>1. CASE UNCHANGED vars
    BY <2>1 DEF vars, queueLine
  <2>2. ASSUME NEW t \in Thread, CallFree(t) PROVE Serial!Arrive(t)
    <3>1. queueLine = <<>> /\ queueLine' = <<t>> \o thread_queue /\ thread_queue = <<>>
      BY <2>2, ThreadAssumption DEF CallFree, TakeQueue, queueLine, QueueInv, FreeInv
    <3>2. queueLine' = Append(queueLine, t)
      BY <3>1
    <3>3. ~Serial!InLine(t)
      BY <3>1 DEF Serial!InLine
    <3> QED BY <3>2, <3>3 DEF Serial!Arrive
  <2>3. ASSUME NEW t \in Thread, CallBusy(t) PROVE Serial!Arrive(t)
    <3> DEFINE c == current_thread
    <3>1. c \in Thread /\ c # None /\ c # t /\ pc[t] = "outside"
      BY <2>3, <2>0 DEF CallBusy, TypeOK
    <3>2. queueLine = <<c>> \o thread_queue /\ queueLine' = <<c>> \o Append(thread_queue, t)
      BY <2>3, <3>1 DEF CallBusy, queueLine
    <3>3. queueLine' = Append(queueLine, t)
      <4>1. thread_queue \in Seq(Thread)
        BY <2>0 DEF TypeOK
      <4>2. Append(<<c>> \o thread_queue, t) = <<c>> \o Append(thread_queue, t)
        BY <3>1, <4>1, HolderFirst
      <4> QED BY <3>2, <4>2
    <3>4. \A i \in 1..Len(thread_queue) : thread_queue[i] # t
      BY <3>1 DEF QueueInv, WaitersInv
    <3>5. ~Serial!InLine(t)
      <4>1. \A i \in 1..Len(thread_queue) + 1 : i = 1 \/ (i \in 2..Len(thread_queue) + 1 /\ i - 1 \in 1..Len(thread_queue))
        BY <2>0
      <4>2. /\ Len(queueLine) = Len(thread_queue) + 1
            /\ queueLine[1] = c
            /\ \A i \in 2..Len(thread_queue) + 1 : queueLine[i] = thread_queue[i - 1]
        BY <2>0, <3>1, <3>2, HolderFirst DEF TypeOK
      <4> QED BY <3>1, <3>4, <4>1, <4>2 DEF Serial!InLine
    <3> QED BY <3>3, <3>5 DEF Serial!Arrive
  <2>4. ASSUME NEW t \in Thread, CallNested(t) PROVE UNCHANGED queueLine
    BY <2>4 DEF CallNested, TakeQueue, queueLine, QueueInv, HolderInv
  <2>5. ASSUME NEW t \in Thread, Resume(t) PROVE UNCHANGED queueLine
    BY <2>5 DEF Resume, TakeQueue, queueLine, QueueInv, WokenInv
  <2>6. ASSUME NEW t \in Thread, Release(t) PROVE Serial!Leave(t) \/ UNCHANGED queueLine
    <3>1. current_thread = t
      BY <2>6 DEF Release, QueueInv, HolderInv
    <3>2. CASE ref # 1
      BY <2>6, <3>2 DEF Release, HandOver, queueLine
    <3>3. CASE ref = 1
      <4>1. queueLine = <<t>> \o thread_queue
        BY <3>1, ThreadAssumption DEF queueLine
      <4>2. queueLine # <<>> /\ Head(queueLine) = t /\ Tail(queueLine) = thread_queue
        <5>1. thread_queue \in Seq(Thread)
          BY <2>0 DEF TypeOK
        <5>2. /\ <<t>> \o thread_queue # <<>>
              /\ Head(<<t>> \o thread_queue) = t
              /\ Tail(<<t>> \o thread_queue) = thread_queue
          BY <5>1, HolderFirst
        <5> QED BY <4>1, <5>2
      <4>3. queueLine' = thread_queue
        <5>1. CASE thread_queue = <<>>
          BY <2>6, <3>3, <5>1 DEF Release, HandOver, queueLine
        <5>2. CASE thread_queue # <<>>
          <6>1. Head(thread_queue) \in Thread
            BY <2>0, <5>2, RemoveFirst DEF TypeOK
          <6>2. queueLine' = <<Head(thread_queue)>> \o Tail(thread_queue)
            BY <2>6, <3>3, <5>2, <6>1, ThreadAssumption DEF Release, HandOver, queueLine
          <6>3. thread_queue = <<Head(thread_queue)>> \o Tail(thread_queue)
            BY <2>0, <5>2 DEF TypeOK
          <6> QED BY <6>2, <6>3
        <5> QED BY <5>1, <5>2
      <4> QED BY <4>2, <4>3 DEF Serial!Leave
    <3> QED BY <3>2, <3>3
  <2> QED BY <2>1, <2>2, <2>3, <2>4, <2>5, <2>6 DEF Next, Serial!SerialNext
<1> QED BY <1>1, <1>2, QueueInvariant, PTL DEF Spec, ImplementsSerialQueue, Serial!SerialSpec
================================================================================
