---------------------------- MODULE SkynetTimer ----------------------------
(***************************************************************************)
(* The timing wheel of the skynet node (skynet_timer.c): a 32-bit tick     *)
(* counter, one array of lists for the ticks of the current block (near)   *)
(* and four arrays of lists for the coarser levels, which timer_shift      *)
(* moves down when the counter reaches their block.  Services set timeouts *)
(* whenever the timer thread does not hold the lock, which it lets go      *)
(* while it dispatches a list.                                             *)
(*                                                                         *)
(* The near array is level 0 of the model and t[i] is level i + 1.  The    *)
(* counter wraps at 2^Width; nothing else bounds the run.                  *)
(***************************************************************************)
EXTENDS Integers, Sequences, FiniteSets

CONSTANTS
    NearShift,   \* TIME_NEAR_SHIFT, 8 in the code
    LevelShift,  \* TIME_LEVEL_SHIFT, 6 in the code
    Levels,      \* arrays above near, 4 in the code
    Session,     \* timeouts that may be pending at once
    MaxDiff      \* bound: ticks that one skynet_updatetime makes up for

ASSUME TimerAssumption ==
    /\ NearShift \in Nat \ {0} /\ LevelShift \in Nat \ {0} /\ Levels \in Nat \ {0}
    /\ MaxDiff \in Nat \ {0}

Width    == NearShift + Levels * LevelShift
MaxTime  == 2 ^ Width
MaxDelay == MaxTime \div 2 - 1   \* the time argument is a positive int

VARIABLES
    time,     \* T->time
    wheel,    \* the list of each slot; a node is [session, expire]
    pc,       \* the timer thread: idle, in the first or the second dispatch
    current,  \* the list it dispatches
    diff,     \* ticks that skynet_updatetime still has to make up for
    left,     \* ghost: ticks until a pending timeout is due
    older     \* ghost: pending timeouts of the same tick that were set before

vars == <<time, wheel, pc, current, diff, left, older>>

Slot == ({0} \X (0..2 ^ NearShift - 1)) \cup ((1..Levels) \X (0..2 ^ LevelShift - 1))
Node == [session : Session, expire : 0..MaxTime - 1]

\* Bits below level k, the digit of x at level k, and its block above it.
Below(k)    == IF k = 0 THEN 0 ELSE NearShift + (k - 1) * LevelShift
Digit(x, k) == (x \div 2 ^ Below(k)) % 2 ^ (IF k = 0 THEN NearShift ELSE LevelShift)
Block(x, k) == x \div 2 ^ Below(k + 1)

Nodes(l) == {l[i] : i \in DOMAIN l}

\* A fault: the last level is taken when the blocks of the level above agree.
SlotOfCoarse(now, x) ==
    LET k == CHOOSE k \in 0..Levels :
                /\ k = Levels \/ Block(x, k + 1) = Block(now, k + 1)
                /\ \A j \in 0..k - 1 : Block(x, j + 1) # Block(now, j + 1)
    IN  <<k, Digit(x, k)>>

\* add_node: the lowest level whose current block holds the tick.
SlotOf(now, x) ==
    LET k == CHOOSE k \in 0..Levels :
                /\ k = Levels \/ Block(x, k) = Block(now, k)
                /\ \A j \in 0..k - 1 : Block(x, j) # Block(now, j)
    IN  <<k, Digit(x, k)>>

\* The elements of l at the positions I, in their order.
Subsequence(l, I) ==
    [p \in 1..Cardinality(I) |-> l[CHOOSE i \in I : Cardinality({j \in I : j <= i}) = p]]

\* The nodes of l that add_node puts into slot s.
GoingTo(l, now, s) == Subsequence(l, {i \in DOMAIN l : SlotOf(now, l[i].expire) = s})

\* A fault: the list is added again and not cleared where it was.
MoveListKeeps(w, now, from) ==
    [s \in Slot |-> w[s] \o GoingTo(w[from], now, s)]

\* A fault: the nodes of a list are added again from its end.
MoveListReversed(w, now, from) ==
    LET l   == w[from]
        rev == [i \in DOMAIN l |-> l[Len(l) + 1 - i]]
    IN  [s \in Slot |-> (IF s = from THEN <<>> ELSE w[s]) \o GoingTo(rev, now, s)]

\* A fault: only the first node of the list is added again.
MoveListFirst(w, now, from) ==
    [s \in Slot |-> (IF s = from THEN <<>> ELSE w[s])
                     \o GoingTo(SubSeq(w[from], 1, IF w[from] = <<>> THEN 0 ELSE 1), now, s)]

\* move_list: the nodes of a slot are added again, in their order.
MoveList(w, now, from) ==
    [s \in Slot |-> (IF s = from THEN <<>> ELSE w[s]) \o GoingTo(w[from], now, s)]

\* A fault: nothing is moved down when the counter wraps.
CascadeNoWrap(w, ct) ==
    IF Digit(ct, 0) # 0 \/ ct = 0 THEN w
    ELSE LET k == CHOOSE k \in 1..Levels :
                     Digit(ct, k) # 0 /\ \A j \in 1..k - 1 : Digit(ct, j) = 0
         IN  MoveList(w, ct, <<k, Digit(ct, k)>>)

\* timer_shift, for the new value of the counter: at the start of a block one
\* slot of the lowest level with a non-zero digit is moved down, and at zero
\* the first slot of the last level.
Cascade(w, ct) ==
    IF ct = 0 THEN MoveList(w, ct, <<Levels, 0>>)
    ELSE IF Digit(ct, 0) # 0 THEN w
    ELSE LET k == CHOOSE k \in 1..Levels :
                     Digit(ct, k) # 0 /\ \A j \in 1..k - 1 : Digit(ct, j) = 0
         IN  MoveList(w, ct, <<k, Digit(ct, k)>>)

-----------------------------------------------------------------------------

\* A node that has run for any number of ticks and has no timeout pending.
Init ==
    /\ time \in 0..MaxTime - 1
    /\ wheel = [s \in Slot |-> <<>>]
    /\ pc = "idle"
    /\ current = <<>>
    /\ diff = 0
    /\ left = [s \in Session |-> 0]
    /\ older = [s \in Session |-> {}]

\* The timeouts that are in the wheel or in the list being dispatched.
Pending ==
    {n.session : n \in Nodes(current) \cup UNION {Nodes(wheel[s]) : s \in Slot}}

\* A fault: the sum is not cut to the width of the counter.
TimeoutUncut(s, delay) ==
    /\ LET expire == time + delay
           slot   == SlotOf(time, expire)
       IN  wheel' = [wheel EXCEPT ![slot] = Append(@, [session |-> s, expire |-> expire])]
    /\ left' = [left EXCEPT ![s] = delay]
    /\ older' = [older EXCEPT ![s] = {r \in Pending : left[r] = delay}]
    /\ UNCHANGED <<time, pc, current, diff>>

\* skynet_timeout with a positive time, and timer_add.  A time of zero or less
\* is a message sent at once and leaves the wheel alone.
Timeout(s, delay) ==
    /\ LET expire == (time + delay) % MaxTime
           slot   == SlotOf(time, expire)
       IN  wheel' = [wheel EXCEPT ![slot] = Append(@, [session |-> s, expire |-> expire])]
    /\ left' = [left EXCEPT ![s] = delay]
    /\ older' = [older EXCEPT ![s] = {r \in Pending : left[r] = delay}]
    /\ UNCHANGED <<time, pc, current, diff>>

\* skynet_updatetime: the clock has moved by d ticks since the last call.
UpdateTime(d) ==
    /\ pc = "idle" /\ diff = 0
    /\ diff' = d
    /\ UNCHANGED <<time, wheel, pc, current, left, older>>

\* timer_execute finds a list in the slot of the current tick of w and takes it.
Detach(w, now, phase) ==
    /\ wheel' = [w EXCEPT ![<<0, Digit(now, 0)>>] = <<>>]
    /\ current' = w[<<0, Digit(now, 0)>>]
    /\ pc' = phase

\* A fault: the nodes due at the new tick are looked for before it is moved to.
ShiftLate(w) ==
    LET now == (time + 1) % MaxTime
    IN  /\ time' = now
        /\ diff' = diff - 1
        /\ left' = [s \in Session |-> IF left[s] > 0 THEN left[s] - 1 ELSE 0]
        /\ IF w[<<0, Digit(now, 0)>>] # <<>>
           THEN Detach(w, now, "second")
           ELSE wheel' = Cascade(w, now) /\ current' = <<>> /\ pc' = "idle"

\* timer_shift and the timer_execute that follows it, under one lock.
Shift(w) ==
    LET now == (time + 1) % MaxTime
        v   == Cascade(w, now)
    IN  /\ time' = now
        /\ diff' = diff - 1
        /\ left' = [s \in Session |-> IF left[s] > 0 THEN left[s] - 1 ELSE 0]
        /\ IF v[<<0, Digit(now, 0)>>] # <<>>
           THEN Detach(v, now, "second")
           ELSE wheel' = v /\ current' = <<>> /\ pc' = "idle"

\* timer_update takes the lock.  A list found before the shift goes first
\* (timeout 0, "rare condition").
TimerUpdate ==
    /\ pc = "idle" /\ diff > 0
    /\ IF wheel[<<0, Digit(time, 0)>>] # <<>>
       THEN Detach(wheel, time, "first") /\ UNCHANGED <<time, diff, left>>
       ELSE Shift(wheel)
    /\ UNCHANGED older

\* dispatch_list pushes one message, without the lock.
Dispatch ==
    /\ pc # "idle" /\ current # <<>>
    /\ current' = Tail(current)
    /\ older' = [s \in Session |->
                    IF s = Head(current).session THEN {} ELSE older[s] \ {Head(current).session}]
    /\ UNCHANGED <<time, wheel, pc, diff, left>>

\* The lock is taken again: a list that has come up meanwhile is dispatched
\* too, then the first timer_execute goes on to the shift, the second ends.
Relock ==
    /\ pc # "idle" /\ current = <<>>
    /\ IF wheel[<<0, Digit(time, 0)>>] # <<>>
       THEN Detach(wheel, time, pc) /\ UNCHANGED <<time, diff, left>>
       ELSE IF pc = "first" THEN Shift(wheel)
       ELSE pc' = "idle" /\ UNCHANGED <<time, wheel, current, diff, left>>
    /\ UNCHANGED older

TimerThread == TimerUpdate \/ Dispatch \/ Relock \/ \E d \in 1..MaxDiff : UpdateTime(d)

Next ==
    \/ TimerThread
    \/ \E s \in Session \ Pending, delay \in 1..MaxDelay : Timeout(s, delay)

Spec == Init /\ [][Next]_vars

\* The clock goes on and the timer thread keeps running.
FairSpec == Spec /\ WF_vars(TimerThread)

-----------------------------------------------------------------------------
(* Properties                                                              *)

TypeOK ==
    /\ time \in 0..MaxTime - 1
    /\ wheel \in [Slot -> Seq(Node)]
    /\ pc \in {"idle", "first", "second"}
    /\ current \in Seq(Node)
    /\ diff \in 0..MaxDiff
    /\ left \in [Session -> 0..MaxDelay]
    /\ older \in [Session -> SUBSET Session]

\* A timeout is dispatched in the tick it was set for, neither before nor
\* after, across every cascade, the wrap of the counter, and timeouts set
\* while a list is being dispatched.
OnTime ==
    /\ \A n \in Nodes(current) : left[n.session] = 0
    /\ \A s \in Slot : \A n \in Nodes(wheel[s]) : left[n.session] > 0

\* Every node of the wheel is in the slot that timer_shift will look in: it
\* agrees with the counter above its level and is ahead of it at its level.
InPlace ==
    \A s \in Slot : \A n \in Nodes(wheel[s]) :
        LET k == s[1] IN
        /\ Digit(n.expire, k) = s[2]
        /\ \/ k < Levels /\ Block(n.expire, k) = Block(time, k) /\ s[2] > Digit(time, k)
           \/ k = Levels /\ s[2] # Digit(time, k)

\* A timeout is in one list, once: no cascade or dispatch doubles it.
Once ==
    /\ \A r, s \in Slot : \A i \in DOMAIN wheel[r], j \in DOMAIN wheel[s] :
          wheel[r][i].session = wheel[s][j].session => r = s /\ i = j
    /\ \A i, j \in DOMAIN current : current[i].session = current[j].session => i = j
    /\ \A n \in Nodes(current), s \in Slot : \A m \in Nodes(wheel[s]) : m.session # n.session

\* Timeouts of one tick are dispatched in the order they were set, though some
\* reach the slot by cascades and others are put into it directly.
SetOrder ==
    \A i, j \in DOMAIN current :
        i < j => current[j].session \notin older[current[i].session]

\* Nothing but its own dispatch ends a timeout: no cascade, no wrap and no list
\* taken out of the wheel loses a node.
NoneLost ==
    [][\A s \in Pending : s \in Pending' \/ (Dispatch /\ s = Head(current).session)]_vars

\* Every timeout is dispatched: no node is left behind in a slot.
Fires == \A s \in Session : s \in Pending ~> (s \notin Pending)
=============================================================================
