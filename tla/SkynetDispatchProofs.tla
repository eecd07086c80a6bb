------------------------ MODULE SkynetDispatchProofs ------------------------
(***************************************************************************)
(* For every set of workers, every weight and every number of services and *)
(* messages: the reference counts are exact, a queue has one owner, and    *)
(* nothing that was freed is used.                                         *)
(***************************************************************************)
EXTENDS SkynetDispatch, FiniteSetTheorems, SequenceTheorems, TLAPS

USE DEF nodeVars

\* The steps of skynet_context_push and skynet_context_release.
InCall == {"grabdst", "push", "release", "delete", "deleted"}

\* Where w is in its own code: where its call returns to, if it is in one.
At(w) == IF pc[w] \in InCall THEN ret[w] ELSE pc[w]

InLaunch   == {"init", "inited", "launched", "enqueue", "retire"}
InDispatch == {"first", "more", "length", "calling", "swap", "pushback"} \cup InLaunch
InLaunchCall == {"inited", "launched", "retire", "mqrelease"}
InDrop     == {"mqrelease", "drop"}
HasNoQueue == {"pop", "next", "sleep", "waiting", "woken"}
Outside    == HasNoQueue \cup {"loop", "grab", "done"}
WorkerAt   == InDispatch \cup InDrop \cup Outside
Location   == WorkerAt \cup InCall \cup {"tick"}

\* Where a thread can be, and what its argument registers hold there.
CallOf(t) ==
    /\ pc[t] \in InCall => obj[t] # NoHandle
    /\ t = Timer => /\ pc[t] \in InCall \cup {"tick", "done"}
                    /\ pc[t] \in InCall => ret[t] = "tick"
    /\ t \in Worker =>
          /\ pc[t] # "tick"
          /\ pc[t] = "pushback" => obj[t] # NoHandle
          /\ pc[t] \in InCall =>
                ret[t] \in {"loop", "next", "calling", "drop"} \cup InLaunchCall
          /\ pc[t] \in InCall /\ ret[t] \in InLaunchCall =>
                obj[t] = child[t] /\ child[t] # NoHandle
          /\ pc[t] \in {"delete", "deleted"} => ret[t] # "inited"

\* Threads are where the code has a place, with what the code there needs.
PcInv ==
    /\ pc \in [Thread -> Location] /\ ret \in [Thread -> Location]
    /\ \A t \in Thread : CallOf(t)

\* The queue, the context and the new service that a worker has at each place.
RegistersAt(w, l) ==
    /\ l \in InDispatch => q[w] # NoHandle /\ ctx[w] = q[w]
    /\ l \in InDispatch => (child[w] # NoHandle <=> l \in InLaunch)
    /\ l \in Outside => ctx[w] = NoHandle /\ child[w] = NoHandle
    /\ l \in HasNoQueue => q[w] = NoHandle
    /\ l = "grab" => q[w] # NoHandle
    /\ l = "length" => Weight[w] \in Nat
    /\ l \in InDrop => /\ q[w] # NoHandle
                       /\ ctx[w] = IF child[w] # NoHandle THEN q[w] ELSE NoHandle
    /\ l = "drop" => release[Dead(w)]

RegistersOf(w) == RegistersAt(w, At(w))

\* That holds for all workers.
WorkerInv == \A w \in Worker : RegistersOf(w)

\* What no service has yet is in the state skynet_context_new expects.
FreshInv ==
    \A h \in Handle : h >= handle_index =>
        /\ ~in_global[h] /\ ~release[h] /\ mq[h] = <<>> /\ h \notin freed
        /\ ref[h] = 0 /\ h \notin slot /\ h \notin init

\* One thread deletes a context, after its last reference is gone; a queue is
\* dropped and freed after that.
DeleteInv ==
    /\ \A t \in Thread : pc[t] = "delete" =>
          ref[obj[t]] = 0 /\ ~release[obj[t]] /\ obj[t] < handle_index
    /\ \A t \in Thread : pc[t] = "deleted" => release[obj[t]]
    /\ \A t, u \in Thread : pc[t] = "delete" /\ pc[u] = "delete" /\ obj[t] = obj[u] => t = u
    /\ \A h \in Handle : release[h] => ref[h] = 0
    /\ \A h \in freed : release[h]

\* A queue that is queued, taken or to be freed has one owner, others none.
OwnInv ==
    \A h \in Handle :
        Owners(h) = IF h \notin freed /\ (in_global[h] \/ release[h]) THEN 1 ELSE 0

\* A queue with messages is one that a worker will come to.
MessageInv == \A h \in Handle : mq[h] # <<>> => in_global[h] /\ h \notin freed

\* G_NODE.total: the contexts in use and those being deleted, without the
\* one that was reserved.
Live     == {h \in Handle : ref[h] > 0}
Deleting == {t \in Thread : pc[t] \in {"delete", "deleted"}}
TotalInv == total = Cardinality(Live) + Cardinality(Deleting)
                    - (IF reserved = NoHandle THEN 0 ELSE 1)

\* The inductive invariant.
DispatchInv ==
    /\ TypeOK /\ PcInv /\ WorkerInv
    /\ FreshInv /\ DeleteInv /\ MessageInv
    /\ RefCounted /\ OwnInv /\ TotalInv

-----------------------------------------------------------------------------
(* Counting                                                                *)

\* Two sets that agree except at t: their sizes differ by what t adds.
LEMMA CountStep ==
    \A S : IsFiniteSet(S) => \A A, B \in SUBSET S : \A t \in S :
        (\A u \in S : u # t => (u \in A <=> u \in B)) =>
            /\ Cardinality(A) \in Nat /\ Cardinality(B) \in Nat
            /\ Cardinality(B) = Cardinality(A) + (IF t \in B THEN 1 ELSE 0)
                                               - (IF t \in A THEN 1 ELSE 0)
<1> SUFFICES ASSUME NEW S, IsFiniteSet(S), NEW A \in SUBSET S, NEW B \in SUBSET S,
                    NEW t \in S, \A u \in S : u # t => (u \in A <=> u \in B)
             PROVE  /\ Cardinality(A) \in Nat /\ Cardinality(B) \in Nat
                    /\ Cardinality(B) = Cardinality(A) + (IF t \in B THEN 1 ELSE 0)
                                                       - (IF t \in A THEN 1 ELSE 0)
  OBVIOUS
<1>1. IsFiniteSet(A) /\ IsFiniteSet(B)
  BY FS_Subset
<1>2. Cardinality(A) \in Nat /\ Cardinality(B) \in Nat
  BY <1>1, FS_CardinalityType
<1>3. CASE t \in A /\ t \in B
  <2>1. A = B
    BY <1>3
  <2> QED BY <1>2, <1>3, <2>1
<1>4. CASE t \notin A /\ t \notin B
  <2>1. A = B
    BY <1>4
  <2> QED BY <1>2, <1>4, <2>1
<1>5. CASE t \in A /\ t \notin B
  <2>1. A = B \cup {t}
    BY <1>5
  <2>2. Cardinality(A) = Cardinality(B) + 1
    BY <1>1, <1>5, <2>1, FS_AddElement
  <2> QED BY <1>2, <1>5, <2>2
<1>6. CASE t \notin A /\ t \in B
  <2>1. B = A \cup {t}
    BY <1>6
  <2>2. Cardinality(B) = Cardinality(A) + 1
    BY <1>1, <1>6, <2>1, FS_AddElement
  <2> QED BY <1>2, <1>6, <2>2
<1> QED BY <1>3, <1>4, <1>5, <1>6

\* What is in a set counts, and two things in it count as two.
LEMMA CountMembers ==
    ASSUME NEW S, IsFiniteSet(S), NEW A \in SUBSET S
    PROVE  /\ Cardinality(A) \in Nat
           /\ \A x \in A : Cardinality(A) >= 1
           /\ \A x, y \in A : x # y => Cardinality(A) >= 2
           /\ Cardinality(A) > 0 => A # {}
<1>1. IsFiniteSet(A) /\ Cardinality(A) \in Nat
  BY FS_Subset, FS_CardinalityType
<1>2. ASSUME NEW x \in A PROVE Cardinality(A) >= 1
  BY <1>1, FS_EmptySet
<1>3. ASSUME NEW x \in A, NEW y \in A, x # y PROVE Cardinality(A) >= 2
  <2>1. IsFiniteSet(A \ {x}) /\ Cardinality(A \ {x}) = Cardinality(A) - 1
    BY <1>1, FS_RemoveElement
  <2>2. A \ {x} # {}
    BY <1>3
  <2>3. Cardinality(A \ {x}) # 0
    BY <2>1, <2>2, FS_EmptySet
  <2>4. Cardinality(A \ {x}) \in Nat
    BY <2>1, FS_CardinalityType
  <2> QED BY <1>1, <2>1, <2>3, <2>4
<1>4. Cardinality(A) > 0 => A # {}
  BY <1>1, FS_EmptySet
<1> QED BY <1>1, <1>2, <1>3, <1>4

\* Threads and handles can be counted.
LEMMA ThreadsFinite == IsFiniteSet(Worker) /\ IsFiniteSet(Thread) /\ IsFiniteSet(Handle)
<1>1. IsFiniteSet(Worker) /\ MaxHandle \in Nat
  BY DispatchAssumption
<1>2. IsFiniteSet(Thread)
  BY <1>1, FS_AddElement DEF Thread
<1>3. IsFiniteSet(Handle)
  BY <1>1, FS_Interval DEF Handle
<1> QED BY <1>1, <1>2, <1>3

\* The places of h in a list of queues.
Places(s, h) == {i \in DOMAIN s : s[i] = h}

\* The places of a queue in the global queue can be counted.
LEMMA PlacesFinite ==
    ASSUME NEW s \in Seq(Handle), NEW h
    PROVE  /\ IsFiniteSet(DOMAIN s) /\ IsFiniteSet(Places(s, h))
           /\ Cardinality(Places(s, h)) \in Nat
<1>1. DOMAIN s = 1..Len(s) /\ Len(s) \in Nat
  BY LenProperties
<1>2. IsFiniteSet(DOMAIN s)
  BY <1>1, FS_Interval
<1>3. Places(s, h) \in SUBSET DOMAIN s
  BY DEF Places
<1> QED BY <1>2, <1>3, FS_Subset, FS_CardinalityType

\* skynet_globalmq_push: the queue pushed is in one place more.
LEMMA PlacesAppend ==
    ASSUME NEW s \in Seq(Handle), NEW x \in Handle, NEW h
    PROVE  /\ Append(s, x) \in Seq(Handle)
           /\ Cardinality(Places(Append(s, x), h)) = Cardinality(Places(s, h)) + (IF x = h THEN 1 ELSE 0)
<1> DEFINE n == Len(s) + 1
<1>1. /\ Append(s, x) \in Seq(Handle)
      /\ Len(Append(s, x)) = Len(s) + 1
      /\ \A i \in 1..Len(s) : Append(s, x)[i] = s[i]
      /\ Append(s, x)[n] = x
  BY AppendProperties
<1>2. Len(s) \in Nat /\ DOMAIN s = 1..Len(s) /\ DOMAIN Append(s, x) = 1..n
  BY <1>1, LenProperties
<1> DEFINE N == 1..n
           A == Places(s, h)
           B == Places(Append(s, x), h)
<1>3. IsFiniteSet(N) /\ n \in N
  BY <1>2, FS_Interval
<1>4. A \in SUBSET N /\ B \in SUBSET N
  BY <1>2 DEF Places
<1>5. \A i \in N : i # n => (i \in A <=> i \in B)
  BY <1>1, <1>2 DEF Places
<1>6. n \notin A /\ (n \in B <=> x = h)
  BY <1>1, <1>2 DEF Places
<1> HIDE DEF n, N, A, B
<1>7. /\ Cardinality(A) \in Nat
      /\ Cardinality(B) = Cardinality(A) + (IF n \in B THEN 1 ELSE 0) - (IF n \in A THEN 1 ELSE 0)
  BY <1>3, <1>4, <1>5, CountStep
<1>8. Cardinality(B) = Cardinality(A) + (IF x = h THEN 1 ELSE 0)
  BY <1>6, <1>7
<1> QED BY <1>1, <1>8 DEF A, B

\* skynet_globalmq_pop: the queue taken is in one place less.
LEMMA PlacesTail ==
    ASSUME NEW s \in Seq(Handle), s # <<>>, NEW h
    PROVE  /\ Tail(s) \in Seq(Handle) /\ Head(s) \in Handle
           /\ Cardinality(Places(Tail(s), h)) = Cardinality(Places(s, h)) - (IF Head(s) = h THEN 1 ELSE 0)
           /\ Head(s) = s[1] /\ 1 \in DOMAIN s
<1>1. /\ Head(s) \in Handle /\ Head(s) = s[1]
      /\ Tail(s) \in Seq(Handle)
      /\ Len(Tail(s)) = Len(s) - 1
      /\ \A i \in 1..Len(Tail(s)) : Tail(s)[i] = s[i + 1]
      /\ 1 \in 1..Len(s)
  BY HeadTailProperties, EmptySeq
<1>2. Len(s) \in Nat /\ DOMAIN s = 1..Len(s) /\ DOMAIN Tail(s) = 1..(Len(s) - 1)
  BY <1>1, LenProperties
<1> DEFINE R == Places(s, h) \ {1}
           f == [i \in Places(Tail(s), h) |-> i + 1]
<1>3. f \in Bijection(Places(Tail(s), h), R)
  <2>1. \A i \in Places(Tail(s), h) : i \in Nat /\ i + 1 \in R
    BY <1>1, <1>2 DEF Places
  <2>2. \A j \in R : j - 1 \in Places(Tail(s), h) /\ (j - 1) + 1 = j
    <3> SUFFICES ASSUME NEW j \in R
                 PROVE  j - 1 \in Places(Tail(s), h) /\ (j - 1) + 1 = j
      OBVIOUS
    <3>1. j \in 2..Len(s) /\ s[j] = h
      BY <1>2 DEF Places
    <3>2. j - 1 \in 1..(Len(s) - 1) /\ (j - 1) + 1 = j
      BY <1>2, <3>1
    <3> QED BY <1>1, <1>2, <3>1, <3>2 DEF Places
  <2>3. f \in [Places(Tail(s), h) -> R]
    BY <2>1
  <2>4. \A a, b \in Places(Tail(s), h) : f[a] = f[b] => a = b
    BY <2>1
  <2>5. \A j \in R : \E a \in Places(Tail(s), h) : f[a] = j
    BY <2>2
  <2> HIDE DEF f, R
  <2>6. f \in Injection(Places(Tail(s), h), R)
    BY <2>3, <2>4 DEF Injection, IsInjective
  <2>7. f \in Surjection(Places(Tail(s), h), R)
    BY <2>3, <2>5 DEF Surjection
  <2> QED BY <2>6, <2>7 DEF Bijection
<1>4. Cardinality(R) = Cardinality(Places(Tail(s), h))
  <2>1. ExistsBijection(Places(Tail(s), h), R)
    BY <1>3 DEF ExistsBijection
  <2>2. IsFiniteSet(Places(Tail(s), h))
    BY <1>1, PlacesFinite
  <2> QED BY <2>1, <2>2, FS_Bijection
<1>5. Cardinality(R) = IF 1 \in Places(s, h) THEN Cardinality(Places(s, h)) - 1
                                             ELSE Cardinality(Places(s, h))
  BY PlacesFinite, FS_RemoveElement
<1>6. 1 \in Places(s, h) <=> Head(s) = h
  BY <1>1, <1>2 DEF Places
<1>7. Cardinality(Places(s, h)) \in Nat
  BY PlacesFinite
<1> QED BY <1>1, <1>2, <1>4, <1>5, <1>6, <1>7

-----------------------------------------------------------------------------
(* What one thread's step changes in the counts                            *)

\* Only thread t's registers change.
Moves(t) ==
    /\ \A u \in Thread : u # t => /\ pc'[u] = pc[u] /\ ret'[u] = ret[u]
                                  /\ obj'[u] = obj[u] /\ msg'[u] = msg[u]
    /\ \A u \in Worker : u # t => /\ q'[u] = q[u] /\ ctx'[u] = ctx[u]
                                  /\ child'[u] = child[u] /\ left'[u] = left[u]

\* The three ways in which a thread holds a reference to context h.
CtxRef(t, h)   == t \in Worker /\ ctx[t] = h
ObjRef(t, h)   == obj[t] = h /\ pc[t] \in {"push", "release"}
ChildRef(t, h) == /\ t \in Worker /\ child[t] = h
                  /\ \/ pc[t] \in {"init", "inited"}
                     \/ pc[t] \in {"grabdst", "push", "release"} /\ ret[t] = "inited"

Held(t, h) == (IF CtxRef(t, h) THEN 1 ELSE 0) + (IF ObjRef(t, h) THEN 1 ELSE 0)
              + (IF ChildRef(t, h) THEN 1 ELSE 0)

CtxUsers(h)   == {t \in Thread : CtxRef(t, h)}
ObjUsers(h)   == {t \in Thread : ObjRef(t, h)}
ChildUsers(h) == {t \in Thread : ChildRef(t, h)}

\* A step of t changes the count of h's references by what t, REMOTE and the
\* table do.
LEMMA RefStep ==
    ASSUME NEW t \in Thread, Moves(t), NEW h
    PROVE  /\ References(h) \in Nat
           /\ References(h)' = References(h)
                + (IF h \in slot' THEN 1 ELSE 0) - (IF h \in slot THEN 1 ELSE 0)
                + (IF h = REMOTE' THEN 1 ELSE 0) - (IF h = REMOTE THEN 1 ELSE 0)
                + Held(t, h)' - Held(t, h)
<1> DEFINE A == CtxUsers(h)   B == CtxUsers(h)'
           C == ObjUsers(h)   D == ObjUsers(h)'
           E == ChildUsers(h) F == ChildUsers(h)'
<1>1. /\ A \in SUBSET Thread /\ B \in SUBSET Thread /\ C \in SUBSET Thread
      /\ D \in SUBSET Thread /\ E \in SUBSET Thread /\ F \in SUBSET Thread
  BY DEF CtxUsers, ObjUsers, ChildUsers
<1>2. \A u \in Thread : u # t => (u \in A <=> u \in B)
  BY DEF CtxUsers, CtxRef, Moves
<1>3. \A u \in Thread : u # t => (u \in C <=> u \in D)
  BY DEF ObjUsers, ObjRef, Moves
<1>4. \A u \in Thread : u # t => (u \in E <=> u \in F)
  BY DEF ChildUsers, ChildRef, Moves
<1>5. /\ t \in A <=> CtxRef(t, h)
      /\ t \in B <=> CtxRef(t, h)'
      /\ t \in C <=> ObjRef(t, h)
      /\ t \in D <=> ObjRef(t, h)'
      /\ t \in E <=> ChildRef(t, h)
      /\ t \in F <=> ChildRef(t, h)'
  BY DEF CtxUsers, ObjUsers, ChildUsers, CtxRef, ObjRef, ChildRef
<1>6. /\ References(h) = (IF h \in slot THEN 1 ELSE 0) + (IF h = REMOTE THEN 1 ELSE 0) + Cardinality(A)
                         + Cardinality(C) + Cardinality(E)
      /\ References(h)' = (IF h \in slot' THEN 1 ELSE 0) + (IF h = REMOTE' THEN 1 ELSE 0) + Cardinality(B)
                          + Cardinality(D) + Cardinality(F)
  <2>1. /\ A = {w \in Worker : ctx[w] = h}
        /\ B = {w \in Worker : ctx'[w] = h}
    BY DEF CtxUsers, CtxRef, Thread
  <2>2. /\ C = {u \in Thread : obj[u] = h /\ pc[u] \in {"push", "release"}}
        /\ D = {u \in Thread : obj'[u] = h /\ pc'[u] \in {"push", "release"}}
    BY DEF ObjUsers, ObjRef
  <2>3. E = {w \in Worker : child[w] = h /\
          \/ pc[w] \in {"init", "inited"}
          \/ pc[w] \in {"grabdst", "push", "release"} /\ ret[w] = "inited"}
    BY DEF ChildUsers, ChildRef, Thread
  <2>4. F = {w \in Worker : child'[w] = h /\
          \/ pc'[w] \in {"init", "inited"}
          \/ pc'[w] \in {"grabdst", "push", "release"} /\ ret'[w] = "inited"}
    BY DEF ChildUsers, ChildRef, Thread
  <2> QED BY <2>1, <2>2, <2>3, <2>4 DEF References
<1> HIDE DEF A, B, C, D, E, F
<1>7. /\ Cardinality(A) \in Nat
      /\ Cardinality(B) = Cardinality(A) + (IF t \in B THEN 1 ELSE 0) - (IF t \in A THEN 1 ELSE 0)
  BY <1>1, <1>2, CountStep, ThreadsFinite
<1>8. /\ Cardinality(C) \in Nat
      /\ Cardinality(D) = Cardinality(C) + (IF t \in D THEN 1 ELSE 0) - (IF t \in C THEN 1 ELSE 0)
  BY <1>1, <1>3, CountStep, ThreadsFinite
<1>9. /\ Cardinality(E) \in Nat
      /\ Cardinality(F) = Cardinality(E) + (IF t \in F THEN 1 ELSE 0) - (IF t \in E THEN 1 ELSE 0)
  BY <1>1, <1>4, CountStep, ThreadsFinite
<1>10. Held(t, h) = (IF t \in A THEN 1 ELSE 0) + (IF t \in C THEN 1 ELSE 0) + (IF t \in E THEN 1 ELSE 0)
  BY <1>5 DEF Held, CtxRef, ObjRef, ChildRef
<1>11. Held(t, h)' = (IF t \in B THEN 1 ELSE 0) + (IF t \in D THEN 1 ELSE 0) + (IF t \in F THEN 1 ELSE 0)
  BY <1>5 DEF Held, CtxRef, ObjRef, ChildRef
<1>12. References(h) \in Nat
  BY <1>6, <1>7, <1>8, <1>9
<1>13. /\ Cardinality(A) \in Int /\ Cardinality(B) \in Int /\ Cardinality(C) \in Int
       /\ Cardinality(D) \in Int /\ Cardinality(E) \in Int /\ Cardinality(F) \in Int
  BY <1>7, <1>8, <1>9
<1>14. Held(t, h)' - Held(t, h) = (Cardinality(B) - Cardinality(A))
          + (Cardinality(D) - Cardinality(C)) + (Cardinality(F) - Cardinality(E))
  BY <1>7, <1>8, <1>9, <1>10, <1>11
<1>15. Held(t, h) \in Int /\ Held(t, h)' \in Int
  BY <1>10, <1>11
<1> QED BY <1>6, <1>12, <1>13, <1>14, <1>15

\* The three ways in which a thread owns queue h.
QueueOf(t, h) == t \in Worker /\ q[t] = h
SwapOf(t, h)  == t \in Worker /\ pc[t] = "pushback" /\ obj[t] = h
ChildOf(t, h) == t \in Worker /\ child[t] = h

Owned(t, h) == (IF QueueOf(t, h) THEN 1 ELSE 0) + (IF SwapOf(t, h) THEN 1 ELSE 0)
               + (IF ChildOf(t, h) THEN 1 ELSE 0)

QueueOwners(h) == {t \in Thread : QueueOf(t, h)}
SwapOwners(h)  == {t \in Thread : SwapOf(t, h)}
ChildOwners(h) == {t \in Thread : ChildOf(t, h)}

\* A step of t changes the owners of h by what t and the global queue do.
LEMMA OwnStep ==
    ASSUME NEW t \in Thread, Moves(t), NEW h,
           Cardinality(Places(globalmq, h)) \in Nat, Cardinality(Places(globalmq', h)) \in Nat
    PROVE  /\ Owners(h) \in Nat
           /\ Owners(h)' = Owners(h)
                + (Cardinality(Places(globalmq', h)) - Cardinality(Places(globalmq, h)))
                + (Owned(t, h)' - Owned(t, h))
<1> DEFINE A == QueueOwners(h) B == QueueOwners(h)'
           C == SwapOwners(h)  D == SwapOwners(h)'
           E == ChildOwners(h) F == ChildOwners(h)'
           G == Places(globalmq, h) K == Places(globalmq', h)
<1>1. /\ A \in SUBSET Thread /\ B \in SUBSET Thread /\ C \in SUBSET Thread
      /\ D \in SUBSET Thread /\ E \in SUBSET Thread /\ F \in SUBSET Thread
  BY DEF QueueOwners, SwapOwners, ChildOwners
<1>2. \A u \in Thread : u # t => (u \in A <=> u \in B)
  BY DEF QueueOwners, QueueOf, Moves
<1>3. \A u \in Thread : u # t => (u \in C <=> u \in D)
  BY DEF SwapOwners, SwapOf, Moves
<1>4. \A u \in Thread : u # t => (u \in E <=> u \in F)
  BY DEF ChildOwners, ChildOf, Moves
<1>5. /\ t \in A <=> QueueOf(t, h)
      /\ t \in B <=> QueueOf(t, h)'
      /\ t \in C <=> SwapOf(t, h)
      /\ t \in D <=> SwapOf(t, h)'
      /\ t \in E <=> ChildOf(t, h)
      /\ t \in F <=> ChildOf(t, h)'
  BY DEF QueueOwners, SwapOwners, ChildOwners, QueueOf, SwapOf, ChildOf
<1>6. /\ Owners(h) = Cardinality(G) + Cardinality(A) + Cardinality(C) + Cardinality(E)
      /\ Owners(h)' = Cardinality(K) + Cardinality(B) + Cardinality(D) + Cardinality(F)
  <2>1. /\ A = {w \in Worker : q[w] = h}
        /\ B = {w \in Worker : q'[w] = h}
    BY DEF QueueOwners, QueueOf, Thread
  <2>2. /\ C = {w \in Worker : pc[w] = "pushback" /\ obj[w] = h}
        /\ D = {w \in Worker : pc'[w] = "pushback" /\ obj'[w] = h}
    BY DEF SwapOwners, SwapOf, Thread
  <2>3. /\ E = {w \in Worker : child[w] = h}
        /\ F = {w \in Worker : child'[w] = h}
    BY DEF ChildOwners, ChildOf, Thread
  <2>4. /\ G = {i \in DOMAIN globalmq : globalmq[i] = h}
        /\ K = {i \in DOMAIN globalmq' : globalmq'[i] = h}
    BY DEF Places
  <2> QED BY <2>1, <2>2, <2>3, <2>4 DEF Owners
<1> HIDE DEF A, B, C, D, E, F, G, K
<1>7. Cardinality(G) \in Nat /\ Cardinality(K) \in Nat
  BY DEF G, K
<1>8. /\ Cardinality(A) \in Nat
      /\ Cardinality(B) = Cardinality(A) + (IF t \in B THEN 1 ELSE 0) - (IF t \in A THEN 1 ELSE 0)
  BY <1>1, <1>2, CountStep, ThreadsFinite
<1>9. /\ Cardinality(C) \in Nat
      /\ Cardinality(D) = Cardinality(C) + (IF t \in D THEN 1 ELSE 0) - (IF t \in C THEN 1 ELSE 0)
  BY <1>1, <1>3, CountStep, ThreadsFinite
<1>10. /\ Cardinality(E) \in Nat
       /\ Cardinality(F) = Cardinality(E) + (IF t \in F THEN 1 ELSE 0) - (IF t \in E THEN 1 ELSE 0)
  BY <1>1, <1>4, CountStep, ThreadsFinite
<1>11. Owned(t, h) = (IF t \in A THEN 1 ELSE 0) + (IF t \in C THEN 1 ELSE 0) + (IF t \in E THEN 1 ELSE 0)
  BY <1>5 DEF Owned, QueueOf, SwapOf, ChildOf
<1>12. Owned(t, h)' = (IF t \in B THEN 1 ELSE 0) + (IF t \in D THEN 1 ELSE 0) + (IF t \in F THEN 1 ELSE 0)
  BY <1>5 DEF Owned, QueueOf, SwapOf, ChildOf
<1>13. /\ Cardinality(A) \in Nat /\ Cardinality(C) \in Nat /\ Cardinality(E) \in Nat
       /\ Cardinality(B) \in Int /\ Cardinality(D) \in Int /\ Cardinality(F) \in Int
  BY <1>8, <1>9, <1>10
<1>14. Owned(t, h)' - Owned(t, h) = (Cardinality(B) - Cardinality(A))
          + (Cardinality(D) - Cardinality(C)) + (Cardinality(F) - Cardinality(E))
  BY <1>8, <1>9, <1>10, <1>11, <1>12
<1>15. Owned(t, h) \in Int /\ Owned(t, h)' \in Int
  BY <1>11, <1>12
<1>16. Owners(h) \in Nat
  BY <1>6, <1>7, <1>13
<1>17. Owners(h)' = Owners(h) + (Cardinality(K) - Cardinality(G)) + (Owned(t, h)' - Owned(t, h))
  BY <1>6, <1>7, <1>13, <1>14, <1>15
<1> QED BY <1>16, <1>17 DEF G, K

\* A step of t that changes only x's count changes the number of contexts that
\* are in use or being deleted by what it does to x and to itself.
LEMMA TotalStep ==
    ASSUME NEW t \in Thread, Moves(t), NEW x \in Handle,
           \A h \in Handle : h # x => ref'[h] = ref[h]
    PROVE  /\ Cardinality(Live) \in Nat /\ Cardinality(Deleting) \in Nat
           /\ Cardinality(Live)' = Cardinality(Live)
                + (IF ref'[x] > 0 THEN 1 ELSE 0) - (IF ref[x] > 0 THEN 1 ELSE 0)
           /\ Cardinality(Deleting)' = Cardinality(Deleting)
                + (IF pc'[t] \in {"delete", "deleted"} THEN 1 ELSE 0)
                - (IF pc[t] \in {"delete", "deleted"} THEN 1 ELSE 0)
<1> DEFINE A == Live B == Live' C == Deleting D == Deleting'
<1>1. A \in SUBSET Handle /\ B \in SUBSET Handle /\ C \in SUBSET Thread /\ D \in SUBSET Thread
  BY DEF Live, Deleting
<1>2. \A h \in Handle : h # x => (h \in A <=> h \in B)
  BY DEF Live
<1>3. \A u \in Thread : u # t => (u \in C <=> u \in D)
  BY DEF Deleting, Moves
<1>4. /\ x \in A <=> ref[x] > 0
      /\ x \in B <=> ref'[x] > 0
      /\ t \in C <=> pc[t] \in {"delete", "deleted"}
      /\ t \in D <=> pc'[t] \in {"delete", "deleted"}
  BY DEF Live, Deleting
<1> HIDE DEF A, B, C, D
<1>5. /\ Cardinality(A) \in Nat
      /\ Cardinality(B) = Cardinality(A) + (IF x \in B THEN 1 ELSE 0) - (IF x \in A THEN 1 ELSE 0)
  BY <1>1, <1>2, CountStep, ThreadsFinite
<1>6. /\ Cardinality(C) \in Nat
      /\ Cardinality(D) = Cardinality(C) + (IF t \in D THEN 1 ELSE 0) - (IF t \in C THEN 1 ELSE 0)
  BY <1>1, <1>3, CountStep, ThreadsFinite
<1>7. /\ Cardinality(Live) = Cardinality(A) /\ Cardinality(Live)' = Cardinality(B)
      /\ Cardinality(Deleting) = Cardinality(C) /\ Cardinality(Deleting)' = Cardinality(D)
  BY DEF A, B, C, D
<1> QED BY <1>4, <1>5, <1>6, <1>7

\* A context that the table, REMOTE or a thread refers to has a positive count.
LEMMA RefUse ==
    ASSUME RefCounted, NEW h \in Handle
    PROVE  /\ h \in slot \/ h = REMOTE => ref[h] > 0
           /\ \A t \in Thread : CtxRef(t, h) \/ ObjRef(t, h) \/ ChildRef(t, h) => ref[h] > 0
           /\ \A t \in Thread : ref[h] >= (IF h \in slot THEN 1 ELSE 0) + Held(t, h)
           /\ \A t \in Thread : h = REMOTE => ref[h] >= 1 + Held(t, h)
<1> DEFINE A == {w \in Worker : ctx[w] = h}
           B == {t \in Thread : obj[t] = h /\ pc[t] \in {"push", "release"}}
           C == {w \in Worker : child[w] = h /\
                  \/ pc[w] \in {"init", "inited"}
                  \/ pc[w] \in {"grabdst", "push", "release"} /\ ret[w] = "inited"}
<1>1. A \in SUBSET Worker /\ B \in SUBSET Thread /\ C \in SUBSET Worker
  OBVIOUS
<1>2. \A t \in Thread : /\ CtxRef(t, h) => t \in A
                        /\ ObjRef(t, h) => t \in B
                        /\ ChildRef(t, h) => t \in C
  BY DEF CtxRef, ObjRef, ChildRef
<1>3. ref[h] = (IF h \in slot THEN 1 ELSE 0) + (IF h = REMOTE THEN 1 ELSE 0)
               + Cardinality(A) + Cardinality(B) + Cardinality(C)
  BY DEF RefCounted, References
<1> HIDE DEF A, B, C
<1>4. /\ Cardinality(A) \in Nat /\ \A x \in A : Cardinality(A) >= 1
      /\ Cardinality(B) \in Nat /\ \A x \in B : Cardinality(B) >= 1
      /\ Cardinality(C) \in Nat /\ \A x \in C : Cardinality(C) >= 1
  BY <1>1, CountMembers, ThreadsFinite
<1>5. h \in slot \/ h = REMOTE => ref[h] > 0
  BY <1>3, <1>4
<1>6. ASSUME NEW t \in Thread, t \in A \/ t \in B \/ t \in C PROVE ref[h] > 0
  BY <1>3, <1>4, <1>6
<1>7. ASSUME NEW t \in Thread
      PROVE  /\ ref[h] >= (IF h \in slot THEN 1 ELSE 0) + Held(t, h)
             /\ h = REMOTE => ref[h] >= 1 + Held(t, h)
  <2>1. /\ Cardinality(A) >= IF CtxRef(t, h) THEN 1 ELSE 0
        /\ Cardinality(B) >= IF ObjRef(t, h) THEN 1 ELSE 0
        /\ Cardinality(C) >= IF ChildRef(t, h) THEN 1 ELSE 0
    BY <1>2, <1>4
  <2> QED BY <1>3, <1>4, <2>1 DEF Held
<1> QED BY <1>2, <1>5, <1>6, <1>7

\* A queue that a worker has is not freed, and nobody else has it.
Has(w, h) == QueueOf(w, h) \/ SwapOf(w, h) \/ ChildOf(w, h)

\* A worker that has a queue is its only owner, has it once, and it is not in the
\* global queue: what skynet_globalmq_pop and in_global are for.
LEMMA SoleOwner ==
    ASSUME OwnInv, globalmq \in Seq(Handle), NEW h \in Handle, NEW w \in Worker, Has(w, h)
    PROVE  /\ h \notin freed /\ (in_global[h] \/ release[h])
           /\ \A u \in Worker : Has(u, h) => u = w
           /\ ~ (QueueOf(w, h) /\ SwapOf(w, h)) /\ ~ (QueueOf(w, h) /\ ChildOf(w, h))
           /\ ~ (SwapOf(w, h) /\ ChildOf(w, h))
           /\ \A i \in DOMAIN globalmq : globalmq[i] # h
<1> DEFINE G == Places(globalmq, h)
           A == {u \in Worker : q[u] = h}
           B == {u \in Worker : pc[u] = "pushback" /\ obj[u] = h}
           C == {u \in Worker : child[u] = h}
<1>1. A \in SUBSET Worker /\ B \in SUBSET Worker /\ C \in SUBSET Worker
  OBVIOUS
<1>2. \A u \in Worker : /\ QueueOf(u, h) <=> u \in A
                        /\ SwapOf(u, h) <=> u \in B
                        /\ ChildOf(u, h) <=> u \in C
  BY DEF QueueOf, SwapOf, ChildOf
<1>3. /\ Cardinality(G) + Cardinality(A) + Cardinality(B) + Cardinality(C)
           = IF h \notin freed /\ (in_global[h] \/ release[h]) THEN 1 ELSE 0
      /\ \A i \in DOMAIN globalmq : globalmq[i] = h => i \in G
      /\ G \in SUBSET DOMAIN globalmq
  BY DEF OwnInv, Owners, Places
<1>4. IsFiniteSet(DOMAIN globalmq)
  BY PlacesFinite
<1> HIDE DEF A, B, C, G
<1>5. /\ Cardinality(A) \in Nat /\ \A x \in A : Cardinality(A) >= 1
      /\ \A x, y \in A : x # y => Cardinality(A) >= 2
  BY <1>1, CountMembers, ThreadsFinite
<1>6. /\ Cardinality(B) \in Nat /\ \A x \in B : Cardinality(B) >= 1
      /\ \A x, y \in B : x # y => Cardinality(B) >= 2
  BY <1>1, CountMembers, ThreadsFinite
<1>7. /\ Cardinality(C) \in Nat /\ \A x \in C : Cardinality(C) >= 1
      /\ \A x, y \in C : x # y => Cardinality(C) >= 2
  BY <1>1, CountMembers, ThreadsFinite
<1>8. Cardinality(G) \in Nat /\ \A x \in G : Cardinality(G) >= 1
  BY <1>3, <1>4, CountMembers
<1>9. w \in A \/ w \in B \/ w \in C
  BY <1>2 DEF Has
<1>10. /\ h \notin freed /\ (in_global[h] \/ release[h])
       /\ Cardinality(G) + Cardinality(A) + Cardinality(B) + Cardinality(C) = 1
  BY <1>3, <1>5, <1>6, <1>7, <1>8, <1>9
<1>11. G = {} /\ ~(w \in A /\ w \in B) /\ ~(w \in A /\ w \in C) /\ ~(w \in B /\ w \in C)
  BY <1>5, <1>6, <1>7, <1>8, <1>9, <1>10
<1>12. ASSUME NEW u \in Worker, Has(u, h) PROVE u = w
  <2>1. u \in A \/ u \in B \/ u \in C
    BY <1>2, <1>12 DEF Has
  <2> QED BY <1>5, <1>6, <1>7, <1>8, <1>9, <1>10, <2>1
<1> QED BY <1>2, <1>3, <1>10, <1>11, <1>12

-----------------------------------------------------------------------------
(* The invariant holds in every state                                      *)

\* A step of t leaves the registers of the other threads as they are.
LEMMA ControlStep ==
    ASSUME PcInv, WorkerInv, NEW t \in Thread, Moves(t),
           pc' \in [Thread -> Location], ret' \in [Thread -> Location],
           TypeOK, \A h \in Handle : release[h] => release'[h],
           CallOf(t)', t \in Worker => RegistersOf(t)'
    PROVE  PcInv' /\ WorkerInv'
<1>1. \A u \in Thread : CallOf(u)'
  <2> SUFFICES ASSUME NEW u \in Thread, u # t PROVE CallOf(u)'
    OBVIOUS
  <2> QED BY DEF PcInv, CallOf, Moves
<1>2. \A w \in Worker : RegistersOf(w)'
  <2> SUFFICES ASSUME NEW w \in Worker, w # t PROVE RegistersOf(w)'
    OBVIOUS
  <2>1. w \in Thread
    BY DEF Thread
  <2>2. At(w)' = At(w) /\ Dead(w)' = Dead(w)
    BY <2>1 DEF Moves, At, Dead
  <2>3. At(w) = "drop" => Dead(w) \in Handle
    BY DEF WorkerInv, RegistersOf, RegistersAt, Dead, InDrop, TypeOK
  <2> QED BY <2>1, <2>2, <2>3 DEF WorkerInv, RegistersOf, RegistersAt, Moves
<1> QED BY <1>1, <1>2 DEF PcInv, WorkerInv

\* The counts hold after a step that changes them by what its thread does.
LEMMA RefNext ==
    ASSUME RefCounted, NEW t \in Thread, Moves(t), UNCHANGED REMOTE,
           \A h \in Handle : ref'[h] = ref[h]
                + ((IF h \in slot' THEN 1 ELSE 0) - (IF h \in slot THEN 1 ELSE 0))
                + (Held(t, h)' - Held(t, h))
    PROVE  RefCounted'
<1> SUFFICES ASSUME NEW h \in Handle PROVE ref'[h] = References(h)'
  BY DEF RefCounted
<1>1. /\ References(h) \in Nat
      /\ References(h)' = References(h)
            + (IF h \in slot' THEN 1 ELSE 0) - (IF h \in slot THEN 1 ELSE 0)
            + Held(t, h)' - Held(t, h)
  BY RefStep
<1>2. ref[h] = References(h)
  BY DEF RefCounted
<1>3. ref'[h] = ref[h] + ((IF h \in slot' THEN 1 ELSE 0) - (IF h \in slot THEN 1 ELSE 0))
                       + (Held(t, h)' - Held(t, h))
  OBVIOUS
<1> QED BY <1>1, <1>2, <1>3

\* One owner remains one owner when the flags of a queue change by what the global
\* queue and the moving thread gain or lose.
LEMMA OwnNext ==
    ASSUME OwnInv, NEW t \in Thread, Moves(t),
           globalmq \in Seq(Handle), globalmq' \in Seq(Handle),
           \A h \in Handle :
               (IF h \notin freed' /\ (in_global'[h] \/ release'[h]) THEN 1 ELSE 0)
                = (IF h \notin freed /\ (in_global[h] \/ release[h]) THEN 1 ELSE 0)
                  + (Cardinality(Places(globalmq', h)) - Cardinality(Places(globalmq, h)))
                  + (Owned(t, h)' - Owned(t, h))
    PROVE  OwnInv'
<1> SUFFICES ASSUME NEW h \in Handle
             PROVE  Owners(h)' = IF h \notin freed' /\ (in_global'[h] \/ release'[h]) THEN 1 ELSE 0
  BY DEF OwnInv
<1>1. Cardinality(Places(globalmq, h)) \in Nat /\ Cardinality(Places(globalmq', h)) \in Nat
  BY PlacesFinite
<1>2. Owners(h)' = Owners(h)
         + (Cardinality(Places(globalmq', h)) - Cardinality(Places(globalmq, h)))
         + (Owned(t, h)' - Owned(t, h))
  BY <1>1, OwnStep
<1>3. Owners(h) = IF h \notin freed /\ (in_global[h] \/ release[h]) THEN 1 ELSE 0
  BY DEF OwnInv
<1> QED BY <1>2, <1>3

\* A thread that holds as many references as before leaves the counts exact.
LEMMA RefSame ==
    ASSUME TypeOK, RefCounted, NEW t \in Thread, Moves(t), UNCHANGED <<ref, slot, REMOTE>>,
           \A h \in Handle : Held(t, h)' = Held(t, h)
    PROVE  RefCounted'
<1>1. \A h \in Handle : ref[h] \in Nat /\ Held(t, h) \in Nat
  BY DEF TypeOK, Held
<1>2. \A h \in Handle : ref'[h] = ref[h]
                + ((IF h \in slot' THEN 1 ELSE 0) - (IF h \in slot THEN 1 ELSE 0))
                + (Held(t, h)' - Held(t, h))
  BY <1>1
<1> QED BY <1>2, RefNext

\* A thread that has the same queues as before leaves their owners alone.
LEMMA OwnSame ==
    ASSUME TypeOK, OwnInv, NEW t \in Thread, Moves(t),
           UNCHANGED <<globalmq, in_global, release, freed>>,
           \A h \in Handle : Owned(t, h)' = Owned(t, h)
    PROVE  OwnInv'
<1>1. globalmq \in Seq(Handle) /\ globalmq' \in Seq(Handle)
  BY DEF TypeOK
<1>2. \A h \in Handle : /\ Cardinality(Places(globalmq, h)) \in Nat
                        /\ Owned(t, h) \in Nat
  BY <1>1, PlacesFinite DEF Owned
<1>3. \A h \in Handle :
          (IF h \notin freed' /\ (in_global'[h] \/ release'[h]) THEN 1 ELSE 0)
            = (IF h \notin freed /\ (in_global[h] \/ release[h]) THEN 1 ELSE 0)
              + (Cardinality(Places(globalmq', h)) - Cardinality(Places(globalmq, h)))
              + (Owned(t, h)' - Owned(t, h))
  BY <1>2
<1> QED BY <1>1, <1>3, OwnNext

\* A step that neither starts nor ends a context leaves G_NODE.total right.
LEMMA TotalSame ==
    ASSUME TypeOK, TotalInv, NEW t \in Thread, Moves(t), UNCHANGED <<total, reserved>>, NEW x \in Handle,
           \A h \in Handle : h # x => ref'[h] = ref[h],
           ref'[x] > 0 <=> ref[x] > 0,
           pc[t] \in {"delete", "deleted"} <=> pc'[t] \in {"delete", "deleted"}
    PROVE  TotalInv'
  BY TotalStep DEF TotalInv

\* Deletions in progress are not disturbed by a step that deletes nothing.
LEMMA DeleteSame ==
    ASSUME TypeOK, PcInv, DeleteInv, NEW t \in Thread, Moves(t),
           pc'[t] \notin {"delete", "deleted"},
           \A h \in Handle : release'[h] = release[h],
           \A h \in freed' : release'[h],
           handle_index' \in Int, handle_index' >= handle_index,
           \A h \in Handle : ref[h] = 0 /\ h < handle_index => ref'[h] = 0,
           \A h \in Handle : release[h] => ref'[h] = 0
    PROVE  DeleteInv'
<1>1. \A u \in Thread : u # t => pc'[u] = pc[u] /\ obj'[u] = obj[u]
  BY DEF Moves
<1>2. \A u \in Thread : pc[u] \in {"delete", "deleted"} => obj[u] \in Handle
  BY DEF TypeOK, PcInv, CallOf, InCall
<1>3. handle_index \in Int /\ \A h \in Handle : h \in Int
  BY DispatchAssumption DEF TypeOK, Handle
<1> QED BY <1>1, <1>2, <1>3 DEF DeleteInv

\* The registers that a call uses: their types, and what Goto, Call and Return do.
RegTypes ==
    /\ pc \in [Thread -> Location] /\ ret \in [Thread -> Location]
    /\ obj \in [Thread -> Handle \cup {NoHandle}] /\ msg \in [Thread -> Message]

\* The empty message register is typed.
LEMMA NoMessageType == NoMessage \in Message
  BY DispatchAssumption DEF NoMessage, Message, NoHandle

\* A jump moves one thread.
LEMMA GotoEffect ==
    ASSUME RegTypes, NEW t \in Thread, NEW l \in Location, Goto(t, l)
    PROVE  /\ pc' \in [Thread -> Location] /\ pc'[t] = l
           /\ \A u \in Thread : u # t => pc'[u] = pc[u]
  BY DEF RegTypes, Goto

\* A call sets the place, the argument and the return place of one thread.
LEMMA CallEffect ==
    ASSUME RegTypes, NEW t \in Thread, NEW f \in Location, NEW h \in Handle, NEW l \in Location,
           Call(t, f, h, l)
    PROVE  /\ pc' \in [Thread -> Location] /\ ret' \in [Thread -> Location]
           /\ obj' \in [Thread -> Handle \cup {NoHandle}]
           /\ pc'[t] = f /\ obj'[t] = h /\ ret'[t] = l
           /\ \A u \in Thread : u # t => pc'[u] = pc[u] /\ obj'[u] = obj[u] /\ ret'[u] = ret[u]
  BY DEF RegTypes, Call, Goto

\* A return goes to the return place and clears the registers of one thread.
LEMMA ReturnEffect ==
    ASSUME RegTypes, NEW t \in Thread, NEW l \in Location, Return(t, l)
    PROVE  /\ RegTypes'
           /\ pc'[t] = l /\ obj'[t] = NoHandle /\ ret'[t] = "loop" /\ msg'[t] = NoMessage
           /\ \A u \in Thread : u # t => /\ pc'[u] = pc[u] /\ obj'[u] = obj[u]
                                         /\ ret'[u] = ret[u] /\ msg'[u] = msg[u]
<1>1. "loop" \in Location
  BY DEF Location, WorkerAt, Outside
<1> QED BY <1>1, NoMessageType DEF RegTypes, Return, Goto

\* skynet_context_release: what is released was held, so the count stays exact.
LEMMA ReleaseInv ==
    ASSUME DispatchInv, NEW t \in Thread, Release(t)
    PROVE  DispatchInv'
<1> DEFINE x == obj[t]
<1> USE DEF DispatchInv
<1>1. x \in Handle /\ ref[x] > 0 /\ ref[x] \in Nat
  BY RefUse DEF TypeOK, PcInv, CallOf, Release, InCall, ObjRef
<1>2. /\ ref' = [ref EXCEPT ![x] = @ - 1] /\ pc[t] = "release"
      /\ UNCHANGED <<mqVars, handle_index, slot, init, total, nodeVars, sent, workerVars>>
  BY DEF Release
<1>3. /\ RegTypes' /\ Moves(t)
      /\ IF ref[x] = 1 THEN pc'[t] = "delete" /\ ret'[t] = ret[t] /\ obj'[t] = x
                       ELSE pc'[t] = ret[t] /\ obj'[t] = NoHandle
  <2>1. RegTypes /\ ret[t] \in Location /\ "delete" \in Location
    BY DEF RegTypes, TypeOK, PcInv, Location, InCall
  <2>2. CASE ref[x] = 1
    <3>1. Goto(t, "delete") /\ UNCHANGED callVars
      BY <2>2 DEF Release
    <3> QED BY <1>2, <2>1, <2>2, <3>1, GotoEffect DEF RegTypes, callVars, Moves, workerVars
  <2>3. CASE ref[x] # 1
    <3>1. Return(t, ret[t])
      BY <2>3 DEF Release
    <3> QED BY <1>2, <2>1, <2>3, <3>1, ReturnEffect DEF Moves, workerVars
  <2> QED BY <2>2, <2>3
<1>4. TypeOK'
  BY <1>1, <1>2, <1>3 DEF TypeOK, RegTypes, mqVars, workerVars
<1>5. PcInv' /\ WorkerInv'
  <2>1. CallOf(t)'
    <3>1. CallOf(t) /\ child' = child
      BY <1>2 DEF PcInv, workerVars
    <3>2. CASE ref[x] = 1
      <4>1. t \in Worker => ret[t] # "inited"
        <5>1. ref[x] >= (IF x \in slot THEN 1 ELSE 0) + Held(t, x)
          BY <1>1, RefUse
        <5>2. ~ (ChildRef(t, x) /\ ObjRef(t, x))
          BY <1>1, <3>2, <5>1 DEF Held
        <5> QED BY <1>2, <3>1, <5>2 DEF ChildRef, ObjRef, CallOf, InCall, InLaunchCall
      <4> QED BY <1>2, <1>3, <3>1, <3>2, <4>1 DEF CallOf, InCall
    <3>3. CASE ref[x] # 1
      BY <1>2, <1>3, <3>1, <3>3 DEF CallOf, InCall, InLaunchCall, Thread
    <3> QED BY <3>2, <3>3
  <2>2. ASSUME t \in Worker PROVE RegistersOf(t)'
    <3>1. At(t)' = At(t)
      BY <1>2, <1>3, <2>2 DEF At, InCall, PcInv, CallOf, InLaunchCall
    <3>2. Dead(t)' = Dead(t)
      BY <1>2 DEF Dead, workerVars
    <3> QED BY <1>2, <3>1, <3>2, <2>2 DEF WorkerInv, RegistersOf, RegistersAt, workerVars, mqVars
  <2> QED BY <1>2, <1>3, <2>1, <2>2, ControlStep DEF RegTypes, mqVars
<1>6. FreshInv' /\ MessageInv'
  BY <1>1, <1>2 DEF FreshInv, MessageInv, TypeOK, mqVars
<1>7. DeleteInv'
  <2>1. ~release[x] /\ x < handle_index
    BY <1>1 DEF DeleteInv, FreshInv, TypeOK, Handle
  <2>2. CASE ref[x] = 1
    <3>1. \A u \in Thread : u # t => pc'[u] = pc[u] /\ obj'[u] = obj[u]
      BY <1>3 DEF Moves
    <3>2. \A u \in Thread : pc[u] \in {"delete", "deleted"} => obj[u] # x /\ obj[u] \in Handle
      BY <1>1, <2>1 DEF DeleteInv, TypeOK, PcInv, CallOf, InCall
    <3>3. pc'[t] = "delete" /\ obj'[t] = x /\ ref'[x] = 0
      BY <1>1, <1>2, <1>3, <2>2 DEF TypeOK
    <3>4. \A h \in Handle : h # x => ref'[h] = ref[h]
      BY <1>2 DEF TypeOK
    <3>5. UNCHANGED <<release, freed, handle_index>> /\ freed \subseteq Handle
      BY <1>2 DEF mqVars, TypeOK
    <3> QED BY <1>1, <2>1, <3>1, <3>2, <3>3, <3>4, <3>5 DEF DeleteInv
  <2>3. CASE ref[x] # 1
    <3>1. pc'[t] \notin {"delete", "deleted"}
      BY <1>2, <1>3, <2>3 DEF PcInv, CallOf, InCall, InLaunchCall, Thread
    <3>2. \A h \in Handle : ref[h] = 0 => ref'[h] = 0
      BY <1>1, <1>2 DEF TypeOK
    <3>3. /\ \A h \in Handle : release'[h] = release[h]
          /\ \A h \in freed' : release'[h]
          /\ handle_index' \in Int /\ handle_index' >= handle_index
          /\ \A h \in Handle : release[h] => ref'[h] = 0
      BY <1>2, <3>2 DEF mqVars, TypeOK, DeleteInv
    <3> QED BY <1>3, <3>1, <3>2, <3>3, DeleteSame
  <2> QED BY <2>2, <2>3
<1>8. RefCounted'
  <2> SUFFICES ASSUME NEW h \in Handle
               PROVE ref'[h] = ref[h] + ((IF h \in slot' THEN 1 ELSE 0) - (IF h \in slot THEN 1 ELSE 0))
                                      + (Held(t, h)' - Held(t, h))
    BY <1>2, <1>3, RefNext
  <2>1. ref'[h] = (IF h = x THEN ref[h] - 1 ELSE ref[h]) /\ ref[h] \in Nat
    BY <1>1, <1>2 DEF TypeOK
  <2>2. Held(t, h)' = IF h = x THEN Held(t, h) - 1 ELSE Held(t, h)
    <3>1. /\ CtxRef(t, h)' <=> CtxRef(t, h)
          /\ ObjRef(t, h) <=> h = x
          /\ ~ ObjRef(t, h)'
      BY <1>1, <1>2, <1>3 DEF CtxRef, ObjRef, workerVars, PcInv, CallOf, InCall, InLaunchCall, Thread
    <3>2. ChildRef(t, h)' <=> ChildRef(t, h)
      <4>1. ~ (ref[x] = 1 /\ ChildRef(t, x) /\ ObjRef(t, x))
        <5>1. ref[x] >= (IF x \in slot THEN 1 ELSE 0) + Held(t, x)
          BY <1>1, RefUse
        <5> QED BY <1>1, <5>1 DEF Held
      <4>2. t \in Worker /\ ret[t] = "inited" => child[t] = x
        BY <1>2 DEF PcInv, CallOf, InCall, InLaunchCall
      <4>3. ret[t] \notin {"init", "grabdst", "push", "release"}
        BY <1>2 DEF PcInv, CallOf, InCall, InLaunchCall, Thread
      <4> QED BY <1>2, <1>3, <4>1, <4>2, <4>3 DEF ChildRef, ObjRef, workerVars
    <3> QED BY <3>1, <3>2 DEF Held
  <2>3. Held(t, h) \in Nat
    BY DEF Held
  <2> QED BY <1>2, <2>1, <2>2, <2>3
<1>9. OwnInv'
  <2>1. \A h \in Handle : Owned(t, h)' = Owned(t, h)
    BY <1>2, <1>3 DEF Owned, QueueOf, SwapOf, ChildOf, workerVars, PcInv, CallOf, InCall, InLaunchCall, Thread
  <2> QED BY <1>2, <1>3, <2>1, OwnSame DEF mqVars
<1>10. TotalInv'
  <2>1. ref'[x] = ref[x] - 1 /\ \A h \in Handle : h # x => ref'[h] = ref[h]
    BY <1>1, <1>2 DEF TypeOK
  <2>2. /\ Cardinality(Live) \in Nat /\ Cardinality(Deleting) \in Nat
        /\ Cardinality(Live)' = Cardinality(Live)
             + (IF ref'[x] > 0 THEN 1 ELSE 0) - (IF ref[x] > 0 THEN 1 ELSE 0)
        /\ Cardinality(Deleting)' = Cardinality(Deleting)
             + (IF pc'[t] \in {"delete", "deleted"} THEN 1 ELSE 0)
             - (IF pc[t] \in {"delete", "deleted"} THEN 1 ELSE 0)
    BY <1>1, <1>3, <2>1, TotalStep
  <2>3. pc'[t] \in {"delete", "deleted"} <=> ref[x] = 1
    BY <1>2, <1>3 DEF PcInv, CallOf, InCall, InLaunchCall, Thread
  <2> QED BY <1>1, <1>2, <2>1, <2>2, <2>3 DEF TotalInv
<1> QED BY <1>4, <1>5, <1>6, <1>7, <1>8, <1>9, <1>10

\* While t is in a call its place in its own code is the same.
LEMMA CallRegisters ==
    ASSUME TypeOK, WorkerInv, NEW t \in Worker, q' = q, ctx' = ctx, child' = child,
           \A h \in Handle : release[h] => release'[h],
           At(t)' = At(t)
    PROVE  RegistersOf(t)'
<1>1. Dead(t)' = Dead(t)
  BY DEF Dead
<1>2. At(t) = "drop" => Dead(t) \in Handle
  BY DEF WorkerInv, RegistersOf, RegistersAt, Dead, InDrop, TypeOK
<1> QED BY <1>1, <1>2 DEF WorkerInv, RegistersOf, RegistersAt

\* delete_context marks the queue: the deleting thread is the only one, so the mark
\* is new, and it puts a queue nobody owns into the global queue.
LEMMA MarkReleaseInv ==
    ASSUME DispatchInv, NEW t \in Thread, MarkRelease(t)
    PROVE  DispatchInv'
<1> DEFINE x == obj[t]
<1> USE DEF DispatchInv
<1>1. /\ x \in Handle /\ ref[x] = 0 /\ ~release[x] /\ x < handle_index /\ x \notin freed
      /\ pc[t] = "delete"
  BY DEF TypeOK, PcInv, CallOf, MarkRelease, InCall, DeleteInv
<1>2. /\ release' = [release EXCEPT ![x] = TRUE]
      /\ globalmq' = IF in_global[x] THEN globalmq ELSE Append(globalmq, x)
      /\ UNCHANGED <<mq, in_global, freed, ctxVars, nodeVars, sent, callVars, workerVars>>
  BY DEF MarkRelease
<1>3. RegTypes' /\ Moves(t) /\ pc'[t] = "deleted"
  <2>1. RegTypes /\ "deleted" \in Location /\ Goto(t, "deleted")
    BY DEF RegTypes, TypeOK, PcInv, Location, InCall, MarkRelease
  <2> QED BY <1>2, <2>1, GotoEffect DEF RegTypes, callVars, Moves, workerVars
<1>4. TypeOK'
  <2>1. globalmq' \in Seq(Handle)
    BY <1>1, <1>2, PlacesAppend DEF TypeOK
  <2> QED BY <1>2, <1>3, <2>1 DEF TypeOK, RegTypes, ctxVars, callVars, workerVars
<1>5. PcInv' /\ WorkerInv'
  <2>1. CallOf(t)'
    BY <1>1, <1>2, <1>3 DEF PcInv, CallOf, InCall, InLaunchCall, callVars, workerVars
  <2>2. \A h \in Handle : release[h] => release'[h]
    BY <1>2 DEF TypeOK
  <2>3. ASSUME t \in Worker PROVE RegistersOf(t)'
    <3>1. At(t)' = At(t)
      BY <1>1, <1>2, <1>3 DEF At, InCall, callVars
    <3>2. q' = q /\ ctx' = ctx /\ child' = child
      BY <1>2 DEF workerVars
    <3> QED BY <2>2, <2>3, <3>1, <3>2, CallRegisters
  <2> QED BY <1>3, <2>1, <2>2, <2>3, ControlStep DEF RegTypes
<1>6. FreshInv' /\ MessageInv'
  <2>1. \A h \in Handle : h >= handle_index => h # x
    BY <1>1 DEF Handle, TypeOK
  <2> QED BY <1>1, <1>2, <2>1 DEF FreshInv, MessageInv, TypeOK, ctxVars
<1>7. DeleteInv'
  <2>1. \A u \in Thread : u # t => pc'[u] = pc[u] /\ obj'[u] = obj[u]
    BY <1>3 DEF Moves
  <2>2. \A u \in Thread : u # t /\ pc[u] = "delete" => obj[u] # x
    BY <1>1 DEF DeleteInv
  <2>3. \A u \in Thread : pc[u] \in {"delete", "deleted"} => obj[u] \in Handle
    BY DEF TypeOK, PcInv, CallOf, InCall
  <2>4. /\ UNCHANGED <<ref, handle_index, freed>> /\ obj'[t] = x /\ freed \subseteq Handle
        /\ \A h \in Handle : release'[h] <=> h = x \/ release[h]
    BY <1>2 DEF TypeOK, ctxVars, callVars
  <2>5. \A u \in Thread : pc'[u] = "delete" =>
            ref'[obj'[u]] = 0 /\ ~release'[obj'[u]] /\ obj'[u] < handle_index'
    BY <1>3, <2>1, <2>2, <2>3, <2>4 DEF DeleteInv
  <2>6. \A u \in Thread : pc'[u] = "deleted" => release'[obj'[u]]
    BY <1>1, <2>1, <2>3, <2>4 DEF DeleteInv
  <2>7. \A u, v \in Thread :
            pc'[u] = "delete" /\ pc'[v] = "delete" /\ obj'[u] = obj'[v] => u = v
    BY <1>3, <2>1 DEF DeleteInv
  <2>8. /\ \A h \in Handle : release'[h] => ref'[h] = 0
        /\ \A h \in freed' : release'[h]
    BY <1>1, <2>4 DEF DeleteInv
  <2> QED BY <2>5, <2>6, <2>7, <2>8 DEF DeleteInv
<1>8. RefCounted'
  <2>1. \A h \in Handle : Held(t, h)' = Held(t, h)
    BY <1>1, <1>2, <1>3 DEF Held, CtxRef, ObjRef, ChildRef, callVars, workerVars
  <2> QED BY <1>2, <1>3, <2>1, RefSame DEF ctxVars
<1>9. OwnInv'
  <2> SUFFICES ASSUME NEW h \in Handle
               PROVE  (IF h \notin freed' /\ (in_global'[h] \/ release'[h]) THEN 1 ELSE 0)
                        = (IF h \notin freed /\ (in_global[h] \/ release[h]) THEN 1 ELSE 0)
                          + (Cardinality(Places(globalmq', h)) - Cardinality(Places(globalmq, h)))
                          + (Owned(t, h)' - Owned(t, h))
    BY <1>3, <1>4, OwnNext DEF TypeOK
  <2>1. Owned(t, h)' = Owned(t, h) /\ Owned(t, h) \in Nat
    BY <1>1, <1>2, <1>3 DEF Owned, QueueOf, SwapOf, ChildOf, callVars, workerVars
  <2>2. /\ Cardinality(Places(globalmq, h)) \in Nat
        /\ Cardinality(Places(globalmq', h)) = Cardinality(Places(globalmq, h))
             + (IF ~in_global[x] /\ x = h THEN 1 ELSE 0)
    BY <1>1, <1>2, PlacesAppend, PlacesFinite DEF TypeOK
  <2>3. /\ freed' = freed /\ in_global' = in_global
        /\ release'[h] = IF h = x THEN TRUE ELSE release[h]
    BY <1>2 DEF TypeOK
  <2> QED BY <1>1, <2>1, <2>2, <2>3
<1>10. TotalInv'
  <2>1. \A h \in Handle : ref'[h] = ref[h]
    BY <1>2 DEF ctxVars
  <2> QED BY <1>1, <1>2, <1>3, <2>1, TotalSame DEF ctxVars
<1> QED BY <1>4, <1>5, <1>6, <1>7, <1>8, <1>9, <1>10

\* A call that returns leads to the place it was made from.
LEMMA ReturnControl ==
    ASSUME PcInv, NEW t \in Thread, pc[t] \in InCall, pc'[t] = ret[t]
    PROVE  /\ CallOf(t)'
           /\ t \in Worker => At(t)' = At(t)
           /\ ret[t] \notin InCall /\ ret[t] \notin {"init", "pushback"}
<1>1. CallOf(t)
  BY DEF PcInv
<1>2. ret[t] \notin InCall /\ ret[t] \notin {"init", "pushback"}
  BY <1>1 DEF CallOf, InCall, InLaunchCall, Thread
<1>3. CallOf(t)'
  BY <1>1, <1>2 DEF CallOf, InCall, InLaunchCall, Thread
<1> QED BY <1>2, <1>3 DEF At

\* context_dec: the context that is gone is counted no more.
LEMMA ContextDecInv ==
    ASSUME DispatchInv, NEW t \in Thread, ContextDec(t)
    PROVE  DispatchInv'
<1> USE DEF DispatchInv
<1> DEFINE l == IF ret[t] = "launched" THEN "enqueue" ELSE ret[t]
<1>1. /\ obj[t] \in Handle /\ pc[t] = "deleted" /\ pc[t] \in InCall /\ ret[t] \in Location
  BY DEF TypeOK, PcInv, CallOf, ContextDec, InCall
<1>2. /\ total' = total - 1
      /\ UNCHANGED <<mqVars, handle_index, slot, ref, init, nodeVars, sent, workerVars>>
  BY DEF ContextDec
<1>3. RegTypes' /\ Moves(t) /\ pc'[t] = l /\ obj'[t] = NoHandle
  <2>1. RegTypes /\ l \in Location /\ Return(t, l)
    BY <1>1 DEF RegTypes, TypeOK, PcInv, Location, WorkerAt, InDispatch, InLaunch, ContextDec
  <2> HIDE DEF l
  <2> QED BY <1>2, <2>1, ReturnEffect DEF Moves, workerVars
<1>4. CallOf(t) /\ (t \in Worker => RegistersOf(t)) /\ l \notin InCall /\ l \notin {"init", "inited", "pushback"}
  BY <1>1 DEF PcInv, CallOf, InCall, InLaunchCall, Thread, WorkerInv
<1>5. TotalInv' /\ total' \in Int
  <2>1. \A h \in Handle : ref'[h] = ref[h]
    BY <1>2
  <2>2. /\ Cardinality(Live) \in Nat /\ Cardinality(Deleting) \in Nat
        /\ Cardinality(Live)' = Cardinality(Live)
             + (IF ref'[obj[t]] > 0 THEN 1 ELSE 0) - (IF ref[obj[t]] > 0 THEN 1 ELSE 0)
        /\ Cardinality(Deleting)' = Cardinality(Deleting)
             + (IF pc'[t] \in {"delete", "deleted"} THEN 1 ELSE 0)
             - (IF pc[t] \in {"delete", "deleted"} THEN 1 ELSE 0)
    BY <1>1, <1>3, <2>1, TotalStep
  <2>3. pc'[t] \notin {"delete", "deleted"}
    BY <1>3, <1>4 DEF InCall
  <2>4. Cardinality(Deleting) >= 1
    <3>1. t \in Deleting /\ Deleting \in SUBSET Thread
      BY <1>1 DEF Deleting
    <3> QED BY <3>1, CountMembers, ThreadsFinite
  <2> QED BY <1>1, <1>2, <2>1, <2>2, <2>3, <2>4 DEF TotalInv
<1>6. TypeOK'
  BY <1>2, <1>3, <1>5 DEF TypeOK, RegTypes, mqVars, workerVars
<1>7. PcInv' /\ WorkerInv'
  <2>1. CallOf(t)'
    BY <1>1, <1>3, <1>4 DEF CallOf, InCall, InLaunchCall, Thread
  <2>2. ASSUME t \in Worker PROVE RegistersOf(t)'
    <3>1. UNCHANGED <<q, ctx, child, release>> /\ Dead(t)' = Dead(t)
      BY <1>2 DEF mqVars, workerVars, Dead
    <3>2. CASE ret[t] = "launched"
      <4>1. At(t) = "launched" /\ At(t)' = "enqueue"
        BY <1>1, <1>3, <3>2 DEF At, InCall
      <4> QED BY <1>4, <2>2, <3>1, <4>1 DEF RegistersOf, RegistersAt, InDispatch, InLaunch, InDrop, Outside, HasNoQueue
    <3>3. CASE ret[t] # "launched"
      <4>1. At(t)' = At(t)
        BY <1>1, <1>3, <1>4, <3>3 DEF At
      <4> QED BY <1>4, <2>2, <3>1, <4>1 DEF RegistersOf, RegistersAt
    <3> QED BY <3>2, <3>3
  <2>3. \A h \in Handle : release[h] => release'[h]
    BY <1>2 DEF mqVars
  <2> QED BY <1>3, <2>1, <2>2, <2>3, ControlStep DEF RegTypes
<1>8. FreshInv' /\ MessageInv'
  BY <1>2 DEF FreshInv, MessageInv, mqVars
<1>9. DeleteInv'
  <2>1. pc'[t] \notin {"delete", "deleted"}
    BY <1>3, <1>4 DEF InCall
  <2>2. /\ \A h \in Handle : release'[h] = release[h]
        /\ \A h \in freed' : release'[h]
        /\ handle_index' \in Int /\ handle_index' >= handle_index
        /\ \A h \in Handle : ref[h] = 0 /\ h < handle_index => ref'[h] = 0
        /\ \A h \in Handle : release[h] => ref'[h] = 0
    BY <1>2 DEF mqVars, TypeOK, DeleteInv
  <2> QED BY <1>3, <2>1, <2>2, DeleteSame
<1>10. RefCounted'
  <2>1. \A h \in Handle : Held(t, h)' = Held(t, h)
    BY <1>1, <1>2, <1>3, <1>4 DEF Held, CtxRef, ObjRef, ChildRef, workerVars, InCall
  <2> QED BY <1>2, <1>3, <2>1, RefSame
<1>11. OwnInv'
  <2>1. \A h \in Handle : Owned(t, h)' = Owned(t, h)
    BY <1>1, <1>2, <1>3, <1>4 DEF Owned, QueueOf, SwapOf, ChildOf, workerVars
  <2> QED BY <1>2, <1>3, <2>1, OwnSame DEF mqVars
<1> QED BY <1>5, <1>6, <1>7, <1>8, <1>9, <1>10, <1>11

\* skynet_handle_grab in skynet_context_push takes a reference only of a service
\* in the table, which has one already.
LEMMA PushGrabInv ==
    ASSUME DispatchInv, NEW t \in Thread, PushGrab(t)
    PROVE  DispatchInv'
<1> USE DEF DispatchInv
<1> DEFINE x == obj[t]
<1>1. /\ x \in Handle /\ pc[t] = "grabdst" /\ pc[t] \in InCall /\ ret[t] \in Location
  BY DEF TypeOK, PcInv, CallOf, PushGrab, InCall
<1>2. UNCHANGED <<mqVars, handle_index, slot, init, total, nodeVars, sent, workerVars>>
  BY DEF PushGrab
<1>3. /\ RegTypes' /\ Moves(t)
      /\ IF x \in slot THEN /\ pc'[t] = "push" /\ ret'[t] = ret[t] /\ obj'[t] = x
                            /\ ref' = [ref EXCEPT ![x] = @ + 1]
                       ELSE pc'[t] = ret[t] /\ obj'[t] = NoHandle /\ ref' = ref
  <2>1. RegTypes /\ "push" \in Location
    BY DEF RegTypes, TypeOK, PcInv, Location, InCall
  <2>2. CASE x \in slot
    <3>1. Goto(t, "push") /\ UNCHANGED callVars /\ ref' = [ref EXCEPT ![x] = @ + 1]
      BY <2>2 DEF PushGrab
    <3> QED BY <1>2, <2>1, <2>2, <3>1, GotoEffect DEF RegTypes, callVars, Moves, workerVars
  <2>3. CASE x \notin slot
    <3>1. Return(t, ret[t]) /\ ref' = ref
      BY <2>3 DEF PushGrab
    <3> QED BY <1>1, <1>2, <2>1, <2>3, <3>1, ReturnEffect DEF Moves, workerVars
  <2> QED BY <2>2, <2>3
<1>4. TypeOK'
  <2>1. ref' \in [Handle -> Nat]
    <3>1. ref \in [Handle -> Nat]
      BY DEF TypeOK
    <3>2. ref' = [ref EXCEPT ![x] = @ + 1] \/ ref' = ref
      BY <1>3
    <3> QED BY <1>1, <3>1, <3>2
  <2> QED BY <1>2, <1>3, <2>1 DEF TypeOK, RegTypes, mqVars, workerVars
<1>5. /\ CallOf(t)' /\ (t \in Worker => At(t)' = At(t))
      /\ pc'[t] \notin {"delete", "deleted", "pushback", "release"}
      /\ x \notin slot => pc'[t] \notin InCall
  <2>1. CASE x \in slot
    BY <1>1, <1>2, <1>3, <2>1 DEF PcInv, CallOf, At, InCall, workerVars
  <2>2. CASE x \notin slot
    BY <1>1, <1>3, <2>2, ReturnControl DEF InCall
  <2> QED BY <2>1, <2>2
<1>6. PcInv' /\ WorkerInv'
  <2>1. q' = q /\ ctx' = ctx /\ child' = child /\ \A h \in Handle : release[h] => release'[h]
    BY <1>2 DEF workerVars, mqVars
  <2>2. t \in Worker => RegistersOf(t)'
    BY <1>5, <2>1, CallRegisters
  <2> QED BY <1>3, <1>5, <2>1, <2>2, ControlStep DEF RegTypes
<1>7. /\ \A h \in Handle : ref'[h] = IF h = x /\ x \in slot THEN ref[h] + 1 ELSE ref[h]
      /\ \A h \in Handle : ref[h] \in Nat
      /\ x \in slot => ref[x] > 0 /\ ~release[x] /\ x < handle_index
  <2>1. x \in slot => ref[x] > 0
    BY <1>1, RefUse
  <2>2. \A h \in Handle : /\ ref[h] \in Nat
                          /\ ref'[h] = IF h = x /\ x \in slot THEN ref[h] + 1 ELSE ref[h]
    BY <1>1, <1>3 DEF TypeOK
  <2>3. x \in slot => ~release[x] /\ x < handle_index
    BY <1>1, <2>1 DEF TypeOK, DeleteInv, FreshInv, Handle
  <2> QED BY <2>1, <2>2, <2>3
<1>8. FreshInv' /\ MessageInv'
  <2>1. \A h \in Handle : h >= handle_index /\ x \in slot => h # x
    BY <1>7 DEF Handle, TypeOK
  <2> QED BY <1>2, <1>7, <2>1 DEF FreshInv, MessageInv, mqVars
<1>9. DeleteInv'
  <2>1. /\ \A h \in Handle : release'[h] = release[h]
        /\ \A h \in freed' : release'[h]
        /\ handle_index' \in Int /\ handle_index' >= handle_index
    BY <1>2 DEF mqVars, TypeOK, DeleteInv
  <2>2. /\ \A h \in Handle : ref[h] = 0 /\ h < handle_index => ref'[h] = 0
        /\ \A h \in Handle : release[h] => ref'[h] = 0
    BY <1>7 DEF DeleteInv
  <2> QED BY <1>3, <1>5, <2>1, <2>2, DeleteSame
<1>10. RefCounted'
  <2> SUFFICES ASSUME NEW h \in Handle
               PROVE ref'[h] = ref[h] + ((IF h \in slot' THEN 1 ELSE 0) - (IF h \in slot THEN 1 ELSE 0))
                                      + (Held(t, h)' - Held(t, h))
    BY <1>2, <1>3, RefNext
  <2>1. /\ CtxRef(t, h)' <=> CtxRef(t, h)
        /\ ~ ObjRef(t, h)
        /\ ObjRef(t, h)' <=> h = x /\ x \in slot
    BY <1>1, <1>2, <1>3, <1>5 DEF CtxRef, ObjRef, workerVars, InCall
  <2>2. ChildRef(t, h)' <=> ChildRef(t, h)
    <3>1. ret[t] \notin InCall /\ ret[t] # "init"
      BY <1>1 DEF PcInv, CallOf, InLaunchCall, Thread, InCall
    <3> QED BY <1>1, <1>2, <1>3, <3>1 DEF ChildRef, workerVars, InCall
  <2>3. Held(t, h)' = (IF h = x /\ x \in slot THEN Held(t, h) + 1 ELSE Held(t, h)) /\ Held(t, h) \in Nat
    BY <2>1, <2>2 DEF Held
  <2>4. slot' = slot /\ ref[h] \in Nat /\ ref'[h] = IF h = x /\ x \in slot THEN ref[h] + 1 ELSE ref[h]
    BY <1>2, <1>7
  <2> QED BY <2>3, <2>4
<1>11. OwnInv'
  <2>1. \A h \in Handle : Owned(t, h)' = Owned(t, h)
    BY <1>1, <1>2, <1>5 DEF Owned, QueueOf, SwapOf, ChildOf, workerVars
  <2> QED BY <1>2, <1>3, <2>1, OwnSame DEF mqVars
<1>12. TotalInv'
  <2>1. (\A h \in Handle : h # x => ref'[h] = ref[h]) /\ (ref'[x] > 0 <=> ref[x] > 0)
    BY <1>1, <1>7
  <2>2. pc[t] \in {"delete", "deleted"} <=> pc'[t] \in {"delete", "deleted"}
    BY <1>1, <1>5
  <2> QED BY <1>1, <1>2, <1>3, <2>1, <2>2, TotalSame
<1> QED BY <1>4, <1>6, <1>8, <1>9, <1>10, <1>11, <1>12

\* skynet_mq_push: the queue that becomes non-empty is queued, once.
LEMMA MqPushInv ==
    ASSUME DispatchInv, NEW t \in Thread, MqPush(t)
    PROVE  DispatchInv'
<1> USE DEF DispatchInv
<1> DEFINE x == obj[t]
<1>1. /\ x \in Handle /\ pc[t] = "push" /\ ref[x] > 0
  BY RefUse DEF TypeOK, PcInv, CallOf, MqPush, InCall, ObjRef
<1>2. ~release[x] /\ x \notin freed /\ x < handle_index
  BY <1>1 DEF DeleteInv, FreshInv, TypeOK, Handle
<1>3. /\ mq' = [mq EXCEPT ![x] = Append(@, msg[t])]
      /\ in_global' = [in_global EXCEPT ![x] = TRUE]
      /\ globalmq' = IF in_global[x] THEN globalmq ELSE Append(globalmq, x)
      /\ msg' = [msg EXCEPT ![t] = NoMessage]
      /\ UNCHANGED <<release, freed, ctxVars, nodeVars, sent, obj, ret, workerVars>>
  BY DEF MqPush
<1>4. RegTypes' /\ Moves(t) /\ pc'[t] = "release"
  <2>1. RegTypes /\ "release" \in Location /\ Goto(t, "release")
    BY DEF RegTypes, TypeOK, PcInv, Location, InCall, MqPush
  <2> QED BY <1>3, <2>1, GotoEffect, NoMessageType DEF RegTypes, Moves, workerVars
<1>5. TypeOK'
  <2>1. globalmq' \in Seq(Handle)
    BY <1>1, <1>3, PlacesAppend DEF TypeOK
  <2>2. mq' \in [Handle -> Seq(Message)]
    <3>1. Append(mq[x], msg[t]) \in Seq(Message)
      BY <1>1, AppendProperties DEF TypeOK
    <3> QED BY <1>3, <3>1 DEF TypeOK
  <2>3. in_global' \in [Handle -> BOOLEAN]
    BY <1>3 DEF TypeOK
  <2> QED BY <1>3, <1>4, <2>1, <2>2, <2>3 DEF TypeOK, RegTypes, ctxVars, workerVars
<1>6. PcInv' /\ WorkerInv'
  <2>1. q' = q /\ ctx' = ctx /\ child' = child /\ \A h \in Handle : release[h] => release'[h]
    BY <1>3 DEF workerVars
  <2>2. CallOf(t)' /\ At(t)' = At(t)
    BY <1>1, <1>3, <1>4, <2>1 DEF PcInv, CallOf, At, InCall
  <2>3. t \in Worker => RegistersOf(t)'
    BY <2>1, <2>2, CallRegisters
  <2> QED BY <1>4, <2>1, <2>2, <2>3, ControlStep DEF RegTypes
<1>7. FreshInv' /\ MessageInv'
  <2>1. \A h \in Handle : h >= handle_index => h # x
    BY <1>2 DEF Handle, TypeOK
  <2>2. /\ \A h \in Handle : h # x => mq'[h] = mq[h] /\ in_global'[h] = in_global[h]
        /\ in_global'[x]
        /\ UNCHANGED <<release, freed, handle_index, slot, ref, init>>
    BY <1>1, <1>3 DEF TypeOK, ctxVars
  <2> QED BY <1>2, <2>1, <2>2 DEF FreshInv, MessageInv
<1>8. DeleteInv'
  <2>1. pc'[t] \notin {"delete", "deleted"}
    BY <1>4
  <2>2. /\ \A h \in Handle : release'[h] = release[h]
        /\ \A h \in freed' : release'[h]
        /\ handle_index' \in Int /\ handle_index' >= handle_index
        /\ \A h \in Handle : ref[h] = 0 /\ h < handle_index => ref'[h] = 0
        /\ \A h \in Handle : release[h] => ref'[h] = 0
    BY <1>3 DEF ctxVars, TypeOK, DeleteInv
  <2> QED BY <1>4, <2>1, <2>2, DeleteSame
<1>9. RefCounted'
  <2>1. \A h \in Handle : Held(t, h)' = Held(t, h)
    BY <1>1, <1>3, <1>4 DEF Held, CtxRef, ObjRef, ChildRef, workerVars
  <2> QED BY <1>3, <1>4, <2>1, RefSame DEF ctxVars
<1>10. OwnInv'
  <2> SUFFICES ASSUME NEW h \in Handle
               PROVE  (IF h \notin freed' /\ (in_global'[h] \/ release'[h]) THEN 1 ELSE 0)
                        = (IF h \notin freed /\ (in_global[h] \/ release[h]) THEN 1 ELSE 0)
                          + (Cardinality(Places(globalmq', h)) - Cardinality(Places(globalmq, h)))
                          + (Owned(t, h)' - Owned(t, h))
    BY <1>4, <1>5, OwnNext DEF TypeOK
  <2>1. Owned(t, h)' = Owned(t, h) /\ Owned(t, h) \in Nat
    BY <1>1, <1>3, <1>4 DEF Owned, QueueOf, SwapOf, ChildOf, workerVars
  <2>2. /\ Cardinality(Places(globalmq, h)) \in Nat
        /\ Cardinality(Places(globalmq', h)) = Cardinality(Places(globalmq, h))
             + (IF ~in_global[x] /\ x = h THEN 1 ELSE 0)
    BY <1>1, <1>3, PlacesAppend, PlacesFinite DEF TypeOK
  <2>3. /\ freed' = freed /\ release' = release
        /\ in_global'[h] <=> h = x \/ in_global[h]
    BY <1>3 DEF TypeOK
  <2> QED BY <1>2, <2>1, <2>2, <2>3
<1>11. TotalInv'
  <2>1. (\A h \in Handle : h # x => ref'[h] = ref[h]) /\ (ref'[x] > 0 <=> ref[x] > 0)
    BY <1>3 DEF ctxVars
  <2>2. pc[t] \in {"delete", "deleted"} <=> pc'[t] \in {"delete", "deleted"}
    BY <1>1, <1>4
  <2>3. UNCHANGED <<total, reserved>>
    BY <1>3 DEF ctxVars
  <2> QED BY <1>1, <1>4, <2>1, <2>2, <2>3, TotalSame
<1> QED BY <1>5, <1>6, <1>7, <1>8, <1>9, <1>10, <1>11

\* A step that neither deletes a context nor frees a queue.
LEMMA CalmStep ==
    ASSUME DispatchInv, NEW t \in Thread, Moves(t), RegTypes',
           CallOf(t)', t \in Worker => RegistersOf(t)',
           pc[t] \notin {"delete", "deleted"}, pc'[t] \notin {"delete", "deleted"},
           UNCHANGED <<release, freed, handle_index, ref, total, reserved>>
    PROVE  PcInv' /\ WorkerInv' /\ DeleteInv' /\ TotalInv'
<1> USE DEF DispatchInv
<1>1. PcInv' /\ WorkerInv'
  BY ControlStep DEF RegTypes
<1>2. DeleteInv'
  <2>1. /\ \A h \in Handle : release'[h] = release[h]
        /\ \A h \in freed' : release'[h]
        /\ handle_index' \in Int /\ handle_index' >= handle_index
        /\ \A h \in Handle : ref[h] = 0 /\ h < handle_index => ref'[h] = 0
        /\ \A h \in Handle : release[h] => ref'[h] = 0
    BY DEF TypeOK, DeleteInv
  <2> QED BY <2>1, DeleteSame
<1>3. TotalInv'
  <2>1. 1 \in Handle
    BY DispatchAssumption DEF Handle
  <2> QED BY <2>1, TotalSame
<1> QED BY <1>1, <1>2, <1>3

\* A step that moves a worker's pc between places of its own code.
Busy == InCall \cup {"pushback", "init", "inited", "tick"}

\* A step of a worker that touches neither counts nor queues.
LEMMA LocalStep ==
    ASSUME DispatchInv, NEW w \in Worker, NEW l \in Location, Goto(w, l),
           pc[w] \notin Busy, l \notin Busy, RegistersAt(w, l),
           UNCHANGED <<globalmq, in_global, release, freed>>,
           UNCHANGED <<handle_index, slot, ref, total, REMOTE, reserved, callVars, q, ctx, child>>,
           TypeOK', FreshInv', MessageInv', \A u \in Worker : u # w => left'[u] = left[u]
    PROVE  DispatchInv'
<1> USE DEF DispatchInv
<1>1. w \in Thread /\ RegTypes
  BY DEF Thread, RegTypes, TypeOK, PcInv
<1>2. RegTypes' /\ Moves(w) /\ pc'[w] = l
  <2>1. pc' \in [Thread -> Location] /\ pc'[w] = l /\ \A u \in Thread : u # w => pc'[u] = pc[u]
    BY <1>1, GotoEffect
  <2> QED BY <1>1, <2>1 DEF Moves, RegTypes, callVars
<1>3. CallOf(w)'
  BY <1>2, DispatchAssumption DEF CallOf, Busy, InCall
<1>4. RegistersOf(w)'
  <2>1. At(w)' = l
    BY <1>2 DEF At, Busy
  <2>2. Dead(w)' = Dead(w)
    BY DEF Dead
  <2> QED BY <2>1, <2>2 DEF RegistersOf, RegistersAt
<1>5. PcInv' /\ WorkerInv' /\ DeleteInv' /\ TotalInv'
  <2>1. pc[w] \notin {"delete", "deleted"} /\ pc'[w] \notin {"delete", "deleted"}
    BY <1>2 DEF Busy, InCall
  <2> QED BY <1>1, <1>2, <1>3, <1>4, <2>1, CalmStep
<1>6. RefCounted'
  <2>1. \A h \in Handle : Held(w, h)' = Held(w, h)
    BY <1>2 DEF Held, CtxRef, ObjRef, ChildRef, Busy, InCall
  <2> QED BY <1>1, <1>2, <2>1, RefSame
<1>7. OwnInv'
  <2>1. \A h \in Handle : Owned(w, h)' = Owned(w, h)
    BY <1>2 DEF Owned, QueueOf, SwapOf, ChildOf, Busy
  <2> QED BY <1>1, <1>2, <2>1, OwnSame
<1> QED BY <1>5, <1>6, <1>7

\* The same, of a step that changes no more than that and w's turns.
LEMMA LocalJump ==
    ASSUME DispatchInv, NEW w \in Worker, NEW l \in Location, Goto(w, l),
           pc[w] \notin Busy, l \notin Busy, RegistersAt(w, l),
           UNCHANGED <<mqVars, ctxVars, nodeVars, sent, callVars, q, ctx, child>>,
           left' \in [Worker -> Nat], \A u \in Worker : u # w => left'[u] = left[u]
    PROVE  DispatchInv'
<1>1. TypeOK' /\ FreshInv' /\ MessageInv'
  BY DEF DispatchInv, TypeOK, FreshInv, MessageInv, mqVars, ctxVars, callVars
<1>2. UNCHANGED <<globalmq, in_global, release, freed>>
  BY DEF mqVars
<1>3. UNCHANGED <<handle_index, slot, ref, total, REMOTE, reserved, callVars, q, ctx, child>>
  BY DEF ctxVars
<1> QED BY <1>1, <1>2, <1>3, LocalStep

\* What w has where it is, outside a call.
LEMMA HereRegisters ==
    ASSUME DispatchInv, NEW w \in Worker, pc[w] \notin InCall
    PROVE  RegistersAt(w, pc[w])
  BY DEF DispatchInv, WorkerInv, RegistersOf, At

\* The head of thread_worker's loop.
LEMMA LoopInv ==
    ASSUME DispatchInv, NEW w \in Worker, Loop(w)
    PROVE  DispatchInv'
<1> DEFINE l == CASE quit -> "done" [] ~quit /\ q[w] = NoHandle -> "pop" [] OTHER -> "grab"
<1>1. /\ pc[w] = "loop" /\ Goto(w, l)
      /\ UNCHANGED <<mqVars, ctxVars, nodeVars, sent, callVars, q, ctx, left, child>>
  BY DEF Loop, workerVars
<1>2. RegistersAt(w, "loop")
  BY <1>1, HereRegisters DEF InCall
<1>3. pc[w] \notin Busy /\ l \notin Busy /\ l \in Location
  BY <1>1 DEF Busy, InCall, Location, WorkerAt, Outside, HasNoQueue
<1>4. RegistersAt(w, l)
  BY <1>2 DEF RegistersAt, InDispatch, InLaunch, InDrop, Outside, HasNoQueue
<1> HIDE DEF l
<1>5. left \in [Worker -> Nat]
  BY DEF DispatchInv, TypeOK
<1> QED BY <1>1, <1>3, <1>4, <1>5, LocalJump

\* Waiting on the condition and waking up.
LEMMA SleepInv ==
    ASSUME DispatchInv, NEW w \in Worker, Sleep(w) \/ Wake(w) \/ SpuriousWake(w)
    PROVE  DispatchInv'
<1> DEFINE l == IF pc[w] = "sleep" /\ ~quit THEN "waiting" ELSE IF pc[w] = "waiting" THEN "woken" ELSE "loop"
<1>1. /\ pc[w] \in {"sleep", "waiting", "woken"} /\ Goto(w, l)
      /\ UNCHANGED <<mqVars, ctxVars, nodeVars, sent, callVars, q, ctx, left, child>>
  BY DEF Sleep, Wake, SpuriousWake, workerVars
<1>2. RegistersAt(w, pc[w])
  BY <1>1, HereRegisters DEF InCall
<1>3. pc[w] \notin Busy /\ l \notin Busy /\ l \in Location
  BY <1>1 DEF Busy, InCall, Location, WorkerAt, Outside, HasNoQueue
<1>4. RegistersAt(w, l)
  BY <1>1, <1>2 DEF RegistersAt, InDispatch, InLaunch, InDrop, Outside, HasNoQueue
<1> HIDE DEF l
<1>5. left \in [Worker -> Nat]
  BY DEF DispatchInv, TypeOK
<1> QED BY <1>1, <1>3, <1>4, <1>5, LocalJump

\* The timer thread wakes a worker.
LEMMA TimerWakeupInv ==
    ASSUME DispatchInv, TimerWakeup
    PROVE  DispatchInv'
<1>1. PICK w \in Worker : pc[w] = "waiting" /\ Goto(w, "woken")
  BY DEF TimerWakeup, Waiting
<1>2. UNCHANGED <<mqVars, ctxVars, nodeVars, sent, callVars, q, ctx, left, child>>
  BY DEF TimerWakeup, workerVars
<1>3. RegistersAt(w, "waiting")
  BY <1>1, HereRegisters DEF InCall
<1>4. pc[w] \notin Busy /\ "woken" \notin Busy /\ "woken" \in Location
  BY <1>1 DEF Busy, InCall, Location, WorkerAt, Outside, HasNoQueue
<1>5. RegistersAt(w, "woken")
  BY <1>3 DEF RegistersAt, InDispatch, InLaunch, InDrop, Outside, HasNoQueue
<1>6. left \in [Worker -> Nat]
  BY DEF DispatchInv, TypeOK
<1> QED BY <1>1, <1>2, <1>4, <1>5, <1>6, LocalJump

\* A power of two counts the subsets of a set, so it is a positive number.
LEMMA PowerOfTwo ==
    ASSUME NEW k \in Nat
    PROVE  2 ^ k \in Nat /\ 2 ^ k > 0
<1>1. IsFiniteSet(1..k) /\ Cardinality(1..k) = k
  BY FS_Interval
<1>2. IsFiniteSet(SUBSET (1..k)) /\ Cardinality(SUBSET (1..k)) = 2 ^ k
  BY <1>1, FS_SUBSET
<1>3. SUBSET (1..k) # {}
  OBVIOUS
<1> QED BY <1>2, <1>3, FS_EmptySet, FS_CardinalityType

\* skynet_mq_length(q) >> weight is at most the length.
LEMMA ShiftBound ==
    ASSUME NEW n \in Nat, NEW k \in Nat
    PROVE  n \div 2 ^ k \in Nat /\ n \div 2 ^ k <= n
<1> DEFINE d == 2 ^ k
<1>1. d \in Nat /\ d > 0
  BY PowerOfTwo
<1> HIDE DEF d
<1>2. n \div d \in Nat /\ n \div d <= n
  BY <1>1
<1> QED BY <1>2 DEF d

\* The end of a callback.
LEMMA CallbackReturnInv ==
    ASSUME DispatchInv, NEW w \in Worker, CallbackReturn(w)
    PROVE  DispatchInv'
<1> DEFINE l == IF left[w] > 0 THEN "more" ELSE "swap"
<1>1. /\ pc[w] = "calling" /\ Goto(w, l)
      /\ left' = [left EXCEPT ![w] = IF @ > 0 THEN @ - 1 ELSE 0]
      /\ UNCHANGED <<mqVars, ctxVars, nodeVars, sent, callVars, q, ctx, child>>
  BY DEF CallbackReturn
<1>2. RegistersAt(w, "calling")
  BY <1>1, HereRegisters DEF InCall
<1>3. pc[w] \notin Busy /\ l \notin Busy /\ l \in Location
  BY <1>1 DEF Busy, InCall, Location, WorkerAt, InDispatch
<1>4. RegistersAt(w, l)
  BY <1>2 DEF RegistersAt, InDispatch, InLaunch, InDrop, Outside, HasNoQueue
<1> HIDE DEF l
<1>5. left' \in [Worker -> Nat] /\ \A u \in Worker : u # w => left'[u] = left[u]
  BY <1>1 DEF DispatchInv, TypeOK
<1> QED BY <1>1, <1>3, <1>4, <1>5, LocalJump

\* The number of turns is computed.
LEMMA MqLengthInv ==
    ASSUME DispatchInv, NEW w \in Worker, MqLength(w)
    PROVE  DispatchInv'
<1> DEFINE n == Len(mq[q[w]]) \div 2 ^ Weight[w]
<1>1. /\ pc[w] = "length" /\ Goto(w, "calling")
      /\ left' = [left EXCEPT ![w] = IF n = 0 THEN 0 ELSE n - 1]
      /\ UNCHANGED <<mqVars, ctxVars, nodeVars, sent, callVars, q, ctx, child>>
  BY DEF MqLength
<1>2. RegistersAt(w, "length")
  BY <1>1, HereRegisters DEF InCall
<1>3. pc[w] \notin Busy /\ "calling" \notin Busy /\ "calling" \in Location
  BY <1>1 DEF Busy, InCall, Location, WorkerAt, InDispatch
<1>4. RegistersAt(w, "calling")
  BY <1>2 DEF RegistersAt, InDispatch, InLaunch, InDrop, Outside, HasNoQueue
<1>5. n \in Nat
  <2>1. q[w] \in Handle
    BY <1>2 DEF RegistersAt, InDispatch, DispatchInv, TypeOK
  <2>2. Len(mq[q[w]]) \in Nat
    BY <2>1, LenProperties DEF DispatchInv, TypeOK
  <2> QED BY <1>2, <2>2, ShiftBound DEF RegistersAt
<1> HIDE DEF n
<1>6. left' \in [Worker -> Nat] /\ \A u \in Worker : u # w => left'[u] = left[u]
  BY <1>1, <1>5 DEF DispatchInv, TypeOK
<1> QED BY <1>1, <1>3, <1>4, <1>6, LocalJump

\* A service that a worker has, or launches, was given its handle before.
LEMMA HasLaunched ==
    ASSUME DispatchInv, NEW w \in Worker, NEW h \in Handle, Has(w, h)
    PROVE  h < handle_index /\ h \notin freed
<1>1. h \notin freed /\ (in_global[h] \/ release[h])
  BY SoleOwner DEF DispatchInv, TypeOK
<1> QED BY <1>1 DEF DispatchInv, FreshInv, TypeOK, Handle

\* skynet_context_new sets ctx->init.
LEMMA LaunchSetInitInv ==
    ASSUME DispatchInv, NEW w \in Worker, LaunchSetInit(w)
    PROVE  DispatchInv'
<1>1. /\ pc[w] = "launched" /\ Goto(w, "enqueue")
      /\ init' = init \cup {child[w]}
      /\ UNCHANGED <<mqVars, handle_index, slot, ref, total, nodeVars, sent, callVars, q, ctx, left, child>>
  BY DEF LaunchSetInit, workerVars
<1>2. RegistersAt(w, "launched")
  BY <1>1, HereRegisters DEF InCall
<1>3. pc[w] \notin Busy /\ "enqueue" \notin Busy /\ "enqueue" \in Location
  BY <1>1 DEF Busy, InCall, Location, WorkerAt, InDispatch, InLaunch
<1>4. RegistersAt(w, "enqueue")
  BY <1>2 DEF RegistersAt, InDispatch, InLaunch, InDrop, Outside, HasNoQueue
<1>5. child[w] \in Handle /\ child[w] < handle_index
  <2>1. child[w] \in Handle
    BY <1>2 DEF RegistersAt, InDispatch, InLaunch, DispatchInv, TypeOK
  <2> QED BY <2>1, HasLaunched DEF Has, ChildOf
<1>6. TypeOK' /\ FreshInv' /\ MessageInv'
  <2>1. TypeOK' /\ MessageInv'
    BY <1>1, <1>5 DEF DispatchInv, TypeOK, MessageInv, mqVars, callVars
  <2>2. \A h \in Handle : h >= handle_index => h # child[w]
    BY <1>5 DEF DispatchInv, TypeOK, Handle
  <2> QED BY <1>1, <2>1, <2>2 DEF DispatchInv, FreshInv, mqVars
<1>7. UNCHANGED <<globalmq, in_global, release, freed>>
  BY <1>1 DEF mqVars
<1> QED BY <1>1, <1>3, <1>4, <1>6, <1>7, LocalStep

\* skynet_mq_pop: what stays in the queue was there before.
LEMMA PopTypes ==
    ASSUME DispatchInv, NEW h \in Handle, mq[h] # <<>>, mq' = [mq EXCEPT ![h] = Tail(@)]
    PROVE  /\ mq' \in [Handle -> Seq(Message)] /\ Head(mq[h]) \in Message
           /\ \A g \in Handle : mq'[g] # <<>> => mq[g] # <<>>
           /\ \A g \in Handle : g # h => mq'[g] = mq[g]
           /\ mq'[h] = Tail(mq[h]) /\ Len(mq'[h]) = Len(mq[h]) - 1
<1>1. mq \in [Handle -> Seq(Message)]
  BY DEF DispatchInv, TypeOK
<1>2. /\ Head(mq[h]) \in Message /\ Tail(mq[h]) \in Seq(Message)
      /\ Len(Tail(mq[h])) = Len(mq[h]) - 1
  BY <1>1, HeadTailProperties
<1>3. /\ \A g \in Handle : g # h => mq'[g] = mq[g]
      /\ mq'[h] = Tail(mq[h])
  BY <1>1
<1>4. mq' \in [Handle -> Seq(Message)]
  BY <1>1, <1>2
<1> QED BY <1>2, <1>3, <1>4

\* A message is taken; the queue remains the worker's.
LEMMA MqPopMessageInv ==
    ASSUME DispatchInv, NEW w \in Worker, MqPopMessage(w)
    PROVE  DispatchInv'
<1> DEFINE l == IF pc[w] = "first" /\ Weight[w] >= 0 THEN "length" ELSE "calling"
<1>1. /\ pc[w] \in {"first", "more"} /\ Goto(w, l) /\ mq[q[w]] # <<>>
      /\ mq' = [mq EXCEPT ![q[w]] = Tail(@)]
      /\ left' = [left EXCEPT ![w] = IF pc[w] = "first" THEN 0 ELSE @]
      /\ UNCHANGED <<globalmq, in_global, release, freed, ctxVars, nodeVars, sent, callVars, q, ctx, child>>
  BY DEF MqPopMessage
<1>2. RegistersAt(w, pc[w])
  BY <1>1, HereRegisters DEF InCall
<1>3. pc[w] \notin Busy /\ l \notin Busy /\ l \in Location
  BY <1>1 DEF Busy, InCall, Location, WorkerAt, InDispatch
<1>4. RegistersAt(w, l)
  <2>1. Weight[w] >= 0 => Weight[w] \in Nat
    BY DispatchAssumption
  <2> QED BY <1>1, <1>2, <2>1 DEF RegistersAt, InDispatch, InLaunch, InDrop, Outside, HasNoQueue
<1> HIDE DEF l
<1>5. q[w] \in Handle
  BY <1>1, <1>2 DEF RegistersAt, InDispatch, DispatchInv, TypeOK
<1>6. /\ mq' \in [Handle -> Seq(Message)]
      /\ \A g \in Handle : mq'[g] # <<>> => mq[g] # <<>>
  BY <1>1, <1>5, PopTypes
<1>7. left' \in [Worker -> Nat] /\ \A u \in Worker : u # w => left'[u] = left[u]
  BY <1>1 DEF DispatchInv, TypeOK
<1>8. TypeOK' /\ FreshInv' /\ MessageInv'
  <2>1. TypeOK'
    BY <1>1, <1>6, <1>7 DEF DispatchInv, TypeOK, ctxVars, callVars
  <2> QED BY <1>1, <1>6, <2>1 DEF DispatchInv, FreshInv, MessageInv, ctxVars
<1>9. UNCHANGED <<handle_index, slot, ref, total, REMOTE, reserved, callVars, q, ctx, child>>
  BY <1>1 DEF ctxVars
<1> QED BY <1>1, <1>3, <1>4, <1>7, <1>8, <1>9, LocalStep

\* The same as CalmStep, of a step that may count a reference to x, a context
\* that is in use, and free queues whose context is deleted.
LEMMA CalmRefStep ==
    ASSUME DispatchInv, NEW t \in Thread, Moves(t), RegTypes', TypeOK',
           CallOf(t)', t \in Worker => RegistersOf(t)',
           pc[t] \notin {"delete", "deleted"}, pc'[t] \notin {"delete", "deleted"},
           NEW x \in Handle, \A h \in Handle : h # x => ref'[h] = ref[h],
           ref'[x] > 0 <=> ref[x] > 0,
           \A h \in freed' : release'[h], UNCHANGED <<release, handle_index, total, reserved>>
    PROVE  PcInv' /\ WorkerInv' /\ DeleteInv' /\ TotalInv'
<1> USE DEF DispatchInv
<1>1. PcInv' /\ WorkerInv'
  BY ControlStep DEF RegTypes
<1>2. DeleteInv'
  <2>1. \A h \in Handle : ref[h] \in Nat /\ ref'[h] \in Nat /\ (ref[h] = 0 => ref'[h] = 0)
    <3>1. \A h \in Handle : ref[h] \in Nat /\ ref'[h] \in Nat
      BY DEF TypeOK
    <3> QED BY <3>1
  <2>2. /\ \A h \in Handle : release'[h] = release[h]
        /\ handle_index' \in Int /\ handle_index' >= handle_index
        /\ \A h \in Handle : ref[h] = 0 /\ h < handle_index => ref'[h] = 0
        /\ \A h \in Handle : release[h] => ref'[h] = 0
    BY <2>1 DEF TypeOK, DeleteInv
  <2> QED BY <2>2, DeleteSame
<1>3. TotalInv'
  BY TotalSame
<1> QED BY <1>1, <1>2, <1>3

\* What a worker's step does to its registers when it makes no call ...
LEMMA JumpControl ==
    ASSUME DispatchInv, NEW w \in Worker, NEW l \in Location, Goto(w, l), UNCHANGED callVars,
           l \notin Busy, \A u \in Worker : u # w => /\ q'[u] = q[u] /\ ctx'[u] = ctx[u]
                                                    /\ child'[u] = child[u] /\ left'[u] = left[u]
    PROVE  /\ RegTypes' /\ Moves(w) /\ w \in Thread
           /\ pc'[w] = l /\ obj'[w] = obj[w] /\ ret'[w] = ret[w] /\ At(w)' = l
           /\ pc'[w] \notin {"delete", "deleted"}
           /\ CallOf(w)'
<1>1. w \in Thread /\ RegTypes
  BY DEF Thread, RegTypes, DispatchInv, TypeOK, PcInv
<1>2. RegTypes' /\ Moves(w) /\ pc'[w] = l /\ obj'[w] = obj[w] /\ ret'[w] = ret[w]
  <2>1. pc' \in [Thread -> Location] /\ pc'[w] = l /\ \A u \in Thread : u # w => pc'[u] = pc[u]
    BY <1>1, GotoEffect
  <2> QED BY <1>1, <2>1 DEF Moves, RegTypes, callVars
<1>3. CallOf(w)' /\ pc'[w] \notin {"delete", "deleted"}
  BY <1>2, DispatchAssumption DEF CallOf, Busy, InCall
<1>4. At(w)' = l
  BY <1>2 DEF At, Busy
<1> QED BY <1>1, <1>2, <1>3, <1>4

\* ... and when it calls f on context x, to return to l.
LEMMA CallControl ==
    ASSUME DispatchInv, NEW w \in Worker, NEW f \in {"grabdst", "release"},
           NEW x \in Handle, NEW l \in {"loop", "next", "calling", "drop"} \cup InLaunchCall,
           Call(w, f, x, l), l \in InLaunchCall => x = child'[w],
           msg' \in [Thread -> Message], \A u \in Thread : u # w => msg'[u] = msg[u],
           \A u \in Worker : u # w => /\ q'[u] = q[u] /\ ctx'[u] = ctx[u]
                                      /\ child'[u] = child[u] /\ left'[u] = left[u]
    PROVE  /\ RegTypes' /\ Moves(w) /\ w \in Thread
           /\ pc'[w] = f /\ obj'[w] = x /\ ret'[w] = l /\ At(w)' = l
           /\ pc'[w] \notin {"delete", "deleted"}
           /\ CallOf(w)'
<1>1. w \in Thread /\ RegTypes /\ f \in Location /\ l \in Location /\ x # NoHandle /\ w # Timer
  BY DispatchAssumption
  DEF Thread, RegTypes, DispatchInv, TypeOK, PcInv, Location, WorkerAt, InCall, InDispatch,
      InDrop, Outside, HasNoQueue, InLaunch, InLaunchCall, Handle, NoHandle
<1>2. /\ pc' \in [Thread -> Location] /\ ret' \in [Thread -> Location]
      /\ obj' \in [Thread -> Handle \cup {NoHandle}]
      /\ pc'[w] = f /\ obj'[w] = x /\ ret'[w] = l
      /\ \A u \in Thread : u # w => pc'[u] = pc[u] /\ obj'[u] = obj[u] /\ ret'[u] = ret[u]
  BY <1>1, CallEffect
<1>3. RegTypes' /\ Moves(w)
  BY <1>2 DEF Moves, RegTypes
<1>4. CallOf(w)' /\ pc'[w] \notin {"delete", "deleted"}
  BY <1>1, <1>2 DEF CallOf, InCall
<1>5. At(w)' = l
  BY <1>2 DEF At, InCall
<1> QED BY <1>1, <1>2, <1>3, <1>4, <1>5

\* A worker takes a queue: the owner changes from the global queue to the worker.
LEMMA GlobalPopInv ==
    ASSUME DispatchInv, NEW w \in Worker, GlobalPop(w)
    PROVE  DispatchInv'
<1>1. /\ pc[w] \in {"pop", "next"}
      /\ UNCHANGED <<mq, in_global, release, freed, ctxVars, nodeVars, sent, callVars, ctx, left, child>>
  BY DEF GlobalPop
<1>2. RegistersAt(w, pc[w]) /\ pc[w] \notin Busy
  BY <1>1, HereRegisters DEF InCall, Busy
<1>3. CASE globalmq = <<>>
  <2>1. Goto(w, "sleep") /\ UNCHANGED <<globalmq, q>>
    BY <1>3 DEF GlobalPop
  <2>2. "sleep" \notin Busy /\ "sleep" \in Location
    BY DEF Busy, InCall, Location, WorkerAt, Outside, HasNoQueue
  <2>3. RegistersAt(w, "sleep")
    BY <1>1, <1>2 DEF RegistersAt, InDispatch, InLaunch, InDrop, Outside, HasNoQueue
  <2>4. left \in [Worker -> Nat]
    BY DEF DispatchInv, TypeOK
  <2>5. UNCHANGED <<mqVars, ctxVars, nodeVars, sent, callVars, q, ctx, child>>
    BY <1>1, <2>1 DEF mqVars
  <2> QED BY <1>1, <1>2, <2>1, <2>2, <2>3, <2>4, <2>5, LocalJump
<1>4. CASE globalmq # <<>>
  <2> DEFINE x == Head(globalmq)
  <2>1. PICK l \in {"grab", "loop"} :
            q' = [q EXCEPT ![w] = x] /\ globalmq' = Tail(globalmq) /\ Goto(w, l)
    BY <1>4 DEF GlobalPop
  <2>2. /\ globalmq \in Seq(Handle) /\ Tail(globalmq) \in Seq(Handle) /\ x \in Handle
        /\ \A h : Cardinality(Places(Tail(globalmq), h))
                    = Cardinality(Places(globalmq, h)) - (IF x = h THEN 1 ELSE 0)
    BY <1>4, PlacesTail DEF DispatchInv, TypeOK
  <2>3. l \notin Busy /\ l \in Location
    BY DEF Busy, InCall, Location, WorkerAt, Outside
  <2> HIDE DEF x
  <2>4. q[w] = NoHandle /\ ctx[w] = NoHandle /\ child[w] = NoHandle
    BY <1>1, <1>2 DEF RegistersAt, Outside, HasNoQueue
  <2>5. TypeOK' /\ FreshInv' /\ MessageInv'
    <3>1. globalmq' \in Seq(Handle) /\ q' \in [Worker -> Handle \cup {NoHandle}]
      BY <2>1, <2>2 DEF DispatchInv, TypeOK
    <3>2. TypeOK'
      BY <1>1, <3>1 DEF DispatchInv, TypeOK, ctxVars, callVars
    <3> QED BY <1>1, <3>2 DEF DispatchInv, FreshInv, MessageInv, ctxVars
  <2>6. q'[w] = x /\ \A u \in Worker : u # w => q'[u] = q[u]
    BY <2>1 DEF DispatchInv, TypeOK
  <2>7. RegistersAt(w, l)'
    BY <1>1, <2>2, <2>4, <2>6
    DEF RegistersAt, InDispatch, InLaunch, InDrop, Outside, HasNoQueue, Handle, NoHandle
  <2>8. /\ RegTypes' /\ Moves(w) /\ w \in Thread
        /\ pc'[w] = l /\ obj'[w] = obj[w] /\ ret'[w] = ret[w] /\ At(w)' = l
        /\ pc'[w] \notin {"delete", "deleted"} /\ CallOf(w)'
    BY <1>1, <2>1, <2>3, <2>6, JumpControl
  <2>9. PcInv' /\ WorkerInv' /\ DeleteInv' /\ TotalInv'
    <3>1. RegistersOf(w)'
      BY <2>7, <2>8 DEF RegistersOf
    <3>2. UNCHANGED <<release, freed, handle_index, ref, total, reserved>>
      BY <1>1 DEF ctxVars
    <3>3. pc[w] \notin {"delete", "deleted"}
      BY <1>1
    <3> QED BY <2>8, <3>1, <3>2, <3>3, CalmStep
  <2>10. RefCounted'
    <3>1. \A h \in Handle : Held(w, h)' = Held(w, h)
      BY <1>1, <1>2, <2>3, <2>8 DEF Held, CtxRef, ObjRef, ChildRef, Busy, InCall
    <3>2. UNCHANGED <<ref, slot, REMOTE>>
      BY <1>1 DEF ctxVars
    <3> QED BY <2>8, <3>1, <3>2, RefSame DEF DispatchInv
  <2>11. OwnInv'
    <3> SUFFICES ASSUME NEW h \in Handle
                 PROVE  (IF h \notin freed' /\ (in_global'[h] \/ release'[h]) THEN 1 ELSE 0)
                          = (IF h \notin freed /\ (in_global[h] \/ release[h]) THEN 1 ELSE 0)
                            + (Cardinality(Places(globalmq', h)) - Cardinality(Places(globalmq, h)))
                            + (Owned(w, h)' - Owned(w, h))
      BY <2>1, <2>2, <2>8, OwnNext DEF DispatchInv
    <3>1. Owned(w, h) = 0 /\ Owned(w, h)' = IF x = h THEN 1 ELSE 0
      <4>1. ~ QueueOf(w, h) /\ ~ SwapOf(w, h) /\ ~ ChildOf(w, h)
        BY <1>1, <2>4 DEF QueueOf, SwapOf, ChildOf, Handle, NoHandle
      <4>2. (QueueOf(w, h)' <=> x = h) /\ ~ SwapOf(w, h)' /\ ~ ChildOf(w, h)'
        BY <1>1, <2>3, <2>4, <2>6, <2>8 DEF QueueOf, SwapOf, ChildOf, Handle, NoHandle, Busy
      <4> QED BY <4>1, <4>2 DEF Owned
    <3>2. Cardinality(Places(globalmq, h)) \in Nat
      BY <2>2, PlacesFinite
    <3> QED BY <1>1, <2>1, <2>2, <3>1, <3>2
  <2> QED BY <2>5, <2>9, <2>10, <2>11 DEF DispatchInv
<1> QED BY <1>3, <1>4

\* The dispatch takes a reference with the context.
LEMMA GrabInv ==
    ASSUME DispatchInv, NEW w \in Worker, Grab(w)
    PROVE  DispatchInv'
<1> DEFINE x == q[w]
<1>1. /\ pc[w] = "grab"
      /\ UNCHANGED <<mqVars, handle_index, slot, init, total, nodeVars, sent, callVars, q, left, child>>
  BY DEF Grab
<1>2. RegistersAt(w, "grab") /\ pc[w] \notin Busy
  BY <1>1, HereRegisters DEF InCall, Busy
<1>3. ctx[w] = NoHandle /\ child[w] = NoHandle /\ x \in Handle
  BY <1>2 DEF RegistersAt, Outside, DispatchInv, TypeOK
<1>4. CASE x \notin slot
  <2>1. Goto(w, "mqrelease") /\ UNCHANGED <<ref, ctx>>
    BY <1>4 DEF Grab
  <2>2. "mqrelease" \notin Busy /\ "mqrelease" \in Location
    BY DEF Busy, InCall, Location, WorkerAt, InDrop
  <2>3. RegistersAt(w, "mqrelease")
    BY <1>2, <1>3 DEF RegistersAt, InDispatch, InLaunch, InDrop, Outside, HasNoQueue
  <2>4. left \in [Worker -> Nat]
    BY DEF DispatchInv, TypeOK
  <2>5. UNCHANGED <<mqVars, ctxVars, nodeVars, sent, callVars, q, ctx, child>>
    BY <1>1, <2>1 DEF ctxVars
  <2> QED BY <1>1, <1>2, <2>1, <2>2, <2>3, <2>4, <2>5, LocalJump
<1>5. CASE x \in slot
  <2>1. Goto(w, "first") /\ ref' = [ref EXCEPT ![x] = @ + 1] /\ ctx' = [ctx EXCEPT ![w] = x]
    BY <1>5 DEF Grab
  <2>2. "first" \notin Busy /\ "first" \in Location
    BY DEF Busy, InCall, Location, WorkerAt, InDispatch
  <2>3. ctx'[w] = x /\ \A u \in Worker : u # w => ctx'[u] = ctx[u]
    BY <2>1 DEF DispatchInv, TypeOK
  <2>4. /\ \A h \in Handle : ref[h] \in Nat /\ ref'[h] = IF h = x THEN ref[h] + 1 ELSE ref[h]
        /\ ref[x] > 0 /\ x < handle_index
    <3>1. ref[x] > 0
      BY <1>3, <1>5, RefUse DEF DispatchInv
    <3> QED BY <1>3, <2>1, <3>1 DEF DispatchInv, TypeOK, FreshInv, Handle
  <2>5. TypeOK' /\ FreshInv' /\ MessageInv'
    <3>1. TypeOK'
      BY <1>1, <1>3, <2>1 DEF DispatchInv, TypeOK, mqVars, callVars
    <3>2. \A h \in Handle : h >= handle_index => h # x
      BY <2>4 DEF DispatchInv, TypeOK, Handle
    <3> QED BY <1>1, <2>4, <3>1, <3>2 DEF DispatchInv, FreshInv, MessageInv, mqVars
  <2>6. RegistersAt(w, "first")'
    BY <1>1, <1>3, <2>3
    DEF RegistersAt, InDispatch, InLaunch, InDrop, Outside, HasNoQueue, Handle, NoHandle
  <2>7. /\ RegTypes' /\ Moves(w) /\ w \in Thread
        /\ pc'[w] = "first" /\ obj'[w] = obj[w] /\ ret'[w] = ret[w] /\ At(w)' = "first"
        /\ pc'[w] \notin {"delete", "deleted"} /\ CallOf(w)'
    BY <1>1, <2>1, <2>2, <2>3, JumpControl
  <2>8. PcInv' /\ WorkerInv' /\ DeleteInv' /\ TotalInv'
    <3>1. RegistersOf(w)'
      BY <2>6, <2>7 DEF RegistersOf
    <3>2. UNCHANGED <<release, handle_index, total, reserved>> /\ \A h \in freed' : release'[h]
      BY <1>1 DEF mqVars, DispatchInv, DeleteInv
    <3>3. (\A h \in Handle : h # x => ref'[h] = ref[h]) /\ (ref'[x] > 0 <=> ref[x] > 0)
      BY <1>3, <2>4
    <3>4. pc[w] \notin {"delete", "deleted"}
      BY <1>1
    <3> QED BY <1>3, <2>5, <2>7, <3>1, <3>2, <3>3, <3>4, CalmRefStep
  <2>9. RefCounted'
    <3> SUFFICES ASSUME NEW h \in Handle
                 PROVE ref'[h] = ref[h] + ((IF h \in slot' THEN 1 ELSE 0) - (IF h \in slot THEN 1 ELSE 0))
                                        + (Held(w, h)' - Held(w, h))
      BY <1>1, <2>7, RefNext DEF DispatchInv
    <3>1. Held(w, h) = 0 /\ Held(w, h)' = IF h = x THEN 1 ELSE 0
      <4>1. ~ CtxRef(w, h) /\ ~ ObjRef(w, h) /\ ~ ChildRef(w, h)
        BY <1>1, <1>3 DEF CtxRef, ObjRef, ChildRef, Handle, NoHandle
      <4>2. (CtxRef(w, h)' <=> h = x) /\ ~ ObjRef(w, h)' /\ ~ ChildRef(w, h)'
        BY <2>3, <2>7 DEF CtxRef, ObjRef, ChildRef
      <4> QED BY <4>1, <4>2 DEF Held
    <3>2. slot' = slot /\ ref[h] \in Nat /\ ref'[h] = IF h = x THEN ref[h] + 1 ELSE ref[h]
      BY <1>1, <2>4
    <3> QED BY <3>1, <3>2
  <2>10. OwnInv'
    <3>1. \A h \in Handle : Owned(w, h)' = Owned(w, h)
      BY <1>1, <2>7 DEF Owned, QueueOf, SwapOf, ChildOf
    <3>2. UNCHANGED <<globalmq, in_global, release, freed>>
      BY <1>1 DEF mqVars
    <3> QED BY <2>7, <3>1, <3>2, OwnSame DEF DispatchInv
  <2> QED BY <2>5, <2>8, <2>9, <2>10 DEF DispatchInv
<1> QED BY <1>4, <1>5

\* A queue is given up when it is empty and its context is still in use: the
\* context cannot be deleted before the reference is released.
LEMMA MqPopEmptyInv ==
    ASSUME DispatchInv, NEW w \in Worker, MqPopEmpty(w)
    PROVE  DispatchInv'
<1> DEFINE x == q[w]
<1>1. /\ pc[w] \in {"first", "more"} /\ mq[x] = <<>>
      /\ in_global' = [in_global EXCEPT ![x] = FALSE]
      /\ Call(w, "release", x, "next")
      /\ q' = [q EXCEPT ![w] = NoHandle]
      /\ ctx' = [ctx EXCEPT ![w] = NoHandle]
      /\ UNCHANGED <<globalmq, mq, release, freed, ctxVars, nodeVars, sent, msg, left, child>>
  BY DEF MqPopEmpty
<1>2. RegistersAt(w, pc[w])
  BY <1>1, HereRegisters DEF InCall
<1>3. ctx[w] = x /\ child[w] = NoHandle /\ x \in Handle
  BY <1>1, <1>2 DEF RegistersAt, InDispatch, InLaunch, DispatchInv, TypeOK
<1>4. /\ q'[w] = NoHandle /\ ctx'[w] = NoHandle
      /\ \A u \in Worker : u # w => q'[u] = q[u] /\ ctx'[u] = ctx[u]
  BY <1>1 DEF DispatchInv, TypeOK
<1>5. /\ RegTypes' /\ Moves(w) /\ w \in Thread
      /\ pc'[w] = "release" /\ obj'[w] = x /\ ret'[w] = "next" /\ At(w)' = "next"
      /\ pc'[w] \notin {"delete", "deleted"} /\ CallOf(w)'
  <2>1. msg \in [Thread -> Message] /\ "next" \notin InLaunchCall
    BY DEF DispatchInv, TypeOK, InLaunchCall
  <2> HIDE DEF x
  <2> QED BY <1>1, <1>3, <1>4, <2>1, CallControl
<1>6. ~release[x] /\ x \notin freed
  <2>1. w \in Thread /\ CtxRef(w, x)
    BY <1>3 DEF Thread, CtxRef
  <2>2. ref[x] > 0
    BY <1>3, <2>1, RefUse DEF DispatchInv
  <2> QED BY <1>3, <2>2 DEF DispatchInv, DeleteInv
<1>7. TypeOK' /\ FreshInv' /\ MessageInv'
  <2>1. in_global' \in [Handle -> BOOLEAN] /\ \A h \in Handle : in_global'[h] <=> h # x /\ in_global[h]
    BY <1>1, <1>3 DEF DispatchInv, TypeOK
  <2>2. TypeOK'
    BY <1>1, <1>5, <2>1 DEF DispatchInv, TypeOK, RegTypes, ctxVars
  <2> QED BY <1>1, <1>3, <2>1, <2>2 DEF DispatchInv, FreshInv, MessageInv, ctxVars
<1>8. PcInv' /\ WorkerInv' /\ DeleteInv' /\ TotalInv'
  <2>1. RegistersAt(w, "next")'
    BY <1>1, <1>3, <1>4 DEF RegistersAt, InDispatch, InLaunch, InDrop, Outside, HasNoQueue
  <2>2. RegistersOf(w)'
    BY <1>5, <2>1 DEF RegistersOf
  <2>3. UNCHANGED <<release, freed, handle_index, ref, total, reserved>> /\ pc[w] \notin {"delete", "deleted"}
    BY <1>1 DEF ctxVars
  <2> QED BY <1>5, <2>2, <2>3, CalmStep
<1>9. RefCounted'
  <2>1. ASSUME NEW h \in Handle PROVE Held(w, h)' = Held(w, h)
    <3>1. (CtxRef(w, h) <=> h = x) /\ ~ ObjRef(w, h) /\ ~ ChildRef(w, h)
      BY <1>1, <1>3 DEF CtxRef, ObjRef, ChildRef
    <3>2. ~ CtxRef(w, h)' /\ (ObjRef(w, h)' <=> h = x) /\ ~ ChildRef(w, h)'
      BY <1>1, <1>4, <1>5 DEF CtxRef, ObjRef, ChildRef, Handle, NoHandle
    <3> QED BY <3>1, <3>2 DEF Held
  <2>2. UNCHANGED <<ref, slot, REMOTE>>
    BY <1>1 DEF ctxVars
  <2> QED BY <1>5, <2>1, <2>2, RefSame DEF DispatchInv
<1>10. OwnInv'
  <2> SUFFICES ASSUME NEW h \in Handle
               PROVE  (IF h \notin freed' /\ (in_global'[h] \/ release'[h]) THEN 1 ELSE 0)
                        = (IF h \notin freed /\ (in_global[h] \/ release[h]) THEN 1 ELSE 0)
                          + (Cardinality(Places(globalmq', h)) - Cardinality(Places(globalmq, h)))
                          + (Owned(w, h)' - Owned(w, h))
    BY <1>5, <1>7, OwnNext DEF DispatchInv, TypeOK
  <2>1. Owned(w, h) = (IF h = x THEN 1 ELSE 0) /\ Owned(w, h)' = 0
    <3>1. (QueueOf(w, h) <=> h = x) /\ ~ SwapOf(w, h) /\ ~ ChildOf(w, h)
      BY <1>1, <1>3 DEF QueueOf, SwapOf, ChildOf, Handle, NoHandle
    <3>2. ~ QueueOf(w, h)' /\ ~ SwapOf(w, h)' /\ ~ ChildOf(w, h)'
      BY <1>1, <1>3, <1>4, <1>5 DEF QueueOf, SwapOf, ChildOf, Handle, NoHandle
    <3> QED BY <3>1, <3>2 DEF Owned
  <2>2. Cardinality(Places(globalmq, h)) \in Nat /\ globalmq' = globalmq
    BY <1>1, PlacesFinite DEF DispatchInv, TypeOK
  <2>3. in_global[x] \/ release[x]
    BY <1>3, SoleOwner DEF DispatchInv, TypeOK, Has, QueueOf
  <2>4. /\ freed' = freed /\ release' = release
        /\ in_global'[h] <=> h # x /\ in_global[h]
    BY <1>1, <1>3 DEF DispatchInv, TypeOK
  <2> QED BY <1>6, <2>1, <2>2, <2>3, <2>4
<1> QED BY <1>7, <1>8, <1>9, <1>10 DEF DispatchInv

\* A worker takes the next queue before it gives its own back, and owns two.
LEMMA SwapPopInv ==
    ASSUME DispatchInv, NEW w \in Worker, SwapPop(w)
    PROVE  DispatchInv'
<1> DEFINE x == q[w]
<1>1. /\ pc[w] = "swap"
      /\ UNCHANGED <<mq, in_global, release, freed, ctxVars, nodeVars, sent, msg, q, left, child>>
  BY DEF SwapPop
<1>2. RegistersAt(w, "swap") /\ pc[w] \notin InCall
  BY <1>1, HereRegisters DEF InCall
<1>3. ctx[w] = x /\ child[w] = NoHandle /\ x \in Handle
  BY <1>2 DEF RegistersAt, InDispatch, InLaunch, DispatchInv, TypeOK
<1>4. UNCHANGED <<release, freed, handle_index, ref, total, reserved>> /\ pc[w] \notin {"delete", "deleted"}
      /\ UNCHANGED <<ref, slot, REMOTE>>
  BY <1>1 DEF ctxVars
<1>5. CASE globalmq = <<>>
  <2>1. /\ Call(w, "release", x, "loop") /\ ctx' = [ctx EXCEPT ![w] = NoHandle]
        /\ UNCHANGED globalmq
    BY <1>3, <1>5 DEF SwapPop
  <2>2. ctx'[w] = NoHandle /\ \A u \in Worker : u # w => ctx'[u] = ctx[u]
    BY <2>1 DEF DispatchInv, TypeOK
  <2>3. /\ RegTypes' /\ Moves(w) /\ w \in Thread
        /\ pc'[w] = "release" /\ obj'[w] = x /\ ret'[w] = "loop" /\ At(w)' = "loop"
        /\ pc'[w] \notin {"delete", "deleted"} /\ CallOf(w)'
    <3>1. msg \in [Thread -> Message] /\ "loop" \notin InLaunchCall
      BY DEF DispatchInv, TypeOK, InLaunchCall
    <3> HIDE DEF x
    <3> QED BY <1>1, <1>3, <2>1, <2>2, <3>1, CallControl
  <2>4. TypeOK' /\ FreshInv' /\ MessageInv'
    BY <1>1, <2>1, <2>3 DEF DispatchInv, TypeOK, RegTypes, FreshInv, MessageInv, ctxVars
  <2>5. PcInv' /\ WorkerInv' /\ DeleteInv' /\ TotalInv'
    <3>1. RegistersAt(w, "loop")'
      BY <1>1, <1>3, <2>2 DEF RegistersAt, InDispatch, InLaunch, InDrop, Outside, HasNoQueue
    <3>2. RegistersOf(w)'
      BY <2>3, <3>1 DEF RegistersOf
    <3> QED BY <1>4, <2>3, <3>2, CalmStep
  <2>6. RefCounted'
    <3>1. ASSUME NEW h \in Handle PROVE Held(w, h)' = Held(w, h)
      <4>1. (CtxRef(w, h) <=> h = x) /\ ~ ObjRef(w, h) /\ ~ ChildRef(w, h)
        BY <1>1, <1>3 DEF CtxRef, ObjRef, ChildRef
      <4>2. ~ CtxRef(w, h)' /\ (ObjRef(w, h)' <=> h = x) /\ ~ ChildRef(w, h)'
        BY <1>1, <2>2, <2>3 DEF CtxRef, ObjRef, ChildRef, Handle, NoHandle
      <4> QED BY <4>1, <4>2 DEF Held
    <3> QED BY <1>4, <2>3, <3>1, RefSame DEF DispatchInv
  <2>7. OwnInv'
    <3>1. \A h \in Handle : Owned(w, h)' = Owned(w, h)
      BY <1>1, <2>3 DEF Owned, QueueOf, SwapOf, ChildOf
    <3> QED BY <1>1, <2>1, <2>3, <3>1, OwnSame DEF DispatchInv
  <2> QED BY <2>4, <2>5, <2>6, <2>7 DEF DispatchInv
<1>6. CASE globalmq # <<>>
  <2> DEFINE y == Head(globalmq)
  <2>1. /\ obj' = [obj EXCEPT ![w] = y] /\ globalmq' = Tail(globalmq)
        /\ Goto(w, "pushback") /\ UNCHANGED <<ret, ctx>>
    BY <1>6 DEF SwapPop
  <2>2. /\ globalmq \in Seq(Handle) /\ Tail(globalmq) \in Seq(Handle) /\ y \in Handle
        /\ \A h : Cardinality(Places(Tail(globalmq), h))
                    = Cardinality(Places(globalmq, h)) - (IF y = h THEN 1 ELSE 0)
    BY <1>6, PlacesTail DEF DispatchInv, TypeOK
  <2> HIDE DEF y
  <2>3. /\ RegTypes' /\ Moves(w) /\ w \in Thread
        /\ pc'[w] = "pushback" /\ obj'[w] = y /\ ret'[w] = ret[w]
        /\ CallOf(w)' /\ At(w)' = "pushback"
    <3>1. RegTypes /\ "pushback" \in Location /\ w \in Thread /\ w # Timer
      BY DispatchAssumption
      DEF RegTypes, DispatchInv, TypeOK, PcInv, Location, WorkerAt, InDispatch, Thread
    <3>2. pc' \in [Thread -> Location] /\ pc'[w] = "pushback" /\ \A u \in Thread : u # w => pc'[u] = pc[u]
      BY <2>1, <3>1, GotoEffect
    <3>3. /\ obj' \in [Thread -> Handle \cup {NoHandle}] /\ obj'[w] = y
          /\ \A u \in Thread : u # w => obj'[u] = obj[u]
      BY <2>1, <2>2, <3>1 DEF RegTypes
    <3>4. CallOf(w)' /\ At(w)' = "pushback"
      BY <2>2, <3>1, <3>2, <3>3 DEF CallOf, At, InCall, Handle, NoHandle
    <3> QED BY <1>1, <2>1, <3>1, <3>2, <3>3, <3>4 DEF RegTypes, Moves
  <2>4. TypeOK' /\ FreshInv' /\ MessageInv'
    BY <1>1, <2>1, <2>2, <2>3 DEF DispatchInv, TypeOK, RegTypes, FreshInv, MessageInv, ctxVars
  <2>5. PcInv' /\ WorkerInv' /\ DeleteInv' /\ TotalInv'
    <3>1. RegistersAt(w, "pushback")'
      BY <1>1, <1>3, <2>1
      DEF RegistersAt, InDispatch, InLaunch, InDrop, Outside, HasNoQueue, Handle, NoHandle
    <3>2. RegistersOf(w)' /\ pc'[w] \notin {"delete", "deleted"}
      BY <2>3, <3>1 DEF RegistersOf
    <3> QED BY <1>4, <2>3, <3>2, CalmStep
  <2>6. RefCounted'
    <3>1. \A h \in Handle : Held(w, h)' = Held(w, h)
      BY <1>1, <2>1, <2>3 DEF Held, CtxRef, ObjRef, ChildRef
    <3> QED BY <1>4, <2>3, <3>1, RefSame DEF DispatchInv
  <2>7. OwnInv'
    <3> SUFFICES ASSUME NEW h \in Handle
                 PROVE  (IF h \notin freed' /\ (in_global'[h] \/ release'[h]) THEN 1 ELSE 0)
                          = (IF h \notin freed /\ (in_global[h] \/ release[h]) THEN 1 ELSE 0)
                            + (Cardinality(Places(globalmq', h)) - Cardinality(Places(globalmq, h)))
                            + (Owned(w, h)' - Owned(w, h))
      BY <2>1, <2>2, <2>3, OwnNext DEF DispatchInv
    <3>1. /\ Owned(w, h) = (IF h = x THEN 1 ELSE 0)
          /\ Owned(w, h)' = (IF h = x THEN 1 ELSE 0) + (IF y = h THEN 1 ELSE 0)
      <4>1. (QueueOf(w, h) <=> h = x) /\ ~ SwapOf(w, h) /\ ~ ChildOf(w, h)
        BY <1>1, <1>3 DEF QueueOf, SwapOf, ChildOf, Handle, NoHandle
      <4>2. (QueueOf(w, h)' <=> h = x) /\ (SwapOf(w, h)' <=> y = h) /\ ~ ChildOf(w, h)'
        BY <1>1, <1>3, <2>3 DEF QueueOf, SwapOf, ChildOf, Handle, NoHandle
      <4> QED BY <4>1, <4>2 DEF Owned
    <3>2. Cardinality(Places(globalmq, h)) \in Nat
      BY <2>2, PlacesFinite
    <3>3. Cardinality(Places(globalmq', h)) = Cardinality(Places(globalmq, h)) - (IF y = h THEN 1 ELSE 0)
      BY <2>1, <2>2
    <3> QED BY <1>1, <3>1, <3>2, <3>3
  <2> QED BY <2>4, <2>5, <2>6, <2>7 DEF DispatchInv
<1> QED BY <1>5, <1>6

\* A worker gives its own queue back.
LEMMA SwapPushInv ==
    ASSUME DispatchInv, NEW w \in Worker, SwapPush(w)
    PROVE  DispatchInv'
<1> DEFINE x == q[w]
           y == obj[w]
<1>1. /\ pc[w] = "pushback" /\ globalmq' = Append(globalmq, x)
      /\ q' = [q EXCEPT ![w] = y] /\ ctx' = [ctx EXCEPT ![w] = NoHandle]
      /\ Call(w, "release", ctx[w], "loop")
      /\ UNCHANGED <<mq, in_global, release, freed, ctxVars, nodeVars, sent, msg, left, child>>
  BY DEF SwapPush
<1>2. RegistersAt(w, "pushback")
  BY <1>1, HereRegisters DEF InCall
<1>3. ctx[w] = x /\ child[w] = NoHandle /\ x \in Handle /\ y \in Handle
  <2>1. w \in Thread
    BY DEF Thread
  <2>2. y # NoHandle
    BY <1>1, <2>1 DEF DispatchInv, PcInv, CallOf
  <2> QED BY <1>2, <2>1, <2>2 DEF RegistersAt, InDispatch, InLaunch, DispatchInv, TypeOK
<1>4. /\ ctx'[w] = NoHandle /\ q'[w] = y
      /\ \A u \in Worker : u # w => ctx'[u] = ctx[u] /\ q'[u] = q[u]
  BY <1>1 DEF DispatchInv, TypeOK
<1> HIDE DEF x, y
<1>5. /\ RegTypes' /\ Moves(w) /\ w \in Thread
      /\ pc'[w] = "release" /\ obj'[w] = x /\ ret'[w] = "loop" /\ At(w)' = "loop"
      /\ pc'[w] \notin {"delete", "deleted"} /\ CallOf(w)'
  <2>1. msg \in [Thread -> Message] /\ "loop" \notin InLaunchCall
    BY DEF DispatchInv, TypeOK, InLaunchCall
  <2> QED BY <1>1, <1>3, <1>4, <2>1, CallControl
<1>6. /\ Append(globalmq, x) \in Seq(Handle)
      /\ \A h : Cardinality(Places(Append(globalmq, x), h))
                  = Cardinality(Places(globalmq, h)) + (IF x = h THEN 1 ELSE 0)
  BY <1>3, PlacesAppend DEF DispatchInv, TypeOK
<1>7. TypeOK' /\ FreshInv' /\ MessageInv'
  BY <1>1, <1>3, <1>5, <1>6 DEF DispatchInv, TypeOK, RegTypes, FreshInv, MessageInv, ctxVars
<1>8. PcInv' /\ WorkerInv' /\ DeleteInv' /\ TotalInv'
  <2>1. RegistersAt(w, "loop")'
    BY <1>1, <1>3, <1>4 DEF RegistersAt, InDispatch, InLaunch, InDrop, Outside, HasNoQueue
  <2>2. RegistersOf(w)'
    BY <1>5, <2>1 DEF RegistersOf
  <2>3. UNCHANGED <<release, freed, handle_index, ref, total, reserved>> /\ pc[w] \notin {"delete", "deleted"}
    BY <1>1 DEF ctxVars
  <2> QED BY <1>5, <2>2, <2>3, CalmStep
<1>9. RefCounted'
  <2>1. ASSUME NEW h \in Handle PROVE Held(w, h)' = Held(w, h)
    <3>1. (CtxRef(w, h) <=> h = x) /\ ~ ObjRef(w, h) /\ ~ ChildRef(w, h)
      BY <1>1, <1>3 DEF CtxRef, ObjRef, ChildRef
    <3>2. ~ CtxRef(w, h)' /\ (ObjRef(w, h)' <=> h = x) /\ ~ ChildRef(w, h)'
      BY <1>1, <1>4, <1>5 DEF CtxRef, ObjRef, ChildRef, Handle, NoHandle
    <3> QED BY <3>1, <3>2 DEF Held
  <2>2. UNCHANGED <<ref, slot, REMOTE>>
    BY <1>1 DEF ctxVars
  <2> QED BY <1>5, <2>1, <2>2, RefSame DEF DispatchInv
<1>10. OwnInv'
  <2> SUFFICES ASSUME NEW h \in Handle
               PROVE  (IF h \notin freed' /\ (in_global'[h] \/ release'[h]) THEN 1 ELSE 0)
                        = (IF h \notin freed /\ (in_global[h] \/ release[h]) THEN 1 ELSE 0)
                          + (Cardinality(Places(globalmq', h)) - Cardinality(Places(globalmq, h)))
                          + (Owned(w, h)' - Owned(w, h))
    BY <1>5, <1>7, OwnNext DEF DispatchInv, TypeOK
  <2>1. /\ Owned(w, h) = (IF x = h THEN 1 ELSE 0) + (IF y = h THEN 1 ELSE 0)
        /\ Owned(w, h)' = (IF y = h THEN 1 ELSE 0)
    <3>1. (QueueOf(w, h) <=> x = h) /\ (SwapOf(w, h) <=> y = h) /\ ~ ChildOf(w, h)
      BY <1>1, <1>3 DEF QueueOf, SwapOf, ChildOf, Handle, NoHandle, x, y
    <3>2. (QueueOf(w, h)' <=> y = h) /\ ~ SwapOf(w, h)' /\ ~ ChildOf(w, h)'
      BY <1>1, <1>3, <1>4, <1>5 DEF QueueOf, SwapOf, ChildOf, Handle, NoHandle
    <3> QED BY <3>1, <3>2 DEF Owned
  <2>2. Cardinality(Places(globalmq, h)) \in Nat
    BY PlacesFinite DEF DispatchInv, TypeOK
  <2>3. Cardinality(Places(globalmq', h)) = Cardinality(Places(globalmq, h)) + (IF x = h THEN 1 ELSE 0)
    BY <1>1, <1>6
  <2> QED BY <1>1, <2>1, <2>2, <2>3
<1> QED BY <1>7, <1>8, <1>9, <1>10 DEF DispatchInv

\* A worker starts skynet_context_push: it holds and owns what it did before.
LEMMA PushCall ==
    ASSUME DispatchInv, NEW w \in Worker, pc[w] \in {"calling", "drop", "init"},
           NEW x \in Handle, NEW l \in {"calling", "drop", "inited"},
           Call(w, "grabdst", x, l), l = "inited" <=> pc[w] = "init", l = "inited" => x = child[w],
           RegistersAt(w, l), mq' \in [Handle -> Seq(Message)], sent' \in 0..MaxMsg,
           msg' \in [Thread -> Message], \A u \in Thread : u # w => msg'[u] = msg[u],
           FreshInv', MessageInv',
           UNCHANGED <<globalmq, in_global, release, freed, ctxVars, nodeVars, workerVars>>
    PROVE  DispatchInv'
<1>1. /\ RegTypes' /\ Moves(w) /\ w \in Thread
      /\ pc'[w] = "grabdst" /\ obj'[w] = x /\ ret'[w] = l /\ At(w)' = l
      /\ pc'[w] \notin {"delete", "deleted"} /\ CallOf(w)'
  <2>1. l \in {"loop", "next", "calling", "drop"} \cup InLaunchCall /\ (l \in InLaunchCall => x = child'[w])
    BY DEF InLaunchCall, workerVars
  <2>2. \A u \in Worker : u # w => /\ q'[u] = q[u] /\ ctx'[u] = ctx[u]
                                   /\ child'[u] = child[u] /\ left'[u] = left[u]
    BY DEF workerVars
  <2> QED BY <2>1, <2>2, CallControl
<1>2. TypeOK'
  BY <1>1 DEF DispatchInv, TypeOK, RegTypes, ctxVars, workerVars
<1>3. PcInv' /\ WorkerInv' /\ DeleteInv' /\ TotalInv'
  <2>1. RegistersAt(w, l)'
    BY DEF RegistersAt, Dead, workerVars
  <2>2. RegistersOf(w)'
    BY <1>1, <2>1 DEF RegistersOf
  <2>3. UNCHANGED <<release, freed, handle_index, ref, total, reserved>> /\ pc[w] \notin {"delete", "deleted"}
    BY DEF ctxVars
  <2> QED BY <1>1, <2>2, <2>3, CalmStep
<1>4. RefCounted'
  <2>1. \A h \in Handle : Held(w, h)' = Held(w, h)
    BY <1>1 DEF Held, CtxRef, ObjRef, ChildRef, workerVars
  <2>2. UNCHANGED <<ref, slot, REMOTE>>
    BY DEF ctxVars
  <2> QED BY <1>1, <2>1, <2>2, RefSame DEF DispatchInv
<1>5. OwnInv'
  <2>1. \A h \in Handle : Owned(w, h)' = Owned(w, h)
    BY <1>1 DEF Owned, QueueOf, SwapOf, ChildOf, workerVars
  <2> QED BY <1>1, <2>1, OwnSame DEF DispatchInv
<1> QED BY <1>2, <1>3, <1>4, <1>5 DEF DispatchInv

\* skynet_send, of a callback or of the init of a new service.
LEMMA SendInv ==
    ASSUME DispatchInv, NEW w \in Worker, NEW d \in Handle, Send(w, d)
    PROVE  DispatchInv'
<1>1. /\ pc[w] = "calling" /\ sent < MaxMsg /\ sent' = sent + 1
      /\ msg' = [msg EXCEPT ![w] = [id |-> sent + 1, src |-> q[w]]]
      /\ Call(w, "grabdst", d, "calling")
      /\ UNCHANGED <<mqVars, ctxVars, nodeVars, workerVars>>
  BY DEF Send
<1>2. RegistersAt(w, "calling")
  BY <1>1, HereRegisters DEF InCall
<1>3. sent' \in 0..MaxMsg /\ [id |-> sent + 1, src |-> q[w]] \in Message
  BY <1>1, DispatchAssumption DEF DispatchInv, TypeOK, Message
<1>4. msg' \in [Thread -> Message] /\ \A u \in Thread : u # w => msg'[u] = msg[u]
  BY <1>1, <1>3 DEF DispatchInv, TypeOK
<1>5. FreshInv' /\ MessageInv' /\ mq' \in [Handle -> Seq(Message)]
  BY <1>1 DEF DispatchInv, TypeOK, FreshInv, MessageInv, mqVars, ctxVars
<1>6. UNCHANGED <<globalmq, in_global, release, freed, ctxVars, nodeVars, workerVars>>
  BY <1>1 DEF mqVars
<1> QED BY <1>1, <1>2, <1>3, <1>4, <1>5, <1>6, PushCall

\* A message sent by the init function of a new service.
LEMMA InitSendInv ==
    ASSUME DispatchInv, NEW w \in Worker, InitSend(w)
    PROVE  DispatchInv'
<1>1. /\ pc[w] = "init" /\ sent < MaxMsg /\ sent' = sent + 1
      /\ msg' = [msg EXCEPT ![w] = [id |-> sent + 1, src |-> child[w]]]
      /\ Call(w, "grabdst", child[w], "inited")
      /\ UNCHANGED <<mqVars, ctxVars, nodeVars, workerVars>>
  BY DEF InitSend
<1>2. RegistersAt(w, "init")
  BY <1>1, HereRegisters DEF InCall
<1>3. RegistersAt(w, "inited") /\ child[w] \in Handle
  BY <1>2 DEF RegistersAt, InDispatch, InLaunch, InDrop, Outside, HasNoQueue, DispatchInv, TypeOK
<1>4. sent' \in 0..MaxMsg /\ [id |-> sent + 1, src |-> child[w]] \in Message
  BY <1>1, <1>3, DispatchAssumption DEF DispatchInv, TypeOK, Message
<1>5. msg' \in [Thread -> Message] /\ \A u \in Thread : u # w => msg'[u] = msg[u]
  BY <1>1, <1>4 DEF DispatchInv, TypeOK
<1>6. FreshInv' /\ MessageInv' /\ mq' \in [Handle -> Seq(Message)]
  BY <1>1 DEF DispatchInv, TypeOK, FreshInv, MessageInv, mqVars, ctxVars
<1>7. UNCHANGED <<globalmq, in_global, release, freed, ctxVars, nodeVars, workerVars>>
  BY <1>1 DEF mqVars
<1> QED BY <1>1, <1>3, <1>4, <1>5, <1>6, <1>7, PushCall

\* _drop_queue: the message dropped was the queue's, its source gets an error.
LEMMA DropInv ==
    ASSUME DispatchInv, NEW w \in Worker, Drop(w)
    PROVE  DispatchInv'
<1> DEFINE x == Dead(w)
           src == Head(mq[x]).src
<1>1. /\ pc[w] = "drop" /\ mq[x] # <<>> /\ mq' = [mq EXCEPT ![x] = Tail(@)]
      /\ UNCHANGED <<globalmq, in_global, release, freed, ctxVars, nodeVars, sent, workerVars>>
  BY DEF Drop
<1>2. RegistersAt(w, "drop")
  BY <1>1, HereRegisters DEF InCall
<1>3. x \in Handle
  BY <1>2 DEF RegistersAt, InDrop, Dead, DispatchInv, TypeOK
<1>4. /\ mq' \in [Handle -> Seq(Message)] /\ Head(mq[x]) \in Message
      /\ \A g \in Handle : mq'[g] # <<>> => mq[g] # <<>>
  BY <1>1, <1>3, PopTypes
<1>5. FreshInv' /\ MessageInv'
  BY <1>1, <1>4 DEF DispatchInv, FreshInv, MessageInv, ctxVars
<1>6. CASE src # NoHandle
  <2>1. /\ msg' = [msg EXCEPT ![w] = [id |-> 0, src |-> x]]
        /\ Call(w, "grabdst", src, "drop")
    BY <1>6 DEF Drop
  <2>2. src \in Handle /\ [id |-> 0, src |-> x] \in Message
    BY <1>3, <1>4, <1>6, DispatchAssumption DEF Message
  <2>3. msg' \in [Thread -> Message] /\ \A u \in Thread : u # w => msg'[u] = msg[u]
    BY <2>1, <2>2 DEF DispatchInv, TypeOK
  <2>4. sent' \in 0..MaxMsg
    BY <1>1 DEF DispatchInv, TypeOK
  <2> HIDE DEF src
  <2> QED BY <1>1, <1>2, <1>4, <1>5, <2>1, <2>2, <2>3, <2>4, PushCall
<1>7. CASE src = NoHandle
  <2>1. UNCHANGED <<pc, callVars>>
    BY <1>7 DEF Drop
  <2>2. Goto(w, "drop")
    BY <1>1, <2>1 DEF Goto, DispatchInv, PcInv
  <2>3. TypeOK'
    BY <1>1, <1>4, <2>1 DEF DispatchInv, TypeOK, ctxVars, callVars, workerVars
  <2>4. "drop" \notin Busy /\ "drop" \in Location
    BY DEF Busy, InCall, Location, WorkerAt, InDrop
  <2>5. UNCHANGED <<handle_index, slot, ref, total, REMOTE, reserved, callVars, q, ctx, child>> /\ left' = left
    BY <1>1, <2>1 DEF ctxVars, workerVars
  <2> QED BY <1>1, <1>2, <1>5, <2>2, <2>3, <2>4, <2>5, LocalStep
<1> QED BY <1>6, <1>7

\* GiveUp: the queue of the service that is gone is no longer w's.
LEMMA GiveUpEffect ==
    ASSUME DispatchInv, NEW w \in Worker, pc[w] \in InDrop, GiveUp(w), UNCHANGED <<callVars, ctx, left>>
    PROVE  /\ RegTypes' /\ Moves(w) /\ w \in Thread
           /\ pc[w] \notin {"delete", "deleted"} /\ pc'[w] \notin {"delete", "deleted"}
           /\ CallOf(w)' /\ RegistersOf(w)' /\ Dead(w) \in Handle
           /\ {q', child'} \subseteq [Worker -> Handle \cup {NoHandle}]
           /\ \A h \in Handle : Held(w, h)' = Held(w, h)
           /\ \A h \in Handle : Owned(w, h) = Owned(w, h)' + (IF h = Dead(w) THEN 1 ELSE 0)
           /\ Has(w, Dead(w))
<1>1. RegistersAt(w, pc[w]) /\ pc[w] \notin Busy
  BY HereRegisters DEF InDrop, InCall, Busy
<1>2. q[w] \in Handle /\ ctx[w] = IF child[w] # NoHandle THEN q[w] ELSE NoHandle
  BY <1>1 DEF RegistersAt, DispatchInv, TypeOK
<1>3. Dead(w) \in Handle /\ Has(w, Dead(w))
  BY <1>2 DEF Dead, Has, QueueOf, ChildOf, DispatchInv, TypeOK
<1>4. \A h \in Handle : h # NoHandle
  BY DEF Handle, NoHandle
<1>5. CASE child[w] # NoHandle
  <2>1. Goto(w, "calling") /\ child' = [child EXCEPT ![w] = NoHandle] /\ q' = q
    BY <1>5 DEF GiveUp
  <2>2. /\ child' \in [Worker -> Handle \cup {NoHandle}] /\ q' \in [Worker -> Handle \cup {NoHandle}]
        /\ child'[w] = NoHandle /\ \A u \in Worker : u # w => child'[u] = child[u]
    BY <2>1 DEF DispatchInv, TypeOK
  <2>3. "calling" \in Location /\ "calling" \notin Busy
    BY DEF Location, WorkerAt, InDispatch, Busy, InCall
  <2>4. /\ RegTypes' /\ Moves(w) /\ w \in Thread
        /\ pc'[w] = "calling" /\ obj'[w] = obj[w] /\ ret'[w] = ret[w] /\ At(w)' = "calling"
        /\ pc'[w] \notin {"delete", "deleted"} /\ CallOf(w)'
    BY <2>1, <2>2, <2>3, JumpControl
  <2>5. RegistersAt(w, "calling")'
    BY <1>2, <1>4, <1>5, <2>1, <2>2 DEF RegistersAt, InDispatch, InLaunch, InDrop, Outside, HasNoQueue
  <2>6. RegistersOf(w)'
    BY <2>4, <2>5 DEF RegistersOf
  <2>7. \A h \in Handle : Held(w, h)' = Held(w, h)
    BY <2>4 DEF Held, CtxRef, ObjRef, ChildRef, InDrop
  <2>8. \A h \in Handle : Owned(w, h) = Owned(w, h)' + (IF h = Dead(w) THEN 1 ELSE 0)
    <3>1. \A h \in Handle : /\ QueueOf(w, h)' <=> QueueOf(w, h)
                            /\ ~ SwapOf(w, h) /\ ~ SwapOf(w, h)' /\ ~ ChildOf(w, h)'
                            /\ ChildOf(w, h) <=> h = Dead(w)
      BY <1>4, <1>5, <2>1, <2>2, <2>4 DEF QueueOf, SwapOf, ChildOf, Dead, InDrop
    <3> QED BY <3>1 DEF Owned
  <2> QED BY <1>3, <2>2, <2>4, <2>6, <2>7, <2>8 DEF InDrop
<1>6. CASE child[w] = NoHandle
  <2>1. Goto(w, "next") /\ q' = [q EXCEPT ![w] = NoHandle] /\ child' = child
    BY <1>6 DEF GiveUp
  <2>2. /\ child' \in [Worker -> Handle \cup {NoHandle}] /\ q' \in [Worker -> Handle \cup {NoHandle}]
        /\ q'[w] = NoHandle /\ \A u \in Worker : u # w => q'[u] = q[u]
    BY <2>1 DEF DispatchInv, TypeOK
  <2>3. "next" \in Location /\ "next" \notin Busy
    BY DEF Location, WorkerAt, Outside, HasNoQueue, Busy, InCall
  <2>4. /\ RegTypes' /\ Moves(w) /\ w \in Thread
        /\ pc'[w] = "next" /\ obj'[w] = obj[w] /\ ret'[w] = ret[w] /\ At(w)' = "next"
        /\ pc'[w] \notin {"delete", "deleted"} /\ CallOf(w)'
    BY <2>1, <2>2, <2>3, JumpControl
  <2>5. RegistersAt(w, "next")'
    BY <1>2, <1>6, <2>1, <2>2 DEF RegistersAt, InDispatch, InLaunch, InDrop, Outside, HasNoQueue
  <2>6. RegistersOf(w)'
    BY <2>4, <2>5 DEF RegistersOf
  <2>7. \A h \in Handle : Held(w, h)' = Held(w, h)
    BY <2>1, <2>4 DEF Held, CtxRef, ObjRef, ChildRef, InDrop
  <2>8. \A h \in Handle : Owned(w, h) = Owned(w, h)' + (IF h = Dead(w) THEN 1 ELSE 0)
    <3>1. \A h \in Handle : /\ ChildOf(w, h)' <=> ChildOf(w, h)
                            /\ ~ SwapOf(w, h) /\ ~ SwapOf(w, h)' /\ ~ QueueOf(w, h)'
                            /\ QueueOf(w, h) <=> h = Dead(w)
      BY <1>4, <1>6, <2>1, <2>2, <2>4 DEF QueueOf, SwapOf, ChildOf, Dead, InDrop
    <3> QED BY <3>1 DEF Owned
  <2> QED BY <1>3, <2>2, <2>4, <2>6, <2>7, <2>8 DEF InDrop
<1> QED BY <1>5, <1>6

\* skynet_mq_release: the queue is dropped or goes back to the global queue.
LEMMA MqReleaseInv ==
    ASSUME DispatchInv, NEW w \in Worker, MqRelease(w)
    PROVE  DispatchInv'
<1> DEFINE x == Dead(w)
<1>1. /\ pc[w] = "mqrelease"
      /\ UNCHANGED <<mq, in_global, release, freed, ctxVars, nodeVars, sent, callVars, ctx, left>>
  BY DEF MqRelease
<1>2. CASE release[x]
  <2>1. Goto(w, "drop") /\ UNCHANGED <<globalmq, q, child>>
    BY <1>2 DEF MqRelease
  <2>2. RegistersAt(w, "mqrelease")
    BY <1>1, HereRegisters DEF InCall
  <2>3. RegistersAt(w, "drop")
    BY <1>2, <2>2 DEF RegistersAt, InDispatch, InLaunch, InDrop, Outside, HasNoQueue
  <2>4. pc[w] \notin Busy /\ "drop" \notin Busy /\ "drop" \in Location
    BY <1>1 DEF Busy, InCall, Location, WorkerAt, InDrop
  <2>5. left \in [Worker -> Nat]
    BY DEF DispatchInv, TypeOK
  <2>6. UNCHANGED <<mqVars, ctxVars, nodeVars, sent, callVars, q, ctx, child>>
    BY <1>1, <2>1 DEF mqVars
  <2> QED BY <1>1, <2>1, <2>3, <2>4, <2>5, <2>6, LocalJump
<1>3. CASE ~release[x]
  <2>1. globalmq' = Append(globalmq, x) /\ GiveUp(w)
    BY <1>3 DEF MqRelease
  <2>2. /\ RegTypes' /\ Moves(w) /\ w \in Thread
        /\ pc[w] \notin {"delete", "deleted"} /\ pc'[w] \notin {"delete", "deleted"}
        /\ CallOf(w)' /\ RegistersOf(w)' /\ x \in Handle
        /\ {q', child'} \subseteq [Worker -> Handle \cup {NoHandle}]
        /\ \A h \in Handle : Held(w, h)' = Held(w, h)
        /\ \A h \in Handle : Owned(w, h) = Owned(w, h)' + (IF h = x THEN 1 ELSE 0)
    BY <1>1, <2>1, GiveUpEffect DEF InDrop
  <2> HIDE DEF x
  <2>3. /\ globalmq \in Seq(Handle) /\ Append(globalmq, x) \in Seq(Handle)
        /\ \A h : Cardinality(Places(Append(globalmq, x), h))
                    = Cardinality(Places(globalmq, h)) + (IF x = h THEN 1 ELSE 0)
    BY <2>2, PlacesAppend DEF DispatchInv, TypeOK
  <2>4. TypeOK' /\ FreshInv' /\ MessageInv'
    BY <1>1, <2>1, <2>2, <2>3 DEF DispatchInv, TypeOK, RegTypes, FreshInv, MessageInv, ctxVars
  <2>5. PcInv' /\ WorkerInv' /\ DeleteInv' /\ TotalInv'
    <3>1. UNCHANGED <<release, freed, handle_index, ref, total, reserved>>
      BY <1>1 DEF ctxVars
    <3> QED BY <2>2, <3>1, CalmStep
  <2>6. RefCounted'
    <3>1. UNCHANGED <<ref, slot, REMOTE>>
      BY <1>1 DEF ctxVars
    <3> QED BY <2>2, <3>1, RefSame DEF DispatchInv
  <2>7. OwnInv'
    <3> SUFFICES ASSUME NEW h \in Handle
                 PROVE  (IF h \notin freed' /\ (in_global'[h] \/ release'[h]) THEN 1 ELSE 0)
                          = (IF h \notin freed /\ (in_global[h] \/ release[h]) THEN 1 ELSE 0)
                            + (Cardinality(Places(globalmq', h)) - Cardinality(Places(globalmq, h)))
                            + (Owned(w, h)' - Owned(w, h))
      BY <2>1, <2>2, <2>3, OwnNext DEF DispatchInv
    <3>1. Cardinality(Places(globalmq, h)) \in Nat
      BY <2>3, PlacesFinite
    <3>2. Owned(w, h) \in Nat /\ Owned(w, h)' \in Nat
      BY DEF Owned
    <3> QED BY <1>1, <2>1, <2>2, <2>3, <3>1, <3>2
  <2> QED BY <2>4, <2>5, <2>6, <2>7 DEF DispatchInv
<1> QED BY <1>2, <1>3

\* _release: the queue is freed when it is empty and its context is deleted.
LEMMA DropEndInv ==
    ASSUME DispatchInv, NEW w \in Worker, DropEnd(w)
    PROVE  DispatchInv'
<1> DEFINE x == Dead(w)
<1>1. /\ pc[w] = "drop" /\ mq[x] = <<>> /\ GiveUp(w)
      /\ in_global' = [in_global EXCEPT ![x] = FALSE] /\ freed' = freed \cup {x}
      /\ UNCHANGED <<globalmq, mq, release, ctxVars, nodeVars, sent, callVars, ctx, left>>
  BY DEF DropEnd
<1>2. RegistersAt(w, "drop")
  BY <1>1, HereRegisters DEF InCall
<1>3. /\ RegTypes' /\ Moves(w) /\ w \in Thread
      /\ pc[w] \notin {"delete", "deleted"} /\ pc'[w] \notin {"delete", "deleted"}
      /\ CallOf(w)' /\ RegistersOf(w)' /\ x \in Handle
      /\ {q', child'} \subseteq [Worker -> Handle \cup {NoHandle}]
      /\ \A h \in Handle : Held(w, h)' = Held(w, h)
      /\ \A h \in Handle : Owned(w, h) = Owned(w, h)' + (IF h = x THEN 1 ELSE 0)
      /\ Has(w, x)
  BY <1>1, GiveUpEffect DEF InDrop
<1>4. release[x]
  BY <1>2 DEF RegistersAt
<1> HIDE DEF x
<1>5. x \notin freed /\ x < handle_index
  BY <1>3, HasLaunched
<1>6. in_global' \in [Handle -> BOOLEAN] /\ \A h \in Handle : in_global'[h] <=> h # x /\ in_global[h]
  BY <1>1, <1>3 DEF DispatchInv, TypeOK
<1>7. TypeOK' /\ FreshInv' /\ MessageInv'
  <2>1. TypeOK'
    BY <1>1, <1>3, <1>6 DEF DispatchInv, TypeOK, RegTypes, ctxVars
  <2>2. \A h \in Handle : h >= handle_index => h # x
    BY <1>5 DEF DispatchInv, TypeOK, Handle
  <2> QED BY <1>1, <1>6, <2>1, <2>2 DEF DispatchInv, FreshInv, MessageInv, ctxVars
<1>8. PcInv' /\ WorkerInv' /\ DeleteInv' /\ TotalInv'
  <2>1. UNCHANGED <<release, handle_index, total, reserved>> /\ ref' = ref
    BY <1>1 DEF ctxVars
  <2>2. \A h \in freed' : release'[h]
    BY <1>1, <1>4 DEF DispatchInv, DeleteInv
  <2> QED BY <1>3, <1>7, <2>1, <2>2, CalmRefStep
<1>9. RefCounted'
  <2>1. UNCHANGED <<ref, slot, REMOTE>>
    BY <1>1 DEF ctxVars
  <2> QED BY <1>3, <2>1, RefSame DEF DispatchInv
<1>10. OwnInv'
  <2> SUFFICES ASSUME NEW h \in Handle
               PROVE  (IF h \notin freed' /\ (in_global'[h] \/ release'[h]) THEN 1 ELSE 0)
                        = (IF h \notin freed /\ (in_global[h] \/ release[h]) THEN 1 ELSE 0)
                          + (Cardinality(Places(globalmq', h)) - Cardinality(Places(globalmq, h)))
                          + (Owned(w, h)' - Owned(w, h))
    BY <1>3, <1>7, OwnNext DEF DispatchInv, TypeOK
  <2>1. Cardinality(Places(globalmq, h)) \in Nat /\ globalmq' = globalmq
    BY <1>1, PlacesFinite DEF DispatchInv, TypeOK
  <2>2. Owned(w, h) \in Nat /\ Owned(w, h)' \in Nat
    BY DEF Owned
  <2>3. (h \in freed' <=> h = x \/ h \in freed) /\ release' = release
    BY <1>1
  <2> QED BY <1>3, <1>4, <1>5, <1>6, <2>1, <2>2, <2>3
<1> QED BY <1>7, <1>8, <1>9, <1>10 DEF DispatchInv

\* A worker gives a reference back: the table's, when it takes a service out of
\* it, or its own, when the launch of a service has called its init.
LEMMA ReleaseCall ==
    ASSUME DispatchInv, NEW w \in Worker, NEW x \in Handle,
           NEW l \in {"calling", "mqrelease", "launched", "retire"},
           Call(w, "release", x, l), l # "calling" => x = child[w],
           \/ pc[w] \in {"calling", "retire"} /\ x \in slot /\ slot' = slot \ {x}
           \/ pc[w] \in {"init", "inited"} /\ x = child[w] /\ slot' = slot,
           RegistersAt(w, l),
           UNCHANGED <<mqVars, handle_index, ref, init, total, nodeVars, sent, msg, workerVars>>
    PROVE  DispatchInv'
<1>1. pc[w] \notin InCall \cup {"pushback"} /\ slot' \subseteq slot
  BY DEF InCall
<1>2. /\ RegTypes' /\ Moves(w) /\ w \in Thread
      /\ pc'[w] = "release" /\ obj'[w] = x /\ ret'[w] = l /\ At(w)' = l
      /\ pc'[w] \notin {"delete", "deleted"} /\ CallOf(w)'
  <2>1. l \in {"loop", "next", "calling", "drop"} \cup InLaunchCall /\ (l \in InLaunchCall => x = child'[w])
    BY DEF InLaunchCall, workerVars
  <2>2. \A u \in Worker : u # w => /\ q'[u] = q[u] /\ ctx'[u] = ctx[u]
                                   /\ child'[u] = child[u] /\ left'[u] = left[u]
    BY DEF workerVars
  <2>3. msg' \in [Thread -> Message] /\ msg' = msg
    BY DEF DispatchInv, TypeOK
  <2> QED BY <2>1, <2>2, <2>3, CallControl
<1>3. TypeOK' /\ FreshInv' /\ MessageInv'
  BY <1>1, <1>2 DEF DispatchInv, TypeOK, RegTypes, FreshInv, MessageInv, mqVars, workerVars
<1>4. PcInv' /\ WorkerInv' /\ DeleteInv' /\ TotalInv'
  <2>1. RegistersAt(w, l)'
    BY DEF RegistersAt, workerVars
  <2>2. RegistersOf(w)'
    BY <1>2, <2>1 DEF RegistersOf
  <2>3. UNCHANGED <<release, freed, handle_index, ref, total, reserved>> /\ pc[w] \notin {"delete", "deleted"}
    BY <1>1 DEF mqVars, InCall
  <2> QED BY <1>2, <2>2, <2>3, CalmStep
<1>5. RefCounted'
  <2> SUFFICES ASSUME NEW h \in Handle
               PROVE ref'[h] = ref[h] + ((IF h \in slot' THEN 1 ELSE 0) - (IF h \in slot THEN 1 ELSE 0))
                                      + (Held(w, h)' - Held(w, h))
    BY <1>2, RefNext DEF DispatchInv
  <2>1. /\ CtxRef(w, h)' <=> CtxRef(w, h)
        /\ ~ ObjRef(w, h)
        /\ ObjRef(w, h)' <=> h = x
        /\ ~ ChildRef(w, h)'
    BY <1>1, <1>2 DEF CtxRef, ObjRef, ChildRef, workerVars, InCall
  <2>2. ref' = ref /\ ref[h] \in Nat
    BY DEF DispatchInv, TypeOK
  <2>3. CASE pc[w] \in {"calling", "retire"} /\ x \in slot /\ slot' = slot \ {x}
    <3>1. ~ ChildRef(w, h)
      BY <2>3 DEF ChildRef
    <3>2. Held(w, h)' = Held(w, h) + (IF h = x THEN 1 ELSE 0) /\ Held(w, h) \in Nat
      BY <2>1, <3>1 DEF Held
    <3>3. (IF h \in slot' THEN 1 ELSE 0) = (IF h \in slot THEN 1 ELSE 0) - (IF h = x THEN 1 ELSE 0)
      BY <2>3
    <3> QED BY <2>2, <3>2, <3>3
  <2>4. CASE pc[w] \in {"init", "inited"} /\ x = child[w] /\ slot' = slot
    <3>1. ChildRef(w, h) <=> h = x
      BY <2>4 DEF ChildRef
    <3>2. Held(w, h)' = Held(w, h) /\ Held(w, h) \in Nat
      BY <2>1, <3>1 DEF Held
    <3> QED BY <2>2, <2>4, <3>2
  <2> QED BY <2>3, <2>4
<1>6. OwnInv'
  <2>1. \A h \in Handle : Owned(w, h)' = Owned(w, h)
    BY <1>1, <1>2 DEF Owned, QueueOf, SwapOf, ChildOf, workerVars
  <2>2. UNCHANGED <<globalmq, in_global, release, freed>>
    BY DEF mqVars
  <2> QED BY <1>2, <2>1, <2>2, OwnSame DEF DispatchInv
<1> QED BY <1>3, <1>4, <1>5, <1>6 DEF DispatchInv

\* A callback retires a service: the reference of the table becomes the thread's.
LEMMA KillInv ==
    ASSUME DispatchInv, NEW w \in Worker, NEW v \in Handle, Kill(w, v)
    PROVE  DispatchInv'
<1>1. /\ pc[w] = "calling" /\ v \in slot /\ slot' = slot \ {v} /\ Call(w, "release", v, "calling")
      /\ UNCHANGED <<mqVars, handle_index, ref, init, total, nodeVars, sent, msg, workerVars>>
  BY DEF Kill
<1>2. RegistersAt(w, "calling")
  BY <1>1, HereRegisters DEF InCall
<1> QED BY <1>1, <1>2, ReleaseCall

\* The init function ends.
LEMMA InitEndInv ==
    ASSUME DispatchInv, NEW w \in Worker, InitEnd(w)
    PROVE  DispatchInv'
<1>1. PICK l \in {"launched", "retire"} : Call(w, "release", child[w], l)
  BY DEF InitEnd
<1>2. /\ pc[w] \in {"init", "inited"}
      /\ UNCHANGED <<mqVars, handle_index, slot, ref, init, total, nodeVars, sent, msg, workerVars>>
  BY DEF InitEnd, ctxVars
<1>3. RegistersAt(w, pc[w])
  BY <1>2, HereRegisters DEF InCall
<1>4. RegistersAt(w, l) /\ child[w] \in Handle
  BY <1>2, <1>3 DEF RegistersAt, InDispatch, InLaunch, InDrop, Outside, HasNoQueue, DispatchInv, TypeOK
<1> QED BY <1>1, <1>2, <1>4, ReleaseCall

\* A service whose init failed is taken out of the table again.
LEMMA LaunchRetireInv ==
    ASSUME DispatchInv, NEW w \in Worker, LaunchRetire(w)
    PROVE  DispatchInv'
<1>1. /\ pc[w] = "retire"
      /\ UNCHANGED <<mqVars, handle_index, ref, init, total, nodeVars, sent, msg, workerVars>>
  BY DEF LaunchRetire
<1>2. RegistersAt(w, "retire")
  BY <1>1, HereRegisters DEF InCall
<1>3. RegistersAt(w, "mqrelease") /\ child[w] \in Handle
  BY <1>2 DEF RegistersAt, InDispatch, InLaunch, InDrop, Outside, HasNoQueue, DispatchInv, TypeOK
<1>4. CASE child[w] \in slot
  <2>1. slot' = slot \ {child[w]} /\ Call(w, "release", child[w], "mqrelease")
    BY <1>4 DEF LaunchRetire
  <2> QED BY <1>1, <1>3, <1>4, <2>1, ReleaseCall
<1>5. CASE child[w] \notin slot
  <2>1. Goto(w, "mqrelease") /\ UNCHANGED <<slot, obj, ret>>
    BY <1>5 DEF LaunchRetire
  <2>2. pc[w] \notin Busy /\ "mqrelease" \notin Busy /\ "mqrelease" \in Location
    BY <1>1 DEF Busy, InCall, Location, WorkerAt, InDrop
  <2>3. left' \in [Worker -> Nat] /\ left' = left
    BY <1>1 DEF DispatchInv, TypeOK, workerVars
  <2>4. UNCHANGED <<mqVars, ctxVars, nodeVars, sent, callVars, q, ctx, child>>
    BY <1>1, <2>1 DEF ctxVars, callVars, workerVars
  <2> QED BY <1>3, <2>1, <2>2, <2>3, <2>4, LocalJump
<1> QED BY <1>4, <1>5

\* skynet_globalmq_push of a launch: the queue was the launch's until here.
LEMMA LaunchEnqueueInv ==
    ASSUME DispatchInv, NEW w \in Worker, LaunchEnqueue(w)
    PROVE  DispatchInv'
<1> DEFINE x == child[w]
<1>1. /\ pc[w] = "enqueue" /\ globalmq' = Append(globalmq, x)
      /\ child' = [child EXCEPT ![w] = NoHandle] /\ Goto(w, "calling")
      /\ UNCHANGED <<mq, in_global, release, freed, ctxVars, nodeVars, sent, callVars, q, ctx, left>>
  BY DEF LaunchEnqueue
<1>2. RegistersAt(w, "enqueue")
  BY <1>1, HereRegisters DEF InCall
<1>3. x \in Handle /\ q[w] \in Handle /\ ctx[w] = q[w]
  BY <1>2 DEF RegistersAt, InDispatch, InLaunch, DispatchInv, TypeOK
<1>4. /\ child' \in [Worker -> Handle \cup {NoHandle}] /\ child'[w] = NoHandle
      /\ \A u \in Worker : u # w => child'[u] = child[u]
  BY <1>1 DEF DispatchInv, TypeOK
<1>5. "calling" \in Location /\ "calling" \notin Busy
  BY DEF Location, WorkerAt, InDispatch, Busy, InCall
<1>6. /\ RegTypes' /\ Moves(w) /\ w \in Thread
      /\ pc'[w] = "calling" /\ obj'[w] = obj[w] /\ ret'[w] = ret[w] /\ At(w)' = "calling"
      /\ pc'[w] \notin {"delete", "deleted"} /\ CallOf(w)'
  BY <1>1, <1>4, <1>5, JumpControl
<1>7. /\ globalmq \in Seq(Handle) /\ Append(globalmq, x) \in Seq(Handle)
      /\ \A h : Cardinality(Places(Append(globalmq, x), h))
                  = Cardinality(Places(globalmq, h)) + (IF x = h THEN 1 ELSE 0)
  BY <1>3, PlacesAppend DEF DispatchInv, TypeOK
<1>8. \A h \in Handle : h # NoHandle
  BY DEF Handle, NoHandle
<1>9. TypeOK' /\ FreshInv' /\ MessageInv'
  BY <1>1, <1>4, <1>6, <1>7 DEF DispatchInv, TypeOK, RegTypes, FreshInv, MessageInv, ctxVars
<1>10. PcInv' /\ WorkerInv' /\ DeleteInv' /\ TotalInv'
  <2>1. RegistersAt(w, "calling")'
    BY <1>1, <1>3, <1>4, <1>8 DEF RegistersAt, InDispatch, InLaunch, InDrop, Outside, HasNoQueue
  <2>2. RegistersOf(w)'
    BY <1>6, <2>1 DEF RegistersOf
  <2>3. UNCHANGED <<release, freed, handle_index, ref, total, reserved>> /\ pc[w] \notin {"delete", "deleted"}
    BY <1>1 DEF ctxVars
  <2> QED BY <1>6, <2>2, <2>3, CalmStep
<1>11. RefCounted'
  <2>1. \A h \in Handle : Held(w, h)' = Held(w, h)
    BY <1>1, <1>6 DEF Held, CtxRef, ObjRef, ChildRef
  <2>2. UNCHANGED <<ref, slot, REMOTE>>
    BY <1>1 DEF ctxVars
  <2> QED BY <1>6, <2>1, <2>2, RefSame DEF DispatchInv
<1>12. OwnInv'
  <2> SUFFICES ASSUME NEW h \in Handle
               PROVE  (IF h \notin freed' /\ (in_global'[h] \/ release'[h]) THEN 1 ELSE 0)
                        = (IF h \notin freed /\ (in_global[h] \/ release[h]) THEN 1 ELSE 0)
                          + (Cardinality(Places(globalmq', h)) - Cardinality(Places(globalmq, h)))
                          + (Owned(w, h)' - Owned(w, h))
    BY <1>1, <1>6, <1>7, OwnNext DEF DispatchInv
  <2>1. Owned(w, h) = Owned(w, h)' + (IF x = h THEN 1 ELSE 0) /\ Owned(w, h)' \in Nat
    <3>1. /\ QueueOf(w, h)' <=> QueueOf(w, h)
          /\ ~ SwapOf(w, h) /\ ~ SwapOf(w, h)' /\ ~ ChildOf(w, h)'
          /\ ChildOf(w, h) <=> x = h
      BY <1>1, <1>4, <1>6, <1>8 DEF QueueOf, SwapOf, ChildOf
    <3> QED BY <3>1 DEF Owned
  <2>2. Cardinality(Places(globalmq, h)) \in Nat
    BY <1>7, PlacesFinite
  <2> HIDE DEF x
  <2>3. Cardinality(Places(globalmq', h)) = Cardinality(Places(globalmq, h)) + (IF x = h THEN 1 ELSE 0)
    BY <1>1, <1>7
  <2> QED BY <1>1, <2>1, <2>2, <2>3
<1> QED BY <1>9, <1>10, <1>11, <1>12 DEF DispatchInv

\* skynet_context_new: the new context has two references, the table's and the
\* launch's, and the launch owns the new queue.
LEMMA LaunchInv ==
    ASSUME DispatchInv, NEW w \in Worker, NEW x \in Handle, Launch(w, x)
    PROVE  DispatchInv'
<1>1. /\ pc[w] = "calling" /\ x = handle_index /\ handle_index' = x + 1
      /\ slot' = slot \cup {x} /\ ref' = [ref EXCEPT ![x] = 2]
      /\ in_global' = [in_global EXCEPT ![x] = TRUE] /\ total' = total + 1
      /\ child' = [child EXCEPT ![w] = x] /\ Goto(w, "init")
      /\ UNCHANGED <<globalmq, mq, release, freed, init, nodeVars, sent, callVars, q, ctx, left>>
  BY DEF Launch
<1>2. RegistersAt(w, "calling")
  BY <1>1, HereRegisters DEF InCall
<1>3. child[w] = NoHandle /\ q[w] \in Handle /\ ctx[w] = q[w] /\ \A h \in Handle : h # NoHandle
  BY <1>2 DEF RegistersAt, InDispatch, InLaunch, DispatchInv, TypeOK, Handle, NoHandle
<1>4. /\ ~in_global[x] /\ ~release[x] /\ mq[x] = <<>> /\ x \notin freed
      /\ ref[x] = 0 /\ x \notin slot /\ x \in Int
  BY <1>1 DEF DispatchInv, FreshInv, Handle
<1>5. /\ child' \in [Worker -> Handle \cup {NoHandle}] /\ child'[w] = x
      /\ \A u \in Worker : u # w => child'[u] = child[u]
  BY <1>1 DEF DispatchInv, TypeOK
<1>6. /\ ref' \in [Handle -> Nat] /\ ref'[x] = 2 /\ \A h \in Handle : h # x => ref'[h] = ref[h]
      /\ in_global' \in [Handle -> BOOLEAN]
      /\ \A h \in Handle : in_global'[h] <=> h = x \/ in_global[h]
  BY <1>1 DEF DispatchInv, TypeOK
<1>7. /\ RegTypes' /\ Moves(w) /\ w \in Thread
      /\ pc'[w] = "init" /\ obj'[w] = obj[w] /\ ret'[w] = ret[w]
      /\ CallOf(w)' /\ At(w)' = "init"
  <2>1. RegTypes /\ "init" \in Location /\ w \in Thread /\ w # Timer
    BY DispatchAssumption
    DEF RegTypes, DispatchInv, TypeOK, PcInv, Location, WorkerAt, InDispatch, InLaunch, Thread
  <2>2. pc' \in [Thread -> Location] /\ pc'[w] = "init" /\ \A u \in Thread : u # w => pc'[u] = pc[u]
    BY <1>1, <2>1, GotoEffect
  <2>3. CallOf(w)' /\ At(w)' = "init"
    BY <2>1, <2>2 DEF CallOf, At, InCall
  <2> QED BY <1>1, <1>5, <2>1, <2>2, <2>3 DEF RegTypes, Moves, callVars
<1>8. TypeOK' /\ FreshInv' /\ MessageInv'
  <2>1. handle_index' \in 1..(MaxHandle + 1)
    BY <1>1, DispatchAssumption DEF Handle
  <2>2. total' \in Int
    BY <1>1 DEF DispatchInv, TypeOK
  <2>3. TypeOK'
    BY <1>1, <1>5, <1>6, <1>7, <2>1, <2>2 DEF DispatchInv, TypeOK, RegTypes, callVars
  <2>4. \A h \in Handle : h >= handle_index' => h >= handle_index /\ h # x
    BY <1>1 DEF Handle
  <2> QED BY <1>1, <1>6, <2>3, <2>4 DEF DispatchInv, FreshInv, MessageInv
<1>9. PcInv' /\ WorkerInv'
  <2>1. RegistersAt(w, "init")'
    BY <1>1, <1>3, <1>5 DEF RegistersAt, InDispatch, InLaunch, InDrop, Outside, HasNoQueue
  <2>2. RegistersOf(w)'
    BY <1>7, <2>1 DEF RegistersOf
  <2> QED BY <1>1, <1>7, <2>2, ControlStep DEF DispatchInv, RegTypes
<1>10. DeleteInv'
  <2>1. /\ \A h \in Handle : release'[h] = release[h]
        /\ \A h \in freed' : release'[h]
        /\ handle_index' \in Int /\ handle_index' >= handle_index
    BY <1>1, <1>4 DEF DispatchInv, DeleteInv
  <2>2. \A h \in Handle : ref[h] = 0 /\ h < handle_index => ref'[h] = 0
    BY <1>1, <1>4, <1>6
  <2>3. \A h \in Handle : release[h] => ref'[h] = 0
    BY <1>4, <1>6 DEF DispatchInv, DeleteInv
  <2> QED BY <1>7, <2>1, <2>2, <2>3, DeleteSame DEF DispatchInv
<1>11. RefCounted'
  <2> SUFFICES ASSUME NEW h \in Handle
               PROVE ref'[h] = ref[h] + ((IF h \in slot' THEN 1 ELSE 0) - (IF h \in slot THEN 1 ELSE 0))
                                      + (Held(w, h)' - Held(w, h))
    BY <1>1, <1>7, RefNext DEF DispatchInv
  <2>1. /\ CtxRef(w, h)' <=> CtxRef(w, h)
        /\ ~ ObjRef(w, h) /\ ~ ObjRef(w, h)' /\ ~ ChildRef(w, h)
        /\ ChildRef(w, h)' <=> h = x
    BY <1>1, <1>5, <1>7 DEF CtxRef, ObjRef, ChildRef
  <2>2. Held(w, h)' = Held(w, h) + (IF h = x THEN 1 ELSE 0) /\ Held(w, h) \in Nat
    BY <2>1 DEF Held
  <2>3. ref[h] \in Nat
    BY DEF DispatchInv, TypeOK
  <2>4. (IF h \in slot' THEN 1 ELSE 0) = (IF h \in slot THEN 1 ELSE 0) + (IF h = x THEN 1 ELSE 0)
    BY <1>1, <1>4
  <2>5. CASE h = x
    BY <1>4, <1>6, <2>2, <2>4, <2>5
  <2>6. CASE h # x
    <3>1. ref'[h] = ref[h]
      BY <1>6, <2>6
    <3> QED BY <2>2, <2>3, <2>4, <2>6, <3>1
  <2> QED BY <2>5, <2>6
<1>12. OwnInv'
  <2> SUFFICES ASSUME NEW h \in Handle
               PROVE  (IF h \notin freed' /\ (in_global'[h] \/ release'[h]) THEN 1 ELSE 0)
                        = (IF h \notin freed /\ (in_global[h] \/ release[h]) THEN 1 ELSE 0)
                          + (Cardinality(Places(globalmq', h)) - Cardinality(Places(globalmq, h)))
                          + (Owned(w, h)' - Owned(w, h))
    BY <1>7, <1>8, OwnNext DEF DispatchInv, TypeOK
  <2>1. Owned(w, h)' = Owned(w, h) + (IF h = x THEN 1 ELSE 0) /\ Owned(w, h) \in Nat
    <3>1. /\ QueueOf(w, h)' <=> QueueOf(w, h)
          /\ ~ SwapOf(w, h) /\ ~ SwapOf(w, h)' /\ ~ ChildOf(w, h)
          /\ ChildOf(w, h)' <=> h = x
      BY <1>1, <1>3, <1>5, <1>7 DEF QueueOf, SwapOf, ChildOf
    <3> QED BY <3>1 DEF Owned
  <2>2. Cardinality(Places(globalmq, h)) \in Nat /\ globalmq' = globalmq
    BY <1>1, PlacesFinite DEF DispatchInv, TypeOK
  <2>3. freed' = freed /\ release' = release
    BY <1>1
  <2> QED BY <1>4, <1>6, <2>1, <2>2, <2>3
<1>13. TotalInv'
  <2>1. /\ Cardinality(Live) \in Nat /\ Cardinality(Deleting) \in Nat
        /\ Cardinality(Live)' = Cardinality(Live)
             + (IF ref'[x] > 0 THEN 1 ELSE 0) - (IF ref[x] > 0 THEN 1 ELSE 0)
        /\ Cardinality(Deleting)' = Cardinality(Deleting)
             + (IF pc'[w] \in {"delete", "deleted"} THEN 1 ELSE 0)
             - (IF pc[w] \in {"delete", "deleted"} THEN 1 ELSE 0)
    BY <1>6, <1>7, TotalStep
  <2> QED BY <1>1, <1>4, <1>6, <1>7, <2>1 DEF DispatchInv, TotalInv
<1> QED BY <1>8, <1>9, <1>10, <1>11, <1>12, <1>13 DEF DispatchInv

\* skynet_harbor_start: the harbor gets a reference more, REMOTE's, and is
\* counted no longer.
LEMMA HarborStartInv ==
    ASSUME DispatchInv, NEW w \in Worker, HarborStart(w)
    PROVE  DispatchInv'
<1> DEFINE x == child[w]
<1>1. /\ pc[w] = "init" /\ reserved = NoHandle /\ REMOTE = NoHandle
      /\ ref' = [ref EXCEPT ![x] = @ + 1] /\ total' = total - 1
      /\ REMOTE' = x /\ reserved' = x /\ Call(w, "release", x, "launched")
      /\ UNCHANGED <<mqVars, handle_index, slot, init, quit, sent, msg, workerVars>>
  BY DEF HarborStart, DispatchInv, TypeOK
<1>2. RegistersAt(w, "init")
  BY <1>1, HereRegisters DEF InCall
<1>3. RegistersAt(w, "launched") /\ x \in Handle /\ \A h \in Handle : h # NoHandle
  BY <1>2 DEF RegistersAt, InDispatch, InLaunch, InDrop, Outside, HasNoQueue, DispatchInv, TypeOK,
              Handle, NoHandle
<1>4. UNCHANGED <<globalmq, mq, in_global, release, freed, q, ctx, child, left>>
  BY <1>1 DEF mqVars, workerVars
<1>5. /\ RegTypes' /\ Moves(w) /\ w \in Thread
      /\ pc'[w] = "release" /\ obj'[w] = x /\ ret'[w] = "launched" /\ At(w)' = "launched"
      /\ pc'[w] \notin {"delete", "deleted"} /\ CallOf(w)'
  <2>1. "launched" \in InLaunchCall /\ x = child'[w] /\ msg' \in [Thread -> Message]
    BY <1>1, <1>4 DEF InLaunchCall, DispatchInv, TypeOK
  <2> HIDE DEF x
  <2> QED BY <1>1, <1>3, <1>4, <2>1, CallControl
<1>6. /\ \A h \in Handle : ref[h] \in Nat /\ ref'[h] = IF h = x THEN ref[h] + 1 ELSE ref[h]
      /\ ref' \in [Handle -> Nat] /\ ref[x] > 0 /\ ~release[x] /\ x < handle_index
  <2>1. ChildRef(w, x)
    BY <1>1 DEF ChildRef
  <2>2. ref[x] > 0
    BY <1>3, <1>5, <2>1, RefUse DEF DispatchInv
  <2>3. /\ ref' \in [Handle -> Nat]
        /\ \A h \in Handle : ref[h] \in Nat /\ ref'[h] = IF h = x THEN ref[h] + 1 ELSE ref[h]
    BY <1>1, <1>3 DEF DispatchInv, TypeOK
  <2> QED BY <1>3, <2>2, <2>3 DEF DispatchInv, TypeOK, DeleteInv, FreshInv, Handle
<1> HIDE DEF x
<1>7. TypeOK' /\ FreshInv' /\ MessageInv'
  <2>1. TypeOK'
    <3>1. total' \in Int
      BY <1>1 DEF DispatchInv, TypeOK
    <3> QED BY <1>1, <1>3, <1>4, <1>5, <1>6, <3>1 DEF DispatchInv, TypeOK, RegTypes
  <2>2. \A h \in Handle : h >= handle_index => h # x
    BY <1>6 DEF DispatchInv, TypeOK, Handle
  <2> QED BY <1>1, <1>4, <1>6, <2>1, <2>2 DEF DispatchInv, FreshInv, MessageInv
<1>8. PcInv' /\ WorkerInv'
  <2>1. RegistersAt(w, "launched")'
    BY <1>3, <1>4 DEF RegistersAt, InDispatch, InLaunch, InDrop, Outside, HasNoQueue
  <2>2. RegistersOf(w)'
    BY <1>5, <2>1 DEF RegistersOf
  <2> QED BY <1>4, <1>5, <2>2, ControlStep DEF DispatchInv, RegTypes
<1>9. DeleteInv'
  <2>1. /\ \A h \in Handle : release'[h] = release[h]
        /\ \A h \in freed' : release'[h]
        /\ handle_index' \in Int /\ handle_index' >= handle_index
    BY <1>1, <1>4 DEF DispatchInv, DeleteInv, TypeOK
  <2>2. \A h \in Handle : ref[h] = 0 => ref'[h] = 0
    BY <1>6
  <2>3. \A h \in Handle : release[h] => ref'[h] = 0
    BY <2>2 DEF DispatchInv, DeleteInv
  <2> QED BY <1>5, <2>1, <2>2, <2>3, DeleteSame DEF DispatchInv
<1>10. RefCounted'
  <2> SUFFICES ASSUME NEW h \in Handle PROVE ref'[h] = References(h)'
    BY DEF RefCounted
  <2>1. /\ References(h) \in Nat
        /\ References(h)' = References(h)
             + (IF h \in slot' THEN 1 ELSE 0) - (IF h \in slot THEN 1 ELSE 0)
             + (IF h = REMOTE' THEN 1 ELSE 0) - (IF h = REMOTE THEN 1 ELSE 0)
             + Held(w, h)' - Held(w, h)
    BY <1>5, RefStep
  <2>2. /\ CtxRef(w, h)' <=> CtxRef(w, h)
        /\ ~ ObjRef(w, h) /\ ~ ChildRef(w, h)'
        /\ ObjRef(w, h)' <=> ChildRef(w, h)
    BY <1>1, <1>4, <1>5 DEF CtxRef, ObjRef, ChildRef, x
  <2>3. Held(w, h)' = Held(w, h) /\ Held(w, h) \in Nat
    BY <2>2 DEF Held
  <2>4. slot' = slot /\ REMOTE' = x /\ h # REMOTE /\ ref[h] = References(h)
    BY <1>1, <1>3 DEF DispatchInv, RefCounted
  <2>5. ref'[h] = IF h = x THEN ref[h] + 1 ELSE ref[h]
    BY <1>6
  <2> QED BY <2>1, <2>3, <2>4, <2>5
<1>11. OwnInv'
  <2>1. \A h \in Handle : Owned(w, h)' = Owned(w, h)
    BY <1>1, <1>4, <1>5 DEF Owned, QueueOf, SwapOf, ChildOf
  <2> QED BY <1>4, <1>5, <2>1, OwnSame DEF DispatchInv
<1>12. TotalInv'
  <2>1. \A h \in Handle : h # x => ref'[h] = ref[h]
    BY <1>6
  <2>2. ref'[x] > 0
    BY <1>3, <1>6
  <2>3. /\ Cardinality(Live) \in Nat /\ Cardinality(Deleting) \in Nat
        /\ Cardinality(Live)' = Cardinality(Live)
             + (IF ref'[x] > 0 THEN 1 ELSE 0) - (IF ref[x] > 0 THEN 1 ELSE 0)
        /\ Cardinality(Deleting)' = Cardinality(Deleting)
             + (IF pc'[w] \in {"delete", "deleted"} THEN 1 ELSE 0)
             - (IF pc[w] \in {"delete", "deleted"} THEN 1 ELSE 0)
    BY <1>3, <1>5, <2>1, TotalStep
  <2>4. reserved' # NoHandle /\ pc[w] \notin {"delete", "deleted"}
    BY <1>1, <1>3
  <2> QED BY <1>1, <1>5, <1>6, <2>2, <2>3, <2>4 DEF DispatchInv, TotalInv
<1> QED BY <1>7, <1>8, <1>9, <1>10, <1>11, <1>12 DEF DispatchInv

\* skynet_harbor_send pushes to REMOTE's queue without a reference of its own:
\* the queue is there, because REMOTE has one.
LEMMA HarborSendInv ==
    ASSUME DispatchInv, NEW w \in Worker, HarborSend(w)
    PROVE  DispatchInv'
<1> DEFINE x == REMOTE
           m == [id |-> sent + 1, src |-> q[w]]
<1>1. /\ pc[w] = "calling" /\ x # NoHandle /\ sent < MaxMsg /\ sent' = sent + 1
      /\ mq' = [mq EXCEPT ![x] = Append(@, m)]
      /\ in_global' = [in_global EXCEPT ![x] = TRUE]
      /\ globalmq' = IF in_global[x] THEN globalmq ELSE Append(globalmq, x)
      /\ UNCHANGED <<release, freed, ctxVars, nodeVars, pc, callVars, workerVars>>
  BY DEF HarborSend
<1>2. x \in Handle
  BY <1>1 DEF DispatchInv, TypeOK
<1>3. ref[x] > 0 /\ ~release[x] /\ x \notin freed /\ x < handle_index
  <2>1. ref[x] > 0
    BY <1>2, RefUse DEF DispatchInv
  <2> QED BY <1>2, <2>1 DEF DispatchInv, DeleteInv, FreshInv, TypeOK, Handle
<1>4. m \in Message /\ sent' \in 0..MaxMsg
  BY <1>1, DispatchAssumption DEF DispatchInv, TypeOK, Message
<1> HIDE DEF x, m
<1>5. UNCHANGED <<handle_index, slot, ref, init, total, quit, REMOTE, reserved, pc, ret, obj, msg,
                  q, ctx, left, child>>
  BY <1>1 DEF ctxVars, callVars, workerVars
<1>6. RegTypes' /\ Moves(w) /\ w \in Thread /\ CallOf(w)' /\ RegistersOf(w)'
  <2>1. w \in Thread
    BY DEF Thread
  <2>2. RegTypes' /\ Moves(w) /\ CallOf(w)'
    BY <1>5, <2>1 DEF RegTypes, Moves, DispatchInv, TypeOK, PcInv, CallOf
  <2>3. At(w)' = At(w) /\ \A h \in Handle : release[h] => release'[h]
    BY <1>1, <1>5 DEF At
  <2> QED BY <1>5, <2>1, <2>2, <2>3, CallRegisters DEF DispatchInv
<1>7. TypeOK'
  <2>1. globalmq' \in Seq(Handle)
    BY <1>1, <1>2, PlacesAppend DEF DispatchInv, TypeOK
  <2>2. mq' \in [Handle -> Seq(Message)]
    <3>1. Append(mq[x], m) \in Seq(Message)
      BY <1>2, <1>4, AppendProperties DEF DispatchInv, TypeOK
    <3> QED BY <1>1, <3>1 DEF DispatchInv, TypeOK
  <2>3. in_global' \in [Handle -> BOOLEAN]
    BY <1>1 DEF DispatchInv, TypeOK
  <2> QED BY <1>1, <1>4, <1>5, <2>1, <2>2, <2>3 DEF DispatchInv, TypeOK
<1>8. FreshInv' /\ MessageInv'
  <2>1. \A h \in Handle : h >= handle_index => h # x
    BY <1>3 DEF DispatchInv, Handle, TypeOK
  <2>2. /\ \A h \in Handle : h # x => mq'[h] = mq[h] /\ in_global'[h] = in_global[h]
        /\ in_global'[x]
    BY <1>1, <1>2 DEF DispatchInv, TypeOK
  <2> QED BY <1>1, <1>3, <1>5, <2>1, <2>2 DEF DispatchInv, FreshInv, MessageInv
<1>9. PcInv' /\ WorkerInv' /\ DeleteInv' /\ TotalInv'
  <2>1. pc[w] \notin {"delete", "deleted"} /\ pc'[w] \notin {"delete", "deleted"}
    BY <1>1, <1>5
  <2> QED BY <1>1, <1>5, <1>6, <2>1, CalmStep
<1>10. RefCounted'
  <2>1. \A h \in Handle : Held(w, h)' = Held(w, h)
    BY <1>5 DEF Held, CtxRef, ObjRef, ChildRef
  <2> QED BY <1>5, <1>6, <2>1, RefSame DEF DispatchInv
<1>11. OwnInv'
  <2> SUFFICES ASSUME NEW h \in Handle
               PROVE  (IF h \notin freed' /\ (in_global'[h] \/ release'[h]) THEN 1 ELSE 0)
                        = (IF h \notin freed /\ (in_global[h] \/ release[h]) THEN 1 ELSE 0)
                          + (Cardinality(Places(globalmq', h)) - Cardinality(Places(globalmq, h)))
                          + (Owned(w, h)' - Owned(w, h))
    BY <1>6, <1>7, OwnNext DEF DispatchInv, TypeOK
  <2>1. Owned(w, h)' = Owned(w, h) /\ Owned(w, h) \in Nat
    BY <1>5 DEF Owned, QueueOf, SwapOf, ChildOf
  <2>2. /\ Cardinality(Places(globalmq, h)) \in Nat
        /\ Cardinality(Places(globalmq', h)) = Cardinality(Places(globalmq, h))
             + (IF ~in_global[x] /\ x = h THEN 1 ELSE 0)
    BY <1>1, <1>2, PlacesAppend, PlacesFinite DEF DispatchInv, TypeOK
  <2>3. /\ freed' = freed /\ release' = release
        /\ in_global'[h] <=> h = x \/ in_global[h]
    BY <1>1 DEF DispatchInv, TypeOK
  <2> QED BY <1>3, <2>1, <2>2, <2>3
<1> QED BY <1>7, <1>8, <1>9, <1>10, <1>11 DEF DispatchInv

\* The harbor passes a message on.
LEMMA HarborForwardInv ==
    ASSUME DispatchInv, NEW w \in Worker, NEW d \in Handle, NEW s \in Handle, HarborForward(w, d, s)
    PROVE  DispatchInv'
<1>1. /\ pc[w] = "calling" /\ sent < MaxMsg /\ sent' = sent + 1
      /\ msg' = [msg EXCEPT ![w] = [id |-> 0, src |-> s]]
      /\ Call(w, "grabdst", d, "calling")
      /\ UNCHANGED <<mqVars, ctxVars, nodeVars, workerVars>>
  BY DEF HarborForward
<1>2. RegistersAt(w, "calling")
  BY <1>1, HereRegisters DEF InCall
<1>3. sent' \in 0..MaxMsg /\ [id |-> 0, src |-> s] \in Message
  BY <1>1, DispatchAssumption DEF DispatchInv, TypeOK, Message
<1>4. msg' \in [Thread -> Message] /\ \A u \in Thread : u # w => msg'[u] = msg[u]
  BY <1>1, <1>3 DEF DispatchInv, TypeOK
<1>5. FreshInv' /\ MessageInv' /\ mq' \in [Handle -> Seq(Message)]
  BY <1>1 DEF DispatchInv, TypeOK, FreshInv, MessageInv, mqVars, ctxVars
<1>6. UNCHANGED <<globalmq, in_global, release, freed, ctxVars, nodeVars, workerVars>>
  BY <1>1 DEF mqVars
<1> QED BY <1>1, <1>2, <1>3, <1>4, <1>5, <1>6, PushCall

\* skynet_harbor_exit gives REMOTE's reference back, with no thread running.
LEMMA HarborExitInv ==
    ASSUME DispatchInv, HarborExit
    PROVE  DispatchInv'
<1> DEFINE x == REMOTE
<1>1. /\ x # NoHandle /\ \A t \in Thread : pc[t] = "done"
      /\ REMOTE' = NoHandle /\ ref' = [ref EXCEPT ![x] = @ - 1]
      /\ UNCHANGED <<mq, in_global, freed, handle_index, slot, init, quit, reserved, sent, pc, ret, obj, msg,
                     q, ctx, left, child>>
  BY DEF HarborExit, Joined, callVars, workerVars
<1>2. IF ref[x] = 1
      THEN /\ total' = total - 1 /\ release' = [release EXCEPT ![x] = TRUE]
           /\ globalmq' = IF in_global[x] THEN globalmq ELSE Append(globalmq, x)
      ELSE UNCHANGED <<total, release, globalmq>>
  BY DEF HarborExit
<1>3. x \in Handle /\ reserved = x /\ \A h \in Handle : h # NoHandle
  BY <1>1 DEF DispatchInv, TypeOK, Handle, NoHandle
<1>4. /\ ref[x] > 0 /\ ~release[x] /\ x \notin freed /\ x < handle_index
      /\ ref' \in [Handle -> Nat]
      /\ \A h \in Handle : ref[h] \in Nat /\ ref'[h] = IF h = x THEN ref[h] - 1 ELSE ref[h]
  <2>1. ref[x] > 0
    BY <1>3, RefUse DEF DispatchInv
  <2>2. /\ ref' \in [Handle -> Nat]
        /\ \A h \in Handle : ref[h] \in Nat /\ ref'[h] = IF h = x THEN ref[h] - 1 ELSE ref[h]
    BY <1>1, <1>3, <2>1 DEF DispatchInv, TypeOK
  <2> QED BY <1>3, <2>1, <2>2 DEF DispatchInv, DeleteInv, FreshInv, TypeOK, Handle
<1>5. Timer \in Thread /\ Moves(Timer)
  BY <1>1 DEF Thread, Moves
<1> HIDE DEF x
<1>6. globalmq' \in Seq(Handle) /\ release' \in [Handle -> BOOLEAN] /\ total' \in Int
  <2>1. /\ globalmq \in Seq(Handle) /\ Append(globalmq, x) \in Seq(Handle)
        /\ release \in [Handle -> BOOLEAN] /\ total \in Int
    BY <1>3, AppendProperties DEF DispatchInv, TypeOK
  <2>2. CASE ref[x] = 1
    <3>1. /\ total' = total - 1 /\ release' = [release EXCEPT ![x] = TRUE]
          /\ (globalmq' = globalmq \/ globalmq' = Append(globalmq, x))
      BY <1>2, <2>2
    <3>2. release' \in [Handle -> BOOLEAN]
      BY <2>1, <3>1
    <3>3. globalmq' \in Seq(Handle)
      BY <2>1, <3>1
    <3> QED BY <2>1, <3>1, <3>2, <3>3
  <2>3. CASE ref[x] # 1
    BY <1>2, <2>1, <2>3
  <2> QED BY <2>2, <2>3
<1>7. TypeOK' /\ MessageInv'
  BY <1>1, <1>4, <1>6 DEF DispatchInv, TypeOK, MessageInv
<1>8. /\ \A h \in Handle : release'[h] <=> release[h] \/ (h = x /\ ref[x] = 1)
      /\ \A h \in Handle : release[h] => h # x
  BY <1>2, <1>3, <1>4 DEF DispatchInv, TypeOK
<1>9. FreshInv'
  <2>1. \A h \in Handle : h >= handle_index => h # x
    BY <1>4 DEF DispatchInv, Handle, TypeOK
  <2> QED BY <1>1, <1>4, <1>8, <2>1 DEF DispatchInv, FreshInv
<1>10. PcInv' /\ WorkerInv'
  <2>1. PcInv'
    BY <1>1 DEF DispatchInv, PcInv, CallOf
  <2>2. ASSUME NEW w \in Worker PROVE RegistersOf(w)'
    <3>1. At(w)' = At(w) /\ \A h \in Handle : release[h] => release'[h]
      BY <1>1, <1>8 DEF At
    <3> QED BY <1>1, <3>1, CallRegisters DEF DispatchInv
  <2> QED BY <2>1, <2>2 DEF WorkerInv
<1>11. DeleteInv'
  <2>1. \A t \in Thread : pc'[t] = "done"
    BY <1>1
  <2>2. \A h \in Handle : release'[h] => ref'[h] = 0
    BY <1>4, <1>8 DEF DispatchInv, DeleteInv
  <2>3. \A h \in freed' : release'[h]
    BY <1>1, <1>8 DEF DispatchInv, DeleteInv, TypeOK
  <2> QED BY <2>1, <2>2, <2>3 DEF DeleteInv
<1>12. RefCounted'
  <2> SUFFICES ASSUME NEW h \in Handle PROVE ref'[h] = References(h)'
    BY DEF RefCounted
  <2>1. /\ References(h) \in Nat
        /\ References(h)' = References(h)
             + (IF h \in slot' THEN 1 ELSE 0) - (IF h \in slot THEN 1 ELSE 0)
             + (IF h = REMOTE' THEN 1 ELSE 0) - (IF h = REMOTE THEN 1 ELSE 0)
             + Held(Timer, h)' - Held(Timer, h)
    BY <1>5, RefStep
  <2>2. Held(Timer, h)' = Held(Timer, h) /\ Held(Timer, h) \in Nat
    BY <1>1 DEF Held, CtxRef, ObjRef, ChildRef
  <2>3. slot' = slot /\ h # REMOTE' /\ REMOTE = x /\ ref[h] = References(h)
    BY <1>1, <1>3 DEF DispatchInv, RefCounted, x
  <2>4. ref'[h] = IF h = x THEN ref[h] - 1 ELSE ref[h]
    BY <1>4
  <2> QED BY <2>1, <2>2, <2>3, <2>4
<1>13. OwnInv'
  <2> SUFFICES ASSUME NEW h \in Handle
               PROVE  (IF h \notin freed' /\ (in_global'[h] \/ release'[h]) THEN 1 ELSE 0)
                        = (IF h \notin freed /\ (in_global[h] \/ release[h]) THEN 1 ELSE 0)
                          + (Cardinality(Places(globalmq', h)) - Cardinality(Places(globalmq, h)))
                          + (Owned(Timer, h)' - Owned(Timer, h))
    BY <1>5, <1>6, OwnNext DEF DispatchInv, TypeOK
  <2>1. Owned(Timer, h)' = Owned(Timer, h) /\ Owned(Timer, h) \in Nat
    BY <1>1 DEF Owned, QueueOf, SwapOf, ChildOf
  <2>2. /\ Cardinality(Places(globalmq, h)) \in Nat
        /\ Cardinality(Places(globalmq', h)) = Cardinality(Places(globalmq, h))
             + (IF ref[x] = 1 /\ ~in_global[x] /\ x = h THEN 1 ELSE 0)
    <3>1. globalmq \in Seq(Handle) /\ Cardinality(Places(globalmq, h)) \in Nat
      BY PlacesFinite DEF DispatchInv, TypeOK
    <3>2. CASE ref[x] = 1 /\ ~in_global[x]
      <4>1. globalmq' = Append(globalmq, x)
        BY <1>2, <3>2
      <4> QED BY <1>3, <3>1, <3>2, <4>1, PlacesAppend
    <3>3. CASE ~(ref[x] = 1 /\ ~in_global[x])
      <4>1. globalmq' = globalmq
        BY <1>2, <3>3
      <4> QED BY <3>1, <3>3, <4>1
    <3> QED BY <3>2, <3>3
  <2>3. freed' = freed /\ in_global' = in_global
    BY <1>1
  <2> QED BY <1>4, <1>8, <2>1, <2>2, <2>3
<1>14. TotalInv'
  <2>1. \A h \in Handle : h # x => ref'[h] = ref[h]
    BY <1>4
  <2>2. /\ Cardinality(Live) \in Nat /\ Cardinality(Deleting) \in Nat
        /\ Cardinality(Live)' = Cardinality(Live)
             + (IF ref'[x] > 0 THEN 1 ELSE 0) - (IF ref[x] > 0 THEN 1 ELSE 0)
        /\ Cardinality(Deleting)' = Cardinality(Deleting)
             + (IF pc'[Timer] \in {"delete", "deleted"} THEN 1 ELSE 0)
             - (IF pc[Timer] \in {"delete", "deleted"} THEN 1 ELSE 0)
    BY <1>3, <1>5, <2>1, TotalStep
  <2>3. pc'[Timer] = pc[Timer] /\ reserved' = reserved
    BY <1>1
  <2>4. ref'[x] = ref[x] - 1 /\ ref[x] \in Nat
    BY <1>3, <1>4
  <2>5. total' = IF ref[x] = 1 THEN total - 1 ELSE total
    BY <1>2
  <2> QED BY <1>4, <2>2, <2>3, <2>4, <2>5 DEF DispatchInv, TotalInv
<1> QED BY <1>7, <1>9, <1>10, <1>11, <1>12, <1>13, <1>14 DEF DispatchInv

\* The timer thread pushes a message as a worker does.
LEMMA TimerPushInv ==
    ASSUME DispatchInv, NEW d \in Handle, TimerPush(d)
    PROVE  DispatchInv'
<1>1. /\ pc[Timer] = "tick" /\ sent < MaxMsg /\ sent' = sent + 1
      /\ msg' = [msg EXCEPT ![Timer] = [id |-> sent + 1, src |-> NoHandle]]
      /\ Call(Timer, "grabdst", d, "tick")
      /\ UNCHANGED <<mqVars, ctxVars, nodeVars, workerVars>>
  BY DEF TimerPush
<1>2. Timer \in Thread /\ Timer \notin Worker /\ RegTypes
  BY DispatchAssumption DEF Thread, RegTypes, DispatchInv, TypeOK, PcInv
<1>3. sent' \in 0..MaxMsg /\ [id |-> sent + 1, src |-> NoHandle] \in Message
  BY <1>1, DispatchAssumption DEF DispatchInv, TypeOK, Message
<1>4. msg' \in [Thread -> Message] /\ \A u \in Thread : u # Timer => msg'[u] = msg[u]
  BY <1>1, <1>3 DEF DispatchInv, TypeOK
<1>5. /\ pc' \in [Thread -> Location] /\ ret' \in [Thread -> Location]
      /\ obj' \in [Thread -> Handle \cup {NoHandle}]
      /\ pc'[Timer] = "grabdst" /\ obj'[Timer] = d /\ ret'[Timer] = "tick"
      /\ \A u \in Thread : u # Timer => pc'[u] = pc[u] /\ obj'[u] = obj[u] /\ ret'[u] = ret[u]
  <2>1. "grabdst" \in Location /\ "tick" \in Location
    BY DEF Location, InCall
  <2> QED BY <1>1, <1>2, <2>1, CallEffect
<1>6. RegTypes' /\ Moves(Timer) /\ CallOf(Timer)'
  BY <1>1, <1>2, <1>4, <1>5 DEF RegTypes, Moves, CallOf, InCall, Handle, NoHandle, workerVars
<1>7. TypeOK' /\ FreshInv' /\ MessageInv'
  BY <1>1, <1>3, <1>6
  DEF DispatchInv, TypeOK, RegTypes, FreshInv, MessageInv, mqVars, ctxVars, workerVars
<1>8. PcInv' /\ WorkerInv' /\ DeleteInv' /\ TotalInv'
  <2>1. UNCHANGED <<release, freed, handle_index, ref, total, reserved>>
    BY <1>1 DEF mqVars, ctxVars
  <2> QED BY <1>1, <1>2, <1>5, <1>6, <2>1, CalmStep
<1>9. RefCounted'
  <2>1. \A h \in Handle : Held(Timer, h)' = Held(Timer, h)
    BY <1>1, <1>2, <1>5 DEF Held, CtxRef, ObjRef, ChildRef
  <2>2. UNCHANGED <<ref, slot, REMOTE>>
    BY <1>1 DEF ctxVars
  <2> QED BY <1>2, <1>6, <2>1, <2>2, RefSame DEF DispatchInv
<1>10. OwnInv'
  <2>1. \A h \in Handle : Owned(Timer, h)' = Owned(Timer, h)
    BY <1>2 DEF Owned, QueueOf, SwapOf, ChildOf
  <2>2. UNCHANGED <<globalmq, in_global, release, freed>>
    BY <1>1 DEF mqVars
  <2> QED BY <1>2, <1>6, <2>1, <2>2, OwnSame DEF DispatchInv
<1> QED BY <1>7, <1>8, <1>9, <1>10 DEF DispatchInv

\* CHECK_ABORT and the broadcast: the sleeping workers are woken, and nobody's
\* references or queues change.
LEMMA TimerQuitInv ==
    ASSUME DispatchInv, TimerQuit
    PROVE  DispatchInv'
<1>1. /\ pc[Timer] = "tick" /\ quit' = TRUE
      /\ pc' = [t \in Thread |-> CASE t = Timer -> "done" [] t \in Waiting -> "woken" [] OTHER -> pc[t]]
      /\ UNCHANGED <<mqVars, ctxVars, REMOTE, reserved, sent, callVars, workerVars>>
  BY DEF TimerQuit
<1>2. Timer \in Thread /\ Timer \notin Worker
  BY DispatchAssumption DEF Thread
<1>3. pc'[Timer] = "done"
  <2>1. pc'[Timer] = CASE Timer = Timer -> "done" [] Timer \in Waiting -> "woken" [] OTHER -> pc[Timer]
    BY <1>1, <1>2
  <2>2. Timer \notin Waiting
    BY <1>2 DEF Waiting
  <2> QED BY <2>1, <2>2
<1>4. \A w \in Worker : pc'[w] = IF pc[w] = "waiting" THEN "woken" ELSE pc[w]
  BY <1>1, <1>2 DEF Thread, Waiting
<1>5. \A t \in Thread : pc'[t] = pc[t] \/ (pc[t] \in {"tick", "waiting"} /\ pc'[t] \in {"done", "woken"})
  BY <1>1, <1>3, <1>4 DEF Thread
<1>6. pc' \in [Thread -> Location]
  <2>1. "done" \in Location /\ "woken" \in Location /\ pc \in [Thread -> Location]
    BY DEF Location, WorkerAt, Outside, HasNoQueue, DispatchInv, PcInv
  <2> QED BY <1>1, <2>1
<1>7. TypeOK' /\ FreshInv' /\ MessageInv'
  BY <1>1 DEF DispatchInv, TypeOK, FreshInv, MessageInv, mqVars, ctxVars, callVars, workerVars
<1>8. PcInv'
  <2>1. ASSUME NEW t \in Thread PROVE CallOf(t)'
    <3>1. CallOf(t) /\ obj'[t] = obj[t] /\ ret'[t] = ret[t] /\ child' = child
      BY <1>1 DEF DispatchInv, PcInv, callVars, workerVars
    <3>2. CASE t = Timer
      BY <1>2, <1>3, <3>1, <3>2 DEF CallOf, InCall
    <3>3. CASE t \in Worker
      BY <1>2, <1>4, <3>1, <3>3 DEF CallOf, InCall
    <3> QED BY <3>2, <3>3 DEF Thread
  <2> QED BY <1>1, <1>6, <2>1 DEF DispatchInv, PcInv, callVars
<1>9. WorkerInv'
  <2> SUFFICES ASSUME NEW w \in Worker PROVE RegistersOf(w)'
    BY DEF WorkerInv
  <2>1. RegistersOf(w) /\ Dead(w)' = Dead(w) /\ UNCHANGED <<q, ctx, child, release, ret>>
    BY <1>1 DEF DispatchInv, WorkerInv, Dead, workerVars, mqVars, callVars
  <2>2. CASE pc[w] = "waiting"
    <3>1. At(w) = "waiting" /\ At(w)' = "woken"
      BY <1>4, <2>2 DEF At, InCall
    <3> QED BY <2>1, <3>1 DEF RegistersOf, RegistersAt, InDispatch, InLaunch, InDrop, Outside, HasNoQueue
  <2>3. CASE pc[w] # "waiting"
    <3>1. At(w)' = At(w)
      BY <1>4, <2>1, <2>3 DEF At
    <3> QED BY <2>1, <3>1 DEF RegistersOf, RegistersAt
  <2> QED BY <2>2, <2>3
<1>10. \A t \in Thread : \A l \in InCall \cup {"pushback", "init", "inited"} : pc'[t] = l <=> pc[t] = l
  BY <1>5 DEF InCall
<1>11. DeleteInv'
  BY <1>1, <1>10 DEF DispatchInv, DeleteInv, InCall, mqVars, ctxVars, callVars
<1>12. RefCounted'
  <2> SUFFICES ASSUME NEW h \in Handle PROVE References(h)' = References(h) /\ ref' = ref
    BY DEF DispatchInv, RefCounted
  <2>1. UNCHANGED <<slot, REMOTE, ref, ctx, obj, ret, child>>
    BY <1>1 DEF ctxVars, callVars, workerVars
  <2>2. {t \in Thread : obj[t] = h /\ pc'[t] \in {"push", "release"}}
          = {t \in Thread : obj[t] = h /\ pc[t] \in {"push", "release"}}
    BY <1>10 DEF InCall
  <2>3. {w \in Worker : child[w] = h /\
          \/ pc'[w] \in {"init", "inited"}
          \/ pc'[w] \in {"grabdst", "push", "release"} /\ ret[w] = "inited"}
        = {w \in Worker : child[w] = h /\
          \/ pc[w] \in {"init", "inited"}
          \/ pc[w] \in {"grabdst", "push", "release"} /\ ret[w] = "inited"}
    BY <1>10 DEF InCall, Thread
  <2> QED BY <2>1, <2>2, <2>3 DEF References
<1>13. OwnInv'
  <2> SUFFICES ASSUME NEW h \in Handle PROVE Owners(h)' = Owners(h)
    BY <1>1 DEF DispatchInv, OwnInv, mqVars
  <2>1. UNCHANGED <<globalmq, q, obj, child>>
    BY <1>1 DEF mqVars, callVars, workerVars
  <2>2. {w \in Worker : pc'[w] = "pushback" /\ obj[w] = h} = {w \in Worker : pc[w] = "pushback" /\ obj[w] = h}
    BY <1>10 DEF Thread
  <2> QED BY <2>1, <2>2 DEF Owners
<1>14. TotalInv'
  <2>1. Deleting' = Deleting
    BY <1>10 DEF Deleting, InCall
  <2>2. Live' = Live /\ total' = total /\ reserved' = reserved
    BY <1>1 DEF Live, ctxVars
  <2> QED BY <2>1, <2>2 DEF DispatchInv, TotalInv
<1> QED BY <1>7, <1>8, <1>9, <1>11, <1>12, <1>13, <1>14 DEF DispatchInv

\* Nothing happens.
LEMMA StutterInv ==
    ASSUME DispatchInv, UNCHANGED vars
    PROVE  DispatchInv'
<1>1. UNCHANGED <<globalmq, mq, in_global, release, freed, handle_index, slot, ref, init, total, nodeVars, sent,
                  pc, ret, obj, msg, q, ctx, left, child>>
  BY DEF vars, mqVars, ctxVars, callVars, workerVars
<1>2. TypeOK' /\ PcInv' /\ FreshInv' /\ DeleteInv' /\ MessageInv'
  BY <1>1 DEF DispatchInv, TypeOK, PcInv, CallOf, FreshInv, DeleteInv, MessageInv
<1>3. WorkerInv'
  BY <1>1 DEF DispatchInv, WorkerInv, RegistersOf, RegistersAt, At, Dead
<1>4. RefCounted'
  BY <1>1 DEF DispatchInv, RefCounted, References
<1>5. OwnInv'
  BY <1>1 DEF DispatchInv, OwnInv, Owners
<1>6. TotalInv'
  BY <1>1 DEF DispatchInv, TotalInv, Live, Deleting
<1> QED BY <1>2, <1>3, <1>4, <1>5, <1>6 DEF DispatchInv

\* skynet_start: the services launched before the threads start.
LEMMA InitInv == Init => DispatchInv
<1> SUFFICES ASSUME Init PROVE DispatchInv
  OBVIOUS
<1>1. /\ NBoot \in Nat /\ NBoot >= 1 /\ MaxHandle \in Nat /\ NBoot <= MaxHandle /\ MaxMsg \in Nat
      /\ Timer \notin Worker
  BY DispatchAssumption
<1>2. \A h \in Handle : h \in Nat /\ h # NoHandle
  BY <1>1 DEF Handle, NoHandle
<1>3. NBoot \in Handle /\ 1..NBoot \subseteq Handle
  BY <1>1 DEF Handle
<1>4. globalmq \in Seq(Handle) /\ DOMAIN globalmq = 1..NBoot /\ \A i \in 1..NBoot : globalmq[i] = i
  <2>1. globalmq \in [1..NBoot -> Handle]
    BY <1>3 DEF Init
  <2>2. globalmq \in Seq(Handle)
    BY <1>1, <2>1, IsASeq
  <2> QED BY <2>2 DEF Init
<1>5. TypeOK
  <2>1. [id |-> 0, src |-> NBoot] \in Message /\ NoMessage \in Message
    BY <1>1, <1>3, NoMessageType DEF Message
  <2>2. <<[id |-> 0, src |-> NBoot]>> \in Seq(Message) /\ <<>> \in Seq(Message)
    BY <2>1
  <2>3. mq \in [Handle -> Seq(Message)]
    BY <2>2 DEF Init
  <2>4. handle_index \in 1..(MaxHandle + 1) /\ total \in Int /\ sent \in 0..MaxMsg /\ ref \in [Handle -> Nat]
    BY <1>1 DEF Init
  <2>5. /\ in_global \in [Handle -> BOOLEAN] /\ release \in [Handle -> BOOLEAN]
        /\ freed \subseteq Handle /\ slot \subseteq Handle /\ init \subseteq Handle /\ quit \in BOOLEAN
        /\ reserved = NoHandle /\ REMOTE = NoHandle
    <3>1. \A h \in Handle : (h <= NBoot) \in BOOLEAN
      OBVIOUS
    <3>2. in_global = [h \in Handle |-> h <= NBoot] /\ release = [h \in Handle |-> FALSE]
      BY DEF Init
    <3>3. in_global \in [Handle -> BOOLEAN] /\ release \in [Handle -> BOOLEAN]
      BY <3>1, <3>2
    <3> QED BY <1>3, <3>3 DEF Init
  <2>6. /\ obj \in [Thread -> Handle \cup {NoHandle}] /\ msg \in [Thread -> Message]
        /\ {q, ctx, child} \subseteq [Worker -> Handle \cup {NoHandle}] /\ left \in [Worker -> Nat]
    BY <2>1 DEF Init
  <2> QED BY <1>4, <2>3, <2>4, <2>5, <2>6 DEF TypeOK
<1>6. PcInv
  <2>1. "tick" \in Location /\ "loop" \in Location
    BY DEF Location, WorkerAt, Outside
  <2>2. pc \in [Thread -> Location] /\ ret \in [Thread -> Location]
    BY <2>1 DEF Init
  <2>3. \A t \in Thread : CallOf(t)
    BY <1>1 DEF Init, CallOf, InCall
  <2> QED BY <2>2, <2>3 DEF PcInv
<1>7. \A w \in Worker : pc[w] = "loop" /\ q[w] = NoHandle /\ ctx[w] = NoHandle /\ child[w] = NoHandle
  BY <1>1 DEF Init, Thread
<1>8. WorkerInv
  <2> SUFFICES ASSUME NEW w \in Worker PROVE RegistersAt(w, "loop")
    BY <1>7 DEF WorkerInv, RegistersOf, At, InCall
  <2> QED BY <1>7 DEF RegistersAt, InDispatch, InLaunch, InDrop, Outside, HasNoQueue
<1>9. \A t \in Thread : pc[t] \in {"tick", "loop"} /\ obj[t] = NoHandle
  BY DEF Init
<1>10. FreshInv
  <2> SUFFICES ASSUME NEW h \in Handle, h >= handle_index
               PROVE  /\ ~in_global[h] /\ ~release[h] /\ mq[h] = <<>> /\ h \notin freed
                      /\ ref[h] = 0 /\ h \notin slot /\ h \notin init
    BY DEF FreshInv
  <2>1. h \in Nat /\ ~ (h <= NBoot) /\ h # NBoot /\ h \notin 1..NBoot
    BY <1>1, <1>2 DEF Init
  <2>2. (in_global[h] <=> h <= NBoot) /\ ~release[h]
    BY DEF Init
  <2> QED BY <2>1, <2>2 DEF Init
<1>11. DeleteInv
  BY <1>9 DEF Init, DeleteInv
<1>12. MessageInv
  <2> SUFFICES ASSUME NEW h \in Handle, mq[h] # <<>> PROVE in_global[h] /\ h \notin freed
    BY DEF MessageInv
  <2>1. h = NBoot
    BY DEF Init
  <2>2. h <= NBoot
    BY <1>1, <2>1
  <2>3. in_global[h] <=> h <= NBoot
    BY DEF Init
  <2> QED BY <2>2, <2>3 DEF Init
<1>13. RefCounted
  <2> SUFFICES ASSUME NEW h \in Handle PROVE ref[h] = References(h)
    BY DEF RefCounted
  <2>1. {w \in Worker : ctx[w] = h} = {}
    BY <1>2, <1>7
  <2>2. {t \in Thread : obj[t] = h /\ pc[t] \in {"push", "release"}} = {}
    BY <1>9
  <2>3. {w \in Worker : child[w] = h /\
          \/ pc[w] \in {"init", "inited"}
          \/ pc[w] \in {"grabdst", "push", "release"} /\ ret[w] = "inited"} = {}
    BY <1>7
  <2>4. ref[h] = (IF h \in slot THEN 1 ELSE 0) /\ h # REMOTE
    BY <1>1, <1>2 DEF Init, Handle
  <2> QED BY <2>1, <2>2, <2>3, <2>4, FS_EmptySet DEF References
<1>14. OwnInv
  <2> SUFFICES ASSUME NEW h \in Handle
               PROVE  Owners(h) = IF h \notin freed /\ (in_global[h] \/ release[h]) THEN 1 ELSE 0
    BY DEF OwnInv
  <2>1. {w \in Worker : q[w] = h} = {} /\ {w \in Worker : child[w] = h} = {}
    BY <1>2, <1>7
  <2>2. {w \in Worker : pc[w] = "pushback" /\ obj[w] = h} = {}
    BY <1>7
  <2>3. {i \in DOMAIN globalmq : globalmq[i] = h} = IF h <= NBoot THEN {h} ELSE {}
    BY <1>1, <1>4 DEF Handle
  <2>4. (h \notin freed /\ (in_global[h] \/ release[h])) <=> h <= NBoot
    BY DEF Init
  <2>5. Cardinality({i \in DOMAIN globalmq : globalmq[i] = h}) = IF h <= NBoot THEN 1 ELSE 0
    BY <2>3, FS_EmptySet, FS_Singleton
  <2> QED BY <2>1, <2>2, <2>4, <2>5, FS_EmptySet DEF Owners
<1>15. TotalInv
  <2>1. Live = 1..NBoot
    BY <1>1, <1>2, <1>3 DEF Live, Init, Handle
  <2>2. Deleting = {}
    BY <1>9 DEF Deleting
  <2>3. Cardinality(Live) = NBoot
    BY <1>1, <2>1, FS_Interval
  <2> QED BY <1>1, <2>2, <2>3, FS_EmptySet DEF TotalInv, Init
<1> QED BY <1>5, <1>6, <1>8, <1>10, <1>11, <1>12, <1>13, <1>14, <1>15 DEF DispatchInv

\* Every step of the node preserves the invariant.
LEMMA StepInv ==
    ASSUME DispatchInv, [Next]_vars
    PROVE  DispatchInv'
<1>1. ASSUME NEW t \in Thread, ThreadStep(t) PROVE DispatchInv'
  BY <1>1, ReleaseInv, MarkReleaseInv, ContextDecInv, PushGrabInv, MqPushInv DEF ThreadStep
<1>2. ASSUME NEW w \in Worker, Callback(w) PROVE DispatchInv'
  BY <1>2, CallbackReturnInv, SendInv, KillInv, LaunchInv, InitSendInv, InitEndInv,
     LaunchSetInitInv, LaunchEnqueueInv, LaunchRetireInv, HarborStartInv, HarborSendInv, HarborForwardInv
  DEF Callback
<1>3. ASSUME NEW w \in Worker, WorkerStep(w) PROVE DispatchInv'
  <2>1. w \in Thread
    BY DEF Thread
  <2> QED BY <1>1, <1>2, <1>3, <2>1, LoopInv, GlobalPopInv, GrabInv, MqPopMessageInv, MqPopEmptyInv,
             MqLengthInv, SwapPopInv, SwapPushInv, MqReleaseInv, DropInv, DropEndInv, SleepInv
          DEF WorkerStep
<1>4. ASSUME NEW w \in Worker, SpuriousWake(w) PROVE DispatchInv'
  BY <1>4, SleepInv
<1>5. ASSUME TimerStep PROVE DispatchInv'
  <2>1. Timer \in Thread
    BY DEF Thread
  <2> QED BY <1>1, <1>5, <2>1, TimerPushInv, TimerWakeupInv, TimerQuitInv DEF TimerStep
<1>6. ASSUME UNCHANGED vars PROVE DispatchInv'
  BY <1>6, StutterInv
<1> QED BY <1>3, <1>4, <1>5, <1>6, HarborExitInv DEF Next, Exit

-----------------------------------------------------------------------------
(* What the invariant shows                                                *)

\* The inductive invariant: exact counts, one owner of each queue, and the
\* registers that each place in the code needs.
THEOREM Inductive == Spec => []DispatchInv
<1>1. Init => DispatchInv
  BY InitInv
<1>2. DispatchInv /\ [Next]_vars => DispatchInv'
  BY StepInv
<1> QED BY <1>1, <1>2, PTL DEF Spec

\* Every variable keeps its type: no reference count goes below zero, no queue index or
\* handle is out of range, and a null context is never counted.
THEOREM TypeCorrect == Spec => []TypeOK
<1>1. DispatchInv => TypeOK
  BY DEF DispatchInv
<1> QED BY <1>1, Inductive, PTL

\* skynet_context_grab and skynet_context_release pair up on every path: a
\* context's count is the number of its users.
THEOREM CountsExact == Spec => []RefCounted
<1>1. DispatchInv => RefCounted
  BY DEF DispatchInv
<1> QED BY <1>1, Inductive, PTL

\* A queue with work, or one that is to be freed, is in one place; no other is
\* in any (skynet_globalmq_push's assert(queue->next == NULL)).
THEOREM QueueOwnedOnce == Spec => []OwnedOnce
<1>1. DispatchInv => OwnedOnce
  <2> SUFFICES ASSUME DispatchInv, NEW h \in Launched
               PROVE  /\ Owners(h) = IF h \notin freed /\ (in_global[h] \/ release[h]) THEN 1 ELSE 0
                      /\ mq[h] # <<>> => Owners(h) = 1
    BY DEF OwnedOnce
  <2>1. h \in Handle
    BY DispatchAssumption DEF Launched, DispatchInv, TypeOK, Handle
  <2> QED BY <2>1 DEF DispatchInv, OwnInv, MessageInv
<1> QED BY <1>1, Inductive, PTL

\* CHECKCALLING: a service's callback or init never runs in two threads.
THEOREM RunsAlone == Spec => []OneThreadPerService
<1>1. DispatchInv => OneThreadPerService
  <2> SUFFICES ASSUME DispatchInv, NEW v \in Worker, NEW w \in Worker,
                      Running(v) # NoHandle, Running(v) = Running(w)
               PROVE  v = w
    BY DEF OneThreadPerService
  <2>1. Running(v) \in Handle
    BY DEF Running, DispatchInv, TypeOK
  <2>2. Has(v, Running(v)) /\ Has(w, Running(v))
    BY DEF Running, Has, QueueOf, ChildOf
  <2> QED BY <2>1, <2>2, SoleOwner DEF DispatchInv, TypeOK
<1> QED BY <1>1, Inductive, PTL

\* No thread touches a freed queue or a deleted context.
THEOREM NothingFreedIsUsed == Spec => []NoUseAfterFree
<1>1. DispatchInv => NoUseAfterFree
  <2>5. ASSUME DispatchInv, REMOTE # NoHandle PROVE ref[REMOTE] > 0 /\ REMOTE \notin freed
    <3>1. REMOTE \in Handle
      BY <2>5 DEF DispatchInv, TypeOK
    <3>2. ref[REMOTE] > 0
      BY <2>5, <3>1, RefUse DEF DispatchInv
    <3> QED BY <2>5, <3>1, <3>2 DEF DispatchInv, DeleteInv
  <2> SUFFICES ASSUME DispatchInv, NEW t \in Thread
               PROVE  /\ UsedQueues(t) \cap freed = {}
                      /\ \A h \in UsedContexts(t) : ref[h] > 0
    BY <2>5 DEF NoUseAfterFree
  <2> USE DEF DispatchInv
  <2>1. ASSUME t \in Worker, pc[t] \notin InCall PROVE RegistersAt(t, pc[t])
    BY <2>1, HereRegisters
  <2>2. ASSUME pc[t] \in InCall PROVE obj[t] \in Handle
    BY <2>2 DEF PcInv, CallOf, TypeOK
  <2>3. ASSUME NEW h \in UsedQueues(t) PROVE h \notin freed
    <3>1. CASE pc[t] \in {"push", "delete"}
      <4>1. h = obj[t] /\ h \in Handle
        BY <2>2, <2>3, <3>1 DEF UsedQueues, InCall
      <4>2. ~release[h]
        <5>1. CASE pc[t] = "push"
          <6>1. ref[h] > 0
            BY <4>1, <5>1, RefUse DEF ObjRef
          <6> QED BY <4>1, <6>1 DEF DeleteInv
        <5>2. CASE pc[t] = "delete"
          BY <4>1, <5>2 DEF DeleteInv
        <5> QED BY <3>1, <5>1, <5>2
      <4> QED BY <4>1, <4>2 DEF DeleteInv
    <3>2. CASE pc[t] \notin {"push", "delete"}
      <4>1. t \in Worker /\ pc[t] \notin InCall /\ h # NoHandle /\ (h = q[t] \/ h = child[t])
        <5>1. t \in Worker /\ pc[t] \in InDispatch \cup InDrop \cup {"grab"}
          BY <2>3, <3>2 DEF UsedQueues, InDispatch, InDrop, InLaunch
        <5>2. pc[t] \notin InCall
          BY <5>1 DEF InCall, InDispatch, InDrop, InLaunch
        <5>3. RegistersAt(t, pc[t])
          BY <2>1, <5>1, <5>2
        <5> QED BY <2>3, <3>2, <5>1, <5>2, <5>3
                DEF UsedQueues, RegistersAt, InDispatch, InDrop, InLaunch, Dead
      <4>2. h \in Handle /\ Has(t, h)
        BY <4>1 DEF Has, QueueOf, ChildOf, TypeOK
      <4> QED BY <4>1, <4>2, HasLaunched
    <3> QED BY <3>1, <3>2
  <2>4. ASSUME NEW h \in UsedContexts(t) PROVE ref[h] > 0
    <3>1. CASE pc[t] \in {"push", "release"}
      BY <2>2, <2>4, <3>1, RefUse DEF UsedContexts, InCall, ObjRef
    <3>2. CASE t \in Worker /\ pc[t] \in {"first", "more", "length", "calling", "swap", "pushback"}
      <4>1. RegistersAt(t, pc[t]) /\ h = q[t]
        BY <2>1, <2>4, <3>2 DEF InCall, UsedContexts
      <4>2. h \in Handle /\ CtxRef(t, h)
        BY <3>2, <4>1 DEF RegistersAt, InDispatch, CtxRef, TypeOK
      <4> QED BY <4>2, RefUse
    <3>3. CASE t \in Worker /\ pc[t] \in {"init", "inited"}
      <4>1. RegistersAt(t, pc[t]) /\ h = child[t]
        BY <2>1, <2>4, <3>3 DEF InCall, UsedContexts
      <4>2. h \in Handle /\ ChildRef(t, h)
        BY <3>3, <4>1 DEF RegistersAt, InDispatch, InLaunch, ChildRef, TypeOK
      <4> QED BY <4>2, RefUse
    <3>4. CASE t \in Worker /\ pc[t] = "launched"
      <4>1. h \in slot /\ h \in Handle
        BY <2>4, <3>4 DEF UsedContexts, TypeOK
      <4> QED BY <4>1, RefUse
    <3> QED BY <2>4, <3>1, <3>2, <3>3, <3>4 DEF UsedContexts
  <2> QED BY <2>3, <2>4
<1> QED BY <1>1, Inductive, PTL
=============================================================================
