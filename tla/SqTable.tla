-------------------------------- MODULE SqTable --------------------------------
(***************************************************************************)
(* The table of serial queues ("sq") a service keeps, one per id:          *)
(* serviceCenterBase2.getSq/delSq and playerDataCenter.getSq/delSq.  Each  *)
(* queue is a skynet.queue, used here through what SkynetQueue proves of   *)
(* it: a first-come-first-served line whose head runs.                     *)
(*                                                                         *)
(* delSq takes a queue out of the table without looking whether somebody   *)
(* holds it or waits for it.  Such a queue lives on as an orphan, served   *)
(* to its end by the coroutines that are in it, while the next getSq       *)
(* creates a fresh queue for the same id.  Deleting an idle queue has no   *)
(* visible effect.                                                         *)
(***************************************************************************)
EXTENDS Naturals, Sequences

CONSTANTS
    Key,       \* the ids that have a queue
    Thread     \* the coroutines of the service

VARIABLES
    line,      \* line[k]: the queue the table holds for k, its head running
    orphan     \* orphan[k]: queues of k dropped from the table while in use

SqInit ==
    /\ line = [k \in Key |-> <<>>]
    /\ orphan = [k \in Key |-> {}]

\* t is at the head of the queue it called for k: its function is running.
Holds(t, k) ==
    \/ line[k] # <<>> /\ Head(line[k]) = t
    \/ \E q \in orphan[k] : Head(q) = t

\* A fault: the newcomer is served first.
EnterFront(t, k) ==
    /\ line' = [line EXCEPT ![k] = <<t>> \o @]
    /\ UNCHANGED orphan

\* getSq(k)(f): find or create the queue of k and call it.
Enter(t, k) ==
    /\ line' = [line EXCEPT ![k] = Append(@, t)]
    /\ UNCHANGED orphan

\* A fault: a queue dropped from the table forgets its waiters.
ExitForgets(t, k) ==
    \/ /\ line[k] # <<>> /\ Head(line[k]) = t
       /\ line' = [line EXCEPT ![k] = Tail(@)]
       /\ UNCHANGED orphan
    \/ \E q \in orphan[k] :
          /\ Head(q) = t
          /\ orphan' = [orphan EXCEPT ![k] = @ \ {q}]
          /\ UNCHANGED line

\* The function passed to the queue returned or failed.
Exit(t, k) ==
    \/ /\ line[k] # <<>> /\ Head(line[k]) = t
       /\ line' = [line EXCEPT ![k] = Tail(@)]
       /\ UNCHANGED orphan
    \/ \E q \in orphan[k] :
          /\ Head(q) = t
          /\ orphan' = [orphan EXCEPT ![k] =
                          (@ \ {q}) \cup IF Len(q) = 1 THEN {} ELSE {Tail(q)}]
          /\ UNCHANGED line

\* delSq for every id in K.
DelSq(K) ==
    /\ line' = [k \in Key |-> IF k \in K THEN <<>> ELSE line[k]]
    /\ orphan' = [k \in Key |-> IF k \in K /\ line[k] # <<>>
                                THEN orphan[k] \cup {line[k]} ELSE orphan[k]]

SqTypeOK ==
    /\ line \in [Key -> Seq(Thread)]
    /\ orphan \in [Key -> SUBSET (Seq(Thread) \ {<<>>})]
================================================================================
