------------------------------ MODULE SerialQueue ------------------------------
(***************************************************************************)
(* What skynet.queue() promises to the services that use it: the functions *)
(* passed to one queue run one at a time, in the order in which they were  *)
(* passed.  `line' holds the coroutines that have called the queue and not *)
(* yet left it; its head is the one whose function is running (or is about *)
(* to be resumed), the others wait.                                        *)
(***************************************************************************)
EXTENDS Naturals, Sequences

CONSTANT Thread      \* the coroutines of the service

VARIABLE line

InLine(t) == \E i \in 1..Len(line) : line[i] = t

SerialInit == line = <<>>

\* A coroutine that is not in the line joins at its end.
Arrive(t) == ~InLine(t) /\ line' = Append(line, t)

\* Only the head leaves, and the next coroutine becomes the head.
Leave(t) == line # <<>> /\ Head(line) = t /\ line' = Tail(line)

SerialNext == \E t \in Thread : Arrive(t) \/ Leave(t)

SerialSpec == SerialInit /\ [][SerialNext]_line
================================================================================
