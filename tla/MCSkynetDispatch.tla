-------------------------- MODULE MCSkynetDispatch --------------------------
(* Two workers, one that takes one message at a time and one that takes    *)
(* all of them: the first and the fifth entry of start's weight table.     *)
EXTENDS SkynetDispatch

CONSTANTS w1, w2

MCWeight == [w \in Worker |-> IF w = w1 THEN -1 ELSE 0]
=============================================================================
