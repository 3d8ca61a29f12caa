------------------------------- MODULE MCLock --------------------------------
(***************************************************************************)
(* Instances of PartitionLock: two processes, the second with two threads. *)
(***************************************************************************)
EXTENDS PartitionLock

CONSTANTS a, b, w1, w2, w3

MCProcs   == {a, b}
MCWorkers == {w1, w2, w3}
MCProcOf  == [w \in MCWorkers |-> IF w = w1 THEN a ELSE b]
==============================================================================
