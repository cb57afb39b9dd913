----------------------------- MODULE MCNetwork -----------------------------
(***************************************************************************)
(* Instances of the network for TLC.                                        *)
(***************************************************************************)
EXTENDS Network

MCCapacity == [n \in Node |-> {[cpu |-> 1, mem |-> 1]}]
=============================================================================
