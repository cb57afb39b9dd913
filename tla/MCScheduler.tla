---------------------------- MODULE MCScheduler ----------------------------
(***************************************************************************)
(* Instances of the scheduler for TLC: two nodes and three replicas of two  *)
(* workloads.  In the first pair of capacities a node may come back with    *)
(* less, down to no memory at all (what an agent reports when it cannot     *)
(* read /proc/meminfo); in the second each node always reports the same.    *)
(***************************************************************************)
EXTENDS Scheduler

MCCapacity == [n \in Node |->
  IF n = 1 THEN {[cpu |-> 1, mem |-> 4], [cpu |-> 1, mem |-> 3]}
           ELSE {[cpu |-> 1, mem |-> 4], [cpu |-> 1, mem |-> 0]}]

MCFixedCapacity == [n \in Node |->
  IF n = 1 THEN {[cpu |-> 2, mem |-> 5]} ELSE {[cpu |-> 1, mem |-> 5]}]

MCRequest == {[cpu |-> 0, mem |-> 0], [cpu |-> 1, mem |-> 2], [cpu |-> 2, mem |-> 1]}

MCFixedRequest == {[cpu |-> 1, mem |-> 2], [cpu |-> 3, mem |-> 1]}

MCParentOf == [r \in Replica |-> IF r = 3 THEN 2 ELSE 1]
=============================================================================
