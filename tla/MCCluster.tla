----------------------------- MODULE MCCluster -----------------------------
(***************************************************************************)
(* Instances of the cluster for TLC: two nodes, one workload of two         *)
(* replicas, two specs.                                                     *)
(***************************************************************************)
EXTENDS Cluster

MCCapacity == [n \in Node |-> {[cpu |-> 3, mem |-> 3]}]

\* Both nodes alike, each with room for two replicas (2.55 units of each).
MCRequestOf == [h \in Hash |-> [cpu |-> 1, mem |-> 1]]

MCRequest == {[cpu |-> 1, mem |-> 1]}

\* The second spec asks for more than a node has left beside another replica.
GrownRequestOf == [h \in Hash |-> [cpu |-> h, mem |-> h]]

GrownRequest == {[cpu |-> h, mem |-> h] : h \in Hash}

MCParentOf == [r \in Replica |-> 1]

MCIndex == [r \in Replica |-> r - 1]

MCWorkload == {[replicas |-> 2, hash |-> h, budget |-> 1] : h \in Hash}

\* Scaling too.
ScaledWorkload == {[replicas |-> k, hash |-> h, budget |-> 1] : k \in 1..2, h \in Hash}

MCInitialStore == [p \in Parent |-> [replicas |-> 2, hash |-> 1, budget |-> 1]]

-----------------------------------------------------------------------------
(***************************************************************************)
(* Scenarios.                                                              *)
(***************************************************************************)

\* Calls and faults, at most so many of each, with starts and passes that are
\* quick; Slow lifts that.
Happening(calls, maxCalls, faultKinds, maxFaults) ==
  [submitted |-> MCWorkload, calls |-> calls, maxCalls |-> maxCalls,
   faults |-> faultKinds, maxFaults |-> maxFaults, prompt |-> TRUE]

Slow(s) == [s EXCEPT !.prompt = FALSE]

Scaling(s) == [s EXCEPT !.submitted = ScaledWorkload]

\* Two updates, with starts that take longer than a pass; and a rebalance or a
\* decommission, with a partition or a server restart.
OperateScenario ==
  {Slow(Happening({"add"}, 2, {}, 0)),
   Happening({"rebalance", "decommission"}, 1, {"cut", "server"}, 1)}

\* Scaling, updating and removing while a container exits, a start fails or a
\* host goes down; moving and updating while a container exits; and a cluster
\* that is left alone on a bad network.
ConvergeScenario ==
  {Scaling(Happening({"add", "remove"}, 2, {"exit", "pull", "off"}, 1)),
   Happening({"rebalance", "add"}, 2, {"exit"}, 1),
   Slow(Happening({}, 0, {"lost_request", "lost_reply", "off"}, 2))}

\* A server restart and nothing else.
RestartCopyScenario ==
  {Happening({}, 0, {"server"}, 1)}

\* One update.
GrowScenario ==
  {Happening({"add"}, 1, {}, 0)}

\* One update and one lost request.
RollLossScenario ==
  {Happening({"add"}, 1, {"lost_request"}, 1)}

\* One rebalance, with slow starts.
SlowMoveScenario ==
  {Slow(Happening({"rebalance"}, 1, {}, 0))}

\* One rebalance, and a host that goes down.
MoveEvictScenario ==
  {Happening({"rebalance"}, 1, {"off"}, 1)}

\* One update, with slow starts.
SlowUpdateScenario ==
  {Slow(Happening({"add"}, 1, {}, 0))}

\* A rebalance and a removal.
OrphanScenario ==
  {Happening({"rebalance", "remove"}, 2, {}, 0)}
=============================================================================
