------------------------------ MODULE Registry ------------------------------
(***************************************************************************)
(* The node registry of the control plane (internal/registry/registry.go): *)
(* the in-memory table of worker nodes, each with the capacity it reported *)
(* and the time of its last heartbeat.  Every method holds the registry's  *)
(* mutex throughout, so every method is one atomic operation.              *)
(*                                                                         *)
(* Time is abstracted to what the code asks of it: whether a node's last   *)
(* heartbeat lies within HeartbeatTimeout (the field "fresh").  A heartbeat *)
(* or a registration makes a node fresh; the passing of time makes it stale.*)
(* Node identifiers are natural numbers whose order is the order of the    *)
(* identifier strings in the code.                                         *)
(***************************************************************************)
EXTENDS Naturals

CONSTANTS Node,        \* node identifiers
          Capacity,    \* node -> the capacities it may report: [cpu, mem] records
          NoEntry      \* what a map holds for a key it does not contain

ASSUME NodeAssumption == Node \subseteq Nat

ASSUME CapacityAssumption == Capacity \in [Node -> SUBSET [cpu : Nat, mem : Nat]]

ASSUME NoEntryAssumption == NoEntry \notin Node

VARIABLE nodes         \* Registry.nodes: node ID -> entry, or NoEntry

\* An entry of the table: what the node reported, and whether it was heard of
\* within HeartbeatTimeout.
Entry == [cap : [cpu : Nat, mem : Nat], fresh : BOOLEAN]

ASSUME EntryAssumption == NoEntry \notin Entry

RegistryTypeOK == nodes \in [Node -> Entry \cup {NoEntry}]

RegistryInit == nodes = [n \in Node |-> NoEntry]

\* Registry.Get: is the node known at all, heard of recently or not?
Registered(n) == nodes[n] # NoEntry

\* Registry.Alive: the nodes heard of within HeartbeatTimeout.
Alive == {n \in Node : Registered(n) /\ nodes[n].fresh}

\* Registry.Dead: the nodes that missed their heartbeat window.
Dead == {n \in Node : Registered(n) /\ ~nodes[n].fresh}

-----------------------------------------------------------------------------

\* Registry.Register: add the node, or replace what was known of it.
Register(n, cap) ==
  nodes' = [nodes EXCEPT ![n] = [cap |-> cap, fresh |-> TRUE]]

\* Registry.Heartbeat of a known node; for an unknown one it is an error, and
\* nothing changes.
Heartbeat(n) ==
  /\ Registered(n)
  /\ nodes' = [nodes EXCEPT ![n].fresh = TRUE]

\* Registry.Remove: a no-op on a node that is not there.
Remove(n) == nodes' = [nodes EXCEPT ![n] = NoEntry]

\* HeartbeatTimeout passes without a heartbeat of n.
Expire(n) ==
  /\ n \in Alive
  /\ nodes' = [nodes EXCEPT ![n].fresh = FALSE]
=============================================================================
