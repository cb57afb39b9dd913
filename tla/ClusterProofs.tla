---------------------------- MODULE ClusterProofs ----------------------------
(***************************************************************************)
(* What the cluster guarantees for every set of nodes, replicas and         *)
(* workloads and all capacities and requests: the reconcile loop, the API   *)
(* and the agents around the scheduler.                                     *)
(***************************************************************************)
EXTENDS Cluster, SchedulerProofs

-----------------------------------------------------------------------------
(***************************************************************************)
(* The cluster: types, for every scenario.                                 *)
(***************************************************************************)

InLoop == {"assign", "push", "start"}

\* What a step of a pass relies on: the node being removed, the replica being
\* placed or pushed and the node of a replica being swept are there.
PassPlaced ==
  /\ pc = "remove" => target \in Node
  /\ pc \in InLoop => todo \subseteq expand(desired)
  /\ pc \in {"push", "start"} => todo # {} /\ target \in Node
  /\ pc = "sweep" => \A r \in todo : listed[r] # NoEntry

ClusterInv == ClusterTypeOK /\ MapsAgree /\ PassPlaced

\* The replica a pass is at, and what is wanted of it (sortedReplicaIDs).
LEMMA CurrentType ==
  ASSUME ClusterInv, pc \in InLoop, todo # {}
  PROVE  /\ Current \in todo /\ Current \in Replica /\ Current \in expand(desired)
         /\ ParentOf[Current] \in Parent
         /\ Wanted \in Workload /\ Wanted.hash \in Hash /\ Wanted.budget \in Nat
         /\ RequestOf[Wanted.hash] \in Request
<1>1. todo \subseteq Replica /\ todo \subseteq expand(desired)
  BY Zenon DEF ClusterInv, ClusterTypeOK, PassPlaced, InLoop
<1>2. todo \in SUBSET Nat
  BY Zenon, <1>1, ReplicaAssumption
<1>3. Current \in todo
  BY Zenon, <1>2, LowestIsThere DEF Current
<1>4. Current \in Replica /\ Current \in expand(desired) /\ ParentOf[Current] \in Parent
  BY Zenon, <1>1, <1>3, ParentAssumption
<1>5. Wanted \in Workload
  BY Zenon, <1>4 DEF expand, Wanted, ClusterInv, ClusterTypeOK
<1>6. Wanted.hash \in Hash /\ Wanted.budget \in Nat
  BY Zenon, <1>5, WorkloadAssumption
<1> QED
  BY Zenon, <1>3, <1>4, <1>5, <1>6, WorkloadAssumption

\* Whatever happens in the cluster, the registry and the scheduler take steps
\* of their own, or none, or are built anew (runServer); replicas are placed by
\* the pass only, and rebalanced by the operator's call only.
LEMMA SchedulerSteps ==
  ASSUME ClusterInv, ClusterNext
  PROVE  \/ RegistryNext \/ ReleaseNext \/ UNCHANGED vars
         \/ AssignCurrent /\ \E h \in Hash : RequestOf[h] \in Request /\ AssignNext(RequestOf[h])
         \/ rebalance
         \/ RestartServer
<1> DEFINE Other == RegistryNext \/ ReleaseNext \/ UNCHANGED vars
<1>1. ASSUME NEW n \in Node,
             \/ \E cap \in Capacity[n] : Register(n, cap)
             \/ Heartbeat(n) \/ Remove(n) \/ Expire(n),
             UNCHANGED schedVars
      PROVE  Other
  BY Zenon, <1>1 DEF RegistryNext
<1>2. ASSUME UNCHANGED <<nodes, schedVars>>
      PROVE  Other
  BY Zenon, <1>2 DEF schedVars, vars
<1>3. ASSUME NEW r \in Replica, Unassign(r), UNCHANGED nodes
      PROVE  Other
  BY Zenon, <1>3 DEF ReleaseNext
<1>4. ASSUME NEW n \in Node, ReassignNode(n), UNCHANGED nodes
      PROVE  Other
  BY Zenon, <1>4 DEF ReleaseNext
<1> HIDE DEF Other
<1>5. ASSUME AssignCurrent
      PROVE  \E h \in Hash : RequestOf[h] \in Request /\ AssignNext(RequestOf[h])
  <2>1. pc \in InLoop /\ todo # {}
    BY Zenon, <1>5 DEF AssignCurrent, InLoop
  <2>2. Assign(Current, ParentOf[Current], RequestOf[Wanted.hash]) /\ UNCHANGED nodes
    BY Zenon, <1>5 DEF AssignCurrent
  <2>3. AssignNext(RequestOf[Wanted.hash])
    BY Zenon, <2>1, <2>2, CurrentType DEF AssignNext
  <2> QED
    BY Zenon, <2>1, <2>3, CurrentType
<1>6. ASSUME NodeMissing
      PROVE  Other
  <2>1. pc \in InLoop /\ todo # {}
    BY Zenon, <1>6 DEF NodeMissing, InLoop, ClusterInv, PassPlaced
  <2> QED
    BY Zenon, <1>3, <1>6, <2>1, CurrentType DEF NodeMissing
<1>7. ASSUME Reconcile
      PROVE  Other \/ AssignCurrent
  <2>1. CASE RemoveDead
    BY Zenon, <1>1, <2>1 DEF RemoveDead, ClusterInv, PassPlaced
  <2>2. CASE \E n \in Node : EvictDead(n)
    BY Zenon, <1>4, <2>2 DEF EvictDead
  <2>3. CASE \E r \in Replica : SweepReplica(r)
    BY Zenon, <1>3, <2>3 DEF SweepReplica
  <2>4. CASE StartPass \/ StartStatus \/ StartReplicas \/ EndPass
    BY Zenon, <1>2, <2>4 DEF StartPass, StartStatus, StartReplicas, EndPass, controlVars
  <2>5. CASE \E n \in Node : FetchStatus(n)
    BY Zenon, <1>2, <2>5 DEF FetchStatus, controlVars
  <2>6. CASE NothingToStop \/ StopMoved
    BY Zenon, <1>2, <2>6 DEF NothingToStop, StopMoved, controlVars
  <2>7. CASE StopStale \/ KeepCurrent
    BY Zenon, <1>2, <2>7 DEF StopStale, KeepCurrent, controlVars
  <2>8. CASE StartCurrent
    BY Zenon, <1>2, <2>8 DEF StartCurrent
  <2>9. CASE \E late \in SUBSET Replica : Repush(late)
    BY Zenon, <1>2, <2>9 DEF Repush
  <2> QED
    BY Zenon, <1>6, <1>7, <2>1, <2>2, <2>3, <2>4, <2>5, <2>6, <2>7, <2>8, <2>9 DEF Reconcile
<1>8. ASSUME Api
      PROVE  Other \/ rebalance
  <2>1. CASE removeNodeReassign
    BY Zenon, <1>4, <2>1 DEF removeNodeReassign, ClusterInv, ClusterTypeOK
  <2>2. CASE \E n \in Node : removeNode(n)
    BY Zenon, <1>1, <2>2 DEF removeNode
  <2>3. CASE \E p \in Parent : removeWorkload(p) \/ (\E w \in scenario.submitted : addWorkload(p, w))
    BY Zenon, <1>2, <2>3 DEF removeWorkload, addWorkload, controlVars
  <2> QED
    BY Zenon, <1>8, <2>1, <2>2, <2>3 DEF Api
<1>9. ASSUME Agents
      PROVE  Other
  BY Zenon, <1>1, <1>2, <1>9 DEF Agents, Beat, Silence, FinishStart, controlVars
<1>10. ASSUME Faults
       PROVE  Other \/ RestartServer
  BY Zenon, <1>1, <1>2, <1>10 DEF Faults, FailStart, Cut, Heal, PowerOff, Boot, Exit, controlVars
<1> QED
  BY Zenon, <1>5, <1>7, <1>8, <1>9, <1>10 DEF ClusterNext, Other

LEMMA BookkeepingKept ==
  ASSUME ClusterInv, ClusterNext
  PROVE  Bookkeeping'
<1>1. Bookkeeping
  BY Zenon DEF ClusterInv, ClusterTypeOK, Bookkeeping
<1>2. CASE RestartServer
  BY Zenon, <1>2 DEF RestartServer, Drop, Bookkeeping, TypeOK, RegistryTypeOK, SchedulerTypeOK,
     MapsAgree
<1>3. RestartServer \/ [Next]_vars
  BY Zenon, SchedulerSteps DEF Next, NextNoRebalance, rebalance, RebalanceNext
<1> QED
  BY Zenon, <1>1, <1>2, <1>3, BookkeepingStep

\* The desired state, what a pass has read of it, and the counters.
StateTyped ==
  /\ store \in [Parent -> Workload \cup {NoEntry}]
  /\ desired \in [Parent -> Workload \cup {NoEntry}]
  /\ leaving \in Node \cup {NoEntry}
  /\ scenario \in Scenario
  /\ operations \in 0..scenario.maxCalls /\ faults \in 0..scenario.maxFaults

LEMMA StateTypedStep ==
  ASSUME ClusterInv, ClusterNext
  PROVE  StateTyped'
<1>1. StateTyped /\ scenario' = scenario
  BY Zenon DEF ClusterInv, ClusterTypeOK, StateTyped, ClusterNext
<1>2. scenario.maxCalls \in Nat /\ scenario.maxFaults \in Nat /\ scenario.submitted \subseteq Workload
  BY Zenon, <1>1, ScenarioAssumption DEF StateTyped, ScenarioType
<1>3. ASSUME NEW kind, Happens(kind)
      PROVE  faults' \in 0..scenario.maxFaults
  BY SMTT(30), <1>1, <1>2, <1>3 DEF Happens, StateTyped
<1>4. ASSUME NEW kind, Called(kind)
      PROVE  operations' \in 0..scenario.maxCalls
  BY SMTT(30), <1>1, <1>2, <1>4 DEF Called, StateTyped
<1>5. ASSUME NEW n, NEW handled, NEW answered, Call(n, handled, answered)
      PROVE  faults' \in 0..scenario.maxFaults
  BY Zenon, <1>1, <1>3, <1>5 DEF Call, StateTyped
<1>6. faults' \in 0..scenario.maxFaults /\ operations' \in 0..scenario.maxCalls
  <2>1. CASE Reconcile
    <3>1. operations' = operations
      BY Zenon, <2>1 DEF Reconcile, StartPass, EvictDead, RemoveDead, StartStatus, FetchStatus,
         StartReplicas, AssignCurrent, NodeMissing, NothingToStop, StopMoved, StopStale,
         KeepCurrent, StartCurrent, Repush, SweepReplica, EndPass
    <3>2. faults' = faults \/ \E n, handled, answered : Call(n, handled, answered)
      BY Zenon, <2>1 DEF Reconcile, StartPass, EvictDead, RemoveDead, StartStatus, FetchStatus,
         StartReplicas, AssignCurrent, NodeMissing, NothingToStop, StopMoved, StopStale,
         KeepCurrent, StartCurrent, Repush, SweepReplica, EndPass
    <3> QED
      BY Zenon, <1>1, <1>5, <3>1, <3>2 DEF StateTyped
  <2>2. CASE Api
    BY Zenon, <1>1, <1>4, <2>2 DEF Api, removeWorkload, addWorkload, rebalance, removeNode,
       removeNodeReassign, StateTyped
  <2>3. CASE Agents
    BY Zenon, <1>1, <2>3 DEF Agents, Beat, Silence, FinishStart, StateTyped
  <2>4. CASE Faults
    BY Zenon, <1>1, <1>3, <2>4 DEF Faults, FailStart, Cut, Heal, PowerOff, Boot, Exit,
       RestartServer, StateTyped
  <2> QED
    BY Zenon, <2>1, <2>2, <2>3, <2>4 DEF ClusterNext
<1>7. desired' \in {desired, store, [p \in Parent |-> NoEntry]}
  <2>1. CASE Reconcile
    BY Zenon, <2>1 DEF Reconcile, StartPass, EvictDead, RemoveDead, StartStatus, FetchStatus,
       StartReplicas, AssignCurrent, NodeMissing, NothingToStop, StopMoved, StopStale,
       KeepCurrent, StartCurrent, Repush, SweepReplica, EndPass, PassReset
  <2>2. CASE Api
    BY Zenon, <2>2 DEF Api, removeWorkload, addWorkload, rebalance, removeNode,
       removeNodeReassign, passVars
  <2>3. CASE Agents
    BY Zenon, <2>3 DEF Agents, Beat, Silence, FinishStart, passVars
  <2>4. CASE Faults
    BY Zenon, <2>4 DEF Faults, FailStart, Cut, Heal, PowerOff, Boot, Exit, RestartServer,
       passVars, PassReset
  <2> QED
    BY Zenon, <2>1, <2>2, <2>3, <2>4 DEF ClusterNext
<1>8. store' \in [Parent -> Workload \cup {NoEntry}] /\ leaving' \in Node \cup {NoEntry}
  <2>1. CASE Reconcile
    <3>1. UNCHANGED <<store, leaving>>
      BY Zenon, <2>1 DEF Reconcile, StartPass, EvictDead, RemoveDead, StartStatus, FetchStatus,
         StartReplicas, AssignCurrent, NodeMissing, NothingToStop, StopMoved, StopStale,
         KeepCurrent, StartCurrent, Repush, SweepReplica, EndPass
    <3> QED
      BY Zenon, <1>1, <3>1 DEF StateTyped
  <2>2. CASE Api
    BY Zenon, <1>1, <1>2, <2>2 DEF Api, removeWorkload, addWorkload, rebalance, removeNode,
       removeNodeReassign, StateTyped
  <2>3. CASE Agents
    BY Zenon, <1>1, <2>3 DEF Agents, Beat, Silence, FinishStart, StateTyped
  <2>4. CASE Faults
    BY Zenon, <1>1, <2>4 DEF Faults, FailStart, Cut, Heal, PowerOff, Boot, Exit,
       RestartServer, StateTyped
  <2> QED
    BY Zenon, <2>1, <2>2, <2>3, <2>4 DEF ClusterNext
<1>9. desired' \in [Parent -> Workload \cup {NoEntry}]
  BY Zenon, <1>1, <1>7 DEF StateTyped
<1> QED
  BY Zenon, <1>1, <1>6, <1>8, <1>9 DEF StateTyped

\* The push records, and what runs on the agents.
AgentTyped ==
  /\ pushed \in [Replica -> PushRecord \cup {NoEntry}]
  /\ containers \in [Node -> [Replica -> Hash \cup {NoEntry}]]
  /\ starting \subseteq [node : Node, replica : Replica, hash : Hash]
  /\ cond \in [Node -> {"up", "cut", "off"}]

LEMMA UnassignTyped ==
  ASSUME AgentTyped, NEW n \in Node, NEW r \in Replica, NEW handled,
         handleUnassign(n, r, handled)
  PROVE  containers' \in [Node -> [Replica -> Hash \cup {NoEntry}]]
<1>1. [containers[n] EXCEPT ![r] = NoEntry] \in [Replica -> Hash \cup {NoEntry}]
  BY Zenon DEF AgentTyped
<1> QED
  BY Zenon, <1>1 DEF handleUnassign, AgentTyped

\* The steps of a pass between the registry's and the agents' answers.
LEMMA PushTyped ==
  ASSUME ClusterInv, Reconcile
  PROVE  AgentTyped'
<1>0. AgentTyped
  BY Zenon DEF ClusterInv, ClusterTypeOK, AgentTyped
<1>1. ASSUME UNCHANGED <<pushed, containers, starting, cond>>
      PROVE  AgentTyped'
  BY Zenon, <1>0, <1>1 DEF AgentTyped
<1>2. ASSUME NEW S, pushed' = [r \in Replica |-> IF r \in S THEN NoEntry ELSE pushed[r]]
      PROVE  pushed' \in [Replica -> PushRecord \cup {NoEntry}]
  BY Zenon, <1>0, <1>2 DEF AgentTyped
<1>3. CASE StartPass \/ RemoveDead \/ StartStatus \/ StartReplicas \/ EndPass
           \/ (\E n \in Node : FetchStatus(n))
  BY Zenon, <1>1, <1>3 DEF StartPass, RemoveDead, StartStatus, FetchStatus, StartReplicas, EndPass,
     controlVars, agentVars
<1>4. CASE AssignCurrent \/ NodeMissing \/ NothingToStop \/ KeepCurrent
  BY Zenon, <1>1, <1>4 DEF AssignCurrent, NodeMissing, NothingToStop, KeepCurrent, controlVars,
     agentVars
<1>5. ASSUME NEW S, pushed' = [r \in Replica |-> IF r \in S THEN NoEntry ELSE pushed[r]],
             UNCHANGED agentVars
      PROVE  AgentTyped'
  BY Zenon, <1>0, <1>2, <1>5 DEF AgentTyped, agentVars
<1>6. CASE \E n \in Node : EvictDead(n)
  BY Zenon, <1>5, <1>6 DEF EvictDead
<1>7. CASE \E late \in SUBSET Replica : Repush(late)
  BY Zenon, <1>5, <1>7 DEF Repush
<1>8. ASSUME pc \in {"push", "start"}
      PROVE  /\ Current \in Replica /\ target \in Node /\ Wanted.hash \in Hash
             /\ pushed[Current] # NoEntry => pushed[Current].node \in Node
  <2>1. pc \in InLoop /\ todo # {} /\ target \in Node
    BY Zenon, <1>8 DEF ClusterInv, PassPlaced, InLoop
  <2>2. Current \in Replica /\ Wanted.hash \in Hash
    BY Zenon, <2>1, CurrentType
  <2> QED
    BY Zenon, <1>0, <2>1, <2>2 DEF AgentTyped, PushRecord
<1>9. CASE StopMoved
  <2>1. pc = "push" /\ pushed[Current] # NoEntry /\ UNCHANGED <<pushed, starting, cond>>
    BY Zenon, <1>9 DEF StopMoved, Moved, Unpushed, controlVars
  <2>2. containers' \in [Node -> [Replica -> Hash \cup {NoEntry}]]
    BY Zenon, <1>0, <1>8, <1>9, <2>1, UnassignTyped DEF StopMoved
  <2> QED
    BY Zenon, <1>0, <2>1, <2>2 DEF AgentTyped
<1>10. CASE StopStale
  <2>1. pc = "push" /\ UNCHANGED <<pushed, starting, cond>>
    BY Zenon, <1>10 DEF StopStale, controlVars
  <2>2. containers' \in [Node -> [Replica -> Hash \cup {NoEntry}]]
    BY Zenon, <1>0, <1>8, <1>10, <2>1, UnassignTyped DEF StopStale
  <2> QED
    BY Zenon, <1>0, <2>1, <2>2 DEF AgentTyped
<1>11. CASE StartCurrent
  <2>1. pc = "start" /\ UNCHANGED <<containers, cond>>
    BY Zenon, <1>11 DEF StartCurrent
  <2>2. [node |-> target, hash |-> Wanted.hash] \in PushRecord
    BY Zenon, <1>8, <2>1 DEF PushRecord
  <2>3. [node |-> target, replica |-> Current, hash |-> Wanted.hash]
          \in [node : Node, replica : Replica, hash : Hash]
    BY Zenon, <1>8, <2>1
  <2>4. pushed' \in [Replica -> PushRecord \cup {NoEntry}]
    BY Zenon, <1>0, <1>11, <2>2 DEF StartCurrent, AgentTyped
  <2>5. starting' \subseteq [node : Node, replica : Replica, hash : Hash]
    BY Zenon, <1>0, <1>11, <2>3 DEF StartCurrent, handleAssign, AgentTyped
  <2> QED
    BY Zenon, <1>0, <2>1, <2>4, <2>5 DEF AgentTyped
<1>12. CASE \E r \in Replica : SweepReplica(r)
  <2>1. PICK r \in Replica : SweepReplica(r)
    BY Zenon, <1>12
  <2>2. listed[r] \in Node /\ UNCHANGED <<starting, cond>>
    BY Zenon, <2>1 DEF SweepReplica, ClusterInv, ClusterTypeOK, PassPlaced
  <2>3. pushed' \in [Replica -> PushRecord \cup {NoEntry}]
    BY Zenon, <1>0, <2>1 DEF SweepReplica, AgentTyped
  <2>4. containers' \in [Node -> [Replica -> Hash \cup {NoEntry}]]
    BY Zenon, <1>0, <2>1, <2>2, UnassignTyped DEF SweepReplica, AgentTyped
  <2> QED
    BY Zenon, <1>0, <2>2, <2>3, <2>4 DEF AgentTyped
<1> QED
  BY Zenon, <1>3, <1>4, <1>6, <1>7, <1>9, <1>10, <1>11, <1>12 DEF Reconcile

LEMMA AgentTypedStep ==
  ASSUME ClusterInv, ClusterNext
  PROVE  AgentTyped'
<1>0. AgentTyped
  BY Zenon DEF ClusterInv, ClusterTypeOK, AgentTyped
<1>1. CASE Reconcile
  BY Zenon, <1>1, PushTyped
<1>2. ASSUME UNCHANGED <<pushed, containers, starting, cond>>
      PROVE  AgentTyped'
  BY Zenon, <1>0, <1>2 DEF AgentTyped
<1>3. CASE Api
  BY Zenon, <1>2, <1>3 DEF Api, removeWorkload, addWorkload, rebalance, removeNode,
     removeNodeReassign, controlVars, agentVars
<1>4. CASE \E n \in Node : Beat(n) \/ Silence(n)
  BY Zenon, <1>2, <1>4 DEF Beat, Silence, agentVars
<1>5. CASE \E s \in starting : FinishStart(s)
  <2>1. PICK s \in starting : FinishStart(s)
    BY Zenon, <1>5
  <2>2. s.node \in Node /\ s.replica \in Replica /\ s.hash \in Hash
    BY Zenon, <1>0, <2>1 DEF AgentTyped
  <2> DEFINE new == [containers[s.node] EXCEPT ![s.replica] = IF @ = NoEntry THEN s.hash ELSE @]
  <2>3. new \in [Replica -> Hash \cup {NoEntry}]
    <3> DEFINE old == containers[s.node]
               h == IF old[s.replica] = NoEntry THEN s.hash ELSE old[s.replica]
    <3>1. old \in [Replica -> Hash \cup {NoEntry}]
      BY Zenon, <1>0, <2>2 DEF AgentTyped
    <3>2. h \in Hash \cup {NoEntry} /\ new = [old EXCEPT ![s.replica] = h]
      BY Zenon, <2>2, <3>1
    <3> HIDE DEF old, h, new
    <3> QED
      BY Zenon, <2>2, <3>1, <3>2
  <2>4. containers' = [containers EXCEPT ![s.node] = new]
    BY Zenon, <2>1 DEF FinishStart
  <2> HIDE DEF new
  <2>5. containers' \in [Node -> [Replica -> Hash \cup {NoEntry}]]
    BY Zenon, <1>0, <2>2, <2>3, <2>4 DEF AgentTyped
  <2>6. starting' \subseteq starting /\ UNCHANGED <<pushed, cond>>
    BY Zenon, <2>1 DEF FinishStart, controlVars
  <2> QED
    BY Zenon, <1>0, <2>5, <2>6 DEF AgentTyped
<1>6. CASE \E s \in starting : FailStart(s)
  <2>1. starting' \subseteq starting /\ UNCHANGED <<pushed, containers, cond>>
    BY Zenon, <1>6 DEF FailStart, controlVars
  <2> QED
    BY Zenon, <1>0, <2>1 DEF AgentTyped
<1>7. ASSUME NEW n \in Node, Cut(n) \/ Heal(n) \/ Boot(n)
      PROVE  AgentTyped'
  <2>1. cond' \in [Node -> {"up", "cut", "off"}]
    BY Zenon, <1>0, <1>7 DEF Cut, Heal, Boot, AgentTyped
  <2>2. UNCHANGED <<pushed, containers, starting>>
    BY Zenon, <1>7 DEF Cut, Heal, Boot, controlVars
  <2> QED
    BY Zenon, <1>0, <2>1, <2>2 DEF AgentTyped
<1>8. ASSUME NEW n \in Node, PowerOff(n)
      PROVE  AgentTyped'
  <2>1. cond' \in [Node -> {"up", "cut", "off"}]
    BY Zenon, <1>0, <1>8 DEF PowerOff, AgentTyped
  <2>2. UNCHANGED pushed /\ starting' \subseteq starting
    BY Zenon, <1>8 DEF PowerOff, controlVars
  <2>3. [r \in Replica |-> NoEntry] \in [Replica -> Hash \cup {NoEntry}]
    BY Zenon
  <2>4. containers' \in [Node -> [Replica -> Hash \cup {NoEntry}]]
    BY Zenon, <1>0, <1>8, <2>3 DEF PowerOff, AgentTyped
  <2> QED
    BY Zenon, <1>0, <2>1, <2>2, <2>4 DEF AgentTyped
<1>9. ASSUME NEW n \in Node, NEW r \in Replica, Exit(n, r)
      PROVE  AgentTyped'
  <2>1. UNCHANGED <<pushed, starting, cond>> /\ handleUnassign(n, r, TRUE)
    BY Zenon, <1>9 DEF Exit, controlVars, handleUnassign
  <2> QED
    BY Zenon, <1>0, <2>1, UnassignTyped DEF AgentTyped
<1>10. CASE RestartServer
  BY Zenon, <1>0, <1>10 DEF RestartServer, agentVars, AgentTyped
<1> QED
  BY Zenon, <1>1, <1>3, <1>4, <1>5, <1>6, <1>7, <1>8, <1>9, <1>10 DEF ClusterNext, Agents, Faults

\* The local variables of a pass.
PassTyped ==
  /\ pc \in {"idle", "evict", "remove", "status", "assign", "push", "start",
             "repush", "sweep"}
  /\ todo \subseteq (IF pc \in {"evict", "remove", "status"} THEN Node ELSE Replica)
  /\ target \in Node \cup {NoEntry}
  /\ running \subseteq Replica
  /\ unavailable \in [Parent -> Nat]
  /\ recent \subseteq Replica
  /\ listed \in [Replica -> Node \cup {NoEntry}]
  /\ PassPlaced

LEMMA NextReplicaTyped ==
  ASSUME ClusterInv, pc \in InLoop, NextReplica,
         UNCHANGED <<desired, running, listed>>,
         unavailable' \in [Parent -> Nat], recent' \subseteq Replica
  PROVE  PassTyped'
<1>1. pc' = "assign" /\ target' = NoEntry /\ todo' \subseteq todo
  BY Zenon DEF NextReplica
<1>2. todo \subseteq Replica /\ todo \subseteq expand(desired)
  BY Zenon DEF ClusterInv, ClusterTypeOK, PassPlaced, InLoop
<1>3. todo' \subseteq Replica /\ todo' \subseteq expand(desired')
  BY Zenon, <1>1, <1>2
<1>4. PassPlaced'
  BY Zenon, <1>1, <1>3 DEF PassPlaced
<1> QED
  BY Zenon, <1>1, <1>3, <1>4 DEF PassTyped, ClusterInv, ClusterTypeOK

LEMMA ResetTyped ==
  ASSUME PassReset
  PROVE  PassTyped'
<1>1. 0 \in Nat
  OBVIOUS
<1>2. unavailable' \in [Parent -> Nat] /\ listed' \in [Replica -> Node \cup {NoEntry}]
  BY Zenon, <1>1 DEF PassReset
<1> QED
  BY Zenon, <1>2 DEF PassReset, PassTyped, PassPlaced, InLoop

LEMMA PassTypedStep ==
  ASSUME ClusterInv, ClusterNext
  PROVE  PassTyped'
<1>0. PassTyped
  BY Zenon DEF ClusterInv, ClusterTypeOK, PassTyped
<1>1. CASE StartPass
  BY Zenon, <1>0, <1>1 DEF StartPass, PassTyped, PassPlaced, Dead, InLoop
<1>2. CASE \E n \in Node : EvictDead(n)
  BY Zenon, <1>0, <1>2 DEF EvictDead, PassTyped, PassPlaced, InLoop
<1>3. CASE RemoveDead
  BY Zenon, <1>0, <1>3 DEF RemoveDead, PassTyped, PassPlaced, InLoop
<1>4. CASE StartStatus
  BY Zenon, <1>0, <1>4 DEF StartStatus, PassTyped, PassPlaced, InLoop, Alive
<1>5. CASE \E n \in Node : FetchStatus(n)
  <2>1. running' \subseteq Replica
    BY Zenon, <1>0, <1>5 DEF FetchStatus, PassTyped
  <2> QED
    BY Zenon, <1>0, <1>5, <2>1 DEF FetchStatus, PassTyped, PassPlaced, InLoop
<1>6. CASE StartReplicas
  <2>1. \A p \in Parent : Cardinality({r \in expand(desired) : ParentOf[r] = p /\ r \notin running})
                            \in Nat
    <3>1. \A p \in Parent : {r \in expand(desired) : ParentOf[r] = p /\ r \notin running}
                              \in SUBSET Replica
      BY Zenon DEF expand
    <3> QED
      BY Zenon, <3>1, ReplicaAssumption, FS_Subset, FS_CardinalityType
  <2>2. unavailable' \in [Parent -> Nat]
    BY Zenon, <1>6, <2>1 DEF StartReplicas
  <2>3. todo' = expand(desired') /\ expand(desired') \subseteq Replica
    BY Zenon, <1>6 DEF StartReplicas, expand
  <2> QED
    BY Zenon, <1>0, <1>6, <2>2, <2>3 DEF StartReplicas, PassTyped, PassPlaced, InLoop
<1>7. CASE AssignCurrent
  <2>1. pc \in InLoop /\ todo # {} /\ UNCHANGED <<desired, running, unavailable, recent, listed>>
    BY Zenon, <1>7 DEF AssignCurrent, InLoop
  <2>2. CASE NextReplica
    BY Zenon, <1>0, <2>1, <2>2, NextReplicaTyped DEF PassTyped
  <2>3. CASE /\ assignments'[Current] # NoEntry
             /\ target' = assignments'[Current] /\ pc' = "push" /\ UNCHANGED todo
    <3>1. Current \in Replica
      BY Zenon, <2>1, CurrentType
    <3>2. assignments'[Current] \in Node
      BY Zenon, <2>3, <3>1, BookkeepingKept DEF Bookkeeping, TypeOK, SchedulerTypeOK
    <3>3. todo \subseteq Replica /\ todo \subseteq expand(desired)
      BY Zenon, <2>1 DEF ClusterInv, ClusterTypeOK, PassPlaced, InLoop
    <3> QED
      BY Zenon, <1>0, <2>1, <2>3, <3>2, <3>3 DEF PassTyped, PassPlaced, InLoop
  <2> QED
    BY Zenon, <1>7, <2>2, <2>3 DEF AssignCurrent
<1>8. CASE NodeMissing \/ KeepCurrent
  <2>1. pc \in InLoop /\ UNCHANGED <<desired, running, unavailable, recent, listed>> /\ NextReplica
    BY Zenon, <1>8 DEF NodeMissing, KeepCurrent, InLoop
  <2> QED
    BY Zenon, <1>0, <2>1, NextReplicaTyped DEF PassTyped
<1>9. ASSUME pc = "push", pc' = "start",
             UNCHANGED <<desired, todo, target, running, unavailable, recent, listed>>
      PROVE  PassTyped'
  BY Zenon, <1>0, <1>9 DEF PassTyped, PassPlaced, InLoop
<1>10. CASE NothingToStop \/ StopMoved
  BY Zenon, <1>9, <1>10 DEF NothingToStop, StopMoved
<1>11. CASE StopStale
  <2>1. pc = "push" /\ pc \in InLoop /\ UNCHANGED <<desired, running, unavailable, recent, listed>>
    BY Zenon, <1>11 DEF StopStale, InLoop
  <2>2. NextReplica \/ (pc' = "start" /\ UNCHANGED <<todo, target>>)
    BY Zenon, <1>11 DEF StopStale
  <2> QED
    BY Zenon, <1>0, <1>9, <2>1, <2>2, NextReplicaTyped DEF PassTyped
<1>12. CASE StartCurrent
  <2>1. pc \in InLoop /\ todo # {} /\ UNCHANGED <<desired, running, listed>> /\ NextReplica
    BY Zenon, <1>0, <1>12 DEF StartCurrent, InLoop, PassTyped, PassPlaced
  <2>2. Current \in Replica /\ ParentOf[Current] \in Parent
    BY Zenon, <2>1, CurrentType
  <2>3. recent' \subseteq Replica
    BY Zenon, <1>0, <1>12, <2>2 DEF StartCurrent, PassTyped
  <2>4. unavailable[ParentOf[Current]] + 1 \in Nat /\ unavailable[ParentOf[Current]] \in Nat
    BY SMTT(30), <1>0, <2>2 DEF PassTyped
  <2>5. unavailable' \in [Parent -> Nat]
    BY Zenon, <1>0, <1>12, <2>4 DEF StartCurrent, PassTyped
  <2> QED
    BY Zenon, <2>1, <2>3, <2>5, NextReplicaTyped
<1>13. CASE \E late \in SUBSET Replica : Repush(late)
  <2>1. /\ listed' = assignments /\ todo' = Assigned \ expand(desired) /\ pc' = "sweep"
        /\ UNCHANGED <<desired, target, running, unavailable, recent>>
    BY Zenon, <1>13 DEF Repush
  <2>2. assignments \in [Replica -> Node \cup {NoEntry}]
    BY Zenon DEF ClusterInv, ClusterTypeOK, TypeOK, SchedulerTypeOK
  <2>3. todo' \subseteq Replica /\ \A r \in todo' : listed'[r] # NoEntry
    BY Zenon, <2>1 DEF Assigned
  <2> QED
    BY Zenon, <1>0, <2>1, <2>2, <2>3 DEF PassTyped, PassPlaced, InLoop
<1>14. CASE \E r \in Replica : SweepReplica(r)
  <2>1. /\ pc = "sweep" /\ todo' \subseteq todo
        /\ UNCHANGED <<pc, desired, target, running, unavailable, recent, listed>>
    BY Zenon, <1>14 DEF SweepReplica
  <2> QED
    BY Zenon, <1>0, <2>1 DEF PassTyped, PassPlaced, InLoop
<1>15. CASE EndPass \/ RestartServer
  BY Zenon, <1>15, ResetTyped DEF EndPass, RestartServer
<1>16. ASSUME UNCHANGED passVars
       PROVE  PassTyped'
  BY Zenon, <1>0, <1>16 DEF passVars, PassTyped, PassPlaced
<1>17. CASE Api
  BY Zenon, <1>16, <1>17 DEF Api, removeWorkload, addWorkload, rebalance, removeNode,
     removeNodeReassign
<1>18. CASE Agents
  BY Zenon, <1>16, <1>18 DEF Agents, Beat, Silence, FinishStart
<1>19. CASE Faults
  BY Zenon, <1>15, <1>16, <1>19 DEF Faults, FailStart, Cut, Heal, PowerOff, Boot, Exit
<1> QED
  BY Zenon, <1>1, <1>2, <1>3, <1>4, <1>5, <1>6, <1>7, <1>8, <1>10, <1>11, <1>12, <1>13, <1>14,
     <1>15, <1>17, <1>18, <1>19 DEF ClusterNext, Reconcile

LEMMA ClusterInvInit ==
  ASSUME ClusterInit
  PROVE  ClusterInv
<1>1. Bookkeeping
  BY Zenon, BookkeepingInit DEF ClusterInit
<1>2. 0 \in Nat
  OBVIOUS
<1>3. /\ scenario \in Scenario /\ 0 \in 0..scenario.maxCalls /\ 0 \in 0..scenario.maxFaults
  <2>1. scenario \in Scenario /\ scenario.maxCalls \in Nat /\ scenario.maxFaults \in Nat
    BY Zenon, ScenarioAssumption DEF ClusterInit, ScenarioType
  <2> QED
    BY SMTT(30), <2>1
<1>4. unavailable \in [Parent -> Nat] /\ listed \in [Replica -> Node \cup {NoEntry}]
  BY Zenon, <1>2 DEF ClusterInit, PassInit
<1>5. [r \in Replica |-> NoEntry] \in [Replica -> Hash \cup {NoEntry}]
  BY Zenon
<1>6. containers \in [Node -> [Replica -> Hash \cup {NoEntry}]]
  BY Zenon, <1>5 DEF ClusterInit
<1>7. PassPlaced
  BY Zenon DEF ClusterInit, PassInit, PassPlaced, InLoop
<1>8. ClusterTypeOK
  BY Zenon, <1>1, <1>3, <1>4, <1>6, WorkloadAssumption
     DEF ClusterInit, PassInit, ClusterTypeOK, Bookkeeping
<1> QED
  BY Zenon, <1>1, <1>7, <1>8 DEF ClusterInv, Bookkeeping

LEMMA ClusterInvStep ==
  ASSUME ClusterInv, [ClusterNext]_<<clusterVars, scenario>>
  PROVE  ClusterInv'
<1>1. CASE ClusterNext
  BY Zenon, <1>1, BookkeepingKept, StateTypedStep, AgentTypedStep, PassTypedStep
     DEF ClusterInv, ClusterTypeOK, Bookkeeping, StateTyped, AgentTyped, PassTyped
<1>2. CASE UNCHANGED <<clusterVars, scenario>>
  <2>1. UNCHANGED <<nodes, assignments, parents, requests, pushed, store, pc, desired, todo, target,
                    running, unavailable, recent, listed, containers, starting, cond, leaving,
                    operations, faults, scenario>>
    BY Zenon, <1>2 DEF clusterVars, controlVars, schedVars, passVars, agentVars
  <2> QED
    BY Zenon, <2>1 DEF ClusterInv, ClusterTypeOK, MapsAgree, PassPlaced, TypeOK, RegistryTypeOK,
       SchedulerTypeOK
<1> QED
  BY Zenon, <1>1, <1>2

LEMMA ClusterInvAlways == ClusterSafetySpec => []ClusterInv
BY ClusterInvInit, ClusterInvStep, PTL DEF ClusterSafetySpec

\* The push records, a pass's local variables and the agents' containers are of
\* their types, whatever calls are made and whatever fails: a pass never looks
\* up a workload that is not in its snapshot, never calls a node it has no name
\* of and never counts fewer than no unavailable replicas (reconcile).
THEOREM ClusterTyped == ClusterSafetySpec => []ClusterTypeOK
<1>1. ClusterInv => ClusterTypeOK
  BY Zenon DEF ClusterInv
<1> QED
  BY <1>1, ClusterInvAlways, PTL

\* Also beside the reconcile loop, the API handlers and restarts of the server,
\* the three maps of the scheduler hold the same replicas (Scheduler).
THEOREM ClusterMapsAgree == ClusterSafetySpec => []MapsAgree
<1>1. ClusterInv => MapsAgree
  BY Zenon DEF ClusterInv
<1> QED
  BY <1>1, ClusterInvAlways, PTL

-----------------------------------------------------------------------------
(***************************************************************************)
(* Replicas that stay where they are.                                      *)
(***************************************************************************)

\* Circumstances: all specs ask for the same, a node reports one capacity, and
\* the operator neither rebalances nor decommissions nor restarts the server.
SameRequests == \A g, h \in Hash : RequestOf[g] = RequestOf[h]

OneCapacity == \A n \in Node : \A c, d \in Capacity[n] : c = d

NoMoves(s) ==
  /\ SameRequests /\ OneCapacity
  /\ s.calls \subseteq {"add", "remove"} /\ "server" \notin s.faults

\* Then every assigned replica has room on a registered node, with what any
\* spec would ask.
Standing ==
  /\ \A n \in Node : Registered(n) => nodes[n].cap \in Capacity[n]
  /\ \A r \in Replica : assignments[r] # NoEntry => Registered(assignments[r])
  /\ \A r \in Replica : requests[r] # NoEntry => \E h \in Hash : requests[r] = RequestOf[h]
  /\ Overcommitted = {}
  /\ leaving = NoEntry

\* A push record names the node the replica is assigned to, and so does the
\* pass; a node is removed once nothing is assigned to it.
PassStanding ==
  /\ \A r \in Replica : pushed[r] # NoEntry => assignments[r] = pushed[r].node
  /\ pc = "remove" => AssignedTo(target) = {}
  /\ pc \in {"push", "start"} => assignments[Current] = target
  /\ pc = "sweep" => \A r \in todo : listed[r] = assignments[r] /\ r \notin expand(desired)

\* What a node has committed is what it has committed to the others, and the
\* request of the one.
LEMMA CommittedBeside ==
  ASSUME TypeOK, NEW r \in Replica, NEW n \in Node, NEW req \in Request,
         assignments[r] = n, requests[r] = req, NEW d \in {"cpu", "mem"}
  PROVE  Committed(assignments, n, d, NoEntry) = Committed(assignments, n, d, r) + req[d]
<1>1. req[d] \in 0..MaxUnits /\ req # NoEntry
  BY Zenon, RequestAssumption
<1>2. UnitsOn(assignments, n, d, NoEntry)
        = UnitsOn(assignments, n, d, r) \cup ({r} \X (1..req[d]))
  <2>1. ASSUME NEW u \in Replica \X (1..MaxUnits)
        PROVE  u \in UnitsOn(assignments, n, d, NoEntry)
                 <=> \/ u \in UnitsOn(assignments, n, d, r)
                     \/ u[1] = r /\ u[2] <= req[d]
    <3>0. u[1] \in Replica /\ u[1] # NoEntry
      BY Zenon, ReplicaAssumption
    <3>1. CASE u[1] = r
      BY Zenon, <1>1, <3>0, <3>1 DEF UnitsOn, Asked
    <3>2. CASE u[1] # r
      BY Zenon, <3>0, <3>2 DEF UnitsOn, Asked
    <3> QED
      BY Zenon, <3>1, <3>2
  <2>2. \A u \in Replica \X (1..MaxUnits) :
          u[1] = r /\ u[2] <= req[d] <=> u \in {r} \X (1..req[d])
    BY SMTT(30), <1>1
  <2>3. {r} \X (1..req[d]) \subseteq Replica \X (1..MaxUnits)
    BY SMTT(30), <1>1, UnitsAssumption
  <2>4. /\ UnitsOn(assignments, n, d, NoEntry) \subseteq Replica \X (1..MaxUnits)
        /\ UnitsOn(assignments, n, d, r) \subseteq Replica \X (1..MaxUnits)
    BY Zenon DEF UnitsOn
  <2> QED
    BY Zenon, <2>1, <2>2, <2>3, <2>4
<1>3. \A u \in UnitsOn(assignments, n, d, r) : u[1] # r
  BY Zenon DEF UnitsOn
<1>4. IsFiniteSet(UnitsOn(assignments, n, d, r))
  BY Zenon, CommittedType
<1>5. req[d] \in Nat
  BY SMTT(30), <1>1, UnitsAssumption
<1>6. Cardinality(UnitsOn(assignments, n, d, r) \cup ({r} \X (1..req[d])))
        = Cardinality(UnitsOn(assignments, n, d, r)) + req[d]
  BY Zenon, <1>3, <1>4, <1>5, AddUnits
<1> QED
  BY Zenon, <1>2, <1>6 DEF Committed

\* Assign finds an assigned replica fitting where it is (StaysPut).
LEMMA AssignedStays ==
  ASSUME TypeOK, MapsAgree, SameRequests, Standing, NEW r \in Replica, assignments[r] # NoEntry,
         NEW h \in Hash
  PROVE  StaysPut(r, RequestOf[h])
<1> DEFINE n == assignments[r]
           req == RequestOf[h]
           cap == schedulable(nodes[n].cap)
<1>1. n \in Node /\ Registered(n) /\ requests[r] = req /\ req \in Request
  BY Zenon, WorkloadAssumption DEF TypeOK, SchedulerTypeOK, MapsAgree, SameRequests, Standing
<1>2. /\ Committed(assignments, n, "cpu", NoEntry) = Committed(assignments, n, "cpu", r) + req["cpu"]
      /\ Committed(assignments, n, "mem", NoEntry) = Committed(assignments, n, "mem", r) + req["mem"]
  BY Zenon, <1>1, CommittedBeside
<1>3. /\ Committed(assignments, n, "cpu", NoEntry) \in Nat
      /\ Committed(assignments, n, "mem", NoEntry) \in Nat
  BY Zenon, CommittedType
<1>4. cap.cpu \in Nat /\ cap.mem \in Nat
  <2>1. nodes[n].cap \in [cpu : Nat, mem : Nat]
    BY Zenon, <1>1 DEF TypeOK, RegistryTypeOK, Registered, Entry
  <2> QED
    BY Zenon, <2>1, SchedulableType
<1>5. /\ ~(Committed(assignments, n, "cpu", NoEntry) > cap.cpu)
      /\ ~(Committed(assignments, n, "mem", NoEntry) > cap.mem)
  BY Zenon, <1>1 DEF Standing, Overcommitted
<1> HIDE DEF cap
<1>6. /\ Committed(assignments, n, "cpu", r) + req.cpu <= cap.cpu
      /\ Committed(assignments, n, "mem", r) + req.mem <= cap.mem
  <2> HIDE DEF n, req
  <2> QED
    BY SMTT(30), <1>2, <1>3, <1>4, <1>5
<1> QED
  BY Zenon, <1>1, <1>6 DEF StaysPut, fitsOnNode, Fits, cap

\* A node that is registered reports its one capacity, and keeps it.
LEMMA CapacityStays ==
  ASSUME RegistryTypeOK, RegistryNext, 
         \A n \in Node : Registered(n) => nodes[n].cap \in Capacity[n]
  PROVE  \A n \in Node : Registered(n)' => nodes'[n].cap \in Capacity[n]
<1>1. PICK n \in Node : \/ \E cap \in Capacity[n] : Register(n, cap)
                        \/ Heartbeat(n)
                        \/ Remove(n)
                        \/ Expire(n)
  BY Zenon DEF RegistryNext
<1>2. \A m \in Node : m # n => nodes'[m] = nodes[m]
  BY Zenon, <1>1 DEF Register, Heartbeat, Remove, Expire, RegistryTypeOK
<1>3. Registered(n)' => nodes'[n].cap \in Capacity[n]
  <2>1. ASSUME NEW cap \in Capacity[n], Register(n, cap)
        PROVE  nodes'[n].cap \in Capacity[n]
    <3>1. nodes'[n] = [cap |-> cap, fresh |-> TRUE]
      BY Zenon, <2>1 DEF Register, RegistryTypeOK
    <3>2. nodes'[n].cap = cap
      BY SMTT(30), <3>1
    <3> QED
      BY Zenon, <3>2
  <2>2. ASSUME Heartbeat(n) \/ Expire(n)
        PROVE  nodes'[n].cap \in Capacity[n]
    <3>1. PICK b : nodes' = [nodes EXCEPT ![n] = [nodes[n] EXCEPT !.fresh = b]]
      BY Zenon, <2>2 DEF Heartbeat, Expire
    <3>2. Registered(n) /\ nodes[n] \in Entry
      BY Zenon, <2>2 DEF Heartbeat, Expire, Alive, RegistryTypeOK, Registered
    <3>3. nodes'[n].cap = nodes[n].cap
      BY Zenon, <3>1, <3>2 DEF RegistryTypeOK, Entry
    <3> QED
      BY Zenon, <3>2, <3>3
  <2>3. CASE Remove(n)
    BY Zenon, <2>3 DEF Remove, Registered, RegistryTypeOK
  <2> QED
    BY Zenon, <1>1, <2>1, <2>2, <2>3
<1> QED
  BY Zenon, <1>2, <1>3 DEF Registered

\* A node is in the registry until a call takes it out, or the pass does.
LEMMA RegisteredStays ==
  ASSUME ClusterInv, ClusterNext, ~RemoveDead, ~RestartServer, \A n : ~removeNode(n),
         NEW n \in Node, Registered(n)
  PROVE  Registered(n)'
<1>1. nodes \in [Node -> Entry \cup {NoEntry}]
  BY Zenon DEF ClusterInv, ClusterTypeOK, TypeOK, RegistryTypeOK
<1>2. ASSUME UNCHANGED nodes
      PROVE  Registered(n)'
  BY Zenon, <1>2 DEF Registered
<1>3. ASSUME NEW m \in Node, (\E cap \in Capacity[m] : Register(m, cap)) \/ Heartbeat(m) \/ Expire(m)
      PROVE  Registered(n)'
  <2>1. n # m => nodes'[n] = nodes[n]
    BY Zenon, <1>1, <1>3 DEF Register, Heartbeat, Expire
  <2>2. nodes'[m] \in Entry
    <3>1. ASSUME NEW cap \in Capacity[m], Register(m, cap)
          PROVE  nodes'[m] \in Entry
      <4>1. cap \in [cpu : Nat, mem : Nat]
        BY Zenon, CapacityAssumption
      <4>2. [cap |-> cap, fresh |-> TRUE] \in Entry
        BY Zenon, <4>1 DEF Entry
      <4> QED
        BY Zenon, <1>1, <3>1, <4>2 DEF Register
    <3>2. CASE Heartbeat(m) \/ Expire(m)
      <4>1. nodes[m] \in Entry
        BY Zenon, <1>1, <3>2 DEF Heartbeat, Expire, Alive, Registered
      <4>2. PICK b \in BOOLEAN : nodes' = [nodes EXCEPT ![m] = [nodes[m] EXCEPT !.fresh = b]]
        BY Zenon, <3>2 DEF Heartbeat, Expire
      <4>3. [nodes[m] EXCEPT !.fresh = b] \in Entry
        BY Zenon, <4>1 DEF Entry
      <4> QED
        BY Zenon, <1>1, <4>2, <4>3
    <3> QED
      BY Zenon, <1>3, <3>1, <3>2
  <2> QED
    BY Zenon, <2>1, <2>2, EntryAssumption DEF Registered
<1>4. CASE Reconcile
  BY Zenon, <1>2, <1>4 DEF Reconcile, StartPass, EvictDead, StartStatus, FetchStatus,
     StartReplicas, AssignCurrent, NodeMissing, NothingToStop, StopMoved, StopStale,
     KeepCurrent, StartCurrent, Repush, SweepReplica, EndPass, controlVars
<1>5. CASE Api
  BY Zenon, <1>2, <1>5 DEF Api, removeWorkload, addWorkload, rebalance, removeNodeReassign,
     controlVars
<1>6. CASE Agents
  BY Zenon, <1>2, <1>3, <1>6 DEF Agents, Beat, Silence, FinishStart, controlVars
<1>7. CASE Faults
  BY Zenon, <1>2, <1>3, <1>7 DEF Faults, FailStart, Cut, Heal, PowerOff, Boot, Exit, controlVars
<1> QED
  BY Zenon, <1>4, <1>5, <1>6, <1>7 DEF ClusterNext

\* In these circumstances only the pass takes a node out of the registry.
LEMMA OnlyDeadLeave ==
  ASSUME ClusterInv, NoMoves(scenario), leaving = NoEntry, ClusterNext
  PROVE  /\ ~rebalance /\ ~RestartServer /\ ~removeNodeReassign /\ \A n : ~removeNode(n)
         /\ leaving' = NoEntry
<1>1. scenario \in Scenario
  BY Zenon DEF ClusterInv, ClusterTypeOK
<1>2. scenario.calls \subseteq {"add", "remove"} /\ "server" \notin scenario.faults
  BY Zenon, <1>1 DEF NoMoves
<1>3. ~rebalance /\ ~RestartServer /\ ~removeNodeReassign /\ \A n : ~removeNode(n)
  BY Zenon, <1>2 DEF rebalance, RestartServer, removeNodeReassign, removeNode, Called, Happens
<1>4. CASE Reconcile
  BY Zenon, <1>3, <1>4 DEF Reconcile, StartPass, EvictDead, RemoveDead, StartStatus, FetchStatus,
     StartReplicas, AssignCurrent, NodeMissing, NothingToStop, StopMoved, StopStale,
     KeepCurrent, StartCurrent, Repush, SweepReplica, EndPass
<1>5. CASE Api
  BY Zenon, <1>3, <1>5 DEF Api, removeWorkload, addWorkload
<1>6. CASE Agents
  BY Zenon, <1>3, <1>6 DEF Agents, Beat, Silence, FinishStart
<1>7. CASE Faults
  BY Zenon, <1>3, <1>7 DEF Faults, FailStart, Cut, Heal, PowerOff, Boot, Exit
<1> QED
  BY Zenon, <1>4, <1>5, <1>6, <1>7 DEF ClusterNext

\* A node to which nothing is assigned after a step is not overcommitted then.
LEMMA EmptyNodeFits ==
  ASSUME RegistryTypeOK', NEW n \in Node, \A r \in Replica : assignments'[r] # n
  PROVE  n \notin Overcommitted'
<1>1. \A d : Committed(assignments, n, d, NoEntry)' = 0
  <2>1. \A d : UnitsOn(assignments, n, d, NoEntry)' = {}
    BY Zenon DEF UnitsOn
  <2> QED
    BY Zenon, <2>1, FS_EmptySet DEF Committed
<1>2. CASE Registered(n)'
  <2> DEFINE cap == schedulable(nodes'[n].cap)
  <2>1. nodes'[n].cap \in [cpu : Nat, mem : Nat]
    BY Zenon, <1>2 DEF RegistryTypeOK, Registered, Entry
  <2>2. cap.cpu \in Nat /\ cap.mem \in Nat
    BY Zenon, <2>1, SchedulableType
  <2> HIDE DEF cap
  <2>3. ~(0 > cap.cpu) /\ ~(0 > cap.mem)
    BY SMTT(30), <2>2
  <2> QED
    BY Zenon, <1>1, <2>3 DEF Overcommitted, cap
<1> QED
  BY Zenon, <1>2 DEF Overcommitted

LEMMA StandingStep ==
  ASSUME ClusterInv, ClusterInv', NoMoves(scenario), Standing, PassStanding, ClusterNext
  PROVE  Standing'
<1>0. TypeOK /\ MapsAgree /\ TypeOK'
  BY Zenon DEF ClusterInv, ClusterTypeOK
<1>1. /\ ~rebalance /\ ~RestartServer /\ leaving' = NoEntry
      /\ RemoveDead \/ \A n \in Node : Registered(n) => Registered(n)'
  BY Zenon, OnlyDeadLeave, RegisteredStays DEF Standing
<1>2. \/ RegistryNext \/ ReleaseNext \/ UNCHANGED vars
      \/ \E h \in Hash : RequestOf[h] \in Request /\ AssignNext(RequestOf[h])
  BY Zenon, <1>1, SchedulerSteps
<1>3. RegistryNext => UNCHANGED schedVars
  BY Zenon DEF RegistryNext
<1>4. ~RegistryNext => UNCHANGED nodes
  BY Zenon, <1>2 DEF ReleaseNext, AssignNext, vars
<1>5. \A n \in Node : Registered(n)' => nodes'[n].cap \in Capacity[n]
  <2>1. CASE RegistryNext
    BY Zenon, <1>0, <2>1, CapacityStays DEF Standing, TypeOK
  <2>2. CASE UNCHANGED nodes
    BY Zenon, <2>2 DEF Standing, Registered
  <2> QED
    BY Zenon, <1>4, <2>1, <2>2
<1>6. ASSUME NEW r \in Replica, assignments'[r] = assignments[r], assignments[r] # NoEntry
      PROVE  nodes'[assignments'[r]] # NoEntry
  <2>1. assignments[r] \in Node /\ Registered(assignments[r])
    BY Zenon, <1>0, <1>6 DEF Standing, TypeOK, SchedulerTypeOK
  <2>2. CASE RemoveDead
    <3>1. target \in Node /\ assignments[r] # target
      BY Zenon, <2>2 DEF RemoveDead, ClusterInv, PassPlaced, PassStanding, AssignedTo
    <3> QED
      BY Zenon, <1>0, <1>6, <2>1, <2>2, <3>1 DEF RemoveDead, Remove, Registered, TypeOK,
         RegistryTypeOK
  <2> QED
    BY Zenon, <1>1, <1>6, <2>1, <2>2 DEF Registered
<1>7. ASSUME NEW r \in Replica, assignments'[r] # assignments[r] \/ requests'[r] # requests[r],
             assignments'[r] # NoEntry
      PROVE  /\ nodes'[assignments'[r]] # NoEntry /\ UNCHANGED nodes
             /\ \E h \in Hash : requests'[r] = RequestOf[h]
  <2>1. ~RegistryNext /\ ~UNCHANGED vars
    BY Zenon, <1>3, <1>7 DEF schedVars, vars
  <2>2. \A S : ~Drop(S)
    BY Zenon, <1>7 DEF Drop
  <2>3. PICK h \in Hash : RequestOf[h] \in Request /\ AssignNext(RequestOf[h])
    BY Zenon, <1>2, <2>1, <2>2 DEF ReleaseNext, Unassign, ReassignNode
  <2>4. PICK q \in Replica : Assign(q, ParentOf[q], RequestOf[h])
    BY Zenon, <2>3 DEF AssignNext
  <2>5. PICK n \in Node : /\ Registered(n)
                          /\ assignments' = [assignments EXCEPT ![q] = n]
                          /\ requests' = [requests EXCEPT ![q] = RequestOf[h]]
    BY Zenon, <1>0, <2>2, <2>3, <2>4, AssignOutcome
  <2>6. r = q /\ assignments'[r] = n /\ requests'[r] = RequestOf[h]
    BY Zenon, <1>0, <1>7, <2>5 DEF TypeOK, SchedulerTypeOK
  <2> QED
    BY Zenon, <1>4, <2>1, <2>5, <2>6 DEF Registered
<1>8. \A r \in Replica : assignments'[r] # NoEntry => nodes'[assignments'[r]] # NoEntry
  BY Zenon, <1>6, <1>7
<1>9. \A r \in Replica : requests'[r] # NoEntry => \E h \in Hash : requests'[r] = RequestOf[h]
  <2>1. \A r \in Replica : requests'[r] # NoEntry => assignments'[r] # NoEntry
    BY Zenon DEF ClusterInv, MapsAgree
  <2>2. ASSUME NEW r \in Replica, requests'[r] # NoEntry
        PROVE  \E h \in Hash : requests'[r] = RequestOf[h]
    <3>1. CASE requests'[r] = requests[r]
      BY Zenon, <2>2, <3>1 DEF Standing
    <3>2. CASE requests'[r] # requests[r]
      BY Zenon, <1>7, <2>1, <2>2, <3>2
    <3> QED
      BY Zenon, <3>1, <3>2
  <2> QED
    BY Zenon, <2>2
<1>10. Overcommitted' = {}
  <2>1. CASE UNCHANGED vars
    <3>1. UNCHANGED <<nodes, assignments, requests>>
      BY Zenon, <2>1 DEF vars, schedVars
    <3>2. Overcommitted' = Overcommitted
      BY Zenon, <3>1 DEF Overcommitted, Committed, UnitsOn, Asked, Registered
    <3> QED
      BY Zenon, <3>2 DEF Standing
  <2>2. CASE ~UNCHANGED vars
    <3>1. NextNoRebalance
      BY Zenon, <1>2, <2>2 DEF NextNoRebalance
    <3>2. OvercommittedByRegistration
      BY Zenon, <1>0, <3>1, LoadStep
    <3>3. ASSUME NEW n \in Overcommitted'
          PROVE  FALSE
      <4>1. n \in Node /\ Registered(n)'
        BY Zenon, <3>3 DEF Overcommitted
      <4>2. ~Registered(n) \/ nodes'[n].cap # nodes[n].cap
        BY Zenon, <3>2, <3>3 DEF OvercommittedByRegistration, Standing
      <4>3. ASSUME Registered(n)
            PROVE  FALSE
        <5>1. nodes[n].cap \in Capacity[n] /\ nodes'[n].cap \in Capacity[n]
          BY Zenon, <1>5, <4>1, <4>3 DEF Standing
        <5> QED
          BY Zenon, <4>1, <4>2, <4>3, <5>1 DEF NoMoves, OneCapacity
      <4>4. assignments' = assignments
        BY Zenon, <1>3, <1>4, <4>1, <4>3 DEF Registered, schedVars
      <4>5. \A r \in Replica : assignments'[r] # n
        BY Zenon, <4>1, <4>3, <4>4, NoEntryAssumption DEF Standing
      <4>6. n \notin Overcommitted'
        BY Zenon, <1>0, <4>1, <4>5, EmptyNodeFits DEF TypeOK
      <4> QED
        BY Zenon, <3>3, <4>6
    <3> QED
      BY Zenon, <3>3
  <2> QED
    BY Zenon, <2>1, <2>2
<1> QED
  BY Zenon, <1>1, <1>5, <1>8, <1>9, <1>10 DEF Standing, Registered

\* What a pass knows, and what it has pushed, only the pass changes.
LEMMA OnlyPassPushes ==
  ASSUME ClusterNext, ~Reconcile, ~RestartServer
  PROVE  UNCHANGED <<pushed, pc, desired, todo, target, running, unavailable, recent, listed>>
<1>1. UNCHANGED <<pushed, passVars>>
  <2>1. CASE Api
    BY Zenon, <2>1 DEF Api, removeWorkload, addWorkload, rebalance, removeNode, removeNodeReassign,
       controlVars
  <2>2. CASE Agents
    BY Zenon, <2>2 DEF Agents, Beat, Silence, FinishStart, controlVars
  <2>3. CASE Faults
    BY Zenon, <2>3 DEF Faults, FailStart, Cut, Heal, PowerOff, Boot, Exit, controlVars
  <2> QED
    BY Zenon, <2>1, <2>2, <2>3 DEF ClusterNext
<1> QED
  BY Zenon, <1>1 DEF passVars

\* And in these circumstances it alone places and unassigns.
LEMMA OnlyPassPlaces ==
  ASSUME ClusterInv, NoMoves(scenario), leaving = NoEntry, ClusterNext, ~Reconcile
  PROVE  UNCHANGED <<assignments, pushed, pc, desired, todo, target, running, unavailable, recent,
                     listed>>
<1>1. ~rebalance /\ ~RestartServer /\ ~removeNodeReassign /\ \A n : ~removeNode(n)
  BY Zenon, OnlyDeadLeave
<1>2. UNCHANGED schedVars
  <2>1. CASE Api
    BY Zenon, <1>1, <2>1 DEF Api, removeWorkload, addWorkload, controlVars
  <2>2. CASE Agents
    BY Zenon, <2>2 DEF Agents, Beat, Silence, FinishStart, controlVars
  <2>3. CASE Faults
    BY Zenon, <1>1, <2>3 DEF Faults, FailStart, Cut, Heal, PowerOff, Boot, Exit, controlVars
  <2> QED
    BY Zenon, <2>1, <2>2, <2>3 DEF ClusterNext
<1> QED
  BY Zenon, <1>1, <1>2, OnlyPassPushes DEF schedVars

\* A replica that is assigned stays assigned to its node until the node is
\* found dead or the replica is no longer desired (Assign, reconcile).
LEMMA NothingMoves ==
  ASSUME ClusterInv, NoMoves(scenario), Standing, PassStanding, ClusterNext,
         NEW r \in Replica, assignments[r] # NoEntry, assignments'[r] # assignments[r]
  PROVE  /\ assignments'[r] = NoEntry
         /\ (\E n \in Node : EvictDead(n) /\ assignments[r] = n) \/ SweepReplica(r)
<1>0. TypeOK /\ MapsAgree
  BY Zenon DEF ClusterInv, ClusterTypeOK
<1>1. Reconcile
  BY Zenon, OnlyPassPlaces DEF Standing
<1>2. ~AssignCurrent
  <2> SUFFICES ASSUME AssignCurrent
               PROVE  FALSE
    OBVIOUS
  <2> DEFINE req == RequestOf[Wanted.hash]
  <2>1. pc \in InLoop /\ todo # {} /\ Assign(Current, ParentOf[Current], req)
    BY Zenon DEF AssignCurrent, InLoop
  <2>2. Current \in Replica /\ Wanted.hash \in Hash
    BY Zenon, <2>1, CurrentType
  <2>3. r = Current
    BY Zenon, <1>0, <2>1, <2>2 DEF Assign, AssignSticky, AssignPlaced, AssignFailed, TypeOK,
       SchedulerTypeOK
  <2>4. StaysPut(Current, req)
    BY Zenon, <1>0, <2>2, <2>3, AssignedStays DEF NoMoves
  <2> HIDE DEF req
  <2> QED
    BY Zenon, <2>1, <2>4 DEF Assign, AssignSticky, AssignPlaced, AssignFailed
<1>3. ~NodeMissing
  <2> SUFFICES ASSUME NodeMissing
               PROVE  FALSE
    OBVIOUS
  <2>1. pc = "push" /\ pc \in InLoop /\ todo # {} /\ target \in Node /\ ~Registered(target)
    BY Zenon DEF NodeMissing, InLoop, ClusterInv, PassPlaced
  <2>2. Current \in Replica /\ assignments[Current] = target
    BY Zenon, <2>1, CurrentType DEF PassStanding
  <2> QED
    BY Zenon, <2>1, <2>2, NoEntryAssumption DEF Standing
<1>4. \/ \E n \in Node : EvictDead(n)
      \/ \E q \in Replica : SweepReplica(q)
      \/ assignments' = assignments
  BY Zenon, <1>1, <1>2, <1>3 DEF Reconcile, StartPass, RemoveDead, StartStatus, FetchStatus,
     StartReplicas, NothingToStop, StopMoved, StopStale, KeepCurrent, StartCurrent, Repush, EndPass,
     controlVars, schedVars
<1>5. ASSUME NEW n \in Node, EvictDead(n)
      PROVE  assignments'[r] = NoEntry /\ assignments[r] = n
  BY Zenon, <1>5 DEF EvictDead, ReassignNode, Drop, AssignedTo
<1>6. ASSUME NEW q \in Replica, SweepReplica(q)
      PROVE  assignments'[r] = NoEntry /\ q = r
  BY Zenon, <1>6 DEF SweepReplica, Unassign, Drop
<1> QED
  BY Zenon, <1>4, <1>5, <1>6

LEMMA PassStandingStep ==
  ASSUME ClusterInv, ClusterInv', NoMoves(scenario), Standing, PassStanding, ClusterNext
  PROVE  PassStanding'
<1>0. TypeOK /\ MapsAgree /\ pushed \in [Replica -> PushRecord \cup {NoEntry}]
  BY Zenon DEF ClusterInv, ClusterTypeOK
<1>1. CASE ~Reconcile
  <2>1. UNCHANGED <<assignments, pushed, pc, desired, todo, target, running, unavailable, recent,
                    listed>>
    BY Zenon, <1>1, OnlyPassPlaces DEF Standing
  <2> QED
    BY Zenon, <2>1 DEF PassStanding, AssignedTo, Current
<1>2. ASSUME pc \in {"push", "start"}
      PROVE  /\ Current \in Replica /\ target \in Node /\ assignments[Current] = target
             /\ Registered(target)
  <2>1. pc \in InLoop /\ todo # {} /\ target \in Node
    BY Zenon, <1>2 DEF ClusterInv, PassPlaced, InLoop
  <2>2. Current \in Replica /\ assignments[Current] = target
    BY Zenon, <1>2, <2>1, CurrentType DEF PassStanding
  <2> QED
    BY Zenon, <2>1, <2>2, NoEntryAssumption DEF Standing
<1>3. ASSUME Reconcile
      PROVE  \A r \in Replica : pushed'[r] # NoEntry => assignments'[r] = pushed'[r].node
  <2>1. ASSUME NEW r \in Replica, pushed[r] # NoEntry, pushed'[r] = pushed[r]
        PROVE  assignments'[r] = pushed'[r].node
    <3>1. assignments[r] = pushed[r].node /\ pushed[r].node \in Node /\ assignments[r] # NoEntry
      BY Zenon, <1>0, <2>1, NoEntryAssumption DEF PassStanding, PushRecord
    <3>2. ASSUME NEW n \in Node, EvictDead(n), assignments[r] = n
          PROVE  FALSE
      BY Zenon, <2>1, <3>2 DEF EvictDead, AssignedTo
    <3>3. ASSUME SweepReplica(r)
          PROVE  FALSE
      BY Zenon, <1>0, <2>1, <3>3 DEF SweepReplica
    <3> QED
      BY Zenon, <2>1, <3>1, <3>2, <3>3, NothingMoves
  <2>2. ASSUME NEW r \in Replica, pushed'[r] # NoEntry, pushed'[r] # pushed[r]
        PROVE  assignments'[r] = pushed'[r].node
    <3>1. ~(\E n \in Node : EvictDead(n)) /\ ~(\E q \in Replica : SweepReplica(q))
          /\ ~(\E late \in SUBSET Replica : Repush(late))
      BY Zenon, <1>0, <2>2 DEF EvictDead, SweepReplica, Repush
    <3>2. StartCurrent
      BY Zenon, <1>3, <2>2, <3>1 DEF Reconcile, StartPass, RemoveDead, StartStatus, FetchStatus,
         StartReplicas, AssignCurrent, NodeMissing, NothingToStop, StopMoved, StopStale,
         KeepCurrent, EndPass, controlVars
    <3>3. pc = "start" /\ assignments' = assignments
      BY Zenon, <3>2 DEF StartCurrent, schedVars
    <3>4. pushed' = [pushed EXCEPT ![Current] = [node |-> target, hash |-> Wanted.hash]]
      BY Zenon, <2>2, <3>2 DEF StartCurrent
    <3>5. r = Current /\ pushed'[r] = [node |-> target, hash |-> Wanted.hash]
      BY Zenon, <1>0, <1>2, <2>2, <3>3, <3>4
    <3>6. pushed'[r].node = target
      BY SMTT(30), <3>5
    <3> QED
      BY Zenon, <1>2, <3>3, <3>5, <3>6
  <2> QED
    BY Zenon, <2>1, <2>2
<1>4. ASSUME Reconcile
      PROVE  pc' = "remove" => AssignedTo(target)' = {}
  <2>1. ASSUME pc' = "remove"
        PROVE  \E n \in Node : EvictDead(n)
    BY Zenon, <1>4, <2>1 DEF Reconcile, StartPass, RemoveDead, StartStatus, FetchStatus,
       StartReplicas, AssignCurrent, NodeMissing, NothingToStop, StopMoved, StopStale,
       KeepCurrent, StartCurrent, Repush, SweepReplica, EndPass, NextReplica, PassReset
  <2>2. ASSUME NEW n \in Node, EvictDead(n)
        PROVE  AssignedTo(target)' = {}
    <3>1. target' = n /\ \A r \in Replica : assignments'[r] # n
      BY Zenon, <2>2, NoEntryAssumption DEF EvictDead, ReassignNode, Drop, AssignedTo
    <3> QED
      BY Zenon, <3>1 DEF AssignedTo
  <2> QED
    BY Zenon, <2>1, <2>2
<1>5. ASSUME Reconcile, pc' \in {"push", "start"}
      PROVE  assignments'[Current'] = target'
  <2>1. CASE AssignCurrent
    <3>1. todo' = todo /\ target' = assignments'[Current]
      BY Zenon, <1>5, <2>1 DEF AssignCurrent, NextReplica
    <3> QED
      BY Zenon, <3>1 DEF Current
  <2>2. CASE ~AssignCurrent
    <3>1. pc = "push" /\ UNCHANGED <<todo, target, assignments>>
      BY Zenon, <1>5, <2>2 DEF Reconcile, StartPass, EvictDead, RemoveDead, StartStatus,
         FetchStatus, StartReplicas, NodeMissing, NothingToStop, StopMoved, StopStale,
         KeepCurrent, StartCurrent, Repush, SweepReplica, EndPass, NextReplica, PassReset,
         controlVars, schedVars
    <3> QED
      BY Zenon, <1>2, <3>1 DEF Current
  <2> QED
    BY Zenon, <2>1, <2>2
<1>6. ASSUME Reconcile, pc' = "sweep"
      PROVE  \A r \in todo' : listed'[r] = assignments'[r] /\ r \notin expand(desired')
  <2>1. CASE \E late \in SUBSET Replica : Repush(late)
    BY Zenon, <2>1 DEF Repush, schedVars
  <2>2. CASE \E q \in Replica : SweepReplica(q)
    <3>1. PICK q \in Replica : SweepReplica(q)
      BY Zenon, <2>2
    <3>2. /\ pc = "sweep" /\ todo' = todo \ {q} /\ UNCHANGED <<desired, listed>>
          /\ \A r \in Replica : r # q => assignments'[r] = assignments[r]
      BY Zenon, <3>1 DEF SweepReplica, Unassign, Drop
    <3>3. todo \subseteq Replica
      BY Zenon, <3>2 DEF ClusterInv, ClusterTypeOK
    <3> QED
      BY Zenon, <3>2, <3>3 DEF PassStanding
  <2> QED
    BY Zenon, <1>6, <2>1, <2>2 DEF Reconcile, StartPass, EvictDead, RemoveDead, StartStatus,
       FetchStatus, StartReplicas, AssignCurrent, NodeMissing, NothingToStop, StopMoved, StopStale,
       KeepCurrent, StartCurrent, EndPass, NextReplica, PassReset
<1> QED
  BY Zenon, <1>1, <1>3, <1>4, <1>5, <1>6 DEF PassStanding

-----------------------------------------------------------------------------
(***************************************************************************)
(* Copies of a replica.                                                    *)
(***************************************************************************)

\* A copy of r on n: a container, or the start of one.
CopyOn(r, n) ==
  containers[n][r] # NoEntry \/ \E s \in starting : s.node = n /\ s.replica = r

\* Stopping or losing a container makes no copy.
LEMMA UnassignCopies ==
  ASSUME ClusterInv, NEW m \in Node, NEW q \in Replica, NEW handled,
         handleUnassign(m, q, handled), NEW n \in Node, NEW r \in Replica,
         containers'[n][r] # NoEntry
  PROVE  /\ containers[n][r] # NoEntry
         /\ handled => n # m \/ r # q
<1>1. containers \in [Node -> [Replica -> Hash \cup {NoEntry}]]
  BY Zenon DEF ClusterInv, ClusterTypeOK
<1>2. CASE ~handled
  BY Zenon, <1>2 DEF handleUnassign
<1>3. CASE handled
  <2>1. containers' = [containers EXCEPT ![m] = [containers[m] EXCEPT ![q] = NoEntry]]
    BY Zenon, <1>3 DEF handleUnassign
  <2>2. containers[m] \in [Replica -> Hash \cup {NoEntry}]
    BY Zenon, <1>1
  <2>3. CASE n # m
    BY Zenon, <1>1, <2>1, <2>3
  <2>4. CASE n = m
    <3>1. containers'[n] = [containers[m] EXCEPT ![q] = NoEntry]
      BY Zenon, <1>1, <2>1, <2>4
    <3> QED
      BY Zenon, <2>2, <2>4, <3>1
  <2> QED
    BY Zenon, <2>3, <2>4
<1> QED
  BY Zenon, <1>2, <1>3

\* Only a push to a node that is up makes a copy (handleAssign); finishing a
\* start makes none.
LEMMA NewCopy ==
  ASSUME ClusterInv, ClusterNext, NEW n \in Node, NEW r \in Replica, CopyOn(r, n)', ~CopyOn(r, n)
  PROVE  StartCurrent /\ r = Current /\ n = target /\ cond[n] = "up"
<1>0. /\ containers \in [Node -> [Replica -> Hash \cup {NoEntry}]]
      /\ starting \subseteq [node : Node, replica : Replica, hash : Hash]
  BY Zenon DEF ClusterInv, ClusterTypeOK
<1>1. ASSUME containers'[n][r] # NoEntry => containers[n][r] # NoEntry, starting' \subseteq starting
      PROVE  FALSE
  BY Zenon, <1>1 DEF CopyOn
<1>2. ASSUME NEW m \in Node, NEW q \in Replica, NEW handled, handleUnassign(m, q, handled),
             starting' \subseteq starting
      PROVE  FALSE
  BY Zenon, <1>1, <1>2, UnassignCopies
<1>3. ASSUME UNCHANGED <<containers, starting>>
      PROVE  FALSE
  BY Zenon, <1>1, <1>3
<1>4. ASSUME pc \in {"push", "start"}
      PROVE  /\ Current \in Replica /\ target \in Node
             /\ pushed[Current] # NoEntry => pushed[Current].node \in Node
  <2>1. pc \in InLoop /\ todo # {} /\ target \in Node
    BY Zenon, <1>4 DEF ClusterInv, PassPlaced, InLoop
  <2>2. Current \in Replica
    BY Zenon, <2>1, CurrentType
  <2> QED
    BY Zenon, <2>1, <2>2 DEF ClusterInv, ClusterTypeOK, PushRecord
<1>5. ASSUME Reconcile
      PROVE  StartCurrent
  <2>1. CASE StopMoved
    BY Zenon, <1>2, <1>4, <2>1 DEF StopMoved, Moved, Unpushed
  <2>2. CASE StopStale
    BY Zenon, <1>2, <1>4, <2>2 DEF StopStale
  <2>3. CASE \E q \in Replica : SweepReplica(q)
    <3>1. PICK q \in Replica : SweepReplica(q)
      BY Zenon, <2>3
    <3>2. listed[q] \in Node /\ UNCHANGED starting
      BY Zenon, <3>1 DEF SweepReplica, ClusterInv, ClusterTypeOK, PassPlaced
    <3> QED
      BY Zenon, <1>2, <1>3, <3>1, <3>2 DEF SweepReplica
  <2> QED
    BY Zenon, <1>3, <1>5, <2>1, <2>2, <2>3 DEF Reconcile, StartPass, EvictDead, RemoveDead,
       StartStatus, FetchStatus, StartReplicas, AssignCurrent, NodeMissing, NothingToStop,
       KeepCurrent, Repush, EndPass, agentVars
<1>6. ~Api
  BY Zenon, <1>3 DEF Api, removeWorkload, addWorkload, rebalance, removeNode,
     removeNodeReassign, agentVars
<1>7. ~Agents
  <2>1. ASSUME NEW s \in starting, FinishStart(s)
        PROVE  FALSE
    <3>1. s.node \in Node /\ s.replica \in Replica
      BY Zenon, <1>0, <2>1
    <3>2. starting' \subseteq starting
      BY Zenon, <2>1 DEF FinishStart
    <3>3. CASE n = s.node /\ r = s.replica
      BY Zenon, <3>3 DEF CopyOn
    <3>4. CASE n # s.node \/ r # s.replica
      <4> DEFINE new == [containers[s.node] EXCEPT ![s.replica] = IF @ = NoEntry THEN s.hash ELSE @]
      <4>1. containers' = [containers EXCEPT ![s.node] = new]
        BY Zenon, <2>1 DEF FinishStart
      <4>2. r # s.replica => new[r] = containers[s.node][r]
        BY Zenon, <1>0, <3>1
      <4> HIDE DEF new
      <4>3. containers'[n][r] = containers[n][r]
        BY Zenon, <1>0, <3>1, <3>4, <4>1, <4>2
      <4> QED
        BY Zenon, <1>1, <3>2, <4>3
    <3> QED
      BY Zenon, <3>3, <3>4
  <2> QED
    BY Zenon, <1>3, <2>1 DEF Agents, Beat, Silence, agentVars
<1>8. ~Faults
  <2>1. ASSUME NEW s \in starting, FailStart(s)
        PROVE  FALSE
    BY Zenon, <1>1, <2>1 DEF FailStart
  <2>2. ASSUME NEW m \in Node, NEW q \in Replica, Exit(m, q)
        PROVE  FALSE
    <3>1. handleUnassign(m, q, TRUE) /\ UNCHANGED starting
      BY Zenon, <2>2 DEF Exit, handleUnassign
    <3> QED
      BY Zenon, <1>2, <3>1
  <2>3. ASSUME NEW m \in Node, PowerOff(m)
        PROVE  FALSE
    <3>1. starting' \subseteq starting /\ containers' = [containers EXCEPT ![m] = [q \in Replica |-> NoEntry]]
      BY Zenon, <2>3 DEF PowerOff
    <3>2. containers'[n][r] # NoEntry => containers[n][r] # NoEntry
      BY Zenon, <1>0, <3>1
    <3> QED
      BY Zenon, <1>1, <3>1, <3>2
  <2> QED
    BY Zenon, <1>3, <2>1, <2>2, <2>3 DEF Faults, Cut, Heal, Boot, RestartServer, agentVars
<1>9. StartCurrent
  BY Zenon, <1>5, <1>6, <1>7, <1>8 DEF ClusterNext
<1>10. PICK handled, answered \in BOOLEAN :
         Call(target, handled, answered) /\ handleAssign(target, Current, Wanted.hash, handled)
  BY Zenon, <1>9 DEF StartCurrent
<1>11. UNCHANGED containers
  BY Zenon, <1>9 DEF StartCurrent
<1>12. PICK s \in starting' : s.node = n /\ s.replica = r /\ s \notin starting
  BY Zenon, <1>11 DEF CopyOn
<1>13. handled /\ s = [node |-> target, replica |-> Current, hash |-> Wanted.hash]
  BY Zenon, <1>10, <1>12 DEF handleAssign
<1>14. s.node = target /\ s.replica = Current
  BY SMTT(30), <1>13
<1>15. cond[target] = "up"
  BY Zenon, <1>10, <1>13 DEF Call
<1> QED
  BY Zenon, <1>9, <1>12, <1>14, <1>15

\* A node is found dead only if it could not be heard of.
LEMMA NewlyDead ==
  ASSUME ClusterInv, ClusterNext, NEW n \in Node, n \in Dead', n \notin Dead
  PROVE  Silence(n)
<1>0. nodes \in [Node -> Entry \cup {NoEntry}]
  BY Zenon DEF ClusterInv, ClusterTypeOK, TypeOK, RegistryTypeOK
<1>1. nodes'[n] # NoEntry /\ ~nodes'[n].fresh /\ nodes'[n] # nodes[n]
  BY Zenon DEF Dead, Registered
<1>2. ASSUME NEW m \in Node, NEW cap, Register(m, cap)
      PROVE  FALSE
  <2>1. n = m /\ nodes'[n] = [cap |-> cap, fresh |-> TRUE]
    BY Zenon, <1>0, <1>1, <1>2 DEF Register
  <2>2. nodes'[n].fresh = TRUE
    BY SMTT(30), <2>1
  <2> QED
    BY Zenon, <1>1, <2>2
<1>3. ASSUME NEW m \in Node, Heartbeat(m)
      PROVE  FALSE
  <2>1. n = m /\ nodes'[n] = [nodes[n] EXCEPT !.fresh = TRUE] /\ nodes[n] \in Entry
    BY Zenon, <1>0, <1>1, <1>3 DEF Heartbeat, Registered
  <2>2. nodes'[n].fresh = TRUE
    BY Zenon, <2>1 DEF Entry
  <2> QED
    BY Zenon, <1>1, <2>2
<1>4. ASSUME NEW m \in Node, Remove(m)
      PROVE  FALSE
  BY Zenon, <1>0, <1>1, <1>4 DEF Remove
<1>5. ASSUME NEW m \in Node, Expire(m)
      PROVE  m = n
  BY Zenon, <1>0, <1>1, <1>5 DEF Expire
<1>6. ~UNCHANGED nodes
  BY Zenon, <1>1
<1>7. ~Reconcile
  <2>1. ~RemoveDead
    BY Zenon, <1>4 DEF RemoveDead, ClusterInv, PassPlaced
  <2> QED
    BY Zenon, <1>6, <2>1 DEF Reconcile, StartPass, EvictDead, StartStatus, FetchStatus,
       StartReplicas, AssignCurrent, NodeMissing, NothingToStop, StopMoved, StopStale,
       KeepCurrent, StartCurrent, Repush, SweepReplica, EndPass, controlVars
<1>8. ~Api
  BY Zenon, <1>4, <1>6 DEF Api, removeWorkload, addWorkload, rebalance, removeNode,
     removeNodeReassign, controlVars
<1>9. ~Faults
  <2>1. ~RestartServer
    BY Zenon, <1>0, <1>1 DEF RestartServer
  <2> QED
    BY Zenon, <1>2, <1>6, <2>1 DEF Faults, FailStart, Cut, Heal, PowerOff, Boot, Exit, controlVars
<1>10. Agents
  BY Zenon, <1>7, <1>8, <1>9 DEF ClusterNext
<1> QED
  BY Zenon, <1>2, <1>3, <1>5, <1>6, <1>10 DEF Agents, Beat, Silence, FinishStart, controlVars

-----------------------------------------------------------------------------
(***************************************************************************)
(* Workloads that are never scaled in are never swept.                     *)
(***************************************************************************)

\* A scenario in which no workload is removed or loses replicas.
NoScaleIn(s) ==
  "remove" \notin s.calls /\ \A w \in s.submitted, v \in Workload : v.replicas <= w.replicas

\* What is assigned is desired, and was when the pass read the store.
StillDesired ==
  /\ Assigned \subseteq expand(store)
  /\ pc # "idle" => Assigned \subseteq expand(desired) /\ expand(desired) \subseteq expand(store)
  /\ pc = "sweep" => todo = {}

\* Replacing a workload by one that is no smaller keeps its replicas desired.
LEMMA ExpandGrows ==
  ASSUME NEW st \in [Parent -> Workload \cup {NoEntry}], NEW p \in Parent, NEW w \in Workload,
         \A v \in Workload : v.replicas <= w.replicas
  PROVE  expand(st) \subseteq expand([st EXCEPT ![p] = w])
<1> SUFFICES ASSUME NEW r \in expand(st)
             PROVE  r \in expand([st EXCEPT ![p] = w])
  BY Zenon
<1>1. r \in Replica /\ ParentOf[r] \in Parent /\ Index[r] \in Nat
  BY Zenon, ParentAssumption, WorkloadAssumption DEF expand
<1>2. CASE ParentOf[r] # p
  BY Zenon, <1>1, <1>2 DEF expand
<1>3. CASE ParentOf[r] = p
  <2>1. [st EXCEPT ![p] = w][ParentOf[r]] = w /\ w # NoEntry
    BY Zenon, <1>3, WorkloadAssumption
  <2>2. PICK v \in Workload : v = st[p] /\ Index[r] < (IF v.replicas < 1 THEN 1 ELSE v.replicas)
    BY Zenon, <1>1, <1>3 DEF expand
  <2>3. v.replicas \in Nat /\ w.replicas \in Nat /\ v.replicas <= w.replicas
    BY Zenon, WorkloadAssumption
  <2>4. Index[r] < (IF w.replicas < 1 THEN 1 ELSE w.replicas)
    BY SMTT(30), <1>1, <2>2, <2>3
  <2> QED
    BY Zenon, <1>1, <2>1, <2>4 DEF expand
<1> QED
  BY Zenon, <1>2, <1>3

LEMMA StillDesiredStep ==
  ASSUME ClusterInv, StillDesired, NoScaleIn(scenario), ClusterNext
  PROVE  StillDesired'
<1>0. /\ store \in [Parent -> Workload \cup {NoEntry}] /\ scenario.submitted \subseteq Workload
      /\ assignments \in [Replica -> Node \cup {NoEntry}] /\ TypeOK
  BY Zenon, ScenarioAssumption DEF ClusterInv, ClusterTypeOK, TypeOK, SchedulerTypeOK, ScenarioType
<1>1. expand(store) \subseteq expand(store')
  <2>1. ASSUME NEW p \in Parent, NEW w \in scenario.submitted, addWorkload(p, w)
        PROVE  expand(store) \subseteq expand(store')
    BY Zenon, <1>0, <2>1, ExpandGrows DEF addWorkload, NoScaleIn
  <2>2. ~(\E p \in Parent : removeWorkload(p))
    BY Zenon DEF removeWorkload, Called, NoScaleIn
  <2>3. ASSUME UNCHANGED store
        PROVE  expand(store) \subseteq expand(store')
    BY Zenon, <2>3
  <2>4. CASE Reconcile
    BY Zenon, <2>3, <2>4 DEF Reconcile, StartPass, EvictDead, RemoveDead, StartStatus, FetchStatus,
       StartReplicas, AssignCurrent, NodeMissing, NothingToStop, StopMoved, StopStale,
       KeepCurrent, StartCurrent, Repush, SweepReplica, EndPass
  <2>5. CASE Api
    BY Zenon, <2>1, <2>2, <2>3, <2>5 DEF Api, rebalance, removeNode, removeNodeReassign
  <2>6. CASE Agents
    BY Zenon, <2>3, <2>6 DEF Agents, Beat, Silence, FinishStart
  <2>7. CASE Faults
    BY Zenon, <2>3, <2>7 DEF Faults, FailStart, Cut, Heal, PowerOff, Boot, Exit, RestartServer
  <2> QED
    BY Zenon, <2>4, <2>5, <2>6, <2>7 DEF ClusterNext
<1>2. /\ Assigned' \subseteq Assigned \cup expand(desired)
      /\ pc = "idle" => Assigned' \subseteq Assigned
  <2>1. ASSUME NEW S, Drop(S)
        PROVE  Assigned' \subseteq Assigned
    BY Zenon, <2>1 DEF Drop, Assigned
  <2>2. ASSUME rebalance
        PROVE  Assigned' \subseteq Assigned
    <3> DEFINE moves == planLocked(assignments)
    <3>1. \A r \in DOMAIN moves : assignments[r] # NoEntry
      BY Zenon DEF planLocked
    <3>2. assignments' = [r \in Replica |-> IF r \in DOMAIN moves THEN moves[r] ELSE assignments[r]]
      BY Zenon, <2>2 DEF rebalance, Rebalance
    <3> HIDE DEF moves
    <3> QED
      BY Zenon, <3>1, <3>2 DEF Assigned
  <2>3. ASSUME UNCHANGED assignments
        PROVE  Assigned' \subseteq Assigned
    BY Zenon, <2>3 DEF Assigned
  <2>4. ASSUME AssignCurrent
        PROVE  pc # "idle" /\ Assigned' \subseteq Assigned \cup expand(desired)
    <3>1. pc \in InLoop /\ pc # "idle" /\ todo # {}
          /\ Assign(Current, ParentOf[Current], RequestOf[Wanted.hash])
      BY Zenon, <2>4 DEF AssignCurrent, InLoop
    <3>2. Current \in Replica /\ Current \in expand(desired)
      BY Zenon, <3>1, CurrentType
    <3>3. \A r \in Replica : r # Current => assignments'[r] = assignments[r]
      BY Zenon, <1>0, <3>1, <3>2 DEF Assign, AssignSticky, AssignPlaced, AssignFailed
    <3> QED
      BY Zenon, <3>1, <3>2, <3>3 DEF Assigned
  <2>5. \/ \E S : Drop(S)
        \/ UNCHANGED assignments
        \/ AssignCurrent
        \/ rebalance
    BY Zenon, SchedulerSteps DEF RegistryNext, ReleaseNext, Unassign, ReassignNode, RestartServer,
       vars, schedVars
  <2> QED
    BY Zenon, <2>1, <2>2, <2>3, <2>4, <2>5
<1>3. ASSUME pc' # "idle"
      PROVE  (pc = "idle" /\ desired' = store) \/ (pc # "idle" /\ desired' = desired)
  <2>1. CASE Reconcile
    BY Zenon, <1>3, <2>1 DEF Reconcile, StartPass, EvictDead, RemoveDead, StartStatus, FetchStatus,
       StartReplicas, AssignCurrent, NodeMissing, NothingToStop, StopMoved, StopStale,
       KeepCurrent, StartCurrent, Repush, SweepReplica, EndPass, PassReset
  <2>2. ASSUME UNCHANGED passVars
        PROVE  (pc = "idle" /\ desired' = store) \/ (pc # "idle" /\ desired' = desired)
    BY Zenon, <1>3, <2>2 DEF passVars
  <2>3. CASE Api
    BY Zenon, <2>2, <2>3 DEF Api, removeWorkload, addWorkload, rebalance, removeNode,
       removeNodeReassign
  <2>4. CASE Agents
    BY Zenon, <2>2, <2>4 DEF Agents, Beat, Silence, FinishStart
  <2>5. CASE Faults
    BY Zenon, <1>3, <2>2, <2>5 DEF Faults, FailStart, Cut, Heal, PowerOff, Boot, Exit,
       RestartServer, PassReset
  <2> QED
    BY Zenon, <2>1, <2>3, <2>4, <2>5 DEF ClusterNext
<1>4. pc' = "sweep" => todo' = {}
  <2>1. CASE Reconcile
    <3>1. \A late : Repush(late) => todo' = {}
      BY Zenon DEF Repush, StillDesired
    <3> QED
      BY Zenon, <2>1, <3>1 DEF Reconcile, StartPass, EvictDead, RemoveDead, StartStatus, FetchStatus,
         StartReplicas, AssignCurrent, NodeMissing, NothingToStop, StopMoved, StopStale,
         KeepCurrent, StartCurrent, SweepReplica, EndPass, PassReset, NextReplica, StillDesired
  <2>2. ASSUME UNCHANGED passVars
        PROVE  pc' = "sweep" => todo' = {}
    BY Zenon, <2>2 DEF passVars, StillDesired
  <2>3. CASE Api
    BY Zenon, <2>2, <2>3 DEF Api, removeWorkload, addWorkload, rebalance, removeNode,
       removeNodeReassign
  <2>4. CASE Agents
    BY Zenon, <2>2, <2>4 DEF Agents, Beat, Silence, FinishStart
  <2>5. CASE Faults
    BY Zenon, <2>2, <2>5 DEF Faults, FailStart, Cut, Heal, PowerOff, Boot, Exit,
       RestartServer, PassReset
  <2> QED
    BY Zenon, <2>1, <2>3, <2>4, <2>5 DEF ClusterNext
<1>5. Assigned' \subseteq expand(store')
  BY Zenon, <1>1, <1>2 DEF StillDesired
<1>6. pc' # "idle" => Assigned' \subseteq expand(desired') /\ expand(desired') \subseteq expand(store')
  BY Zenon, <1>1, <1>2, <1>3 DEF StillDesired
<1> QED
  BY Zenon, <1>4, <1>5, <1>6 DEF StillDesired

-----------------------------------------------------------------------------
(***************************************************************************)
(* One copy, where nothing moves.                                          *)
(***************************************************************************)

\* Circumstances: no partition, and a replica that is no longer desired is
\* stopped for good: there is none, or the starts are finished before the next
\* tick and no request is lost.
StopsReach(s) ==
  /\ "cut" \notin s.faults
  /\ NoScaleIn(s) \/ (s.prompt /\ "lost_request" \notin s.faults)

\* Every copy is where its replica is assigned.  There is none on a host that
\* is down or on a node that is being evicted.
AtHome ==
  /\ \A r \in Replica, n \in Node : CopyOn(r, n) => assignments[r] = n
  /\ \A n \in Node : cond[n] = "up" \/ (cond[n] = "off" /\ \A r \in Replica : ~CopyOn(r, n))
  /\ \A n \in Dead : cond[n] # "up"
  /\ pc \in {"evict", "remove"} => \A n \in todo, r \in Replica : ~CopyOn(r, n)
  /\ scenario.prompt /\ pc # "idle" => \A s \in starting : s.replica \in expand(desired)

\* Sweeping stops the last copy of a replica (handleUnassign).
LEMMA SweptIsGone ==
  ASSUME ClusterInv, Standing, PassStanding, StopsReach(scenario),
         NoScaleIn(scenario) => StillDesired,
         AtHome, NEW r \in Replica, SweepReplica(r), NEW n \in Node, assignments[r] = n
  PROVE  ~CopyOn(r, n)'
<1>1. pc = "sweep" /\ r \in todo /\ UNCHANGED starting
  BY Zenon DEF SweepReplica
<1>2. scenario.prompt /\ "lost_request" \notin scenario.faults
  BY Zenon, <1>1 DEF StillDesired, StopsReach, ClusterInv, ClusterTypeOK
<1>3. listed[r] = n /\ Registered(n) /\ r \notin expand(desired)
  BY Zenon, <1>1, NoEntryAssumption DEF Standing, PassStanding
<1>4. ~(\E s \in starting' : s.node = n /\ s.replica = r)
  BY Zenon, <1>1, <1>2, <1>3 DEF AtHome
<1>5. PICK handled, answered \in BOOLEAN :
        Call(n, handled, answered) /\ handleUnassign(n, r, handled)
  BY Zenon, <1>3 DEF SweepReplica
<1>6. containers'[n][r] = NoEntry
  <2>1. CASE handled
    BY Zenon, <1>5, <2>1, UnassignCopies
  <2>2. CASE ~handled
    <3>1. cond[n] # "up"
      BY Zenon, <1>2, <1>5, <2>2 DEF Call, Happens
    <3> QED
      BY Zenon, <1>5, <2>2, <3>1 DEF AtHome, CopyOn, handleUnassign
  <2> QED
    BY Zenon, <2>1, <2>2
<1> QED
  BY Zenon, <1>4, <1>6 DEF CopyOn

\* Conditions of nodes: without partitions a node is cut off only by its host
\* going down with all that is on it.
LEMMA CondSteps ==
  ASSUME ClusterInv, AtHome, "cut" \notin scenario.faults, ClusterNext, NEW n \in Node
  PROVE  \/ cond'[n] = cond[n]
         \/ PowerOff(n)
         \/ Boot(n)
<1>0. cond \in [Node -> {"up", "cut", "off"}]
  BY Zenon DEF ClusterInv, ClusterTypeOK
<1>1. CASE Reconcile
  BY Zenon, <1>1 DEF Reconcile, StartPass, EvictDead, RemoveDead, StartStatus, FetchStatus,
     StartReplicas, AssignCurrent, NodeMissing, NothingToStop, StopMoved, StopStale,
     KeepCurrent, StartCurrent, Repush, SweepReplica, EndPass, agentVars
<1>2. CASE Api
  BY Zenon, <1>2 DEF Api, removeWorkload, addWorkload, rebalance, removeNode,
     removeNodeReassign, agentVars
<1>3. CASE Agents
  BY Zenon, <1>3 DEF Agents, Beat, Silence, FinishStart, agentVars
<1>4. CASE Faults
  <2>1. ASSUME NEW m \in Node, Cut(m) \/ Heal(m)
        PROVE  FALSE
    BY Zenon, <2>1 DEF Cut, Heal, Happens, AtHome
  <2>2. ASSUME NEW m \in Node, PowerOff(m) \/ Boot(m), n # m
        PROVE  cond'[n] = cond[n]
    BY Zenon, <1>0, <2>2 DEF PowerOff, Boot
  <2> QED
    BY Zenon, <1>4, <2>1, <2>2 DEF Faults, FailStart, Exit, RestartServer, agentVars
<1> QED
  BY Zenon, <1>1, <1>2, <1>3, <1>4 DEF ClusterNext

\* Only a push begins a start (handleAssign).
LEMMA StartingGrows ==
  ASSUME ClusterNext, NEW s \in starting', s \notin starting
  PROVE  StartCurrent
<1>1. CASE Reconcile
  BY Zenon, <1>1 DEF Reconcile, StartPass, EvictDead, RemoveDead, StartStatus, FetchStatus,
     StartReplicas, AssignCurrent, NodeMissing, NothingToStop, StopMoved, StopStale,
     KeepCurrent, Repush, SweepReplica, EndPass, agentVars
<1>2. CASE Api
  BY Zenon, <1>2 DEF Api, removeWorkload, addWorkload, rebalance, removeNode,
     removeNodeReassign, agentVars
<1>3. CASE Agents
  BY Zenon, <1>3 DEF Agents, Beat, Silence, FinishStart, agentVars
<1>4. CASE Faults
  BY Zenon, <1>4 DEF Faults, FailStart, Cut, Heal, PowerOff, Boot, Exit, RestartServer, agentVars
<1> QED
  BY Zenon, <1>1, <1>2, <1>3, <1>4 DEF ClusterNext

LEMMA AtHomeStep ==
  ASSUME ClusterInv, NoMoves(scenario), Standing, PassStanding, StopsReach(scenario),
         NoScaleIn(scenario) => StillDesired,
         AtHome, ClusterNext
  PROVE  AtHome'
<1>0. /\ containers \in [Node -> [Replica -> Hash \cup {NoEntry}]] /\ scenario \in Scenario
      /\ starting \subseteq [node : Node, replica : Replica, hash : Hash]
      /\ cond \in [Node -> {"up", "cut", "off"}]
      /\ nodes \in [Node -> Entry \cup {NoEntry}]
  BY Zenon DEF ClusterInv, ClusterTypeOK, TypeOK, RegistryTypeOK
<1>1. "cut" \notin scenario.faults
  BY Zenon, <1>0 DEF StopsReach
<1>2. ASSUME StartCurrent
      PROVE  /\ Current \in Replica /\ Current \in expand(desired) /\ assignments[Current] = target
             /\ UNCHANGED <<assignments, cond, desired>> /\ pc = "start" /\ pc' = "assign"
  <2>1. pc = "start" /\ pc \in InLoop /\ todo # {} /\ pc' = "assign"
    BY Zenon, <1>2 DEF StartCurrent, ClusterInv, PassPlaced, InLoop, NextReplica
  <2>2. UNCHANGED <<assignments, cond, desired>>
    BY Zenon, <1>2 DEF StartCurrent, schedVars
  <2> QED
    BY Zenon, <2>1, <2>2, CurrentType DEF PassStanding
<1>3. ASSUME NEW r \in Replica, NEW n \in Node, CopyOn(r, n)'
      PROVE  assignments'[r] = n
  <2>1. CASE ~CopyOn(r, n)
    BY Zenon, <1>2, <1>3, <2>1, NewCopy
  <2>2. CASE CopyOn(r, n)
    <3>1. assignments[r] = n /\ n # NoEntry
      BY Zenon, <2>2, NoEntryAssumption DEF AtHome
    <3>2. ASSUME NEW m \in Node, EvictDead(m), assignments[r] = m
          PROVE  FALSE
      BY Zenon, <2>2, <3>1, <3>2 DEF EvictDead, AtHome
    <3>3. ~SweepReplica(r)
      BY Zenon, <1>3, <3>1, SweptIsGone
    <3> QED
      BY Zenon, <3>1, <3>2, <3>3, NothingMoves
  <2> QED
    BY Zenon, <2>1, <2>2
<1>4. ASSUME NEW n \in Node
      PROVE  cond'[n] = "up" \/ (cond'[n] = "off" /\ \A r \in Replica : ~CopyOn(r, n)')
  <2>1. CASE PowerOff(n)
    <3>1. /\ cond' = [cond EXCEPT ![n] = "off"]
          /\ containers' = [containers EXCEPT ![n] = [r \in Replica |-> NoEntry]]
          /\ starting' = {s \in starting : s.node # n}
      BY Zenon, <2>1 DEF PowerOff
    <3>2. cond'[n] = "off" /\ \A r \in Replica : containers'[n][r] = NoEntry
      BY Zenon, <1>0, <3>1
    <3>3. \A s \in starting' : s.node # n
      BY Zenon, <3>1
    <3> QED
      BY Zenon, <3>2, <3>3 DEF CopyOn
  <2>2. CASE Boot(n)
    BY Zenon, <1>0, <2>2 DEF Boot
  <2>3. CASE cond'[n] = cond[n]
    BY Zenon, <2>3, NewCopy DEF AtHome
  <2> QED
    BY Zenon, <1>1, <2>1, <2>2, <2>3, CondSteps
<1>5. ASSUME NEW n \in Dead'
      PROVE  cond'[n] # "up"
  <2>0. n \in Node
    BY Zenon, <1>5 DEF Dead
  <2>1. CASE Boot(n)
    <3>1. PICK cap \in Capacity[n] : Register(n, cap)
      BY Zenon, <2>1 DEF Boot
    <3>2. nodes'[n] = [cap |-> cap, fresh |-> TRUE]
      BY Zenon, <1>0, <2>0, <3>1 DEF Register
    <3>3. nodes'[n].fresh = TRUE
      BY SMTT(30), <3>2
    <3> QED
      BY Zenon, <1>5, <3>3 DEF Dead
  <2>2. CASE PowerOff(n)
    BY Zenon, <1>0, <2>0, <2>2 DEF PowerOff
  <2>3. CASE cond'[n] = cond[n]
    BY Zenon, <1>5, <2>0, <2>3, NewlyDead DEF AtHome, Silence
  <2> QED
    BY Zenon, <1>1, <2>0, <2>1, <2>2, <2>3, CondSteps
<1>6. ASSUME pc' \in {"evict", "remove"}, NEW n \in todo', NEW r \in Replica
      PROVE  ~CopyOn(r, n)'
  <2>1. ~StartCurrent
    BY Zenon, <1>2, <1>6
  <2>2. n \in Node
    <3>1. todo' \subseteq Node
      BY Zenon, <1>6, PassTypedStep DEF PassTyped
    <3> QED
      BY Zenon, <1>6, <3>1
  <2>3. ~CopyOn(r, n)
    <3>1. CASE StartPass
      BY Zenon, <1>6, <2>2, <3>1 DEF StartPass, AtHome
    <3>2. CASE ~StartPass
      <4>1. pc \in {"evict", "remove"} /\ todo' \subseteq todo
        <5>1. CASE Reconcile
          BY Zenon, <1>6, <3>2, <5>1 DEF Reconcile, EvictDead, RemoveDead, StartStatus,
             FetchStatus, StartReplicas, AssignCurrent, NodeMissing, NothingToStop, StopMoved,
             StopStale, KeepCurrent, StartCurrent, Repush, SweepReplica, EndPass, PassReset,
             NextReplica
        <5>2. CASE ~Reconcile
          BY Zenon, <1>6, <5>2, OnlyPassPlaces DEF Standing
        <5> QED
          BY Zenon, <5>1, <5>2
      <4> QED
        BY Zenon, <1>6, <4>1 DEF AtHome
    <3> QED
      BY Zenon, <3>1, <3>2
  <2> QED
    BY Zenon, <2>1, <2>2, <2>3, NewCopy
<1>7. ASSUME scenario.prompt, pc' # "idle", NEW s \in starting'
      PROVE  s.replica \in expand(desired')
  <2>1. CASE StartPass
    BY Zenon, <1>7, <2>1 DEF StartPass, agentVars
  <2>2. CASE ~StartPass
    <3>1. pc # "idle" /\ desired' = desired
      <4>1. CASE Reconcile
        BY Zenon, <1>7, <2>2, <4>1 DEF Reconcile, EvictDead, RemoveDead, StartStatus,
           FetchStatus, StartReplicas, AssignCurrent, NodeMissing, NothingToStop, StopMoved,
           StopStale, KeepCurrent, StartCurrent, Repush, SweepReplica, EndPass, PassReset
      <4>2. CASE ~Reconcile
        BY Zenon, <1>7, <4>2, OnlyPassPlaces DEF Standing
      <4> QED
        BY Zenon, <4>1, <4>2
    <3>2. CASE s \in starting
      BY Zenon, <1>7, <3>1, <3>2 DEF AtHome
    <3>3. CASE s \notin starting
      <4>1. StartCurrent
        BY Zenon, <1>7, <3>3, StartingGrows
      <4>2. s = [node |-> target, replica |-> Current, hash |-> Wanted.hash]
        BY Zenon, <1>7, <3>3, <4>1 DEF StartCurrent, handleAssign
      <4>3. s.replica = Current
        BY SMTT(30), <4>2
      <4> QED
        BY Zenon, <1>2, <4>1, <4>3
    <3> QED
      BY Zenon, <3>2, <3>3
  <2> QED
    BY Zenon, <2>1, <2>2
<1>8. scenario' = scenario
  BY Zenon DEF ClusterNext
<1> QED
  BY Zenon, <1>3, <1>4, <1>5, <1>6, <1>7, <1>8 DEF AtHome

\* At the start nothing is registered, assigned or running.
LEMMA StandingInit ==
  ASSUME ClusterInit
  PROVE  Standing /\ PassStanding /\ StillDesired /\ AtHome
<1>1. nodes = [n \in Node |-> NoEntry] /\ assignments = [r \in Replica |-> NoEntry]
      /\ requests = [r \in Replica |-> NoEntry]
  BY Zenon DEF ClusterInit, Init, RegistryInit, SchedulerInit
<1>2. \A n \in Node : ~Registered(n)
  BY Zenon, <1>1 DEF Registered
<1>3. Standing
  BY Zenon, <1>1, <1>2 DEF ClusterInit, Standing, Overcommitted
<1>4. PassStanding
  BY Zenon DEF ClusterInit, PassInit, PassStanding
<1>5. StillDesired
  BY Zenon, <1>1 DEF ClusterInit, PassInit, StillDesired, Assigned
<1>6. \A r \in Replica, n \in Node : ~CopyOn(r, n)
  BY Zenon DEF ClusterInit, CopyOn
<1>7. AtHome
  BY Zenon, <1>2, <1>6 DEF ClusterInit, PassInit, AtHome, Dead
<1> QED
  BY Zenon, <1>3, <1>4, <1>5, <1>7

\* Nor does a step that changes nothing change any of this.
LEMMA Unchanged ==
  ASSUME UNCHANGED <<clusterVars, scenario>>
  PROVE  UNCHANGED <<nodes, assignments, parents, requests, pushed, store, pc, desired, todo, target,
                     running, unavailable, recent, listed, containers, starting, cond, leaving,
                     operations, faults, scenario>>
BY Zenon DEF clusterVars, controlVars, schedVars, passVars, agentVars

\* A behaviour keeps to its scenario, and so to its circumstances.
LEMMA ScenarioStays ==
  ASSUME [ClusterNext]_<<clusterVars, scenario>>
  PROVE  scenario' = scenario
BY Zenon DEF ClusterNext

LEMMA StandingAlways ==
  ClusterSafetySpec => [](NoMoves(scenario) => Standing /\ PassStanding)
<1>1. ClusterInit => Standing /\ PassStanding
  BY Zenon, StandingInit
<1>2. /\ ClusterInv /\ ClusterInv' /\ (NoMoves(scenario) => Standing /\ PassStanding)
      /\ [ClusterNext]_<<clusterVars, scenario>>
      => (NoMoves(scenario) => Standing /\ PassStanding)'
  <2>1. ASSUME Standing, PassStanding, UNCHANGED <<clusterVars, scenario>>
        PROVE  (Standing /\ PassStanding)'
    <3>1. UNCHANGED <<nodes, assignments, requests, leaving, pushed, pc, todo, target, desired,
                      listed>>
      BY Zenon, <2>1, Unchanged
    <3>2. Overcommitted' = Overcommitted
      BY Zenon, <3>1 DEF Registered, Overcommitted, Committed, UnitsOn, Asked
    <3>3. Standing'
      BY Zenon, <2>1, <3>1, <3>2 DEF Standing, Registered
    <3>4. PassStanding'
      BY Zenon, <2>1, <3>1 DEF PassStanding, AssignedTo, Current
    <3> QED
      BY Zenon, <3>3, <3>4
  <2> QED
    BY Zenon, <2>1, ScenarioStays, StandingStep, PassStandingStep
<1> QED
  BY <1>1, <1>2, ClusterInvAlways, PTL DEF ClusterSafetySpec

LEMMA StillDesiredAlways == ClusterSafetySpec => [](NoScaleIn(scenario) => StillDesired)
<1>1. ClusterInit => StillDesired
  BY Zenon, StandingInit
<1>2. /\ ClusterInv /\ (NoScaleIn(scenario) => StillDesired)
      /\ [ClusterNext]_<<clusterVars, scenario>>
      => (NoScaleIn(scenario) => StillDesired)'
  <2>1. ASSUME NoScaleIn(scenario) => StillDesired, UNCHANGED <<clusterVars, scenario>>
        PROVE  (NoScaleIn(scenario) => StillDesired)'
    <3>1. UNCHANGED <<assignments, store, pc, todo, desired, scenario>>
      BY Zenon, <2>1, Unchanged
    <3> QED
      BY Zenon, <2>1, <3>1 DEF StillDesired, Assigned
  <2> QED
    BY Zenon, <2>1, ScenarioStays, StillDesiredStep
<1> QED
  BY <1>1, <1>2, ClusterInvAlways, PTL DEF ClusterSafetySpec

\* A replica with all its copies on one node has one container at most.
LEMMA OneNode ==
  ASSUME NEW r, NEW m, \A n \in RunsOn(r) : n = m
  PROVE  Cardinality(RunsOn(r)) <= 1
<1>1. IsFiniteSet({m}) /\ Cardinality({m}) = 1
  BY Zenon, FS_Singleton
<1>2. RunsOn(r) \in SUBSET {m}
  BY Zenon
<1> QED
  BY Zenon, <1>1, <1>2, FS_Subset

\* No replica ever runs on two nodes, with any number of nodes, replicas and
\* workloads and any number of API calls and faults, where nothing moves:
\* through rollouts while starts take longer than a pass, lost requests and
\* answers, failing starts, exiting containers and hosts going down and coming
\* back; and through scaling in and removing, if starts are finished before the
\* next tick and no request is lost (reconcile, Assign, handleAssign,
\* handleUnassign).
THEOREM OneCopyWhereNothingMoves ==
  ClusterSafetySpec => [](NoMoves(scenario) /\ StopsReach(scenario) => NoTwoCopies)
<1> DEFINE Circumstances == NoMoves(scenario) /\ StopsReach(scenario)
<1>1. ClusterInit => AtHome
  BY Zenon, StandingInit
<1>2. /\ ClusterInv /\ (NoMoves(scenario) => Standing /\ PassStanding)
      /\ (NoScaleIn(scenario) => StillDesired)
      /\ (Circumstances => AtHome) /\ [ClusterNext]_<<clusterVars, scenario>>
      => (Circumstances => AtHome)'
  <2>1. ASSUME AtHome, UNCHANGED <<clusterVars, scenario>>
        PROVE  AtHome'
    <3>1. UNCHANGED <<nodes, assignments, pc, todo, desired, containers, starting, cond, scenario>>
      BY Zenon, <2>1, Unchanged
    <3> QED
      <4>1. Dead' = Dead
        BY Zenon, <3>1 DEF Dead, Registered
      <4>2. \A r, n : CopyOn(r, n)' <=> CopyOn(r, n)
        BY Zenon, <3>1 DEF CopyOn
      <4> QED
        BY Zenon, <2>1, <3>1, <4>1, <4>2 DEF AtHome
  <2> QED
    BY Zenon, <2>1, ScenarioStays, AtHomeStep
<1>3. AtHome => NoTwoCopies
  <2>1. ASSUME AtHome, NEW r \in Replica
        PROVE  Cardinality(RunsOn(r)) <= 1
    <3>1. \A n \in RunsOn(r) : n = assignments[r]
      BY Zenon, <2>1 DEF AtHome, CopyOn, RunsOn
    <3> QED
      BY Zenon, <3>1, OneNode
  <2> QED
    BY Zenon, <2>1 DEF NoTwoCopies
<1> QED
  BY <1>1, <1>2, <1>3, ClusterInvAlways, StandingAlways, StillDesiredAlways, PTL
     DEF ClusterSafetySpec

-----------------------------------------------------------------------------
(***************************************************************************)
(* Where hosts stay up, every call is answered.                            *)
(***************************************************************************)

\* Circumstances: starts fail and containers exit, nothing else goes wrong.
HostsStayUp(s) == s.faults \subseteq {"exit", "pull"}

NodesUp == \A n \in Node : cond[n] = "up"

LEMMA Answered ==
  ASSUME HostsStayUp(scenario), ClusterInv, NodesUp, NEW n \in Node, NEW handled \in BOOLEAN,
         NEW answered \in BOOLEAN, Call(n, handled, answered)
  PROVE  handled /\ answered
<1>1. scenario.faults \subseteq {"exit", "pull"}
  BY Zenon DEF HostsStayUp, ClusterInv, ClusterTypeOK
<1>2. "lost_request" \notin scenario.faults /\ "lost_reply" \notin scenario.faults
  BY Zenon, <1>1
<1> QED
  BY Zenon, <1>2 DEF Call, Happens, NodesUp

\* The faults there are, and what they leave alone.
LEMMA SmallFaults ==
  ASSUME HostsStayUp(scenario), ClusterInv, NodesUp, Faults
  PROVE  (\E s \in starting : FailStart(s)) \/ \E n \in Node, r \in Replica : Exit(n, r)
<1>1. scenario.faults \subseteq {"exit", "pull"}
  BY Zenon DEF HostsStayUp, ClusterInv, ClusterTypeOK
<1>2. {"cut", "off", "server"} \cap scenario.faults = {}
  BY Zenon, <1>1
<1> QED
  BY Zenon, <1>2 DEF Faults, Cut, Heal, PowerOff, Boot, RestartServer, Happens, NodesUp

LEMMA NodesUpStep ==
  ASSUME HostsStayUp(scenario), ClusterInv, NodesUp, ClusterNext
  PROVE  NodesUp'
<1>1. CASE Reconcile
  BY Zenon, <1>1 DEF NodesUp, Reconcile, StartPass, EvictDead, RemoveDead, StartStatus, FetchStatus,
     StartReplicas, AssignCurrent, NodeMissing, NothingToStop, StopMoved, StopStale,
     KeepCurrent, StartCurrent, Repush, SweepReplica, EndPass, agentVars
<1>2. CASE Api
  BY Zenon, <1>2 DEF NodesUp, Api, removeWorkload, addWorkload, rebalance, removeNode,
     removeNodeReassign, agentVars
<1>3. CASE Agents
  BY Zenon, <1>3 DEF NodesUp, Agents, Beat, Silence, FinishStart, agentVars
<1>4. CASE Faults
  BY Zenon, <1>4, SmallFaults DEF NodesUp, FailStart, Exit
<1> QED
  BY Zenon, <1>1, <1>2, <1>3, <1>4 DEF ClusterNext

LEMMA NodesUpAlways ==
  ClusterSafetySpec => [](HostsStayUp(scenario) => NodesUp)
<1>1. ClusterInit => NodesUp
  BY Zenon DEF ClusterInit, NodesUp
<1>2. /\ ClusterInv /\ (HostsStayUp(scenario) => NodesUp)
      /\ [ClusterNext]_<<clusterVars, scenario>>
      => (HostsStayUp(scenario) => NodesUp)'
  <2>1. ASSUME NodesUp, UNCHANGED <<clusterVars, scenario>>
        PROVE  NodesUp'
    <3>1. UNCHANGED cond
      BY Zenon, <2>1, Unchanged
    <3> QED
      BY Zenon, <2>1, <3>1 DEF NodesUp
  <2> QED
    BY Zenon, <2>1, ScenarioStays, NodesUpStep
<1> QED
  BY <1>1, <1>2, ClusterInvAlways, PTL DEF ClusterSafetySpec

-----------------------------------------------------------------------------
(***************************************************************************)
(* One copy, while replicas move.                                          *)
(***************************************************************************)

\* Circumstances: no workload is scaled in and no node decommissioned, and the
\* starts are finished before the next tick.  Workloads change and are
\* rebalanced.
OnlyMoves(s) == s.calls \subseteq {"add", "rebalance"} /\ s.prompt /\ NoScaleIn(s)

\* No node is ever found dead or removed.
NobodyLeaves == Dead = {} /\ pc # "remove" /\ (pc = "evict" => todo = {}) /\ leaving = NoEntry

\* A replica's copies are where its push record says, on a registered node.
Recorded ==
  \A r \in Replica, n \in Node :
    CopyOn(r, n) => pushed[r] # NoEntry /\ pushed[r].node = n /\ Registered(n)

\* A pass counts a copy as running or started it itself, in which case it is
\* done with the replica; what it is about to start runs nowhere else.
Noticed ==
  /\ pc # "idle" => \A s \in starting : s.replica \in recent
  /\ pc \in {"idle", "evict", "status"} => recent = {}
  /\ pc \in InLoop => recent \cap todo = {}
  /\ pc = "start" => Registered(target) /\ \A n \in Node : CopyOn(Current, n) => n = target
  /\ pc \in {"status"} \cup InLoop =>
       \A r \in Replica, n \in Node :
         CopyOn(r, n) => r \in running \/ r \in recent \/ (pc = "status" /\ n \in todo)

LEMMA NoDepartures ==
  ASSUME HostsStayUp(scenario), OnlyMoves(scenario), ClusterInv, NodesUp, NobodyLeaves, ClusterNext
  PROVE  /\ ~RemoveDead /\ ~RestartServer /\ ~removeNodeReassign /\ \A n : ~removeNode(n)
         /\ \A n : ~EvictDead(n)
<1>1. scenario \in Scenario
  BY Zenon DEF ClusterInv, ClusterTypeOK
<1>2. scenario.calls \subseteq {"add", "rebalance"} /\ scenario.faults \subseteq {"exit", "pull"}
  BY Zenon, <1>1 DEF OnlyMoves, HostsStayUp
<1>3. "decommission" \notin scenario.calls /\ "server" \notin scenario.faults
  BY Zenon, <1>2
<1> QED
  BY Zenon, <1>3 DEF RemoveDead, EvictDead, RestartServer, removeNodeReassign, removeNode, Called,
     Happens, NobodyLeaves

LEMMA NobodyLeavesStep ==
  ASSUME HostsStayUp(scenario), OnlyMoves(scenario), ClusterInv, NodesUp, NobodyLeaves, ClusterNext
  PROVE  NobodyLeaves'
<1>1. /\ ~RemoveDead /\ ~RestartServer /\ ~removeNodeReassign /\ \A n : ~removeNode(n)
      /\ \A n : ~EvictDead(n)
  BY Zenon, NoDepartures
<1>2. Dead' = {}
  <2>1. \A n \in Node : n \notin Dead'
    BY Zenon, NewlyDead DEF Silence, NodesUp, NobodyLeaves
  <2> QED
    BY Zenon, <2>1 DEF Dead
<1>3. leaving' = NoEntry /\ pc' # "remove" /\ (pc' = "evict" => todo' = {})
  <2>1. CASE Reconcile
    BY Zenon, <1>1, <2>1 DEF NobodyLeaves, Reconcile, StartPass, StartStatus, FetchStatus,
       StartReplicas, AssignCurrent, NodeMissing, NothingToStop, StopMoved, StopStale,
       KeepCurrent, StartCurrent, Repush, SweepReplica, EndPass, NextReplica, PassReset
  <2>2. CASE Api
    BY Zenon, <1>1, <2>2 DEF NobodyLeaves, Api, removeWorkload, addWorkload, rebalance, passVars
  <2>3. CASE Agents
    BY Zenon, <2>3 DEF NobodyLeaves, Agents, Beat, Silence, FinishStart, passVars
  <2>4. CASE Faults
    BY Zenon, <2>4, SmallFaults DEF NobodyLeaves, FailStart, Exit, passVars
  <2> QED
    BY Zenon, <2>1, <2>2, <2>3, <2>4 DEF ClusterNext
<1> QED
  BY Zenon, <1>2, <1>3 DEF NobodyLeaves

\* What a push does here: it is handled, recorded and counted as recent.
LEMMA Pushes ==
  ASSUME HostsStayUp(scenario), ClusterInv, NodesUp, StartCurrent
  PROVE  /\ pc = "start" /\ Current \in Replica /\ Current \in todo /\ target \in Node
         /\ pushed' = [pushed EXCEPT ![Current] = [node |-> target, hash |-> Wanted.hash]]
         /\ starting' = starting \cup {[node |-> target, replica |-> Current, hash |-> Wanted.hash]}
         /\ recent' = recent \cup {Current}
         /\ todo' = todo \ {Current}
         /\ pc' = "assign"
<1>1. pc = "start" /\ pc \in InLoop /\ todo # {} /\ target \in Node
  BY Zenon DEF StartCurrent, ClusterInv, PassPlaced, InLoop
<1>2. PICK handled, answered \in BOOLEAN :
        /\ Call(target, handled, answered)
        /\ handleAssign(target, Current, Wanted.hash, handled)
        /\ answered =>
             /\ pushed' = [pushed EXCEPT ![Current] = [node |-> target, hash |-> Wanted.hash]]
             /\ recent' = recent \cup {Current}
  BY Zenon DEF StartCurrent
<1>3. handled /\ answered
  BY Zenon, <1>1, <1>2, Answered
<1> QED
  BY Zenon, <1>1, <1>2, <1>3, CurrentType DEF StartCurrent, NextReplica, handleAssign

LEMMA RecordedStep ==
  ASSUME HostsStayUp(scenario), OnlyMoves(scenario), ClusterInv, NodesUp, NobodyLeaves,
         StillDesired, Recorded, Noticed,
         ClusterNext
  PROVE  Recorded'
<1> SUFFICES ASSUME NEW r \in Replica, NEW n \in Node, CopyOn(r, n)'
             PROVE  pushed'[r] # NoEntry /\ pushed'[r].node = n /\ Registered(n)'
  BY Zenon DEF Recorded
<1>0. pushed \in [Replica -> PushRecord \cup {NoEntry}]
  BY Zenon DEF ClusterInv, ClusterTypeOK
<1>1. ASSUME StartCurrent, r = Current, n = target
      PROVE  pushed'[r] # NoEntry /\ pushed'[r].node = n /\ Registered(n)'
  <2>1. pushed'[r] = [node |-> target, hash |-> Wanted.hash] /\ pc = "start" /\ todo # {}
    BY Zenon, <1>0, <1>1, Pushes
  <2>2. pushed'[r].node = target
    BY SMTT(30), <2>1
  <2>3. Wanted.hash \in Hash
    BY Zenon, <2>1, CurrentType DEF InLoop
  <2>4. pushed'[r] # NoEntry
    <3>1. pushed'[r] \in PushRecord
      BY SMTT(30), <1>1, <2>1, <2>3 DEF PushRecord
    <3> QED
      BY Zenon, <3>1, PushAssumption
  <2>5. Registered(n)'
    BY Zenon, <1>1, <2>1 DEF StartCurrent, Noticed, Registered
  <2> QED
    BY Zenon, <1>1, <2>2, <2>4, <2>5
<1>2. CASE ~CopyOn(r, n)
  BY Zenon, <1>1, <1>2, NewCopy
<1>3. CASE CopyOn(r, n)
  <2>1. pushed[r] # NoEntry /\ pushed[r].node = n /\ Registered(n)
    BY Zenon, <1>3 DEF Recorded
  <2>2. Registered(n)'
    BY Zenon, <2>1, NoDepartures, RegisteredStays
  <2>3. CASE pushed'[r] = pushed[r]
    BY Zenon, <2>1, <2>2, <2>3
  <2>4. CASE StartCurrent
    <3>1. CASE r = Current
      <4>1. pc = "start"
        BY Zenon, <2>4 DEF StartCurrent
      <4>2. n = target
        BY Zenon, <1>3, <3>1, <4>1 DEF Noticed
      <4> QED
        BY Zenon, <1>1, <2>4, <3>1, <4>2
    <3>2. CASE r # Current
      BY Zenon, <1>0, <2>3, <2>4, <3>2, Pushes
    <3> QED
      BY Zenon, <3>1, <3>2
  <2>5. ASSUME NEW late \in SUBSET Replica, Repush(late)
        PROVE  pushed'[r] = pushed[r]
    <3>1. pc = "assign" /\ late \cap running = {} /\ late \cap recent = {}
      BY Zenon, <2>5 DEF Repush, OnlyMoves, ClusterInv, ClusterTypeOK
    <3>2. r \in running \/ r \in recent
      BY Zenon, <1>3, <3>1 DEF Noticed, InLoop
    <3> QED
      BY Zenon, <2>5, <3>1, <3>2 DEF Repush
  <2>6. ~(\E q \in Replica : SweepReplica(q))
    BY Zenon DEF SweepReplica, StillDesired
  <2>7. CASE Reconcile /\ ~StartCurrent
    BY Zenon, <2>3, <2>5, <2>6, <2>7, NoDepartures DEF Reconcile, StartPass, StartStatus,
       FetchStatus, StartReplicas, AssignCurrent, NodeMissing, NothingToStop, StopMoved, StopStale,
       KeepCurrent, EndPass, controlVars
  <2>8. CASE ~Reconcile
    BY Zenon, <2>3, <2>8, OnlyPassPushes, NoDepartures
  <2> QED
    BY Zenon, <2>4, <2>7, <2>8
<1> QED
  BY Zenon, <1>2, <1>3

\* What is stopped before a move leaves no copy behind.
LEMMA ReadyToStart ==
  ASSUME HostsStayUp(scenario), ClusterInv, NodesUp, Recorded, Noticed,
         NothingToStop \/ StopMoved \/ StopStale
  PROVE  /\ pc' = "start" /\ UNCHANGED <<nodes, todo, target, recent, starting, running>>
         /\ pc = "push" /\ Current \in Replica /\ Current \in todo /\ Registered(target)
         /\ \A n \in Node : CopyOn(Current, n)' => n = target
<1>1. pc = "push" /\ todo # {} /\ target \in Node /\ Registered(target)
  BY Zenon DEF NothingToStop, StopMoved, StopStale, ClusterInv, PassPlaced
<1>2. Current \in Replica /\ Current \in todo
  BY Zenon, <1>1, CurrentType DEF InLoop
<1>3. pushed \in [Replica -> PushRecord \cup {NoEntry}]
  BY Zenon DEF ClusterInv, ClusterTypeOK
<1>4. pushed[Current] # NoEntry => pushed[Current].node \in Node
  BY Zenon, <1>2, <1>3 DEF PushRecord
<1>5. \A s \in starting : s.replica # Current
  BY Zenon, <1>1, <1>2 DEF Noticed, InLoop
<1>6. /\ pc' = "start" /\ UNCHANGED <<nodes, todo, target, recent, starting, running>>
      /\ \A n \in Node : containers'[n][Current] # NoEntry => n = target
  <2>1. CASE NothingToStop
    <3>1. \A n \in Node : containers[n][Current] # NoEntry => n = target
      BY Zenon, <1>2, <2>1 DEF NothingToStop, Recorded, CopyOn, Unpushed, Moved
    <3> QED
      BY Zenon, <2>1, <3>1 DEF NothingToStop, agentVars, controlVars
  <2>2. CASE StopMoved
    <3> DEFINE old == pushed[Current].node
    <3>1. old \in Node
      BY Zenon, <1>4, <2>2 DEF StopMoved, Moved, Unpushed
    <3>2. PICK handled, answered \in BOOLEAN :
            Call(old, handled, answered) /\ handleUnassign(old, Current, handled)
      BY Zenon, <2>2 DEF StopMoved
    <3>3. handled
      BY Zenon, <3>1, <3>2, Answered
    <3>4. ASSUME NEW n \in Node, containers'[n][Current] # NoEntry
          PROVE  FALSE
      <4>1. containers[n][Current] # NoEntry /\ n # old
        <5>1. handleUnassign(old, Current, handled)
          BY Zenon, <3>2
        <5> HIDE DEF old
        <5> QED
          BY ZenonT(60), <1>2, <3>1, <3>3, <3>4, <5>1, UnassignCopies
      <4> QED
        BY Zenon, <1>2, <4>1 DEF Recorded, CopyOn
    <3> QED
      BY Zenon, <2>2, <3>4 DEF StopMoved, controlVars
  <2>3. CASE StopStale
    <3>1. PICK handled, answered \in BOOLEAN :
            /\ Call(target, handled, answered) /\ handleUnassign(target, Current, handled)
            /\ answered => pc' = "start" /\ UNCHANGED <<todo, target>>
      BY Zenon, <2>3 DEF StopStale
    <3>2. answered /\ handled
      BY Zenon, <1>1, <3>1, Answered
    <3>3. ASSUME NEW n \in Node, containers'[n][Current] # NoEntry
          PROVE  n = target
      <4>1. containers[n][Current] # NoEntry
        <5>1. handleUnassign(target, Current, handled) /\ target \in Node
          BY Zenon, <1>1, <3>1
        <5> QED
          BY Zenon, <1>2, <3>3, <5>1, UnassignCopies
      <4> QED
        BY Zenon, <1>2, <2>3, <4>1 DEF Recorded, CopyOn, StopStale, Stale, Moved
    <3> QED
      BY Zenon, <2>3, <3>1, <3>2, <3>3 DEF StopStale, controlVars
  <2> QED
    BY Zenon, <2>1, <2>2, <2>3
<1>7. Current' = Current
  BY Zenon, <1>6 DEF Current
<1>8. \A n \in Node : CopyOn(Current, n)' => n = target
  BY Zenon, <1>5, <1>6, <1>7 DEF CopyOn
<1> QED
  BY Zenon, <1>1, <1>2, <1>6, <1>8

LEMMA NoticedStep ==
  ASSUME HostsStayUp(scenario), OnlyMoves(scenario), ClusterInv, NodesUp, NobodyLeaves,
         Recorded, Noticed, ClusterNext
  PROVE  Noticed'
<1>1. ASSUME ~Reconcile
      PROVE  Noticed'
  <2>1. UNCHANGED <<pc, todo, target, running, recent>>
    BY Zenon, <1>1, OnlyPassPushes, NoDepartures
  <2>2. ~StartCurrent
    BY Zenon, <1>1 DEF Reconcile
  <2>3. \A r \in Replica, n \in Node : CopyOn(r, n)' => CopyOn(r, n)
    BY Zenon, <2>2, NewCopy
  <2>4. \A s \in starting' : s \in starting
    BY Zenon, <2>2, StartingGrows
  <2>5. ASSUME pc = "start"
        PROVE  Current \in Replica /\ Registered(target) /\ Registered(target)' /\ Current' = Current
    <3>1. Current \in Replica /\ Registered(target) /\ target \in Node
      BY Zenon, <2>5, CurrentType DEF Noticed, ClusterInv, PassPlaced, InLoop
    <3>2. nodes'[target] # NoEntry
      BY Zenon, <3>1, NoDepartures, RegisteredStays DEF Registered
    <3> QED
      BY Zenon, <2>1, <3>1, <3>2 DEF Current, Registered
  <2>6. ASSUME pc' = "start", NEW n \in Node, CopyOn(Current, n)'
        PROVE  n = target'
    <3>1. pc = "start" /\ Current' = Current /\ Current \in Replica
      BY Zenon, <2>1, <2>5, <2>6
    <3>2. CopyOn(Current, n)
      BY Zenon, <2>3, <2>6, <3>1 DEF CopyOn
    <3> QED
      BY Zenon, <2>1, <3>1, <3>2 DEF Noticed
  <2>7. pc' # "idle" => \A s \in starting' : s.replica \in recent'
    BY Zenon, <2>1, <2>4 DEF Noticed
  <2>8. pc' \in {"idle", "evict", "status"} => recent' = {}
    BY Zenon, <2>1 DEF Noticed
  <2>9. pc' \in InLoop => recent' \cap todo' = {}
    BY Zenon, <2>1 DEF Noticed
  <2>10. pc' \in {"status"} \cup InLoop =>
           \A r \in Replica, n \in Node :
             CopyOn(r, n)' => r \in running' \/ r \in recent' \/ (pc' = "status" /\ n \in todo')
    BY Zenon, <2>1, <2>3 DEF Noticed
  <2> QED
    BY Zenon, <2>1, <2>5, <2>6, <2>7, <2>8, <2>9, <2>10 DEF Noticed
<1>2. ASSUME Reconcile, pc' # "idle", NEW s \in starting'
      PROVE  s.replica \in recent'
  <2>1. CASE s \notin starting
    <3>1. StartCurrent
      BY Zenon, <1>2, <2>1, StartingGrows
    <3>2. s = [node |-> target, replica |-> Current, hash |-> Wanted.hash]
          /\ recent' = recent \cup {Current}
      BY Zenon, <1>2, <2>1, <3>1, Pushes
    <3>3. s.replica = Current
      BY SMTT(30), <3>2
    <3> QED
      BY Zenon, <3>2, <3>3
  <2>2. CASE s \in starting
    <3>1. pc # "idle"
      <4>1. scenario.prompt
        BY Zenon DEF OnlyMoves, ClusterInv, ClusterTypeOK
      <4> QED
        BY Zenon, <1>2, <2>2, <4>1 DEF Reconcile, StartPass, EvictDead, RemoveDead, StartStatus,
           FetchStatus, StartReplicas, AssignCurrent, NodeMissing, NothingToStop, StopMoved,
           StopStale, KeepCurrent, StartCurrent, Repush, SweepReplica, EndPass
    <3>2. recent \subseteq recent'
      BY Zenon, <1>2 DEF Reconcile, StartPass, EvictDead, RemoveDead, StartStatus,
         FetchStatus, StartReplicas, AssignCurrent, NodeMissing, NothingToStop, StopMoved,
         StopStale, KeepCurrent, StartCurrent, Repush, SweepReplica, EndPass, PassReset
    <3> QED
      BY Zenon, <2>2, <3>1, <3>2 DEF Noticed
  <2> QED
    BY Zenon, <2>1, <2>2
<1>3. ASSUME Reconcile, pc' \in {"idle", "evict", "status"}
      PROVE  recent' = {}
  BY Zenon, <1>3, NoDepartures DEF Noticed, Reconcile, StartPass, StartStatus,
     FetchStatus, StartReplicas, AssignCurrent, NodeMissing, NothingToStop, StopMoved,
     StopStale, KeepCurrent, StartCurrent, Repush, SweepReplica, EndPass, PassReset, NextReplica
<1>4. ASSUME Reconcile, pc' \in InLoop
      PROVE  recent' \cap todo' = {}
  <2>1. CASE StartCurrent
    <3>1. recent' = recent \cup {Current} /\ todo' = todo \ {Current} /\ recent \cap todo = {}
      BY Zenon, <2>1, Pushes DEF Noticed, InLoop
    <3> QED
      BY Zenon, <3>1
  <2>2. CASE StartReplicas
    BY Zenon, <2>2 DEF StartReplicas, Noticed
  <2>3. CASE ~StartCurrent /\ ~StartReplicas
    <3>1. pc \in InLoop /\ recent' = recent /\ todo' \subseteq todo
      BY Zenon, <1>4, <2>3 DEF Reconcile, StartPass, EvictDead, RemoveDead, StartStatus,
         FetchStatus, AssignCurrent, NodeMissing, NothingToStop, StopMoved,
         StopStale, KeepCurrent, Repush, SweepReplica, EndPass, PassReset, NextReplica, InLoop
    <3> QED
      BY Zenon, <3>1 DEF Noticed
  <2> QED
    BY Zenon, <2>1, <2>2, <2>3
<1>5. ASSUME Reconcile, pc' = "start"
      PROVE  Registered(target)' /\ \A n \in Node : CopyOn(Current, n)' => n = target'
  <2>1. NothingToStop \/ StopMoved \/ StopStale
    BY Zenon, <1>5 DEF Reconcile, StartPass, EvictDead, RemoveDead, StartStatus,
       FetchStatus, StartReplicas, AssignCurrent, NodeMissing, KeepCurrent, StartCurrent, Repush,
       SweepReplica, EndPass, PassReset, NextReplica
  <2>2. UNCHANGED <<nodes, target>> /\ Registered(target)
        /\ \A n \in Node : CopyOn(Current, n)' => n = target
    BY Zenon, <2>1, ReadyToStart
  <2> QED
    BY Zenon, <2>2 DEF Registered
<1>6. ASSUME Reconcile, pc' \in {"status"} \cup InLoop, NEW r \in Replica, NEW n \in Node,
             CopyOn(r, n)'
      PROVE  r \in running' \/ r \in recent' \/ (pc' = "status" /\ n \in todo')
  <2>1. CASE ~CopyOn(r, n)
    BY Zenon, <1>6, <2>1, NewCopy, Pushes
  <2>2. CASE CopyOn(r, n)
    <3>1. CASE StartStatus
      <4>1. n \in Alive
        BY Zenon, <2>2 DEF Recorded, NobodyLeaves, Dead, Alive
      <4> QED
        BY Zenon, <3>1, <4>1 DEF StartStatus
    <3>2. ASSUME NEW m \in Node, FetchStatus(m)
          PROVE  r \in running' \/ r \in recent' \/ (pc' = "status" /\ n \in todo')
      <4>1. pc = "status" /\ todo' = todo \ {m} /\ UNCHANGED <<pc, recent, containers, starting>>
        BY Zenon, <3>2 DEF FetchStatus, agentVars
      <4>2. starting = {}
        BY Zenon, <4>1 DEF Noticed
      <4>3. PICK answered \in BOOLEAN :
              /\ Call(m, answered, answered)
              /\ running' = IF answered
                              THEN running \cup {q \in Replica : containers[m][q] # NoEntry}
                              ELSE running
        BY Zenon, <3>2 DEF FetchStatus
      <4>4. answered
        BY Zenon, <4>3, Answered
      <4>5. running' = running \cup {q \in Replica : containers[m][q] # NoEntry}
        BY Zenon, <4>3, <4>4
      <4>6. containers[n][r] # NoEntry
        BY Zenon, <2>2, <4>2 DEF CopyOn
      <4>7. r \in running \/ r \in recent \/ n \in todo
        BY Zenon, <2>2, <4>1 DEF Noticed
      <4> QED
        BY Zenon, <4>1, <4>5, <4>6, <4>7
    <3>3. CASE StartReplicas
      BY Zenon, <2>2, <3>3 DEF StartReplicas, Noticed
    <3>4. CASE ~StartStatus /\ ~StartReplicas /\ ~(\E m \in Node : FetchStatus(m))
      <4>1. pc \in InLoop /\ running' = running /\ recent \subseteq recent'
        BY Zenon, <1>6, <3>4, NoDepartures DEF Reconcile, StartPass,
           AssignCurrent, NodeMissing, NothingToStop, StopMoved,
           StopStale, KeepCurrent, StartCurrent, Repush, SweepReplica, EndPass, PassReset,
           NextReplica, InLoop
      <4>2. pc # "status"
        BY Zenon, <4>1 DEF InLoop
      <4> QED
        BY Zenon, <2>2, <4>1, <4>2 DEF Noticed
    <3> QED
      BY Zenon, <3>1, <3>2, <3>3, <3>4
  <2> QED
    BY Zenon, <2>1, <2>2
<1> QED
  BY Zenon, <1>1, <1>2, <1>3, <1>4, <1>5, <1>6 DEF Noticed

\* No replica ever runs on two nodes, with any number of nodes, replicas and
\* workloads, any requests and capacities and any number of API calls and
\* faults, while rebalances and grown requests move replicas: where hosts
\* stay up and reachable, nothing is scaled in and starts are finished before
\* the next tick.  The old container is stopped before the new one is started,
\* and no push record is forgotten while its container runs (reconcile).
THEOREM OneCopyThroughMoves ==
  ClusterSafetySpec => [](HostsStayUp(scenario) /\ OnlyMoves(scenario) => NoTwoCopies)
<1> DEFINE Circumstances == HostsStayUp(scenario) /\ OnlyMoves(scenario)
           Tracked == NobodyLeaves /\ Recorded /\ Noticed
<1>1. ClusterInit => Tracked
  <2> SUFFICES ASSUME ClusterInit
               PROVE  NobodyLeaves /\ Recorded /\ Noticed
    OBVIOUS
  <2>1. \A n \in Node : ~Registered(n)
    BY Zenon DEF ClusterInit, Init, RegistryInit, Registered
  <2>2. \A r \in Replica, n \in Node : ~CopyOn(r, n)
    BY Zenon DEF ClusterInit, CopyOn
  <2>3. pc = "idle" /\ recent = {} /\ leaving = NoEntry
    BY Zenon DEF ClusterInit, PassInit
  <2> QED
    BY Zenon, <2>1, <2>2, <2>3 DEF NobodyLeaves, Recorded, Noticed, Dead, InLoop
<1>2. /\ ClusterInv /\ (HostsStayUp(scenario) => NodesUp)
      /\ (NoScaleIn(scenario) => StillDesired)
      /\ (Circumstances => Tracked) /\ [ClusterNext]_<<clusterVars, scenario>>
      => (Circumstances => Tracked)'
  <2>1. ASSUME Tracked, UNCHANGED <<clusterVars, scenario>>
        PROVE  Tracked'
    <3>1. UNCHANGED <<nodes, pushed, pc, todo, target, running, recent, containers, starting, leaving>>
      BY Zenon, <2>1, Unchanged
    <3>2. Recorded' /\ NobodyLeaves'
      BY Zenon, <2>1, <3>1 DEF NobodyLeaves, Recorded, CopyOn, Dead, Registered
    <3>3. Noticed'
      BY Zenon, <2>1, <3>1 DEF Noticed, CopyOn, Current, Registered
    <3> QED
      BY Zenon, <3>2, <3>3
  <2>2. OnlyMoves(scenario) => NoScaleIn(scenario)
    BY Zenon DEF OnlyMoves
  <2> QED
    BY Zenon, <2>1, <2>2, ScenarioStays, NobodyLeavesStep, RecordedStep, NoticedStep
<1>3. Recorded => NoTwoCopies
  <2>1. ASSUME Recorded, NEW r \in Replica
        PROVE  Cardinality(RunsOn(r)) <= 1
    <3>1. \A n \in RunsOn(r) : n = pushed[r].node
      BY Zenon, <2>1 DEF Recorded, CopyOn, RunsOn
    <3> QED
      BY Zenon, <3>1, OneNode
  <2> QED
    BY Zenon, <2>1 DEF NoTwoCopies
<1> QED
  BY <1>1, <1>2, <1>3, ClusterInvAlways, NodesUpAlways, StillDesiredAlways, PTL
     DEF ClusterSafetySpec

\* Together: no replica ever runs on two nodes in a cluster each of whose
\* behaviours is of one of the two kinds, as those of MCClusterConverge are.
THEOREM OneCopy ==
  ASSUME \A s \in Scenario : \/ NoMoves(s) /\ StopsReach(s)
                             \/ HostsStayUp(s) /\ OnlyMoves(s)
  PROVE  ClusterSafetySpec => []NoTwoCopies
<1>1. ClusterInv => \/ NoMoves(scenario) /\ StopsReach(scenario)
                    \/ HostsStayUp(scenario) /\ OnlyMoves(scenario)
  BY Zenon DEF ClusterInv, ClusterTypeOK
<1> QED
  BY <1>1, ClusterInvAlways, OneCopyWhereNothingMoves, OneCopyThroughMoves, PTL

-----------------------------------------------------------------------------
(***************************************************************************)
(* The rollout budget.                                                     *)
(***************************************************************************)

\* Circumstances: starts fail, nothing else goes wrong.
OnlyPullsFail(s) == s.faults \subseteq {"pull"}

LEMMA PullsFailUp ==
  ASSUME OnlyPullsFail(scenario)
  PROVE  HostsStayUp(scenario)
BY Zenon DEF OnlyPullsFail, HostsStayUp

\* The replica of p that is being rolled, stopped and not yet counted.
Rolling(p) == IF pc = "start" /\ Stale /\ p = ParentOf[Current] THEN 1 ELSE 0

\* A pass counts as running only what runs, until it starts to take replicas
\* down; then no more are down than it counts, but for the one it is rolling.
Counted ==
  /\ pc \in {"idle", "evict", "remove", "status"} => \A r \in running : RunsOn(r) # {}
  /\ pc \in InLoop =>
       \A p \in Parent : Cardinality(Down(p)) <= unavailable[p] + Rolling(p)

\* Only the pass takes a running container away: to roll it or to sweep it.
LEMMA StaysRunning ==
  ASSUME OnlyPullsFail(scenario), NoMoves(scenario), ClusterInv, NodesUp, Standing,
         PassStanding, ClusterNext,
         NEW r \in Replica, RunsOn(r) # {}, RunsOn(r)' = {}
  PROVE  (StopStale /\ r = Current) \/ SweepReplica(r)
<1>0. /\ containers \in [Node -> [Replica -> Hash \cup {NoEntry}]]
      /\ starting \subseteq [node : Node, replica : Replica, hash : Hash]
      /\ pushed \in [Replica -> PushRecord \cup {NoEntry}]
  BY Zenon DEF ClusterInv, ClusterTypeOK
<1>1. PICK n \in Node : containers[n][r] # NoEntry /\ containers'[n][r] = NoEntry
  BY Zenon DEF RunsOn
<1>2. ~UNCHANGED containers
  BY Zenon, <1>1
<1>3. ASSUME NEW m \in Node, NEW q \in Replica, NEW handled, handleUnassign(m, q, handled)
      PROVE  q = r
  <2>1. CASE ~handled
    BY Zenon, <1>2, <1>3, <2>1 DEF handleUnassign
  <2>2. CASE handled
    <3>1. containers' = [containers EXCEPT ![m] = [containers[m] EXCEPT ![q] = NoEntry]]
      BY Zenon, <1>3, <2>2 DEF handleUnassign
    <3>2. r # q => [containers[m] EXCEPT ![q] = NoEntry][r] = containers[m][r]
      BY Zenon, <1>0
    <3> QED
      BY Zenon, <1>0, <1>1, <3>1, <3>2
  <2> QED
    BY Zenon, <2>1, <2>2
<1>4. ~Api
  BY Zenon, <1>2 DEF Api, removeWorkload, addWorkload, rebalance, removeNode,
     removeNodeReassign, agentVars
<1>5. ~Agents
  <2>1. ASSUME NEW s \in starting, FinishStart(s)
        PROVE  FALSE
    <3> DEFINE new == [containers[s.node] EXCEPT ![s.replica] = IF @ = NoEntry THEN s.hash ELSE @]
    <3>1. s.node \in Node /\ s.replica \in Replica
      BY Zenon, <1>0
    <3>2. containers' = [containers EXCEPT ![s.node] = new]
      BY Zenon, <2>1 DEF FinishStart
    <3>3. containers[s.node][r] # NoEntry => new[r] = containers[s.node][r]
      BY Zenon, <1>0, <3>1
    <3> HIDE DEF new
    <3> QED
      BY Zenon, <1>0, <1>1, <3>1, <3>2, <3>3
  <2> QED
    BY Zenon, <1>2, <2>1 DEF Agents, Beat, Silence, agentVars
<1>6. ~Faults
  <2>1. "exit" \notin scenario.faults
    BY Zenon DEF OnlyPullsFail, ClusterInv, ClusterTypeOK
  <2> QED
    BY Zenon, <1>2, <2>1, PullsFailUp, SmallFaults DEF FailStart, Exit, Happens
<1>7. ~StopMoved
  <2> SUFFICES ASSUME StopMoved
               PROVE  FALSE
    OBVIOUS
  <2>1. pc = "push" /\ todo # {} /\ Moved
    BY Zenon DEF StopMoved, ClusterInv, PassPlaced
  <2>2. Current \in Replica
    BY Zenon, <2>1, CurrentType DEF InLoop
  <2> QED
    BY Zenon, <2>1, <2>2 DEF Moved, Unpushed, PassStanding
<1>8. ASSUME StopStale
      PROVE  r = Current
  <2>1. pc = "push" /\ todo # {} /\ target \in Node
    BY Zenon, <1>8 DEF StopStale, ClusterInv, PassPlaced
  <2>2. Current \in Replica
    BY Zenon, <2>1, CurrentType DEF InLoop
  <2> QED
    BY Zenon, <1>3, <1>8, <2>1, <2>2 DEF StopStale
<1>9. ASSUME NEW q \in Replica, SweepReplica(q)
      PROVE  q = r
  <2>1. listed[q] \in Node
    BY Zenon, <1>9 DEF SweepReplica, ClusterInv, ClusterTypeOK, PassPlaced
  <2> QED
    BY Zenon, <1>2, <1>3, <1>9, <2>1 DEF SweepReplica
<1>10. Reconcile
  BY Zenon, <1>4, <1>5, <1>6 DEF ClusterNext
<1> QED
  BY Zenon, <1>2, <1>7, <1>8, <1>9, <1>10 DEF Reconcile, StartPass, EvictDead, RemoveDead,
     StartStatus, FetchStatus, StartReplicas, AssignCurrent, NodeMissing, NothingToStop,
     KeepCurrent, StartCurrent, Repush, EndPass, agentVars

LEMMA DownFinite ==
  ASSUME NEW p
  PROVE  /\ IsFiniteSet(Down(p)) /\ Cardinality(Down(p)) \in Nat
         /\ IsFiniteSet(Down(p)') /\ Cardinality(Down(p)') \in Nat
<1>1. Down(p) \in SUBSET Replica /\ Down(p)' \in SUBSET Replica
  BY Zenon DEF Down, expand
<1> QED
  BY Zenon, <1>1, ReplicaAssumption, FS_Subset, FS_CardinalityType

\* A step of a pass takes down one replica at most, the one it rolls.
LEMMA DownGrows ==
  ASSUME OnlyPullsFail(scenario), NoMoves(scenario), ClusterInv, NodesUp, Standing,
         PassStanding, ClusterNext,
         desired' = desired, NEW p \in Parent
  PROVE  IF StopStale /\ p = ParentOf[Current]
           THEN Cardinality(Down(p)') <= Cardinality(Down(p)) + 1
           ELSE Cardinality(Down(p)') <= Cardinality(Down(p))
<1>1. ASSUME NEW r \in Down(p)', r \notin Down(p)
      PROVE  StopStale /\ p = ParentOf[Current] /\ r = Current
  <2>1. r \in Replica /\ r \in expand(desired) /\ ParentOf[r] = p /\ RunsOn(r)' = {} /\ RunsOn(r) # {}
    BY Zenon, <1>1 DEF Down, expand
  <2>2. ~SweepReplica(r)
    BY Zenon, <2>1 DEF SweepReplica, PassStanding
  <2> QED
    BY Zenon, <2>1, <2>2, StaysRunning
<1>2. CASE StopStale /\ p = ParentOf[Current]
  <2>1. Down(p)' \in SUBSET (Down(p) \cup {Current})
    BY Zenon, <1>1
  <2>2. /\ IsFiniteSet(Down(p) \cup {Current})
        /\ Cardinality(Down(p) \cup {Current}) =
             IF Current \in Down(p) THEN Cardinality(Down(p)) ELSE Cardinality(Down(p)) + 1
    BY Zenon, DownFinite, FS_AddElement
  <2>3. Cardinality(Down(p)') <= Cardinality(Down(p) \cup {Current})
    BY Zenon, <2>1, <2>2, FS_Subset
  <2> DEFINE a == Cardinality(Down(p))
             b == Cardinality(Down(p)')
             c == Cardinality(Down(p) \cup {Current})
  <2>4. a \in Nat /\ b \in Nat /\ b <= c /\ (c = a \/ c = a + 1)
    BY Zenon, <2>2, <2>3, DownFinite
  <2> HIDE DEF a, b, c
  <2>5. b <= a + 1
    BY SMTT(30), <2>4
  <2> QED
    BY Zenon, <1>2, <2>5 DEF a, b
<1>3. CASE ~(StopStale /\ p = ParentOf[Current])
  <2>1. Down(p)' \in SUBSET Down(p)
    BY Zenon, <1>1, <1>3
  <2> QED
    BY Zenon, <1>3, <2>1, DownFinite, FS_Subset
<1> QED
  BY Zenon, <1>2, <1>3

\* The pass counts what runs (clusterRunning).
LEMMA CountedRunning ==
  ASSUME OnlyPullsFail(scenario), NoMoves(scenario), ClusterInv, NodesUp, Standing,
         PassStanding, Counted, ClusterNext,
         pc' \in {"idle", "evict", "remove", "status"}, NEW r \in running'
  PROVE  RunsOn(r)' # {}
<1>0. running \subseteq Replica
  BY Zenon DEF ClusterInv, ClusterTypeOK
<1>1. ~EndPass
  BY Zenon DEF EndPass, PassReset
<1>2. ~StopStale /\ ~SweepReplica(r)
  <2>1. StopStale => pc' \in {"start", "assign"}
    BY Zenon DEF StopStale, NextReplica
  <2> QED
    BY Zenon, <2>1 DEF SweepReplica
<1>3. ASSUME NEW n \in Node, FetchStatus(n)
      PROVE  r \in Replica /\ RunsOn(r) # {}
  <2>1. r \in running \/ (r \in Replica /\ containers[n][r] # NoEntry)
    BY Zenon, <1>3 DEF FetchStatus
  <2>2. pc = "status"
    BY Zenon, <1>3 DEF FetchStatus
  <2> QED
    BY Zenon, <1>0, <2>1, <2>2 DEF Counted, RunsOn
<1>4. ASSUME ~(\E n \in Node : FetchStatus(n))
      PROVE  r \in Replica /\ RunsOn(r) # {}
  <2>1. pc \in {"idle", "evict", "remove", "status"} /\ running' = running
    <3>1. CASE Reconcile
      BY Zenon, <1>1, <1>4, <3>1 DEF Reconcile, StartPass, EvictDead, RemoveDead, StartStatus,
         StartReplicas, AssignCurrent, NodeMissing, NothingToStop, StopMoved, StopStale,
         KeepCurrent, StartCurrent, Repush, SweepReplica, NextReplica
    <3>2. CASE ~Reconcile
      <4>1. UNCHANGED <<pc, running>>
        BY Zenon, <3>2, OnlyPassPlaces DEF Standing
      <4> QED
        BY Zenon, <4>1
    <3> QED
      BY Zenon, <3>1, <3>2
  <2> QED
    BY Zenon, <1>0, <2>1 DEF Counted
<1> QED
  BY Zenon, <1>2, <1>3, <1>4, StaysRunning

\* Counting what is down when the pass gets to the replicas.
LEMMA CountedAtStart ==
  ASSUME ClusterInv, Counted, StartReplicas, NEW p \in Parent
  PROVE  Cardinality(Down(p)') <= unavailable'[p]
<1> DEFINE S == {r \in expand(desired) : ParentOf[r] = p /\ r \notin running}
<1>1. UNCHANGED <<desired, containers>> /\ pc = "status"
  BY Zenon DEF StartReplicas, agentVars
<1>2. Down(p)' = Down(p)
  BY Zenon, <1>1 DEF Down, RunsOn
<1>3. Down(p) \in SUBSET S
  BY Zenon, <1>1 DEF Down, Counted
<1>4. S \in SUBSET Replica
  BY Zenon DEF expand
<1>5. unavailable'[p] = Cardinality(S)
  BY Zenon DEF StartReplicas
<1> HIDE DEF S
<1>6. IsFiniteSet(S)
  BY Zenon, <1>4, ReplicaAssumption, FS_Subset
<1> QED
  BY Zenon, <1>2, <1>3, <1>5, <1>6, FS_Subset

\* A roll that was pushed is counted.
LEMMA CountedRoll ==
  ASSUME OnlyPullsFail(scenario), ClusterInv, NodesUp, StartCurrent, NEW p \in Parent
  PROVE  unavailable'[p] = unavailable[p] + Rolling(p)
<1>0. unavailable \in [Parent -> Nat]
  BY Zenon DEF ClusterInv, ClusterTypeOK
<1>1. pc = "start" /\ todo # {} /\ target \in Node
  BY Zenon DEF StartCurrent, ClusterInv, PassPlaced
<1>2. ParentOf[Current] \in Parent
  BY Zenon, <1>1, CurrentType DEF InLoop
<1>3. PICK handled, answered \in BOOLEAN :
        /\ Call(target, handled, answered)
        /\ answered => unavailable' = [unavailable EXCEPT ![ParentOf[Current]] =
                                         IF Stale THEN @ + 1 ELSE @]
  BY Zenon DEF StartCurrent
<1>4. answered
  BY Zenon, <1>1, <1>3, Answered, PullsFailUp
<1>5. unavailable'[p] = IF Stale /\ p = ParentOf[Current] THEN unavailable[p] + 1 ELSE unavailable[p]
  BY Zenon, <1>0, <1>2, <1>3, <1>4
<1>6. Rolling(p) = IF Stale /\ p = ParentOf[Current] THEN 1 ELSE 0
  BY Zenon, <1>1 DEF Rolling
<1> QED
  BY SMTT(30), <1>0, <1>5, <1>6

LEMMA CountedStep ==
  ASSUME OnlyPullsFail(scenario), NoMoves(scenario), ClusterInv, ClusterInv', NodesUp,
         Standing, PassStanding, Counted,
         ClusterNext
  PROVE  Counted'
<1> SUFFICES ASSUME pc' \in InLoop, NEW p \in Parent
             PROVE  Cardinality(Down(p)') <= unavailable'[p] + Rolling(p)'
  BY Zenon, CountedRunning DEF Counted
<1> DEFINE a == Cardinality(Down(p))
           b == Cardinality(Down(p)')
           u == unavailable[p]
           v == unavailable'[p]
           x == Rolling(p)
           y == Rolling(p)'
<1>1. a \in Nat /\ b \in Nat /\ u \in Nat /\ v \in Nat /\ x \in {0, 1} /\ y \in {0, 1}
  <2>1. unavailable \in [Parent -> Nat] /\ unavailable' \in [Parent -> Nat]
    BY Zenon DEF ClusterInv, ClusterTypeOK
  <2>2. x \in {0, 1} /\ y \in {0, 1}
    BY Zenon DEF Rolling
  <2> QED
    BY Zenon, <2>1, <2>2, DownFinite
<1>2. CASE StartReplicas
  <2>1. b <= v
    BY Zenon, <1>2, CountedAtStart
  <2> HIDE DEF b, v, y
  <2>2. b <= v + y
    BY SMTT(30), <1>1, <2>1
  <2> QED
    BY Zenon, <2>2 DEF b, v, y
<1>3. ASSUME ~StartReplicas
      PROVE  pc \in InLoop /\ desired' = desired /\ a <= u + x
  <2>1. pc \in InLoop /\ desired' = desired
    <3>1. CASE Reconcile
      BY Zenon, <1>3, <3>1 DEF Reconcile, StartPass, EvictDead, RemoveDead, StartStatus, FetchStatus,
         AssignCurrent, NodeMissing, NothingToStop, StopMoved, StopStale, KeepCurrent,
         StartCurrent, Repush, SweepReplica, EndPass, PassReset, NextReplica, InLoop
    <3>2. CASE ~Reconcile
      <4>1. UNCHANGED <<pc, desired>>
        BY Zenon, <3>2, OnlyPassPlaces DEF Standing
      <4> QED
        BY Zenon, <4>1
    <3> QED
      BY Zenon, <3>1, <3>2
  <2> QED
    BY Zenon, <2>1 DEF Counted
<1>4. CASE StartCurrent
  <2>1. ~StartReplicas /\ ~StopStale
    BY Zenon, <1>4 DEF StartReplicas, StopStale, StartCurrent
  <2>2. b <= a /\ a <= u + x /\ v = u + x
    BY Zenon, <1>3, <1>4, <2>1, DownGrows, CountedRoll
  <2> HIDE DEF a, b, u, v, x, y
  <2>3. b <= v + y
    BY SMTT(30), <1>1, <2>2
  <2> QED
    BY Zenon, <2>3 DEF b, v, y
<1>5. CASE StopStale
  <2>1. pc = "push" /\ todo # {} /\ target \in Node /\ Stale /\ unavailable' = unavailable
        /\ UNCHANGED <<pushed, desired>>
    BY Zenon, <1>5 DEF StopStale, ClusterInv, PassPlaced, controlVars
  <2>2. PICK handled, answered \in BOOLEAN :
          /\ Call(target, handled, answered)
          /\ answered => pc' = "start" /\ UNCHANGED <<todo, target>>
    BY Zenon, <1>5 DEF StopStale
  <2>3. pc' = "start" /\ UNCHANGED <<todo, target>>
    BY Zenon, <2>1, <2>2, Answered, PullsFailUp
  <2>4. Current' = Current
    BY Zenon, <2>3 DEF Current
  <2>5. Stale'
    BY Zenon, <2>1, <2>3, <2>4 DEF Stale, Moved, Unpushed, Wanted
  <2>6. x = 0 /\ y = IF p = ParentOf[Current] THEN 1 ELSE 0
    BY Zenon, <2>1, <2>3, <2>4, <2>5 DEF Rolling
  <2>7. ~StartReplicas
    BY Zenon, <2>1 DEF StartReplicas
  <2>8. a <= u + x /\ v = u /\ IF p = ParentOf[Current] THEN b <= a + 1 ELSE b <= a
    BY Zenon, <1>3, <1>5, <2>1, <2>7, DownGrows
  <2> HIDE DEF a, b, u, v, x, y
  <2>9. b <= v + y
    BY SMTT(30), <1>1, <2>6, <2>8
  <2> QED
    BY Zenon, <2>9 DEF b, v, y
<1>6. CASE ~StartReplicas /\ ~StartCurrent /\ ~StopStale
  <2>1. b <= a /\ a <= u + x
    BY Zenon, <1>3, <1>6, DownGrows
  <2>2. v = u /\ (x = 0 \/ y = x)
    <3>1. CASE Reconcile
      <4>1. pc # "start" /\ unavailable' = unavailable
        BY Zenon, <1>6, <3>1 DEF Reconcile, StartPass, EvictDead, RemoveDead, StartStatus,
           FetchStatus, AssignCurrent, NodeMissing, NothingToStop, StopMoved, KeepCurrent,
           Repush, SweepReplica, EndPass, PassReset, NextReplica, InLoop
      <4> QED
        BY Zenon, <4>1 DEF Rolling
    <3>2. CASE ~Reconcile
      <4>1. UNCHANGED <<pushed, pc, desired, todo, target, unavailable>>
        BY Zenon, <3>2, OnlyPassPlaces DEF Standing
      <4>2. Current' = Current
        BY Zenon, <4>1 DEF Current
      <4>3. Stale' <=> Stale
        BY Zenon, <4>1, <4>2 DEF Stale, Moved, Unpushed, Wanted
      <4> QED
        BY Zenon, <4>1, <4>2, <4>3 DEF Rolling
    <3> QED
      BY Zenon, <3>1, <3>2
  <2> HIDE DEF a, b, u, v, x, y
  <2>3. b <= v + y
    BY SMTT(30), <1>1, <2>1, <2>2
  <2> QED
    BY Zenon, <2>3 DEF b, v, y
<1> QED
  BY Zenon, <1>2, <1>4, <1>5, <1>6

\* While workloads are rolled, a pass takes a running replica down only within the
\* workload's budget, with any number of nodes, replicas and workloads and any
\* number of API calls, and however long starts take or often they fail
\* (reconcile: a roll needs unavailable below max_unavailable, and is counted once
\* it is pushed).  Specs that ask for more, or nodes that come back smaller, would
\* move replicas beside the budget.
THEOREM BudgetAlwaysKept ==
  ASSUME SameRequests, OneCapacity
  PROVE  ClusterSafetySpec => BudgetKept
<1>0. OnlyRollouts => NoMoves(scenario) /\ OnlyPullsFail(scenario) /\ HostsStayUp(scenario)
  <2> SUFFICES ASSUME OnlyRollouts
               PROVE  NoMoves(scenario) /\ OnlyPullsFail(scenario)
    BY Zenon, PullsFailUp
  <2> QED
    BY Zenon DEF OnlyRollouts, NoMoves, OnlyPullsFail
<1>1. ClusterInit => Counted
  BY Zenon DEF ClusterInit, PassInit, Counted, InLoop
<1>2. ASSUME ClusterInv, ClusterInv', OnlyRollouts, NodesUp, Standing, PassStanding, Counted,
             [ClusterNext]_<<clusterVars, scenario>>
      PROVE  Counted'
  <2>1. ASSUME Counted, UNCHANGED <<clusterVars, scenario>>
        PROVE  Counted'
    <3>1. UNCHANGED <<pushed, pc, todo, target, running, unavailable, desired, containers>>
      BY Zenon, <2>1, Unchanged
    <3>2. Current' = Current
      BY Zenon, <3>1 DEF Current
    <3>3. \A p : Down(p)' = Down(p)
      BY Zenon, <3>1 DEF Down, RunsOn
    <3>4. \A p : Rolling(p)' = Rolling(p)
      BY Zenon, <3>1, <3>2 DEF Rolling, Stale, Moved, Unpushed, Wanted
    <3> QED
      BY Zenon, <2>1, <3>1, <3>3, <3>4 DEF Counted, RunsOn
  <2> QED
    BY Zenon, <1>0, <1>2, <2>1, CountedStep
<1>3. ASSUME ClusterInv, OnlyRollouts, NodesUp, Standing, PassStanding, Counted, ClusterNext,
             NEW p \in Parent, desired' = desired, Cardinality(Down(p)') > Cardinality(Down(p))
      PROVE  Cardinality(Down(p)') <= maxUnavailable(desired[p])
  <2> DEFINE a == Cardinality(Down(p))
             b == Cardinality(Down(p)')
             u == unavailable[p]
             m == maxUnavailable(desired[p])
  <2>1. a \in Nat /\ b \in Nat /\ u \in Nat
    BY Zenon, <1>3, DownFinite DEF ClusterInv, ClusterTypeOK
  <2>2. StopStale /\ p = ParentOf[Current] /\ b <= a + 1
    <3>1. ~(b <= a)
      <4>1. b > a
        BY Zenon, <1>3
      <4> HIDE DEF a, b
      <4> QED
        BY SMTT(30), <2>1, <4>1
    <3> QED
      BY Zenon, <1>0, <1>3, <3>1, DownGrows
  <2>3. pc = "push" /\ todo # {} /\ MayRoll
    BY Zenon, <1>3, <2>2 DEF StopStale, ClusterInv, PassPlaced
  <2>4. u < m /\ m \in Nat
    <3>1. Wanted.budget \in Nat
      BY Zenon, <1>3, <2>3, CurrentType DEF InLoop
    <3>2. maxUnavailable(Wanted) \in Nat
      BY Zenon, <3>1 DEF maxUnavailable
    <3> QED
      BY Zenon, <2>2, <2>3, <3>2 DEF MayRoll, Wanted
  <2>5. a <= u
    <3>1. a <= u + Rolling(p) /\ Rolling(p) = 0
      BY Zenon, <1>3, <2>3 DEF Counted, Rolling, InLoop
    <3> HIDE DEF a, u
    <3> QED
      BY SMTT(30), <2>1, <3>1
  <2> HIDE DEF a, b, u, m
  <2>6. b <= m
    BY SMTT(30), <2>1, <2>2, <2>4, <2>5
  <2> QED
    BY Zenon, <2>6 DEF b, m
<1>4. /\ ClusterInv /\ ClusterInv'
      /\ HostsStayUp(scenario) => NodesUp
      /\ NoMoves(scenario) => Standing /\ PassStanding
      /\ OnlyRollouts => Counted
      /\ [ClusterNext]_<<clusterVars, scenario>>
      => (OnlyRollouts => Counted)'
  <2>1. [ClusterNext]_<<clusterVars, scenario>> => (OnlyRollouts' => OnlyRollouts)
    BY Zenon, ScenarioStays DEF OnlyRollouts
  <2> QED
    BY Zenon, <1>0, <1>2, <2>1
<1>5. /\ ClusterInv
      /\ HostsStayUp(scenario) => NodesUp
      /\ NoMoves(scenario) => Standing /\ PassStanding
      /\ OnlyRollouts => Counted
      /\ [ClusterNext]_<<clusterVars, scenario>>
      => [OnlyRollouts => WithinBudget]_clusterVars
  BY Zenon, <1>0, <1>3 DEF WithinBudget
<1> QED
  BY <1>1, <1>4, <1>5, ClusterInvAlways, NodesUpAlways, StandingAlways, PTL
     DEF ClusterSafetySpec, BudgetKept
=============================================================================
