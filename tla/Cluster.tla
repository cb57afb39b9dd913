------------------------------- MODULE Cluster -------------------------------
(***************************************************************************)
(* The reconcile loop (internal/reconciler/reconciler.go) driving agents    *)
(* (internal/agent/agent.go) over an unreliable network, beside the API     *)
(* calls that change the desired state, the registry and the assignments    *)
(* (internal/api/server.go).                                                *)
(*                                                                         *)
(* One pass of reconcile is a sequence of steps, one per HTTP call or per   *)
(* method of the scheduler, the registry or the store; the API handlers,    *)
(* the agents' loops and the faults run between any two of them.            *)
(*                                                                         *)
(* On an agent a container is either there and running, with the spec it    *)
(* was created from, or not there; `starting' holds the goroutines of       *)
(* handleAssign that have not created their container yet.  The steps       *)
(* inside RunContainer and StopContainer are in module Container.           *)
(***************************************************************************)
EXTENDS Scheduler

CONSTANTS Hash,          \* spec digests (specHash)
          RequestOf,     \* the resource request of each spec
          Index,         \* the index of each replica in its workload, from 0
          Workload,      \* the workloads submitted: [replicas, hash, budget]
          InitialStore,  \* the desired state persisted before the start
          Scenario       \* what may happen to the cluster, see ScenarioType

ASSUME WorkloadAssumption ==
  /\ RequestOf \in [Hash -> Request]
  /\ Index \in [Replica -> Nat]
  /\ Workload \subseteq [replicas : Nat, hash : Hash, budget : Nat]
  /\ InitialStore \in [Parent -> Workload \cup {NoEntry}]
  /\ NoEntry \notin Hash /\ NoEntry \notin Workload

\* A scenario: the workloads submitted, the API calls made and the faults that
\* happen, bounds on the number of each, and whether every start finishes before
\* the next tick and every pass within the grace period.
ScenarioType ==
  [submitted : SUBSET Workload,
   calls : SUBSET {"add", "remove", "rebalance", "decommission"}, maxCalls : Nat,
   faults : SUBSET {"lost_request", "lost_reply", "exit", "pull", "cut", "off", "server"},
   maxFaults : Nat,
   prompt : BOOLEAN]

ASSUME ScenarioAssumption == Scenario \subseteq ScenarioType

VARIABLES store,       \* the desired state in the database
          pushed,      \* Reconciler.pushed: [node, hash] or NoEntry
          pc,          \* where the pass of reconcile is
          desired,     \* the pass's snapshot of the store
          todo,        \* nodes or replicas left in the loop the pass is in
          target,      \* the node of the iteration the pass is in
          running,     \* the pass's snapshot of the Running replicas
          unavailable, \* the pass's count of unavailable replicas
          recent,      \* the replicas the pass has pushed
          listed,      \* the pass's snapshot of the assignments
          containers,  \* per node and replica: the running spec, or NoEntry
          starting,    \* starts under way: [node, replica, hash]
          cond,        \* condition of each node: "up", "cut" or "off"
          leaving,     \* the node removeNode is working on, or NoEntry
          operations,  \* API calls made
          faults,      \* faults that happened
          scenario     \* the scenario of this behaviour

passVars == <<pc, desired, todo, target, running, unavailable, recent,
              listed>>
agentVars == <<containers, starting, cond>>
controlVars == <<nodes, schedVars, pushed>>
clusterVars == <<controlVars, store, passVars, agentVars, leaving, operations, faults>>

PushRecord == [node : Node, hash : Hash]

ASSUME PushAssumption == NoEntry \notin PushRecord

\* The push records, a pass's local variables and the agents' containers are of
\* their types; the pass never counts fewer than no unavailable replicas.
ClusterTypeOK ==
  /\ TypeOK
  /\ store \in [Parent -> Workload \cup {NoEntry}]
  /\ pushed \in [Replica -> PushRecord \cup {NoEntry}]
  /\ pc \in {"idle", "evict", "remove", "status", "assign", "push", "start",
             "repush", "sweep"}
  /\ desired \in [Parent -> Workload \cup {NoEntry}]
  /\ todo \subseteq (IF pc \in {"evict", "remove", "status"} THEN Node ELSE Replica)
  /\ target \in Node \cup {NoEntry}
  /\ running \subseteq Replica
  /\ unavailable \in [Parent -> Nat]
  /\ recent \subseteq Replica
  /\ listed \in [Replica -> Node \cup {NoEntry}]
  /\ containers \in [Node -> [Replica -> Hash \cup {NoEntry}]]
  /\ starting \subseteq [node : Node, replica : Replica, hash : Hash]
  /\ cond \in [Node -> {"up", "cut", "off"}]
  /\ leaving \in Node \cup {NoEntry}
  /\ scenario \in Scenario
  /\ operations \in 0..scenario.maxCalls /\ faults \in 0..scenario.maxFaults

\* Between two passes nothing of a pass is kept.
PassInit ==
  /\ pc = "idle"
  /\ desired = [p \in Parent |-> NoEntry]
  /\ todo = {}
  /\ target = NoEntry
  /\ running = {}
  /\ unavailable = [p \in Parent |-> 0]
  /\ recent = {}
  /\ listed = [r \in Replica |-> NoEntry]

PassReset ==
  /\ pc' = "idle"
  /\ desired' = [p \in Parent |-> NoEntry]
  /\ todo' = {}
  /\ target' = NoEntry
  /\ running' = {}
  /\ unavailable' = [p \in Parent |-> 0]
  /\ recent' = {}
  /\ listed' = [r \in Replica |-> NoEntry]

\* runServer and the agents' Start: the database survives, the registry, the
\* assignments and the push records are built anew, and an agent starts with
\* no containers (CleanupAll).
ClusterInit ==
  /\ Init
  /\ store = InitialStore
  /\ pushed = [r \in Replica |-> NoEntry]
  /\ PassInit
  /\ containers = [n \in Node |-> [r \in Replica |-> NoEntry]]
  /\ starting = {}
  /\ cond = [n \in Node |-> "up"]
  /\ leaving = NoEntry
  /\ operations = 0 /\ faults = 0
  /\ scenario \in Scenario
-----------------------------------------------------------------------------
(***************************************************************************)
(* Desired state.                                                          *)
(***************************************************************************)

\* expand: the replicas a desired state asks for; a workload with fewer than
\* one replica has one.
expand(st) ==
  {r \in Replica :
     LET w == st[ParentOf[r]]
     IN  w # NoEntry /\ Index[r] < (IF w.replicas < 1 THEN 1 ELSE w.replicas)}

\* maxUnavailable: the rollout budget of a workload, 1 if it has none.
maxUnavailable(w) == IF w.budget < 1 THEN 1 ELSE w.budget

-----------------------------------------------------------------------------
(***************************************************************************)
(* Calls from the control plane to an agent, and what the agent does.      *)
(***************************************************************************)

\* A fault of the given kind happens now.
Happens(kind) ==
  /\ kind \in scenario.faults
  /\ faults < scenario.maxFaults
  /\ faults' = faults + 1

\* A call to the agent of n: is it handled there, and does the caller get the
\* answer?  Both when the node is up, neither when it is not.  A request may be
\* lost on the way, and an answer may be lost or come after the 5s timeout.
Call(n, handled, answered) ==
  \/ cond[n] = "up" /\ handled /\ answered /\ UNCHANGED faults
  \/ cond[n] # "up" /\ ~handled /\ ~answered /\ UNCHANGED faults
  \/ cond[n] = "up" /\ ~handled /\ ~answered /\ Happens("lost_request")
  \/ cond[n] = "up" /\ handled /\ ~answered /\ Happens("lost_reply")

\* handleUnassign: the container is stopped and removed before the answer; a
\* missing container is no error.  A start under way goes on.
handleUnassign(n, r, handled) ==
  containers' = IF handled THEN [containers EXCEPT ![n][r] = NoEntry]
                           ELSE containers

\* handleAssign: the answer comes at once, the start goes on in a goroutine.
handleAssign(n, r, h, handled) ==
  starting' = IF handled
                THEN starting \cup {[node |-> n, replica |-> r, hash |-> h]}
                ELSE starting

-----------------------------------------------------------------------------
(***************************************************************************)
(* The pass: dead nodes, then the status of the alive ones.                *)
(***************************************************************************)

\* The tick: read the store, find the dead nodes.
StartPass ==
  /\ pc = "idle"
  /\ scenario.prompt => starting = {}
  /\ pc' = "evict"
  /\ desired' = store
  /\ todo' = Dead
  /\ UNCHANGED <<controlVars, store, target, running, unavailable, recent, listed,
                 agentVars, leaving, operations, faults>>

\* Evict the replicas of a dead node and forget their pushes.
EvictDead(n) ==
  /\ pc = "evict"
  /\ n \in todo
  /\ ReassignNode(n)
  /\ pushed' = [r \in Replica |-> IF r \in AssignedTo(n) THEN NoEntry ELSE pushed[r]]
  /\ target' = n
  /\ pc' = "remove"
  /\ UNCHANGED <<nodes, store, desired, todo, running, unavailable, recent, listed,
                 agentVars, leaving, operations, faults>>

\* Then remove the node.
RemoveDead ==
  /\ pc = "remove"
  /\ Remove(target)
  /\ todo' = todo \ {target}
  /\ target' = NoEntry
  /\ pc' = "evict"
  /\ UNCHANGED <<schedVars, pushed, store, desired, running, unavailable, recent, listed,
                 agentVars, leaving, operations, faults>>

\* clusterRunning: take the nodes alive now.
StartStatus ==
  /\ pc = "evict"
  /\ todo = {}
  /\ todo' = Alive
  /\ pc' = "status"
  /\ UNCHANGED <<controlVars, store, desired, target, running, unavailable, recent, listed,
                 agentVars, leaving, operations, faults>>

\* One status fetch; a node that does not answer is skipped.
FetchStatus(n) ==
  /\ pc = "status"
  /\ n \in todo
  /\ \E answered \in BOOLEAN :
       /\ Call(n, answered, answered)
       /\ running' = IF answered
                       THEN running \cup {r \in Replica : containers[n][r] # NoEntry}
                       ELSE running
  /\ todo' = todo \ {n}
  /\ UNCHANGED <<controlVars, store, pc, desired, target, unavailable, recent, listed,
                 agentVars, leaving, operations>>

\* Count what is unavailable, and start with the first replica.
StartReplicas ==
  /\ pc = "status"
  /\ todo = {}
  /\ todo' = expand(desired)
  /\ unavailable' = [p \in Parent |->
       Cardinality({r \in expand(desired) : ParentOf[r] = p /\ r \notin running})]
  /\ pc' = "assign"
  /\ UNCHANGED <<controlVars, store, desired, target, running, recent, listed,
                 agentVars, leaving, operations, faults>>

-----------------------------------------------------------------------------
(***************************************************************************)
(* The pass: the desired replicas, in the order of their identifiers.      *)
(***************************************************************************)

\* The replica the pass is at (sortedReplicaIDs), and its desired workload.
Current == CHOOSE r \in todo : \A q \in todo : r <= q

Wanted == desired[ParentOf[Current]]

\* On to the next replica.
NextReplica ==
  /\ todo' = todo \ {Current}
  /\ target' = NoEntry
  /\ pc' = "assign"

\* Ask the scheduler for a node.
AssignCurrent ==
  /\ pc = "assign"
  /\ todo # {}
  /\ Assign(Current, ParentOf[Current], RequestOf[Wanted.hash])
  /\ \/ assignments'[Current] = NoEntry /\ NextReplica
     \/ /\ assignments'[Current] # NoEntry
        /\ target' = assignments'[Current]
        /\ pc' = "push"
        /\ UNCHANGED todo
  /\ UNCHANGED <<nodes, pushed, store, desired, running, unavailable, recent, listed,
                 agentVars, leaving, operations, faults>>

\* The node has left the registry since.
NodeMissing ==
  /\ pc = "push"
  /\ ~Registered(target)
  /\ Unassign(Current)
  /\ NextReplica
  /\ UNCHANGED <<nodes, pushed, store, desired, running, unavailable, recent, listed,
                 agentVars, leaving, operations, faults>>

\* Is the current replica pushed, where it should be, and up to date?
Unpushed == pushed[Current] = NoEntry

Moved == ~Unpushed /\ pushed[Current].node # target

Stale == ~Unpushed /\ ~Moved /\ pushed[Current].hash # Wanted.hash

\* A faulty version: the budget is not looked at.
MayRollUnpaced == Current \in running

\* May a stale replica be rolled now?
MayRoll ==
  /\ Current \in running
  /\ unavailable[ParentOf[Current]] < maxUnavailable(Wanted)

\* Nothing to stop first: an initial placement, or a move away from a node
\* that is no longer registered.
NothingToStop ==
  /\ pc = "push"
  /\ Registered(target)
  /\ Unpushed \/ (Moved /\ ~Registered(pushed[Current].node))
  /\ pc' = "start"
  /\ UNCHANGED <<controlVars, store, desired, todo, target, running, unavailable,
                 recent, listed, agentVars, leaving, operations, faults>>

\* A faulty version: a move does not stop the old container.
StopMovedSkipped ==
  /\ pc = "push"
  /\ Registered(target)
  /\ Moved
  /\ Registered(pushed[Current].node)
  /\ pc' = "start"
  /\ UNCHANGED <<controlVars, store, desired, todo, target, running, unavailable,
                 recent, listed, agentVars, leaving, operations, faults>>

\* relocate: stop the container on the old node; going on if that fails.
StopMoved ==
  /\ pc = "push"
  /\ Registered(target)
  /\ Moved
  /\ Registered(pushed[Current].node)
  /\ \E handled, answered \in BOOLEAN :
       /\ Call(pushed[Current].node, handled, answered)
       /\ handleUnassign(pushed[Current].node, Current, handled)
  /\ pc' = "start"
  /\ UNCHANGED <<controlVars, store, desired, todo, target, running, unavailable,
                 recent, listed, starting, cond, leaving, operations>>

\* A roll stops the old container, and is given up when that fails.
StopStale ==
  /\ pc = "push"
  /\ Registered(target)
  /\ Stale
  /\ MayRoll
  /\ \E handled, answered \in BOOLEAN :
       /\ Call(target, handled, answered)
       /\ handleUnassign(target, Current, handled)
       /\ IF answered THEN pc' = "start" /\ UNCHANGED <<todo, target>>
                      ELSE NextReplica
  /\ UNCHANGED <<controlVars, store, desired, running, unavailable, recent, listed,
                 starting, cond, leaving, operations>>

\* Up to date, or stale with the budget used up.
KeepCurrent ==
  /\ pc = "push"
  /\ Registered(target)
  /\ ~Unpushed /\ ~Moved
  /\ Stale => ~MayRoll
  /\ NextReplica
  /\ UNCHANGED <<controlVars, store, desired, running, unavailable, recent, listed,
                 agentVars, leaving, operations, faults>>

\* A faulty version: a roll is taken off the count of unavailable replicas.
StartCurrentCountsDown ==
  /\ pc = "start"
  /\ \E handled, answered \in BOOLEAN :
       /\ Call(target, handled, answered)
       /\ handleAssign(target, Current, Wanted.hash, handled)
       /\ IF answered
            THEN /\ pushed' = [pushed EXCEPT ![Current] =
                                 [node |-> target, hash |-> Wanted.hash]]
                 /\ recent' = recent \cup {Current}
                 /\ unavailable' = [unavailable EXCEPT ![ParentOf[Current]] =
                                      IF Stale THEN @ - 1 ELSE @]
            ELSE UNCHANGED <<pushed, recent, unavailable>>
  /\ NextReplica
  /\ UNCHANGED <<nodes, schedVars, store, desired, running, listed, containers,
                 cond, leaving, operations>>

\* Push the assignment; record it, and count a roll, only if it was answered.
StartCurrent ==
  /\ pc = "start"
  /\ \E handled, answered \in BOOLEAN :
       /\ Call(target, handled, answered)
       /\ handleAssign(target, Current, Wanted.hash, handled)
       /\ IF answered
            THEN /\ pushed' = [pushed EXCEPT ![Current] =
                                 [node |-> target, hash |-> Wanted.hash]]
                 /\ recent' = recent \cup {Current}
                 /\ unavailable' = [unavailable EXCEPT ![ParentOf[Current]] =
                                      IF Stale THEN @ + 1 ELSE @]
            ELSE UNCHANGED <<pushed, recent, unavailable>>
  /\ NextReplica
  /\ UNCHANGED <<nodes, schedVars, store, desired, running, listed, containers,
                 cond, leaving, operations>>

-----------------------------------------------------------------------------
(***************************************************************************)
(* The pass: pushes that did not come up, and replicas no longer desired.  *)
(***************************************************************************)

\* A faulty version: a push that did not come up is never forgotten.
RepushNever(late) ==
  /\ pc = "assign"
  /\ todo = {}
  /\ late = {}
  /\ listed' = assignments
  /\ todo' = Assigned \ expand(desired)
  /\ pc' = "sweep"
  /\ UNCHANGED <<controlVars, store, desired, target, running, unavailable,
                 recent, agentVars, leaving, operations, faults>>

\* Forget the push of replicas that are past their grace period and were not
\* Running; list the assignments.  How long ago a push was is not modelled:
\* any record may be past the grace period, but for one made in this very pass
\* when passes are quick.
Repush(late) ==
  /\ pc = "assign"
  /\ todo = {}
  /\ late \subseteq {r \in Replica : pushed[r] # NoEntry /\ r \notin running}
  /\ scenario.prompt => late \cap recent = {}
  /\ pushed' = [r \in Replica |-> IF r \in late THEN NoEntry ELSE pushed[r]]
  /\ listed' = assignments
  /\ todo' = Assigned \ expand(desired)
  /\ pc' = "sweep"
  /\ UNCHANGED <<nodes, schedVars, store, desired, target, running, unavailable,
                 recent, agentVars, leaving, operations, faults>>

\* A faulty version: the assignment is dropped and the container left alone.
SweepForgets(r) ==
  /\ pc = "sweep"
  /\ r \in todo
  /\ Unassign(r)
  /\ pushed' = [pushed EXCEPT ![r] = NoEntry]
  /\ todo' = todo \ {r}
  /\ UNCHANGED <<nodes, store, pc, desired, target, running, unavailable, recent, listed,
                 agentVars, leaving, operations, faults>>

\* Stop a replica that is no longer desired on the node it was listed with,
\* and drop its assignment and push record whatever comes of that.
SweepReplica(r) ==
  /\ pc = "sweep"
  /\ r \in todo
  /\ IF Registered(listed[r])
       THEN \E handled, answered \in BOOLEAN :
              /\ Call(listed[r], handled, answered)
              /\ handleUnassign(listed[r], r, handled)
       ELSE UNCHANGED <<faults, containers>>
  /\ Unassign(r)
  /\ pushed' = [pushed EXCEPT ![r] = NoEntry]
  /\ todo' = todo \ {r}
  /\ UNCHANGED <<nodes, store, pc, desired, target, running, unavailable, recent, listed,
                 starting, cond, leaving, operations>>

EndPass ==
  /\ pc = "sweep"
  /\ todo = {}
  /\ PassReset
  /\ UNCHANGED <<controlVars, store, agentVars, leaving, operations, faults>>

Reconcile ==
  \/ StartPass
  \/ \E n \in Node : EvictDead(n) \/ FetchStatus(n)
  \/ RemoveDead
  \/ StartStatus
  \/ StartReplicas
  \/ AssignCurrent
  \/ NodeMissing
  \/ NothingToStop
  \/ StopMoved
  \/ StopStale
  \/ KeepCurrent
  \/ StartCurrent
  \/ \E late \in SUBSET Replica : Repush(late)
  \/ \E r \in Replica : SweepReplica(r)
  \/ EndPass

-----------------------------------------------------------------------------
(***************************************************************************)
(* API calls.                                                              *)
(***************************************************************************)

Called(kind) ==
  /\ kind \in scenario.calls
  /\ operations < scenario.maxCalls
  /\ operations' = operations + 1

\* addWorkload: create the workload or replace it.
addWorkload(p, w) ==
  /\ Called("add")
  /\ store[p] # w
  /\ store' = [store EXCEPT ![p] = w]
  /\ UNCHANGED <<controlVars, passVars, agentVars, leaving, faults>>

\* removeWorkload: also the scale-in of a workload to nothing.
removeWorkload(p) ==
  /\ Called("remove")
  /\ store[p] # NoEntry
  /\ store' = [store EXCEPT ![p] = NoEntry]
  /\ UNCHANGED <<controlVars, passVars, agentVars, leaving, faults>>

\* rebalance: repoint the assignments; the next pass moves the containers.
rebalance ==
  /\ Called("rebalance")
  /\ Rebalance
  /\ UNCHANGED <<nodes, pushed, store, passVars, agentVars, leaving, faults>>

\* removeNode: out of the registry, then its replicas unassigned.
removeNode(n) ==
  /\ Called("decommission")
  /\ leaving = NoEntry
  /\ Remove(n)
  /\ leaving' = n
  /\ UNCHANGED <<schedVars, pushed, store, passVars, agentVars, faults>>

removeNodeReassign ==
  /\ leaving # NoEntry
  /\ ReassignNode(leaving)
  /\ leaving' = NoEntry
  /\ UNCHANGED <<nodes, pushed, store, passVars, agentVars, operations, faults>>

Api ==
  \/ \E p \in Parent : removeWorkload(p) \/ (\E w \in scenario.submitted : addWorkload(p, w))
  \/ rebalance
  \/ \E n \in Node : removeNode(n)
  \/ removeNodeReassign

-----------------------------------------------------------------------------
(***************************************************************************)
(* Agents and faults.                                                      *)
(***************************************************************************)

\* A faulty version: an agent the control plane does not know keeps quiet.
BeatNoRegistration(n) ==
  /\ cond[n] = "up"
  /\ Heartbeat(n)
  /\ UNCHANGED <<schedVars, pushed, store, passVars, agentVars, leaving, operations,
                 faults>>

\* heartbeatLoop: a heartbeat, and a registration when the control plane no
\* longer knows the node.
Beat(n) ==
  /\ cond[n] = "up"
  /\ \/ Heartbeat(n)
     \/ ~Registered(n) /\ \E cap \in Capacity[n] : Register(n, cap)
  /\ UNCHANGED <<schedVars, pushed, store, passVars, agentVars, leaving, operations,
                 faults>>

\* A node that cannot be heard of misses its heartbeat window.
Silence(n) ==
  /\ cond[n] # "up"
  /\ Expire(n)
  /\ UNCHANGED <<schedVars, pushed, store, passVars, agentVars, leaving, operations,
                 faults>>

\* The goroutine of handleAssign gets to RunContainer: a container with that
\* identifier that is already there stays as it is (ErrAlreadyExists).
FinishStart(s) ==
  /\ starting' = starting \ {s}
  /\ containers' = [containers EXCEPT ![s.node][s.replica] =
                      IF @ = NoEntry THEN s.hash ELSE @]
  /\ UNCHANGED <<controlVars, store, passVars, cond, leaving, operations, faults>>

\* The image pull, or a step of RunContainer, fails: the start is given up.
FailStart(s) ==
  /\ Happens("pull")
  /\ starting' = starting \ {s}
  /\ UNCHANGED <<controlVars, store, passVars, containers, cond, leaving, operations>>

\* A container exits by itself and is cleaned up.
Exit(n, r) ==
  /\ Happens("exit")
  /\ containers[n][r] # NoEntry
  /\ containers' = [containers EXCEPT ![n][r] = NoEntry]
  /\ UNCHANGED <<controlVars, store, passVars, starting, cond, leaving, operations>>

\* The node is cut off from the control plane, and reachable again.
Cut(n) ==
  /\ Happens("cut")
  /\ cond[n] = "up"
  /\ cond' = [cond EXCEPT ![n] = "cut"]
  /\ UNCHANGED <<controlVars, store, passVars, containers, starting, leaving,
                 operations>>

Heal(n) ==
  /\ cond[n] = "cut"
  /\ cond' = [cond EXCEPT ![n] = "up"]
  /\ UNCHANGED <<controlVars, store, passVars, containers, starting, leaving,
                 operations, faults>>

\* The host goes down with everything on it, one that is not the last one up,
\* and its agent comes up again: Start cleans up and registers.
PowerOff(n) ==
  /\ Happens("off")
  /\ cond[n] = "up"
  /\ \E m \in Node \ {n} : cond[m] = "up"
  /\ cond' = [cond EXCEPT ![n] = "off"]
  /\ containers' = [containers EXCEPT ![n] = [r \in Replica |-> NoEntry]]
  /\ starting' = {s \in starting : s.node # n}
  /\ UNCHANGED <<controlVars, store, passVars, leaving, operations>>

Boot(n) ==
  /\ cond[n] = "off"
  /\ cond' = [cond EXCEPT ![n] = "up"]
  /\ \E cap \in Capacity[n] : Register(n, cap)
  /\ UNCHANGED <<schedVars, pushed, store, passVars, containers, starting, leaving,
                 operations, faults>>

\* The control plane restarts: what it keeps in memory is gone.
RestartServer ==
  /\ Happens("server")
  /\ nodes' = [n \in Node |-> NoEntry]
  /\ Drop(Replica)
  /\ pushed' = [r \in Replica |-> NoEntry]
  /\ PassReset
  /\ leaving' = NoEntry
  /\ UNCHANGED <<store, agentVars, operations>>

Agents ==
  \/ \E n \in Node : Beat(n) \/ Silence(n)
  \/ \E s \in starting : FinishStart(s)

Faults ==
  \/ \E s \in starting : FailStart(s)
  \/ \E n \in Node : \/ Cut(n)
                     \/ Heal(n)
                     \/ PowerOff(n)
                     \/ Boot(n)
                     \/ \E r \in Replica : Exit(n, r)
  \/ RestartServer

ClusterNext ==
  /\ Reconcile \/ Api \/ Agents \/ Faults
  /\ UNCHANGED scenario

\* The reconcile goroutine, the agents' loops and goroutines and a begun
\* removeNode keep running; a partition heals.  A record whose replica is not
\* Running pass after pass gets past its grace period.
Fairness ==
  /\ WF_clusterVars(Reconcile)
  /\ WF_clusterVars(removeNodeReassign)
  /\ \A n \in Node : /\ WF_clusterVars(Beat(n))
                     /\ WF_clusterVars(Silence(n))
                     /\ WF_clusterVars(Heal(n))
  /\ WF_clusterVars(\E s \in starting : FinishStart(s))
  /\ \A r \in Replica :
       SF_clusterVars(\E late \in SUBSET Replica : r \in late /\ Repush(late))

ClusterSafetySpec == ClusterInit /\ [][ClusterNext]_<<clusterVars, scenario>>

ClusterSpec == ClusterSafetySpec /\ Fairness
-----------------------------------------------------------------------------
(***************************************************************************)
(* Properties.                                                             *)
(***************************************************************************)

\* The nodes a replica runs on.
RunsOn(r) == {n \in Node : containers[n][r] # NoEntry}

\* "Stop the old container before starting the new one so we never run two
\* copies" (reconcile): no replica ever runs on two nodes.
NoTwoCopies == \A r \in Replica : Cardinality(RunsOn(r)) <= 1

\* Once API calls and faults stop, every replica is down to one copy (README,
\* control-plane restart: "So the cluster self-heals").
SettlesToOneCopy == <>[]NoTwoCopies

\* The replicas of p that the pass wants and that run nowhere.
Down(p) == {r \in expand(desired) : ParentOf[r] = p /\ RunsOn(r) = {}}

\* Workloads are submitted and removed, and starts may fail: nothing is moved,
\* and nothing else goes wrong.
OnlyRollouts == scenario.calls \subseteq {"add", "remove"} /\ scenario.faults \subseteq {"pull"}

\* A step of a pass takes a running replica it wants down only as long as no more
\* than max_unavailable replicas of the workload are down then.
WithinBudget ==
  \A p \in Parent :
    Reconcile /\ desired' = desired /\ Cardinality(Down(p)') > Cardinality(Down(p))
      => Cardinality(Down(p)') <= maxUnavailable(desired[p])

\* While workloads are rolled, every pass stays within the budget, however long
\* starts take and updates overlap (README: "replicas recreated in place, at most
\* max_unavailable down at once").  Moves are not paced (reconcile).
BudgetKept == [][OnlyRollouts => WithinBudget]_clusterVars

\* "With maxUnavailable: 1, the service never loses more than one backend at a
\* time" (docs/specs/rolling-updates.md), whatever else happens: not so when the
\* assign call of a roll is lost (reconcile).
BudgetAlways == [][WithinBudget]_clusterVars

\* Every desired replica runs where it is assigned, with the desired spec.
AllCurrent ==
  \A r \in expand(store) :
    /\ assignments[r] # NoEntry
    /\ containers[assignments[r]][r] = store[ParentOf[r]].hash

\* Once API calls and faults stop, the reconcile loop brings every replica to
\* the desired spec on its node for good.
Converges == <>[]AllCurrent

\* Once API calls and faults stop, every desired replica runs somewhere.
Available == <>[](\A r \in expand(store) : RunsOn(r) # {})

\* "Anything assigned but no longer desired ... is unassigned and stopped"
\* (README, reconcile loop): once API calls and faults stop, no container is
\* left of a replica that is not desired.
NoOrphans == <>[](\A r \in Replica \ expand(store) : RunsOn(r) = {})
=============================================================================
