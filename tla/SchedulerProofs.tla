--------------------------- MODULE SchedulerProofs ---------------------------
(***************************************************************************)
(* What the scheduler guarantees for every set of nodes, replicas and       *)
(* workloads and all capacities and requests.                               *)
(***************************************************************************)
EXTENDS Scheduler, PoolLemmas, FiniteSetTheorems, TLAPS

-----------------------------------------------------------------------------
(***************************************************************************)
(* Types, and the agreement of the three maps.                             *)
(***************************************************************************)

\* place answers with an alive node or with NoEntry.
LEMMA PlaceType ==
  ASSUME NEW asg, NEW x, NEW p, NEW req
  PROVE  place(asg, x, p, req) \in Alive \cup {NoEntry}
BY Zenon DEF place

\* A node that place answers with has room for the request.
LEMMA PlaceFits ==
  ASSUME NEW asg, NEW x, NEW p, NEW req,
         place(asg, x, p, req) # NoEntry
  PROVE  /\ place(asg, x, p, req) \in Alive
         /\ Fits(asg, place(asg, x, p, req), x, req)
BY Zenon DEF place

\* Every registry operation keeps the table well typed (Registry methods).
LEMMA RegistryStepType ==
  ASSUME RegistryTypeOK, RegistryNext
  PROVE  RegistryTypeOK'
<1>1. PICK n \in Node : \/ \E cap \in Capacity[n] : Register(n, cap)
                        \/ Heartbeat(n)
                        \/ Remove(n)
                        \/ Expire(n)
  BY Zenon DEF RegistryNext
<1>2. ASSUME NEW cap \in Capacity[n], Register(n, cap)
      PROVE  RegistryTypeOK'
  <2>1. cap \in [cpu : Nat, mem : Nat]
    BY Zenon, <1>2, CapacityAssumption
  <2>2. [cap |-> cap, fresh |-> TRUE] \in Entry
    BY Zenon, <2>1 DEF Entry
  <2> QED
    BY Zenon, <1>2, <2>2 DEF RegistryTypeOK, Register
<1>3. CASE Heartbeat(n)
  BY Zenon, <1>3 DEF RegistryTypeOK, Heartbeat, Registered, Entry
<1>4. CASE Remove(n)
  BY Zenon, <1>4 DEF RegistryTypeOK, Remove
<1>5. CASE Expire(n)
  BY Zenon, <1>5 DEF RegistryTypeOK, Expire, Alive, Registered, Entry
<1> QED
  BY Zenon, <1>1, <1>2, <1>3, <1>4, <1>5

\* The inductive invariant of the scheduler's bookkeeping.
Bookkeeping == TypeOK /\ MapsAgree

\* Every outcome of Assign keeps the maps well typed and in agreement.
LEMMA AssignStep ==
  ASSUME Bookkeeping, NEW req \in Request, AssignNext(req)
  PROVE  Bookkeeping'
<1>1. PICK r \in Replica : Assign(r, ParentOf[r], req)
  BY Zenon DEF AssignNext
<1>2. ParentOf[r] \in Parent /\ ParentOf[r] # NoEntry /\ req # NoEntry
  BY Zenon, ParentAssumption, RequestAssumption
<1>3. UNCHANGED nodes
  BY Zenon DEF AssignNext
<1>4. CASE AssignSticky(r, ParentOf[r], req)
  BY Zenon, <1>2, <1>3, <1>4
  DEF AssignSticky, StaysPut, Bookkeeping, TypeOK, RegistryTypeOK,
      SchedulerTypeOK, MapsAgree
<1>5. CASE AssignPlaced(r, ParentOf[r], req)
  <2> DEFINE n == place(assignments, r, ParentOf[r], req)
  <2>1. n \in Node /\ n # NoEntry
    BY Zenon, <1>5, PlaceFits DEF AssignPlaced, Alive
  <2> QED
    BY Zenon, <1>2, <1>3, <1>5, <2>1
    DEF AssignPlaced, Bookkeeping, TypeOK, RegistryTypeOK, SchedulerTypeOK,
        MapsAgree
<1>6. CASE AssignFailed(r, ParentOf[r], req)
  BY Zenon, <1>3, <1>6
  DEF AssignFailed, Bookkeeping, TypeOK, RegistryTypeOK, SchedulerTypeOK,
      MapsAgree
<1> QED
  BY Zenon, <1>1, <1>4, <1>5, <1>6 DEF Assign

\* Unassign and ReassignNode drop replicas from all three maps at once.
LEMMA ReleaseStep ==
  ASSUME Bookkeeping, ReleaseNext
  PROVE  Bookkeeping'
<1>1. PICK S : Drop(S)
  BY Zenon DEF ReleaseNext, Unassign, ReassignNode
<1> QED
  BY Zenon, <1>1
  DEF ReleaseNext, Drop, Bookkeeping, TypeOK, RegistryTypeOK, SchedulerTypeOK,
      MapsAgree

\* Rebalance only repoints assigned replicas, and only at alive nodes.
LEMMA RebalanceStep ==
  ASSUME Bookkeeping, RebalanceNext
  PROVE  Bookkeeping'
<1> DEFINE moves == planLocked(assignments)
<1>1. \A r \in DOMAIN moves : moves[r] \in Node /\ assignments[r] # NoEntry
  BY Zenon DEF planLocked, Alive
<1>2. \A n \in Node : n # NoEntry
  BY Zenon, NoEntryAssumption
<1>3. assignments' = [r \in Replica |-> IF r \in DOMAIN moves
                                          THEN moves[r]
                                          ELSE assignments[r]]
  BY Zenon DEF RebalanceNext, Rebalance
<1>4. UNCHANGED <<nodes, parents, requests>>
  BY Zenon DEF RebalanceNext, Rebalance
<1> HIDE DEF moves
<1> QED
  BY Zenon, <1>1, <1>2, <1>3, <1>4
  DEF Bookkeeping, TypeOK, RegistryTypeOK, SchedulerTypeOK, MapsAgree

\* Every step of the scheduler or the registry keeps the invariant.
LEMMA BookkeepingStep == Bookkeeping /\ [Next]_vars => Bookkeeping'
<1> SUFFICES ASSUME Bookkeeping, [Next]_vars
             PROVE  Bookkeeping'
  OBVIOUS
<1>1. CASE RegistryNext
  <2>1. UNCHANGED schedVars
    BY Zenon, <1>1 DEF RegistryNext
  <2> QED
    BY Zenon, <1>1, <2>1, RegistryStepType
    DEF Bookkeeping, TypeOK, SchedulerTypeOK, MapsAgree, schedVars
<1>2. CASE \E req \in Request : AssignNext(req)
  BY Zenon, <1>2, AssignStep
<1>3. CASE ReleaseNext
  BY Zenon, <1>3, ReleaseStep
<1>4. CASE RebalanceNext
  BY Zenon, <1>4, RebalanceStep
<1>5. CASE UNCHANGED vars
  BY Zenon, <1>5
  DEF vars, Bookkeeping, TypeOK, RegistryTypeOK, SchedulerTypeOK, MapsAgree
<1> QED
  BY Zenon, <1>1, <1>2, <1>3, <1>4, <1>5 DEF Next, NextNoRebalance

\* The empty scheduler (New) satisfies the invariant.
LEMMA BookkeepingInit == Init => Bookkeeping
BY Zenon DEF Init, RegistryInit, SchedulerInit, Bookkeeping, TypeOK, RegistryTypeOK,
       SchedulerTypeOK, MapsAgree

\* Every state of the scheduler and its registry is well typed.
THEOREM TypeCorrect == Spec => []TypeOK
<1>1. Bookkeeping => TypeOK
  BY Zenon DEF Bookkeeping
<1> QED
  BY <1>1, BookkeepingInit, BookkeepingStep, PTL DEF Spec

\* The three maps of the scheduler always hold the same replicas.
THEOREM MapsAlwaysAgree == Spec => []MapsAgree
<1>1. Bookkeeping => MapsAgree
  BY Zenon DEF Bookkeeping
<1> QED
  BY <1>1, BookkeepingInit, BookkeepingStep, PTL DEF Spec

-----------------------------------------------------------------------------
(***************************************************************************)
(* Accounting: the committed units of a node, before and after a step.     *)
(***************************************************************************)

\* A schedulable capacity is a pair of natural numbers.
LEMMA SchedulableType ==
  ASSUME NEW cap \in [cpu : Nat, mem : Nat]
  PROVE  schedulable(cap).cpu \in Nat /\ schedulable(cap).mem \in Nat
<1>1. cap.cpu \in Nat /\ cap.mem \in Nat /\ CpuScale \in Nat
  BY Zenon, UnitsAssumption
<1>2. \A a, b \in Nat : a * b \in Nat
  OBVIOUS
<1>3. cap.cpu * CpuScale \in Nat
  BY Zenon, <1>1, <1>2
<1>4. \A a \in Nat : (a * 85) \div 100 \in Nat
  OBVIOUS
<1> QED
  BY Zenon, <1>1, <1>3, <1>4 DEF schedulable

\* The units that could ever be committed are finitely many.
LEMMA UnitsFinite == IsFiniteSet(Replica \X (1..MaxUnits))
<1>1. IsFiniteSet(1..MaxUnits)
  BY FS_Interval, UnitsAssumption
<1> QED
  BY Zenon, <1>1, FS_Product, ReplicaAssumption

\* What is committed to a node is a natural number of units.
LEMMA CommittedType ==
  ASSUME NEW asg, NEW n, NEW d, NEW x
  PROVE  /\ IsFiniteSet(UnitsOn(asg, n, d, x))
         /\ Committed(asg, n, d, x) \in Nat
<1>1. UnitsOn(asg, n, d, x) \in SUBSET (Replica \X (1..MaxUnits))
  BY Zenon DEF UnitsOn
<1> QED
  BY Zenon, <1>1, UnitsFinite, FS_Subset, FS_CardinalityType DEF Committed

\* k units of one more replica add k to the size.
LEMMA AddUnits ==
  ASSUME NEW S, IsFiniteSet(S), NEW r, NEW k \in Nat,
         \A u \in S : u[1] # r
  PROVE  Cardinality(S \cup ({r} \X (1..k))) = Cardinality(S) + k
<1>1. IsFiniteSet(1..k) /\ Cardinality(1..k) = k
  <2>1. /\ IsFiniteSet(1..k)
        /\ Cardinality(1..k) = IF 1 > k THEN 0 ELSE k - 1 + 1
    BY FS_Interval, k \in Int, 1 \in Int
  <2> QED
    BY <2>1
<1>2. IsFiniteSet({r}) /\ Cardinality({r}) = 1
  BY Zenon, FS_Singleton
<1>3. IsFiniteSet({r} \X (1..k)) /\ Cardinality({r} \X (1..k)) = 1 * k
  BY ZenonT(60), <1>1, <1>2, FS_Product
<1>4. S \cap ({r} \X (1..k)) = {}
  OBVIOUS
<1>5. Cardinality(S \cap ({r} \X (1..k))) = 0
  BY Zenon, <1>4, FS_EmptySet
<1>6. Cardinality(S \cup ({r} \X (1..k)))
        = Cardinality(S) + Cardinality({r} \X (1..k))
            - Cardinality(S \cap ({r} \X (1..k)))
  BY Zenon, <1>3, FS_Union
<1>7. Cardinality(S) \in Nat
  BY Zenon, FS_CardinalityType
<1> QED
  BY <1>3, <1>5, <1>6, <1>7

\* Committing req for r on n adds exactly req to what the others hold there.
LEMMA CommitAdds ==
  ASSUME TypeOK, NEW r \in Replica, NEW n \in Node, NEW req \in Request,
         NEW d \in {"cpu", "mem"},
         assignments' = [assignments EXCEPT ![r] = n],
         requests' = [requests EXCEPT ![r] = req]
  PROVE  Committed(assignments, n, d, NoEntry)'
           = Committed(assignments, n, d, r) + req[d]
<1>1. req[d] \in 0..MaxUnits /\ req # NoEntry
  BY Zenon, RequestAssumption
<1>2. \A u \in Replica \X (1..MaxUnits) :
        /\ u[1] \in Replica /\ u[2] \in 1..MaxUnits
        /\ u[1] # NoEntry
        /\ u[1] # r => /\ assignments'[u[1]] = assignments[u[1]]
                       /\ requests'[u[1]] = requests[u[1]]
        /\ u[1] = r => assignments'[u[1]] = n /\ requests'[u[1]] = req
  BY Zenon, ReplicaAssumption DEF TypeOK, SchedulerTypeOK
<1>3. UnitsOn(assignments, n, d, NoEntry)'
        = UnitsOn(assignments, n, d, r) \cup ({r} \X (1..req[d]))
  <2>1. ASSUME NEW u \in Replica \X (1..MaxUnits)
        PROVE  u \in UnitsOn(assignments, n, d, NoEntry)'
                 <=> \/ u \in UnitsOn(assignments, n, d, r)
                     \/ u[1] = r /\ u[2] <= req[d]
    <3>1. CASE u[1] = r
      BY Zenon, <1>1, <1>2, <3>1 DEF UnitsOn, Asked
    <3>2. CASE u[1] # r
      BY Zenon, <1>1, <1>2, <3>2 DEF UnitsOn, Asked
    <3> QED
      BY Zenon, <3>1, <3>2
  <2>2. \A u \in Replica \X (1..MaxUnits) :
          u[1] = r /\ u[2] <= req[d] <=> u \in {r} \X (1..req[d])
    BY <1>1
  <2>3. {r} \X (1..req[d]) \subseteq Replica \X (1..MaxUnits)
    BY <1>1, UnitsAssumption
  <2>4. /\ UnitsOn(assignments, n, d, NoEntry)' \subseteq Replica \X (1..MaxUnits)
        /\ UnitsOn(assignments, n, d, r) \subseteq Replica \X (1..MaxUnits)
    BY Zenon DEF UnitsOn
  <2> QED
    BY Zenon, <2>1, <2>2, <2>3, <2>4
<1>4. \A u \in UnitsOn(assignments, n, d, r) : u[1] # r
  BY Zenon DEF UnitsOn
<1>5. IsFiniteSet(UnitsOn(assignments, n, d, r))
  BY Zenon, CommittedType
<1>6. req[d] \in Nat
  BY <1>1, UnitsAssumption
<1>7. Cardinality(UnitsOn(assignments, n, d, r) \cup ({r} \X (1..req[d])))
        = Cardinality(UnitsOn(assignments, n, d, r)) + req[d]
  BY Zenon, <1>4, <1>5, <1>6, AddUnits
<1> QED
  BY Zenon, <1>3, <1>7 DEF Committed

\* The same of the state after a step.
LEMMA CommittedTypeNext ==
  ASSUME NEW n, NEW d
  PROVE  Committed(assignments, n, d, NoEntry)' \in Nat
<1>1. UnitsOn(assignments, n, d, NoEntry)' \in SUBSET (Replica \X (1..MaxUnits))
  BY Zenon DEF UnitsOn
<1> QED
  BY Zenon, <1>1, UnitsFinite, FS_Subset, FS_CardinalityType DEF Committed

\* Where no unit is added, the committed sum does not grow.
LEMMA CommittedMonotone ==
  ASSUME NEW n, NEW d,
         UnitsOn(assignments, n, d, NoEntry)' \subseteq UnitsOn(assignments, n, d, NoEntry)
  PROVE  Committed(assignments, n, d, NoEntry)' <= Committed(assignments, n, d, NoEntry)
<1>1. IsFiniteSet(UnitsOn(assignments, n, d, NoEntry))
  BY Zenon, CommittedType
<1> QED
  BY Zenon, <1>1, FS_Subset DEF Committed

\* A node on which no unit is added, and whose registration does not change,
\* does not become overcommitted.
LEMMA NotNewlyOvercommitted ==
  ASSUME TypeOK, NEW n \in Node, UNCHANGED nodes,
         \A d \in {"cpu", "mem"} :
            UnitsOn(assignments, n, d, NoEntry)' \subseteq UnitsOn(assignments, n, d, NoEntry),
         n \in Overcommitted'
  PROVE  n \in Overcommitted
<1>1. Registered(n) /\ nodes' = nodes
  BY Zenon DEF Overcommitted, Registered
<1> DEFINE cap == schedulable(nodes[n].cap)
<1>2. cap.cpu \in Nat /\ cap.mem \in Nat
  <2>1. nodes[n].cap \in [cpu : Nat, mem : Nat]
    BY Zenon, <1>1 DEF TypeOK, RegistryTypeOK, Registered, Entry
  <2> QED
    BY Zenon, <2>1, SchedulableType
<1>3. /\ Committed(assignments, n, "cpu", NoEntry)' <= Committed(assignments, n, "cpu", NoEntry)
      /\ Committed(assignments, n, "mem", NoEntry)' <= Committed(assignments, n, "mem", NoEntry)
  BY Zenon, CommittedMonotone
<1>4. /\ Committed(assignments, n, "cpu", NoEntry) \in Nat
      /\ Committed(assignments, n, "mem", NoEntry) \in Nat
      /\ Committed(assignments, n, "cpu", NoEntry)' \in Nat
      /\ Committed(assignments, n, "mem", NoEntry)' \in Nat
  BY Zenon, CommittedType, CommittedTypeNext
<1>5. \/ Committed(assignments, n, "cpu", NoEntry)' > cap.cpu
      \/ Committed(assignments, n, "mem", NoEntry)' > cap.mem
  BY Zenon, <1>1 DEF Overcommitted
<1> HIDE DEF cap
<1>6. \/ Committed(assignments, n, "cpu", NoEntry) > cap.cpu
      \/ Committed(assignments, n, "mem", NoEntry) > cap.mem
  BY <1>2, <1>3, <1>4, <1>5
<1> QED
  BY Zenon, <1>1, <1>6 DEF Overcommitted, cap

\* Committing a request that fits leaves the node within its capacity.
LEMMA FitStaysWithin ==
  ASSUME TypeOK, NEW r \in Replica, NEW n \in Node, NEW req \in Request,
         UNCHANGED nodes, Registered(n), Fits(assignments, n, r, req),
         assignments' = [assignments EXCEPT ![r] = n],
         requests' = [requests EXCEPT ![r] = req]
  PROVE  n \notin Overcommitted'
<1> DEFINE cap == schedulable(nodes[n].cap)
<1>1. cap.cpu \in Nat /\ cap.mem \in Nat
  <2>1. nodes[n].cap \in [cpu : Nat, mem : Nat]
    BY Zenon DEF TypeOK, RegistryTypeOK, Registered, Entry
  <2> QED
    BY Zenon, <2>1, SchedulableType
<1>2. /\ Committed(assignments, n, "cpu", NoEntry)'
           = Committed(assignments, n, "cpu", r) + req["cpu"]
      /\ Committed(assignments, n, "mem", NoEntry)'
           = Committed(assignments, n, "mem", r) + req["mem"]
  BY Zenon, CommitAdds
<1>3. /\ Committed(assignments, n, "cpu", r) + req.cpu <= cap.cpu
      /\ Committed(assignments, n, "mem", r) + req.mem <= cap.mem
  BY Zenon DEF Fits
<1>4. /\ Committed(assignments, n, "cpu", NoEntry)' \in Nat
      /\ Committed(assignments, n, "mem", NoEntry)' \in Nat
  BY Zenon, CommittedTypeNext
<1> HIDE DEF cap
<1>5. /\ ~(Committed(assignments, n, "cpu", NoEntry)' > cap.cpu)
      /\ ~(Committed(assignments, n, "mem", NoEntry)' > cap.mem)
  BY <1>1, <1>2, <1>3, <1>4
<1> QED
  BY Zenon, <1>5 DEF Overcommitted, cap

-----------------------------------------------------------------------------
(***************************************************************************)
(* What Assign and the releasing methods do to the nodes' load.            *)
(***************************************************************************)

\* Assign either releases the replica or commits its request to a registered
\* node on which it fits; it touches no other replica.
LEMMA AssignOutcome ==
  ASSUME TypeOK, NEW r \in Replica, NEW req \in Request,
         Assign(r, ParentOf[r], req)
  PROVE  \/ Drop({r})
         \/ \E n \in Node : /\ Registered(n)
                            /\ Fits(assignments, n, r, req)
                            /\ assignments' = [assignments EXCEPT ![r] = n]
                            /\ requests' = [requests EXCEPT ![r] = req]
<1>1. CASE AssignSticky(r, ParentOf[r], req)
  <2>1. assignments[r] \in Node /\ Registered(assignments[r])
    BY Zenon, <1>1 DEF AssignSticky, StaysPut, fitsOnNode, TypeOK, SchedulerTypeOK
  <2>2. assignments' = [assignments EXCEPT ![r] = assignments[r]]
    BY Zenon, <1>1 DEF AssignSticky, TypeOK, SchedulerTypeOK
  <2> QED
    BY Zenon, <1>1, <2>1, <2>2 DEF AssignSticky, StaysPut, fitsOnNode
<1>2. CASE AssignPlaced(r, ParentOf[r], req)
  <2> DEFINE n == place(assignments, r, ParentOf[r], req)
  <2>1. n \in Alive /\ Fits(assignments, n, r, req)
    BY Zenon, <1>2, PlaceFits DEF AssignPlaced
  <2>2. n \in Node /\ Registered(n)
    BY Zenon, <2>1 DEF Alive
  <2> QED
    BY Zenon, <1>2, <2>1, <2>2 DEF AssignPlaced
<1>3. CASE AssignFailed(r, ParentOf[r], req)
  BY Zenon, <1>3 DEF AssignFailed, Drop, TypeOK, SchedulerTypeOK
<1> QED
  BY Zenon, <1>1, <1>2, <1>3 DEF Assign

\* Dropping replicas adds no unit anywhere.
LEMMA DropShrinks ==
  ASSUME TypeOK, NEW S, Drop(S), NEW n \in Node, NEW d \in {"cpu", "mem"}
  PROVE  UnitsOn(assignments, n, d, NoEntry)' \subseteq UnitsOn(assignments, n, d, NoEntry)
<1>1. ASSUME NEW u \in Replica \X (1..MaxUnits),
             u \in UnitsOn(assignments, n, d, NoEntry)'
      PROVE  u \in UnitsOn(assignments, n, d, NoEntry)
  <2>1. u[1] \in Replica /\ u[1] # NoEntry
    BY Zenon, ReplicaAssumption
  <2>2. assignments'[u[1]] = n /\ n # NoEntry
    BY Zenon, <1>1, NoEntryAssumption DEF UnitsOn
  <2>3. /\ assignments'[u[1]] = assignments[u[1]]
        /\ requests'[u[1]] = requests[u[1]]
    BY Zenon, <2>1, <2>2 DEF Drop
  <2> QED
    BY Zenon, <1>1, <2>1, <2>2, <2>3 DEF UnitsOn, Asked
<1> QED
  BY Zenon, <1>1 DEF UnitsOn

\* Committing r to n adds no unit on another node.
LEMMA CommitElsewhereShrinks ==
  ASSUME TypeOK, NEW r \in Replica, NEW n \in Node, NEW req,
         assignments' = [assignments EXCEPT ![r] = n],
         requests' = [requests EXCEPT ![r] = req],
         NEW m \in Node, m # n, NEW d \in {"cpu", "mem"}
  PROVE  UnitsOn(assignments, m, d, NoEntry)' \subseteq UnitsOn(assignments, m, d, NoEntry)
<1>1. ASSUME NEW u \in Replica \X (1..MaxUnits),
             u \in UnitsOn(assignments, m, d, NoEntry)'
      PROVE  u \in UnitsOn(assignments, m, d, NoEntry)
  <2>1. u[1] \in Replica /\ u[1] # NoEntry
    BY Zenon, ReplicaAssumption
  <2>2. assignments'[u[1]] = m
    BY Zenon, <1>1 DEF UnitsOn
  <2>3. /\ assignments'[u[1]] = assignments[u[1]]
        /\ requests'[u[1]] = requests[u[1]]
    BY Zenon, <2>1, <2>2 DEF TypeOK, SchedulerTypeOK
  <2> QED
    BY Zenon, <1>1, <2>1, <2>2, <2>3 DEF UnitsOn, Asked
<1> QED
  BY Zenon, <1>1 DEF UnitsOn

-----------------------------------------------------------------------------
(***************************************************************************)
(* Without Rebalance the scheduler never overcommits a node by itself.     *)
(***************************************************************************)

\* What a step of Assign does to the load of the nodes.
LEMMA AssignLoad ==
  ASSUME TypeOK, NEW req \in Request, AssignNext(req)
  PROVE  AcceptedWithinCapacity /\ OvercommittedByRegistration
<1>1. PICK r \in Replica : Assign(r, ParentOf[r], req)
  BY Zenon DEF AssignNext
<1>2. UNCHANGED nodes
  BY Zenon DEF AssignNext
<1>3. CASE Drop({r})
  <2>1. AcceptedWithinCapacity
    BY Zenon, <1>3 DEF AcceptedWithinCapacity, Drop
  <2>2. Overcommitted' \subseteq Overcommitted
    <3>1. \A n \in Node : n \in Overcommitted' => n \in Overcommitted
      BY Zenon, <1>2, <1>3, DropShrinks, NotNewlyOvercommitted
    <3> QED
      BY Zenon, <3>1 DEF Overcommitted
  <2> QED
    BY Zenon, <2>1, <2>2 DEF OvercommittedByRegistration
<1>4. ASSUME NEW n \in Node, Registered(n), Fits(assignments, n, r, req),
             assignments' = [assignments EXCEPT ![r] = n],
             requests' = [requests EXCEPT ![r] = req]
      PROVE  AcceptedWithinCapacity /\ OvercommittedByRegistration
  <2>1. n \notin Overcommitted'
    BY Zenon, <1>2, <1>4, FitStaysWithin
  <2>2. \A q \in Replica \ {r} : /\ assignments'[q] = assignments[q]
                                 /\ requests'[q] = requests[q]
    BY Zenon, <1>4 DEF TypeOK, SchedulerTypeOK
  <2>3. assignments'[r] = n
    BY Zenon, <1>4 DEF TypeOK, SchedulerTypeOK
  <2>4. AcceptedWithinCapacity
    BY Zenon, <2>1, <2>2, <2>3 DEF AcceptedWithinCapacity
  <2>5. \A m \in Node \ {n} : m \in Overcommitted' => m \in Overcommitted
    BY Zenon, <1>2, <1>4, CommitElsewhereShrinks, NotNewlyOvercommitted
  <2>6. Overcommitted' \subseteq Overcommitted
    BY Zenon, <2>1, <2>5 DEF Overcommitted
  <2> QED
    BY Zenon, <2>4, <2>6 DEF OvercommittedByRegistration
<1> QED
  BY Zenon, <1>1, <1>3, <1>4, AssignOutcome

\* What a step of Unassign or ReassignNode does to the load of the nodes.
LEMMA ReleaseLoad ==
  ASSUME TypeOK, ReleaseNext
  PROVE  AcceptedWithinCapacity /\ OvercommittedByRegistration
<1>1. PICK S : Drop(S)
  BY Zenon DEF ReleaseNext, Unassign, ReassignNode
<1>2. UNCHANGED nodes
  BY Zenon DEF ReleaseNext
<1>3. AcceptedWithinCapacity
  BY Zenon, <1>1 DEF AcceptedWithinCapacity, Drop
<1>4. \A n \in Node : n \in Overcommitted' => n \in Overcommitted
  BY Zenon, <1>1, <1>2, DropShrinks, NotNewlyOvercommitted
<1> QED
  BY Zenon, <1>3, <1>4 DEF OvercommittedByRegistration, Overcommitted

\* What a registry step does: the load stays, a capacity may change.
LEMMA RegistryLoad ==
  ASSUME RegistryNext
  PROVE  AcceptedWithinCapacity /\ OvercommittedByRegistration
<1>1. assignments' = assignments /\ requests' = requests
  BY Zenon DEF RegistryNext, schedVars
<1>2. \A n, d : Committed(assignments, n, d, NoEntry)'
                  = Committed(assignments, n, d, NoEntry)
  BY Zenon, <1>1 DEF Committed, UnitsOn, Asked
<1>3. ASSUME NEW n \in Node, n \in Overcommitted', Registered(n),
             nodes'[n].cap = nodes[n].cap
      PROVE  n \in Overcommitted
  BY Zenon, <1>2, <1>3 DEF Overcommitted, schedulable
<1>4. AcceptedWithinCapacity
  BY Zenon, <1>1 DEF AcceptedWithinCapacity
<1>5. OvercommittedByRegistration
  <2>1. Overcommitted' \subseteq Node
    BY Zenon DEF Overcommitted
  <2> QED
    BY Zenon, <1>3, <2>1 DEF OvercommittedByRegistration
<1> QED
  BY Zenon, <1>4, <1>5

\* What any step without a rebalance does to the load of the nodes.
LEMMA LoadStep ==
  ASSUME TypeOK, NextNoRebalance
  PROVE  AcceptedWithinCapacity /\ OvercommittedByRegistration
BY Zenon, AssignLoad, ReleaseLoad, RegistryLoad DEF NextNoRebalance

\* Every node Assign commits a request to is within its schedulable capacity,
\* whatever nodes join, shrink or leave meanwhile, and after any rebalance; and
\* apart from a rebalance, a node becomes overcommitted only by a registration
\* that changes its capacity.
THEOREM CapacityIsKept == Spec => CapacityKept
<1>1. Bookkeeping /\ NextNoRebalance => AcceptedWithinCapacity /\ OvercommittedByRegistration
  BY Zenon, LoadStep DEF Bookkeeping
<1> QED
  BY <1>1, BookkeepingInit, BookkeepingStep, PTL DEF Spec, CapacityKept

-----------------------------------------------------------------------------
(***************************************************************************)
(* Rebalancing.  The target of a plan is a function of the set of placed    *)
(* replicas alone, which a rebalance leaves as it is.                       *)
(***************************************************************************)

\* What a plan moves a replica to.
LEMMA Moves ==
  ASSUME NEW asg, NEW r
  PROVE  /\ r \in DOMAIN planLocked(asg) <=>
              /\ r \in Replica /\ asg[r] # NoEntry
              /\ planTarget({q \in Replica : asg[q] # NoEntry})[r] \in Alive
              /\ planTarget({q \in Replica : asg[q] # NoEntry})[r] # asg[r]
         /\ r \in DOMAIN planLocked(asg) =>
              planLocked(asg)[r] = planTarget({q \in Replica : asg[q] # NoEntry})[r]
BY Zenon DEF planLocked

\* What a rebalance leaves a replica at: where the plan has it, if it has a
\* place for it, and where it was otherwise.
LEMMA Rebalanced ==
  ASSUME TypeOK, Rebalance
  PROVE  /\ Assigned' = Assigned
         /\ \A r \in Assigned :
              assignments'[r] = IF planTarget(Assigned)[r] \in Alive THEN planTarget(Assigned)[r]
                                                                    ELSE assignments[r]
<1> DEFINE moves == planLocked(assignments)
<1>1. assignments' = [r \in Replica |-> IF r \in DOMAIN moves THEN moves[r] ELSE assignments[r]]
  BY Zenon DEF Rebalance
<1>2. Assigned = {q \in Replica : assignments[q] # NoEntry}
  BY Zenon DEF Assigned
<1>3. \A r : /\ r \in DOMAIN moves <=> /\ r \in Assigned
                                      /\ planTarget(Assigned)[r] \in Alive
                                      /\ planTarget(Assigned)[r] # assignments[r]
             /\ r \in DOMAIN moves => moves[r] = planTarget(Assigned)[r]
  BY Zenon, <1>2, Moves
<1> HIDE DEF moves
<1>4. \A r \in Assigned :
        assignments'[r] = IF planTarget(Assigned)[r] \in Alive THEN planTarget(Assigned)[r]
                                                              ELSE assignments[r]
  BY Zenon, <1>1, <1>2, <1>3
<1>5. \A n \in Alive : n # NoEntry
  BY Zenon, NoEntryAssumption DEF Alive
<1>6. Assigned' = Assigned
  BY Zenon, <1>1, <1>2, <1>3, <1>4, <1>5 DEF Assigned
<1> QED
  BY Zenon, <1>4, <1>6

\* Planning again right after a rebalance yields no moves, for all nodes,
\* replicas, capacities and requests (Rebalance, RebalancePlan).
THEOREM RebalanceAlwaysSettles == Spec => RebalanceSettles
<1>1. ASSUME TypeOK, RebalanceNext
      PROVE  DOMAIN planLocked(assignments') = {}
  <2>1. Rebalance
    BY Zenon, <1>1 DEF RebalanceNext
  <2>2. {q \in Replica : assignments'[q] # NoEntry} = Assigned
    BY Zenon, <1>1, <2>1, Rebalanced DEF Assigned
  <2>3. ASSUME NEW r \in DOMAIN planLocked(assignments')
        PROVE  FALSE
    <3>1. r \in Assigned /\ planTarget(Assigned)[r] \in Alive
          /\ planTarget(Assigned)[r] # assignments'[r]
      BY Zenon, <2>2, <2>3, Moves
    <3> QED
      BY Zenon, <1>1, <2>1, <3>1, Rebalanced
  <2> QED
    BY Zenon, <2>3
<1>2. TypeOK /\ [Next]_vars =>
        [RebalanceNext => DOMAIN planLocked(assignments') = {}]_vars
  BY Zenon, <1>1
<1> QED
  BY <1>2, TypeCorrect, PTL DEF Spec, RebalanceSettles

-----------------------------------------------------------------------------
(***************************************************************************)
(* The scratch placement of a plan is a recursion over sets of replicas, one *)
(* taken out at a time.  Its order is total, so each set has a last replica; *)
(* the function exists by descent on the sizes of the sets; and each of its *)
(* values keeps every alive node within its capacity, by descent again.     *)
(***************************************************************************)

\* Requests are natural numbers.
LEMMA AskedType ==
  ASSUME TypeOK, NEW r \in Replica, NEW d \in {"cpu", "mem"}
  PROVE  Asked(r, d) \in Nat
<1>1. requests[r] # NoEntry => requests[r] \in [cpu : 0..MaxUnits, mem : 0..MaxUnits]
  BY Zenon, RequestAssumption DEF TypeOK, SchedulerTypeOK
<1>2. requests[r] # NoEntry => requests[r][d] \in 0..MaxUnits
  BY Zenon, <1>1
<1>3. 0..MaxUnits \subseteq Nat /\ 0 \in Nat
  BY UnitsAssumption
<1> QED
  BY Zenon, <1>2, <1>3 DEF Asked

\* The order of a plan is total: memory, CPU and identifier tell any two
\* replicas apart.
LEMMA OrderIsTotal ==
  ASSUME TypeOK, NEW q \in Replica, NEW r \in Replica, NEW t \in Replica
  PROVE  /\ q # r => PlacedBefore(q, r) \/ PlacedBefore(r, q)
         /\ PlacedBefore(q, r) /\ PlacedBefore(r, t) => PlacedBefore(q, t)
<1>1. \A x \in Replica : Asked(x, "mem") \in Nat /\ Asked(x, "cpu") \in Nat
  BY Zenon, AskedType
<1> DEFINE m(x) == Asked(x, "mem")
           c(x) == Asked(x, "cpu")
<1>2. /\ m(q) \in Nat /\ m(r) \in Nat /\ m(t) \in Nat
      /\ c(q) \in Nat /\ c(r) \in Nat /\ c(t) \in Nat
      /\ q \in Nat /\ r \in Nat /\ t \in Nat
  BY Zenon, <1>1, ReplicaAssumption
<1>3. ASSUME NEW x, NEW y
      PROVE  PlacedBefore(x, y) <=>
               m(x) > m(y) \/ (m(x) = m(y) /\ (c(x) > c(y) \/ (c(x) = c(y) /\ x < y)))
  BY Zenon DEF PlacedBefore
<1> HIDE DEF m, c
<1>4. q # r => PlacedBefore(q, r) \/ PlacedBefore(r, q)
  BY SMTT(30), <1>2, <1>3
<1>5. PlacedBefore(q, r) /\ PlacedBefore(r, t) => PlacedBefore(q, t)
  BY SMTT(30), <1>2, <1>3
<1> QED
  BY Zenon, <1>4, <1>5

\* Taking an element out of a set of replicas leaves a smaller one.
LEMMA Smaller ==
  ASSUME NEW S \in SUBSET Replica, NEW r \in S
  PROVE  /\ Cardinality(S) \in Nat /\ Cardinality(S \ {r}) \in Nat
         /\ Cardinality(S \ {r}) = Cardinality(S) - 1
<1>1. IsFiniteSet(S)
  BY Zenon, ReplicaAssumption, FS_Subset
<1> QED
  BY Zenon, <1>1, FS_RemoveElement, FS_CardinalityType

\* So a set of replicas has a last one.
LEMMA LastIsThere ==
  ASSUME TypeOK, NEW A \in SUBSET Replica, A # {}
  PROVE  LastPlaced(A) \in A
<1> DEFINE HasLast(S) == \E r \in S : \A q \in S \ {r} : PlacedBefore(q, r)
           B == {k \in Nat : \E S \in SUBSET Replica : S # {} /\ Cardinality(S) = k /\ ~HasLast(S)}
<1>1. ASSUME NEW k \in B
      PROVE  \E j \in B : j < k
  <2>1. PICK S \in SUBSET Replica : S # {} /\ Cardinality(S) = k /\ ~HasLast(S)
    BY Zenon, <1>1
  <2>2. PICK x \in S : TRUE
    BY Zenon, <2>1
  <2> DEFINE T == S \ {x}
  <2>3. T \in SUBSET Replica /\ x \in Replica
    BY Zenon, <2>1
  <2>4. T # {}
    BY Zenon, <2>1, <2>2
  <2>5. ASSUME NEW r \in T, \A q \in T \ {r} : PlacedBefore(q, r)
        PROVE  FALSE
    <3>1. CASE PlacedBefore(x, r)
      BY Zenon, <2>1, <2>5, <3>1
    <3>2. CASE PlacedBefore(r, x)
      <4>1. \A q \in S \ {x} : PlacedBefore(q, x)
        BY Zenon, <2>3, <2>5, <3>2, OrderIsTotal
      <4> QED
        BY Zenon, <2>1, <2>2, <4>1
    <3> QED
      BY Zenon, <2>3, <2>5, <3>1, <3>2, OrderIsTotal
  <2>6. ~HasLast(T)
    BY Zenon, <2>5
  <2>7. Cardinality(T) \in Nat /\ Cardinality(T) = k - 1 /\ k \in Nat
    BY Zenon, <2>1, <2>2, Smaller
  <2> HIDE DEF T, HasLast
  <2>8. Cardinality(T) \in B
    BY Zenon, <2>3, <2>4, <2>6, <2>7
  <2>9. Cardinality(T) < k
    BY <2>7
  <2> QED
    BY Zenon, <2>8, <2>9
<1> HIDE DEF HasLast
<1>2. B \in SUBSET Nat
  BY Zenon
<1>3. B = {}
  <2> HIDE DEF B
  <2> QED
    BY Zenon, <1>1, <1>2, Descent
<1>4. Cardinality(A) \in Nat
  BY Zenon, ReplicaAssumption, FS_Subset, FS_CardinalityType
<1>5. HasLast(A)
  BY Zenon, <1>3, <1>4
<1> QED
  BY Zenon, <1>5 DEF HasLast, LastPlaced

\* What planTarget's definition asks of the scratch placements f over the sets
\* of the family D.
ScratchOf(f, D) ==
  [S \in D |-> IF S = {} THEN [r \in Replica |-> NoEntry]
               ELSE PlaceNext(f[S \ {LastPlaced(S)}], LastPlaced(S))]

\* A recursion that takes one replica at a time out of a finite set ends: there
\* is a function that meets the definition.
LEMMA ScratchExists ==
  ASSUME TypeOK, NEW A \in SUBSET Replica
  PROVE  \E f : f = ScratchOf(f, SUBSET A)
<1> DEFINE D(k) == {S \in SUBSET A : Cardinality(S) <= k}
           B == {k \in Nat : ~ \E f : f = ScratchOf(f, D(k))}
<1>0. ASSUME NEW S \in SUBSET A
      PROVE  /\ Cardinality(S) \in Nat
             /\ Cardinality(S) = 0 => S = {}
             /\ S # {} => /\ LastPlaced(S) \in S /\ S \ {LastPlaced(S)} \in SUBSET A
                          /\ Cardinality(S \ {LastPlaced(S)}) = Cardinality(S) - 1
  <2>1. S \in SUBSET Replica
    BY Zenon
  <2>2. IsFiniteSet(S)
    BY Zenon, <2>1, ReplicaAssumption, FS_Subset
  <2>3. Cardinality(S) \in Nat /\ (Cardinality(S) = 0 => S = {})
    BY Zenon, <2>2, FS_CardinalityType, FS_EmptySet
  <2>4. S # {} => LastPlaced(S) \in S
    BY Zenon, <2>1, LastIsThere
  <2> QED
    BY Zenon, <2>1, <2>3, <2>4, Smaller
<1>1. 0 \notin B
  <2> DEFINE f == [S \in D(0) |-> [r \in Replica |-> NoEntry]]
  <2>1. \A S \in D(0) : S = {}
    <3>1. ASSUME NEW S \in D(0)
          PROVE  S = {}
      <4>1. S \in SUBSET A /\ Cardinality(S) \in Nat /\ Cardinality(S) <= 0
        BY Zenon, <1>0, <3>1
      <4>2. Cardinality(S) = 0
        BY <4>1
      <4> QED
        BY Zenon, <1>0, <4>1, <4>2
    <3> QED
      BY Zenon, <3>1
  <2>2. f = ScratchOf(f, D(0))
    BY Zenon, <2>1 DEF ScratchOf
  <2> HIDE DEF f, D
  <2> QED
    BY Zenon, <2>2
<1>2. ASSUME NEW k \in B
      PROVE  \E j \in B : j < k
  <2>1. k \in Nat /\ k # 0
    BY Zenon, <1>1, <1>2
  <2>2. k - 1 \in Nat /\ k - 1 < k
    BY <2>1
  <2>3. ASSUME NEW g, g = ScratchOf(g, D(k - 1))
        PROVE  FALSE
    <3> DEFINE f == ScratchOf(g, D(k))
    <3>1. ASSUME NEW S \in D(k), S # {}
          PROVE  /\ S \ {LastPlaced(S)} \in D(k - 1)
                 /\ S \ {LastPlaced(S)} \in D(k)
      <4> DEFINE T == S \ {LastPlaced(S)}
      <4>1. /\ S \in SUBSET A /\ Cardinality(S) \in Nat /\ Cardinality(S) <= k
            /\ T \in SUBSET A /\ Cardinality(T) = Cardinality(S) - 1
        BY Zenon, <1>0, <3>1
      <4> HIDE DEF T
      <4>2. Cardinality(T) <= k - 1 /\ Cardinality(T) <= k
        BY SMTT(30), <2>1, <4>1
      <4>3. T \in D(k - 1) /\ T \in D(k)
        BY Zenon, <4>1, <4>2
      <4> QED
        BY Zenon, <4>3 DEF T
    <3> HIDE DEF D
    <3>2. ASSUME NEW T \in D(k - 1), T \in D(k)
          PROVE  f[T] = g[T]
      <4>1. g[T] = ScratchOf(g, D(k - 1))[T]
        BY Zenon, <2>3
      <4> QED
        BY Zenon, <3>2, <4>1 DEF ScratchOf
    <3>3. ASSUME NEW S \in D(k)
          PROVE  f[S] = ScratchOf(f, D(k))[S]
      <4>1. S # {} => f[S \ {LastPlaced(S)}] = g[S \ {LastPlaced(S)}]
        BY Zenon, <3>1, <3>2
      <4>2. f[S] = IF S = {} THEN [r \in Replica |-> NoEntry]
                   ELSE PlaceNext(g[S \ {LastPlaced(S)}], LastPlaced(S))
        BY Zenon DEF ScratchOf
      <4> HIDE DEF f
      <4>3. ScratchOf(f, D(k))[S] = IF S = {} THEN [r \in Replica |-> NoEntry]
                                    ELSE PlaceNext(f[S \ {LastPlaced(S)}], LastPlaced(S))
        BY Zenon DEF ScratchOf
      <4> QED
        BY Zenon, <4>1, <4>2, <4>3
    <3>4. f = [S \in D(k) |-> f[S]]
      BY Zenon DEF ScratchOf
    <3> HIDE DEF f
    <3>5. f = ScratchOf(f, D(k))
      <4>1. ScratchOf(f, D(k)) = [S \in D(k) |-> ScratchOf(f, D(k))[S]]
        BY Zenon DEF ScratchOf
      <4> QED
        BY Zenon, <3>3, <3>4, <4>1
    <3> QED
      BY Zenon, <1>2, <3>5
  <2> HIDE DEF D
  <2>4. k - 1 \in B
    BY Zenon, <2>2, <2>3
  <2> QED
    BY Zenon, <2>2, <2>4
<1>3. B = {}
  <2>1. B \in SUBSET Nat
    BY Zenon
  <2> HIDE DEF B
  <2> QED
    BY Zenon, <1>2, <2>1, Descent
<1>4. Cardinality(A) \in Nat /\ IsFiniteSet(A)
  BY Zenon, ReplicaAssumption, FS_Subset, FS_CardinalityType
<1>5. D(Cardinality(A)) = SUBSET A
  BY Zenon, <1>4, FS_Subset
<1>6. \E f : f = ScratchOf(f, D(Cardinality(A)))
  <2> HIDE DEF D
  <2> QED
    BY Zenon, <1>3, <1>4
<1> QED
  BY Zenon, <1>5, <1>6

\* The targets of a plan are the last of such a function's placements.
LEMMA PlanIsScratch ==
  ASSUME TypeOK, NEW A \in SUBSET Replica
  PROVE  \E f : f = ScratchOf(f, SUBSET A) /\ planTarget(A) = f[A]
<1> DEFINE g == CHOOSE f : f = ScratchOf(f, SUBSET A)
<1>1. g = ScratchOf(g, SUBSET A)
  BY Zenon, ScratchExists
<1>2. planTarget(A) = g[A]
  BY Zenon DEF planTarget, ScratchOf
<1> QED
  BY Zenon, <1>1, <1>2

\* A placement under which no alive node is over its schedulable capacity.
WithinCapacity(asg) ==
  /\ asg \in [Replica -> Alive \cup {NoEntry}]
  /\ \A n \in Alive :
       /\ Committed(asg, n, "cpu", NoEntry) <= schedulable(nodes[n].cap).cpu
       /\ Committed(asg, n, "mem", NoEntry) <= schedulable(nodes[n].cap).mem

\* Considering one more replica adds what it asks for to the node it goes to.
LEMMA PlacedUnits ==
  ASSUME TypeOK, NEW asg \in [Replica -> Alive \cup {NoEntry}], NEW r \in Replica,
         NEW m \in Alive \cup {NoEntry}, NEW n \in Alive, NEW d \in {"cpu", "mem"}
  PROVE  /\ n # m => Committed([asg EXCEPT ![r] = m], n, d, NoEntry) <= Committed(asg, n, d, NoEntry)
         /\ n = m => Committed([asg EXCEPT ![r] = m], n, d, NoEntry)
                       <= Committed(asg, n, d, r) + Asked(r, d)
<1> DEFINE new == [asg EXCEPT ![r] = m]
           added == {r} \X (1..Asked(r, d))
<1>1. new[r] = m /\ \A q \in Replica : q # r => new[q] = asg[q]
  BY Zenon
<1>2. n # NoEntry
  BY Zenon, NoEntryAssumption DEF Alive
<1> HIDE DEF new
<1>3. CASE n # m
  <2>1. UnitsOn(new, n, d, NoEntry) \in SUBSET UnitsOn(asg, n, d, NoEntry)
    <3>1. ASSUME NEW u \in UnitsOn(new, n, d, NoEntry)
          PROVE  u \in UnitsOn(asg, n, d, NoEntry)
      <4>1. /\ u \in Replica \X (1..MaxUnits) /\ u[1] # NoEntry /\ new[u[1]] = n
            /\ u[2] <= Asked(u[1], d)
        BY Zenon, <3>1 DEF UnitsOn
      <4>2. u[1] \in Replica
        BY Zenon, <4>1
      <4>3. asg[u[1]] = n
        BY Zenon, <1>1, <1>3, <4>1, <4>2
      <4> QED
        BY Zenon, <4>1, <4>3 DEF UnitsOn
    <3> QED
      BY Zenon, <3>1
  <2>2. IsFiniteSet(UnitsOn(asg, n, d, NoEntry))
    BY Zenon, CommittedType
  <2>3. Committed(new, n, d, NoEntry) <= Committed(asg, n, d, NoEntry)
    BY Zenon, <2>1, <2>2, FS_Subset DEF Committed
  <2> QED
    BY Zenon, <1>3, <2>3 DEF new
<1>4. CASE n = m
  <2>1. UnitsOn(new, n, d, NoEntry) \in SUBSET (UnitsOn(asg, n, d, r) \cup added)
    <3>1. ASSUME NEW u \in UnitsOn(new, n, d, NoEntry), u \notin added
          PROVE  u \in UnitsOn(asg, n, d, r)
      <4>1. /\ u \in Replica \X (1..MaxUnits) /\ u[1] # NoEntry /\ new[u[1]] = n
            /\ u[2] <= Asked(u[1], d)
        BY Zenon, <3>1 DEF UnitsOn
      <4>2. u[1] # r
        <5>1. ASSUME u[1] = r
              PROVE  u \in {r} \X (1..Asked(r, d))
          <6>1. u[2] <= Asked(r, d) /\ Asked(r, d) \in Nat
            BY Zenon, <4>1, <5>1, AskedType
          <6> QED
            BY SMTT(30), <4>1, <5>1, <6>1
        <5> QED
          BY Zenon, <3>1, <5>1
      <4>3. u[1] \in Replica
        BY Zenon, <4>1
      <4>4. asg[u[1]] = n
        BY Zenon, <1>1, <4>1, <4>2, <4>3
      <4> QED
        BY Zenon, <4>1, <4>2, <4>4 DEF UnitsOn
    <3> QED
      BY Zenon, <3>1
  <2>2. IsFiniteSet(UnitsOn(asg, n, d, r)) /\ \A u \in UnitsOn(asg, n, d, r) : u[1] # r
    <3>1. \A u \in UnitsOn(asg, n, d, r) : u[1] # r
      BY Zenon DEF UnitsOn
    <3> QED
      BY Zenon, <3>1, CommittedType
  <2>3. Asked(r, d) \in Nat
    BY Zenon, AskedType
  <2>4. Cardinality(UnitsOn(asg, n, d, r) \cup added) = Committed(asg, n, d, r) + Asked(r, d)
    BY Zenon, <2>2, <2>3, AddUnits DEF Committed
  <2>5. IsFiniteSet(UnitsOn(asg, n, d, r) \cup added)
    <3>1. IsFiniteSet(1..Asked(r, d))
      BY SMTT(30), <2>3, FS_Interval
    <3>2. IsFiniteSet({r})
      BY Zenon, FS_Singleton
    <3>3. IsFiniteSet(added)
      BY Zenon, <3>1, <3>2, FS_Product
    <3> QED
      BY Zenon, <2>2, <3>3, FS_Union
  <2>6. Committed(new, n, d, NoEntry) <= Committed(asg, n, d, r) + Asked(r, d)
    BY Zenon, <2>1, <2>4, <2>5, FS_Subset DEF Committed
  <2> QED
    BY Zenon, <1>4, <2>6 DEF new
<1> QED
  BY Zenon, <1>3, <1>4

\* Considering one more replica keeps every alive node within its capacity.
LEMMA PlaceNextWithin ==
  ASSUME TypeOK, NEW rest, WithinCapacity(rest), NEW r \in Replica
  PROVE  WithinCapacity(PlaceNext(rest, r))
<1> DEFINE req == AskedFor(r)
           m == place(rest, r, parents[r], req)
<1>1. m \in Alive \cup {NoEntry}
  BY Zenon, PlaceType
<1>2. m # NoEntry => m \in Alive /\ Fits(rest, m, r, req)
  BY Zenon, PlaceFits
<1>3. PlaceNext(rest, r) = [rest EXCEPT ![r] = m]
  BY Zenon DEF PlaceNext
<1>4. req.cpu = Asked(r, "cpu") /\ req.mem = Asked(r, "mem")
  BY SMTT(30) DEF AskedFor
<1> HIDE DEF m, req
<1>5. rest \in [Replica -> Alive \cup {NoEntry}]
  BY Zenon DEF WithinCapacity
<1>6. ASSUME NEW n \in Alive
      PROVE  /\ Committed([rest EXCEPT ![r] = m], n, "cpu", NoEntry) <= schedulable(nodes[n].cap).cpu
             /\ Committed([rest EXCEPT ![r] = m], n, "mem", NoEntry) <= schedulable(nodes[n].cap).mem
  <2> DEFINE cap == schedulable(nodes[n].cap)
             old(d, x) == Committed(rest, n, d, x)
             new(d) == Committed([rest EXCEPT ![r] = m], n, d, NoEntry)
  <2>1. cap.cpu \in Nat /\ cap.mem \in Nat
    <3>1. nodes[n].cap \in [cpu : Nat, mem : Nat]
      BY Zenon DEF TypeOK, RegistryTypeOK, Alive, Registered, Entry
    <3> QED
      BY Zenon, <3>1, SchedulableType
  <2>2. ASSUME NEW d \in {"cpu", "mem"}
        PROVE  /\ old(d, NoEntry) \in Nat /\ old(d, r) \in Nat /\ new(d) \in Nat /\ Asked(r, d) \in Nat
               /\ IF n = m THEN new(d) <= old(d, r) + Asked(r, d) ELSE new(d) <= old(d, NoEntry)
    BY Zenon, <1>1, <1>5, CommittedType, PlacedUnits, AskedType
  <2>3. old("cpu", NoEntry) <= cap.cpu /\ old("mem", NoEntry) <= cap.mem
    BY Zenon DEF WithinCapacity
  <2>4. n = m => /\ old("cpu", r) + Asked(r, "cpu") <= cap.cpu
                 /\ old("mem", r) + Asked(r, "mem") <= cap.mem
    <3>1. ASSUME n = m
          PROVE  Fits(rest, n, r, req)
      BY Zenon, <1>2, <3>1, NoEntryAssumption DEF Alive
    <3> QED
      BY Zenon, <1>4, <3>1 DEF Fits
  <2> HIDE DEF cap, old, new
  <2>5. new("cpu") <= cap.cpu /\ new("mem") <= cap.mem
    BY SMTT(30), <2>1, <2>2, <2>3, <2>4
  <2> QED
    BY Zenon, <2>5 DEF cap, new
<1>7. [rest EXCEPT ![r] = m] \in [Replica -> Alive \cup {NoEntry}]
  BY Zenon, <1>1, <1>5
<1> QED
  BY Zenon, <1>3, <1>6, <1>7 DEF WithinCapacity

\* A plan overcommits no alive node.
LEMMA PlanWithin ==
  ASSUME TypeOK, NEW A \in SUBSET Replica
  PROVE  WithinCapacity(planTarget(A))
<1>1. PICK f : f = ScratchOf(f, SUBSET A) /\ planTarget(A) = f[A]
  BY Zenon, PlanIsScratch
<1>2. ASSUME NEW S \in SUBSET A
      PROVE  f[S] = IF S = {} THEN [r \in Replica |-> NoEntry]
                    ELSE PlaceNext(f[S \ {LastPlaced(S)}], LastPlaced(S))
  <2>1. f[S] = ScratchOf(f, SUBSET A)[S]
    BY Zenon, <1>1
  <2> QED
    BY Zenon, <2>1 DEF ScratchOf
<1> DEFINE B == {k \in Nat : \E S \in SUBSET A : Cardinality(S) = k /\ ~WithinCapacity(f[S])}
<1>3. WithinCapacity([r \in Replica |-> NoEntry])
  <2> DEFINE none == [r \in Replica |-> NoEntry]
  <2>1. none \in [Replica -> Alive \cup {NoEntry}]
    BY Zenon
  <2>2. ASSUME NEW n \in Alive
        PROVE  /\ Committed(none, n, "cpu", NoEntry) <= schedulable(nodes[n].cap).cpu
               /\ Committed(none, n, "mem", NoEntry) <= schedulable(nodes[n].cap).mem
    <3>1. \A d : UnitsOn(none, n, d, NoEntry) = {}
      <4>1. n # NoEntry
        BY Zenon, NoEntryAssumption DEF Alive
      <4>2. \A u \in Replica \X (1..MaxUnits) : none[u[1]] = NoEntry
        BY Zenon
      <4> HIDE DEF none
      <4> QED
        BY Zenon, <4>1, <4>2 DEF UnitsOn
    <3>2. Committed(none, n, "cpu", NoEntry) = 0 /\ Committed(none, n, "mem", NoEntry) = 0
      <4> HIDE DEF none
      <4> QED
        BY Zenon, <3>1, FS_EmptySet DEF Committed
    <3>3. schedulable(nodes[n].cap).cpu \in Nat /\ schedulable(nodes[n].cap).mem \in Nat
      <4>1. nodes[n].cap \in [cpu : Nat, mem : Nat]
        BY Zenon DEF TypeOK, RegistryTypeOK, Alive, Registered, Entry
      <4> QED
        BY Zenon, <4>1, SchedulableType
    <3> HIDE DEF none
    <3> QED
      BY SMTT(30), <3>2, <3>3
  <2> HIDE DEF none
  <2>3. WithinCapacity(none)
    BY Zenon, <2>1, <2>2 DEF WithinCapacity
  <2> QED
    BY Zenon, <2>3 DEF none
<1>4. ASSUME NEW k \in B
      PROVE  \E j \in B : j < k
  <2>1. PICK S \in SUBSET A : Cardinality(S) = k /\ ~WithinCapacity(f[S])
    BY Zenon, <1>4
  <2>2. S # {} /\ S \in SUBSET Replica
    BY Zenon, <1>2, <1>3, <2>1
  <2> DEFINE r == LastPlaced(S)
             T == S \ {r}
  <2>3. r \in S /\ r \in Replica /\ T \in SUBSET A
    BY Zenon, <2>2, LastIsThere
  <2>4. f[S] = PlaceNext(f[T], r)
    BY Zenon, <1>2, <2>2
  <2>5. Cardinality(T) \in Nat /\ Cardinality(T) = k - 1 /\ k \in Nat
    BY Zenon, <2>1, <2>2, <2>3, Smaller
  <2> HIDE DEF r, T
  <2>6. ~WithinCapacity(f[T])
    BY Zenon, <2>1, <2>3, <2>4, PlaceNextWithin
  <2>7. Cardinality(T) \in B
    BY Zenon, <2>3, <2>5, <2>6
  <2>8. Cardinality(T) < k
    BY <2>5
  <2> QED
    BY Zenon, <2>7, <2>8
<1>5. B = {}
  <2>1. B \in SUBSET Nat
    BY Zenon
  <2> HIDE DEF B
  <2> QED
    BY Zenon, <1>4, <2>1, Descent
<1>6. Cardinality(A) \in Nat
  BY Zenon, ReplicaAssumption, FS_Subset, FS_CardinalityType
<1> QED
  BY Zenon, <1>1, <1>5, <1>6

\* After a rebalance a node is over its capacity only if a replica it had was
\* found no place, for all nodes, replicas, capacities and requests: if every
\* replica was placed no node is over, whatever nodes had shrunk (Rebalance,
\* planLocked, place).
THEOREM OnlyStuckOvercommit == Spec => RebalanceOvercommitsOnlyStuck
<1> DEFINE plan == planTarget(Assigned)
           stuck == {q \in Assigned : plan[q] \notin Alive}
<1>1. ASSUME TypeOK, RebalanceNext
      PROVE  Overcommitted' \subseteq {assignments[r] : r \in stuck}
  <2> SUFFICES ASSUME NEW n \in Overcommitted', \A r \in stuck : assignments[r] # n
               PROVE  FALSE
    BY Zenon
  <2>1. Rebalance /\ UNCHANGED <<nodes, requests>>
    BY Zenon, <1>1 DEF RebalanceNext, Rebalance
  <2>2. n \in Node /\ Registered(n)
    BY Zenon, <2>1 DEF Overcommitted, Registered
  <2>3. n # NoEntry
    BY Zenon, <2>2, NoEntryAssumption
  <2>4. Assigned \in SUBSET Replica
    BY Zenon DEF Assigned
  <2>5. WithinCapacity(plan)
    BY Zenon, <1>1, <2>4, PlanWithin
  <2>6. ASSUME NEW r \in Replica, assignments'[r] = n
        PROVE  plan[r] = n /\ n \in Alive
    <3>1. Assigned' = Assigned
      BY Zenon, <1>1, <2>1, Rebalanced
    <3>2. r \in Assigned
      BY Zenon, <2>3, <2>6, <3>1 DEF Assigned
    <3>3. assignments'[r] = IF plan[r] \in Alive THEN plan[r] ELSE assignments[r]
      BY Zenon, <1>1, <2>1, <3>2, Rebalanced
    <3>4. plan[r] \in Alive
      BY Zenon, <2>6, <3>2, <3>3
    <3> QED
      BY Zenon, <2>6, <3>3, <3>4
  <2> DEFINE cap == schedulable(nodes[n].cap)
             is(d) == Committed(assignments, n, d, NoEntry)'
             was(d) == Committed(plan, n, d, NoEntry)
  <2>7. cap.cpu \in Nat /\ cap.mem \in Nat
    <3>1. nodes[n].cap \in [cpu : Nat, mem : Nat]
      BY Zenon, <1>1, <2>2 DEF TypeOK, RegistryTypeOK, Registered, Entry
    <3> QED
      BY Zenon, <3>1, SchedulableType
  <2>8. is("cpu") > cap.cpu \/ is("mem") > cap.mem
    BY Zenon, <2>1 DEF Overcommitted
  <2> HIDE DEF plan, stuck
  <2>9. ASSUME NEW d \in {"cpu", "mem"}
        PROVE  is(d) \in Nat /\ was(d) \in Nat /\ is(d) <= was(d)
    <3>1. UnitsOn(assignments, n, d, NoEntry)' \in SUBSET UnitsOn(plan, n, d, NoEntry)
      <4>1. ASSUME NEW u \in UnitsOn(assignments, n, d, NoEntry)'
            PROVE  u \in UnitsOn(plan, n, d, NoEntry)
        <5>1. /\ u \in Replica \X (1..MaxUnits) /\ u[1] # NoEntry /\ assignments'[u[1]] = n
              /\ u[2] <= Asked(u[1], d)
          BY Zenon, <2>1, <4>1 DEF UnitsOn, Asked
        <5>2. u[1] \in Replica
          BY Zenon, <5>1
        <5>3. plan[u[1]] = n
          BY Zenon, <2>6, <5>1, <5>2
        <5> QED
          BY Zenon, <5>1, <5>3 DEF UnitsOn
      <4> QED
        BY Zenon, <4>1
    <3>2. IsFiniteSet(UnitsOn(plan, n, d, NoEntry)) /\ was(d) \in Nat
      BY Zenon, CommittedType
    <3>3. is(d) <= was(d)
      BY Zenon, <3>1, <3>2, FS_Subset DEF Committed
    <3> QED
      BY Zenon, <3>2, <3>3, CommittedTypeNext
  <2>10. CASE n \in Alive
    <3>1. was("cpu") <= cap.cpu /\ was("mem") <= cap.mem
      BY Zenon, <2>5, <2>10 DEF WithinCapacity
    <3> HIDE DEF cap, is, was
    <3> QED
      BY SMTT(30), <2>7, <2>8, <2>9, <3>1
  <2>11. CASE n \notin Alive
    <3>1. ASSUME NEW d
          PROVE  is(d) = 0
      <4>1. \A u \in Replica \X (1..MaxUnits) : assignments'[u[1]] # n
        BY Zenon, <2>6, <2>11
      <4>2. UnitsOn(assignments, n, d, NoEntry)' = {}
        BY Zenon, <4>1 DEF UnitsOn
      <4> QED
        BY Zenon, <4>2, FS_EmptySet DEF Committed
    <3> HIDE DEF cap, is
    <3> QED
      BY SMTT(30), <2>7, <2>8, <3>1
  <2> QED
    BY Zenon, <2>10, <2>11
<1>2. TypeOK /\ [Next]_vars =>
        [RebalanceNext =>
           Overcommitted' \subseteq
             {assignments[r] : r \in {q \in Assigned : planTarget(Assigned)[q] \notin Alive}}]_vars
  BY Zenon, <1>1
<1> QED
  BY <1>2, TypeCorrect, PTL DEF Spec, RebalanceOvercommitsOnlyStuck
=============================================================================
