------------------------------ MODULE Scheduler ------------------------------
(***************************************************************************)
(* The scheduler (internal/scheduler/scheduler.go) over the node registry: *)
(* which node each workload replica is assigned to, with which parent and   *)
(* which resource request.  Every method holds the scheduler's mutex, so    *)
(* every method is one atomic step; the registry has a mutex of its own and *)
(* changes between those steps.                                             *)
(*                                                                         *)
(* The three maps are total functions with NoEntry for an absent key.      *)
(* Resources are counted in abstract units: a node reports CpuScale units  *)
(* of CPU per core (1000 millicores in the code) and its memory in units of *)
(* memory (megabytes in the code).                                          *)
(***************************************************************************)
EXTENDS Registry, FiniteSets

CONSTANTS Replica,     \* replica identifiers, ordered as their strings are
          Parent,      \* identifiers of the workloads the replicas belong to
          ParentOf,    \* the workload of each replica
          CpuScale,    \* units of CPU per core
          MaxUnits,    \* no request exceeds this many units of CPU or memory
          Request      \* the requests workloads make: [cpu, mem] records

ASSUME ReplicaAssumption ==
  Replica \subseteq Nat /\ IsFiniteSet(Replica) /\ NoEntry \notin Replica

ASSUME ParentAssumption == ParentOf \in [Replica -> Parent] /\ NoEntry \notin Parent

ASSUME UnitsAssumption == CpuScale \in Nat /\ MaxUnits \in Nat

ASSUME RequestAssumption ==
  /\ Request \subseteq [cpu : 0..MaxUnits, mem : 0..MaxUnits]
  /\ NoEntry \notin Request

VARIABLES assignments, \* Scheduler.assignments: replica -> node, or NoEntry
          parents,     \* Scheduler.parents: replica -> workload, or NoEntry
          requests     \* Scheduler.requests: replica -> request, or NoEntry

schedVars == <<assignments, parents, requests>>

SchedulerTypeOK ==
  /\ assignments \in [Replica -> Node \cup {NoEntry}]
  /\ parents \in [Replica -> Parent \cup {NoEntry}]
  /\ requests \in [Replica -> Request \cup {NoEntry}]

SchedulerInit ==
  /\ assignments = [r \in Replica |-> NoEntry]
  /\ parents = [r \in Replica |-> NoEntry]
  /\ requests = [r \in Replica |-> NoEntry]

Assigned == {r \in Replica : assignments[r] # NoEntry}

-----------------------------------------------------------------------------
(***************************************************************************)
(* Accounting.                                                             *)
(***************************************************************************)

\* schedulable: what remains of a reported capacity after the 15% reserve.
\* The code multiplies by the float64 0.85 and truncates, which is the exact
\* floor for every capacity a machine can report.
schedulable(cap) == [cpu |-> (cap.cpu * CpuScale * 85) \div 100,
                     mem |-> (cap.mem * 85) \div 100]

\* What replica r asks of resource d ("cpu" or "mem"); a missing request
\* reads as the zero value.
Asked(r, d) == IF requests[r] = NoEntry THEN 0 ELSE requests[r][d]

\* The units of resource d committed on node n under the assignment asg,
\* replica x left out.  The sum of the requests is written as the size of the
\* set of committed units, one element per unit.
UnitsOn(asg, n, d, x) ==
  {u \in Replica \X (1..MaxUnits) :
     u[1] # x /\ asg[u[1]] = n /\ u[2] <= Asked(u[1], d)}

Committed(asg, n, d, x) == Cardinality(UnitsOn(asg, n, d, x))

\* A faulty Fits: it forgets the memory.
FitsCpuOnly(asg, n, x, req) ==
  Committed(asg, n, "cpu", x) + req.cpu <= schedulable(nodes[n].cap).cpu

\* Does req fit on n beside everything asg commits there except x's share?
Fits(asg, n, x, req) ==
  LET cap == schedulable(nodes[n].cap)
  IN  /\ Committed(asg, n, "cpu", x) + req.cpu <= cap.cpu
      /\ Committed(asg, n, "mem", x) + req.mem <= cap.mem

\* fitsOnNode: a node that is not registered never fits.
fitsOnNode(n, r, req) == Registered(n) /\ Fits(assignments, n, r, req)

\* Overcommitted: the registered nodes with more committed than schedulable.
\* (NoEntry is no replica, so nothing is left out of the sums.)
Overcommitted ==
  {n \in Node :
     /\ Registered(n)
     /\ LET cap == schedulable(nodes[n].cap)
        IN  \/ Committed(assignments, n, "cpu", NoEntry) > cap.cpu
            \/ Committed(assignments, n, "mem", NoEntry) > cap.mem}

-----------------------------------------------------------------------------
(***************************************************************************)
(* place: the node for a replica of workload p that asks req, beside what   *)
(* asg commits (x left out).  Fewest siblings first, then the least         *)
(* remaining capacity, then the node's identifier.                          *)
(***************************************************************************)

\* A share free/total of one resource as a fraction; a node with none of the
\* resource counts as having nothing left.
Share(free, total) == IF total > 0 THEN [num |-> free, den |-> total]
                                   ELSE [num |-> 0, den |-> 1]

\* The remaining capacity of n once req is on it: the free share of the CPU
\* plus the free share of the memory.
Remaining(asg, n, x, req) ==
  LET cap == schedulable(nodes[n].cap)
      c == Share(cap.cpu - Committed(asg, n, "cpu", x) - req.cpu, cap.cpu)
      m == Share(cap.mem - Committed(asg, n, "mem", x) - req.mem, cap.mem)
  IN  [num |-> c.num * m.den + m.num * c.den, den |-> c.den * m.den]

Siblings(asg, n, x, p) ==
  Cardinality({q \in Replica \ {x} : asg[q] = n /\ parents[q] = p})

\* Is a ordered before b by place's sort?
Before(asg, a, b, x, p, req) ==
  LET sa == Siblings(asg, a, x, p)
      sb == Siblings(asg, b, x, p)
      ra == Remaining(asg, a, x, req)
      rb == Remaining(asg, b, x, req)
  IN  \/ sa < sb
      \/ sa = sb /\ ra.num * rb.den < rb.num * ra.den
      \/ sa = sb /\ ra.num * rb.den = rb.num * ra.den /\ a < b

place(asg, x, p, req) ==
  LET fitting == {n \in Alive : Fits(asg, n, x, req)}
      best == {a \in fitting :
                 \A b \in fitting \ {a} : Before(asg, a, b, x, p, req)}
  IN  IF best = {} THEN NoEntry ELSE CHOOSE a \in best : TRUE

-----------------------------------------------------------------------------
(***************************************************************************)
(* Assign, Unassign and ReassignNode.                                      *)
(***************************************************************************)

\* Faulty version: a grown request is kept in place unchecked.
StaysPutUnchecked(r, req) == assignments[r] # NoEntry /\ Registered(assignments[r])

\* Is Assign's early return taken: r is assigned, and req still fits there?
StaysPut(r, req) ==
  /\ assignments[r] # NoEntry
  /\ fitsOnNode(assignments[r], r, req)

\* A faulty version: the request is added to the one on record.
AssignStickyAdds(r, p, req) ==
  /\ StaysPut(r, req)
  /\ requests' = [requests EXCEPT ![r].cpu = @ + req.cpu, ![r].mem = @ + req.mem]
  /\ UNCHANGED <<assignments, parents>>

\* Assign keeps a replica where it is and refreshes its request.
AssignSticky(r, p, req) ==
  /\ StaysPut(r, req)
  /\ requests' = [requests EXCEPT ![r] = req]
  /\ UNCHANGED <<assignments, parents>>

\* Assign releases a replica that no longer fits, or was never placed, and
\* places it.
AssignPlaced(r, p, req) ==
  LET n == place(assignments, r, p, req)
  IN  /\ ~StaysPut(r, req)
      /\ n # NoEntry
      /\ assignments' = [assignments EXCEPT ![r] = n]
      /\ parents' = [parents EXCEPT ![r] = p]
      /\ requests' = [requests EXCEPT ![r] = req]

\* A faulty version: the released replica's request is left behind.
AssignFailedKeepsRequest(r, p, req) ==
  /\ ~StaysPut(r, req)
  /\ place(assignments, r, p, req) = NoEntry
  /\ assignments' = [assignments EXCEPT ![r] = NoEntry]
  /\ parents' = [parents EXCEPT ![r] = NoEntry]
  /\ UNCHANGED requests

\* Assign finds no node: the replica stays released, and Assign fails.
AssignFailed(r, p, req) ==
  /\ ~StaysPut(r, req)
  /\ place(assignments, r, p, req) = NoEntry
  /\ assignments' = [assignments EXCEPT ![r] = NoEntry]
  /\ parents' = [parents EXCEPT ![r] = NoEntry]
  /\ requests' = [requests EXCEPT ![r] = NoEntry]

Assign(r, p, req) ==
  \/ AssignSticky(r, p, req)
  \/ AssignPlaced(r, p, req)
  \/ AssignFailed(r, p, req)

\* Drop the replicas of the set S from all three maps.
Drop(S) ==
  /\ assignments' = [r \in Replica |-> IF r \in S THEN NoEntry ELSE assignments[r]]
  /\ parents' = [r \in Replica |-> IF r \in S THEN NoEntry ELSE parents[r]]
  /\ requests' = [r \in Replica |-> IF r \in S THEN NoEntry ELSE requests[r]]

Unassign(r) == Drop({r})

\* The replicas ReassignNode evicts from n.
AssignedTo(n) == {r \in Replica : assignments[r] = n}

ReassignNode(n) == Drop(AssignedTo(n))

-----------------------------------------------------------------------------
(***************************************************************************)
(* Rebalance: a fresh placement of every assigned replica, the largest      *)
(* request first, onto the alive nodes; what fits nowhere stays put.        *)
(***************************************************************************)

\* planLocked's order of the replicas: memory, then CPU, then identifier.
PlacedBefore(q, r) ==
  \/ Asked(q, "mem") > Asked(r, "mem")
  \/ /\ Asked(q, "mem") = Asked(r, "mem")
     /\ \/ Asked(q, "cpu") > Asked(r, "cpu")
        \/ Asked(q, "cpu") = Asked(r, "cpu") /\ q < r

\* The last of the replicas of S in that order.
LastPlaced(S) == CHOOSE r \in S : \A q \in S \ {r} : PlacedBefore(q, r)

\* What r asks for, as the argument of place.
AskedFor(r) == [cpu |-> Asked(r, "cpu"), mem |-> Asked(r, "mem")]

\* The scratch placement once r has been considered beside rest.
PlaceNext(rest, r) == [rest EXCEPT ![r] = place(rest, r, parents[r], AskedFor(r))]

\* The target of each replica of the set A, NoEntry where none was found.
\* target[S] is the scratch placement once the replicas of S, a prefix of the
\* order, have been considered: that of all but the last, then the last.
planTarget(A) ==
  LET target[S \in SUBSET A] ==
        IF S = {} THEN [r \in Replica |-> NoEntry]
        ELSE PlaceNext(target[S \ {LastPlaced(S)}], LastPlaced(S))
  IN  target[A]

\* planLocked: the moves from the assignment asg to the target, as a function
\* from the replicas that move to the nodes they move to.  Without alive nodes
\* a plan has no moves.
planLocked(asg) ==
  LET held == {r \in Replica : asg[r] # NoEntry}
      target == planTarget(held)
  IN  [r \in {q \in held : target[q] \in Alive /\ target[q] # asg[q]} |-> target[r]]

\* A faulty version: only the first move of the plan is committed.
RebalanceFirstMove ==
  LET moves == planLocked(assignments)
  IN  /\ assignments' = [r \in Replica |->
           IF r \in DOMAIN moves /\ \A q \in DOMAIN moves : r <= q
             THEN moves[r]
             ELSE assignments[r]]
      /\ UNCHANGED <<parents, requests>>

\* Rebalance commits the plan by repointing the assignments.
Rebalance ==
  LET moves == planLocked(assignments)
  IN  /\ assignments' = [r \in Replica |-> IF r \in DOMAIN moves
                                             THEN moves[r]
                                             ELSE assignments[r]]
      /\ UNCHANGED <<parents, requests>>

-----------------------------------------------------------------------------
(***************************************************************************)
(* The specification.                                                      *)
(***************************************************************************)

vars == <<nodes, assignments, parents, requests>>

Init == RegistryInit /\ SchedulerInit

RegistryNext ==
  /\ \E n \in Node : \/ \E cap \in Capacity[n] : Register(n, cap)
                     \/ Heartbeat(n)
                     \/ Remove(n)
                     \/ Expire(n)
  /\ UNCHANGED schedVars

AssignNext(req) ==
  /\ \E r \in Replica : Assign(r, ParentOf[r], req)
  /\ UNCHANGED nodes

ReleaseNext ==
  /\ \/ \E r \in Replica : Unassign(r)
     \/ \E n \in Node : ReassignNode(n)
  /\ UNCHANGED nodes

\* Everything but a rebalance, which only an operator asks for.
NextNoRebalance ==
  \/ RegistryNext
  \/ \E req \in Request : AssignNext(req)
  \/ ReleaseNext

RebalanceNext == Rebalance /\ UNCHANGED nodes

Next == NextNoRebalance \/ RebalanceNext

Spec == Init /\ [][Next]_vars
-----------------------------------------------------------------------------
(***************************************************************************)
(* Properties.                                                             *)
(***************************************************************************)

\* The registry holds entries, and the scheduler's maps hold nodes, parents and
\* requests, under replicas (Scheduler.assignments, parents, requests).
TypeOK == RegistryTypeOK /\ SchedulerTypeOK

\* The three maps of the scheduler always hold the same replicas: no path
\* through Assign, Unassign, ReassignNode or Rebalance leaves a request or a
\* parent behind for a replica that is no longer assigned, or loses one.
MapsAgree ==
  \A r \in Replica : /\ assignments[r] = NoEntry <=> parents[r] = NoEntry
                     /\ assignments[r] = NoEntry <=> requests[r] = NoEntry

\* A step that gives a replica a node or another request leaves that node
\* within its schedulable capacity.
AcceptedWithinCapacity ==
  \A r \in Replica :
    /\ assignments'[r] # NoEntry
    /\ <<assignments'[r], requests'[r]>> # <<assignments[r], requests[r]>>
    => assignments'[r] \notin Overcommitted'

\* A node that a step makes overcommitted is one that step registers, for the
\* first time or with another capacity.
OvercommittedByRegistration ==
  \A n \in Overcommitted' \ Overcommitted :
    ~Registered(n) \/ nodes'[n].cap # nodes[n].cap

\* Apart from a rebalance, whenever Assign accepts a request (a new replica, a
\* grown request kept in place, or a replica moved because it no longer fits)
\* the node it commits it to is within its schedulable capacity afterwards, and
\* a node becomes overcommitted only by registering with another capacity than
\* it had: no sequence of Assign, Unassign and ReassignNode, whatever nodes come
\* and go, piles up more than fits.
CapacityKept ==
  [][NextNoRebalance => AcceptedWithinCapacity /\ OvercommittedByRegistration]_vars

\* The same of every step, as the comment on Overcommitted has it ("a node can
\* still end up over capacity if it rejoins reporting less CPU/memory"); it does
\* not hold of Rebalance.
OvercommitOnlyOnRejoin == [][OvercommittedByRegistration]_vars

\* A rebalance is settled by one round: planning again right after it, with
\* nothing else changed, yields no moves (the comment on RebalancePlan:
\* "re-planning an already-balanced cluster yields no moves").
RebalanceSettles ==
  [][RebalanceNext => DOMAIN planLocked(assignments') = {}]_vars

\* After a rebalance only a node that holds a replica for which the plan found
\* no place can be overcommitted; when every replica was placed, none is, even
\* if nodes had shrunk before.
RebalanceOvercommitsOnlyStuck ==
  [][RebalanceNext =>
       Overcommitted' \subseteq
         {assignments[r] : r \in {q \in Assigned : planTarget(Assigned)[q] \notin Alive}}]_vars
=============================================================================
