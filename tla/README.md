# Smith in TLA+

Smith is a small container orchestrator. A control plane (`cmd/server`) keeps the
desired workloads in SQLite, schedules their replicas onto nodes and pushes
assignments to agents (`cmd/agent`), one per node, which run the containers with
containerd and CNI, install routes to their peers and program iptables for
services, published ports and an ingress proxy. `smithctl apply` sends directories
of manifests to the control plane; `smith-server gencerts` and `add-agent` issue
the certificates with which server and agents know each other.

These modules model the parts of Smith where steps of several actors meet. TLC
checks them on small instances, and TLAPS proves every safety and action
property of the passing runs for all values of the constants, several of them in
circumstances the theorem states. Paths below are relative to the repository.

## The parts and their modules

| Part | Source | Module | Proofs |
|---|---|---|---|
| node registry | `internal/registry/registry.go` | `Registry` | through `Scheduler`, `Network` |
| scheduler | `internal/scheduler/scheduler.go` | `Scheduler` (extends `Registry`) | `SchedulerProofs` |
| reconcile loop, workload and node API, agents' loops, faults | `internal/reconciler/reconciler.go`, `internal/api/server.go`, `internal/agent/agent.go` | `Cluster` (extends `Scheduler`) | `ClusterProofs` |
| containers on an agent | `internal/runtime/containerd.go`, `cni.go`, `internal/agent/agent.go` | `Container` | `NodeProofs` |
| subnets and routes | `internal/reconciler/subnets_sqlite.go`, `internal/runtime/routes.go`, `internal/api/server.go` | `Network` (extends `Registry`) | `NodeProofs` |
| services | `internal/reconciler/services_sqlite.go`, `internal/runtime/service_proxy.go`, `internal/api/server.go` | `Services` | `ServicesProofs` |
| what the allocators promise | (abstract) | `Leases`, refined by `Network` and `Services` | `NodeProofs`, `ServicesProofs`, `PoolLemmas` |
| manifests, apply and its client | `internal/manifest/resolve.go`, `internal/apply/apply.go`, `internal/client/client.go` | `Apply` | `IngressProofs` |
| ingress | `internal/agent/ingress.go`, `internal/api/server.go`, `internal/reconciler/ingresses_sqlite.go` | `Ingress` (extends `Apply`) | `IngressProofs` |
| host ports and volumes | `internal/runtime/firewall.go`, `volumes.go`, `internal/agent/agent.go` | `AgentHost` | `AgentHostProofs` |
| certificates | `cmd/server/main.go`, `internal/provision/provision.go`, `internal/tls/tls.go`, `internal/api/server.go` | `Certificates` | `CertificatesProofs` |

`MC*.tla` give the constants their values, one `.cfg` per run. `PROJECT.json`
lists components, runs, the lines each definition models, mutants, hazards,
findings and theorems. Operators commented "a faulty version" are mutants: each
replaces a definition by a plausible mistake that must break a property.

### Registry and Scheduler

Every method holds its mutex throughout, so it is one step. A registry entry is
the reported capacity and whether the last heartbeat is within
`HeartbeatTimeout` (`fresh`); `Expire` is the passing of time. The scheduler's
three maps are `assignments`, `parents` and `requests`. `Assign` is the sticky
path, the placement and the two failures of the code; `place` compares scores as
fractions, as the code does in floating point. `schedulable` keeps the integer
arithmetic: `cap.cpu * CpuScale * 85 / 100` for CPU (`CpuScale` stands for 1000
millicores) and the same share of memory. Load is counted as the cardinality of
a set of units, which the proofs can reason about without recursion; `MaxUnits`
bounds a request. Identifiers are numbers, so that the order of the strings the
code sorts by is the order of the numbers.

### Cluster

One pass of `reconcile` is a sequence of steps, one per HTTP call or method of
the store, registry or scheduler (`pc`); API handlers, agents and faults run
between any two. The variables `desired`, `running`, `unavailable`, `listed` are
the pass's local copies, stale as soon as they are taken. A call is handled and
answered, lost on the way, or handled with its answer lost. `handleAssign`
answers at once and leaves a start in `starting`; `FinishStart` may come any time
later.

Abstractions: a container runs or is absent (its inner steps are in `Container`);
two identical pending starts on one node are one; how long ago a push was is a
choice of `Repush`, so any record whose replica did not run may be past the grace
period. A `scenario`, chosen at the start of a behaviour, says what may happen in
it: which workloads are submitted, which API calls and faults there are and how
many, and whether starts are `prompt`, that is finish before the next tick, with
no record of this very pass past the grace period. One run covers several
scenarios, which are of the same question with different circumstances. A
database error ends a pass before its first step and is left out. A stop that outlasts the client's 5s timeout appears
as a lost answer only. `PowerOff` leaves one node up. On `Boot` registration and
`CleanupAll` are one step.

### Container

One identifier on one agent. containerd's record and task, the CNI address and
`Client.ips` are keyed by identifier, so a step of one call acts on whatever
carries it. `run[g]` and `stop[s]` say where each `RunContainer` and
`StopContainer` is; `undo_*` are the deferred functions in the order Go runs them.
NewTask, Setup, Teardown and Start may fail at any time. A failing CNI ADD may have
taken the address already, and `RunContainer` returns before it has deferred the
Teardown; a failing DEL releases nothing. `lost` collects the addresses that nobody
is going to release: of a half-done ADD, of a run whose own DEL failed, of a failed
DEL of `CleanupAll`, and of a run that had no record when the agent crashed
(`CleanupAll` enumerates records). Both leak properties allow these and no others. In
particular a DEL of `StopContainer` that fails loses nothing by itself. The 10s
limit on waiting for a killed process is left out: a SIGKILLed process exits.

### Network

`registerNode` and `registerNodeAllocate` are the two halves of the handler, as
`removeNode` and `removeNodeRelease` are. A registration's answer may be lost.
`nodeRoutes` reads the allocations, `nodeRoutesPeers` the registry, and `Sync`
installs the answer later, and may leave off anywhere: `done` is the set of blocks
it got to. A failing `RouteReplace` or `RouteDel` is only logged, so any set is
possible. Kernel routes outlive the agent's process (`StopAgent`) and go with the
host (`ShutDown`). A node is decommissioned only when its host is down, as
`removeNode`'s comment asks (`ShutDownFirst`), and its agent does not start before
that is done. `Gone` are nodes that left without being decommissioned: the table
may start with blocks of theirs, which is how the pool runs out.

### Services and Leases

The store with its two pools, `computeEndpoints` in its two reads, and the steps
of `ServiceProxy.Sync`, each of which may fail half-way and end the sync. A
chain's clear-and-refill is one step when it succeeds. A chain that a rule jumps
to cannot be deleted. `NodePortsOpen` says that once changes stop the ports on record
are those of the stored services, and that each is open with the declared protocol,
provided that no port is declared with two of them over time; a change of
protocol, and what stays open besides them after a restart, are the subject of two
replay configurations.

`Leases` is the abstract specification of an allocator: a thing is leased to one
holder at a time, a holder keeps the one it has, and nothing in use is returned.
`Network` implements it with nodes as holders, blocks as things, `subnets` as the
leases and the agents' configured blocks as what is in use (`SubnetsAreLeases`).
`Services` implements it twice, with ClusterIPs and with NodePorts
(`AllocationsAreLeases`).

### Apply and Ingress

A manifest is its names and references; all other validation is its field
`valid`. Every call may fail, with or without its effect. Resources of one kind
go out in any order. `todo` is what the current loop has left, `listed` the lists
`prunePlan` took, one after the other.

`Ingress` composes this with the control plane's join and the agents' proxies.
`computeIngressRules` reads the ingresses and then the services, two steps
between which a run of apply goes on; the answer travels to the agent, which
replaces its table with it. A fetch may fail anywhere, and an agent that starts
may find no wildcard certificate and go without a proxy. Services have ClusterIPs
from a small pool, so that an address passes from one service to another while
old tables are in use.

### AgentHost

The host around the containers of an agent. Each iptables command is a step, and
`rules` counts the copies of a rule, because `Exists` and `Insert` are two
commands with no lock around them. A handler goes through its list of ports
(`left`), then `resolveVolumes`, and leaves a start behind; `handleUnassign`
takes the recorded ports, stops, closes. `refused` remembers for whom opening
failed. A handler that leaves a start behind has returned, so the next handler for
the same identifier may overtake that start. A restart takes the handlers and the map
`ports`, a reboot the kernel's rules and mount too. `Container` has the inside of a start and a stop, which are
one step here; a stop that fails stands also for a process that outlives the 10s
wait.

`Overlap` says whether handlers for one identifier may overlap. The control plane
makes them one after the other, but gives up on an unassign after 5s: a stop that
takes longer goes on beside what it sends next. Without overlap, and with
identifiers that publish different ports (the documents state that limit),
`RunningPortsOpen` and `NoOtherLeak` hold. No two handlers are then at the same
rule; that they meet there, and insert it twice, is what `MCAgentHostTwice` shows,
and `MCAgentHostOverlap` what becomes of the open ports.

### Certificates

Commands and the server read and write files one at a time, and either may be
killed between two. A CA or a leaf is known by the number of the command that
made it, so a certificate and a key of different commands do not match.
`add-agent` reads `ca.crt` twice and `ca.key` once. Commands run beside each other as
they like, two `gencerts` included. `Fatal` is `log.Fatalf`, which ends every goroutine of the server,
also one that is between the two files of the wildcard pair. The ACME exchange is
one step that succeeds or fails; nothing in the code renews a certificate.

`MutualTrust` has two parts. Bundles chain, always: `add-agent` verifies them. Server
and agents trust each other as long as `orderly` holds, that is nobody has given
`-force-ca` or run two `gencerts` at once (each finds no CA, and writes its own). A
server that started while the very first `gencerts` was under way is left out: it
may have read a `ca.crt` that was made again before its leaf was, and does not trust
its own leaf then. `PublicApiComesUp` makes one exception, too: a certificate cached
without its key, which `provisionCert` takes for cached at every start
(`MCCertificatesHalf`).

## Runs

| Run (`.cfg`) | Bounds | Shows |
|---|---|---|
| `MCScheduler` | 2 nodes, 3 replicas of 2 workloads, shrinking and zero capacities | `MapsAgree`; `CapacityKept`: apart from a rebalance, `Assign` stays within the schedulable capacity and only a registration overcommits a node; a second rebalance plans no move; after a rebalance only a node with an unplaceable replica is overcommitted |
| `MCClusterOperate` | 2 nodes, 2 replicas, 2 specs; 2 scenarios: 2 updates with slow starts; a rebalance or decommission with a partition or a server restart | `BudgetKept` in the first, `Available` in both |
| `MCClusterConverge` | 3 scenarios: 2 of update, scaling, removal with an exit, a failed pull or a host failure; 2 of rebalance and update with an exit; no calls, slow starts, 2 of lost request, lost answer, host failure | `NoTwoCopies`, `Converges`, `NoOrphans` |
| `MCContainer` | 2 runs, 2 stops, 1 crash of the agent, any failures | no leak at rest or of a returned run but the `lost` addresses, calls settle |
| `MCNetworkJoin` | 3 nodes, one of them gone, 2 blocks, 6 events | the subnet table implements `Leases`; no route to the own block; only an exhausted pool keeps an agent waiting; routes converge |
| `MCServices` | 2 services, 2 protocols, 4 changes, a failure, a restart | both pools implement `Leases`; dispatch, chains, NodePorts |
| `MCIngress` | 2 apps, 11 directories, 1 host, 2 addresses, 3 runs of apply, 1 agent, 1 restart | references, exact success, all or nothing; no live ingress skipped, proxies converge |
| `MCAgentHost` | 2 identifiers, 3 ports, 2 calls at once, 5 calls, 2 failures, 1 restart | recorded ports open, no unexplained open port |
| `MCCertificates` | 2 shells, 3 commands, 1 kill, 1 failed order | `MutualTrust`, the public API comes up |

Two nodes and two replicas suffice for the cluster's questions: a replica can be
moved, duplicated or orphaned only between two nodes, and the rollout budget of
one is exceeded by two replicas. Two runs of one identifier let a late clean-up
meet a successor. Two blocks for two nodes let a block change hands, and make the
pool run out when the node that is gone still holds one; 6 events let both nodes
join, one of them leave, be decommissioned and come back, and something else
happen besides. Three runs of apply let one fail, a second run into what it left,
and a third finish; the directories hand a host and a service from one app to the
other. Two identifiers, one with two versions that share a port, let handlers
interleave and a record be overwritten; 5 calls are an assignment, its
successor and both unassignments with one to spare. Three commands are a
`gencerts` that is killed, one that is run again, and an `add-agent` beside it.

### Disagreements with comments and documents

Three runs are expected to end in a counterexample; `PROJECT.json` (`findings`)
quotes the sentence each contradicts.

- `MCContainerStop`: a stop before the task exists answers OK, and it starts.
- `MCAgentHostVolumes`: when the mount fails at the agent's start, a workload with
  volumes is started all the same, on the node's own disk.
- `MCCertificatesPublic`: a failed order for the public certificate ends the whole
  server, the listener for the agents included, which `README.md` calls independent
  of it.

The other configurations each ask one question whose answer is a counterexample
too. They mark the limits of the properties above and are kept for replay, with
`tlc -config <name>.cfg <module>`; `PROJECT.json` does not list them as runs.

- `MCSchedulerOvercommit`: a rebalance overcommits a node although no node has
  registered: what the plan cannot place stays on top of what it planned there.
- `MCClusterGrow`: replicas relocated by a growing request are outside the
  rollout budget. `MCClusterRollLoss`: so is a roll whose assign call was
  lost (`BudgetAlways`, the budget without the proviso `OnlyRollouts`).
- `MCClusterSlowMove`: a move does not stop a start that is still under way.
- `MCClusterMoveEvict`: evicting a replica drops the record of its copy elsewhere.
- `MCClusterSlowUpdate`: a start with the old spec wins over the recorded push.
- `MCClusterOrphan`: the sweep stops a replica where it is assigned, not where it
  was pushed.
- `MCClusterRestartCopy`: after a server restart a replica may run twice for good.
- `MCContainerIP`: a late clean-up erases its successor's address.
- `MCNetworkStaleRoute`: a node decommissioned with its agent stopped but its host up
  gets a peer's old block, and the leftover route to that block stays.
- `MCServicesProtocol`, `MCServicesRestart`: open NodePorts are remembered by port
  only, and only in memory.
- `MCIngressOperators`: with two runs of apply at once, one prunes what the other
  refers to.
- `MCAgentHostOverlap`: an unassign that outlasts its caller closes the ports of
  the assignment that followed it. `MCAgentHostTwice`: two overlapping assignments
  insert a rule twice.
- `MCCertificatesHalf`: a certificate without its key is never replaced.

The third scenario of `MCClusterConverge` has no API calls for a reason of the same
kind as `MCClusterSlowUpdate`: when the answer to an assign is lost, the push is
not recorded, so an update finds no old copy to stop, the agent already has the
container, and the old spec keeps running under the record of the new one.

A passing run that checks a property named above excludes the circumstance that
breaks it, by its calls, its faults, `prompt`, `Overlap`, `ShutDownFirst` or its
operators, or the property itself does (`OnlyRollouts` in `BudgetKept`, `orderly` in
`MutualTrust`, `SameProtocol` in `NodePortsOpen`); the table's bounds say which.

## Fairness

Liveness is checked under weak fairness of the loops and goroutines the code
keeps running: the reconcile ticker, heartbeats, syncs, starts and handlers once
begun. A partition heals. Strong fairness is assumed where something is tried
again and again: a record whose replica is not Running pass after pass gets past
the grace period (time passes), a registration is at last answered, and a fetch
of ingress rules at last succeeds. The server is restarted when it fails
(`Restart=on-failure` of its unit), and each of its two provisioning goroutines takes
its next step; the number of failed orders is bounded. Nothing is assumed of operators and their
commands, of hosts coming back, or of containers exiting. In `Container` every
call takes its next step; a process need not exit. `AgentHost` has safety
properties only. Faults and API calls are bounded, so "eventually" means once they
stop. Deadlock is checked where the system never stops; in the other runs the
bounds of calls and faults end a behaviour.

## Proofs

`tlapm M.tla` checks the proofs of module `M`. Most leaves name the backend that
proves them (`Zenon`, or `SMTT(n)` where arithmetic or record updates are needed):
trying the other one first only costs time.

`SchedulerProofs`, for any sets of nodes, replicas and requests:

- `TypeCorrect`, `MapsAlwaysAgree` for the scheduler with rebalancing. Neither
  conjunct is inductive alone: a rebalance keeps types only if a planned replica
  has a request, and the maps agree only if a key holds a value of its type; so
  the invariant is `Bookkeeping == TypeOK /\ MapsAgree`.
- `CapacityIsKept`, about every step but a rebalance, in behaviours that may
  rebalance at any time. It rests on how a step changes `Committed`, the load of a
  node (`LoadStep`): only a replica that `Fits` is added, and everything else can
  only shrink a load. Of a rebalance step it is false (`MCSchedulerOvercommit`).
- `RebalanceAlwaysSettles`: the target of a plan depends on the set of placed
  replicas and not on where they are, and a rebalance leaves that set alone.
- `OnlyStuckOvercommit`: no alive node is over its capacity under the plan itself
  (`PlanWithin`), so what is over has a replica that stayed. The plan is a
  recursion over sets of replicas. The induction is done by hand, as infinite
  descent on the size of a set (`Descent` in `PoolLemmas`): the order of a plan is
  total, so every set has a last replica (`LastIsThere`), a function that meets
  the recursive definition exists (`ScratchExists`), and considering one more
  replica keeps every node within its capacity (`PlaceNextWithin`).

`ClusterProofs`, for any sets of nodes, replicas and workloads, any capacities and
requests and any number of API calls and faults:

- `ClusterTyped` and `ClusterMapsAgree`, in every scenario, from `ClusterInv`: the
  types, the agreement of the maps, and what a step of a pass relies on from the
  steps before it (`PassPlaced`).
- `OneCopyWhereNothingMoves`: `NoTwoCopies` where requests and capacities do not
  change and nobody rebalances, decommissions or restarts the server (`NoMoves`),
  with no partition and with stops that take effect (`StopsReach`: nothing is
  scaled in, or starts are prompt and no request is lost). Hosts may fail, starts
  may be slow and fail, containers exit, answers be lost. The argument: every
  assigned replica fits where it is, so `Assign` is sticky (`Standing`); push
  records, the pass and its sweep name the assigned node (`PassStanding`); so every
  copy is where its replica is assigned, and there is none on a node that is found
  dead (`AtHome`).
- `OneCopyThroughMoves`: `NoTwoCopies` while rebalances and growing requests do
  move replicas, where hosts stay up (`HostsStayUp`), nothing is scaled in and
  starts are prompt (`OnlyMoves`). A copy is now where its push record says
  (`Recorded`), which the pass stops before it starts another; and a pass counts
  each copy as running, or has started it itself and is done with the replica
  (`Noticed`).
- `BudgetAlwaysKept`: `BudgetKept`, which is about behaviours with `OnlyRollouts`
  (workloads are submitted and removed, and at most starts fail), if requests and
  capacities do not change, however slow starts are. The invariant `Counted` compares the
  replicas that are down with the pass's count, which is behind by the one being
  rolled.

The circumstances of the first two theorems about `NoTwoCopies` are those of the
behaviour's own scenario. `OneCopy` puts them together, for a cluster each of whose
scenarios is of either kind; so are those of `MCClusterConverge`.
`MCClusterGrow`, `MCClusterRollLoss`, `MCClusterSlowMove`, `MCClusterMoveEvict` and
`MCClusterRestartCopy` each drop one of the circumstances, and end in a
counterexample.

`NodeProofs` has two parts. The first, for any set of nodes and any number of
blocks:

- `NetworkTyped`, `ConfiguredStaysAllocated`, `ConfiguredStayDisjoint` and the
  refinement `SubnetsImplementLeases`, from the invariant `Addressing`: allocations
  are distinct, and every answer under way or configured is the node's current
  allocation. That the lowest free block is free (`PoolLemmas`) uses the
  well-foundedness of `<` on the naturals.
- `LeasesAreExclusive`, what an implementation of `Leases` gains. The invariant
  adds that what is used is held, and held by one.
- `NeverRoutedToSelf`, if hosts are shut down before they are decommissioned
  (`ShutDownFirst`). Routes outlive agents, so the invariant `Routed` is about
  the table: a node with a block there has no route to it, a node without one has no
  routes at all, and the lists on their way to an agent, however old, were read
  while its block was its own.

The second, for any number of calls on one container identifier and of crashes:
`ContainerTyped`, `NothingIsLeft` and `ReturnedLeftNothing`. Whatever there is
(record, task, address, entry of the map) has a `RunContainer` at a step from which
it will still remove it, or is an address in `lost`; so when the calls have returned
nothing else is left.

`ServicesProofs`, for any services and pools of any size:

- `StoreImplementsLeases`: every step of `Services` is a step, or a stutter, of
  both instances of `Leases`.
- `DispatchStaysSound`. A rule leads to a chain because of what `Sync` has done
  before it writes the rule, and ClusterIPs differ because they did in the store
  when the table was read; so the invariant has the store, the table under way
  (`TableSound`) and the progress of the sync (`ChainsMade`).
- `ServicesTyped`, and `RecordedIsOpen`: what `syncNodePorts` has on record as open
  is open. That is the part of `NodePortsOpen` that holds at every moment.

`IngressProofs`, for any manifests, directories, hosts and agents:

- `RefsAlwaysResolve`, `SuccessIsExact` and `NoneSkipped`, with one operator. A
  call is safe because of the loops before it, so the invariant `RunSound` says,
  for each loop, what is live of the declared resources (`Applying`) and what is
  left of the undeclared ones (`Pruning`).
- `AlwaysAllOrNothing`, with any number of operators: a run that is under way has
  a directory all of whose manifests resolve (`Validated`).
- `IngressTyped`, with any number of operators too.

`AgentHostProofs`, for any identifiers, ports, numbers of calls and failures,
assuming that calls for one identifier do not overlap and identifiers have
different ports: `RecordedPortsOpen` and `LeaksAreExplained`. The
invariant `HostInv` says that an identifier has at most one handler besides starts
left behind, that a handler that opens has recorded its ports and one that closes
has taken them out, that a rule about to be inserted is not there, and that a
recorded port is open or still in its handler's list. `HostTypeKept` needs neither
assumption: its invariant `HostPlaced` follows each call from the assignment it was
made for.

`CertificatesProofs`, for any number of commands, shells and crashes:
`ClusterIsNeverRekeyed`. Half a CA is overwritten and a whole one is not, so the
invariant is about the key, which is written last: while `orderly` holds the first
key is the only one (`OneKey`), and what any command has loaded, signed or
bundled since goes with it. That bundles chain is proved without it.
`CertificatesTyped`: nothing is issued before its signer has been made or read.

The assumptions are those named in the modules of the parts; TLC evaluates them in
every run of these modules. Several only say that a value for "nothing" is
none of the values it stands beside (`NoEntry`, `None`). The theorems' own
(`Operator = {o}`, `Overlap = FALSE`, `PortsApart`, `ShutDownFirst = TRUE`) hold in the runs that check the same properties.

What is only model-checked is what must eventually happen: `Converges`,
`NoOrphans`, `Available`, `CallsSettle`, `AgentsComeUp`, `RoutesConverge`,
`ChainsConverge`, `NodePortsOpen`, `ProxiesConverge` and `PublicApiComesUp`. Liveness
under fairness is beyond the prover.

## Not modelled

- The health monitor: the server builds it, but nothing calls its `Watch`.
- Secrets: `sops` is an external program, its failure an invalid manifest.
- The rebalance command and diff: one API call, or lists, and printing. The UI:
  static files. Logs and status: read only.
- Of ingress, how a request is forwarded and the exchange of the wildcard
  certificate in a running proxy; of certificates, expiry, the Route 53 calls, and
  the archive and script of a bundle.
- An agent without iptables, which manages no ports, and a share that goes away
  after it was mounted.
- SQL, migrations and database errors: every store operation is atomic.
- A node decommissioned while its agent runs, which `removeNode`'s comment rules
  out, and a partition during an update: a copy on the far side counts as Running
  and is left over when it heals.

## Plan

1. `AgentHost` composed with `Container`, so that a stop that outlasts its caller
   meets the next start step by step.
2. An abstract specification of the replica set, with `Cluster` shown to implement
   it in the circumstances of `OneCopyWhereNothingMoves`.
