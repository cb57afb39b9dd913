------------------------------ MODULE Network ------------------------------
(***************************************************************************)
(* Joining and leaving the cluster, and the cross-node network built on it: *)
(* registerNode, removeNode and nodeRoutes of internal/api/server.go, the   *)
(* persistent SubnetAllocator, and the agent's registration, heartbeat and  *)
(* route-sync loops with RouteManager.Sync.                                 *)
(*                                                                         *)
(* Register and Allocate are two steps of one handler, and Remove and       *)
(* Release two steps of another: they hold different locks.  A node's       *)
(* subnet is the index of its /24 block; a route's gateway is the peer      *)
(* node.  A node stands for its HostIP too: all nodes have one.             *)
(***************************************************************************)
EXTENDS Registry, FiniteSets

CONSTANTS Blocks,       \* the number of /24 blocks (256 in the code)
          Gone,         \* nodes whose hosts never come back; they may have left
                        \* with a block, and are not decommissioned yet
          MaxEvents,    \* bound: starts, stops, decommissions, server restarts
          ShutDownFirst \* is a node shut down before it is decommissioned, or
                        \* only its agent stopped?

ASSUME BlocksAssumption == Blocks \in Nat

ASSUME EventsAssumption == MaxEvents \in Nat /\ ShutDownFirst \in BOOLEAN

Block == 0..(Blocks - 1)

ASSUME NoBlockAssumption == NoEntry \notin Block

VARIABLES subnets,      \* the table node_subnets: node -> block, or NoEntry
          allocating,   \* nodes with a registerNode between Register and Allocate
          leaving,      \* nodes with a removeNode between Remove and Release
          agent,        \* "down" (with its host), "off", "registering" (in Start) or "up"
          answer,       \* the answer to a registration, not yet read by the agent
          netCfg,       \* Agent.netCfg: the block the node is configured for
          subnetList,   \* what nodeRoutes has read of the table for a node
          routeList,    \* the routes on their way to the node
          kernel,       \* the gateway'd /24 routes: node -> block -> peer
          events

netVars == <<nodes, subnets, allocating, leaving, agent, answer, netCfg,
             subnetList, routeList, kernel, events>>

NoRoutes == [b \in Block |-> NoEntry]

\* Allocated blocks, configured blocks and routed blocks are blocks of the
\* cluster CIDR (SubnetAllocator, RouteManager).
NetworkTypeOK ==
  /\ RegistryTypeOK
  /\ subnets \in [Node -> Block \cup {NoEntry}]
  /\ allocating \subseteq Node
  /\ leaving \subseteq Node
  /\ agent \in [Node -> {"down", "off", "registering", "up"}]
  /\ answer \in [Node -> Block \cup {NoEntry}]
  /\ netCfg \in [Node -> Block \cup {NoEntry}]
  /\ subnetList \in [Node -> [Node -> Block \cup {NoEntry}] \cup {NoEntry}]
  /\ routeList \in [Node -> [Block -> Node \cup {NoEntry}] \cup {NoEntry}]
  /\ kernel \in [Node -> [Block -> Node \cup {NoEntry}]]
  /\ events \in 0..MaxEvents

\* The control plane starts with the blocks its database has for nodes that
\* are gone: distinct ones (idx is unique).
Tables ==
  {t \in [Node -> Block \cup {NoEntry}] :
     /\ \A n \in Node \ Gone : t[n] = NoEntry
     /\ \A m, n \in Node : m # n /\ t[m] # NoEntry => t[m] # t[n]}

NetworkInit ==
  /\ RegistryInit
  /\ subnets \in Tables
  /\ allocating = {} /\ leaving = {}
  /\ agent = [n \in Node |-> "down"]
  /\ answer = [n \in Node |-> NoEntry]
  /\ netCfg = [n \in Node |-> NoEntry]
  /\ subnetList = [n \in Node |-> NoEntry]
  /\ routeList = [n \in Node |-> NoEntry]
  /\ kernel = [n \in Node |-> NoRoutes]
  /\ events = 0

Happens == events < MaxEvents /\ events' = events + 1

\* Does the agent's process run?
Runs(n) == agent[n] \in {"registering", "up"}

-----------------------------------------------------------------------------
(***************************************************************************)
(* Registration.                                                           *)
(***************************************************************************)

\* Agent.Start, up to the registration.  Nobody starts the agent of a node
\* while it is being decommissioned.
StartAgent(n) ==
  /\ Happens
  /\ ~Runs(n)
  /\ n \notin leaving \cup Gone
  /\ agent' = [agent EXCEPT ![n] = "registering"]
  /\ UNCHANGED <<nodes, subnets, allocating, leaving, answer, netCfg, subnetList,
                 routeList, kernel>>

\* registerNode, first step.  The agent calls it while it starts, again and
\* again until it has an answer, and when its heartbeat is refused.
registerNode(n) ==
  /\ \/ agent[n] = "registering"
     \/ agent[n] = "up" /\ ~Registered(n)
  /\ n \notin allocating
  /\ answer[n] = NoEntry
  /\ \E cap \in Capacity[n] : Register(n, cap)
  /\ allocating' = allocating \cup {n}
  /\ UNCHANGED <<subnets, leaving, agent, answer, netCfg, subnetList, routeList,
                 kernel, events>>

\* Faulty versions: the blocks are counted from one; the last one is left out.
FreeBlocksFromOne == {b \in 1..Blocks : \A n \in Node : subnets[n] # b}

FreeBlocksButLast == {b \in Block : b < Blocks - 1 /\ \A n \in Node : subnets[n] # b}

\* The blocks no node has.
FreeBlocks == {b \in Block : \A n \in Node : subnets[n] # b}

LowestFree == CHOOSE b \in FreeBlocks : \A c \in FreeBlocks : b <= c

\* SubnetAllocator.Allocate: the block the node has, or else the lowest free
\* one, or else an error.
Allocate(n) ==
  IF subnets[n] # NoEntry \/ FreeBlocks = {}
    THEN UNCHANGED subnets
    ELSE subnets' = [subnets EXCEPT ![n] = LowestFree]

\* registerNode, second step; the answer may be lost, and is if the agent is
\* no longer there.
registerNodeAllocate(n) ==
  /\ n \in allocating
  /\ Allocate(n)
  /\ allocating' = allocating \ {n}
  /\ \/ Runs(n) /\ answer' = [answer EXCEPT ![n] = subnets'[n]]
     \/ UNCHANGED answer
  /\ UNCHANGED <<nodes, leaving, agent, netCfg, subnetList, routeList, kernel, events>>

\* The answer arrives: Start goes on with the block, a re-registration only
\* compares it.
Configure(n) ==
  /\ answer[n] # NoEntry
  /\ answer' = [answer EXCEPT ![n] = NoEntry]
  /\ agent' = [agent EXCEPT ![n] = "up"]
  /\ netCfg' = [netCfg EXCEPT ![n] = IF agent[n] = "up" THEN @ ELSE answer[n]]
  /\ UNCHANGED <<nodes, subnets, allocating, leaving, subnetList, routeList, kernel,
                 events>>

\* heartbeatLoop; a refused heartbeat leads to registerNode.
Beat(n) ==
  /\ agent[n] = "up"
  /\ Heartbeat(n)
  /\ UNCHANGED <<subnets, allocating, leaving, agent, answer, netCfg, subnetList,
                 routeList, kernel, events>>

\* A node whose agent is not up yet, or no longer, misses its window ...
Silence(n) ==
  /\ agent[n] # "up"
  /\ Expire(n)
  /\ UNCHANGED <<subnets, allocating, leaving, agent, answer, netCfg, subnetList,
                 routeList, kernel, events>>

\* A faulty version: the block is released with the node.
EvictDeadReleases(n) ==
  /\ n \in Dead
  /\ Remove(n)
  /\ subnets' = [subnets EXCEPT ![n] = NoEntry]
  /\ UNCHANGED <<allocating, leaving, agent, answer, netCfg, subnetList, routeList,
                 kernel, events>>

\* ... and the reconciler removes it; it keeps its subnet.
EvictDead(n) ==
  /\ n \in Dead
  /\ Remove(n)
  /\ UNCHANGED <<subnets, allocating, leaving, agent, answer, netCfg, subnetList,
                 routeList, kernel, events>>

-----------------------------------------------------------------------------
(***************************************************************************)
(* Leaving, stopping, restarting.                                          *)
(***************************************************************************)

\* What the agent's process knows is gone.
Forgets(n) ==
  /\ answer' = [answer EXCEPT ![n] = NoEntry]
  /\ netCfg' = [netCfg EXCEPT ![n] = NoEntry]
  /\ subnetList' = [subnetList EXCEPT ![n] = NoEntry]
  /\ routeList' = [routeList EXCEPT ![n] = NoEntry]
  /\ UNCHANGED <<nodes, subnets, allocating, leaving>>

\* The agent stops, or crashes; the routes it installed stay in the kernel ...
StopAgent(n) ==
  /\ Happens
  /\ Runs(n)
  /\ agent' = [agent EXCEPT ![n] = "off"]
  /\ Forgets(n)
  /\ UNCHANGED kernel

\* ... until the host goes down.
ShutDown(n) ==
  /\ Happens
  /\ agent[n] # "down"
  /\ agent' = [agent EXCEPT ![n] = "down"]
  /\ Forgets(n)
  /\ kernel' = [kernel EXCEPT ![n] = NoRoutes]

\* removeNode: out of the registry, then the block is released.  "containers
\* still running on it are not actively stopped, so the node should be shut
\* down".
removeNode(n) ==
  /\ Happens
  /\ agent[n] = "down" \/ (~ShutDownFirst /\ agent[n] = "off")
  /\ n \notin leaving
  /\ Remove(n)
  /\ leaving' = leaving \cup {n}
  /\ UNCHANGED <<subnets, allocating, agent, answer, netCfg, subnetList, routeList,
                 kernel>>

removeNodeRelease(n) ==
  /\ n \in leaving
  /\ subnets' = [subnets EXCEPT ![n] = NoEntry]
  /\ leaving' = leaving \ {n}
  /\ UNCHANGED <<nodes, allocating, agent, answer, netCfg, subnetList, routeList,
                 kernel, events>>

\* The control plane restarts: the registry and the handlers under way are
\* gone, the table is not.
RestartServer ==
  /\ Happens
  /\ nodes' = [n \in Node |-> NoEntry]
  /\ allocating' = {} /\ leaving' = {}
  /\ subnetList' = [n \in Node |-> NoEntry]
  /\ UNCHANGED <<subnets, agent, answer, netCfg, routeList, kernel>>

-----------------------------------------------------------------------------
(***************************************************************************)
(* Routes.                                                                 *)
(***************************************************************************)

\* nodeRoutes for n: first the table (SubnetAllocator.All), ...
nodeRoutes(n) ==
  /\ agent[n] = "up"
  /\ subnetList[n] = NoEntry /\ routeList[n] = NoEntry
  /\ subnetList' = [subnetList EXCEPT ![n] = subnets]
  /\ UNCHANGED <<nodes, subnets, allocating, leaving, agent, answer, netCfg,
                 routeList, kernel, events>>

\* The peers of n that a route to block b may go through, by the list read.
Peers(n, b) == {m \in Node \ {n} : subnetList[n][m] = b /\ Registered(m)}

\* ... then the registry, for a route to every other node it knows.
nodeRoutesPeers(n) ==
  /\ subnetList[n] # NoEntry
  /\ routeList' = [routeList EXCEPT ![n] =
       [b \in Block |-> IF Peers(n, b) = {} THEN NoEntry
                                            ELSE CHOOSE m \in Peers(n, b) : TRUE]]
  /\ subnetList' = [subnetList EXCEPT ![n] = NoEntry]
  /\ UNCHANGED <<nodes, subnets, allocating, leaving, agent, answer, netCfg, kernel,
                 events>>

\* RouteManager.managed: a route to the node's own block is left alone.
managed(n, b) == kernel[n][b] # NoEntry /\ b # netCfg[n]

\* A faulty version: nothing is ever removed.
SyncAddsOnly(n, done) ==
  /\ routeList[n] # NoEntry
  /\ kernel' = [kernel EXCEPT ![n] = [b \in Block |->
       IF b \in done /\ routeList[n][b] # NoEntry THEN routeList[n][b] ELSE kernel[n][b]]]
  /\ routeList' = [routeList EXCEPT ![n] = NoEntry]
  /\ UNCHANGED <<nodes, subnets, allocating, leaving, agent, answer, netCfg, subnetList,
                 events>>

\* RouteManager.Sync: install what is listed, remove what is managed and not
\* listed.  It goes from route to route and on when one fails, or ends early
\* when the kernel's routes cannot be listed, or with the agent: the changes in
\* done are made and the others are not.  Nobody else reads or changes them.
Sync(n, done) ==
  /\ routeList[n] # NoEntry
  /\ kernel' = [kernel EXCEPT ![n] = [b \in Block |->
       IF b \notin done THEN kernel[n][b]
       ELSE IF routeList[n][b] # NoEntry THEN routeList[n][b]
       ELSE IF managed(n, b) THEN NoEntry
       ELSE kernel[n][b]]]
  /\ routeList' = [routeList EXCEPT ![n] = NoEntry]
  /\ UNCHANGED <<nodes, subnets, allocating, leaving, agent, answer, netCfg, subnetList,
                 events>>

-----------------------------------------------------------------------------

NetworkNext ==
  \/ \E n \in Node :
       \/ StartAgent(n) \/ StopAgent(n) \/ ShutDown(n) \/ removeNode(n)
       \/ registerNode(n) \/ registerNodeAllocate(n) \/ Configure(n)
       \/ Beat(n) \/ Silence(n) \/ EvictDead(n)
       \/ removeNodeRelease(n)
       \/ nodeRoutes(n) \/ nodeRoutesPeers(n)
       \/ \E done \in SUBSET Block : Sync(n, done)
  \/ RestartServer

\* Handlers run to their end, agents keep calling, a call that is made again
\* and again is answered at last, and a Sync made at every tick succeeds at last.
NetworkFairness ==
  /\ \A n \in Node : WF_netVars(removeNodeRelease(n))
  /\ \A n \in Node \ Gone :
       /\ WF_netVars(registerNode(n))
       /\ WF_netVars(registerNodeAllocate(n))
       /\ SF_netVars(registerNodeAllocate(n) /\ answer' # answer)
       /\ WF_netVars(Configure(n))
       /\ WF_netVars(Beat(n) \/ Silence(n) \/ EvictDead(n))
       /\ WF_netVars(nodeRoutes(n) \/ nodeRoutesPeers(n)
                      \/ \E done \in SUBSET Block : Sync(n, done))
       /\ SF_netVars(Sync(n, Block))

NetworkSafetySpec == NetworkInit /\ [][NetworkNext]_netVars

NetworkSpec == NetworkSafetySpec /\ NetworkFairness
-----------------------------------------------------------------------------
(***************************************************************************)
(* Properties.                                                             *)
(***************************************************************************)

\* "a rebooting or briefly-partitioned node never has its subnet reassigned out
\* from under it" (SubnetAllocator): the block an agent is configured for is
\* its own in the table, through lost answers, evictions and server restarts,
\* so reRegister never finds that the two differ ...
ConfiguredIsAllocated ==
  \A n \in Node : netCfg[n] # NoEntry => subnets[n] = netCfg[n]

\* ... no two agents hand out addresses of the same block, ...
ConfiguredDisjoint ==
  \A m, n \in Node :
    m # n /\ netCfg[m] # NoEntry => netCfg[m] # netCfg[n]

\* The table as leases: a node holds a block, and its agent uses it.
Subnets == INSTANCE Leases WITH Holder <- Node, Thing <- Block,
                                lease <- subnets, inUse <- netCfg

\* ... and, step by step: a block goes only to a node without one, from those
\* that nobody has; an agent takes up only the block its node holds; and a block
\* is released only while no agent is configured for it, answers that arrive
\* late and decommissions notwithstanding (Allocate, Release, Start).
SubnetsAreLeases == Subnets!LeaseSpec

\* "its bridge would be rebuilt on a different subnet while old routes linger"
\* (docs/specs/cross-node-networking.md, 1c): an agent that comes back never
\* finds a route to the block it is given through another node, which Sync would
\* not remove (managed) and which would send its own containers' traffic away.
\* Routes outlive the agent, so this rests on the block it gets being the one it
\* had, through evictions and restarts of the server, or else on the host having
\* been down (removeNode).
NoRouteToSelf ==
  \A n \in Node : netCfg[n] # NoEntry => kernel[n][netCfg[n]] = NoEntry

\* "subnet pool exhausted": the only reason for an agent to go on trying to
\* register for ever is that all blocks are taken for good, none of them by
\* itself (registerWithRetry, Allocate).
AgentsComeUp ==
  \A n \in Node \ Gone :
    <>[](agent[n] = "registering") =>
      <>[](subnets[n] = NoEntry /\ \A b \in Block : \E m \in Node : subnets[m] = b)

\* The routes n should have: one to the block of every other node in the
\* registry.
WantedRoutes(n) ==
  [b \in Block |->
     IF \E m \in Node \ {n} : Registered(m) /\ subnets[m] = b
       THEN CHOOSE m \in Node \ {n} : Registered(m) /\ subnets[m] = b
       ELSE NoEntry]

\* "Sync reconciles kernel routes to match the desired set: it adds/updates a
\* route per entry and removes smith-managed routes no longer present (e.g. for
\* a decommissioned node)": once nodes stop joining and leaving, every agent has
\* the routes to its peers and no others.
RoutesConverge ==
  \A n \in Node \ Gone : <>[](agent[n] = "up" => kernel[n] = WantedRoutes(n))
=============================================================================
