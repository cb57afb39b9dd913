----------------------------- MODULE NodeProofs -----------------------------
(***************************************************************************)
(* A node of the cluster: its place in the network, and the containers it   *)
(* runs.                                                                    *)
(*                                                                         *)
(* The network, for any set of nodes and any number of blocks: the block an *)
(* agent is configured for is its own in the persistent table, no two       *)
(* agents are configured for the same block, and (if nodes are shut down    *)
(* before they are decommissioned) no agent has a route to its own block;   *)
(* and the table implements the leases of module Leases.                    *)
(*                                                                         *)
(* One container identifier, for any number of calls of RunContainer and    *)
(* StopContainer and of crashes of the agent: what is left of the calls.    *)
(***************************************************************************)
EXTENDS Network, Container, PoolLemmas, TLAPS

\* What the table, the answers under way and the agents agree on.  The answers
\* are why the properties are not inductive: an agent takes its block from one.
Addressing ==
  /\ NetworkTypeOK
  /\ \A m, n \in Node : m # n /\ subnets[m] # NoEntry => subnets[m] # subnets[n]
  /\ \A n \in Node : answer[n] # NoEntry => subnets[n] = answer[n] /\ Runs(n)
  /\ \A n \in Node : netCfg[n] # NoEntry => subnets[n] = netCfg[n] /\ agent[n] = "up"
  /\ \A n \in leaving : ~Runs(n) /\ (ShutDownFirst => agent[n] = "down")

\* Allocate's search (the lowest block not taken) ends at a block that is free,
\* if there is one.
LEMMA LowestFreeIsFree ==
  ASSUME FreeBlocks # {}
  PROVE  LowestFree \in FreeBlocks
<1>1. FreeBlocks \in SUBSET Nat
  BY BlocksAssumption DEF FreeBlocks, Block
<1> QED
  BY Zenon, <1>1, LowestIsThere DEF LowestFree

-----------------------------------------------------------------------------
(***************************************************************************)
(* Addresses.                                                              *)
(***************************************************************************)

\* Allocate gives a node the block it has or one that no node has.
LEMMA AllocateStep ==
  ASSUME Addressing, NEW n \in Node, Allocate(n)
  PROVE  /\ subnets' \in [Node -> Block \cup {NoEntry}]
         /\ \A m \in Node : subnets[m] # NoEntry => subnets'[m] = subnets[m]
         /\ \A k, m \in Node : k # m /\ subnets'[k] # NoEntry => subnets'[k] # subnets'[m]
<1>1. CASE UNCHANGED subnets
  BY Zenon, <1>1 DEF Addressing, NetworkTypeOK
<1>2. CASE /\ subnets[n] = NoEntry /\ FreeBlocks # {}
           /\ subnets' = [subnets EXCEPT ![n] = LowestFree]
  <2>1. LowestFree \in Block /\ \A m \in Node : subnets[m] # LowestFree
    BY Zenon, <1>2, LowestFreeIsFree DEF FreeBlocks
  <2> QED
    BY Zenon, <1>2, <2>1, NoBlockAssumption DEF Addressing, NetworkTypeOK
<1> QED
  BY Zenon, <1>1, <1>2 DEF Allocate

\* The registry operations of the model keep the table well typed.
LEMMA NetworkRegistryType ==
  ASSUME RegistryTypeOK, NEW n \in Node,
         \/ \E cap \in Capacity[n] : Register(n, cap)
         \/ Heartbeat(n)
         \/ Remove(n)
         \/ Expire(n)
  PROVE  RegistryTypeOK'
<1>1. ASSUME NEW cap \in Capacity[n], Register(n, cap)
      PROVE  RegistryTypeOK'
  <2>1. cap \in [cpu : Nat, mem : Nat]
    BY Zenon, <1>1, CapacityAssumption
  <2>2. [cap |-> cap, fresh |-> TRUE] \in Entry
    BY Zenon, <2>1 DEF Entry
  <2> QED
    BY Zenon, <1>1, <2>2 DEF RegistryTypeOK, Register
<1>2. CASE Heartbeat(n)
  BY Zenon, <1>2 DEF RegistryTypeOK, Heartbeat, Registered, Entry
<1>3. CASE Remove(n)
  BY Zenon, <1>3 DEF RegistryTypeOK, Remove
<1>4. CASE Expire(n)
  BY Zenon, <1>4 DEF RegistryTypeOK, Expire, Alive, Registered, Entry
<1> QED
  BY Zenon, <1>1, <1>2, <1>3, <1>4

\* The initial state, where no node has a block, satisfies the invariant.
LEMMA AddressingInit ==
  ASSUME NetworkInit
  PROVE  Addressing
<1>1. /\ subnets \in [Node -> Block \cup {NoEntry}]
      /\ \A m, n \in Node : m # n /\ subnets[m] # NoEntry => subnets[m] # subnets[n]
  BY Zenon DEF NetworkInit, Tables
<1>2. events \in 0..MaxEvents
  BY EventsAssumption DEF NetworkInit
<1> QED
  BY Zenon, <1>1, <1>2
     DEF NetworkInit, Addressing, NetworkTypeOK, RegistryInit, RegistryTypeOK, NoRoutes

\* Every step keeps the invariant.
LEMMA AddressingStep ==
  ASSUME Addressing, [NetworkNext]_netVars
  PROVE  Addressing'
<1> USE DEF Addressing, NetworkTypeOK, Runs
<1>0. Happens => events' \in 0..MaxEvents
  BY EventsAssumption DEF Happens
<1>1. CASE UNCHANGED netVars
  BY Zenon, <1>1 DEF netVars, RegistryTypeOK
<1>2. ASSUME NEW n \in Node, StartAgent(n)
      PROVE  Addressing'
  BY Zenon, <1>0, <1>2 DEF StartAgent, RegistryTypeOK
<1>3. ASSUME NEW n \in Node, StopAgent(n) \/ ShutDown(n)
      PROVE  Addressing'
  <2>1. kernel' \in [Node -> [Block -> Node \cup {NoEntry}]]
    <3>1. NoRoutes \in [Block -> Node \cup {NoEntry}]
      BY Zenon DEF NoRoutes
    <3>2. kernel' = kernel \/ kernel' = [kernel EXCEPT ![n] = NoRoutes]
      BY Zenon, <1>3 DEF StopAgent, ShutDown
    <3> HIDE DEF NoRoutes
    <3> QED
      BY Zenon, <3>1, <3>2
  <2>2. /\ Happens /\ Forgets(n)
        /\ \/ agent' = [agent EXCEPT ![n] = "down"]
           \/ Runs(n) /\ agent' = [agent EXCEPT ![n] = "off"]
    BY Zenon, <1>3 DEF StopAgent, ShutDown
  <2> QED
    BY ZenonT(60), <1>0, <2>1, <2>2 DEF Forgets, RegistryTypeOK
<1>4. ASSUME NEW n \in Node, removeNode(n)
      PROVE  Addressing'
  <2>1. RegistryTypeOK'
    BY Zenon, <1>4, NetworkRegistryType DEF removeNode
  <2> QED
    BY Zenon, <1>0, <1>4, <2>1 DEF removeNode
<1>5. ASSUME NEW n \in Node, registerNode(n)
      PROVE  Addressing'
  <2>1. RegistryTypeOK'
    BY Zenon, <1>5, NetworkRegistryType DEF registerNode
  <2> QED
    BY Zenon, <1>5, <2>1 DEF registerNode
<1>6. ASSUME NEW n \in Node, registerNodeAllocate(n)
      PROVE  Addressing'
  <2>1. /\ subnets' \in [Node -> Block \cup {NoEntry}]
        /\ \A m \in Node : subnets[m] # NoEntry => subnets'[m] = subnets[m]
        /\ \A k, m \in Node : k # m /\ subnets'[k] # NoEntry => subnets'[k] # subnets'[m]
    BY Zenon, <1>6, AllocateStep DEF registerNodeAllocate
  <2>2. /\ answer' \in [Node -> Block \cup {NoEntry}]
        /\ \A m \in Node : answer'[m] # NoEntry => subnets'[m] = answer'[m] /\ Runs(m)
    <3>1. CASE UNCHANGED answer
      BY Zenon, <2>1, <3>1, NoBlockAssumption
    <3>2. CASE Runs(n) /\ answer' = [answer EXCEPT ![n] = subnets'[n]]
      BY Zenon, <2>1, <3>2
    <3> QED
      BY Zenon, <1>6, <3>1, <3>2 DEF registerNodeAllocate
  <2> QED
    BY Zenon, <1>6, <2>1, <2>2 DEF registerNodeAllocate, RegistryTypeOK
<1>7. ASSUME NEW n \in Node, Configure(n)
      PROVE  Addressing'
  BY ZenonT(60), <1>7 DEF Configure, RegistryTypeOK
<1>8. ASSUME NEW n \in Node, Beat(n) \/ Silence(n) \/ EvictDead(n)
      PROVE  Addressing'
  <2>1. RegistryTypeOK'
    BY Zenon, <1>8, NetworkRegistryType DEF Beat, Silence, EvictDead
  <2> QED
    BY ZenonT(60), <1>8, <2>1 DEF Beat, Silence, EvictDead
<1>9. ASSUME NEW n \in Node, removeNodeRelease(n)
      PROVE  Addressing'
  BY Zenon, <1>9 DEF removeNodeRelease, RegistryTypeOK
<1>10. ASSUME NEW n \in Node, nodeRoutes(n)
       PROVE  Addressing'
  BY Zenon, <1>10 DEF nodeRoutes, RegistryTypeOK
<1>11. ASSUME NEW n \in Node, nodeRoutesPeers(n)
       PROVE  Addressing'
  <2> DEFINE Listed == [b \in Block |-> IF Peers(n, b) = {} THEN NoEntry
                                          ELSE CHOOSE m \in Peers(n, b) : TRUE]
  <2>1. Listed \in [Block -> Node \cup {NoEntry}]
    BY Zenon DEF Peers
  <2>2. routeList' = [routeList EXCEPT ![n] = Listed]
    BY Zenon, <1>11 DEF nodeRoutesPeers
  <2> HIDE DEF Listed
  <2>3. routeList' \in [Node -> [Block -> Node \cup {NoEntry}] \cup {NoEntry}]
    BY Zenon, <2>1, <2>2
  <2> QED
    BY ZenonT(60), <1>11, <2>3 DEF nodeRoutesPeers, RegistryTypeOK
<1>12. ASSUME NEW n \in Node, NEW done \in SUBSET Block, Sync(n, done)
       PROVE  Addressing'
  <2> DEFINE Synced == [b \in Block |->
               IF b \notin done THEN kernel[n][b]
               ELSE IF routeList[n][b] # NoEntry THEN routeList[n][b]
               ELSE IF managed(n, b) THEN NoEntry
               ELSE kernel[n][b]]
  <2>1. /\ routeList[n] \in [Block -> Node \cup {NoEntry}]
        /\ kernel[n] \in [Block -> Node \cup {NoEntry}]
    BY Zenon, <1>12 DEF Sync
  <2>2. Synced \in [Block -> Node \cup {NoEntry}]
    BY Zenon, <2>1 DEF managed
  <2>3. kernel' = [kernel EXCEPT ![n] = Synced]
    BY Zenon, <1>12 DEF Sync
  <2> HIDE DEF Synced
  <2>4. kernel' \in [Node -> [Block -> Node \cup {NoEntry}]]
    BY Zenon, <2>2, <2>3
  <2> QED
    BY Zenon, <1>12, <2>4 DEF Sync, RegistryTypeOK
<1>13. CASE RestartServer
  BY Zenon, <1>0, <1>13 DEF RestartServer, RegistryTypeOK
<1> HIDE DEF Addressing, NetworkTypeOK
<1> QED
  BY Zenon, <1>1, <1>2, <1>3, <1>4, <1>5, <1>6, <1>7, <1>8, <1>9, <1>10, <1>11, <1>12, <1>13
     DEF NetworkNext

\* The nodes' block allocation is of its type at every moment: no entry of the
\* table, no answer and no route names a block outside the range, also when the
\* blocks have run out (Allocate).
THEOREM NetworkTyped == NetworkSafetySpec => []NetworkTypeOK
<1>1. Addressing => NetworkTypeOK
  BY Zenon DEF Addressing
<1> QED
  BY <1>1, AddressingInit, AddressingStep, PTL DEF NetworkSafetySpec

\* Through lost answers, evictions and server restarts, the block an agent is
\* configured for stays its own in the persistent table (Allocate answers with
\* the node's block; only removeNode releases it).
THEOREM ConfiguredStaysAllocated ==
  NetworkSafetySpec => []ConfiguredIsAllocated
<1>1. Addressing => ConfiguredIsAllocated
  BY Zenon DEF Addressing, ConfiguredIsAllocated
<1> QED
  BY <1>1, AddressingInit, AddressingStep, PTL DEF NetworkSafetySpec

\* No two agents are ever configured for the same /24 block, for any number of
\* nodes and blocks (Allocate's search for the lowest free block).
THEOREM ConfiguredStayDisjoint ==
  NetworkSafetySpec => []ConfiguredDisjoint
<1>1. Addressing => ConfiguredDisjoint
  BY ZenonT(60) DEF Addressing, ConfiguredDisjoint
<1> QED
  BY <1>1, AddressingInit, AddressingStep, PTL DEF NetworkSafetySpec

-----------------------------------------------------------------------------
(***************************************************************************)
(* The table implements the leases.                                        *)
(***************************************************************************)

\* Every step of the network is a step of the leases, or leaves them alone.
LEMMA LeaseStep ==
  ASSUME Addressing, [NetworkNext]_netVars
  PROVE  [Subnets!LeaseNext]_(Subnets!leaseVars)
<1> USE DEF Subnets!leaseVars
<1>1. /\ subnets \in [Node -> Block \cup {NoEntry}]
      /\ netCfg \in [Node -> Block \cup {NoEntry}]
  BY Zenon DEF Addressing, NetworkTypeOK
<1>2. ASSUME UNCHANGED <<subnets, netCfg>>
      PROVE  [Subnets!LeaseNext]_(Subnets!leaseVars)
  BY Zenon, <1>2
<1>3. ASSUME NEW n \in Node, registerNodeAllocate(n)
      PROVE  [Subnets!LeaseNext]_(Subnets!leaseVars)
  <2>1. CASE UNCHANGED subnets
    BY Zenon, <1>2, <1>3, <2>1 DEF registerNodeAllocate
  <2>2. CASE /\ subnets[n] = NoEntry /\ FreeBlocks # {}
             /\ subnets' = [subnets EXCEPT ![n] = LowestFree]
    <3>1. LowestFree \in Block /\ \A m \in Node : subnets[m] # LowestFree
      BY Zenon, <2>2, LowestFreeIsFree DEF FreeBlocks
    <3>2. UNCHANGED netCfg
      BY Zenon, <1>3 DEF registerNodeAllocate
    <3>3. Subnets!Grant(n)
      BY Zenon, <2>2, <3>1, <3>2 DEF Subnets!Grant
    <3> QED
      BY Zenon, <3>3 DEF Subnets!LeaseNext
  <2> QED
    BY Zenon, <1>3, <2>1, <2>2 DEF registerNodeAllocate, Allocate
<1>4. ASSUME NEW n \in Node, Configure(n)
      PROVE  [Subnets!LeaseNext]_(Subnets!leaseVars)
  <2>1. answer[n] # NoEntry /\ subnets[n] = answer[n]
    BY Zenon, <1>4 DEF Configure, Addressing
  <2>2. CASE agent[n] = "up"
    <3>1. netCfg' = netCfg
      BY Zenon, <1>1, <1>4, <2>2 DEF Configure
    <3> QED
      BY Zenon, <1>2, <1>4, <3>1 DEF Configure
  <2>3. CASE agent[n] # "up"
    <3>1. Subnets!Use(n)
      BY Zenon, <1>4, <2>1, <2>3 DEF Configure, Subnets!Use
    <3> QED
      BY Zenon, <3>1 DEF Subnets!LeaseNext
  <2> QED
    BY Zenon, <2>2, <2>3
<1>5. ASSUME NEW n \in Node, StopAgent(n) \/ ShutDown(n)
      PROVE  [Subnets!LeaseNext]_(Subnets!leaseVars)
  <2>1. Subnets!Drop(n)
    BY Zenon, <1>5 DEF StopAgent, ShutDown, Forgets, Subnets!Drop
  <2> QED
    BY Zenon, <2>1 DEF Subnets!LeaseNext
<1>6. ASSUME NEW n \in Node, removeNodeRelease(n)
      PROVE  [Subnets!LeaseNext]_(Subnets!leaseVars)
  <2>1. netCfg[n] = NoEntry
    BY Zenon, <1>6 DEF removeNodeRelease, Addressing, Runs
  <2>2. Subnets!Return(n)
    BY Zenon, <1>6, <2>1 DEF removeNodeRelease, Subnets!Return
  <2> QED
    BY Zenon, <2>2 DEF Subnets!LeaseNext
<1>7. CASE UNCHANGED netVars
  BY Zenon, <1>2, <1>7 DEF netVars
<1>8. ASSUME NEW n \in Node,
             \/ StartAgent(n) \/ removeNode(n) \/ registerNode(n) \/ Beat(n)
             \/ Silence(n) \/ EvictDead(n) \/ nodeRoutes(n) \/ nodeRoutesPeers(n)
             \/ \E done \in SUBSET Block : Sync(n, done)
      PROVE  [Subnets!LeaseNext]_(Subnets!leaseVars)
  BY Zenon, <1>2, <1>8 DEF StartAgent, removeNode, registerNode, Beat, Silence, EvictDead,
                    nodeRoutes, nodeRoutesPeers, Sync
<1>9. CASE RestartServer
  BY Zenon, <1>2, <1>9 DEF RestartServer
<1> QED
  BY Zenon, <1>3, <1>4, <1>5, <1>6, <1>7, <1>8, <1>9 DEF NetworkNext

\* The allocator, the registrations and the agents together implement the
\* leases: a block is granted, used, dropped and returned one step at a time
\* and in this order, for any number of nodes and blocks (Allocate, Release,
\* Agent.Start).
THEOREM SubnetsImplementLeases ==
  NetworkSafetySpec => SubnetsAreLeases
<1>1. NetworkInit => Subnets!LeaseInit
  BY Zenon DEF NetworkInit, Tables, Subnets!LeaseInit
<1>2. Addressing /\ [NetworkNext]_netVars => [Subnets!LeaseNext]_(Subnets!leaseVars)
  BY Zenon, LeaseStep
<1> QED
  BY <1>1, <1>2, AddressingInit, AddressingStep, PTL
     DEF NetworkSafetySpec, SubnetsAreLeases, Subnets!LeaseSpec

\* What the leases give whoever implements them: what is used is held, and what
\* is held is held by one.
Held ==
  /\ subnets \in [Node -> Block \cup {NoEntry}]
  /\ netCfg \in [Node -> Block \cup {NoEntry}]
  /\ \A m, n \in Node : m # n /\ subnets[m] # NoEntry => subnets[m] # subnets[n]
  /\ \A n \in Node : netCfg[n] # NoEntry => netCfg[n] = subnets[n]

\* Every step of the leases keeps this.
LEMMA HeldStep ==
  ASSUME Held, [Subnets!LeaseNext]_(Subnets!leaseVars)
  PROVE  Held'
<1> USE DEF Held
<1>1. CASE UNCHANGED Subnets!leaseVars
  BY Zenon, <1>1 DEF Subnets!leaseVars
<1>2. ASSUME NEW n \in Node, Subnets!Grant(n)
      PROVE  Held'
  <2>1. PICK b \in Block : /\ \A m \in Node : subnets[m] # b
                           /\ subnets' = [subnets EXCEPT ![n] = b]
    BY Zenon, <1>2 DEF Subnets!Grant
  <2>2. subnets[n] = NoEntry /\ netCfg' = netCfg
    BY Zenon, <1>2 DEF Subnets!Grant
  <2> QED
    BY Zenon, <2>1, <2>2, NoBlockAssumption
<1>3. ASSUME NEW n \in Node, Subnets!Use(n)
      PROVE  Held'
  BY Zenon, <1>3 DEF Subnets!Use
<1>4. ASSUME NEW n \in Node, Subnets!Drop(n)
      PROVE  Held'
  BY Zenon, <1>4 DEF Subnets!Drop
<1>5. ASSUME NEW n \in Node, Subnets!Return(n)
      PROVE  Held'
  BY Zenon, <1>5 DEF Subnets!Return
<1> QED
  BY Zenon, <1>1, <1>2, <1>3, <1>4, <1>5 DEF Subnets!LeaseNext

\* Whatever is leased in this way, no two holders ever use the same thing: the
\* exclusive use that the code's allocators (SubnetAllocator, ServiceStore) are
\* there for follows from the four steps alone.
THEOREM LeasesAreExclusive ==
  Subnets!LeaseSpec => []Subnets!UsedByOne
<1>1. Subnets!LeaseInit => Held
  BY Zenon DEF Subnets!LeaseInit, Held
<1>2. Held /\ [Subnets!LeaseNext]_(Subnets!leaseVars) => Held'
  BY Zenon, HeldStep
<1>3. Held => Subnets!UsedByOne
  BY ZenonT(60) DEF Held, Subnets!UsedByOne
<1> QED
  BY <1>1, <1>2, <1>3, PTL DEF Subnets!LeaseSpec

-----------------------------------------------------------------------------
(***************************************************************************)
(* Routes.                                                                 *)
(***************************************************************************)

\* What keeps an agent's own block out of its routes: a node without a block has
\* no routes, and the lists an agent is sent, old as they may be, were read while
\* the block was its own.
Routed(n) ==
  /\ agent[n] = "down" => kernel[n] = NoRoutes
  /\ subnets[n] = NoEntry => kernel[n] = NoRoutes
  /\ subnets[n] # NoEntry => kernel[n][subnets[n]] = NoEntry
  /\ agent[n] # "up" => subnetList[n] = NoEntry /\ routeList[n] = NoEntry
  /\ agent[n] = "up" =>
       /\ netCfg[n] # NoEntry
       /\ subnetList[n] # NoEntry => \A m \in Node \ {n} : subnetList[n][m] # netCfg[n]
       /\ routeList[n] # NoEntry => routeList[n][netCfg[n]] = NoEntry

Routing == \A n \in Node : Routed(n)

\* At the start there are no routes.
LEMMA RoutingInit ==
  ASSUME NetworkInit
  PROVE  Routing
<1>1. \A n \in Node : subnets[n] \in Block \cup {NoEntry}
  BY Zenon DEF NetworkInit, Tables
<1>2. \A b \in Block : NoRoutes[b] = NoEntry
  BY Zenon DEF NoRoutes
<1> QED
  BY Zenon, <1>1, <1>2 DEF NetworkInit, Routing, Routed

\* Every step keeps an agent's own block out of its routes, if a node is shut
\* down before it is decommissioned.
LEMMA RoutingStep ==
  ASSUME ShutDownFirst = TRUE, Addressing, Routing, [NetworkNext]_netVars
  PROVE  Routing'
<1>1. \A n \in Node :
        /\ subnets[n] \in Block \cup {NoEntry}
        /\ netCfg[n] # NoEntry => subnets[n] = netCfg[n]
        /\ agent[n] = "up" => /\ netCfg[n] \in Block
                              /\ \A m \in Node \ {n} : subnets[m] # netCfg[n]
        /\ answer[n] # NoEntry => answer[n] \in Block
  <2>1. \A n \in Node : /\ netCfg[n] \in Block \cup {NoEntry}
                        /\ answer[n] \in Block \cup {NoEntry}
                        /\ subnets[n] \in Block \cup {NoEntry}
    BY Zenon DEF Addressing, NetworkTypeOK
  <2>2. \A n \in Node : agent[n] = "up" => netCfg[n] # NoEntry
    BY Zenon DEF Routing, Routed
  <2> QED
    BY ZenonT(60), <2>1, <2>2 DEF Addressing
<1>2. /\ DOMAIN agent = Node /\ DOMAIN netCfg = Node /\ DOMAIN kernel = Node
      /\ DOMAIN subnetList = Node /\ DOMAIN routeList = Node /\ DOMAIN subnets = Node
  BY Zenon DEF Addressing, NetworkTypeOK
<1>3. ASSUME NEW m \in Node,
             UNCHANGED <<subnets[m], agent[m], netCfg[m], subnetList[m], routeList[m],
                         kernel[m]>>
      PROVE  Routed(m)'
  BY Zenon, <1>3 DEF Routing, Routed
<1>4. CASE UNCHANGED netVars
  BY Zenon, <1>3, <1>4 DEF netVars, Routing
<1>5. ASSUME NEW n \in Node,
             \/ removeNode(n) \/ registerNode(n)
             \/ Beat(n) \/ Silence(n) \/ EvictDead(n)
      PROVE  Routing'
  BY Zenon, <1>3, <1>5 DEF removeNode, registerNode, Beat, Silence, EvictDead, Routing
<1>6. ASSUME NEW n \in Node, StartAgent(n)
      PROVE  Routing'
  <2>1. Routed(n)'
    BY Zenon, <1>2, <1>6 DEF StartAgent, Runs, Routing, Routed
  <2>2. \A m \in Node \ {n} : Routed(m)'
    BY Zenon, <1>2, <1>3, <1>6 DEF StartAgent
  <2> QED
    BY Zenon, <2>1, <2>2 DEF Routing
<1>7. ASSUME NEW n \in Node, StopAgent(n)
      PROVE  Routing'
  <2>1. Routed(n)'
    BY Zenon, <1>2, <1>7 DEF StopAgent, Forgets, Routing, Routed
  <2>2. \A m \in Node \ {n} : Routed(m)'
    BY Zenon, <1>2, <1>3, <1>7 DEF StopAgent, Forgets
  <2> QED
    BY Zenon, <2>1, <2>2 DEF Routing
<1>8. ASSUME NEW n \in Node, ShutDown(n)
      PROVE  Routing'
  <2>1. subnets[n] # NoEntry => NoRoutes[subnets[n]] = NoEntry
    BY Zenon, <1>1 DEF NoRoutes
  <2>2. Routed(n)'
    BY Zenon, <1>2, <1>8, <2>1 DEF ShutDown, Forgets, Routed
  <2>3. \A m \in Node \ {n} : Routed(m)'
    BY Zenon, <1>2, <1>3, <1>8 DEF ShutDown, Forgets
  <2> QED
    BY Zenon, <2>2, <2>3 DEF Routing
<1>9. ASSUME NEW n \in Node, registerNodeAllocate(n)
      PROVE  Routing'
  <2>1. UNCHANGED <<agent, netCfg, subnetList, routeList, kernel>> /\ Allocate(n)
    BY Zenon, <1>9 DEF registerNodeAllocate
  <2>2. \A m \in Node \ {n} : Routed(m)'
    BY Zenon, <1>2, <1>3, <2>1 DEF Allocate
  <2>3. CASE UNCHANGED subnets
    BY Zenon, <1>3, <2>1, <2>3 DEF Routing
  <2>4. CASE subnets[n] = NoEntry /\ subnets'[n] \in Block
    <3>1. kernel[n] = NoRoutes
      BY Zenon, <2>4 DEF Routing, Routed
    <3>2. NoRoutes[subnets'[n]] = NoEntry
      BY Zenon, <2>4 DEF NoRoutes
    <3> QED
      BY Zenon, <2>1, <2>2, <3>1, <3>2 DEF Routing, Routed
  <2>5. subnets[n] = NoEntry /\ FreeBlocks # {} /\ Allocate(n) => subnets'[n] \in Block
    BY Zenon, <1>2, LowestFreeIsFree DEF Allocate, FreeBlocks
  <2> QED
    BY Zenon, <2>1, <2>3, <2>4, <2>5 DEF Allocate
<1>10. ASSUME NEW n \in Node, removeNodeRelease(n)
       PROVE  Routing'
  <2>1. agent[n] = "down"
    BY Zenon, <1>10 DEF removeNodeRelease, Addressing
  <2>2. Routed(n)'
    BY Zenon, <1>2, <1>10, <2>1 DEF removeNodeRelease, Routing, Routed
  <2>3. \A m \in Node \ {n} : Routed(m)'
    BY Zenon, <1>2, <1>3, <1>10 DEF removeNodeRelease
  <2> QED
    BY Zenon, <2>2, <2>3 DEF Routing
<1>11. ASSUME NEW n \in Node, Configure(n)
       PROVE  Routing'
  <2>1. \A m \in Node \ {n} : Routed(m)'
    BY Zenon, <1>2, <1>3, <1>11 DEF Configure
  <2>2. CASE agent[n] = "up"
    <3>1. agent'[n] = agent[n] /\ netCfg'[n] = netCfg[n]
      BY Zenon, <1>2, <1>11, <2>2 DEF Configure
    <3> QED
      BY Zenon, <1>3, <1>11, <2>1, <3>1 DEF Configure, Routing
  <2>3. CASE agent[n] # "up"
    <3>1. /\ agent'[n] = "up" /\ netCfg'[n] = answer[n] /\ answer[n] # NoEntry
          /\ UNCHANGED <<subnets, subnetList, routeList, kernel>>
      BY Zenon, <1>2, <1>11, <2>3 DEF Configure
    <3>2. subnetList[n] = NoEntry /\ routeList[n] = NoEntry
      BY Zenon, <2>3 DEF Routing, Routed
    <3>3. Routed(n)'
      BY Zenon, <3>1, <3>2 DEF Routing, Routed
    <3> QED
      BY Zenon, <2>1, <3>3 DEF Routing
  <2> QED
    BY Zenon, <2>2, <2>3
<1>12. ASSUME NEW n \in Node, nodeRoutes(n)
       PROVE  Routing'
  <2>1. \A m \in Node \ {n} : subnets[m] # netCfg[n]
    BY Zenon, <1>1, <1>12 DEF nodeRoutes
  <2>2. Routed(n)'
    BY Zenon, <1>2, <1>12, <2>1 DEF nodeRoutes, Routing, Routed
  <2>3. \A m \in Node \ {n} : Routed(m)'
    BY Zenon, <1>2, <1>3, <1>12 DEF nodeRoutes
  <2> QED
    BY Zenon, <2>2, <2>3 DEF Routing
<1>13. ASSUME NEW n \in Node, nodeRoutesPeers(n)
       PROVE  Routing'
  <2> DEFINE Listed == [b \in Block |-> IF Peers(n, b) = {} THEN NoEntry
                                          ELSE CHOOSE m \in Peers(n, b) : TRUE]
  <2>1. /\ subnetList[n] # NoEntry
        /\ routeList' = [routeList EXCEPT ![n] = Listed]
        /\ subnetList' = [subnetList EXCEPT ![n] = NoEntry]
        /\ UNCHANGED <<subnets, agent, netCfg, kernel>>
    BY Zenon, <1>13 DEF nodeRoutesPeers
  <2>2. agent[n] = "up" /\ \A m \in Node \ {n} : subnetList[n][m] # netCfg[n]
    BY Zenon, <2>1 DEF Routing, Routed
  <2>3. Peers(n, netCfg[n]) = {}
    BY Zenon, <2>2 DEF Peers
  <2>4. Listed[netCfg[n]] = NoEntry
    BY Zenon, <1>1, <2>2, <2>3
  <2> HIDE DEF Listed
  <2>5. Routed(n)'
    BY Zenon, <1>2, <2>1, <2>2, <2>4 DEF Routing, Routed
  <2>6. \A m \in Node \ {n} : Routed(m)'
    BY Zenon, <1>2, <1>3, <2>1
  <2> QED
    BY Zenon, <2>5, <2>6 DEF Routing
<1>14. ASSUME NEW n \in Node, NEW done \in SUBSET Block, Sync(n, done)
       PROVE  Routing'
  <2> DEFINE Synced == [b \in Block |->
               IF b \notin done THEN kernel[n][b]
               ELSE IF routeList[n][b] # NoEntry THEN routeList[n][b]
               ELSE IF managed(n, b) THEN NoEntry
               ELSE kernel[n][b]]
  <2>1. /\ routeList[n] # NoEntry
        /\ kernel' = [kernel EXCEPT ![n] = Synced]
        /\ routeList' = [routeList EXCEPT ![n] = NoEntry]
        /\ UNCHANGED <<subnets, agent, netCfg, subnetList>>
    BY Zenon, <1>14 DEF Sync
  <2>2. /\ agent[n] = "up" /\ netCfg[n] # NoEntry
        /\ routeList[n][netCfg[n]] = NoEntry
    BY Zenon, <2>1 DEF Routing, Routed
  <2>3. subnets[n] = netCfg[n] /\ kernel[n][netCfg[n]] = NoEntry
    BY Zenon, <1>1, <2>2 DEF Routing, Routed
  <2>4. Synced[netCfg[n]] = NoEntry
    BY Zenon, <1>1, <2>2, <2>3
  <2> HIDE DEF Synced
  <2>5. Routed(n)'
    BY Zenon, <1>2, <2>1, <2>2, <2>3, <2>4 DEF Routing, Routed
  <2>6. \A m \in Node \ {n} : Routed(m)'
    BY Zenon, <1>2, <1>3, <2>1
  <2> QED
    BY Zenon, <2>5, <2>6 DEF Routing
<1>15. CASE RestartServer
  BY Zenon, <1>15 DEF RestartServer, Routing, Routed
<1> QED
  BY Zenon, <1>4, <1>5, <1>6, <1>7, <1>8, <1>9, <1>10, <1>11, <1>12, <1>13, <1>14, <1>15
     DEF NetworkNext

\* An agent that comes back never finds a route to the block it is given, though
\* the kernel keeps the routes of its earlier lives and the lists it is sent may
\* be stale (registerNode, nodeRoutes, RouteManager.Sync), if nodes are shut down
\* before they are decommissioned (removeNode).
THEOREM NeverRoutedToSelf ==
  ASSUME ShutDownFirst = TRUE
  PROVE  NetworkSafetySpec => []NoRouteToSelf
<1>1. Routing /\ Addressing => NoRouteToSelf
  BY Zenon DEF Routing, Routed, Addressing, NoRouteToSelf
<1>2. Addressing /\ Routing /\ [NetworkNext]_netVars => Routing'
  BY Zenon, RoutingStep
<1> QED
  BY <1>1, <1>2, AddressingInit, AddressingStep, RoutingInit, PTL DEF NetworkSafetySpec

-----------------------------------------------------------------------------
(***************************************************************************)
(* Containers.  What is there has a call that will still remove it; the     *)
(* calls are known by their steps.                                          *)
(***************************************************************************)

\* Where a RunContainer is between the creation of something and its own
\* removal of it: the record, the task in each of its states, the address in
\* CNI, the address in the map.
HasRecord == RunStep \ {"none", "pull", "done"}

HasTask == [created |-> {"setup", "setip", "start", "undo_cni", "undo_task"},
            running |-> {"wait"},
            stopped |-> {"setup", "setip", "start", "wait", "exit_cni", "exit_task",
                         "undo_cni", "undo_task"}]

HasAddress == {"setip", "start", "wait", "exit_cni", "undo_cni"}

HasIP == {"start", "wait", "exit_cni", "exit_task", "exit_clear",
          "undo_cni", "undo_task", "undo_clear"}

\* A task has a record.  While the agent serves, whatever there is has a call
\* that will remove it, but for the addresses lost to an error of CNI; a crash
\* takes the calls, and CleanupAll has the records to go by.
Kept ==
  /\ task # None => record # None
  /\ ip # None => \E g \in Run : run[g] \in HasIP
  /\ up /\ record # None => \E g \in Run : run[g] \in HasRecord
  /\ up /\ task # None => run[task.run] \in HasTask[task.state]
  /\ up => \A g \in address : run[g] \in HasAddress \/ g \in lost
  /\ ~up => /\ record = None => address \subseteq lost
            /\ \A g \in Run : run[g] \in {"none", "done"}
            /\ \A s \in Stop : stop[s] \in {"none", "done"}

ContainerInv == ContainerTypeOK /\ Kept

-----------------------------------------------------------------------------
(***************************************************************************)
(* Every step on a container keeps that.                                   *)
(***************************************************************************)

\* The calls keep to their steps, and what they leave is of the type.
LEMMA TypeStep ==
  ASSUME ContainerTypeOK, [Next]_vars
  PROVE  ContainerTypeOK'
<1> USE ContainerAssumption DEF ContainerTypeOK, RunStep, StopStep
<1>1. ASSUME NEW g \in Run, HandleAssign(g) PROVE ContainerTypeOK'
  BY Zenon, <1>1 DEF HandleAssign, RunGoes, external, network
<1>2. ASSUME NEW g \in Run, PullFails(g) PROVE ContainerTypeOK'
  BY Zenon, <1>2 DEF PullFails, RunGoes, external, network
<1>3. ASSUME NEW g \in Run, NewContainer(g) PROVE ContainerTypeOK'
  BY Zenon, <1>3 DEF NewContainer, RunGoes, external, network
<1>4. ASSUME NEW g \in Run, NewTask(g) PROVE ContainerTypeOK'
  BY SMTT(30), <1>4 DEF NewTask, RunGoes, external, network
<1>5. ASSUME NEW g \in Run, Setup(g) PROVE ContainerTypeOK'
  BY Zenon, <1>5 DEF Setup, RunGoes, external, network, TaskIs
<1>6. ASSUME NEW g \in Run, RecordIP(g) PROVE ContainerTypeOK'
  BY Zenon, <1>6 DEF RecordIP, RunGoes, external, network, setIP
<1>7. ASSUME NEW g \in Run, StartTask(g) PROVE ContainerTypeOK'
  BY SMTT(30), <1>7 DEF StartTask, RunGoes, external, network, TaskIs
<1>8. ASSUME NEW g \in Run, ExitArrives(g) PROVE ContainerTypeOK'
  BY Zenon, <1>8 DEF ExitArrives, RunGoes, external, network, TaskIs
<1>9. ASSUME NEW g \in Run, ExitCni(g) PROVE ContainerTypeOK'
  BY Zenon, <1>9 DEF ExitCni, RunGoes, external, network, Teardown
<1>10. ASSUME NEW g \in Run, ExitTask(g) PROVE ContainerTypeOK'
  BY Zenon, <1>10 DEF ExitTask, RunGoes, external, network, DeleteTask
<1>11. ASSUME NEW g \in Run, ExitClear(g) PROVE ContainerTypeOK'
  BY Zenon, <1>11 DEF ExitClear, RunGoes, external, network, clearIP
<1>12. ASSUME NEW g \in Run, ExitDelete(g) PROVE ContainerTypeOK'
  BY Zenon, <1>12 DEF ExitDelete, RunGoes, external, network, DeleteRecord
<1>13. ASSUME NEW g \in Run, UndoCni(g) PROVE ContainerTypeOK'
  BY Zenon, <1>13 DEF UndoCni, RunGoes, external, network, Teardown
<1>14. ASSUME NEW g \in Run, UndoTask(g) PROVE ContainerTypeOK'
  BY Zenon, <1>14 DEF UndoTask, RunGoes, external, network
<1>15. ASSUME NEW g \in Run, UndoClear(g) PROVE ContainerTypeOK'
  BY Zenon, <1>15 DEF UndoClear, RunGoes, external, network, clearIP
<1>16. ASSUME NEW g \in Run, UndoDelete(g) PROVE ContainerTypeOK'
  BY Zenon, <1>16 DEF UndoDelete, RunGoes, external, network, DeleteRecord
<1>17. ASSUME NEW s \in Stop, HandleUnassign(s) PROVE ContainerTypeOK'
  BY Zenon, <1>17 DEF HandleUnassign, StopGoes, external, network
<1>18. ASSUME NEW s \in Stop, LoadContainer(s) PROVE ContainerTypeOK'
  BY Zenon, <1>18 DEF LoadContainer, StopGoes, external, network
<1>19. ASSUME NEW s \in Stop, LoadTask(s) PROVE ContainerTypeOK'
  BY Zenon, <1>19 DEF LoadTask, StopGoes, external, network
<1>20. ASSUME NEW s \in Stop, StopKill(s) PROVE ContainerTypeOK'
  BY Zenon, <1>20 DEF StopKill, StopGoes, external, network, KillTask
<1>21. ASSUME NEW s \in Stop, StopTeardown(s) PROVE ContainerTypeOK'
  BY Zenon, <1>21 DEF StopTeardown, StopGoes, external, network, Teardown
<1>22. ASSUME NEW s \in Stop, StopTaskDelete(s) PROVE ContainerTypeOK'
  BY Zenon, <1>22 DEF StopTaskDelete, StopGoes, external, network, DeleteTask
<1>23. ASSUME NEW s \in Stop, StopClear(s) PROVE ContainerTypeOK'
  BY Zenon, <1>23 DEF StopClear, StopGoes, external, network, clearIP
<1>24. ASSUME NEW s \in Stop, StopDelete(s) PROVE ContainerTypeOK'
  BY Zenon, <1>24 DEF StopDelete, StopGoes, external, network, DeleteRecord
<1>25. CASE ProcessExits
  BY Zenon, <1>25 DEF ProcessExits, external, network
<1>26. CASE Crash
  <2>1. run' \in [Run -> RunStep] /\ stop' \in [Stop -> StopStep]
    BY Zenon, <1>26 DEF Crash
  <2>2. crashes' \in 0..MaxCrashes
    BY SMTT(30), <1>26 DEF Crash
  <2> QED
    BY Zenon, <1>26, <2>1, <2>2 DEF Crash, external, network
<1>27. CASE CleanupAll
  BY Zenon, <1>27 DEF CleanupAll, external, network, Teardown
<1>28. CASE UNCHANGED vars
  BY Zenon, <1>28 DEF vars, external, network
<1> QED
  BY Zenon, <1>1, <1>2, <1>3, <1>4, <1>5, <1>6, <1>7, <1>8, <1>9, <1>10,
     <1>11, <1>12, <1>13, <1>14, <1>15, <1>16, <1>17, <1>18, <1>19, <1>20,
     <1>21, <1>22, <1>23, <1>24, <1>25, <1>26, <1>27, <1>28
  DEF Next, RunNext, StopNext

\* What there is has a call that will remove it.
LEMMA KeptStep ==
  ASSUME ContainerInv, [Next]_vars
  PROVE  Kept'
<1> USE ContainerAssumption, NoTaskAssumption
        DEF ContainerInv, ContainerTypeOK, Kept,
            RunStep, StopStep, HasRecord, HasTask, HasAddress, HasIP
<1>1. ASSUME NEW g \in Run, HandleAssign(g) PROVE Kept'
  BY SMTT(30), <1>1 DEF HandleAssign, RunGoes, external, network
<1>2. ASSUME NEW g \in Run, PullFails(g) PROVE Kept'
  BY SMTT(30), <1>2 DEF PullFails, RunGoes, external, network
<1>3. ASSUME NEW g \in Run, NewContainer(g) PROVE Kept'
  BY SMTT(30), <1>3 DEF NewContainer, RunGoes, external, network
<1>4. ASSUME NEW g \in Run, NewTask(g) PROVE Kept'
  BY SMTT(30), <1>4 DEF NewTask, RunGoes, external, network
<1>5. ASSUME NEW g \in Run, Setup(g) PROVE Kept'
  BY SMTT(30), <1>5 DEF Setup, RunGoes, external, network, TaskIs
<1>6. ASSUME NEW g \in Run, RecordIP(g) PROVE Kept'
  BY SMTT(30), <1>6 DEF RecordIP, RunGoes, external, network, setIP
<1>7. ASSUME NEW g \in Run, StartTask(g) PROVE Kept'
  BY SMTT(30), <1>7 DEF StartTask, RunGoes, external, network, TaskIs
<1>8. ASSUME NEW g \in Run, ExitArrives(g) PROVE Kept'
  BY SMTT(30), <1>8 DEF ExitArrives, RunGoes, external, network, TaskIs
<1>9. ASSUME NEW g \in Run, ExitCni(g) PROVE Kept'
  BY SMTT(30), <1>9 DEF ExitCni, RunGoes, external, network, Teardown
<1>10. ASSUME NEW g \in Run, ExitTask(g) PROVE Kept'
  BY SMTT(30), <1>10 DEF ExitTask, RunGoes, external, network, DeleteTask
<1>11. ASSUME NEW g \in Run, ExitClear(g) PROVE Kept'
  BY SMTT(30), <1>11 DEF ExitClear, RunGoes, external, network, clearIP
<1>12. ASSUME NEW g \in Run, ExitDelete(g) PROVE Kept'
  BY SMTT(30), <1>12 DEF ExitDelete, RunGoes, external, network, DeleteRecord
<1>13. ASSUME NEW g \in Run, UndoCni(g) PROVE Kept'
  BY SMTT(30), <1>13 DEF UndoCni, RunGoes, external, network, Teardown
<1>14. ASSUME NEW g \in Run, UndoTask(g) PROVE Kept'
  BY SMTT(30), <1>14 DEF UndoTask, RunGoes, external, network
<1>15. ASSUME NEW g \in Run, UndoClear(g) PROVE Kept'
  BY SMTT(30), <1>15 DEF UndoClear, RunGoes, external, network, clearIP
<1>16. ASSUME NEW g \in Run, UndoDelete(g) PROVE Kept'
  BY SMTT(30), <1>16 DEF UndoDelete, RunGoes, external, network, DeleteRecord
<1>17. ASSUME NEW s \in Stop, HandleUnassign(s) PROVE Kept'
  BY SMTT(30), <1>17 DEF HandleUnassign, StopGoes, external, network
<1>18. ASSUME NEW s \in Stop, LoadContainer(s) PROVE Kept'
  BY SMTT(30), <1>18 DEF LoadContainer, StopGoes, external, network
<1>19. ASSUME NEW s \in Stop, LoadTask(s) PROVE Kept'
  BY SMTT(30), <1>19 DEF LoadTask, StopGoes, external, network
<1>20. ASSUME NEW s \in Stop, StopKill(s) PROVE Kept'
  BY SMTT(30), <1>20 DEF StopKill, StopGoes, external, network, KillTask
<1>21. ASSUME NEW s \in Stop, StopTeardown(s) PROVE Kept'
  BY SMTT(30), <1>21 DEF StopTeardown, StopGoes, external, network, Teardown
<1>22. ASSUME NEW s \in Stop, StopTaskDelete(s) PROVE Kept'
  BY SMTT(30), <1>22 DEF StopTaskDelete, StopGoes, external, network, DeleteTask
<1>23. ASSUME NEW s \in Stop, StopClear(s) PROVE Kept'
  BY SMTT(30), <1>23 DEF StopClear, StopGoes, external, network, clearIP
<1>24. ASSUME NEW s \in Stop, StopDelete(s) PROVE Kept'
  BY SMTT(30), <1>24 DEF StopDelete, StopGoes, external, network, DeleteRecord
<1>25. CASE ProcessExits
  BY SMTT(30), <1>25 DEF ProcessExits, external, network
<1>26. CASE Crash
  BY SMTT(30), <1>26 DEF Crash, external, network
<1>27. CASE CleanupAll
  BY Zenon, <1>27 DEF CleanupAll, external, network, Teardown
<1>28. CASE UNCHANGED vars
  BY SMTT(30), <1>28 DEF vars, external, network
<1> QED
  BY Zenon, <1>1, <1>2, <1>3, <1>4, <1>5, <1>6, <1>7, <1>8, <1>9, <1>10,
     <1>11, <1>12, <1>13, <1>14, <1>15, <1>16, <1>17, <1>18, <1>19, <1>20,
     <1>21, <1>22, <1>23, <1>24, <1>25, <1>26, <1>27, <1>28
  DEF Next, RunNext, StopNext

LEMMA ContainerAlways == Spec => []ContainerInv
<1>1. Init => ContainerInv
  BY ContainerAssumption
  DEF Init, ContainerInv, ContainerTypeOK, Kept, RunStep, StopStep
<1>2. ContainerInv /\ [Next]_vars => ContainerInv'
  BY Zenon, TypeStep, KeptStep DEF ContainerInv
<1> QED
  BY <1>1, <1>2, PTL DEF Spec

-----------------------------------------------------------------------------
(***************************************************************************)
(* What the calls on a container leave.                                    *)
(***************************************************************************)

\* Whatever calls interleave, RunContainer and StopContainer stay within their
\* steps, and containerd, CNI and Client.ips hold what a RunContainer made.
THEOREM ContainerTyped == Spec => []ContainerTypeOK
<1>1. ContainerInv => ContainerTypeOK
  BY Zenon DEF ContainerInv
<1> QED
  BY <1>1, ContainerAlways, PTL

\* Once every RunContainer and StopContainer for the identifier has returned,
\* no record, no task and no entry of the address map is left, however many
\* there were and wherever the agent crashed; and CNI holds only addresses lost
\* to an ADD that failed half-way, to a failed DEL of their own run or of
\* CleanupAll, or to a crash that found no record: each deferred clean-up and
\* each StopContainer may act on what another call made, and nothing else falls
\* between them.
THEOREM NothingIsLeft == Spec => []NothingLeftAtRest
<1>1. ContainerInv => NothingLeftAtRest
  <2> SUFFICES ASSUME ContainerInv, AtRest
               PROVE  record = None /\ task = None /\ ip = None /\ address \subseteq lost
    BY Zenon DEF NothingLeftAtRest
  <2>1. \A g \in Run : run[g] \notin HasRecord \cup HasIP \cup HasAddress
    BY Zenon DEF AtRest, HasRecord, HasIP, HasAddress
  <2>2. record = None /\ ip = None
    BY Zenon, <2>1 DEF ContainerInv, Kept, AtRest
  <2>3. task = None
    BY Zenon, <2>2 DEF ContainerInv, Kept
  <2>4. address \subseteq lost
    BY Zenon, <2>1 DEF ContainerInv, ContainerTypeOK, Kept, AtRest
  <2> QED
    BY Zenon, <2>2, <2>3, <2>4
<1> QED
  BY <1>1, ContainerAlways, PTL

\* A RunContainer that has returned has left no task, and no address but one
\* lost in those ways, also when a later RunContainer has the identifier by
\* then: what another call finds is never the remains of one that is gone.
THEOREM ReturnedLeftNothing == Spec => []ReturnedLeavesNothing
<1>1. ContainerInv => ReturnedLeavesNothing
  <2> SUFFICES ASSUME ContainerInv, NEW g \in Run, up, run[g] = "done"
               PROVE  /\ task # None => task.run # g
                      /\ g \in address => g \in lost
    BY Zenon DEF ReturnedLeavesNothing
  <2>1. task # None => task.run # g
    BY DEF ContainerInv, ContainerTypeOK, Kept, HasTask
  <2>2. g \in address => g \in lost
    BY Zenon DEF ContainerInv, Kept, HasAddress
  <2> QED
    BY Zenon, <2>1, <2>2
<1> QED
  BY <1>1, ContainerAlways, PTL
=============================================================================
