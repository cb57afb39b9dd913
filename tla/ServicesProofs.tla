--------------------------- MODULE ServicesProofs ---------------------------
(***************************************************************************)
(* The allocations of services, and the dispatch chain, for any number of   *)
(* services, pools of any size and failures of iptables without number.     *)
(***************************************************************************)
EXTENDS Services, PoolLemmas

\* What a new service is given is in the pool and nobody else's.
LEMMA AllocatedIsFree ==
  /\ FreeIPs # {} => /\ Lowest(FreeIPs) \in 1..MaxIP
                     /\ \A s \in Stored : services[s].ip # Lowest(FreeIPs)
  /\ FreePorts # {} => /\ Lowest(FreePorts) \in 1..MaxPort
                       /\ \A s \in Stored : services[s].port # Lowest(FreePorts)
<1>1. FreeIPs \in SUBSET Nat /\ FreePorts \in SUBSET Nat
  BY ServicesAssumption DEF FreeIPs, FreePorts
<1>2. FreeIPs # {} => Lowest(FreeIPs) \in FreeIPs
  BY Zenon, <1>1, LowestIsThere DEF Lowest
<1>3. FreePorts # {} => Lowest(FreePorts) \in FreePorts
  BY Zenon, <1>1, LowestIsThere DEF Lowest
<1> QED
  BY Zenon, <1>2, <1>3 DEF FreeIPs, FreePorts

-----------------------------------------------------------------------------
(***************************************************************************)
(* The store.                                                              *)
(***************************************************************************)

StoreType == services \in [Service -> Row \cup {NoEntry}]

\* No two rows have the same ClusterIP.
IPsDistinct == \A s, t \in Stored : s # t => services[s].ip # services[t].ip

LEMMA StoreStep ==
  ASSUME StoreType, IPsDistinct, [ServicesNext]_svcVars
  PROVE  StoreType' /\ IPsDistinct'
<1> USE DEF StoreType, IPsDistinct, Stored
<1>1. ASSUME UNCHANGED services
      PROVE  StoreType' /\ IPsDistinct'
  BY Zenon, <1>1
<1>2. ASSUME NEW s \in Service, NEW proto \in Protocol, Create(s, proto)
      PROVE  StoreType' /\ IPsDistinct'
  <2> DEFINE row == [ip |-> Lowest(FreeIPs), port |-> Lowest(FreePorts), proto |-> proto]
  <2>1. services' = [services EXCEPT ![s] = row]
    BY Zenon, <1>2 DEF Create
  <2>2. row \in Row /\ \A t \in Stored : services[t].ip # row.ip
    BY Zenon, <1>2, AllocatedIsFree DEF Create, Row
  <2> HIDE DEF row
  <2> QED
    BY Zenon, <2>1, <2>2
<1>3. ASSUME NEW s \in Service, NEW proto \in Protocol, Update(s, proto)
      PROVE  StoreType' /\ IPsDistinct'
  <2>1. s \in Stored /\ services' = [services EXCEPT ![s] = [services[s] EXCEPT !.proto = proto]]
    BY Zenon, <1>3 DEF Update
  <2>2. services[s] \in Row
    BY Zenon, <2>1
  <2>3. services'[s] \in Row /\ services'[s].ip = services[s].ip
    BY Zenon, <2>1, <2>2 DEF Row
  <2> QED
    BY ZenonT(60), <2>1, <2>2, <2>3, NoRowAssumption
<1>4. ASSUME NEW s \in Service, Remove(s)
      PROVE  StoreType' /\ IPsDistinct'
  BY Zenon, <1>4 DEF Remove
<1>5. CASE \E s \in Service, eps \in SUBSET Endpoint : Churn(s, eps)
  BY Zenon, <1>1, <1>5 DEF Churn
<1>6. CASE SyncServices
  BY Zenon, <1>1, <1>6 DEF SyncServices, ListServices, computeEndpoints, populateServiceChain,
     cleanupStaleChains, openNodePort, AllChains, populateServicesChain, NoStaleChains,
     closeNodePorts, storeVars
<1>7. CASE RestartAgent
  BY Zenon, <1>1, <1>7 DEF RestartAgent, storeVars
<1>8. CASE UNCHANGED svcVars
  BY Zenon, <1>1, <1>8 DEF svcVars, storeVars
<1> QED
  BY Zenon, <1>2, <1>3, <1>4, <1>5, <1>6, <1>7, <1>8 DEF ServicesNext, Store

-----------------------------------------------------------------------------
(***************************************************************************)
(* The store implements the leases.                                        *)
(***************************************************************************)

LEMMA LeaseStep ==
  ASSUME StoreType, [ServicesNext]_svcVars
  PROVE  /\ [ClusterIPs!LeaseNext]_(ClusterIPs!leaseVars)
         /\ [NodePorts!LeaseNext]_(NodePorts!leaseVars)
<1> DEFINE ips == [s \in Service |-> IF s \in Stored THEN services[s].ip ELSE NoEntry]
           ports == [s \in Service |-> IF s \in Stored THEN services[s].port ELSE NoEntry]
           Goal == /\ [ClusterIPs!LeaseNext]_(ClusterIPs!leaseVars)
                   /\ [NodePorts!LeaseNext]_(NodePorts!leaseVars)
<1>0. NoTable' = NoTable
  BY Zenon DEF NoTable
<1>1. ASSUME ips' = ips, ports' = ports
      PROVE  Goal
  BY Zenon, <1>0, <1>1 DEF ClusterIPs!leaseVars, NodePorts!leaseVars
<1>2. ASSUME UNCHANGED services
      PROVE  Goal
  <2>1. ips' = ips /\ ports' = ports
    BY Zenon, <1>2 DEF Stored
  <2> QED
    BY Zenon, <1>1, <2>1
<1>3. ASSUME NEW s \in Service, NEW proto \in Protocol, Create(s, proto)
      PROVE  Goal
  <2> DEFINE row == [ip |-> Lowest(FreeIPs), port |-> Lowest(FreePorts), proto |-> proto]
  <2>1. s \notin Stored /\ services' = [services EXCEPT ![s] = row]
    BY Zenon, <1>3 DEF Create
  <2>2. /\ row \in Row
        /\ \A t \in Stored : services[t].ip # row.ip /\ services[t].port # row.port
    BY Zenon, <1>3, AllocatedIsFree DEF Create, Row
  <2> HIDE DEF row
  <2>3. row.ip \in 1..MaxIP /\ row.port \in 1..MaxPort
    BY Zenon, <2>2 DEF Row
  <2>4. Stored' = Stored \cup {s}
    BY Zenon, <2>1, <2>2, NoRowAssumption DEF Stored, StoreType
  <2>5. ips' = [ips EXCEPT ![s] = row.ip] /\ ports' = [ports EXCEPT ![s] = row.port]
    BY Zenon, <2>1, <2>4 DEF StoreType
  <2>6. ips[s] = NoEntry /\ ports[s] = NoEntry
    BY Zenon, <2>1
  <2>7. \A t \in Service : ips[t] # row.ip /\ ports[t] # row.port
    BY Zenon, <2>2, <2>3, ServicesAssumption
  <2>8. ClusterIPs!Grant(s)
    BY Zenon, <1>0, <2>3, <2>5, <2>6, <2>7 DEF ClusterIPs!Grant
  <2>9. NodePorts!Grant(s)
    BY Zenon, <1>0, <2>3, <2>5, <2>6, <2>7 DEF NodePorts!Grant
  <2> QED
    BY Zenon, <2>8, <2>9 DEF ClusterIPs!LeaseNext, NodePorts!LeaseNext
<1>4. ASSUME NEW s \in Service, NEW proto \in Protocol, Update(s, proto)
      PROVE  Goal
  <2>1. s \in Stored /\ services' = [services EXCEPT ![s] = [services[s] EXCEPT !.proto = proto]]
    BY Zenon, <1>4 DEF Update
  <2>2. services[s] \in Row
    BY Zenon, <2>1 DEF Stored, StoreType
  <2>3. /\ services'[s] \in Row
        /\ services'[s].ip = services[s].ip /\ services'[s].port = services[s].port
    BY Zenon, <2>1, <2>2 DEF Row, StoreType
  <2>4. Stored' = Stored
    BY Zenon, <2>1, <2>3, NoRowAssumption DEF Stored, StoreType
  <2>5. ips' = ips /\ ports' = ports
    BY Zenon, <2>1, <2>3, <2>4 DEF StoreType
  <2> QED
    BY Zenon, <1>1, <2>5
<1>5. ASSUME NEW s \in Service, Remove(s)
      PROVE  Goal
  <2>1. s \in Stored /\ services' = [services EXCEPT ![s] = NoEntry]
    BY Zenon, <1>5 DEF Remove
  <2>2. Stored' = Stored \ {s}
    BY Zenon, <2>1 DEF Stored, StoreType
  <2>3. ips' = [ips EXCEPT ![s] = NoEntry] /\ ports' = [ports EXCEPT ![s] = NoEntry]
    BY Zenon, <2>1, <2>2 DEF StoreType
  <2>4. NoTable[s] = NoEntry
    BY Zenon DEF NoTable
  <2>5. ClusterIPs!Return(s)
    BY Zenon, <1>0, <2>3, <2>4 DEF ClusterIPs!Return
  <2>6. NodePorts!Return(s)
    BY Zenon, <1>0, <2>3, <2>4 DEF NodePorts!Return
  <2> QED
    BY Zenon, <2>5, <2>6 DEF ClusterIPs!LeaseNext, NodePorts!LeaseNext
<1>6. CASE \E s \in Service, eps \in SUBSET Endpoint : Churn(s, eps)
  BY Zenon, <1>2, <1>6 DEF Churn
<1>7. CASE SyncServices
  BY Zenon, <1>2, <1>7 DEF SyncServices, ListServices, computeEndpoints, populateServiceChain,
     cleanupStaleChains, openNodePort, AllChains, populateServicesChain, NoStaleChains,
     closeNodePorts, storeVars
<1>8. CASE RestartAgent
  BY Zenon, <1>2, <1>8 DEF RestartAgent, storeVars
<1>9. CASE UNCHANGED svcVars
  BY Zenon, <1>2, <1>9 DEF svcVars, storeVars
<1> QED
  BY Zenon, <1>3, <1>4, <1>5, <1>6, <1>7, <1>8, <1>9 DEF ServicesNext, Store

\* ServiceStore implements the leases, twice over: a ClusterIP and a NodePort
\* are granted to one service each, kept through every update, and returned
\* only with the service, whatever the size of the pools (ServiceStore.Add,
\* allocate).
THEOREM StoreImplementsLeases ==
  ServicesSpec => AllocationsAreLeases
<1>1. ServicesInit => StoreType /\ IPsDistinct
  BY Zenon DEF ServicesInit, StoreType, IPsDistinct, Stored, NoTable
<1>2. StoreType /\ IPsDistinct /\ [ServicesNext]_svcVars => (StoreType /\ IPsDistinct)'
  BY Zenon, StoreStep
<1>3. ServicesInit => ClusterIPs!LeaseInit /\ NodePorts!LeaseInit
  BY Zenon DEF ServicesInit, ClusterIPs!LeaseInit, NodePorts!LeaseInit, Stored, NoTable
<1>4. StoreType /\ [ServicesNext]_svcVars =>
        /\ [ClusterIPs!LeaseNext]_(ClusterIPs!leaseVars)
        /\ [NodePorts!LeaseNext]_(NodePorts!leaseVars)
  BY Zenon, LeaseStep
<1> QED
  BY <1>1, <1>2, <1>3, <1>4, PTL
     DEF ServicesSpec, AllocationsAreLeases, ClusterIPs!LeaseSpec, NodePorts!LeaseSpec

-----------------------------------------------------------------------------
(***************************************************************************)
(* The dispatch chain.                                                     *)
(***************************************************************************)

\* The table is well typed and, like the store it was read from, has each
\* ClusterIP once.
TableSound ==
  /\ endpoints \in [Service -> SUBSET Endpoint]
  /\ table \in [Service -> Entry \cup {NoEntry}]
  /\ \A s, t \in Tabled : s # t => table[s].ip # table[t].ip

\* What Sync has done by the time it writes the dispatch chain: the services of
\* the table have their chains.
ChainsMade ==
  /\ chains \in [Service -> (SUBSET Endpoint) \cup {NoEntry}]
  /\ dispatch \subseteq Rule
  /\ pc = "chains" => todo \subseteq Tabled /\ \A s \in Tabled \ todo : chains[s] # NoEntry
  /\ pc = "dispatch" => \A s \in Tabled : chains[s] # NoEntry
  /\ DispatchSound

LEMMA TableStep ==
  ASSUME StoreType, IPsDistinct, TableSound, [ServicesNext]_svcVars
  PROVE  TableSound'
<1> USE DEF TableSound, Tabled
<1>1. endpoints' \in [Service -> SUBSET Endpoint]
  BY Zenon DEF ServicesNext, Store, Create, Update, Remove, Churn, SyncServices, ListServices,
     computeEndpoints, populateServiceChain, cleanupStaleChains, openNodePort, AllChains,
     populateServicesChain, NoStaleChains, closeNodePorts, RestartAgent, svcVars, storeVars
<1>2. ASSUME UNCHANGED table
      PROVE  TableSound'
  BY Zenon, <1>1, <1>2
<1>3. ASSUME table' = NoTable
      PROVE  TableSound'
  BY Zenon, <1>1, <1>3 DEF NoTable
<1>4. CASE ListServices
  <2>1. CASE UNCHANGED table
    BY Zenon, <1>2, <2>1
  <2>2. CASE table' = [s \in Service |->
               IF s \in Stored
                 THEN [ip |-> services[s].ip, port |-> services[s].port,
                       proto |-> services[s].proto, backends |-> {}]
                 ELSE NoEntry]
    <3>1. \A s \in Stored : services[s] \in Row
      BY Zenon DEF Stored, StoreType
    <3>2. \A s \in Service :
            \/ s \in Stored /\ table'[s] \in Entry /\ table'[s].ip = services[s].ip
            \/ s \notin Stored /\ table'[s] = NoEntry
      BY Zenon, <2>2, <3>1 DEF Row, Entry
    <3>3. table' \in [Service -> Entry \cup {NoEntry}]
      BY Zenon, <2>2, <3>2
    <3> QED
      BY Zenon, <1>1, <3>2, <3>3 DEF IPsDistinct
  <2> QED
    BY Zenon, <1>4, <2>1, <2>2 DEF ListServices
<1>5. CASE computeEndpoints
  <2>1. table' = [s \in Service |->
          IF s \in Tabled THEN [table[s] EXCEPT !.backends = endpoints[s]] ELSE NoEntry]
    BY Zenon, <1>5 DEF computeEndpoints
  <2>2. \A s \in Service :
          \/ s \in Tabled /\ table'[s] \in Entry /\ table'[s].ip = table[s].ip
          \/ s \notin Tabled /\ table'[s] = NoEntry
    BY Zenon, <2>1 DEF Entry
  <2>3. table' \in [Service -> Entry \cup {NoEntry}]
    BY Zenon, <2>1, <2>2
  <2> QED
    BY Zenon, <1>1, <2>2, <2>3
<1>6. CASE Store
  BY Zenon, <1>2, <1>6 DEF Store, Create, Update, Remove, Churn
<1>7. CASE \E s \in Service : populateServiceChain(s) \/ cleanupStaleChains(s) \/ openNodePort(s)
  BY Zenon, <1>2, <1>3, <1>7 DEF populateServiceChain, cleanupStaleChains, openNodePort, Goes, Fails
<1>8. CASE AllChains \/ populateServicesChain \/ NoStaleChains \/ closeNodePorts \/ RestartAgent
  BY Zenon, <1>2, <1>3, <1>8 DEF AllChains, populateServicesChain, NoStaleChains, closeNodePorts,
     RestartAgent, Goes, Fails
<1>9. CASE UNCHANGED svcVars
  BY Zenon, <1>2, <1>9 DEF svcVars
<1> QED
  BY Zenon, <1>4, <1>5, <1>6, <1>7, <1>8, <1>9 DEF ServicesNext, SyncServices

\* The rules of some services of the table lead to their chains, one for each
\* ClusterIP.
LEMMA RulesSound ==
  ASSUME TableSound, NEW some \in SUBSET Tabled, \A s \in some : chains[s] # NoEntry
  PROVE  /\ {RuleOf(s) : s \in some} \subseteq Rule
         /\ \A rule \in {RuleOf(s) : s \in some} : chains[rule.to] # NoEntry
         /\ \A r1, r2 \in {RuleOf(s) : s \in some} : r1 # r2 => r1.ip # r2.ip
<1>1. \A s \in some : s \in Service /\ table[s] \in Entry
  BY Zenon DEF TableSound, Tabled
<1>2. \A s \in some : RuleOf(s) \in Rule /\ RuleOf(s).to = s /\ RuleOf(s).ip = table[s].ip
  BY Zenon, <1>1 DEF RuleOf, Rule, Entry
<1> QED
  BY <1>2 DEF TableSound

LEMMA ChainStep ==
  ASSUME TableSound, ChainsMade, [ServicesNext]_svcVars
  PROVE  ChainsMade'
<1> USE DEF ChainsMade
<1>1. ASSUME UNCHANGED <<chains, dispatch>>, pc' \notin {"chains", "dispatch"}
      PROVE  ChainsMade'
  BY Zenon, <1>1 DEF DispatchSound
<1>2. CASE computeEndpoints
  <2>1. pc' = "chains" /\ todo' = Tabled /\ UNCHANGED <<chains, dispatch>>
    BY Zenon, <1>2 DEF computeEndpoints, kernelVars
  <2>2. Tabled' = Tabled
    <3>1. table' = [s \in Service |->
            IF s \in Tabled THEN [table[s] EXCEPT !.backends = endpoints[s]] ELSE NoEntry]
      BY Zenon, <1>2 DEF computeEndpoints
    <3>2. \A s \in Tabled : s \in Service /\ table[s] \in Entry /\ endpoints[s] \in SUBSET Endpoint
      BY Zenon DEF TableSound, Tabled
    <3>3. \A s \in Tabled : table'[s] \in Entry
      BY Zenon, <3>1, <3>2 DEF Entry
    <3> QED
      BY ZenonT(60), <3>1, <3>2, <3>3, NoRowAssumption DEF Tabled
  <2> QED
    BY Zenon, <2>1, <2>2 DEF DispatchSound
<1>3. ASSUME NEW s \in Service, populateServiceChain(s)
      PROVE  ChainsMade'
  <2>1. pc = "chains" /\ s \in todo /\ s \in Tabled /\ dispatch' = dispatch
    BY Zenon, <1>3 DEF populateServiceChain
  <2>2. table[s].backends \in SUBSET Endpoint
    BY Zenon, <2>1 DEF TableSound, Tabled, Entry
  <2>3. CASE /\ chains' = [chains EXCEPT ![s] = table[s].backends]
             /\ Goes("chains", todo \ {s})
    <3>1. pc' = "chains" /\ todo' = todo \ {s} /\ Tabled' = Tabled
      BY Zenon, <2>3 DEF Goes, Tabled
    <3>2. /\ chains' \in [Service -> (SUBSET Endpoint) \cup {NoEntry}]
          /\ \A t \in Service : chains'[t] # NoEntry <=> t = s \/ chains[t] # NoEntry
      BY Zenon, <2>2, <2>3, ServicesAssumption
    <3> QED
      BY Zenon, <2>1, <3>1, <3>2 DEF DispatchSound, Rule, Tabled
  <2>4. CASE /\ \/ \E some \in SUBSET table[s].backends : chains' = [chains EXCEPT ![s] = some]
                \/ UNCHANGED chains
             /\ Fails
    <3>1. pc' = "idle"
      BY Zenon, <2>4 DEF Fails
    <3>2. /\ chains' \in [Service -> (SUBSET Endpoint) \cup {NoEntry}]
          /\ \A t \in Service : chains[t] # NoEntry => chains'[t] # NoEntry
      BY Zenon, <2>2, <2>4, ServicesAssumption
    <3> QED
      BY Zenon, <2>1, <3>1, <3>2 DEF DispatchSound, Rule
  <2> QED
    BY Zenon, <1>3, <2>3, <2>4 DEF populateServiceChain
<1>4. CASE AllChains
  BY Zenon, <1>4 DEF AllChains, Goes, kernelVars, DispatchSound, Tabled
<1>5. CASE populateServicesChain
  <2>1. pc = "dispatch" /\ chains' = chains /\ pc' \in {"stale", "idle"}
    BY Zenon, <1>5 DEF populateServicesChain, Goes, Fails
  <2>2. \/ dispatch' = dispatch
        \/ \E some \in SUBSET Tabled : dispatch' = {RuleOf(s) : s \in some}
    BY Zenon, <1>5 DEF populateServicesChain
  <2>3. CASE dispatch' = dispatch
    BY Zenon, <1>1, <2>1, <2>3
  <2>4. ASSUME NEW some \in SUBSET Tabled, dispatch' = {RuleOf(s) : s \in some}
        PROVE  ChainsMade'
    <3>1. /\ dispatch' \subseteq Rule
          /\ \A rule \in dispatch' : chains[rule.to] # NoEntry
          /\ \A r1, r2 \in dispatch' : r1 # r2 => r1.ip # r2.ip
      BY Zenon, <2>1, <2>4, RulesSound
    <3> QED
      BY Zenon, <2>1, <3>1 DEF DispatchSound
  <2> QED
    BY Zenon, <2>2, <2>3, <2>4
<1>6. ASSUME NEW s \in Service, cleanupStaleChains(s)
      PROVE  ChainsMade'
  <2>1. pc' \in {"stale", "idle"} /\ dispatch' = dispatch
    BY Zenon, <1>6 DEF cleanupStaleChains, Goes, Fails
  <2>2. /\ chains' \in [Service -> (SUBSET Endpoint) \cup {NoEntry}]
        /\ \A rule \in dispatch : chains'[rule.to] # NoEntry
    <3>1. \A rule \in dispatch : rule.to \in Service /\ chains[rule.to] # NoEntry
      BY Zenon DEF DispatchSound, Rule
    <3> QED
      BY Zenon, <1>6, <3>1, ServicesAssumption DEF cleanupStaleChains
  <2> QED
    BY Zenon, <2>1, <2>2 DEF DispatchSound
<1>7. CASE ListServices \/ NoStaleChains \/ closeNodePorts \/ RestartAgent
  BY Zenon, <1>1, <1>7 DEF ListServices, NoStaleChains, closeNodePorts, RestartAgent, Goes, Fails,
     kernelVars
<1>8. ASSUME NEW s \in Service, openNodePort(s)
      PROVE  ChainsMade'
  BY Zenon, <1>1, <1>8 DEF openNodePort, Goes, Fails
<1>9. ASSUME UNCHANGED <<pc, table, todo, chains, dispatch>>
      PROVE  ChainsMade'
  BY Zenon, <1>9 DEF DispatchSound, Tabled
<1>10. CASE Store
  BY Zenon, <1>9, <1>10 DEF Store, Create, Update, Remove, Churn, kernelVars
<1>11. CASE UNCHANGED svcVars
  BY Zenon, <1>9, <1>11 DEF svcVars, kernelVars
<1> QED
  BY Zenon, <1>2, <1>3, <1>4, <1>5, <1>6, <1>7, <1>8, <1>10, <1>11 DEF ServicesNext, SyncServices

-----------------------------------------------------------------------------
(***************************************************************************)
(* The NodePorts.                                                          *)
(***************************************************************************)

\* Sync opens ports of the table, and ServiceProxy.nodePorts has only ports
\* that are open.
PortsSound ==
  /\ pc \in {"idle", "listed", "chains", "dispatch", "stale", "open"}
  /\ todo \subseteq Service
  /\ pc = "open" => todo \subseteq Tabled
  /\ input \subseteq Accept
  /\ nodePorts \in [1..MaxPort -> Protocol \cup {NoEntry}]
  /\ \A p \in 1..MaxPort : nodePorts[p] # NoEntry => [port |-> p, proto |-> nodePorts[p]] \in input

Bounded == changes \in 0..MaxChanges /\ faults \in 0..MaxFaults /\ restarts \in 0..MaxRestarts

LEMMA PortsStep ==
  ASSUME TableSound, PortsSound, [ServicesNext]_svcVars
  PROVE  PortsSound'
<1> USE DEF PortsSound
<1>1. ASSUME UNCHANGED <<input, nodePorts>>, todo' \subseteq Service,
             pc' \in {"idle", "listed", "chains", "dispatch", "stale"}
      PROVE  PortsSound'
  BY Zenon, <1>1
<1>2. CASE UNCHANGED svcVars \/ Store
  BY Zenon, <1>2 DEF svcVars, kernelVars, Tabled, Store, Create, Update, Remove, Churn
<1>3. CASE ListServices \/ computeEndpoints \/ AllChains \/ populateServicesChain
  BY Zenon, <1>1, <1>3 DEF ListServices, computeEndpoints, AllChains, populateServicesChain,
     Goes, Fails, kernelVars, Tabled, StaleChains
<1>4. ASSUME NEW s \in Service, populateServiceChain(s) \/ cleanupStaleChains(s)
      PROVE  PortsSound'
  BY Zenon, <1>1, <1>4 DEF populateServiceChain, cleanupStaleChains, Goes, Fails
<1>5. CASE NoStaleChains
  BY Zenon, <1>5 DEF NoStaleChains, Goes, kernelVars, Tabled
<1>6. ASSUME NEW s \in Service, openNodePort(s)
      PROVE  PortsSound'
  <2>1. /\ pc = "open" /\ s \in Tabled /\ table[s] \in Entry
        /\ table[s].port \in 1..MaxPort /\ table[s].proto \in Protocol
    BY Zenon, <1>6 DEF openNodePort, TableSound, Tabled, Entry
  <2>2. CASE Fails /\ UNCHANGED <<input, nodePorts>>
    BY Zenon, <1>1, <2>2 DEF Fails
  <2>3. CASE /\ input' = input \cup {[port |-> table[s].port, proto |-> table[s].proto]}
             /\ nodePorts' = [nodePorts EXCEPT ![table[s].port] = table[s].proto]
             /\ Goes("open", todo \ {s})
    <3>1. pc' = "open" /\ todo' \subseteq Tabled' /\ todo' \subseteq Service
      BY Zenon, <2>1, <2>3 DEF Goes, Tabled
    <3>2. input' \subseteq Accept
      <4>1. [port |-> table[s].port, proto |-> table[s].proto] \in Accept
        BY Zenon, <2>1 DEF Accept
      <4> QED
        BY Zenon, <2>3, <4>1
    <3> QED
      BY Zenon, <2>1, <2>3, <3>1, <3>2
  <2> QED
    BY Zenon, <1>6, <2>2, <2>3 DEF openNodePort
<1>7. CASE closeNodePorts
  <2>1. PICK closed \in SUBSET StalePorts :
          /\ input' = input \ {[port |-> p, proto |-> nodePorts[p]] : p \in closed}
          /\ nodePorts' = [p \in 1..MaxPort |-> IF p \in closed THEN NoEntry ELSE nodePorts[p]]
    BY Zenon, <1>7 DEF closeNodePorts
  <2>2. pc' = "idle" /\ todo' \subseteq Service
    BY Zenon, <1>7 DEF closeNodePorts, Fails
  <2>3. ASSUME NEW p \in 1..MaxPort, nodePorts'[p] # NoEntry
        PROVE  [port |-> p, proto |-> nodePorts'[p]] \in input'
    <3>1. p \notin closed /\ nodePorts'[p] = nodePorts[p]
      BY Zenon, <2>1, <2>3
    <3>2. [port |-> p, proto |-> nodePorts[p]] \in input
      BY Zenon, <2>3, <3>1
    <3>3. \A q \in closed : [port |-> q, proto |-> nodePorts[q]] # [port |-> p, proto |-> nodePorts[p]]
      BY <3>1
    <3> QED
      BY Zenon, <2>1, <3>1, <3>2, <3>3
  <2>4. input' \subseteq Accept /\ nodePorts' \in [1..MaxPort -> Protocol \cup {NoEntry}]
    BY Zenon, <2>1
  <2> QED
    BY Zenon, <2>2, <2>3, <2>4
<1>8. CASE RestartAgent
  BY Zenon, <1>8 DEF RestartAgent, kernelVars
<1> QED
  BY Zenon, <1>2, <1>3, <1>4, <1>5, <1>6, <1>7, <1>8 DEF ServicesNext, SyncServices

LEMMA BoundedStep ==
  ASSUME Bounded, [ServicesNext]_svcVars
  PROVE  Bounded'
<1>1. changes' = changes \/ (changes < MaxChanges /\ changes' = changes + 1)
  BY ZenonT(60) DEF ServicesNext, Store, Create, Update, Remove, Churn, Changed, SyncServices,
     ListServices, computeEndpoints, populateServiceChain, cleanupStaleChains, openNodePort,
     AllChains, populateServicesChain, NoStaleChains, closeNodePorts, RestartAgent, svcVars,
     storeVars
<1>2. faults' = faults \/ (faults < MaxFaults /\ faults' = faults + 1)
  BY ZenonT(60) DEF ServicesNext, Store, Create, Update, Remove, Churn, SyncServices,
     ListServices, computeEndpoints, populateServiceChain, cleanupStaleChains, openNodePort,
     AllChains, populateServicesChain, NoStaleChains, closeNodePorts, RestartAgent, svcVars,
     Goes, Fails
<1>3. restarts' = restarts \/ (restarts < MaxRestarts /\ restarts' = restarts + 1)
  BY ZenonT(60) DEF ServicesNext, Store, Create, Update, Remove, Churn, SyncServices,
     ListServices, computeEndpoints, populateServiceChain, cleanupStaleChains, openNodePort,
     AllChains, populateServicesChain, NoStaleChains, closeNodePorts, RestartAgent, svcVars
<1> QED
  BY SMTT(30), <1>1, <1>2, <1>3, ServicesAssumption DEF Bounded

ServicesInv ==
  StoreType /\ IPsDistinct /\ TableSound /\ ChainsMade /\ PortsSound /\ Bounded

LEMMA ServicesAlways == ServicesSpec => []ServicesInv
<1>1. ServicesInit => ServicesInv
  <2> SUFFICES ASSUME ServicesInit PROVE ServicesInv
    OBVIOUS
  <2>1. Bounded
    BY ServicesAssumption DEF ServicesInit, Bounded
  <2> QED
    BY Zenon, <2>1 DEF ServicesInit, ServicesInv, StoreType, IPsDistinct, Stored, TableSound,
       Tabled, ChainsMade, DispatchSound, PortsSound, NoTable
<1>2. ServicesInv /\ [ServicesNext]_svcVars => ServicesInv'
  BY Zenon, StoreStep, TableStep, ChainStep, PortsStep, BoundedStep DEF ServicesInv
<1> QED
  BY <1>1, <1>2, PTL DEF ServicesSpec

-----------------------------------------------------------------------------
(***************************************************************************)
(* The theorems.                                                           *)
(***************************************************************************)

\* At no moment, whichever iptables call fails and wherever the agent is
\* restarted, does a rule of the dispatch chain lead to a chain that is not
\* there or do two rules answer for one ClusterIP (ServiceProxy.Sync).
THEOREM DispatchStaysSound ==
  ServicesSpec => []DispatchSound
<1>1. ServicesInv => DispatchSound
  BY Zenon DEF ServicesInv, ChainsMade
<1> QED
  BY <1>1, ServicesAlways, PTL

\* ClusterIPs and NodePorts, in the store, in the table and in the rules made of
\* it, come from their pools, whichever iptables calls fail and wherever the
\* agent restarts (ServiceStore.allocate, ServiceProxy).
THEOREM ServicesTyped == ServicesSpec => []ServicesTypeOK
<1>1. ServicesInv => ServicesTypeOK
  BY Zenon DEF ServicesInv, StoreType, TableSound, ChainsMade, PortsSound, Bounded,
     ServicesTypeOK
<1> QED
  BY <1>1, ServicesAlways, PTL

\* What syncNodePorts takes for open is open: a port on record in
\* ServiceProxy.nodePorts has its ACCEPT rule, with the protocol on record, and
\* closing one port never takes away another's.
THEOREM RecordedIsOpen ==
  ServicesSpec =>
    [](\A p \in 1..MaxPort :
         nodePorts[p] # NoEntry => [port |-> p, proto |-> nodePorts[p]] \in input)
<1> DEFINE Open == \A p \in 1..MaxPort :
             nodePorts[p] # NoEntry => [port |-> p, proto |-> nodePorts[p]] \in input
<1>1. ServicesInv => Open
  BY Zenon DEF ServicesInv, PortsSound
<1> QED
  BY <1>1, ServicesAlways, PTL
=============================================================================
