------------------------------ MODULE Services ------------------------------
(***************************************************************************)
(* Services: the persistent ServiceStore with its pools of ClusterIPs and   *)
(* NodePorts, the endpoint table the control plane computes                 *)
(* (computeEndpoints), and one agent's ServiceProxy, which turns the table  *)
(* into iptables chains (internal/runtime/service_proxy.go).  The table is  *)
(* the same for every agent, so one agent shows what there is to see.       *)
(*                                                                         *)
(* iptables is external: the nat chains of the services, the rules of the   *)
(* dispatch chain SMITH-SERVICES and the ACCEPT rules of filter/INPUT.  A   *)
(* chain that a rule jumps to cannot be deleted.  Any call may fail; Sync   *)
(* then returns, and the next one starts over.  ClusterIPs and NodePorts    *)
(* are numbered from 1 in the order in which they are tried.                *)
(***************************************************************************)
EXTENDS Naturals, FiniteSets

CONSTANTS Service,      \* service names
          Protocol,     \* protocols a service may be declared with
          Endpoint,     \* replica addresses
          NoEntry,      \* what a map holds for a key it does not contain
          MaxIP,        \* size of the ClusterIP pool (65534 in the code)
          MaxPort,      \* size of the NodePort range (2768 in the code)
          MaxChanges,   \* bound: changes to services and endpoints
          MaxFaults,    \* bound: iptables calls and reads of the table that fail
          MaxRestarts   \* bound: restarts of the agent

ASSUME ServicesAssumption ==
  /\ MaxIP \in Nat /\ MaxPort \in Nat
  /\ MaxChanges \in Nat /\ MaxFaults \in Nat /\ MaxRestarts \in Nat
  /\ NoEntry \notin 1..MaxIP /\ NoEntry \notin 1..MaxPort /\ NoEntry \notin Protocol
  /\ \A eps \in SUBSET Endpoint : eps # NoEntry

VARIABLES services,     \* the table services: name -> row, or NoEntry
          endpoints,    \* running replicas of each service's workload
          pc,           \* where the agent's service sync is
          table,        \* the endpoint table being synced
          todo,         \* services or chains still to be done
          chains,       \* nat chain of each service: its backends, or NoEntry
          dispatch,     \* rules of SMITH-SERVICES
          input,        \* NodePort ACCEPT rules of filter/INPUT
          nodePorts,    \* ServiceProxy.nodePorts: port -> protocol, or NoEntry
          changes, faults, restarts

storeVars == <<services, endpoints, changes>>
kernelVars == <<chains, dispatch, input>>
svcVars == <<storeVars, pc, table, todo, kernelVars, nodePorts, faults, restarts>>

Row == [ip : 1..MaxIP, port : 1..MaxPort, proto : Protocol]

Rule == [ip : 1..MaxIP, port : 1..MaxPort, proto : Protocol, to : Service]

Accept == [port : 1..MaxPort, proto : Protocol]

\* A row with the replicas of the service's workload.
Entry == [ip : 1..MaxIP, port : 1..MaxPort, proto : Protocol, backends : SUBSET Endpoint]

ASSUME NoRowAssumption == NoEntry \notin Row /\ NoEntry \notin Entry

NoTable == [s \in Service |-> NoEntry]

\* ClusterIPs and NodePorts come from their pools, in the store, in the table
\* and in the rules made of it (ServiceStore.allocate, ServiceProxy).
ServicesTypeOK ==
  /\ services \in [Service -> Row \cup {NoEntry}]
  /\ endpoints \in [Service -> SUBSET Endpoint]
  /\ pc \in {"idle", "listed", "chains", "dispatch", "stale", "open"}
  /\ table \in [Service -> Entry \cup {NoEntry}]
  /\ todo \subseteq Service
  /\ chains \in [Service -> (SUBSET Endpoint) \cup {NoEntry}]
  /\ dispatch \subseteq Rule
  /\ input \subseteq Accept
  /\ nodePorts \in [1..MaxPort -> Protocol \cup {NoEntry}]
  /\ changes \in 0..MaxChanges /\ faults \in 0..MaxFaults /\ restarts \in 0..MaxRestarts

ServicesInit ==
  /\ services = NoTable
  /\ endpoints = [s \in Service |-> {}]
  /\ pc = "idle"
  /\ table = NoTable
  /\ todo = {}
  /\ chains = NoTable
  /\ dispatch = {} /\ input = {}
  /\ nodePorts = [p \in 1..MaxPort |-> NoEntry]
  /\ changes = 0 /\ faults = 0 /\ restarts = 0

-----------------------------------------------------------------------------
(***************************************************************************)
(* ServiceStore and computeEndpoints.                                      *)
(***************************************************************************)

Changed == changes < MaxChanges /\ changes' = changes + 1

Stored == {s \in Service : services[s] # NoEntry}

FreeIPs == 1..MaxIP \ {services[s].ip : s \in Stored}

FreePorts == 1..MaxPort \ {services[s].port : s \in Stored}

Lowest(S) == CHOOSE x \in S : \A y \in S : x <= y

\* A faulty version: the port is one too low.
CreateOneTooLow(s, proto) ==
  /\ Changed
  /\ s \notin Stored
  /\ FreeIPs # {} /\ FreePorts # {}
  /\ services' = [services EXCEPT ![s] =
       [ip |-> Lowest(FreeIPs), port |-> Lowest(FreePorts) - 1, proto |-> proto]]
  /\ UNCHANGED <<endpoints, pc, table, todo, kernelVars, nodePorts, faults, restarts>>

\* ServiceStore.Add of a new service: allocate, or fail when a pool is empty.
Create(s, proto) ==
  /\ Changed
  /\ s \notin Stored
  /\ FreeIPs # {} /\ FreePorts # {}
  /\ services' = [services EXCEPT ![s] =
       [ip |-> Lowest(FreeIPs), port |-> Lowest(FreePorts), proto |-> proto]]
  /\ UNCHANGED <<endpoints, pc, table, todo, kernelVars, nodePorts, faults, restarts>>

\* A faulty version: an update allocates again.
UpdateReallocates(s, proto) ==
  /\ Changed
  /\ s \in Stored
  /\ FreeIPs # {} /\ FreePorts # {}
  /\ services' = [services EXCEPT ![s] =
       [ip |-> Lowest(FreeIPs), port |-> Lowest(FreePorts), proto |-> proto]]
  /\ UNCHANGED <<endpoints, pc, table, todo, kernelVars, nodePorts, faults, restarts>>

\* ServiceStore.Add of an existing service: keeps what was allocated to it.
Update(s, proto) ==
  /\ Changed
  /\ s \in Stored
  /\ services' = [services EXCEPT ![s].proto = proto]
  /\ UNCHANGED <<endpoints, pc, table, todo, kernelVars, nodePorts, faults, restarts>>

\* ServiceStore.Remove.
Remove(s) ==
  /\ Changed
  /\ s \in Stored
  /\ services' = [services EXCEPT ![s] = NoEntry]
  /\ UNCHANGED <<endpoints, pc, table, todo, kernelVars, nodePorts, faults, restarts>>

\* Replicas come up, move or go.
Churn(s, eps) ==
  /\ Changed
  /\ endpoints[s] # eps
  /\ endpoints' = [endpoints EXCEPT ![s] = eps]
  /\ UNCHANGED <<services, pc, table, todo, kernelVars, nodePorts, faults, restarts>>

\* nodeServices: computeEndpoints lists the services (a table that cannot be
\* read counts as an empty one), ...
ListServices ==
  /\ pc = "idle"
  /\ pc' = "listed"
  /\ \/ /\ table' = [s \in Service |->
             IF s \in Stored
               THEN [ip |-> services[s].ip, port |-> services[s].port,
                     proto |-> services[s].proto, backends |-> {}]
               ELSE NoEntry]
        /\ UNCHANGED faults
     \/ /\ faults < MaxFaults
        /\ faults' = faults + 1
        /\ UNCHANGED table
  /\ UNCHANGED <<storeVars, todo, kernelVars, nodePorts, restarts>>

\* The services of the table.
Tabled == {s \in Service : table[s] # NoEntry}

\* ... then looks up the addresses of the replicas that run.
computeEndpoints ==
  /\ pc = "listed"
  /\ pc' = "chains"
  /\ table' = [s \in Service |->
       IF s \in Tabled THEN [table[s] EXCEPT !.backends = endpoints[s]] ELSE NoEntry]
  /\ todo' = Tabled
  /\ UNCHANGED <<storeVars, kernelVars, nodePorts, faults, restarts>>

-----------------------------------------------------------------------------
(***************************************************************************)
(* ServiceProxy.Sync.                                                      *)
(***************************************************************************)

\* An iptables call fails and Sync returns.
Fails ==
  /\ faults < MaxFaults
  /\ faults' = faults + 1
  /\ pc' = "idle"
  /\ table' = NoTable
  /\ todo' = {}

Goes(to, over) ==
  /\ pc' = to
  /\ todo' = over
  /\ UNCHANGED <<table, faults>>

\* A faulty version: the chain is not cleared.
populateServiceChainAppends(s) ==
  /\ pc = "chains"
  /\ s \in todo
  /\ chains' = [chains EXCEPT ![s] = table[s].backends \cup (IF @ = NoEntry THEN {} ELSE @)]
  /\ Goes("chains", todo \ {s})
  /\ UNCHANGED <<storeVars, dispatch, input, nodePorts, restarts>>

\* populateServiceChain: the chain is made if it is not there, cleared and
\* filled again; a failure leaves it with some of the backends, or as it was.
populateServiceChain(s) ==
  /\ pc = "chains"
  /\ s \in todo
  /\ \/ /\ chains' = [chains EXCEPT ![s] = table[s].backends]
        /\ Goes("chains", todo \ {s})
     \/ /\ \/ \E some \in SUBSET table[s].backends : chains' = [chains EXCEPT ![s] = some]
           \/ UNCHANGED chains
        /\ Fails
  /\ UNCHANGED <<storeVars, dispatch, input, nodePorts, restarts>>

AllChains ==
  /\ pc = "chains"
  /\ todo = {}
  /\ Goes("dispatch", {})
  /\ UNCHANGED <<storeVars, kernelVars, nodePorts, restarts>>

\* The ClusterIP rule and the NodePort rule of a service go together.
RuleOf(s) ==
  [ip |-> table[s].ip, port |-> table[s].port, proto |-> table[s].proto, to |-> s]

\* The chains of services that are gone.
StaleChains == {s \in Service : chains[s] # NoEntry /\ s \notin Tabled}

\* A faulty version: the dispatch chain is not cleared.
populateServicesChainAppends ==
  /\ pc = "dispatch"
  /\ dispatch' = dispatch \cup {RuleOf(s) : s \in Tabled}
  /\ Goes("stale", StaleChains)
  /\ UNCHANGED <<storeVars, chains, input, nodePorts, restarts>>

\* populateServicesChain: cleared and filled again.
populateServicesChain ==
  /\ pc = "dispatch"
  /\ \/ dispatch' = {RuleOf(s) : s \in Tabled} /\ Goes("stale", StaleChains)
     \/ /\ \/ \E some \in SUBSET Tabled : dispatch' = {RuleOf(s) : s \in some}
           \/ UNCHANGED dispatch
        /\ Fails
  /\ UNCHANGED <<storeVars, chains, input, nodePorts, restarts>>

\* cleanupStaleChains: a chain is cleared, then deleted, which fails if
\* something still jumps to it.
cleanupStaleChains(s) ==
  /\ pc = "stale"
  /\ s \in todo
  /\ \/ /\ \A rule \in dispatch : rule.to # s
        /\ chains' = [chains EXCEPT ![s] = NoEntry]
        /\ Goes("stale", todo \ {s})
     \/ /\ chains' = [chains EXCEPT ![s] = {}]
        /\ Fails
  /\ UNCHANGED <<storeVars, dispatch, input, nodePorts, restarts>>

NoStaleChains ==
  /\ pc = "stale"
  /\ todo = {}
  /\ Goes("open", {s \in Tabled : nodePorts[table[s].port] = NoEntry})
  /\ UNCHANGED <<storeVars, kernelVars, nodePorts, restarts>>

\* A faulty version: the port is put on record before it is open.
openNodePortRecordsFirst(s) ==
  /\ pc = "open"
  /\ s \in todo
  /\ nodePorts' = [nodePorts EXCEPT ![table[s].port] = table[s].proto]
  /\ \/ /\ input' = input \cup {[port |-> table[s].port, proto |-> table[s].proto]}
        /\ Goes("open", todo \ {s})
     \/ Fails /\ UNCHANGED input
  /\ UNCHANGED <<storeVars, chains, dispatch, restarts>>

\* syncNodePorts: open the ports not on record as open, ...
openNodePort(s) ==
  /\ pc = "open"
  /\ s \in todo
  /\ \/ /\ input' = input \cup {[port |-> table[s].port, proto |-> table[s].proto]}
        /\ nodePorts' = [nodePorts EXCEPT ![table[s].port] = table[s].proto]
        /\ Goes("open", todo \ {s})
     \/ Fails /\ UNCHANGED <<input, nodePorts>>
  /\ UNCHANGED <<storeVars, chains, dispatch, restarts>>

\* ... then close the ones on record that no service has any more.
StalePorts ==
  {p \in 1..MaxPort : nodePorts[p] # NoEntry /\ \A s \in Tabled : table[s].port # p}

closeNodePorts ==
  /\ pc = "open"
  /\ todo = {}
  /\ \E closed \in SUBSET StalePorts :
       /\ input' = input \ {[port |-> p, proto |-> nodePorts[p]] : p \in closed}
       /\ nodePorts' = [p \in 1..MaxPort |-> IF p \in closed THEN NoEntry
                                                             ELSE nodePorts[p]]
       /\ \/ /\ closed = StalePorts
             /\ pc' = "idle" /\ table' = NoTable
             /\ UNCHANGED <<todo, faults>>
          \/ closed # StalePorts /\ Fails
  /\ UNCHANGED <<storeVars, chains, dispatch, restarts>>

\* The agent restarts: the rules live on, the record of open ports does not.
RestartAgent ==
  /\ restarts < MaxRestarts
  /\ restarts' = restarts + 1
  /\ pc' = "idle" /\ table' = NoTable /\ todo' = {}
  /\ nodePorts' = [p \in 1..MaxPort |-> NoEntry]
  /\ UNCHANGED <<storeVars, kernelVars, faults>>

-----------------------------------------------------------------------------

Store ==
  \E s \in Service :
    \/ \E proto \in Protocol : Create(s, proto) \/ Update(s, proto)
    \/ Remove(s)
    \/ \E eps \in SUBSET Endpoint : Churn(s, eps)

SyncServices ==
  \/ ListServices \/ computeEndpoints
  \/ \E s \in Service : populateServiceChain(s) \/ cleanupStaleChains(s) \/ openNodePort(s)
  \/ AllChains \/ populateServicesChain \/ NoStaleChains \/ closeNodePorts

ServicesNext == Store \/ SyncServices \/ RestartAgent

\* serviceSyncLoop syncs again and again.
ServicesSpec ==
  ServicesInit /\ [][ServicesNext]_svcVars /\ WF_svcVars(SyncServices)
-----------------------------------------------------------------------------
(***************************************************************************)
(* Properties.                                                             *)
(***************************************************************************)

\* The ClusterIPs and the NodePorts of the stored services as leases.  What is
\* leased is in use from the start, so nothing is said of its use.
ClusterIPs ==
  INSTANCE Leases WITH Holder <- Service, Thing <- 1..MaxIP,
    lease <- [s \in Service |-> IF s \in Stored THEN services[s].ip ELSE NoEntry],
    inUse <- NoTable

NodePorts ==
  INSTANCE Leases WITH Holder <- Service, Thing <- 1..MaxPort,
    lease <- [s \in Service |-> IF s \in Stored THEN services[s].port ELSE NoEntry],
    inUse <- NoTable

\* No two services have the same ClusterIP or the same NodePort, and "on update
\* it preserves the existing allocation": a service has the same ones for as
\* long as it is there, through the removal of others and the reuse of what
\* they free (ServiceStore.Add, allocate).
AllocationsAreLeases == ClusterIPs!LeaseSpec /\ NodePorts!LeaseSpec

\* Wherever a sync was cut short, no rule of the dispatch chain leads to a
\* chain that is not there, and no two rules answer for one ClusterIP.
DispatchSound ==
  /\ \A rule \in dispatch : chains[rule.to] # NoEntry
  /\ \A r1, r2 \in dispatch : r1 # r2 => r1.ip # r2.ip

\* Once services and replicas stop changing and iptables stops failing, the
\* nat rules on the node are those of the stored services and the replicas that
\* run, although a sync may have been cut short anywhere and the agent have
\* restarted ("every agent programs iptables so the ClusterIP is reachable
\* cluster-wide").
ChainsConverge ==
  <>[](/\ chains = [s \in Service |-> IF s \in Stored THEN endpoints[s] ELSE NoEntry]
       /\ dispatch = {[ip |-> services[s].ip, port |-> services[s].port,
                       proto |-> services[s].proto, to |-> s] : s \in Stored})

\* Is port p declared with protocol f[p] whenever a service has it?
SameProtocol(f) == \A s \in Stored : services[s].proto = f[services[s].port]

\* "the NodePort is reachable on every node's host IP": in the end the ports on
\* record as open are those of the stored services, and, provided that no port is
\* ever declared with two protocols, by one service or by one after another, each
\* is open with the protocol declared, whatever failed, was cut short or restarted
\* (syncNodePorts).  Without the proviso a port stays as it was opened first
\* (PortsConverge).
NodePortsOpen ==
  /\ <>[]({p \in 1..MaxPort : nodePorts[p] # NoEntry} = {services[s].port : s \in Stored})
  /\ \A f \in [1..MaxPort -> Protocol] :
       []SameProtocol(f) =>
         <>[](\A s \in Stored :
                [port |-> services[s].port, proto |-> services[s].proto] \in input)

\* More than that, the open NodePorts would be those of the stored services, with
\* their protocols, and no others, as the documents have it ("the NodePort is
\* reachable on every node's host IP"; "delete chains + close NodePorts for
\* services that no longer exist").
PortsConverge ==
  <>[](input = {[port |-> services[s].port, proto |-> services[s].proto] : s \in Stored})
=============================================================================
