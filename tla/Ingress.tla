------------------------------ MODULE Ingress ------------------------------
(***************************************************************************)
(* Ingress, composed with the runs of smithctl apply that declare it: the   *)
(* control plane joins ingresses with services into rules, host to          *)
(* ClusterIP (computeIngressRules of internal/api/server.go), and every     *)
(* agent fetches the rules on the heartbeat cadence and replaces the table  *)
(* of its reverse proxy (internal/agent/ingress.go).                        *)
(*                                                                         *)
(* The join reads two tables with two queries, and the agent uses what it   *)
(* was sent until its next tick: between any two of these steps a run of    *)
(* apply may go on.                                                        *)
(***************************************************************************)
EXTENDS Apply

CONSTANTS Agent,        \* the agents
          MaxRestarts   \* bound: restarts of agents

ASSUME IngressAssumption == MaxRestarts \in Nat

VARIABLES ingList,      \* the ingresses computeIngressRules has read for an agent
          ruleList,     \* the rules on their way to the agent
          proxy,        \* did the agent start its proxy?
          routes,       \* ingressProxy.routes: host -> ClusterIP
          restarts

proxyVars == <<ingList, ruleList, proxy, routes, restarts>>

ingressVars == <<applyVars, proxyVars>>

NoRules == [h \in Host |-> NoEntry]

Rules == [Host -> Address \cup {NoEntry}]

\* The tables of rules map hosts to ClusterIPs (types.IngressRule).
IngressTypeOK ==
  /\ ApplyTypeOK
  /\ ingList \in [Agent -> [Host -> App \cup {NoEntry}] \cup {NoEntry}]
  /\ ruleList \in [Agent -> Rules \cup {NoEntry}]
  /\ proxy \in [Agent -> BOOLEAN]
  /\ routes \in [Agent -> Rules]
  /\ restarts \in 0..MaxRestarts

\* startIngress has been called on every agent, and has found a wildcard
\* certificate or has not.
IngressInit ==
  /\ ApplyInit
  /\ ingList = [g \in Agent |-> NoEntry]
  /\ ruleList = [g \in Agent |-> NoEntry]
  /\ proxy \in [Agent -> BOOLEAN]
  /\ routes = [g \in Agent |-> NoRules]
  /\ restarts = 0

-----------------------------------------------------------------------------

\* fetchIngresses and nodeIngresses: computeIngressRules lists the ingresses ...
nodeIngresses(g) ==
  /\ proxy[g]
  /\ ingList[g] = NoEntry /\ ruleList[g] = NoEntry
  /\ ingList' = [ingList EXCEPT ![g] = ingresses]
  /\ UNCHANGED <<applyVars, ruleList, proxy, routes, restarts>>

\* Faulty versions: services are looked up by their workload; the ClusterIP is
\* not looked up.
RulesByWorkload(list) ==
  [h \in Host |->
     IF \E s \in LiveServices : services[s].workload = list[h]
       THEN services[CHOOSE s \in LiveServices : services[s].workload = list[h]].ip
       ELSE NoEntry]

RulesByName(list) == list

\* ... and then the services, and leaves out an ingress whose service is not
\* among them.
computeIngressRules(list) ==
  [h \in Host |-> IF list[h] \in LiveServices THEN services[list[h]].ip ELSE NoEntry]

nodeIngressesServices(g) ==
  /\ ingList[g] # NoEntry
  /\ ruleList' = [ruleList EXCEPT ![g] = computeIngressRules(ingList[g])]
  /\ ingList' = [ingList EXCEPT ![g] = NoEntry]
  /\ UNCHANGED <<applyVars, proxy, routes, restarts>>

\* The call fails on its way to the server, there or on its way back: the
\* proxy keeps its table.
FetchFails(g) ==
  /\ ingList[g] # NoEntry \/ ruleList[g] # NoEntry
  /\ ingList' = [ingList EXCEPT ![g] = NoEntry]
  /\ ruleList' = [ruleList EXCEPT ![g] = NoEntry]
  /\ UNCHANGED <<applyVars, proxy, routes, restarts>>

\* A faulty version: rules are added to the table, and none is removed.
setRulesAdds(g) ==
  /\ ruleList[g] # NoEntry
  /\ routes' = [routes EXCEPT ![g] =
       [h \in Host |-> IF ruleList[g][h] # NoEntry THEN ruleList[g][h] ELSE @[h]]]
  /\ ruleList' = [ruleList EXCEPT ![g] = NoEntry]
  /\ UNCHANGED <<applyVars, ingList, proxy, restarts>>

\* setRules: the rules received are the new table.
setRules(g) ==
  /\ ruleList[g] # NoEntry
  /\ routes' = [routes EXCEPT ![g] = ruleList[g]]
  /\ ruleList' = [ruleList EXCEPT ![g] = NoEntry]
  /\ UNCHANGED <<applyVars, ingList, proxy, restarts>>

\* The agent restarts; startIngress finds a certificate, or goes without.
startIngress(g) ==
  /\ restarts < MaxRestarts /\ restarts' = restarts + 1
  /\ \E found \in BOOLEAN : proxy' = [proxy EXCEPT ![g] = found]
  /\ routes' = [routes EXCEPT ![g] = NoRules]
  /\ ingList' = [ingList EXCEPT ![g] = NoEntry]
  /\ ruleList' = [ruleList EXCEPT ![g] = NoEntry]
  /\ UNCHANGED applyVars

IngressNext ==
  \/ ApplyNext /\ UNCHANGED proxyVars
  \/ \E g \in Agent :
       \/ nodeIngresses(g) \/ nodeIngressesServices(g) \/ FetchFails(g)
       \/ setRules(g) \/ startIngress(g)

\* The sync loop of an agent goes on, and of the calls it makes again and again
\* not all fail.
IngressFairness ==
  \A g \in Agent :
    /\ WF_ingressVars(nodeIngresses(g))
    /\ SF_ingressVars(nodeIngressesServices(g))
    /\ SF_ingressVars(setRules(g))

IngressSpec == IngressInit /\ [][IngressNext]_ingressVars /\ IngressFairness
-----------------------------------------------------------------------------
(***************************************************************************)
(* Properties.                                                             *)
(***************************************************************************)

\* Although the rules are joined from two lists that were read at different
\* times, an ingress that is live, and was already when the first list was
\* read, is among them: with ingresses listed before services, and services
\* applied before and deleted after the ingresses that name them, none is taken
\* for one "whose service doesn't exist yet".
NoLiveIngressSkipped ==
  [][\A g \in Agent, h \in Host :
       /\ ingList[g] # NoEntry /\ ruleList'[g] # NoEntry /\ ruleList[g] = NoEntry
       /\ ingresses[h] # NoEntry /\ ingList[g][h] = ingresses[h]
       => ruleList'[g][h] # NoEntry]_ingressVars

\* The rules an agent should have.
WantedRules ==
  [h \in Host |-> IF ingresses[h] = NoEntry THEN NoEntry ELSE services[ingresses[h]].ip]

\* Once runs of apply are over, for good or half-way through, every proxy sends
\* each live host to the ClusterIP of its service and knows no other host, even
\* where a ClusterIP has passed to another service in the meantime
\* (ingressSyncLoop).
ProxiesConverge ==
  \A g \in Agent : <>[](proxy[g] => routes[g] = WantedRules)
=============================================================================
