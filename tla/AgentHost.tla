----------------------------- MODULE AgentHost -----------------------------
(***************************************************************************)
(* What an agent changes on its host around a container: the INPUT rules    *)
(* for published ports (internal/runtime/firewall.go), the NFS mount and    *)
(* the volume directories (internal/runtime/volumes.go), driven by          *)
(* handleAssign and handleUnassign and by the agent's start                 *)
(* (internal/agent/agent.go).  RunContainer and StopContainer are one step  *)
(* each here; module Container has their inside.                            *)
(*                                                                         *)
(* The handlers share the map Agent.ports, which has a lock, and iptables,  *)
(* which has none that spans a check and the change made after it: Exists   *)
(* and Insert, Exists and Delete are separate commands.  So the model       *)
(* counts the copies of a rule.  A rule outlives the agent, the map of who  *)
(* opened it does not.                                                     *)
(***************************************************************************)
EXTENDS Naturals, Sequences

CONSTANTS Id,           \* container identifiers
          Port,         \* host ports
          Spec,         \* what an identifier may be assigned: [Id -> set of specs]
          Call,         \* handler calls that may be under way at once
          None,         \* nothing
          NfsSource,    \* is SMITH_NFS_SOURCE set? the possible answers
          Failure,      \* what may fail: "iptables", "mount", "dir", "pull", "stop"
          MaxFailures,  \* bound: how often something fails
          MaxRestarts,  \* bound: restarts of the agent or the host
          MaxCalls,     \* bound: calls of the control plane
          Overlap       \* may handlers for one identifier overlap?

SpecType == [ports : Seq(Port), volumes : BOOLEAN]

\* The rule of EnsureForwarding and EnsureMasquerade, which goes with no port.
Forward == 0

ASSUME HostAssumption ==
  /\ \A i \in Id : Spec[i] \subseteq SpecType
  /\ NfsSource \subseteq BOOLEAN
  /\ {MaxFailures, MaxRestarts, MaxCalls} \subseteq Nat
  /\ Overlap \in BOOLEAN
  /\ Port \subseteq Nat \ {Forward}
  /\ \A i \in Id : \A s \in Spec[i] : s # None /\ s.ports # None

VARIABLES nfsSource,    \* Agent.nfsSource is set
          ports,        \* Agent.ports: the ports recorded for an identifier, or None
          rules,        \* copies of each ACCEPT rule in the kernel
          mounted,      \* is the share mounted at NFSMountRoot?
          container,    \* [spec, onShare] of the container there is, or None
          call,         \* the handler calls, and the goroutines they leave behind
          refused,      \* identifiers whose last OpenPorts failed
          failures, restarts, calls

hostVars == <<nfsSource, ports, rules, mounted, container, call, refused,
              failures, restarts, calls>>

Elements(list) == {list[i] : i \in DOMAIN list}

Step == {"exists", "insert", "volumes", "start", "stop", "closing", "delete"}

CallType == [id : Id, spec : (UNION {Spec[i] : i \in Id}) \cup {None}, left : Seq(Port),
             step : Step, onShare : BOOLEAN]

ASSUME NoCallAssumption == None \notin CallType

\* Records, rules and containers are of identifiers and ports assigned to them.
HostTypeOK ==
  /\ nfsSource \in BOOLEAN /\ mounted \in BOOLEAN
  /\ \A i \in Id :
       /\ ports[i] = None \/ \E s \in Spec[i] : ports[i] = s.ports
       /\ container[i] = None \/ container[i] \in [spec : Spec[i], onShare : BOOLEAN]
  /\ rules \in [Port \cup {Forward} -> Nat]
  /\ \A c \in Call : call[c] = None \/ call[c] \in CallType
  /\ refused \subseteq Id
  /\ failures \in 0..MaxFailures /\ restarts \in 0..MaxRestarts /\ calls \in 0..MaxCalls

-----------------------------------------------------------------------------
(***************************************************************************)
(* Failures, and the calls under way.                                      *)
(***************************************************************************)

Fails(kind) == kind \in Failure /\ failures < MaxFailures /\ failures' = failures + 1

Works == UNCHANGED failures

\* What is under way for an identifier: handlers, and the starts they left.
UnderWay(i) == {c \in Call : call[c] # None /\ call[c].id = i}

Handling(i) == {c \in UnderWay(i) : call[c].step # "start"}

Arrives(c) == call[c] = None /\ calls < MaxCalls /\ calls' = calls + 1

At(c, step) == call[c] # None /\ call[c].step = step

Goes(c, step) == call' = [call EXCEPT ![c].step = step]

Returns(c) == call' = [call EXCEPT ![c] = None]

\* The loop over the ports goes on with the next one.
NextPort(c, step) == call' = [call EXCEPT ![c].step = step, ![c].left = Tail(@)]

-----------------------------------------------------------------------------
(***************************************************************************)
(* handleAssign.                                                           *)
(***************************************************************************)

\* A faulty version: the first port is left out of the record.
handleAssignButFirst(c, i, s) ==
  /\ Arrives(c)
  /\ Overlap \/ Handling(i) = {}
  /\ ports' = [ports EXCEPT ![i] = Tail(s.ports)]
  /\ call' = [call EXCEPT ![c] = [id |-> i, spec |-> s, left |-> s.ports,
                                  step |-> "exists", onShare |-> FALSE]]
  /\ refused' = refused \ {i}
  /\ UNCHANGED <<nfsSource, rules, mounted, container, failures, restarts>>

\* The assignment arrives and its ports are recorded.
handleAssign(c, i, s) ==
  /\ Arrives(c)
  /\ Overlap \/ Handling(i) = {}
  /\ ports' = [ports EXCEPT ![i] = s.ports]
  /\ call' = [call EXCEPT ![c] = [id |-> i, spec |-> s, left |-> s.ports,
                                  step |-> "exists", onShare |-> FALSE]]
  /\ refused' = refused \ {i}
  /\ UNCHANGED <<nfsSource, rules, mounted, container, failures, restarts>>

\* OpenPorts, OpenPort and ensureRule for the next port: does the rule exist?
\* The first error ends the loop.
ensureRule(c) ==
  /\ At(c, "exists") /\ call[c].left # <<>>
  /\ \/ /\ IF rules[Head(call[c].left)] > 0 THEN NextPort(c, "exists") ELSE Goes(c, "insert")
        /\ Works /\ UNCHANGED refused
     \/ /\ Fails("iptables")
        /\ Goes(c, "volumes") /\ refused' = refused \cup {call[c].id}
  /\ UNCHANGED <<nfsSource, ports, rules, mounted, container, restarts, calls>>

\* ... and if not, Insert.
InsertRule(c) ==
  /\ At(c, "insert")
  /\ \/ /\ rules' = [rules EXCEPT ![Head(call[c].left)] = @ + 1]
        /\ NextPort(c, "exists") /\ Works /\ UNCHANGED refused
     \/ /\ Fails("iptables")
        /\ Goes(c, "volumes") /\ refused' = refused \cup {call[c].id}
        /\ UNCHANGED rules
  /\ UNCHANGED <<nfsSource, ports, mounted, container, restarts, calls>>

PortsOpened(c) ==
  /\ At(c, "exists") /\ call[c].left = <<>>
  /\ Goes(c, "volumes")
  /\ UNCHANGED <<nfsSource, ports, rules, mounted, container, refused, failures, restarts, calls>>

\* resolveVolumes: a workload with volumes is refused if no share is configured,
\* or if EnsureVolumeDir cannot make a directory under NFSMountRoot, which is
\* on the share only if the share is mounted.  Otherwise the start is left to a
\* goroutine, and the call is answered.
resolveVolumes(c) ==
  /\ At(c, "volumes")
  /\ \/ /\ ~call[c].spec.volumes \/ nfsSource
        /\ call' = [call EXCEPT ![c].step = "start", ![c].onShare = mounted]
        /\ Works
     \/ call[c].spec.volumes /\ ~nfsSource /\ Returns(c) /\ Works
     \/ call[c].spec.volumes /\ nfsSource /\ Returns(c) /\ Fails("dir")
  /\ UNCHANGED <<nfsSource, ports, rules, mounted, container, refused, restarts, calls>>

\* The goroutine: an image that cannot be had or a container that cannot be
\* run ends it, and so does one that is already there (ErrAlreadyExists).
StartContainer(c) ==
  /\ At(c, "start")
  /\ Returns(c)
  /\ LET i == call[c].id IN
     \/ /\ container' = [container EXCEPT ![i] =
             IF @ = None THEN [spec |-> call[c].spec, onShare |-> call[c].onShare] ELSE @]
        /\ Works
     \/ Fails("pull") /\ UNCHANGED container
  /\ UNCHANGED <<nfsSource, ports, rules, mounted, refused, restarts, calls>>

\* A container exits.
ContainerExits(i) ==
  /\ container[i] # None
  /\ container' = [container EXCEPT ![i] = None]
  /\ UNCHANGED <<nfsSource, ports, rules, mounted, call, refused, failures, restarts, calls>>

-----------------------------------------------------------------------------
(***************************************************************************)
(* handleUnassign.                                                         *)
(***************************************************************************)

\* The ports to close are those recorded for the identifier, if any.
Recorded(i) == IF ports[i] = None THEN <<>> ELSE ports[i]

\* A faulty version: the record is kept.
handleUnassignKeeps(c, i) ==
  /\ Arrives(c)
  /\ Overlap \/ Handling(i) = {}
  /\ call' = [call EXCEPT ![c] = [id |-> i, spec |-> None, left |-> Recorded(i),
                                  step |-> "stop", onShare |-> FALSE]]
  /\ UNCHANGED <<nfsSource, ports, rules, mounted, container, refused, failures, restarts>>

\* The ports are taken out of the map in one step with the look at it.
handleUnassign(c, i) ==
  /\ Arrives(c)
  /\ Overlap \/ Handling(i) = {}
  /\ call' = [call EXCEPT ![c] = [id |-> i, spec |-> None, left |-> Recorded(i),
                                  step |-> "stop", onShare |-> FALSE]]
  /\ ports' = [ports EXCEPT ![i] = None]
  /\ UNCHANGED <<nfsSource, rules, mounted, container, refused, failures, restarts>>

\* StopContainer: its errors, a process that does not die in ten seconds among
\* them, are logged, and the handler goes on.
StopContainer(c) ==
  /\ At(c, "stop")
  /\ Goes(c, "closing")
  /\ \/ container' = [container EXCEPT ![call[c].id] = None] /\ Works
     \/ Fails("stop") /\ UNCHANGED container
  /\ UNCHANGED <<nfsSource, ports, rules, mounted, refused, restarts, calls>>

\* A faulty version: the first error ends the loop.
ClosePortOrGiveUp(c) ==
  /\ At(c, "closing") /\ call[c].left # <<>>
  /\ \/ /\ IF rules[Head(call[c].left)] > 0 THEN Goes(c, "delete") ELSE NextPort(c, "closing")
        /\ Works
     \/ Fails("iptables") /\ Returns(c)
  /\ UNCHANGED <<nfsSource, ports, rules, mounted, container, refused, restarts, calls>>

\* ClosePorts and ClosePort for the next port: does the rule exist?  An error
\* is logged, and the loop goes on.
ClosePort(c) ==
  /\ At(c, "closing") /\ call[c].left # <<>>
  /\ \/ /\ IF rules[Head(call[c].left)] > 0 THEN Goes(c, "delete") ELSE NextPort(c, "closing")
        /\ Works
     \/ Fails("iptables") /\ NextPort(c, "closing")
  /\ UNCHANGED <<nfsSource, ports, rules, mounted, container, refused, restarts, calls>>

\* ... and if so, Delete, of one copy; of none it is one of those errors.
DeleteRule(c) ==
  /\ At(c, "delete")
  /\ NextPort(c, "closing")
  /\ LET p == Head(call[c].left) IN
     \/ rules' = [rules EXCEPT ![p] = IF @ = 0 THEN 0 ELSE @ - 1] /\ Works
     \/ Fails("iptables") /\ UNCHANGED rules
  /\ UNCHANGED <<nfsSource, ports, mounted, container, refused, restarts, calls>>

PortsClosed(c) ==
  /\ At(c, "closing") /\ call[c].left = <<>>
  /\ Returns(c)
  /\ UNCHANGED <<nfsSource, ports, rules, mounted, container, refused, failures, restarts, calls>>

-----------------------------------------------------------------------------
(***************************************************************************)
(* The agent starts.                                                       *)
(***************************************************************************)

\* EnsureForwarding, EnsureMasquerade: inserted if not there.
EnsureForwarding(there) ==
  [r \in Port \cup {Forward} |-> IF r = Forward /\ there[r] = 0 THEN 1 ELSE there[r]]

\* MountNFS: nothing to do if the share is mounted.
MountNFS(is) == mounted' = (is \/ nfsSource)

HostInit ==
  /\ nfsSource \in NfsSource
  /\ ports = [i \in Id |-> None]
  /\ rules = EnsureForwarding([r \in Port \cup {Forward} |-> 0])
  /\ mounted = nfsSource
  /\ container = [i \in Id |-> None]
  /\ call = [c \in Call |-> None]
  /\ refused = {}
  /\ failures = 0 /\ restarts = 0 /\ calls = 0

\* The agent restarts, alone or with its host, and with it go the handlers and
\* the map; Start ensures the base rules, mounts the share, and clears all
\* containers (CleanupAll).  That one of the first two fails is only logged.
\* Rules and mount are the kernel's, and survive an agent.
Restart(reboot) ==
  /\ restarts < MaxRestarts /\ restarts' = restarts + 1
  /\ ports' = [i \in Id |-> None]
  /\ call' = [c \in Call |-> None]
  /\ container' = [i \in Id |-> None]
  /\ refused' = {}
  /\ LET kept  == IF reboot THEN [r \in DOMAIN rules |-> 0] ELSE rules
         still == mounted /\ ~reboot
     IN  \/ Works /\ rules' = EnsureForwarding(kept) /\ MountNFS(still)
         \/ Fails("iptables") /\ rules' = kept /\ MountNFS(still)
         \/ nfsSource /\ Fails("mount") /\ rules' = EnsureForwarding(kept) /\ mounted' = still
  /\ UNCHANGED <<nfsSource, calls>>

HostNext ==
  \/ \E c \in Call :
       \/ \E i \in Id : handleUnassign(c, i) \/ \E s \in Spec[i] : handleAssign(c, i, s)
       \/ ensureRule(c) \/ InsertRule(c) \/ PortsOpened(c) \/ resolveVolumes(c)
       \/ StartContainer(c)
       \/ StopContainer(c) \/ ClosePort(c) \/ DeleteRule(c) \/ PortsClosed(c)
  \/ \E i \in Id : ContainerExits(i)
  \/ \E reboot \in BOOLEAN : Restart(reboot)

HostSpec == HostInit /\ [][HostNext]_hostVars
-----------------------------------------------------------------------------
(***************************************************************************)
(* Properties.                                                             *)
(***************************************************************************)

\* A container that runs for an assignment is reachable: when no call for its
\* identifier is under way, all the ports recorded for it are open, whatever
\* was assigned, stopped, left unstopped or restarted before, unless an
\* iptables command failed for that very assignment (handleAssign,
\* handleUnassign, OpenPorts).
RunningPortsOpen ==
  \A i \in Id :
    UnderWay(i) = {} /\ container[i] # None /\ ports[i] # None /\ i \notin refused
      => \A p \in Elements(ports[i]) : rules[p] > 0

\* Someone will close the port: it is recorded for an identifier, or in the
\* list of a handler that is closing ports.
Owned(p) ==
  \/ \E i \in Id : p \in Elements(Recorded(i))
  \/ \E c \in Call : call[c] # None /\ call[c].spec = None /\ p \in Elements(call[c].left)

Leaked == {p \in Port : rules[p] > 0 /\ ~Owned(p)}

\* The port an iptables command has just failed for.
FailedFor(p) ==
  /\ failures' # failures
  /\ \E c \in Call : call[c] # None /\ call[c].left # <<>> /\ Head(call[c].left) = p

\* An open port is left behind in three cases only: the agent restarts and
\* forgets it, an assignment with other ports overwrites the record of it, or
\* the command that should have closed that very port fails.  A failure for one
\* port never leaves another one open (ClosePorts).
NoOtherLeak ==
  [][\A p \in Leaked' \ Leaked :
       \/ restarts' # restarts
       \/ \E i \in Id : p \in Elements(Recorded(i)) /\ ports'[i] # None
       \/ FailedFor(p)]_hostVars

\* "all rule insertions are idempotent (checked before adding)": no rule is in
\* the chain twice, so that closing a port once closes it (ensureRule).  Two
\* handlers that overlap break it: each looks before the other inserts
\* (MCAgentHostTwice.cfg).
NoRuleTwice == \A r \in DOMAIN rules : rules[r] <= 1

\* "Returns an error (failing the assign) if the workload declares volumes but
\* this node has no NFS share mounted": a container with volumes has them on
\* the share, and not on the disk of the node it happens to run on
\* (resolveVolumes).
VolumesOnShare ==
  \A i \in Id : container[i] # None /\ container[i].spec.volumes => container[i].onShare
=============================================================================
