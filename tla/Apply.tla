------------------------------- MODULE Apply -------------------------------
(***************************************************************************)
(* smithctl apply: a directory of manifests is resolved                     *)
(* (internal/manifest/resolve.go), validated as a whole, and sent to the    *)
(* control plane one resource at a time, workloads, then services, then     *)
(* ingresses; with prune, what is live and not declared is then deleted in  *)
(* the opposite order (internal/apply/apply.go).  Any call may fail, and    *)
(* may have taken effect when it does; the run then ends with an error, and *)
(* the next one finds what it left.                                         *)
(*                                                                         *)
(* Of a manifest the model keeps its names and references.  Everything else *)
(* that is validated (image, counts, volumes, name syntax, ports, protocol) *)
(* is the field "valid", and a secret overlay that does not decrypt is a    *)
(* manifest that is not valid.  Resources of one kind are sent in any order.*)
(***************************************************************************)
EXTENDS Naturals, Sequences, FiniteSets

CONSTANTS App,          \* names of apps, and so of workloads and services
          Host,         \* ingress hosts
          Blank,        \* a name left out of a manifest
          NoEntry,      \* a field that is not set, a key that is not live
          Manifest,     \* the manifests that may be written
          Directory,    \* the directories that may be applied: sets of manifests
          Operator,     \* those who run smithctl apply, one run each at a time
          Address,      \* the ClusterIPs there are, as numbers
          MaxApplies    \* bound: runs of smithctl apply

ServiceName == App \cup {Blank}

\* A manifest sets a field for one service or a list, and so for ingresses.
ManifestType ==
  [name : App, valid : BOOLEAN,
   service : ServiceName \cup {NoEntry}, services : Seq(ServiceName),
   ingress : [host : Host, service : ServiceName] \cup {NoEntry},
   ingresses : Seq([host : Host, service : ServiceName])]

ASSUME ManifestAssumption ==
  /\ Manifest \subseteq ManifestType
  /\ Directory \subseteq SUBSET Manifest
  /\ Address \subseteq Nat
  /\ MaxApplies \in Nat
  /\ NoEntry \notin App /\ Blank \notin App /\ NoEntry # Blank
  /\ NoEntry \notin Address /\ NoEntry \notin [workload : App, ip : Address]

VARIABLES workloads,    \* live workloads
          services,     \* live services: name -> [workload, ip], or NoEntry
          ingresses,    \* live ingresses: host -> service, or NoEntry
          pc,           \* where an operator's run of apply is
          dir,          \* the directory it applies
          prune,        \* --prune
          todo,         \* resources of the current kind still to be sent
          listed,       \* the live keys of each kind, when they were listed
          applies

run == <<pc, dir, prune, todo, listed>>
live == <<workloads, services, ingresses>>
applyVars == <<live, run, applies>>

-----------------------------------------------------------------------------
(***************************************************************************)
(* manifest.Resolve.                                                       *)
(***************************************************************************)

\* The elements of a list.
Elements(list) == {list[i] : i \in DOMAIN list}

\* resolveServices: the names of the services, a single one named after the
\* app if it has no name.
ServicesOf(m) ==
  IF m.service # NoEntry
    THEN {IF m.service = Blank THEN m.name ELSE m.service}
    ELSE Elements(m.services)

\* In a list every service has a name, and no name is there twice.
ServicesValid(m) ==
  m.service = NoEntry =>
    /\ Blank \notin Elements(m.services)
    /\ Cardinality(Elements(m.services)) = Len(m.services)

IngressSpecs(m) ==
  IF m.ingress # NoEntry THEN {m.ingress} ELSE Elements(m.ingresses)

\* resolveIngresses: an ingress names a service of the same app, or leaves the
\* choice to an app that has just one.
IngressesValid(m) ==
  \A in \in IngressSpecs(m) :
    IF in.service = Blank THEN Cardinality(ServicesOf(m)) = 1
                          ELSE in.service \in ServicesOf(m)

IngressesOf(m) ==
  {[host |-> in.host,
    service |-> IF in.service = Blank THEN CHOOSE s \in ServicesOf(m) : TRUE
                                      ELSE in.service] : in \in IngressSpecs(m)}

\* App.Resolve and mergeOverlay succeed.
Resolves(m) ==
  /\ m.valid
  /\ m.service # NoEntry => m.services = <<>>
  /\ m.ingress # NoEntry => m.ingresses = <<>>
  /\ ServicesValid(m)
  /\ IngressesValid(m)

-----------------------------------------------------------------------------
(***************************************************************************)
(* What a directory declares, and what is live.                            *)
(***************************************************************************)

\* The resources that apply sends for a directory, kind by kind.
DeclaredWorkloads(d) == {m.name : m \in d}

DeclaredServices(d) == UNION {{[name |-> s, workload |-> m.name] : s \in ServicesOf(m)} : m \in d}

DeclaredIngresses(d) == UNION {IngressesOf(m) : m \in d}

\* desiredKeys: the keys alone.
desiredKeys(d) ==
  [workloads |-> DeclaredWorkloads(d),
   services  |-> {s.name : s \in DeclaredServices(d)},
   ingresses |-> {in.host : in \in DeclaredIngresses(d)}]

\* liveKeys, one list call per kind.
LiveServices == {s \in App : services[s] # NoEntry}

LiveIngresses == {h \in Host : ingresses[h] # NoEntry}

NothingListed == [workloads |-> {}, services |-> {}, ingresses |-> {}]

\* What apply has made live is named: no resource gets there under a name the
\* manifest left out (resolveServices).
ApplyTypeOK ==
  /\ workloads \subseteq App
  /\ services \in [App -> [workload : App, ip : Address] \cup {NoEntry}]
  /\ ingresses \in [Host -> App \cup {NoEntry}]
  /\ pc \in [Operator -> {"idle", "workloads", "services", "ingresses",
                          "list_workloads", "list_services", "list_ingresses",
                          "prune_ingresses", "prune_services", "prune_workloads", "done"}]
  /\ dir \in [Operator -> Directory \cup {{}}]
  /\ prune \in [Operator -> BOOLEAN]
  /\ listed \in [Operator -> [workloads : SUBSET App, services : SUBSET App,
                              ingresses : SUBSET Host]]
  /\ applies \in 0..MaxApplies

ApplyInit ==
  /\ workloads = {}
  /\ services = [s \in App |-> NoEntry]
  /\ ingresses = [h \in Host |-> NoEntry]
  /\ pc = [o \in Operator |-> "idle"]
  /\ dir = [o \in Operator |-> {}]
  /\ prune = [o \in Operator |-> FALSE]
  /\ todo = [o \in Operator |-> {}]
  /\ listed = [o \in Operator |-> NothingListed]
  /\ applies = 0

-----------------------------------------------------------------------------
(***************************************************************************)
(* The handlers of the control plane that a run calls, and the client.     *)
(***************************************************************************)

\* Client.post, Client.del: a call that comes back without an error has done
\* its work; one that fails (no answer, a status that is not 2xx) may have.
post(ok, effect) == ok => effect

del(ok, effect) == ok => effect

addWorkload(w) == workloads' = workloads \cup {w}

removeWorkload(w) == workloads' = workloads \ {w}

\* The ClusterIPs no live service has.
FreeAddresses == Address \ {services[s].ip : s \in LiveServices}

\* addService: a service keeps its ClusterIP, a new one gets the lowest that is
\* free; without one the call fails.
addService(s) ==
  /\ services[s.name] # NoEntry \/ FreeAddresses # {}
  /\ services' = [services EXCEPT ![s.name] =
       [workload |-> s.workload,
        ip |-> IF @ # NoEntry THEN @.ip
               ELSE CHOOSE x \in FreeAddresses : \A y \in FreeAddresses : x <= y]]

removeService(s) == services' = [services EXCEPT ![s] = NoEntry]

\* addIngress and removeIngress: of one host, whether or not there is such a
\* service.
addIngress(in) == ingresses' = [ingresses EXCEPT ![in.host] = in.service]

removeIngress(h) == ingresses' = [ingresses EXCEPT ![h] = NoEntry]

-----------------------------------------------------------------------------
(***************************************************************************)
(* A run of apply.                                                         *)
(***************************************************************************)

\* The run ends, with or without an error; nothing of it is kept.
Return(o) ==
  /\ pc' = [pc EXCEPT ![o] = "idle"]
  /\ dir' = [dir EXCEPT ![o] = {}]
  /\ prune' = [prune EXCEPT ![o] = FALSE]
  /\ todo' = [todo EXCEPT ![o] = {}]
  /\ listed' = [listed EXCEPT ![o] = NothingListed]

\* A run begins, with the given workloads to send.
Begin(o, d, p, over) ==
  /\ pc' = [pc EXCEPT ![o] = "workloads"]
  /\ dir' = [dir EXCEPT ![o] = d]
  /\ prune' = [prune EXCEPT ![o] = p]
  /\ todo' = [todo EXCEPT ![o] = over]
  /\ UNCHANGED listed

\* A faulty version: the manifests that resolve are applied.
StartApplyPartly(o, d, p) ==
  /\ pc[o] = "idle"
  /\ applies < MaxApplies
  /\ applies' = applies + 1
  /\ Begin(o, d, p, DeclaredWorkloads({m \in d : Resolves(m)}))
  /\ UNCHANGED live

\* Apply loads and validates the whole directory before it sends anything.
StartApply(o, d, p) ==
  /\ pc[o] = "idle"
  /\ applies < MaxApplies
  /\ applies' = applies + 1
  /\ IF d # {} /\ \A m \in d : Resolves(m)
       THEN Begin(o, d, p, DeclaredWorkloads(d))
       ELSE UNCHANGED run
  /\ UNCHANGED live

\* A faulty version: errors are passed over.
SentAnyway(o, x, ok) ==
  todo' = [todo EXCEPT ![o] = @ \ {x}] /\ UNCHANGED <<pc, dir, prune, listed>>

\* A call for x comes back, and the loop goes on, or it ends the run.
Sent(o, x, ok) ==
  IF ok THEN todo' = [todo EXCEPT ![o] = @ \ {x}] /\ UNCHANGED <<pc, dir, prune, listed>>
        ELSE Return(o)

\* The next loop, over the given resources.
Loop(o, from, to, over) ==
  /\ pc[o] = from
  /\ todo[o] = {}
  /\ pc' = [pc EXCEPT ![o] = to]
  /\ todo' = [todo EXCEPT ![o] = over]
  /\ UNCHANGED <<live, dir, prune, listed, applies>>

\* A loop is at the call for x.
Calls(o, loop, x) == pc[o] = loop /\ x \in todo[o]

\* One call: it succeeds, or fails with or without its effect.
ApplyWorkload(o, w) ==
  /\ Calls(o, "workloads", w)
  /\ \E ok, effect \in BOOLEAN :
       /\ post(ok, effect)
       /\ IF effect THEN addWorkload(w) ELSE UNCHANGED workloads
       /\ Sent(o, w, ok)
  /\ UNCHANGED <<services, ingresses, applies>>

ApplyService(o, s) ==
  /\ Calls(o, "services", s)
  /\ \E ok, effect \in BOOLEAN :
       /\ post(ok, effect)
       /\ IF effect THEN addService(s) ELSE UNCHANGED services
       /\ Sent(o, s, ok)
  /\ UNCHANGED <<workloads, ingresses, applies>>

ApplyIngress(o, in) ==
  /\ Calls(o, "ingresses", in)
  /\ \E ok, effect \in BOOLEAN :
       /\ post(ok, effect)
       /\ IF effect THEN addIngress(in) ELSE UNCHANGED ingresses
       /\ Sent(o, in, ok)
  /\ UNCHANGED <<workloads, services, applies>>

\* What is live, was listed, and is not declared (delta).
Drift(o, kind) == listed[o][kind] \ desiredKeys(dir[o])[kind]

\* A faulty version: workloads are deleted before services.
NextLoopWorkloadsFirst(o) ==
  \/ Loop(o, "workloads", "services", DeclaredServices(dir[o]))
  \/ Loop(o, "services", "ingresses", DeclaredIngresses(dir[o]))
  \/ Loop(o, "ingresses", IF prune[o] THEN "list_workloads" ELSE "done", {})
  \/ Loop(o, "prune_ingresses", "prune_workloads", Drift(o, "workloads"))
  \/ Loop(o, "prune_workloads", "prune_services", Drift(o, "services"))
  \/ Loop(o, "prune_services", "done", {})

\* From loop to loop; a run without --prune is over after the ingresses.
NextLoop(o) ==
  \/ Loop(o, "workloads", "services", DeclaredServices(dir[o]))
  \/ Loop(o, "services", "ingresses", DeclaredIngresses(dir[o]))
  \/ Loop(o, "ingresses", IF prune[o] THEN "list_workloads" ELSE "done", {})
  \/ Loop(o, "prune_ingresses", "prune_services", Drift(o, "services"))
  \/ Loop(o, "prune_services", "prune_workloads", Drift(o, "workloads"))
  \/ Loop(o, "prune_workloads", "done", {})

\* prunePlan: the three lists, any of which may fail (Client.get).
List(o, from, to, kind, keys) ==
  /\ pc[o] = from
  /\ \/ /\ pc' = [pc EXCEPT ![o] = to]
        /\ listed' = [listed EXCEPT ![o][kind] = keys]
        /\ todo' = [todo EXCEPT ![o] =
             IF kind = "ingresses" THEN keys \ desiredKeys(dir[o]).ingresses ELSE {}]
        /\ UNCHANGED <<dir, prune>>
     \/ Return(o)
  /\ UNCHANGED <<live, applies>>

prunePlan(o) ==
  \/ List(o, "list_workloads", "list_services", "workloads", workloads)
  \/ List(o, "list_services", "list_ingresses", "services", LiveServices)
  \/ List(o, "list_ingresses", "prune_ingresses", "ingresses", LiveIngresses)

\* pruneDrift: the deletions.
DeleteIngress(o, h) ==
  /\ Calls(o, "prune_ingresses", h)
  /\ \E ok, effect \in BOOLEAN :
       /\ del(ok, effect)
       /\ IF effect THEN removeIngress(h) ELSE UNCHANGED ingresses
       /\ Sent(o, h, ok)
  /\ UNCHANGED <<workloads, services, applies>>

DeleteService(o, s) ==
  /\ Calls(o, "prune_services", s)
  /\ \E ok, effect \in BOOLEAN :
       /\ del(ok, effect)
       /\ IF effect THEN removeService(s) ELSE UNCHANGED services
       /\ Sent(o, s, ok)
  /\ UNCHANGED <<workloads, ingresses, applies>>

DeleteWorkload(o, w) ==
  /\ Calls(o, "prune_workloads", w)
  /\ \E ok, effect \in BOOLEAN :
       /\ del(ok, effect)
       /\ IF effect THEN removeWorkload(w) ELSE UNCHANGED workloads
       /\ Sent(o, w, ok)
  /\ UNCHANGED <<services, ingresses, applies>>

Finish(o) == pc[o] = "done" /\ Return(o) /\ UNCHANGED <<live, applies>>

ApplyNext ==
  \E o \in Operator :
    \/ \E d \in Directory, p \in BOOLEAN : StartApply(o, d, p)
    \/ \E x \in todo[o] :
         \/ ApplyWorkload(o, x) \/ ApplyService(o, x) \/ ApplyIngress(o, x)
         \/ DeleteIngress(o, x) \/ DeleteService(o, x) \/ DeleteWorkload(o, x)
    \/ NextLoop(o)
    \/ prunePlan(o)
    \/ Finish(o)

-----------------------------------------------------------------------------
(***************************************************************************)
(* Properties.                                                             *)
(***************************************************************************)

\* Whatever calls fail, and whichever directories were applied before, what is
\* live never refers to something that is not: no ingress without its service,
\* no service without its workload.  This is what the order of the loops, and
\* the opposite order of the deletions, is for.
RefsResolve ==
  /\ \A h \in LiveIngresses : ingresses[h] \in LiveServices
  /\ \A s \in LiveServices : services[s].workload \in workloads

\* A run that succeeds has made everything it declares live, and with --prune
\* nothing else, whatever earlier failed runs left behind.
AppliedExactly ==
  \A o \in Operator : pc[o] = "done" =>
    LET keys == desiredKeys(dir[o])
        now  == [workloads |-> workloads, services |-> LiveServices,
                 ingresses |-> LiveIngresses]
    IN  \A kind \in DOMAIN keys :
          /\ keys[kind] \subseteq now[kind]
          /\ prune[o] => now[kind] = keys[kind]

\* "Validation is all-or-nothing: if any manifest is invalid or any overlay
\* fails to decrypt, nothing is applied": the live state changes only in a run
\* all of whose manifests are valid.
AllOrNothing ==
  [][live' # live =>
       \E o \in Operator : todo'[o] # todo[o] /\ dir[o] # {} /\ \A m \in dir[o] : Resolves(m)]_applyVars
=============================================================================
