---------------------------- MODULE IngressProofs ----------------------------
(***************************************************************************)
(* Runs of smithctl apply over any directories and with any calls failing.  *)
(* With one operator at a time, what is live never refers to something that *)
(* is not, a run that succeeds leaves what it declares, and the rules sent  *)
(* to agents leave out no live ingress.  With any number of operators, the  *)
(* live state changes only in runs whose manifests are all valid, and       *)
(* everything live is named.                                                *)
(***************************************************************************)
EXTENDS Ingress, FiniteSetTheorems, PoolLemmas

\* The names and hosts that a directory declares.
Names(d) == {s.name : s \in DeclaredServices(d)}

Hosts(d) == {in.host : in \in DeclaredIngresses(d)}

LEMMA KeysOf ==
  ASSUME NEW d
  PROVE  /\ desiredKeys(d).workloads = DeclaredWorkloads(d)
         /\ desiredKeys(d).services = Names(d)
         /\ desiredKeys(d).ingresses = Hosts(d)
BY Zenon DEF desiredKeys, Names, Hosts

\* A directory that validates.
Sound(d) == d \subseteq Manifest /\ \A m \in d : Resolves(m)

LEMMA ElementsIn ==
  ASSUME NEW S, NEW list \in Seq(S)
  PROVE  Elements(list) \subseteq S
BY DEF Elements

\* A manifest that resolves names its services, ...
LEMMA ServicesNamed ==
  ASSUME NEW m \in Manifest, Resolves(m)
  PROVE  m.name \in App /\ ServicesOf(m) \subseteq App
<1>1. /\ m.name \in App
      /\ m.service \in ServiceName \cup {NoEntry}
      /\ m.services \in Seq(ServiceName)
  BY Zenon, ManifestAssumption DEF ManifestType
<1>2. Elements(m.services) \subseteq ServiceName
  BY Zenon, <1>1, ElementsIn
<1>3. m.service = NoEntry => Blank \notin Elements(m.services)
  BY Zenon DEF Resolves, ServicesValid
<1> QED
  BY Zenon, <1>1, <1>2, <1>3 DEF ServicesOf, ServiceName

\* ... and its ingresses go to services of its own.
LEMMA IngressesServed ==
  ASSUME NEW m \in Manifest, Resolves(m), NEW in \in IngressesOf(m)
  PROVE  in.host \in Host /\ in.service \in ServicesOf(m)
<1>1. /\ m.ingress \in [host : Host, service : ServiceName] \cup {NoEntry}
      /\ m.ingresses \in Seq([host : Host, service : ServiceName])
  BY Zenon, ManifestAssumption DEF ManifestType
<1>2. Elements(m.ingresses) \subseteq [host : Host, service : ServiceName]
  BY Zenon, <1>1, ElementsIn
<1>3. IngressSpecs(m) \subseteq [host : Host, service : ServiceName]
  BY Zenon, <1>1, <1>2 DEF IngressSpecs
<1>4. PICK spec \in IngressSpecs(m) :
        in = [host |-> spec.host,
              service |-> IF spec.service = Blank THEN CHOOSE s \in ServicesOf(m) : TRUE
                                                  ELSE spec.service]
  BY Zenon DEF IngressesOf
<1>5. CASE spec.service = Blank
  <2>1. Cardinality(ServicesOf(m)) = 1
    BY Zenon, <1>5 DEF Resolves, IngressesValid
  <2>2. ServicesOf(m) # {}
    BY <2>1, FS_EmptySet
  <2> QED
    BY Zenon, <1>3, <1>4, <1>5, <2>2
<1>6. CASE spec.service # Blank
  BY Zenon, <1>3, <1>4, <1>6 DEF Resolves, IngressesValid
<1> QED
  BY Zenon, <1>5, <1>6

\* So every reference in a directory that validates is to something in it.
LEMMA DirectoryCloses ==
  ASSUME NEW d, Sound(d)
  PROVE  /\ DeclaredWorkloads(d) \subseteq App
         /\ \A s \in DeclaredServices(d) : s.name \in App /\ s.workload \in DeclaredWorkloads(d)
         /\ \A in \in DeclaredIngresses(d) : in.host \in Host /\ in.service \in Names(d)
<1>1. \A m \in d : m.name \in App /\ ServicesOf(m) \subseteq App
  BY Zenon, ServicesNamed DEF Sound
<1>2. \A m \in d : \A in \in IngressesOf(m) : in.host \in Host /\ in.service \in ServicesOf(m)
  BY Zenon, IngressesServed DEF Sound
<1>3. \A m \in d : \A s \in ServicesOf(m) :
        /\ [name |-> s, workload |-> m.name] \in DeclaredServices(d)
        /\ s \in Names(d)
  BY DEF DeclaredServices, Names
<1>4. \A s \in DeclaredServices(d) : s.name \in App /\ s.workload \in DeclaredWorkloads(d)
  BY <1>1 DEF DeclaredServices, DeclaredWorkloads
<1>5. \A in \in DeclaredIngresses(d) : in.host \in Host /\ in.service \in Names(d)
  BY Zenon, <1>2, <1>3 DEF DeclaredIngresses
<1> QED
  BY Zenon, <1>1, <1>4, <1>5 DEF DeclaredWorkloads

-----------------------------------------------------------------------------
(***************************************************************************)
(* A run, loop by loop.                                                    *)
(***************************************************************************)

LiveTyped ==
  /\ workloads \subseteq App
  /\ services \in [App -> [workload : App, ip : Address] \cup {NoEntry}]
  /\ ingresses \in [Host -> App \cup {NoEntry}]

Lists == {"list_workloads", "list_services", "list_ingresses"}

Prunes == {"prune_ingresses", "prune_services", "prune_workloads"}

RunTyped ==
  /\ pc \in [Operator -> {"idle", "workloads", "services", "ingresses", "done"}
                            \cup Lists \cup Prunes]
  /\ dir = [o \in Operator |-> dir[o]]
  /\ prune \in [Operator -> BOOLEAN]
  /\ todo = [o \in Operator |-> todo[o]]
  /\ listed \in [Operator -> [workloads : SUBSET App, services : SUBSET App,
                                ingresses : SUBSET Host]]

\* The given services, or ingresses, are live, and as the directory has them.
ServicesSent(d, some) ==
  \A s \in some : /\ services[s.name] # NoEntry
                  /\ services[s.name].workload \in DeclaredWorkloads(d)

IngressesSent(d, some) ==
  \A in \in some : /\ ingresses[in.host] # NoEntry
                   /\ ingresses[in.host] \in Names(d)

\* What the loops of o's run that are over have achieved, and the one that goes
\* on so far: each kind is complete before the next refers to it ...
Applying(o) ==
  LET d == dir[o] IN
  /\ pc[o] # "idle" => Sound(d)
  /\ pc[o] = "workloads" =>
       todo[o] \subseteq DeclaredWorkloads(d) /\ DeclaredWorkloads(d) \ todo[o] \subseteq workloads
  /\ pc[o] \in {"services", "ingresses", "done"} \cup Lists \cup Prunes =>
       DeclaredWorkloads(d) \subseteq workloads
  /\ pc[o] = "services" =>
       todo[o] \subseteq DeclaredServices(d) /\ ServicesSent(d, DeclaredServices(d) \ todo[o])
  /\ pc[o] \in {"ingresses", "done"} \cup Lists \cup Prunes =>
       ServicesSent(d, DeclaredServices(d))
  /\ pc[o] = "ingresses" =>
       todo[o] \subseteq DeclaredIngresses(d) /\ IngressesSent(d, DeclaredIngresses(d) \ todo[o])
  /\ pc[o] \in {"done"} \cup Lists \cup Prunes =>
       IngressesSent(d, DeclaredIngresses(d))

\* The run is over, and pruned.
Pruned(o) == pc[o] = "done" /\ prune[o]

\* ... and is pruned only when nothing undeclared refers to it any more.
Pruning(o) ==
  LET d == dir[o] IN
  /\ pc[o] \in {"list_services", "list_ingresses", "prune_ingresses", "prune_services"} =>
       listed[o].workloads = workloads
  /\ pc[o] \in {"list_ingresses", "prune_ingresses"} => listed[o].services = LiveServices
  /\ pc[o] = "prune_ingresses" =>
       todo[o] \cap Hosts(d) = {} /\ LiveIngresses \subseteq Hosts(d) \cup todo[o]
  /\ pc[o] \in {"prune_services", "prune_workloads"} \/ Pruned(o) => LiveIngresses \subseteq Hosts(d)
  /\ pc[o] = "prune_services" =>
       todo[o] \cap Names(d) = {} /\ LiveServices \subseteq Names(d) \cup todo[o]
  /\ pc[o] = "prune_workloads" \/ Pruned(o) => LiveServices \subseteq Names(d)
  /\ pc[o] = "prune_workloads" =>
       /\ todo[o] \cap DeclaredWorkloads(d) = {}
       /\ workloads \subseteq DeclaredWorkloads(d) \cup todo[o]
  /\ Pruned(o) => workloads \subseteq DeclaredWorkloads(d)

RunSound(o) ==
  /\ LiveTyped /\ RunTyped
  /\ RefsResolve
  /\ Applying(o) /\ Pruning(o)

\* A run that has returned has nothing left to keep.
LEMMA Returned ==
  ASSUME NEW o, Operator = {o}, RunTyped, Return(o), LiveTyped', RefsResolve'
  PROVE  RunSound(o)'
<1>1. RunTyped' /\ pc'[o] = "idle"
  BY Zenon DEF Return, RunTyped, NothingListed
<1> QED
  BY Zenon, <1>1 DEF RunSound, Applying, Pruning, Pruned, Lists, Prunes

\* A run begins with all its workloads to send.
LEMMA Started ==
  ASSUME NEW o, Operator = {o}, RunSound(o), NEW d \in Directory, NEW p \in BOOLEAN,
         StartApply(o, d, p)
  PROVE  RunSound(o)'
<1>1. LiveTyped' /\ RefsResolve' /\ UNCHANGED live
  BY Zenon DEF StartApply, live, RunSound, LiveTyped, RefsResolve, LiveServices, LiveIngresses
<1>2. CASE UNCHANGED run
  BY ZenonT(60), <1>1, <1>2 DEF run, live, RunSound, RunTyped, Applying, Pruning, Pruned,
     ServicesSent,
     IngressesSent, LiveServices, LiveIngresses
<1>3. CASE Begin(o, d, p, DeclaredWorkloads(d)) /\ \A m \in d : Resolves(m)
  <2>1. RunTyped' /\ pc'[o] = "workloads" /\ dir'[o] = d /\ todo'[o] = DeclaredWorkloads(d)
    BY Zenon, <1>3 DEF Begin, RunSound, RunTyped
  <2>2. Sound(d)
    BY Zenon, <1>3, ManifestAssumption DEF Sound
  <2>3. Applying(o)'
    BY Zenon, <2>1, <2>2 DEF Applying, Lists, Prunes
  <2>4. Pruning(o)'
    BY Zenon, <2>1 DEF Pruning, Pruned
  <2> QED
    BY Zenon, <1>1, <2>1, <2>3, <2>4 DEF RunSound
<1> QED
  BY Zenon, <1>2, <1>3 DEF StartApply

\* A call that has come back leaves the run where it was, but for the resource.
LEMMA SentOn ==
  ASSUME NEW o, Operator = {o}, RunTyped, NEW x, Sent(o, x, TRUE)
  PROVE  /\ RunTyped'
         /\ pc' = pc /\ dir' = dir /\ prune' = prune /\ listed' = listed
         /\ todo'[o] = todo[o] \ {x}
BY Zenon DEF Sent, RunTyped

LEMMA SentWorkload ==
  ASSUME NEW o, Operator = {o}, RunSound(o), NEW w, ApplyWorkload(o, w)
  PROVE  RunSound(o)'
<1>1. pc[o] = "workloads" /\ w \in todo[o] /\ services' = services /\ ingresses' = ingresses
  BY Zenon DEF ApplyWorkload, Calls
<1>2. PICK ok, effect \in BOOLEAN :
        /\ ok => effect
        /\ IF effect THEN workloads' = workloads \cup {w} ELSE workloads' = workloads
        /\ Sent(o, w, ok)
  BY Zenon DEF ApplyWorkload, post, addWorkload
<1>3. w \in App /\ workloads \subseteq workloads'
  BY Zenon, <1>1, <1>2, DirectoryCloses DEF RunSound, Applying
<1>4. LiveTyped' /\ RefsResolve'
  BY Zenon, <1>1, <1>2, <1>3 DEF RunSound, LiveTyped, RefsResolve, LiveServices, LiveIngresses
<1>5. CASE ~ok
  BY Zenon, <1>2, <1>4, <1>5, Returned DEF Sent, RunSound
<1>6. CASE ok
  <2>1. /\ RunTyped'
        /\ pc' = pc /\ dir' = dir /\ prune' = prune /\ listed' = listed
        /\ todo'[o] = todo[o] \ {w}
    BY Zenon, <1>2, <1>6, SentOn DEF RunSound
  <2>2. w \in workloads'
    BY Zenon, <1>2, <1>6
  <2>3. Applying(o)'
    BY Zenon, <1>1, <1>3, <2>1, <2>2 DEF RunSound, Applying, Lists, Prunes
  <2>4. Pruning(o)'
    BY Zenon, <1>1, <2>1 DEF Pruning, Pruned
  <2> QED
    BY Zenon, <1>4, <2>1, <2>3, <2>4 DEF RunSound
<1> QED
  BY Zenon, <1>5, <1>6

\* addService keeps the ClusterIP of a service or finds a free one.
LEMMA ServiceAdded ==
  ASSUME LiveTyped, NEW s, s.name \in App, s.workload \in App, addService(s)
  PROVE  /\ services' \in [App -> [workload : App, ip : Address] \cup {NoEntry}]
         /\ services'[s.name] # NoEntry /\ services'[s.name].workload = s.workload
         /\ \A t \in App : t # s.name => services'[t] = services[t]
<1> DEFINE address == IF services[s.name] # NoEntry THEN services[s.name].ip
                      ELSE CHOOSE x \in FreeAddresses : \A y \in FreeAddresses : x <= y
           row == [workload |-> s.workload, ip |-> address]
<1>1. address \in Address
  <2>1. CASE services[s.name] # NoEntry
    BY Zenon, <2>1 DEF LiveTyped
  <2>2. CASE services[s.name] = NoEntry
    <3>1. FreeAddresses # {} /\ FreeAddresses \in SUBSET Nat /\ FreeAddresses \subseteq Address
      BY Zenon, <2>2, ManifestAssumption DEF addService, FreeAddresses
    <3> QED
      BY Zenon, <2>2, <3>1, LowestIsThere
  <2> QED
    BY Zenon, <2>1, <2>2
<1>2. services' = [services EXCEPT ![s.name] = row]
  BY Zenon DEF addService
<1> HIDE DEF address
<1>3. row \in [workload : App, ip : Address] /\ row.workload = s.workload
  BY Zenon, <1>1
<1> HIDE DEF row
<1> QED
  BY Zenon, <1>2, <1>3, ManifestAssumption DEF LiveTyped

LEMMA SentService ==
  ASSUME NEW o, Operator = {o}, RunSound(o), NEW s, ApplyService(o, s)
  PROVE  RunSound(o)'
<1>1. pc[o] = "services" /\ s \in todo[o] /\ workloads' = workloads /\ ingresses' = ingresses
  BY Zenon DEF ApplyService, Calls
<1>2. PICK ok, effect \in BOOLEAN :
        /\ ok => effect
        /\ IF effect THEN addService(s) ELSE services' = services
        /\ Sent(o, s, ok)
  BY Zenon DEF ApplyService, post
<1>3. /\ s.name \in App /\ s.workload \in DeclaredWorkloads(dir[o])
      /\ s.workload \in workloads /\ s.workload \in App
  BY Zenon, <1>1, DirectoryCloses DEF RunSound, Applying
<1>4. effect => /\ services'[s.name] # NoEntry /\ services'[s.name].workload = s.workload
                /\ \A t \in App : t # s.name => services'[t] = services[t]
  BY Zenon, <1>2, <1>3, ServiceAdded DEF RunSound
<1>5. LiveTyped'
  <2>1. services' \in [App -> [workload : App, ip : Address] \cup {NoEntry}]
    BY Zenon, <1>2, <1>3, ServiceAdded DEF RunSound, LiveTyped
  <2> QED
    BY Zenon, <1>1, <2>1 DEF RunSound, LiveTyped
<1>6. RefsResolve'
  BY Zenon, <1>1, <1>2, <1>3, <1>4 DEF RunSound, LiveTyped, RefsResolve, LiveServices, LiveIngresses
<1>7. CASE ~ok
  BY Zenon, <1>2, <1>5, <1>6, <1>7, Returned DEF Sent, RunSound
<1>8. CASE ok
  <2>1. /\ RunTyped'
        /\ pc' = pc /\ dir' = dir /\ prune' = prune /\ listed' = listed
        /\ todo'[o] = todo[o] \ {s}
    BY Zenon, <1>2, <1>8, SentOn DEF RunSound
  <2>2. /\ effect
        /\ \A t \in DeclaredServices(dir[o]) : t.name \in App
    BY Zenon, <1>1, <1>2, <1>8, DirectoryCloses DEF RunSound, Applying
  <2>3. ServicesSent(dir[o], DeclaredServices(dir[o]) \ todo[o])'
    BY Zenon, <1>1, <1>3, <1>4, <2>1, <2>2 DEF RunSound, Applying, ServicesSent
  <2>4. Applying(o)'
    BY Zenon, <1>1, <2>1, <2>3 DEF RunSound, Applying, Lists, Prunes
  <2>5. Pruning(o)'
    BY Zenon, <1>1, <2>1 DEF Pruning, Pruned
  <2> QED
    BY Zenon, <1>5, <1>6, <2>1, <2>4, <2>5 DEF RunSound
<1> QED
  BY Zenon, <1>7, <1>8

\* What is sent, or was, of the services of a directory is live.
LEMMA NamesLive ==
  ASSUME NEW d, Sound(d), ServicesSent(d, DeclaredServices(d))
  PROVE  Names(d) \subseteq LiveServices
BY Zenon, DirectoryCloses DEF Names, ServicesSent, LiveServices

LEMMA SentIngress ==
  ASSUME NEW o, Operator = {o}, RunSound(o), NEW in, ApplyIngress(o, in)
  PROVE  RunSound(o)'
<1>1. pc[o] = "ingresses" /\ in \in todo[o] /\ workloads' = workloads /\ services' = services
  BY Zenon DEF ApplyIngress, Calls
<1>2. PICK ok, effect \in BOOLEAN :
        /\ ok => effect
        /\ IF effect THEN ingresses' = [ingresses EXCEPT ![in.host] = in.service]
                     ELSE ingresses' = ingresses
        /\ Sent(o, in, ok)
  BY Zenon DEF ApplyIngress, post, addIngress
<1>3. /\ in.host \in Host /\ in.service \in Names(dir[o])
      /\ Names(dir[o]) \subseteq LiveServices
      /\ \A jn \in DeclaredIngresses(dir[o]) : jn.host \in Host
  BY Zenon, <1>1, DirectoryCloses, NamesLive DEF RunSound, Applying
<1>4. in.service \in App /\ in.service # NoEntry
  BY Zenon, <1>3, ManifestAssumption DEF LiveServices
<1>5. LiveTyped'
  BY Zenon, <1>1, <1>2, <1>3, <1>4 DEF RunSound, LiveTyped
<1>6. RefsResolve'
  BY Zenon, <1>1, <1>2, <1>3 DEF RunSound, LiveTyped, RefsResolve, LiveServices, LiveIngresses
<1>7. CASE ~ok
  BY Zenon, <1>2, <1>5, <1>6, <1>7, Returned DEF Sent, RunSound
<1>8. CASE ok
  <2>1. /\ RunTyped'
        /\ pc' = pc /\ dir' = dir /\ prune' = prune /\ listed' = listed
        /\ todo'[o] = todo[o] \ {in}
    BY Zenon, <1>2, <1>8, SentOn DEF RunSound
  <2>2. IngressesSent(dir[o], DeclaredIngresses(dir[o]) \ todo[o])'
    BY Zenon, <1>1, <1>2, <1>3, <1>4, <1>8, <2>1 DEF RunSound, LiveTyped, Applying, IngressesSent
  <2>3. Applying(o)'
    BY Zenon, <1>1, <2>1, <2>2 DEF RunSound, Applying, Lists, Prunes, ServicesSent
  <2>4. Pruning(o)'
    BY Zenon, <1>1, <2>1 DEF Pruning, Pruned
  <2> QED
    BY Zenon, <1>5, <1>6, <2>1, <2>3, <2>4 DEF RunSound
<1> QED
  BY Zenon, <1>7, <1>8

LEMMA DeletedIngress ==
  ASSUME NEW o, Operator = {o}, RunSound(o), NEW h, DeleteIngress(o, h)
  PROVE  RunSound(o)'
<1>1. /\ pc[o] = "prune_ingresses" /\ h \in todo[o]
      /\ workloads' = workloads /\ services' = services
  BY Zenon DEF DeleteIngress, Calls
<1>2. PICK ok, effect \in BOOLEAN :
        /\ ok => effect
        /\ IF effect THEN ingresses' = [ingresses EXCEPT ![h] = NoEntry]
                     ELSE ingresses' = ingresses
        /\ Sent(o, h, ok)
  BY Zenon DEF DeleteIngress, del, removeIngress
<1>3. h \notin Hosts(dir[o])
  BY Zenon, <1>1 DEF RunSound, Pruning
<1>4. LiveTyped' /\ RefsResolve'
  BY Zenon, <1>1, <1>2 DEF RunSound, LiveTyped, RefsResolve, LiveServices, LiveIngresses
<1>5. CASE ~ok
  BY Zenon, <1>2, <1>4, <1>5, Returned DEF Sent, RunSound
<1>6. CASE ok
  <2>1. /\ RunTyped'
        /\ pc' = pc /\ dir' = dir /\ prune' = prune /\ listed' = listed
        /\ todo'[o] = todo[o] \ {h}
    BY Zenon, <1>2, <1>6, SentOn DEF RunSound
  <2>2. IngressesSent(dir[o], DeclaredIngresses(dir[o]))'
    <3>1. IngressesSent(dir[o], DeclaredIngresses(dir[o]))
      BY Zenon, <1>1 DEF RunSound, Applying, Prunes
    <3>2. \A in \in DeclaredIngresses(dir[o]) : in.host \in Host /\ in.host # h
      BY Zenon, <1>1, <1>3, DirectoryCloses DEF RunSound, Applying, Hosts
    <3> QED
      BY Zenon, <1>2, <1>6, <2>1, <3>1, <3>2 DEF RunSound, LiveTyped, IngressesSent
  <2>3. Applying(o)'
    BY Zenon, <1>1, <2>1, <2>2 DEF RunSound, Applying, Lists, Prunes, ServicesSent
  <2>4. LiveIngresses' = LiveIngresses \ {h}
    BY Zenon, <1>2, <1>6 DEF RunSound, LiveTyped, LiveIngresses
  <2>5. Pruning(o)'
    BY Zenon, <1>1, <2>1, <2>4 DEF RunSound, Pruning, Pruned, LiveServices
  <2> QED
    BY Zenon, <1>4, <2>1, <2>3, <2>5 DEF RunSound
<1> QED
  BY Zenon, <1>5, <1>6

\* Every live ingress is declared by now, and so is the service it goes to.
LEMMA DeletedService ==
  ASSUME NEW o, Operator = {o}, RunSound(o), NEW s, DeleteService(o, s)
  PROVE  RunSound(o)'
<1>1. /\ pc[o] = "prune_services" /\ s \in todo[o]
      /\ workloads' = workloads /\ ingresses' = ingresses
  BY Zenon DEF DeleteService, Calls
<1>2. PICK ok, effect \in BOOLEAN :
        /\ ok => effect
        /\ IF effect THEN services' = [services EXCEPT ![s] = NoEntry]
                     ELSE services' = services
        /\ Sent(o, s, ok)
  BY Zenon DEF DeleteService, del, removeService
<1>3. s \notin Names(dir[o])
  BY Zenon, <1>1 DEF RunSound, Pruning
<1>4. \A h \in LiveIngresses : ingresses[h] \in LiveServices /\ ingresses[h] # s
  <2>1. LiveIngresses \subseteq Hosts(dir[o]) /\ IngressesSent(dir[o], DeclaredIngresses(dir[o]))
    BY Zenon, <1>1 DEF RunSound, Applying, Pruning, Prunes
  <2> QED
    BY Zenon, <1>3, <2>1 DEF RunSound, RefsResolve, Hosts, IngressesSent
<1>5. LiveTyped' /\ RefsResolve'
  BY Zenon, <1>1, <1>2, <1>4 DEF RunSound, LiveTyped, RefsResolve, LiveServices, LiveIngresses
<1>6. CASE ~ok
  BY Zenon, <1>2, <1>5, <1>6, Returned DEF Sent, RunSound
<1>7. CASE ok
  <2>1. /\ RunTyped'
        /\ pc' = pc /\ dir' = dir /\ prune' = prune /\ listed' = listed
        /\ todo'[o] = todo[o] \ {s}
    BY Zenon, <1>2, <1>7, SentOn DEF RunSound
  <2>2. ServicesSent(dir[o], DeclaredServices(dir[o]))'
    <3>1. ServicesSent(dir[o], DeclaredServices(dir[o]))
      BY Zenon, <1>1 DEF RunSound, Applying, Prunes
    <3>2. \A t \in DeclaredServices(dir[o]) : t.name \in App /\ t.name # s
      BY Zenon, <1>1, <1>3, DirectoryCloses DEF RunSound, Applying, Names
    <3> QED
      BY Zenon, <1>2, <1>7, <2>1, <3>1, <3>2 DEF RunSound, LiveTyped, ServicesSent
  <2>3. Applying(o)'
    BY Zenon, <1>1, <2>1, <2>2 DEF RunSound, Applying, Lists, Prunes, IngressesSent
  <2>4. LiveServices' = LiveServices \ {s}
    BY Zenon, <1>2, <1>7 DEF RunSound, LiveTyped, LiveServices
  <2>5. Pruning(o)'
    BY Zenon, <1>1, <2>1, <2>4 DEF RunSound, Pruning, Pruned, LiveIngresses
  <2> QED
    BY Zenon, <1>5, <2>1, <2>3, <2>5 DEF RunSound
<1> QED
  BY Zenon, <1>6, <1>7

\* And every live service is declared, and so is its workload.
LEMMA DeletedWorkload ==
  ASSUME NEW o, Operator = {o}, RunSound(o), NEW w, DeleteWorkload(o, w)
  PROVE  RunSound(o)'
<1>1. /\ pc[o] = "prune_workloads" /\ w \in todo[o]
      /\ services' = services /\ ingresses' = ingresses
  BY Zenon DEF DeleteWorkload, Calls
<1>2. PICK ok, effect \in BOOLEAN :
        /\ ok => effect
        /\ IF effect THEN workloads' = workloads \ {w} ELSE workloads' = workloads
        /\ Sent(o, w, ok)
  BY Zenon DEF DeleteWorkload, del, removeWorkload
<1>3. w \notin DeclaredWorkloads(dir[o])
  BY Zenon, <1>1 DEF RunSound, Pruning
<1>4. \A s \in LiveServices : services[s].workload \in workloads /\ services[s].workload # w
  <2>1. LiveServices \subseteq Names(dir[o]) /\ ServicesSent(dir[o], DeclaredServices(dir[o]))
    BY Zenon, <1>1 DEF RunSound, Applying, Pruning, Prunes
  <2> QED
    BY Zenon, <1>3, <2>1 DEF RunSound, RefsResolve, Names, ServicesSent
<1>5. LiveTyped' /\ RefsResolve'
  BY SMTT(30), <1>1, <1>2, <1>4 DEF RunSound, LiveTyped, RefsResolve, LiveServices, LiveIngresses
<1>6. CASE ~ok
  BY Zenon, <1>2, <1>5, <1>6, Returned DEF Sent, RunSound
<1>7. CASE ok
  <2>1. /\ RunTyped'
        /\ pc' = pc /\ dir' = dir /\ prune' = prune /\ listed' = listed
        /\ todo'[o] = todo[o] \ {w} /\ workloads' = workloads \ {w}
    BY Zenon, <1>2, <1>7, SentOn DEF RunSound
  <2>2. Applying(o)'
    BY Zenon, <1>1, <1>3, <2>1 DEF RunSound, Applying, Lists, Prunes, ServicesSent, IngressesSent
  <2>3. Pruning(o)'
    BY Zenon, <1>1, <2>1 DEF RunSound, Pruning, Pruned, LiveServices, LiveIngresses
  <2> QED
    BY Zenon, <1>5, <2>1, <2>2, <2>3 DEF RunSound
<1> QED
  BY Zenon, <1>6, <1>7

\* What a loop leaves when it is over is what the next one starts from.
LEMMA LoopOver ==
  ASSUME NEW o, Operator = {o}, RunSound(o), NextLoop(o)
  PROVE  RunSound(o)'
<1>1. /\ workloads' = workloads /\ services' = services /\ ingresses' = ingresses
      /\ dir' = dir /\ prune' = prune /\ listed' = listed /\ todo[o] = {}
  BY Zenon DEF NextLoop, Loop, live
<1>2. LiveTyped' /\ RefsResolve' /\ LiveServices' = LiveServices /\ LiveIngresses' = LiveIngresses
  BY Zenon, <1>1 DEF RunSound, LiveTyped, RefsResolve, LiveServices, LiveIngresses
<1>3. RunTyped'
  BY Zenon DEF NextLoop, Loop, RunSound, RunTyped, Lists, Prunes
<1>4. /\ Drift(o, "services") = listed[o].services \ Names(dir[o])
      /\ Drift(o, "workloads") = listed[o].workloads \ DeclaredWorkloads(dir[o])
  BY Zenon, KeysOf DEF Drift
<1>5. CASE Loop(o, "workloads", "services", DeclaredServices(dir[o]))
  <2>1. pc[o] = "workloads" /\ pc'[o] = "services" /\ todo'[o] = DeclaredServices(dir[o])
    BY Zenon, <1>5 DEF Loop, RunSound, RunTyped
  <2> QED
    BY Zenon, <1>1, <1>2, <1>3, <2>1 DEF RunSound, Applying, Pruning, Pruned, Lists, Prunes,
       ServicesSent
<1>6. CASE Loop(o, "services", "ingresses", DeclaredIngresses(dir[o]))
  <2>1. pc[o] = "services" /\ pc'[o] = "ingresses" /\ todo'[o] = DeclaredIngresses(dir[o])
    BY Zenon, <1>6 DEF Loop, RunSound, RunTyped
  <2> QED
    BY Zenon, <1>1, <1>2, <1>3, <2>1
       DEF RunSound, Applying, Pruning, Pruned, Lists, Prunes, ServicesSent, IngressesSent
<1>7. CASE Loop(o, "ingresses", IF prune[o] THEN "list_workloads" ELSE "done", {})
  <2>1. pc[o] = "ingresses" /\ pc'[o] = IF prune[o] THEN "list_workloads" ELSE "done"
    BY Zenon, <1>7 DEF Loop, RunSound, RunTyped
  <2>2. Applying(o)'
    BY Zenon, <1>1, <2>1 DEF RunSound, Applying, Lists, Prunes, ServicesSent, IngressesSent
  <2>3. Pruning(o)'
    BY Zenon, <1>1, <2>1 DEF Pruning, Pruned
  <2> QED
    BY Zenon, <1>2, <1>3, <2>2, <2>3 DEF RunSound
<1>8. CASE Loop(o, "prune_ingresses", "prune_services", Drift(o, "services"))
  <2>1. pc[o] = "prune_ingresses" /\ pc'[o] = "prune_services" /\ todo'[o] = Drift(o, "services")
    BY Zenon, <1>8 DEF Loop, RunSound, RunTyped
  <2>2. Applying(o)'
    BY Zenon, <1>1, <2>1 DEF RunSound, Applying, Lists, Prunes, ServicesSent, IngressesSent
  <2>3. Pruning(o)'
    BY ZenonT(60), <1>1, <1>2, <1>4, <2>1 DEF RunSound, Pruning, Pruned
  <2> QED
    BY Zenon, <1>2, <1>3, <2>2, <2>3 DEF RunSound
<1>9. CASE Loop(o, "prune_services", "prune_workloads", Drift(o, "workloads"))
  <2>1. /\ pc[o] = "prune_services" /\ pc'[o] = "prune_workloads"
        /\ todo'[o] = Drift(o, "workloads")
    BY Zenon, <1>9 DEF Loop, RunSound, RunTyped
  <2>2. Applying(o)'
    BY Zenon, <1>1, <2>1 DEF RunSound, Applying, Lists, Prunes, ServicesSent, IngressesSent
  <2>3. Pruning(o)'
    BY ZenonT(60), <1>1, <1>2, <1>4, <2>1 DEF RunSound, Pruning, Pruned
  <2> QED
    BY Zenon, <1>2, <1>3, <2>2, <2>3 DEF RunSound
<1>10. CASE Loop(o, "prune_workloads", "done", {})
  <2>1. pc[o] = "prune_workloads" /\ pc'[o] = "done"
    BY Zenon, <1>10 DEF Loop, RunSound, RunTyped
  <2>2. Applying(o)'
    BY Zenon, <1>1, <2>1 DEF RunSound, Applying, Lists, Prunes, ServicesSent, IngressesSent
  <2>3. Pruning(o)'
    BY Zenon, <1>1, <1>2, <2>1 DEF RunSound, Pruning, Pruned
  <2> QED
    BY Zenon, <1>2, <1>3, <2>2, <2>3 DEF RunSound
<1> QED
  BY Zenon, <1>5, <1>6, <1>7, <1>8, <1>9, <1>10 DEF NextLoop

\* The lists are what is live, since nobody else changes it before the
\* deletions begin.
LEMMA Listed ==
  ASSUME NEW o, Operator = {o}, RunSound(o), prunePlan(o)
  PROVE  RunSound(o)'
<1>1. workloads' = workloads /\ services' = services /\ ingresses' = ingresses
  BY Zenon DEF prunePlan, List, live
<1>2. LiveTyped' /\ RefsResolve' /\ LiveServices' = LiveServices /\ LiveIngresses' = LiveIngresses
  BY Zenon, <1>1 DEF RunSound, LiveTyped, RefsResolve, LiveServices, LiveIngresses
<1>3. CASE Return(o)
  BY Zenon, <1>2, <1>3, Returned DEF RunSound
<1>4. ASSUME NEW from, NEW to, NEW kind, NEW keys, List(o, from, to, kind, keys), ~Return(o),
             <<from, to, kind, keys>> \in
               {<<"list_workloads", "list_services", "workloads", workloads>>,
                <<"list_services", "list_ingresses", "services", LiveServices>>,
                <<"list_ingresses", "prune_ingresses", "ingresses", LiveIngresses>>}
      PROVE  RunSound(o)'
  <2>1. /\ pc[o] = from /\ pc' = [pc EXCEPT ![o] = to] /\ dir' = dir /\ prune' = prune
        /\ listed' = [listed EXCEPT ![o][kind] = keys]
        /\ todo' = [todo EXCEPT ![o] =
             IF kind = "ingresses" THEN keys \ desiredKeys(dir[o]).ingresses ELSE {}]
    BY Zenon, <1>4 DEF List
  <2>2. workloads \subseteq App /\ LiveServices \subseteq App /\ LiveIngresses \subseteq Host
    BY Zenon DEF RunSound, LiveTyped, LiveServices, LiveIngresses
  <2>3. RunTyped'
    <3>1. [listed[o] EXCEPT ![kind] = keys] \in
            [workloads : SUBSET App, services : SUBSET App, ingresses : SUBSET Host]
      BY ZenonT(60), <1>4, <2>2 DEF RunSound, RunTyped
    <3>2. listed' \in [Operator -> [workloads : SUBSET App, services : SUBSET App,
                                     ingresses : SUBSET Host]]
      BY Zenon, <2>1, <3>1 DEF RunSound, RunTyped
    <3>3. todo' = [q \in Operator |-> todo'[q]] /\ dir' = [q \in Operator |-> dir'[q]]
      BY Zenon, <2>1 DEF RunSound, RunTyped
    <3>4. to \in {"list_services", "list_ingresses", "prune_ingresses"}
      BY Zenon, <1>4
    <3>5. pc' \in [Operator -> {"idle", "workloads", "services", "ingresses", "done"}
                                 \cup Lists \cup Prunes]
      BY Zenon, <2>1, <3>4 DEF RunSound, RunTyped, Lists, Prunes
    <3> QED
      BY Zenon, <2>1, <3>2, <3>3, <3>5 DEF RunSound, RunTyped
  <2>4. pc'[o] = to
    BY Zenon, <2>1 DEF RunSound, RunTyped
  <2>5. Applying(o)'
    BY Zenon, <1>1, <1>4, <2>1, <2>4 DEF RunSound, Applying, Lists, Prunes, ServicesSent,
       IngressesSent
  <2>6. Pruning(o)'
    BY SMTT(30), <1>1, <1>2, <1>4, <2>1, <2>4, KeysOf DEF RunSound, RunTyped, Pruning, Pruned
  <2> QED
    BY Zenon, <1>2, <2>3, <2>5, <2>6 DEF RunSound
<1> QED
  BY Zenon, <1>3, <1>4 DEF prunePlan

LEMMA ApplyStep ==
  ASSUME NEW o, Operator = {o}, RunSound(o), [ApplyNext]_applyVars
  PROVE  RunSound(o)'
<1>1. CASE UNCHANGED applyVars
  BY ZenonT(60), <1>1 DEF applyVars, live, run, RunSound, LiveTyped, RunTyped, RefsResolve,
     Applying, Pruning,
     Pruned, ServicesSent, IngressesSent, LiveServices, LiveIngresses
<1>2. ASSUME NEW d \in Directory, NEW p \in BOOLEAN, StartApply(o, d, p)
      PROVE  RunSound(o)'
  BY Zenon, <1>2, Started
<1>3. ASSUME NEW x \in todo[o],
             \/ ApplyWorkload(o, x) \/ ApplyService(o, x) \/ ApplyIngress(o, x)
             \/ DeleteIngress(o, x) \/ DeleteService(o, x) \/ DeleteWorkload(o, x)
      PROVE  RunSound(o)'
  BY Zenon, <1>3, SentWorkload, SentService, SentIngress, DeletedIngress, DeletedService,
     DeletedWorkload
<1>4. CASE NextLoop(o)
  BY Zenon, <1>4, LoopOver
<1>5. CASE prunePlan(o)
  BY Zenon, <1>5, Listed
<1>6. CASE Finish(o)
  <2>1. LiveTyped' /\ RefsResolve'
    BY Zenon, <1>6 DEF Finish, live, RunSound, LiveTyped, RefsResolve, LiveServices, LiveIngresses
  <2> QED
    BY Zenon, <1>6, <2>1, Returned DEF Finish, RunSound
<1> QED
  BY Zenon, <1>1, <1>2, <1>3, <1>4, <1>5, <1>6 DEF ApplyNext

-----------------------------------------------------------------------------
(***************************************************************************)
(* The theorems.                                                           *)
(***************************************************************************)

LEMMA RunAlwaysSound ==
  ASSUME NEW o, Operator = {o}
  PROVE  IngressSpec => []RunSound(o)
<1>1. IngressInit => RunSound(o)
  <2> SUFFICES ASSUME IngressInit
               PROVE  RunSound(o)
    OBVIOUS
  <2>1. /\ workloads = {}
        /\ services = [s \in App |-> NoEntry]
        /\ ingresses = [h \in Host |-> NoEntry]
        /\ pc[o] = "idle"
    BY Zenon DEF IngressInit, ApplyInit
  <2>2. LiveTyped
    BY Zenon, <2>1 DEF LiveTyped
  <2>3. RunTyped
    BY Zenon DEF IngressInit, ApplyInit, RunTyped, NothingListed
  <2>4. RefsResolve
    BY Zenon, <2>1 DEF RefsResolve, LiveServices, LiveIngresses
  <2>5. Applying(o)
    BY Zenon, <2>1 DEF Applying, Lists, Prunes
  <2>6. Pruning(o)
    BY Zenon, <2>1 DEF Pruning, Pruned
  <2> QED
    BY Zenon, <2>2, <2>3, <2>4, <2>5, <2>6 DEF RunSound
<1>2. RunSound(o) /\ [IngressNext]_ingressVars => RunSound(o)'
  <2>1. [IngressNext]_ingressVars => [ApplyNext]_applyVars
    BY Zenon DEF IngressNext, ingressVars, nodeIngresses, nodeIngressesServices, FetchFails,
       setRules,
       startIngress
  <2> QED
    BY Zenon, <2>1, ApplyStep
<1> QED
  BY <1>1, <1>2, PTL DEF IngressSpec

\* With one operator, no reference that is live ever dangles, whatever
\* directories are applied and whichever calls fail: Apply sends workloads,
\* services, ingresses in this order, and pruneDrift deletes in the opposite.
THEOREM RefsAlwaysResolve ==
  ASSUME NEW o, Operator = {o}
  PROVE  IngressSpec => []RefsResolve
<1>1. RunSound(o) => RefsResolve
  BY Zenon DEF RunSound
<1> QED
  BY <1>1, RunAlwaysSound, PTL

\* With one operator, a run of Apply that succeeds has made everything it
\* declares live, and one that pruned leaves nothing else.
THEOREM SuccessIsExact ==
  ASSUME NEW o, Operator = {o}
  PROVE  IngressSpec => []AppliedExactly
<1>1. RunSound(o) => AppliedExactly
  <2> SUFFICES ASSUME RunSound(o), pc[o] = "done"
               PROVE  /\ DeclaredWorkloads(dir[o]) \subseteq workloads
                      /\ Names(dir[o]) \subseteq LiveServices
                      /\ Hosts(dir[o]) \subseteq LiveIngresses
                      /\ prune[o] => /\ workloads \subseteq DeclaredWorkloads(dir[o])
                                     /\ LiveServices \subseteq Names(dir[o])
                                     /\ LiveIngresses \subseteq Hosts(dir[o])
    <3> DEFINE now == [workloads |-> workloads, services |-> LiveServices,
                       ingresses |-> LiveIngresses]
               keys == desiredKeys(dir[o])
    <3>1. DOMAIN keys = {"workloads", "services", "ingresses"}
      BY Zenon DEF desiredKeys
    <3>2. /\ now.workloads = workloads /\ now.services = LiveServices
          /\ now.ingresses = LiveIngresses
      BY Zenon
    <3>3. /\ keys.workloads = DeclaredWorkloads(dir[o]) /\ keys.services = Names(dir[o])
          /\ keys.ingresses = Hosts(dir[o])
      BY Zenon, KeysOf
    <3>4. ASSUME \A kind \in {"workloads", "services", "ingresses"} :
                   keys[kind] \subseteq now[kind] /\ (prune[o] => now[kind] = keys[kind])
          PROVE  pc[o] = "done" => AppliedExactly
      BY ZenonT(60), <3>1, <3>4 DEF AppliedExactly
    <3> HIDE DEF now, keys
    <3>5. pc[o] # "done" => AppliedExactly
      BY Zenon DEF AppliedExactly
    <3> QED
      BY SMTT(30), <3>2, <3>3, <3>4, <3>5
  <2>1. Sound(dir[o]) /\ ServicesSent(dir[o], DeclaredServices(dir[o]))
    BY Zenon DEF RunSound, Applying
  <2>2. Hosts(dir[o]) \subseteq LiveIngresses
    BY Zenon, <2>1, DirectoryCloses DEF RunSound, Applying, Hosts, IngressesSent, LiveIngresses
  <2>3. DeclaredWorkloads(dir[o]) \subseteq workloads
    BY Zenon DEF RunSound, Applying
  <2> QED
    BY Zenon, <2>1, <2>2, <2>3, NamesLive DEF RunSound, Pruning, Pruned
<1> QED
  BY <1>1, RunAlwaysSound, PTL

\* There is a table for every agent.
Tables ==
  ruleList = [g \in Agent |-> ruleList[g]]

\* With one operator, computeIngressRules leaves out no ingress that was live at
\* both of its reads.
THEOREM NoneSkipped ==
  ASSUME NEW o, Operator = {o}
  PROVE  IngressSpec => NoLiveIngressSkipped
<1> DEFINE Kept(g, h) ==
      /\ ingList[g] # NoEntry /\ ruleList'[g] # NoEntry /\ ruleList[g] = NoEntry
      /\ ingresses[h] # NoEntry /\ ingList[g][h] = ingresses[h]
      => ruleList'[g][h] # NoEntry
<1>1. IngressInit => Tables
  BY Zenon DEF IngressInit, Tables
<1>2. Tables /\ [IngressNext]_ingressVars => Tables'
  BY Zenon DEF Tables, IngressNext, ingressVars, proxyVars, nodeIngresses, nodeIngressesServices,
     FetchFails, setRules, startIngress
<1>3. RunSound(o) /\ Tables /\ [IngressNext]_ingressVars =>
        [\A g \in Agent, h \in Host : Kept(g, h)]_ingressVars
  <2> SUFFICES ASSUME RunSound(o), Tables, IngressNext, NEW g \in Agent, NEW h \in Host,
                      ingList[g] # NoEntry, ruleList'[g] # NoEntry, ruleList[g] = NoEntry,
                      ingresses[h] # NoEntry, ingList[g][h] = ingresses[h]
               PROVE  ruleList'[g][h] # NoEntry
    BY Zenon
  <2>1. nodeIngressesServices(g)
    BY Zenon DEF Tables, IngressNext, proxyVars, nodeIngresses, nodeIngressesServices, FetchFails,
       setRules, startIngress
  <2>2. ingresses[h] \in LiveServices
    BY Zenon DEF RunSound, RefsResolve, LiveIngresses
  <2>3. services[ingresses[h]].ip # NoEntry
    BY Zenon, <2>2, ManifestAssumption DEF RunSound, LiveTyped, LiveServices
  <2> QED
    BY Zenon, <2>1, <2>2, <2>3 DEF nodeIngressesServices, computeIngressRules, Tables
<1> QED
  BY <1>1, <1>2, <1>3, RunAlwaysSound, PTL DEF IngressSpec, NoLiveIngressSkipped

\* Whoever applies a directory has validated it: this needs no assumption on the
\* number of operators.
Validated ==
  /\ pc = [o \in Operator |-> pc[o]] /\ dir = [o \in Operator |-> dir[o]]
  /\ todo = [o \in Operator |-> todo[o]]
  /\ \A o \in Operator : pc[o] # "idle" => dir[o] # {} /\ \A m \in dir[o] : Resolves(m)

LEMMA ReturnedValidated ==
  ASSUME Validated, NEW o \in Operator, Return(o)
  PROVE  Validated'
BY Zenon DEF Validated, Return

LEMMA SentValidated ==
  ASSUME Validated, NEW o \in Operator, NEW x \in todo[o], NEW ok \in BOOLEAN, Sent(o, x, ok)
  PROVE  Validated' /\ todo'[o] # todo[o]
<1>1. CASE ok
  BY Zenon, <1>1 DEF Validated, Sent
<1>2. CASE ~ok
  BY Zenon, <1>2, ReturnedValidated DEF Validated, Sent, Return
<1> QED
  BY Zenon, <1>1, <1>2

\* A step that changes what is live is a call of a run that is under way.
LEMMA CallValidated ==
  ASSUME Validated, NEW o \in Operator, NEW x \in todo[o],
         \/ ApplyWorkload(o, x) \/ ApplyService(o, x) \/ ApplyIngress(o, x)
         \/ DeleteIngress(o, x) \/ DeleteService(o, x) \/ DeleteWorkload(o, x)
  PROVE  /\ Validated' /\ todo'[o] # todo[o]
         /\ dir[o] # {} /\ \A m \in dir[o] : Resolves(m)
<1>1. \E ok \in BOOLEAN : Sent(o, x, ok)
  BY Zenon DEF ApplyWorkload, ApplyService, ApplyIngress, DeleteIngress, DeleteService,
     DeleteWorkload
<1>2. pc[o] # "idle"
  BY Zenon DEF ApplyWorkload, ApplyService, ApplyIngress, DeleteIngress, DeleteService,
     DeleteWorkload,
     Calls
<1> QED
  BY ZenonT(60), <1>1, <1>2, SentValidated DEF Validated

\* Any number of operators apply any directories: the live state changes only in
\* a run all of whose manifests Apply has found valid.
THEOREM AlwaysAllOrNothing == IngressSpec => AllOrNothing
<1> DEFINE OfAValidRun ==
      live' # live =>
        \E o \in Operator : todo'[o] # todo[o] /\ dir[o] # {} /\ \A m \in dir[o] : Resolves(m)
<1>1. IngressInit => Validated
  BY ZenonT(60) DEF IngressInit, ApplyInit, Validated
<1>2. ASSUME Validated, ApplyNext
      PROVE  Validated' /\ OfAValidRun
  <2>1. PICK o \in Operator :
          \/ \E d \in Directory, p \in BOOLEAN : StartApply(o, d, p)
          \/ \E x \in todo[o] :
               \/ ApplyWorkload(o, x) \/ ApplyService(o, x) \/ ApplyIngress(o, x)
               \/ DeleteIngress(o, x) \/ DeleteService(o, x) \/ DeleteWorkload(o, x)
          \/ NextLoop(o) \/ prunePlan(o) \/ Finish(o)
    BY Zenon, <1>2 DEF ApplyNext
  <2>2. ASSUME NEW d \in Directory, NEW p \in BOOLEAN, StartApply(o, d, p)
        PROVE  Validated' /\ OfAValidRun
    BY Zenon, <1>2, <2>2 DEF StartApply, Begin, run, Validated
  <2>3. ASSUME NEW x \in todo[o],
               \/ ApplyWorkload(o, x) \/ ApplyService(o, x) \/ ApplyIngress(o, x)
               \/ DeleteIngress(o, x) \/ DeleteService(o, x) \/ DeleteWorkload(o, x)
        PROVE  Validated' /\ OfAValidRun
    BY Zenon, <1>2, <2>3, CallValidated
  <2>4. CASE NextLoop(o)
    BY Zenon, <1>2, <2>4 DEF NextLoop, Loop, Validated
  <2>5. CASE prunePlan(o)
    BY Zenon, <1>2, <2>5, ReturnedValidated DEF prunePlan, List, Validated
  <2>6. CASE Finish(o)
    BY Zenon, <1>2, <2>6, ReturnedValidated DEF Finish
  <2> QED
    BY Zenon, <2>1, <2>2, <2>3, <2>4, <2>5, <2>6
<1>3. [IngressNext]_ingressVars => ApplyNext \/ UNCHANGED applyVars
  BY Zenon DEF IngressNext, ingressVars, nodeIngresses, nodeIngressesServices, FetchFails, setRules,
     startIngress
<1>4. Validated /\ [IngressNext]_ingressVars => Validated'
  <2>1. UNCHANGED applyVars /\ Validated => Validated'
    BY Zenon DEF applyVars, run, Validated
  <2> QED
    BY Zenon, <1>2, <1>3, <2>1
<1>5. Validated /\ [IngressNext]_ingressVars => [OfAValidRun]_applyVars
  BY Zenon, <1>2, <1>3
<1> QED
  BY <1>1, <1>4, <1>5, PTL DEF IngressSpec, AllOrNothing

-----------------------------------------------------------------------------
(***************************************************************************)
(* Types, for any number of operators.                                     *)
(***************************************************************************)

PCs == {"idle", "workloads", "services", "ingresses", "done"} \cup Lists \cup Prunes

Keys == [workloads : SUBSET App, services : SUBSET App, ingresses : SUBSET Host]

\* A run applies a directory that validates, and so what it sends is named.
TodoNamed(o) ==
  /\ pc[o] # "idle" => Sound(dir[o])
  /\ pc[o] \in {"workloads", "prune_services", "prune_workloads"} => todo[o] \subseteq App
  /\ pc[o] = "services" => \A s \in todo[o] : s.name \in App /\ s.workload \in App
  /\ pc[o] = "ingresses" => \A in \in todo[o] : in.host \in Host /\ in.service \in App
  /\ pc[o] = "prune_ingresses" => todo[o] \subseteq Host

RunsNamed ==
  /\ pc \in [Operator -> PCs]
  /\ dir \in [Operator -> Directory \cup {{}}]
  /\ prune \in [Operator -> BOOLEAN]
  /\ todo = [o \in Operator |-> todo[o]]
  /\ listed \in [Operator -> Keys]
  /\ \A o \in Operator : TodoNamed(o)

\* A run goes on, and the others are where they were.
LEMMA RunGoesOn ==
  ASSUME RunsNamed, NEW o \in Operator, NEW to \in PCs, NEW d \in Directory \cup {{}},
         NEW p \in BOOLEAN, NEW over, NEW keys \in Keys,
         pc' = [pc EXCEPT ![o] = to], dir' = [dir EXCEPT ![o] = d],
         prune' = [prune EXCEPT ![o] = p], todo' = [todo EXCEPT ![o] = over],
         listed' = [listed EXCEPT ![o] = keys],
         to # "idle" => Sound(d),
         to \in {"workloads", "prune_services", "prune_workloads"} => over \subseteq App,
         to = "services" => \A s \in over : s.name \in App /\ s.workload \in App,
         to = "ingresses" => \A in \in over : in.host \in Host /\ in.service \in App,
         to = "prune_ingresses" => over \subseteq Host
  PROVE  RunsNamed'
<1>1. /\ pc' \in [Operator -> PCs] /\ dir' \in [Operator -> Directory \cup {{}}]
      /\ prune' \in [Operator -> BOOLEAN] /\ listed' \in [Operator -> Keys]
      /\ todo' = [q \in Operator |-> todo'[q]]
  BY Zenon DEF RunsNamed
<1>2. /\ pc'[o] = to /\ dir'[o] = d /\ todo'[o] = over
      /\ \A q \in Operator \ {o} : pc'[q] = pc[q] /\ dir'[q] = dir[q] /\ todo'[q] = todo[q]
  BY Zenon DEF RunsNamed
<1>3. TodoNamed(o)'
  BY Zenon, <1>2 DEF TodoNamed
<1>4. ASSUME NEW q \in Operator \ {o} PROVE TodoNamed(q)'
  BY Zenon, <1>2, <1>4 DEF RunsNamed, TodoNamed
<1> QED
  BY Zenon, <1>1, <1>3, <1>4 DEF RunsNamed

LEMMA RunReturns ==
  ASSUME RunsNamed, NEW o \in Operator, Return(o)
  PROVE  RunsNamed'
<1>1. NothingListed \in Keys
  BY Zenon DEF NothingListed, Keys
<1>2. "idle" \in PCs
  BY Zenon DEF PCs
<1> QED
  BY Zenon, <1>1, <1>2, RunGoesOn DEF Return

LEMMA RunSends ==
  ASSUME RunsNamed, NEW o \in Operator, NEW x \in todo[o], NEW ok \in BOOLEAN, Sent(o, x, ok)
  PROVE  RunsNamed'
<1>1. CASE ok
  <2>1. /\ todo' = [todo EXCEPT ![o] = todo[o] \ {x}]
        /\ UNCHANGED <<pc, dir, prune, listed>>
    BY Zenon, <1>1 DEF Sent, RunsNamed
  <2>2. /\ todo' = [q \in Operator |-> todo'[q]]
        /\ \A q \in Operator : todo'[q] \subseteq todo[q]
    BY Zenon, <2>1 DEF RunsNamed
  <2>3. \A q \in Operator : TodoNamed(q)'
    BY Zenon, <2>1, <2>2 DEF RunsNamed, TodoNamed
  <2> QED
    BY Zenon, <2>1, <2>2, <2>3 DEF RunsNamed
<1>2. CASE ~ok
  BY Zenon, <1>2, RunReturns DEF Sent
<1> QED
  BY Zenon, <1>1, <1>2

\* What a directory that validates declares is named.
LEMMA DeclaredNamed ==
  ASSUME NEW d, Sound(d)
  PROVE  /\ DeclaredWorkloads(d) \subseteq App
         /\ \A s \in DeclaredServices(d) : s.name \in App /\ s.workload \in App
         /\ \A in \in DeclaredIngresses(d) : in.host \in Host /\ in.service \in App
<1>1. Names(d) \subseteq App
  BY Zenon, DirectoryCloses DEF Names
<1> QED
  BY Zenon, <1>1, DirectoryCloses

LEMMA RunStarts ==
  ASSUME RunsNamed, NEW o \in Operator, NEW d \in Directory, NEW p \in BOOLEAN,
         StartApply(o, d, p)
  PROVE  RunsNamed'
<1>1. CASE /\ d # {} /\ \A m \in d : Resolves(m)
           /\ Begin(o, d, p, DeclaredWorkloads(d))
  <2>1. Sound(d)
    BY Zenon, <1>1, ManifestAssumption DEF Sound
  <2>2. listed' = [listed EXCEPT ![o] = listed[o]] /\ listed[o] \in Keys
    BY Zenon, <1>1 DEF Begin, RunsNamed
  <2>3. /\ pc' = [pc EXCEPT ![o] = "workloads"] /\ dir' = [dir EXCEPT ![o] = d]
        /\ prune' = [prune EXCEPT ![o] = p]
        /\ todo' = [todo EXCEPT ![o] = DeclaredWorkloads(d)]
    BY Zenon, <1>1 DEF Begin
  <2>4. "workloads" \in PCs
    BY Zenon DEF PCs
  <2> QED
    BY Zenon, <2>1, <2>2, <2>3, <2>4, RunGoesOn, DeclaredNamed
<1>2. CASE UNCHANGED run
  BY Zenon, <1>2 DEF run, RunsNamed, TodoNamed
<1> QED
  BY Zenon, <1>1, <1>2 DEF StartApply

\* From loop to loop.
LEMMA RunLoops ==
  ASSUME RunsNamed, NEW o \in Operator, NEW from, NEW to \in PCs, NEW over,
         Loop(o, from, to, over), from # "idle",
         to \in {"workloads", "prune_services", "prune_workloads"} => over \subseteq App,
         to = "services" => \A s \in over : s.name \in App /\ s.workload \in App,
         to = "ingresses" => \A in \in over : in.host \in Host /\ in.service \in App,
         to # "prune_ingresses"
  PROVE  RunsNamed'
<1>1. /\ Sound(dir[o]) /\ dir[o] \in Directory \cup {{}}
      /\ prune[o] \in BOOLEAN /\ listed[o] \in Keys
  BY Zenon DEF Loop, RunsNamed, TodoNamed
<1>2. /\ pc' = [pc EXCEPT ![o] = to] /\ todo' = [todo EXCEPT ![o] = over]
      /\ dir' = [dir EXCEPT ![o] = dir[o]] /\ prune' = [prune EXCEPT ![o] = prune[o]]
      /\ listed' = [listed EXCEPT ![o] = listed[o]]
  BY Zenon DEF Loop, RunsNamed
<1> QED
  BY Zenon, <1>1, <1>2, RunGoesOn

LEMMA RunNextLoop ==
  ASSUME RunsNamed, NEW o \in Operator, NextLoop(o)
  PROVE  RunsNamed'
<1>1. pc[o] # "idle"
  BY Zenon DEF NextLoop, Loop
<1>2. /\ DeclaredWorkloads(dir[o]) \subseteq App
      /\ \A s \in DeclaredServices(dir[o]) : s.name \in App /\ s.workload \in App
      /\ \A in \in DeclaredIngresses(dir[o]) : in.host \in Host /\ in.service \in App
  BY Zenon, <1>1, DeclaredNamed DEF RunsNamed, TodoNamed
<1>3. Drift(o, "services") \subseteq App /\ Drift(o, "workloads") \subseteq App
  BY Zenon DEF Drift, RunsNamed, Keys
<1>4. {"services", "ingresses", "list_workloads", "done", "prune_services", "prune_workloads"}
        \subseteq PCs
  BY Zenon DEF PCs, Lists, Prunes
<1>5. CASE \/ Loop(o, "workloads", "services", DeclaredServices(dir[o]))
           \/ Loop(o, "services", "ingresses", DeclaredIngresses(dir[o]))
  BY Zenon, <1>2, <1>4, <1>5, RunLoops
<1>6. CASE Loop(o, "ingresses", IF prune[o] THEN "list_workloads" ELSE "done", {})
  <2>1. (IF prune[o] THEN "list_workloads" ELSE "done") \in {"list_workloads", "done"}
    BY Zenon
  <2> QED
    BY Zenon, <1>4, <1>6, <2>1, RunLoops
<1>7. CASE \/ Loop(o, "prune_ingresses", "prune_services", Drift(o, "services"))
           \/ Loop(o, "prune_services", "prune_workloads", Drift(o, "workloads"))
           \/ Loop(o, "prune_workloads", "done", {})
  BY Zenon, <1>3, <1>4, <1>7, RunLoops
<1> QED
  BY Zenon, <1>5, <1>6, <1>7 DEF NextLoop

\* prunePlan lists names that are live.
LEMMA RunListsOne ==
  ASSUME RunsNamed, NEW o \in Operator, NEW from, from # "idle",
         NEW to \in {"list_services", "list_ingresses", "prune_ingresses"},
         NEW kind \in {"workloads", "services", "ingresses"}, NEW keys,
         List(o, from, to, kind, keys),
         kind \in {"workloads", "services"} => keys \subseteq App,
         kind = "ingresses" => keys \subseteq Host,
         to = "prune_ingresses" => kind = "ingresses"
  PROVE  RunsNamed'
<1>1. CASE Return(o)
  BY Zenon, <1>1, RunReturns
<1>2. CASE ~Return(o)
  <2> DEFINE now == [listed[o] EXCEPT ![kind] = keys]
             over == IF kind = "ingresses" THEN keys \ desiredKeys(dir[o]).ingresses ELSE {}
  <2>1. /\ Sound(dir[o]) /\ dir[o] \in Directory \cup {{}}
        /\ prune[o] \in BOOLEAN /\ listed[o] \in Keys
    BY Zenon DEF List, RunsNamed, TodoNamed
  <2>2. now \in Keys
    BY Zenon, <2>1 DEF Keys
  <2>3. over \subseteq keys
    BY Zenon
  <2>4. /\ pc' = [pc EXCEPT ![o] = to] /\ todo' = [todo EXCEPT ![o] = over]
        /\ dir' = [dir EXCEPT ![o] = dir[o]] /\ prune' = [prune EXCEPT ![o] = prune[o]]
        /\ listed' = [listed EXCEPT ![o] = now]
    BY Zenon, <1>2 DEF List, RunsNamed
  <2>5. to \in PCs
    BY Zenon DEF PCs, Lists, Prunes
  <2> HIDE DEF now, over
  <2> QED
    BY Zenon, <2>1, <2>2, <2>3, <2>4, <2>5, RunGoesOn
<1> QED
  BY Zenon, <1>1, <1>2

LEMMA RunLists ==
  ASSUME RunsNamed, LiveTyped, NEW o \in Operator, prunePlan(o)
  PROVE  RunsNamed'
<1>1. workloads \subseteq App /\ LiveServices \subseteq App /\ LiveIngresses \subseteq Host
  BY Zenon DEF LiveTyped, LiveServices, LiveIngresses
<1> QED
  BY Zenon, <1>1, RunListsOne DEF prunePlan

\* One call leaves what is live well typed.
LEMMA CallTyped ==
  ASSUME RunsNamed, LiveTyped, NEW o \in Operator, NEW x \in todo[o],
         \/ ApplyWorkload(o, x) \/ ApplyService(o, x) \/ ApplyIngress(o, x)
         \/ DeleteIngress(o, x) \/ DeleteService(o, x) \/ DeleteWorkload(o, x)
  PROVE  RunsNamed' /\ LiveTyped' /\ applies' = applies
<1>1. \E ok \in BOOLEAN : Sent(o, x, ok)
  BY Zenon DEF ApplyWorkload, ApplyService, ApplyIngress, DeleteIngress, DeleteService,
     DeleteWorkload
<1>2. RunsNamed'
  BY Zenon, <1>1, RunSends
<1>3. UNCHANGED live => LiveTyped'
  BY Zenon DEF live, LiveTyped
<1>4. ASSUME ApplyWorkload(o, x) \/ DeleteWorkload(o, x)
      PROVE  LiveTyped'
  <2>1. x \in App
    BY Zenon, <1>4 DEF ApplyWorkload, DeleteWorkload, Calls, RunsNamed, TodoNamed
  <2> QED
    BY Zenon, <1>3, <1>4, <2>1 DEF ApplyWorkload, DeleteWorkload, addWorkload, removeWorkload,
       live, LiveTyped
<1>5. ASSUME ApplyService(o, x)
      PROVE  LiveTyped'
  <2>1. x.name \in App /\ x.workload \in App
    BY Zenon, <1>5 DEF ApplyService, Calls, RunsNamed, TodoNamed
  <2>2. /\ UNCHANGED <<workloads, ingresses>>
        /\ addService(x) \/ UNCHANGED services
    BY Zenon, <1>5 DEF ApplyService
  <2>3. services' \in [App -> [workload : App, ip : Address] \cup {NoEntry}]
    BY Zenon, <2>1, <2>2, ServiceAdded DEF LiveTyped
  <2> QED
    BY Zenon, <2>2, <2>3 DEF LiveTyped
<1>6. ASSUME ApplyIngress(o, x)
      PROVE  LiveTyped'
  <2>1. x.host \in Host /\ x.service \in App
    BY Zenon, <1>6 DEF ApplyIngress, Calls, RunsNamed, TodoNamed
  <2> QED
    BY Zenon, <1>3, <1>6, <2>1 DEF ApplyIngress, addIngress, live, LiveTyped
<1>7. ASSUME DeleteIngress(o, x) \/ DeleteService(o, x)
      PROVE  LiveTyped'
  BY Zenon, <1>3, <1>7 DEF DeleteIngress, DeleteService, removeIngress, removeService, live,
     LiveTyped
<1>8. applies' = applies
  BY Zenon DEF ApplyWorkload, ApplyService, ApplyIngress, DeleteIngress, DeleteService,
     DeleteWorkload
<1> QED
  BY Zenon, <1>2, <1>4, <1>5, <1>6, <1>7, <1>8

ApplyTyped == RunsNamed /\ LiveTyped /\ applies \in 0..MaxApplies

LEMMA ApplyTypedStep ==
  ASSUME ApplyTyped, [ApplyNext]_applyVars
  PROVE  ApplyTyped'
<1>1. UNCHANGED live => LiveTyped'
  BY Zenon DEF ApplyTyped, live, LiveTyped
<1>2. CASE UNCHANGED applyVars
  BY Zenon, <1>1, <1>2 DEF ApplyTyped, applyVars, run, RunsNamed, TodoNamed
<1>3. ASSUME NEW o \in Operator, NEW d \in Directory, NEW p \in BOOLEAN, StartApply(o, d, p)
      PROVE  ApplyTyped'
  <2>1. applies' \in 0..MaxApplies
    BY <1>3, ManifestAssumption DEF StartApply, ApplyTyped
  <2> QED
    BY Zenon, <1>1, <1>3, <2>1, RunStarts DEF StartApply, ApplyTyped
<1>4. ASSUME NEW o \in Operator, NEW x \in todo[o],
             \/ ApplyWorkload(o, x) \/ ApplyService(o, x) \/ ApplyIngress(o, x)
             \/ DeleteIngress(o, x) \/ DeleteService(o, x) \/ DeleteWorkload(o, x)
      PROVE  ApplyTyped'
  BY Zenon, <1>4, CallTyped DEF ApplyTyped
<1>5. ASSUME NEW o \in Operator, NextLoop(o)
      PROVE  ApplyTyped'
  BY Zenon, <1>1, <1>5, RunNextLoop DEF ApplyTyped, NextLoop, Loop
<1>6. ASSUME NEW o \in Operator, prunePlan(o)
      PROVE  ApplyTyped'
  BY Zenon, <1>1, <1>6, RunLists DEF ApplyTyped, prunePlan, List
<1>7. ASSUME NEW o \in Operator, Finish(o)
      PROVE  ApplyTyped'
  BY Zenon, <1>1, <1>7, RunReturns DEF ApplyTyped, Finish
<1> QED
  BY Zenon, <1>2, <1>3, <1>4, <1>5, <1>6, <1>7 DEF ApplyNext

\* What is on its way to an agent, and what its proxy has.
ProxiesTyped ==
  /\ ingList \in [Agent -> [Host -> App \cup {NoEntry}] \cup {NoEntry}]
  /\ ruleList \in [Agent -> Rules \cup {NoEntry}]
  /\ proxy \in [Agent -> BOOLEAN]
  /\ routes \in [Agent -> Rules]
  /\ restarts \in 0..MaxRestarts

LEMMA ProxiesTypedStep ==
  ASSUME LiveTyped, ProxiesTyped, [IngressNext]_ingressVars
  PROVE  ProxiesTyped'
<1> USE DEF ProxiesTyped
<1>1. UNCHANGED proxyVars => ProxiesTyped'
  BY Zenon DEF proxyVars
<1>2. ASSUME NEW g \in Agent, nodeIngresses(g)
      PROVE  ProxiesTyped'
  BY Zenon, <1>2 DEF nodeIngresses, LiveTyped
<1>3. ASSUME NEW g \in Agent, nodeIngressesServices(g)
      PROVE  ProxiesTyped'
  <2>1. \A s \in LiveServices : services[s].ip \in Address
    BY Zenon DEF LiveTyped, LiveServices
  <2>2. computeIngressRules(ingList[g]) \in Rules
    BY Zenon, <2>1 DEF computeIngressRules, Rules
  <2> QED
    BY Zenon, <1>3, <2>2 DEF nodeIngressesServices
<1>4. ASSUME NEW g \in Agent, FetchFails(g)
      PROVE  ProxiesTyped'
  BY Zenon, <1>4 DEF FetchFails
<1>5. ASSUME NEW g \in Agent, setRules(g)
      PROVE  ProxiesTyped'
  BY Zenon, <1>5 DEF setRules
<1>6. ASSUME NEW g \in Agent, startIngress(g)
      PROVE  ProxiesTyped'
  <2>1. restarts' \in 0..MaxRestarts
    BY <1>6, IngressAssumption DEF startIngress
  <2>2. NoRules \in Rules
    BY Zenon DEF NoRules, Rules
  <2> QED
    BY Zenon, <1>6, <2>1, <2>2 DEF startIngress
<1> QED
  BY Zenon, <1>1, <1>2, <1>3, <1>4, <1>5, <1>6 DEF IngressNext, ingressVars

\* Any number of operators and agents: what apply makes live is named, and the
\* tables of the proxies map hosts to ClusterIPs, although a manifest may leave
\* names out (resolveServices, resolveIngresses, computeIngressRules).
THEOREM IngressTyped == IngressSpec => []IngressTypeOK
<1>1. IngressInit => ApplyTyped /\ ProxiesTyped
  <2> SUFFICES ASSUME IngressInit PROVE ApplyTyped /\ ProxiesTyped
    OBVIOUS
  <2>1. applies \in 0..MaxApplies /\ restarts \in 0..MaxRestarts
    BY ManifestAssumption, IngressAssumption DEF IngressInit, ApplyInit
  <2>2. LiveTyped
    BY Zenon DEF IngressInit, ApplyInit, LiveTyped
  <2>3. RunsNamed
    BY Zenon DEF IngressInit, ApplyInit, RunsNamed, TodoNamed, PCs, Keys, NothingListed
  <2>4. ProxiesTyped
    BY Zenon, <2>1 DEF IngressInit, ProxiesTyped, NoRules, Rules
  <2> QED
    BY Zenon, <2>1, <2>2, <2>3, <2>4 DEF ApplyTyped
<1>2. [IngressNext]_ingressVars => [ApplyNext]_applyVars
  BY Zenon DEF IngressNext, ingressVars, nodeIngresses, nodeIngressesServices, FetchFails,
     setRules, startIngress
<1>3. ApplyTyped /\ ProxiesTyped /\ [IngressNext]_ingressVars => (ApplyTyped /\ ProxiesTyped)'
  BY Zenon, <1>2, ApplyTypedStep, ProxiesTypedStep DEF ApplyTyped
<1>4. ApplyTyped /\ ProxiesTyped => IngressTypeOK
  BY Zenon DEF ApplyTyped, RunsNamed, LiveTyped, ProxiesTyped, ApplyTypeOK, IngressTypeOK, PCs,
     Lists, Prunes, Keys
<1> QED
  BY <1>1, <1>3, <1>4, PTL DEF IngressSpec
=============================================================================
