---------------------------- MODULE Certificates ----------------------------
(***************************************************************************)
(* The certificates of the cluster and the files they are kept in.          *)
(*                                                                         *)
(* smith-server gencerts keeps a CA and issues the server's leaf with it,   *)
(* smith-server add-agent issues an agent's leaf and bundles it with the CA *)
(* certificate (cmd/server/main.go, internal/provision/provision.go).  The  *)
(* server loads its leaf and the CA for mTLS before it starts               *)
(* (internal/tls/tls.go), and then provisions two ACME certificates, its    *)
(* public one and the wildcard of the ingress proxies                       *)
(* (provisionCert, ensureWildcardCert and obtainCert of                     *)
(* internal/api/server.go).                                                 *)
(*                                                                         *)
(* A certificate and its key are two files, written one after the other, by *)
(* processes that may stop in between, and read one after the other.  A CA, *)
(* or a leaf, is known by the number of the command that made it.  An ACME  *)
(* pair is never written over, so of it only the files there are matter.    *)
(* The copies of agents' leaves beside the CA are read by nobody, and       *)
(* ClientConfig loads the same files again as ServerConfig does.            *)
(***************************************************************************)
EXTENDS Naturals

CONSTANTS Runner,          \* shells in which commands are run
          None,            \* no file, no command
          MaxCommands,     \* bound: commands
          MaxCrashes,      \* bound: commands and servers that are killed
          MaxAcmeFailures  \* bound: ACME orders that fail

ASSUME CertificateAssumption ==
  /\ {MaxCommands, MaxCrashes, MaxAcmeFailures} \subseteq Nat
  /\ None \notin Nat

VARIABLES ca,              \* ca.crt and ca.key: the number of the CA in each
          leaf,            \* server.crt: [number, signer]; server.key: the number
          command,         \* the commands under way
          bundles,         \* bundles made: the CA bundled and the leaf's signer
          commands,        \* commands begun
          orderly,         \* no -force-ca so far, and never two gencerts at once
          server,          \* where the server is in its start
          mtls,            \* what it has loaded: the leaf and the CA
          acme,            \* the files of each ACME pair
          provision,       \* where the server's goroutine for each pair is
          crashes, acmeFailures

commandVars == <<ca, leaf, command, bundles, commands, orderly>>
serverVars == <<server, mtls, acme, provision, acmeFailures>>
certVars == <<commandVars, serverVars, crashes>>

Pair == {"public", "wildcard"}

Number == 1..MaxCommands

Leaf == [number : Number, signer : Number]

CommandStep == {"check", "loadcrt", "loadkey", "newcrt", "newkey", "reread",
                "issue", "leafkey"}

\* A command under way: what it has read of the CA so far, and for the bundle.
Command ==
  [kind : {"gencerts", "add-agent"}, force : BOOLEAN, number : Number, step : CommandStep,
   crt : Number \cup {None}, key : Number \cup {None}, pem : Number \cup {None}]

ASSUME NoneAssumption == None \notin Leaf /\ None \notin Command

\* Files, what commands and the server hold of them, and bundles refer to CAs
\* and leaves that commands made.
CertificatesTypeOK ==
  /\ ca \in [crt : Number \cup {None}, key : Number \cup {None}]
  /\ leaf \in [crt : Leaf \cup {None}, key : Number \cup {None}]
  /\ command \in [Runner -> Command \cup {None}]
  /\ bundles \subseteq [ca : Number, signer : Number]
  /\ commands \in 0..MaxCommands
  /\ orderly \in BOOLEAN
  /\ server \in {"down", "leaf", "leafkey", "ca", "up"}
  /\ mtls \in [leaf : Leaf \cup {None}, ca : Number \cup {None}]
  /\ acme \in [Pair -> SUBSET {"crt", "key"}]
  /\ provision \in [Pair -> {"none", "stat", "obtain", "key", "load", "done"}]
  /\ crashes \in 0..MaxCrashes
  /\ acmeFailures \in 0..MaxAcmeFailures

NothingLoaded == [leaf |-> None, ca |-> None]

CertificatesInit ==
  /\ ca = [crt |-> None, key |-> None]
  /\ leaf = [crt |-> None, key |-> None]
  /\ command = [r \in Runner |-> None]
  /\ bundles = {}
  /\ commands = 0
  /\ orderly = TRUE
  /\ server = "down"
  /\ mtls = NothingLoaded
  /\ acme = [p \in Pair |-> {}]
  /\ provision = [p \in Pair |-> "none"]
  /\ crashes = 0 /\ acmeFailures = 0

-----------------------------------------------------------------------------
(***************************************************************************)
(* The commands.  Every log.Fatalf ends the command where it is.           *)
(***************************************************************************)

GencertsRuns == \E r \in Runner : command[r] # None /\ command[r].kind = "gencerts"

\* Shells are alike, and the next command is run in a free one.
FreeShell == CHOOSE r \in Runner : command[r] = None

\* Nothing keeps two commands from being run at once.
Begin(r, kind, force) ==
  /\ command[r] = None /\ r = FreeShell
  /\ commands < MaxCommands /\ commands' = commands + 1
  /\ orderly' = (orderly /\ ~force /\ ~(kind = "gencerts" /\ GencertsRuns))
  /\ command' = [command EXCEPT ![r] =
       [kind |-> kind, force |-> force, number |-> commands + 1, step |-> "check",
        crt |-> None, key |-> None, pem |-> None]]
  /\ UNCHANGED <<ca, leaf, bundles, serverVars, crashes>>

runGenCerts(r, force) == Begin(r, "gencerts", force)

runAddAgent(r) == Begin(r, "add-agent", FALSE)

At(r, step) == command[r] # None /\ command[r].step = step

Ends(r) == command' = [command EXCEPT ![r] = None]

Goes(r, step) == command' = [command EXCEPT ![r].step = step]

OnDisk == ca.crt # None /\ ca.key # None

\* Faulty versions: add-agent does not insist on a CA; gencerts does not look
\* for one.
loadOrCreateCAUnchecked(r) ==
  /\ At(r, "check")
  /\ IF command[r].kind = "add-agent" \/ (OnDisk /\ ~command[r].force)
       THEN Goes(r, "loadcrt") ELSE Goes(r, "newcrt")
  /\ UNCHANGED <<ca, leaf, bundles, commands, orderly, serverVars, crashes>>

loadOrCreateCAAnew(r) ==
  /\ At(r, "check")
  /\ IF command[r].kind = "gencerts" THEN Goes(r, "newcrt")
     ELSE IF OnDisk THEN Goes(r, "loadcrt") ELSE Ends(r)
  /\ UNCHANGED <<ca, leaf, bundles, commands, orderly, serverVars, crashes>>

\* loadOrCreateCA: a CA with both files is reused, unless -force-ca is given,
\* and otherwise a new one made.  add-agent insists on both files instead.
loadOrCreateCA(r) ==
  /\ At(r, "check")
  /\ IF OnDisk /\ ~command[r].force THEN Goes(r, "loadcrt")
     ELSE IF command[r].kind = "gencerts" THEN Goes(r, "newcrt")
     ELSE Ends(r)
  /\ UNCHANGED <<ca, leaf, bundles, commands, orderly, serverVars, crashes>>

\* loadCA: the certificate, then the key.
loadCA(r) ==
  /\ \/ At(r, "loadcrt")
        /\ command' = [command EXCEPT ![r].crt = ca.crt, ![r].step = "loadkey"]
     \/ At(r, "loadkey")
        /\ command' = [command EXCEPT ![r].key = ca.key,
             ![r].step = IF command[r].kind = "gencerts" THEN "issue" ELSE "reread"]
  /\ UNCHANGED <<ca, leaf, bundles, commands, orderly, serverVars, crashes>>

\* The new CA is written: ca.crt, then ca.key.
writeCA(r) ==
  /\ \/ At(r, "newcrt")
        /\ ca' = [ca EXCEPT !.crt = command[r].number]
        /\ Goes(r, "newkey")
     \/ At(r, "newkey")
        /\ ca' = [ca EXCEPT !.key = command[r].number]
        /\ command' = [command EXCEPT ![r].crt = command[r].number,
             ![r].key = command[r].number, ![r].step = "issue"]
  /\ UNCHANGED <<leaf, bundles, commands, orderly, serverVars, crashes>>

\* issueCert: x509.CreateCertificate refuses a key that is not the parent's.
MayIssue(r) == command[r].crt = command[r].key

\* generateCert: the server's leaf is issued and written, certificate first.
generateCert(r) ==
  /\ command[r] # None /\ command[r].kind = "gencerts"
  /\ \/ At(r, "issue") /\ ~MayIssue(r) /\ Ends(r) /\ UNCHANGED leaf
     \/ /\ At(r, "issue") /\ MayIssue(r)
        /\ leaf' = [leaf EXCEPT !.crt =
             [number |-> command[r].number, signer |-> command[r].crt]]
        /\ Goes(r, "leafkey")
     \/ /\ At(r, "leafkey")
        /\ leaf' = [leaf EXCEPT !.key = command[r].number]
        /\ Ends(r)
  /\ UNCHANGED <<ca, bundles, commands, orderly, serverVars, crashes>>

\* add-agent reads ca.crt a second time, for the bundle, ...
RereadCA(r) ==
  /\ At(r, "reread")
  /\ command' = [command EXCEPT ![r].pem = ca.crt, ![r].step = "issue"]
  /\ UNCHANGED <<ca, leaf, bundles, commands, orderly, serverVars, crashes>>

\* VerifyLeaf: the leaf must chain to the CA it will be bundled with.
VerifyLeaf(r) == command[r].crt = command[r].pem

\* ... issues the agent's leaf with the CA it loaded, verifies it, and writes the
\* bundle; it looks at no more files that others write.
WriteBundle(r) ==
  /\ At(r, "issue") /\ command[r].kind = "add-agent"
  /\ bundles' = IF MayIssue(r) /\ VerifyLeaf(r)
       THEN bundles \cup {[ca |-> command[r].pem, signer |-> command[r].crt]}
       ELSE bundles
  /\ Ends(r)
  /\ UNCHANGED <<ca, leaf, commands, orderly, serverVars, crashes>>

CommandKilled(r) ==
  /\ command[r] # None
  /\ crashes < MaxCrashes /\ crashes' = crashes + 1
  /\ Ends(r)
  /\ UNCHANGED <<ca, leaf, bundles, commands, orderly, serverVars>>

-----------------------------------------------------------------------------
(***************************************************************************)
(* The server.  It is started again whenever it has failed.                *)
(***************************************************************************)

\* log.Fatalf, of whichever goroutine, ends all of them.
Fatal ==
  /\ server' = "down"
  /\ mtls' = NothingLoaded
  /\ provision' = [p \in Pair |-> "none"]

StartServer ==
  /\ server = "down"
  /\ server' = "ca"
  /\ UNCHANGED <<commandVars, mtls, acme, provision, acmeFailures, crashes>>

\* ServerConfig: ca.crt, then server.crt, then server.key, which must be its key.
ServerConfig ==
  /\ \/ /\ server = "ca"
        /\ IF ca.crt = None THEN Fatal
           ELSE mtls' = [mtls EXCEPT !.ca = ca.crt] /\ server' = "leaf" /\ UNCHANGED provision
     \/ /\ server = "leaf"
        /\ IF leaf.crt = None THEN Fatal
           ELSE mtls' = [mtls EXCEPT !.leaf = leaf.crt] /\ server' = "leafkey"
                /\ UNCHANGED provision
     \/ /\ server = "leafkey"
        /\ IF leaf.key # mtls.leaf.number THEN Fatal
           ELSE server' = "up" /\ provision' = [p \in Pair |-> "stat"] /\ UNCHANGED mtls
  /\ UNCHANGED <<commandVars, acme, acmeFailures, crashes>>

ProvisionGoes(p, step) ==
  provision' = [provision EXCEPT ![p] = step] /\ UNCHANGED <<server, mtls>>

\* provisionCert, ensureWildcardCert: a pair whose certificate is there is not
\* obtained again; the server loads its own, and agents ask for the wildcard.
Stat(p) ==
  /\ provision[p] = "stat"
  /\ ProvisionGoes(p, IF "crt" \notin acme[p] THEN "obtain"
                      ELSE IF p = "public" THEN "load" ELSE "done")
  /\ UNCHANGED <<commandVars, acme, acmeFailures, crashes>>

\* obtainCert: the order is fulfilled and the certificate written ...
obtainCert(p) ==
  /\ provision[p] = "obtain"
  /\ acme' = [acme EXCEPT ![p] = @ \cup {"crt"}]
  /\ ProvisionGoes(p, "key")
  /\ UNCHANGED <<commandVars, acmeFailures, crashes>>

\* ... and after it the key.
obtainCertKey(p) ==
  /\ provision[p] = "key"
  /\ acme' = [acme EXCEPT ![p] = @ \cup {"key"}]
  /\ ProvisionGoes(p, IF p = "public" THEN "load" ELSE "done")
  /\ UNCHANGED <<commandVars, acmeFailures, crashes>>

\* A faulty version: the server goes on without its public certificate.
obtainCertGivesUp(p) ==
  /\ provision[p] = "obtain"
  /\ acmeFailures < MaxAcmeFailures /\ acmeFailures' = acmeFailures + 1
  /\ ProvisionGoes(p, "none")
  /\ UNCHANGED <<commandVars, acme, crashes>>

\* It fails before that: fatal for the public certificate, and only logged for
\* the wildcard, for which nothing is tried again until the next start.
obtainCertFails(p) ==
  /\ provision[p] = "obtain"
  /\ acmeFailures < MaxAcmeFailures /\ acmeFailures' = acmeFailures + 1
  /\ IF p = "public" THEN Fatal ELSE ProvisionGoes(p, "none")
  /\ UNCHANGED <<commandVars, acme, crashes>>

\* LoadX509KeyPair, and ListenAndServeTLS on :443.
LoadPublic ==
  /\ provision["public"] = "load"
  /\ IF acme["public"] = {"crt", "key"} THEN ProvisionGoes("public", "done") ELSE Fatal
  /\ UNCHANGED <<commandVars, acme, acmeFailures, crashes>>

ServerKilled ==
  /\ server # "down"
  /\ crashes < MaxCrashes /\ crashes' = crashes + 1
  /\ Fatal
  /\ UNCHANGED <<commandVars, acme, acmeFailures>>

Commands ==
  \E r \in Runner :
    \/ \E force \in BOOLEAN : runGenCerts(r, force)
    \/ runAddAgent(r)
    \/ loadOrCreateCA(r) \/ loadCA(r) \/ writeCA(r) \/ generateCert(r)
    \/ RereadCA(r) \/ WriteBundle(r) \/ CommandKilled(r)

Server ==
  \/ StartServer \/ ServerConfig \/ LoadPublic \/ ServerKilled
  \/ \E p \in Pair : Stat(p) \/ obtainCert(p) \/ obtainCertKey(p) \/ obtainCertFails(p)

CertificatesNext == Commands \/ Server

\* The server is restarted (Restart=on-failure), and it and its two goroutines
\* go on; an order that is placed again is at last fulfilled: failures are bounded.
CertificatesSpec ==
  /\ CertificatesInit /\ [][CertificatesNext]_certVars
  /\ WF_certVars(StartServer \/ ServerConfig)
  /\ \A p \in Pair :
       WF_certVars(Stat(p) \/ obtainCert(p) \/ obtainCertKey(p) \/ (p = "public" /\ LoadPublic))
-----------------------------------------------------------------------------
(***************************************************************************)
(* Properties.                                                             *)
(***************************************************************************)

\* "verify it chains before we bundle anything": an agent installed from a
\* bundle presents a leaf that the CA it trusts has signed, even if the CA was
\* replaced, or half replaced, while add-agent read its files three times
\* (VerifyLeaf, issueCert).
BundlesChain == \A b \in bundles : b.signer = b.ca

\* That, and "re-running gencerts or adding an agent never re-keys the
\* cluster": as long as nobody gave -force-ca or ran gencerts in two shells at
\* once, agents installed from any bundle and the server as it runs accept each
\* other, whichever commands were run again, beside each other, and killed
\* half-way (loadOrCreateCA).  A server that read ca.crt before the first gencerts
\* was through and its leaf after it is left out: the CA it trusts did not sign
\* its own leaf.
MutualTrust ==
  /\ BundlesChain
  /\ orderly /\ server = "up" /\ mtls.ca = mtls.leaf.signer =>
       \A b \in bundles : b.ca = mtls.leaf.signer /\ b.signer = mtls.ca

\* server.crt and server.key are in place and belong together.
LeafUsable == leaf.crt # None /\ leaf.key = leaf.crt.number

Serving == provision["public"] = "done"

HalfWritten(p) == acme[p] = {"crt"}

\* Once the server has a leaf to start with, it ends up serving its public API
\* for good, through failed orders and crashes, with a single exception: a
\* certificate that was cached without its key, which stays so for ever.  A
\* failed order is no such thing (provisionCert, obtainCert).
PublicApiComesUp == <>[](Serving \/ ~LeafUsable \/ HalfWritten("public"))

\* "provisionCert obtains or loads a cached TLS cert": and without exception.
PublicApiAlwaysComesUp == <>[](Serving \/ ~LeafUsable)

\* "The internal mTLS plane on :9443 is independent of the public cert - control
\* plane <-> agent traffic works even if public cert issuance fails" (README.md): a
\* server that is up, and so serves its agents, still does after an order that
\* failed (Server.Start, provisionCert).
MtlsIndependent ==
  [][acmeFailures' # acmeFailures /\ server = "up" => server' = "up"]_certVars
=============================================================================
