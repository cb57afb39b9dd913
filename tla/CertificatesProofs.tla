------------------------- MODULE CertificatesProofs -------------------------
(***************************************************************************)
(* The agents and the server of a cluster go on trusting each other, for    *)
(* any number of commands, of shells they are run in, and of crashes; and   *)
(* nothing is issued before its signer is there.                            *)
(***************************************************************************)
EXTENDS Certificates, TLAPS

\* The types of the files and of what is read from them, as far as the proof
\* needs them: whether what signed a leaf was there is left open.
AnyLeaf == [number : Number, signer : Number \cup {None}]

AnyBundle == [ca : Number \cup {None}, signer : Number \cup {None}]

FilesType ==
  /\ ca \in [crt : Number \cup {None}, key : Number \cup {None}]
  /\ leaf \in [crt : AnyLeaf \cup {None}, key : Number \cup {None}]
  /\ command \in [Runner -> Command \cup {None}]
  /\ bundles \subseteq {b \in AnyBundle : b.signer = b.ca}
  /\ commands \in 0..MaxCommands
  /\ orderly \in BOOLEAN
  /\ mtls \in [leaf : AnyLeaf \cup {None}, ca : Number \cup {None}]

\* As long as all is orderly, gencerts runs in one shell at a time.
OneGencerts ==
  \A q, r \in Runner :
    orderly /\ command[q] # None /\ command[r] # None /\ q # r =>
      ~ (command[q].kind = "gencerts" /\ command[r].kind = "gencerts")

\* The steps at which a command has ca.crt.
Loaded == {"loadkey", "reread", "issue", "leafkey"}

\* Where command r may be while the key of the CA is the one it is: only a
\* gencerts that found no key makes one, and what a command has loaded since is
\* the certificate of that key.
CommandKeyed(r) ==
  command[r] # None =>
    /\ command[r].force = FALSE
    /\ command[r].step \in {"newcrt", "newkey"} =>
         command[r].kind = "gencerts" /\ ca.key = None
    /\ command[r].step = "newkey" => ca.crt = command[r].number
    /\ command[r].step \in Loaded => command[r].crt = ca.key
    /\ command[r].step \in Loaded \cup {"loadcrt"} => ca.key # None

\* Then there is one key for ever, and everything is signed with it.
OneKey ==
  orderly =>
    /\ ca.key # None => ca.crt = ca.key
    /\ \A r \in Runner : CommandKeyed(r)
    /\ leaf.crt # None => ca.key # None /\ leaf.crt.signer = ca.key
    /\ \A b \in bundles : ca.key # None /\ b.ca = ca.key /\ b.signer = ca.key
    /\ mtls.leaf # None => ca.key # None /\ mtls.leaf.signer = ca.key

\* A server that is past its leaf has it.
LeafLoaded == server \in {"leafkey", "up"} => mtls.leaf # None

Trusting == FilesType /\ OneGencerts /\ OneKey /\ LeafLoaded

\* What r may be next while the files stay as they are.
MayBecome(r, c) ==
  \/ c = None
  \/ /\ c \in Command
     /\ c.kind = command[r].kind /\ c.force = command[r].force
     /\ c.number = command[r].number
     /\ c.step # "newkey"
     /\ c.step = "newcrt" => c.kind = "gencerts" /\ (orderly => ca.key = None)
     /\ c.step \in Loaded /\ orderly => c.crt = ca.key
     /\ c.step \in Loaded \cup {"loadcrt"} /\ orderly => ca.key # None

\* A command that reads files, moves on or ends leaves all of it as it was.
LEMMA CommandMoves ==
  ASSUME Trusting, NEW r \in Runner, command[r] # None, NEW c, MayBecome(r, c),
         command' = [command EXCEPT ![r] = c],
         UNCHANGED <<ca, leaf, bundles, commands, orderly, server, mtls>>
  PROVE  Trusting'
<1> USE DEF Trusting, OneKey, LeafLoaded
<1>1. CASE c = None
  BY ZenonT(60), <1>1 DEF FilesType, OneGencerts, CommandKeyed
<1>2. CASE c # None
  <2>1. /\ c \in Command /\ command'[r] = c
        /\ \A q \in Runner : q # r => command'[q] = command[q]
    BY Zenon, <1>2 DEF FilesType, MayBecome
  <2>2. FilesType'
    BY Zenon, <2>1 DEF FilesType
  <2>3. OneGencerts'
    BY <1>2, <2>1 DEF OneGencerts, MayBecome
  <2>4. \A q \in Runner : orderly => CommandKeyed(q)'
    BY ZenonT(60), <1>2, <2>1 DEF CommandKeyed, MayBecome
  <2> QED
    BY Zenon, <2>2, <2>3, <2>4
<1> QED
  BY Zenon, <1>1, <1>2

\* So does whatever a server does that keeps its leaf, or loses all it loaded.
LEMMA ServerMoves ==
  ASSUME Trusting, UNCHANGED commandVars,
         \/ mtls' = NothingLoaded /\ server' = "down"
         \/ UNCHANGED <<server, mtls>>
  PROVE  Trusting'
BY DEF Trusting, FilesType, OneGencerts, OneKey, CommandKeyed, LeafLoaded, NothingLoaded,
   commandVars

-----------------------------------------------------------------------------

LEMMA CommandStepTrusting ==
  ASSUME Trusting, NEW r \in Runner,
         \/ loadOrCreateCA(r) \/ loadCA(r) \/ RereadCA(r) \/ CommandKilled(r)
  PROVE  Trusting'
<1>1. command[r] \in Command
  BY Zenon DEF Trusting, FilesType, loadOrCreateCA, loadCA, RereadCA, CommandKilled, At
<1>2. UNCHANGED <<ca, leaf, bundles, commands, orderly, server, mtls>>
  BY Zenon DEF loadOrCreateCA, loadCA, RereadCA, CommandKilled, serverVars
<1>3. command[r] # None
  BY Zenon, <1>1, NoneAssumption
<1>4. ca.crt \in Number \cup {None} /\ ca.key \in Number \cup {None}
  BY Zenon DEF Trusting, FilesType
<1>5. orderly => CommandKeyed(r) /\ (ca.key # None => ca.crt = ca.key)
  BY Zenon DEF Trusting, OneKey
<1>6. \E c : command' = [command EXCEPT ![r] = c] /\ MayBecome(r, c)
  <2>1. CASE command' = [command EXCEPT ![r] = None]
    BY Zenon, <2>1 DEF MayBecome
  <2>2. ASSUME loadOrCreateCA(r), command' # [command EXCEPT ![r] = None]
        PROVE  \E c : command' = [command EXCEPT ![r] = c] /\ MayBecome(r, c)
    <3>1. CASE OnDisk /\ ~command[r].force
      <4>1. command' = [command EXCEPT ![r] = [command[r] EXCEPT !.step = "loadcrt"]]
        BY Zenon, <2>2, <3>1 DEF loadOrCreateCA, Goes
      <4>2. MayBecome(r, [command[r] EXCEPT !.step = "loadcrt"])
        BY Zenon, <1>1, <3>1 DEF MayBecome, Command, CommandStep, Loaded, OnDisk
      <4> QED
        BY Zenon, <4>1, <4>2
    <3>2. CASE ~ (OnDisk /\ ~command[r].force)
      <4>1. /\ command[r].kind = "gencerts"
            /\ command' = [command EXCEPT ![r] = [command[r] EXCEPT !.step = "newcrt"]]
        BY Zenon, <2>2, <3>2 DEF loadOrCreateCA, Goes, Ends
      <4>2. orderly => ca.key = None
        BY Zenon, <1>3, <1>4, <1>5, <3>2 DEF CommandKeyed, OnDisk
      <4>3. MayBecome(r, [command[r] EXCEPT !.step = "newcrt"])
        BY Zenon, <1>1, <4>1, <4>2 DEF MayBecome, Command, CommandStep, Loaded
      <4> QED
        BY Zenon, <4>1, <4>3
    <3> QED
      BY Zenon, <3>1, <3>2
  <2>3. ASSUME loadCA(r)
        PROVE  \E c : command' = [command EXCEPT ![r] = c] /\ MayBecome(r, c)
    <3>1. CASE At(r, "loadcrt")
      <4> DEFINE c == [command[r] EXCEPT !.crt = ca.crt, !.step = "loadkey"]
      <4>1. command' = [command EXCEPT ![r] = c]
        BY Zenon, <1>1, <2>3, <3>1 DEF loadCA, At, Trusting, FilesType
      <4>2. c \in Command /\ c.step = "loadkey" /\ c.crt = ca.crt
            /\ c.kind = command[r].kind /\ c.force = command[r].force
            /\ c.number = command[r].number
        BY Zenon, <1>1, <1>4 DEF Command, CommandStep
      <4>3. orderly => ca.key # None /\ ca.crt = ca.key
        BY Zenon, <1>5, <3>1 DEF CommandKeyed, At
      <4> HIDE DEF c
      <4>4. MayBecome(r, c)
        BY Zenon, <4>2, <4>3 DEF MayBecome
      <4> QED
        BY Zenon, <4>1, <4>4
    <3>2. CASE At(r, "loadkey")
      <4> DEFINE c == [command[r] EXCEPT !.key = ca.key,
                         !.step = IF command[r].kind = "gencerts" THEN "issue" ELSE "reread"]
      <4>1. command' = [command EXCEPT ![r] = c]
        BY Zenon, <1>1, <2>3, <3>2 DEF loadCA, At, Trusting, FilesType
      <4>2. c \in Command /\ c.step \in {"issue", "reread"} /\ c.crt = command[r].crt
            /\ c.kind = command[r].kind /\ c.force = command[r].force
            /\ c.number = command[r].number
        BY Zenon, <1>1, <1>4 DEF Command, CommandStep
      <4>3. orderly => ca.key # None /\ command[r].crt = ca.key
        BY Zenon, <1>5, <3>2 DEF CommandKeyed, At, Loaded
      <4> HIDE DEF c
      <4>4. MayBecome(r, c)
        BY Zenon, <4>2, <4>3 DEF MayBecome
      <4> QED
        BY Zenon, <4>1, <4>4
    <3> QED
      BY Zenon, <2>3, <3>1, <3>2 DEF loadCA
  <2>4. ASSUME RereadCA(r)
        PROVE  \E c : command' = [command EXCEPT ![r] = c] /\ MayBecome(r, c)
    <3> DEFINE c == [command[r] EXCEPT !.pem = ca.crt, !.step = "issue"]
    <3>1. command' = [command EXCEPT ![r] = c]
      BY Zenon, <1>1, <2>4 DEF RereadCA, Trusting, FilesType
    <3>2. c \in Command /\ c.step = "issue" /\ c.crt = command[r].crt
          /\ c.kind = command[r].kind /\ c.force = command[r].force
          /\ c.number = command[r].number
      BY Zenon, <1>1, <1>4 DEF Command, CommandStep
    <3>3. orderly => ca.key # None /\ command[r].crt = ca.key
      BY Zenon, <1>5, <2>4 DEF CommandKeyed, RereadCA, At, Loaded
    <3> HIDE DEF c
    <3>4. MayBecome(r, c)
      BY Zenon, <3>2, <3>3 DEF MayBecome
    <3> QED
      BY Zenon, <3>1, <3>4
  <2> QED
    BY Zenon, <2>1, <2>2, <2>3, <2>4 DEF CommandKilled, Ends
<1> QED
  BY Zenon, <1>2, <1>3, <1>6, CommandMoves

\* A new command has read nothing yet; with -force-ca nothing is claimed.
LEMMA BeginTrusting ==
  ASSUME Trusting, NEW r \in Runner, NEW kind \in {"gencerts", "add-agent"},
         NEW force \in BOOLEAN, Begin(r, kind, force)
  PROVE  Trusting'
<1> DEFINE c == [kind |-> kind, force |-> force, number |-> commands + 1, step |-> "check",
                 crt |-> None, key |-> None, pem |-> None]
<1>1. /\ command' = [command EXCEPT ![r] = c]
      /\ commands < MaxCommands /\ commands' = commands + 1
      /\ orderly' = (orderly /\ ~force /\ ~(kind = "gencerts" /\ GencertsRuns))
      /\ UNCHANGED <<ca, leaf, bundles, server, mtls>>
  BY Zenon DEF Begin, serverVars
<1>2. commands + 1 \in Number /\ commands' \in 0..MaxCommands
  BY <1>1, CertificateAssumption DEF Trusting, FilesType, Number
<1>3. c \in Command /\ c.kind = kind /\ c.force = force /\ c.step = "check"
  BY Zenon, <1>2 DEF Command, CommandStep
<1>4. orderly' /\ kind = "gencerts" =>
        \A q \in Runner : command[q] # None => command[q].kind # "gencerts"
  BY Zenon, <1>1 DEF GencertsRuns
<1> HIDE DEF c
<1>5. command'[r] = c /\ \A q \in Runner : q # r => command'[q] = command[q]
  BY Zenon, <1>1 DEF Trusting, FilesType
<1>6. FilesType'
  BY Zenon, <1>1, <1>2, <1>3 DEF Trusting, FilesType
<1>7. OneGencerts'
  <2>1. orderly' => orderly
    BY Zenon, <1>1
  <2> QED
    BY Zenon, <1>3, <1>4, <1>5, <2>1 DEF Trusting, OneGencerts
<1>8. ASSUME orderly'
      PROVE  orderly /\ \A q \in Runner : CommandKeyed(q)'
  <2>1. orderly /\ force = FALSE
    BY Zenon, <1>1, <1>8
  <2> QED
    BY ZenonT(60), <1>1, <1>3, <1>5, <2>1 DEF Trusting, OneKey, CommandKeyed, Loaded
<1>9. OneKey'
  BY Zenon, <1>1, <1>8 DEF Trusting, OneKey
<1> QED
  BY Zenon, <1>1, <1>6, <1>7, <1>9 DEF Trusting, LeafLoaded

\* A new CA is made, certificate first, only while there is no key.
LEMMA WriteTrusting ==
  ASSUME Trusting, NEW r \in Runner, writeCA(r)
  PROVE  Trusting'
<1>1. /\ command[r] \in Command /\ command[r].number \in Number /\ command[r] # None
      /\ UNCHANGED <<leaf, bundles, commands, orderly, server, mtls>>
  BY Zenon, NoneAssumption DEF Trusting, FilesType, writeCA, At, serverVars, Command
<1>2. None \notin Number
  BY CertificateAssumption DEF Number
<1>3. CASE At(r, "newcrt")
  <2> DEFINE c == [command[r] EXCEPT !.step = "newkey"]
  <2>1. ca' = [ca EXCEPT !.crt = command[r].number] /\ command' = [command EXCEPT ![r] = c]
    BY Zenon, <1>3, <1>1 DEF writeCA, At, Goes
  <2>2. /\ c \in Command /\ c.step = "newkey" /\ c.kind = command[r].kind
        /\ c.force = command[r].force /\ c.number = command[r].number
    BY Zenon, <1>1 DEF Command, CommandStep
  <2> HIDE DEF c
  <2>3. /\ command'[r] = c /\ \A q \in Runner : q # r => command'[q] = command[q]
        /\ ca'.crt = command[r].number /\ ca'.key = ca.key
    BY Zenon, <2>1 DEF Trusting, FilesType
  <2>4. FilesType'
    BY Zenon, <1>1, <2>1, <2>2 DEF Trusting, FilesType
  <2>5. OneGencerts'
    BY ZenonT(60), <1>1, <2>2, <2>3 DEF Trusting, OneGencerts
  <2>6. ASSUME orderly
        PROVE  ca.key = None /\ \A q \in Runner : CommandKeyed(q)'
    <3>1. command[r].kind = "gencerts" /\ ca.key = None /\ command[r].force = FALSE
      BY Zenon, <1>1, <1>3, <2>6 DEF Trusting, OneKey, CommandKeyed, At
    <3>2. CommandKeyed(r)'
      BY Zenon, <2>2, <2>3, <3>1 DEF CommandKeyed, Loaded
    <3>3. ASSUME NEW q \in Runner, q # r
          PROVE  CommandKeyed(q)'
      <4>1. CommandKeyed(q) /\ command'[q] = command[q]
        BY Zenon, <2>3, <2>6, <3>3 DEF Trusting, OneKey
      <4>2. command[q] # None => command[q].step # "newkey"
        BY Zenon, <1>1, <2>6, <3>1, <3>3, <4>1 DEF Trusting, OneGencerts, CommandKeyed
      <4> QED
        BY Zenon, <2>3, <4>1, <4>2 DEF CommandKeyed
    <3> QED
      BY Zenon, <3>1, <3>2, <3>3
  <2>7. OneKey'
    BY Zenon, <1>1, <2>3, <2>6 DEF Trusting, OneKey
  <2> QED
    BY Zenon, <1>1, <2>4, <2>5, <2>7 DEF Trusting, LeafLoaded
<1>4. CASE At(r, "newkey")
  <2> DEFINE c == [command[r] EXCEPT !.crt = command[r].number, !.key = command[r].number,
                                     !.step = "issue"]
  <2>1. ca' = [ca EXCEPT !.key = command[r].number] /\ command' = [command EXCEPT ![r] = c]
    BY Zenon, <1>4, <1>1 DEF writeCA, At, Trusting, FilesType
  <2>2. /\ c \in Command /\ c.step = "issue" /\ c.kind = command[r].kind
        /\ c.force = command[r].force /\ c.number = command[r].number
        /\ c.crt = command[r].number
    BY Zenon, <1>1 DEF Command, CommandStep
  <2> HIDE DEF c
  <2>3. /\ command'[r] = c /\ \A q \in Runner : q # r => command'[q] = command[q]
        /\ ca'.key = command[r].number /\ ca'.crt = ca.crt
    BY Zenon, <2>1 DEF Trusting, FilesType
  <2>4. FilesType'
    BY Zenon, <1>1, <2>1, <2>2 DEF Trusting, FilesType
  <2>5. OneGencerts'
    BY ZenonT(60), <1>1, <2>2, <2>3 DEF Trusting, OneGencerts
  <2>6. ASSUME orderly
        PROVE  /\ ca.key = None /\ ca.crt = command[r].number
               /\ \A q \in Runner : CommandKeyed(q)'
    <3>1. /\ command[r].kind = "gencerts" /\ ca.key = None /\ command[r].force = FALSE
          /\ ca.crt = command[r].number
      BY Zenon, <1>1, <1>4, <2>6 DEF Trusting, OneKey, CommandKeyed, At
    <3>2. CommandKeyed(r)'
      BY Zenon, <1>1, <1>2, <2>2, <2>3, <3>1 DEF CommandKeyed
    <3>3. ASSUME NEW q \in Runner, q # r
          PROVE  CommandKeyed(q)'
      <4>1. CommandKeyed(q) /\ command'[q] = command[q]
        BY Zenon, <2>3, <2>6, <3>3 DEF Trusting, OneKey
      <4>2. command[q] # None => command[q].step \notin {"newcrt", "newkey"} \cup Loaded
        BY Zenon, <1>1, <2>6, <3>1, <3>3, <4>1 DEF Trusting, OneGencerts, CommandKeyed
      <4> QED
        BY Zenon, <1>1, <1>2, <2>3, <4>1, <4>2 DEF CommandKeyed
    <3> QED
      BY Zenon, <3>1, <3>2, <3>3
  <2>7. OneKey'
    BY Zenon, <1>1, <2>3, <2>6 DEF Trusting, OneKey
  <2> QED
    BY Zenon, <1>1, <2>4, <2>5, <2>7 DEF Trusting, LeafLoaded
<1> QED
  BY Zenon, <1>3, <1>4 DEF writeCA

\* The server's leaf and the bundles are signed with the one key.
LEMMA IssueTrusting ==
  ASSUME Trusting, NEW r \in Runner, generateCert(r) \/ WriteBundle(r)
  PROVE  Trusting'
<1>1. command[r] \in Command /\ command[r] # None
  BY Zenon, NoneAssumption DEF Trusting, FilesType, generateCert, WriteBundle, At
<1>2. UNCHANGED <<ca, commands, orderly, server, mtls>>
  BY Zenon DEF generateCert, WriteBundle, serverVars
<1>3. \E c : command' = [command EXCEPT ![r] = c] /\ MayBecome(r, c)
  <2>1. CASE command' = [command EXCEPT ![r] = None]
    BY Zenon, <2>1 DEF MayBecome
  <2>2. CASE At(r, "issue") /\ Goes(r, "leafkey")
    <3>1. command' = [command EXCEPT ![r] = [command[r] EXCEPT !.step = "leafkey"]]
      BY Zenon, <2>2 DEF Goes
    <3>2. orderly => ca.key # None /\ command[r].crt = ca.key
      BY Zenon, <1>1, <2>2 DEF Trusting, OneKey, CommandKeyed, At, Loaded
    <3>3. MayBecome(r, [command[r] EXCEPT !.step = "leafkey"])
      BY Zenon, <1>1, <3>2 DEF MayBecome, Command, CommandStep
    <3> QED
      BY Zenon, <3>1, <3>3
  <2> QED
    BY Zenon, <2>1, <2>2 DEF generateCert, WriteBundle, Ends
<1>4. leaf' \in [crt : AnyLeaf \cup {None}, key : Number \cup {None}]
      /\ (orderly => (leaf'.crt # None => ca.key # None /\ leaf'.crt.signer = ca.key))
  <2>1. CASE leaf' = leaf
    BY Zenon, <2>1 DEF Trusting, FilesType, OneKey
  <2>2. CASE leaf' = [leaf EXCEPT !.key = command[r].number]
    BY Zenon, <1>1, <2>2 DEF Trusting, FilesType, OneKey, Command
  <2>3. CASE /\ At(r, "issue") /\ MayIssue(r)
             /\ leaf' = [leaf EXCEPT !.crt =
                  [number |-> command[r].number, signer |-> command[r].crt]]
    <3>1. orderly => ca.key # None /\ command[r].crt = ca.key
      BY Zenon, <1>1, <2>3 DEF Trusting, OneKey, CommandKeyed, At, Loaded
    <3> DEFINE l == [number |-> command[r].number, signer |-> command[r].crt]
    <3>2. l \in AnyLeaf /\ l.signer = command[r].crt
      BY Zenon, <1>1 DEF AnyLeaf, Command
    <3>3. leaf' = [leaf EXCEPT !.crt = l]
      BY Zenon, <2>3
    <3> HIDE DEF l
    <3> QED
      BY Zenon, <3>1, <3>2, <3>3 DEF Trusting, FilesType
  <2> QED
    BY Zenon, <2>1, <2>2, <2>3 DEF generateCert, WriteBundle
<1>5. /\ bundles' \subseteq {b \in AnyBundle : b.signer = b.ca}
      /\ orderly => \A b \in bundles' : ca.key # None /\ b.ca = ca.key /\ b.signer = ca.key
  <2>1. CASE bundles' = bundles
    BY Zenon, <2>1 DEF Trusting, FilesType, OneKey
  <2>2. CASE /\ At(r, "issue") /\ VerifyLeaf(r)
             /\ bundles' = bundles \cup {[ca |-> command[r].pem, signer |-> command[r].crt]}
    <3>1. orderly => ca.key # None /\ command[r].crt = ca.key
      BY Zenon, <1>1, <2>2 DEF Trusting, OneKey, CommandKeyed, At, Loaded
    <3> QED
      BY <1>1, <2>2, <3>1 DEF Trusting, FilesType, OneKey, VerifyLeaf, Command, AnyBundle
  <2> QED
    BY Zenon, <2>1, <2>2 DEF generateCert, WriteBundle
<1>6. PICK c : command' = [command EXCEPT ![r] = c] /\ MayBecome(r, c)
  BY Zenon, <1>3
<1>7. /\ command' \in [Runner -> Command \cup {None}] /\ OneGencerts'
      /\ \A q \in Runner : orderly => CommandKeyed(q)'
  <2>1. /\ c \in Command \cup {None} /\ command'[r] = c
        /\ \A q \in Runner : q # r => command'[q] = command[q]
    BY Zenon, <1>6 DEF Trusting, FilesType, MayBecome
  <2>2. OneGencerts'
    BY <1>1, <1>2, <1>6, <2>1 DEF Trusting, OneGencerts, MayBecome
  <2>3. \A q \in Runner : orderly => CommandKeyed(q)'
    BY ZenonT(60), <1>1, <1>2, <1>6, <2>1 DEF Trusting, OneKey, CommandKeyed, MayBecome
  <2> QED
    BY Zenon, <1>6, <2>1, <2>2, <2>3 DEF Trusting, FilesType
<1> QED
  BY Zenon, <1>2, <1>4, <1>5, <1>7 DEF Trusting, FilesType, OneKey, LeafLoaded

\* The server loads what the files hold.
LEMMA ServerTrusting ==
  ASSUME Trusting, Server
  PROVE  Trusting'
<1>1. UNCHANGED commandVars
  BY Zenon DEF Server, StartServer, ServerConfig, LoadPublic, ServerKilled, Stat, obtainCert,
     obtainCertKey, obtainCertFails
<1>2. ASSUME Fatal \/ UNCHANGED <<server, mtls>>
      PROVE  Trusting'
  BY Zenon, <1>1, <1>2, ServerMoves DEF Fatal
<1>3. ASSUME UNCHANGED mtls, server' \notin {"leafkey", "up"} \/ server = "leafkey"
      PROVE  Trusting'
  BY ZenonT(60), <1>1, <1>3 DEF Trusting, FilesType, OneGencerts, OneKey, CommandKeyed,
     LeafLoaded, commandVars
<1>4. CASE StartServer
  BY Zenon, <1>3, <1>4 DEF StartServer
<1>5. ASSUME server = "ca", mtls' = [mtls EXCEPT !.ca = ca.crt], server' = "leaf"
      PROVE  Trusting'
  BY ZenonT(60), <1>1, <1>5 DEF Trusting, FilesType, OneGencerts, OneKey, CommandKeyed,
     LeafLoaded, commandVars
<1>6. ASSUME leaf.crt # None, mtls' = [mtls EXCEPT !.leaf = leaf.crt]
      PROVE  Trusting'
  <2>1. mtls'.leaf = leaf.crt /\ mtls' \in [leaf : AnyLeaf \cup {None}, ca : Number \cup {None}]
    BY Zenon, <1>6 DEF Trusting, FilesType
  <2> QED
    BY Zenon, <1>1, <1>6, <2>1
       DEF Trusting, FilesType, OneGencerts, OneKey, CommandKeyed, LeafLoaded, commandVars
<1>7. CASE ServerConfig
  BY Zenon, <1>2, <1>3, <1>5, <1>6, <1>7 DEF ServerConfig
<1>8. CASE LoadPublic \/ ServerKilled
  BY Zenon, <1>2, <1>8 DEF LoadPublic, ServerKilled, ProvisionGoes
<1>9. CASE \E p \in Pair : Stat(p) \/ obtainCert(p) \/ obtainCertKey(p) \/ obtainCertFails(p)
  BY Zenon, <1>2, <1>9 DEF Stat, obtainCert, obtainCertKey, obtainCertFails, ProvisionGoes
<1> QED
  BY Zenon, <1>4, <1>7, <1>8, <1>9 DEF Server

-----------------------------------------------------------------------------

LEMMA TrustingAlways ==
  CertificatesSpec => []Trusting
<1>1. CertificatesInit => Trusting
  <2> SUFFICES ASSUME CertificatesInit
               PROVE  Trusting
    OBVIOUS
  <2> USE DEF CertificatesInit
  <2>1. 0 \in 0..MaxCommands
    BY CertificateAssumption
  <2>2. FilesType
    BY Zenon, <2>1 DEF FilesType, NothingLoaded
  <2>3. OneGencerts /\ LeafLoaded
    BY Zenon DEF OneGencerts, LeafLoaded
  <2>4. OneKey
    BY Zenon DEF OneKey, CommandKeyed, NothingLoaded
  <2> QED
    BY Zenon, <2>2, <2>3, <2>4 DEF Trusting
<1>2. Trusting /\ [CertificatesNext]_certVars => Trusting'
  <2> SUFFICES ASSUME Trusting, [CertificatesNext]_certVars
               PROVE  Trusting'
    OBVIOUS
  <2>1. ASSUME NEW r \in Runner, NEW force \in BOOLEAN, runGenCerts(r, force)
        PROVE  Trusting'
    BY Zenon, <2>1, BeginTrusting DEF runGenCerts
  <2>2. ASSUME NEW r \in Runner, runAddAgent(r)
        PROVE  Trusting'
    BY Zenon, <2>2, BeginTrusting DEF runAddAgent
  <2>3. CASE UNCHANGED certVars
    BY Zenon, <2>3, ServerMoves DEF certVars, serverVars
  <2> QED
    BY Zenon, <2>1, <2>2, <2>3, CommandStepTrusting, WriteTrusting, IssueTrusting, ServerTrusting
       DEF CertificatesNext, Commands
<1> QED
  BY <1>1, <1>2, PTL DEF CertificatesSpec

\* Every bundle chains, and "re-running gencerts or adding an agent never
\* re-keys the cluster": without -force-ca and two gencerts at once, and however
\* many commands are run, add-agent beside others, and killed half-way, every agent installed from a bundle and a running server whose CA
\* signed its leaf accept each other (loadOrCreateCA, runAddAgent).
THEOREM ClusterIsNeverRekeyed ==
  CertificatesSpec => []MutualTrust
<1>1. Trusting => MutualTrust
  BY Zenon DEF Trusting, FilesType, OneKey, LeafLoaded, MutualTrust, BundlesChain
<1> QED
  BY <1>1, TrustingAlways, PTL
-----------------------------------------------------------------------------
(***************************************************************************)
(* Types: what is issued has been signed by a CA that was there.           *)
(***************************************************************************)

\* A command that goes on to use a CA has read its certificate, and so every
\* leaf and every bundle has a signer.
CommandRead(r) ==
  command[r] # None =>
    /\ command[r].step = "loadcrt" => ca.crt # None
    /\ command[r].step \in Loaded => command[r].crt # None

Signed ==
  /\ \A r \in Runner : CommandRead(r)
  /\ leaf.crt # None => leaf.crt.signer # None
  /\ \A b \in bundles : b.ca # None
  /\ mtls.leaf # None => mtls.leaf.signer # None

\* A command moves on or ends, and ca.crt is not removed.
LEMMA CommandReads ==
  ASSUME FilesType, Signed, NEW r \in Runner, NEW c, command' = [command EXCEPT ![r] = c],
         c # None => /\ c.step = "loadcrt" => ca'.crt # None
                     /\ c.step \in Loaded => c.crt # None,
         ca.crt # None => ca'.crt # None
  PROVE  \A q \in Runner : CommandRead(q)'
<1>1. command'[r] = c /\ \A q \in Runner : q # r => command'[q] = command[q]
  BY Zenon DEF FilesType
<1>2. CommandRead(r)'
  BY Zenon, <1>1 DEF CommandRead
<1>3. ASSUME NEW q \in Runner, q # r PROVE CommandRead(q)'
  BY Zenon, <1>1, <1>3 DEF CommandRead, Signed
<1> QED
  BY Zenon, <1>2, <1>3

LEMMA CommandSigned ==
  ASSUME FilesType, Signed, Commands
  PROVE  Signed'
<1>0. None \notin Number
  BY CertificateAssumption DEF Number
<1>1. PICK r \in Runner :
        \/ \E force \in BOOLEAN : runGenCerts(r, force)
        \/ runAddAgent(r)
        \/ loadOrCreateCA(r) \/ loadCA(r) \/ writeCA(r) \/ generateCert(r)
        \/ RereadCA(r) \/ WriteBundle(r) \/ CommandKilled(r)
  BY Zenon DEF Commands
<1>2. ASSUME UNCHANGED <<leaf, bundles, mtls>>, \A q \in Runner : CommandRead(q)'
      PROVE  Signed'
  BY Zenon, <1>2 DEF Signed
<1>3. ASSUME Ends(r), UNCHANGED ca
      PROVE  \A q \in Runner : CommandRead(q)'
  BY Zenon, <1>3, CommandReads DEF Ends
<1>4. ASSUME NEW step, Goes(r, step), command[r] # None, ca.crt # None => ca'.crt # None,
             step = "loadcrt" => ca'.crt # None,
             step \in Loaded => command[r].step \in Loaded
      PROVE  \A q \in Runner : CommandRead(q)'
  <2> DEFINE c == [command[r] EXCEPT !.step = step]
  <2>1. command' = [command EXCEPT ![r] = c] /\ command[r] \in Command
    BY Zenon, <1>4 DEF Goes, FilesType
  <2>2. c.step = step /\ c.crt = command[r].crt
    BY Zenon, <2>1 DEF Command
  <2>3. CommandRead(r)
    BY Zenon DEF Signed
  <2> HIDE DEF c
  <2> QED
    BY Zenon, <1>4, <2>1, <2>2, <2>3, CommandReads DEF CommandRead
<1>5. CASE runAddAgent(r) \/ \E force \in BOOLEAN : runGenCerts(r, force)
  <2>1. PICK kind, force : Begin(r, kind, force)
    BY Zenon, <1>5 DEF runAddAgent, runGenCerts
  <2> DEFINE c == [kind |-> kind, force |-> force, number |-> commands + 1, step |-> "check",
                   crt |-> None, key |-> None, pem |-> None]
  <2>2. command' = [command EXCEPT ![r] = c] /\ UNCHANGED <<ca, leaf, bundles, mtls>>
    BY Zenon, <2>1 DEF Begin, serverVars
  <2>3. c.step = "check" /\ "check" \notin Loaded
    BY Zenon DEF Loaded
  <2> HIDE DEF c
  <2> QED
    BY Zenon, <1>2, <2>2, <2>3, CommandReads
<1>6. CASE loadOrCreateCA(r)
  BY Zenon, <1>2, <1>3, <1>4, <1>6 DEF loadOrCreateCA, At, OnDisk, serverVars, Loaded
<1>7. CASE loadCA(r)
  <2>1. command[r] \in Command /\ CommandRead(r) /\ UNCHANGED <<ca, leaf, bundles, mtls>>
    BY Zenon, <1>7 DEF loadCA, At, FilesType, Signed, serverVars
  <2>2. CASE At(r, "loadcrt")
    <3> DEFINE c == [command[r] EXCEPT !.crt = ca.crt, !.step = "loadkey"]
    <3>1. command' = [command EXCEPT ![r] = c]
      BY Zenon, <1>7, <2>1, <2>2 DEF loadCA, At, FilesType
    <3>2. c.crt = ca.crt /\ c.step = "loadkey"
      BY Zenon, <2>1 DEF Command
    <3> HIDE DEF c
    <3> QED
      BY Zenon, <1>2, <2>1, <2>2, <3>1, <3>2, CommandReads DEF CommandRead, At
  <2>3. CASE At(r, "loadkey")
    <3> DEFINE c == [command[r] EXCEPT !.key = ca.key,
                       !.step = IF command[r].kind = "gencerts" THEN "issue" ELSE "reread"]
    <3>1. command' = [command EXCEPT ![r] = c]
      BY Zenon, <1>7, <2>1, <2>3 DEF loadCA, At, FilesType
    <3>2. c.crt = command[r].crt /\ c.step \in {"issue", "reread"}
      BY Zenon, <2>1 DEF Command
    <3> HIDE DEF c
    <3> QED
      BY Zenon, <1>2, <2>1, <2>3, <3>1, <3>2, CommandReads DEF CommandRead, At, Loaded
  <2> QED
    BY Zenon, <1>7, <2>2, <2>3 DEF loadCA
<1>8. CASE writeCA(r)
  <2>1. /\ command[r] \in Command /\ command[r].number \in Number
        /\ UNCHANGED <<leaf, bundles, mtls>>
    BY Zenon, <1>8 DEF writeCA, At, FilesType, serverVars, Command
  <2>2. ca.crt # None => ca'.crt # None
    BY Zenon, <1>0, <1>8, <2>1 DEF writeCA, FilesType
  <2>3. CASE At(r, "newcrt")
    BY Zenon, <1>2, <1>4, <1>8, <2>1, <2>2, <2>3 DEF writeCA, At, Loaded
  <2>4. CASE At(r, "newkey")
    <3> DEFINE c == [command[r] EXCEPT !.crt = command[r].number,
                       !.key = command[r].number, !.step = "issue"]
    <3>1. command' = [command EXCEPT ![r] = c]
      BY Zenon, <1>8, <2>1, <2>4 DEF writeCA, At, FilesType
    <3>2. c.crt = command[r].number /\ c.step = "issue"
      BY Zenon, <2>1 DEF Command
    <3> HIDE DEF c
    <3> QED
      BY Zenon, <1>0, <1>2, <2>1, <2>2, <3>1, <3>2, CommandReads
  <2> QED
    BY Zenon, <1>8, <2>3, <2>4 DEF writeCA
<1>9. CASE generateCert(r)
  <2>1. /\ CommandRead(r) /\ command[r] # None /\ leaf.crt \in AnyLeaf \cup {None}
        /\ UNCHANGED <<ca, bundles, mtls>>
    BY Zenon, <1>9 DEF generateCert, FilesType, Signed, serverVars
  <2>2. \A q \in Runner : CommandRead(q)'
    BY Zenon, <1>3, <1>4, <1>9, <2>1 DEF generateCert, At, Loaded
  <2>3. leaf'.crt # None => leaf'.crt.signer # None
    <3>1. CASE leaf'.crt = leaf.crt
      BY Zenon, <3>1 DEF Signed
    <3>2. CASE leaf'.crt # leaf.crt
      <4>1. /\ leaf' = [leaf EXCEPT !.crt = [number |-> command[r].number,
                                             signer |-> command[r].crt]]
            /\ At(r, "issue")
        BY Zenon, <1>9, <3>2 DEF generateCert, FilesType
      <4>2. leaf'.crt = [number |-> command[r].number, signer |-> command[r].crt]
        BY Zenon, <4>1 DEF FilesType
      <4>3. leaf'.crt.signer = command[r].crt
        BY <4>2
      <4> QED
        BY Zenon, <2>1, <4>1, <4>3 DEF CommandRead, At, Loaded
    <3> QED
      BY Zenon, <3>1, <3>2
  <2> QED
    BY Zenon, <2>1, <2>2, <2>3 DEF Signed
<1>10. CASE RereadCA(r)
  <2> DEFINE c == [command[r] EXCEPT !.pem = ca.crt, !.step = "issue"]
  <2>1. /\ command[r] \in Command /\ CommandRead(r) /\ UNCHANGED <<ca, leaf, bundles, mtls>>
        /\ command[r] # None /\ command[r].step \in Loaded
    BY Zenon, <1>10 DEF RereadCA, At, FilesType, Signed, serverVars, Loaded
  <2>2. command' = [command EXCEPT ![r] = c]
    BY Zenon, <1>10, <2>1 DEF RereadCA, FilesType
  <2>3. c.crt = command[r].crt /\ c.step = "issue"
    BY Zenon, <2>1 DEF Command
  <2> HIDE DEF c
  <2> QED
    BY Zenon, <1>2, <2>1, <2>2, <2>3, CommandReads DEF CommandRead
<1>11. CASE WriteBundle(r)
  <2>1. /\ CommandRead(r) /\ command[r] # None /\ command[r].step \in Loaded
        /\ UNCHANGED <<ca, leaf, mtls>> /\ Ends(r)
    BY Zenon, <1>11 DEF WriteBundle, At, Signed, serverVars, Loaded
  <2>2. \A b \in bundles' : b.ca # None
    <3> DEFINE new == [ca |-> command[r].pem, signer |-> command[r].crt]
    <3>1. bundles' = bundles \/ (bundles' = bundles \cup {new} /\ VerifyLeaf(r))
      BY Zenon, <1>11 DEF WriteBundle
    <3>2. new.ca = command[r].pem
      OBVIOUS
    <3> HIDE DEF new
    <3> QED
      BY Zenon, <2>1, <3>1, <3>2 DEF VerifyLeaf, CommandRead, Signed
  <2> QED
    BY Zenon, <1>3, <2>1, <2>2 DEF Signed
<1>12. CASE CommandKilled(r)
  BY Zenon, <1>2, <1>3, <1>12 DEF CommandKilled, serverVars
<1> QED
  BY Zenon, <1>1, <1>5, <1>6, <1>7, <1>8, <1>9, <1>10, <1>11, <1>12

Step == {"none", "stat", "obtain", "key", "load", "done"}

ServerTyped ==
  /\ server \in {"down", "leaf", "leafkey", "ca", "up"}
  /\ acme \in [Pair -> SUBSET {"crt", "key"}]
  /\ provision \in [Pair -> Step]
  /\ crashes \in 0..MaxCrashes
  /\ acmeFailures \in 0..MaxAcmeFailures

LEMMA ServerSigned ==
  ASSUME FilesType, Signed, Server
  PROVE  Signed'
<1>1. UNCHANGED commandVars
  BY Zenon DEF Server, StartServer, ServerConfig, LoadPublic, ServerKilled, Stat, obtainCert,
     obtainCertKey, obtainCertFails
<1>2. ASSUME mtls'.leaf \in {mtls.leaf, leaf.crt, None}
      PROVE  Signed'
  BY Zenon, <1>1, <1>2 DEF Signed, CommandRead, commandVars
<1>3. NothingLoaded.leaf = None
  BY DEF NothingLoaded
<1>4. ASSUME Fatal \/ UNCHANGED mtls
      PROVE  Signed'
  BY Zenon, <1>2, <1>3, <1>4 DEF Fatal
<1>5. CASE ServerConfig
  <2>1. ASSUME mtls' = [mtls EXCEPT !.ca = ca.crt]
        PROVE  Signed'
    BY Zenon, <1>2, <2>1 DEF FilesType
  <2>2. ASSUME mtls' = [mtls EXCEPT !.leaf = leaf.crt]
        PROVE  Signed'
    BY Zenon, <1>2, <2>2 DEF FilesType
  <2> QED
    BY Zenon, <1>4, <1>5, <2>1, <2>2 DEF ServerConfig
<1> QED
  BY Zenon, <1>4, <1>5 DEF Server, StartServer, LoadPublic, ServerKilled, Stat, obtainCert,
     obtainCertKey, obtainCertFails, ProvisionGoes

\* The server, its orders, and the counters.
LEMMA ServerTypedStep ==
  ASSUME ServerTyped, [CertificatesNext]_certVars
  PROVE  ServerTyped'
<1> USE CertificateAssumption
<1>1. ASSUME UNCHANGED <<serverVars, crashes>>
      PROVE  ServerTyped'
  BY Zenon, <1>1 DEF ServerTyped, serverVars
<1>2. ASSUME crashes' \in 0..MaxCrashes, UNCHANGED <<server, acme, provision, acmeFailures>>
      PROVE  ServerTyped'
  BY Zenon, <1>2 DEF ServerTyped
<1>3. ASSUME crashes < MaxCrashes, crashes' = crashes + 1
      PROVE  crashes' \in 0..MaxCrashes
  BY SMTT(30), <1>3 DEF ServerTyped
<1>4. ASSUME acmeFailures < MaxAcmeFailures, acmeFailures' = acmeFailures + 1
      PROVE  acmeFailures' \in 0..MaxAcmeFailures
  BY SMTT(30), <1>4 DEF ServerTyped
<1>5. CASE Commands
  <2>1. UNCHANGED <<serverVars, crashes>> \/ \E r \in Runner : CommandKilled(r)
    BY Zenon, <1>5 DEF Commands, runGenCerts, runAddAgent, Begin, loadOrCreateCA, loadCA,
       writeCA, generateCert, RereadCA, WriteBundle
  <2> QED
    BY Zenon, <1>1, <1>2, <1>3, <2>1 DEF CommandKilled, serverVars
<1>6. ASSUME NEW p \in Pair, NEW step \in Step, ProvisionGoes(p, step)
      PROVE  server' = server /\ provision' \in [Pair -> Step]
  BY Zenon, <1>6 DEF ProvisionGoes, ServerTyped
<1>7. ASSUME Fatal
      PROVE  server' = "down" /\ provision' \in [Pair -> Step]
  BY Zenon, <1>7 DEF Fatal, Step
<1>8. CASE StartServer
  BY Zenon, <1>8 DEF StartServer, ServerTyped
<1>9. CASE ServerConfig
  <2>1. provision' \in [Pair -> Step] /\ server' \in {"down", "leaf", "leafkey", "up"}
    BY Zenon, <1>7, <1>9 DEF ServerConfig, ServerTyped, Step
  <2> QED
    BY Zenon, <1>9, <2>1 DEF ServerConfig, ServerTyped
<1>10. CASE LoadPublic
  <2>1. "public" \in Pair /\ "done" \in Step
    BY Zenon DEF Pair, Step
  <2> QED
    BY Zenon, <1>6, <1>7, <1>10, <2>1 DEF LoadPublic, ServerTyped
<1>11. CASE ServerKilled
  BY Zenon, <1>3, <1>7, <1>11 DEF ServerKilled, ServerTyped
<1>12. ASSUME NEW p \in Pair, Stat(p) \/ obtainCert(p) \/ obtainCertKey(p) \/ obtainCertFails(p)
       PROVE  ServerTyped'
  <2>1. server' \in {server, "down"} /\ provision' \in [Pair -> Step] /\ crashes' = crashes
    BY Zenon, <1>6, <1>7, <1>12 DEF Stat, obtainCert, obtainCertKey, obtainCertFails, Step
  <2>2. acme' \in [Pair -> SUBSET {"crt", "key"}]
    <3>1. ASSUME NEW f \in {"crt", "key"}, acme' = [acme EXCEPT ![p] = @ \cup {f}]
          PROVE  acme' \in [Pair -> SUBSET {"crt", "key"}]
      <4>1. acme[p] \cup {f} \in SUBSET {"crt", "key"}
        BY Zenon DEF ServerTyped
      <4> QED
        BY Zenon, <3>1, <4>1 DEF ServerTyped
    <3>2. ASSUME UNCHANGED acme
          PROVE  acme' \in [Pair -> SUBSET {"crt", "key"}]
      BY Zenon, <3>2 DEF ServerTyped
    <3> QED
      BY Zenon, <1>12, <3>1, <3>2 DEF Stat, obtainCert, obtainCertKey, obtainCertFails
  <2>3. acmeFailures' \in 0..MaxAcmeFailures
    BY Zenon, <1>4, <1>12 DEF Stat, obtainCert, obtainCertKey, obtainCertFails, ServerTyped
  <2> QED
    BY Zenon, <2>1, <2>2, <2>3 DEF ServerTyped
<1> QED
  BY Zenon, <1>1, <1>5, <1>8, <1>9, <1>10, <1>11, <1>12 DEF CertificatesNext, Server, certVars

\* Files, what commands and the server hold of them, and bundles refer to CAs
\* and leaves that commands made, with any number of shells, -force-ca or not:
\* nothing is issued before its signer has been read or made (loadOrCreateCA,
\* loadCA, issueCert, ServerConfig).
THEOREM CertificatesTyped ==
  CertificatesSpec => []CertificatesTypeOK
<1>1. CertificatesInit => Signed /\ ServerTyped
  <2> SUFFICES ASSUME CertificatesInit
               PROVE  Signed /\ ServerTyped
    OBVIOUS
  <2> USE DEF CertificatesInit
  <2>1. 0 \in 0..MaxCrashes /\ 0 \in 0..MaxAcmeFailures
    BY CertificateAssumption
  <2>2. NothingLoaded.leaf = None /\ leaf.crt = None
    BY DEF NothingLoaded
  <2>3. Signed
    BY Zenon, <2>2 DEF Signed, CommandRead
  <2>4. ServerTyped
    BY Zenon, <2>1 DEF ServerTyped, Step
  <2> QED
    BY Zenon, <2>3, <2>4
<1>2. Trusting /\ Signed /\ ServerTyped /\ [CertificatesNext]_certVars => (Signed /\ ServerTyped)'
  <2> SUFFICES ASSUME Trusting, Signed, ServerTyped, [CertificatesNext]_certVars
               PROVE  Signed'
    BY Zenon, ServerTypedStep
  <2>1. FilesType
    BY Zenon DEF Trusting
  <2>2. CASE UNCHANGED certVars
    BY Zenon, <2>2 DEF certVars, commandVars, serverVars, Signed, CommandRead
  <2> QED
    BY Zenon, <2>1, <2>2, CommandSigned, ServerSigned DEF CertificatesNext
<1>3. Trusting /\ Signed /\ ServerTyped => CertificatesTypeOK
  <2> SUFFICES ASSUME Trusting, Signed, ServerTyped
               PROVE  CertificatesTypeOK
    OBVIOUS
  <2>1. FilesType
    BY Zenon DEF Trusting
  <2>2. \A l \in AnyLeaf : l.signer # None => l \in Leaf
    BY Zenon DEF AnyLeaf, Leaf
  <2>3. leaf \in [crt : Leaf \cup {None}, key : Number \cup {None}]
    BY Zenon, <2>1, <2>2 DEF FilesType, Signed
  <2>4. mtls \in [leaf : Leaf \cup {None}, ca : Number \cup {None}]
    BY Zenon, <2>1, <2>2 DEF FilesType, Signed
  <2>5. bundles \subseteq [ca : Number, signer : Number]
    BY Zenon, <2>1 DEF FilesType, Signed, AnyBundle
  <2> QED
    BY Zenon, <2>1, <2>3, <2>4, <2>5 DEF CertificatesTypeOK, FilesType, ServerTyped, Step
<1> QED
  BY <1>1, <1>2, <1>3, TrustingAlways, PTL DEF CertificatesSpec
=============================================================================
