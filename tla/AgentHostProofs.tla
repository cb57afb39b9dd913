-------------------------- MODULE AgentHostProofs --------------------------
(***************************************************************************)
(* For any number of identifiers, ports, handler calls and failures: the    *)
(* ports of an assignment stay open, and no port is left open without a     *)
(* reason.                                                                  *)
(*                                                                         *)
(* What is said of ports assumes two things.  Handlers for one identifier   *)
(* do not overlap: the control plane makes its calls one after the other,   *)
(* and none outlasts its caller's timeout.  The starts they leave behind may *)
(* be overtaken.  Identifiers publish different host ports, which is the    *)
(* limitation the documentation states.                                    *)
(***************************************************************************)
EXTENDS AgentHost, TLAPS

\* The ports an identifier may be assigned.
PortsOf(i) == UNION {Elements(s.ports) : s \in Spec[i]}

PortsApart == \A i, j \in Id : i # j => PortsOf(i) \cap PortsOf(j) = {}

\* Handlers that open ports, and handlers that close them.
Opening == {"exists", "insert", "volumes"}

Closing == {"stop", "closing", "delete"}

\* A call has ports of its identifier left to go through.
CallSound(c) ==
  call[c] # None =>
    /\ call[c] \in CallType
    /\ Elements(call[c].left) \subseteq PortsOf(call[c].id)
    /\ call[c].step \in {"insert", "delete"} => call[c].left # <<>>
    /\ call[c].step \in Closing <=> call[c].spec = None
    /\ call[c].spec # None => Elements(call[c].left) \subseteq Elements(call[c].spec.ports)

\* What is recorded was assigned.
PortsTyped ==
  /\ ports = [i \in Id |-> ports[i]]
  /\ \A i \in Id : ports[i] = None \/ \E s \in Spec[i] : ports[i] = s.ports

HostTyped ==
  /\ PortsTyped
  /\ rules \in [Port \cup {Forward} -> Nat]
  /\ call = [c \in Call |-> call[c]]
  /\ \A c \in Call : CallSound(c)

\* Of two calls for an identifier one is a start that was left behind.
OneHandler ==
  \A c, d \in Call :
    c # d /\ call[c] # None /\ call[d] # None /\ call[c].id = call[d].id =>
      "start" \in {call[c].step, call[d].step}

\* A handler that opens ports has recorded them, one that closes them has taken
\* them out of the record.
Records ==
  \A c \in Call : call[c] # None =>
    /\ call[c].step \in Opening => ports[call[c].id] = call[c].spec.ports
    /\ call[c].step \in Closing => ports[call[c].id] = None

\* What ensureRule found not to be there is not there when it is inserted.
InsertedOnce ==
  /\ \A r \in Port \cup {Forward} : rules[r] <= 1
  /\ \A c \in Call : call[c] # None /\ call[c].step = "insert" => rules[Head(call[c].left)] = 0

\* A recorded port is open, or its handler has yet to open it.
OpenOrSoon ==
  \A i \in Id : ports[i] # None /\ i \notin refused =>
    \A p \in Elements(ports[i]) :
      \/ rules[p] > 0
      \/ \E c \in Call : /\ call[c] # None /\ call[c].id = i
                         /\ call[c].step \in {"exists", "insert"}
                         /\ p \in Elements(call[c].left)

HostSound == HostTyped /\ OneHandler /\ Records /\ InsertedOnce /\ OpenOrSoon

-----------------------------------------------------------------------------
(***************************************************************************)
(* Lists of ports.                                                         *)
(***************************************************************************)

LEMMA FirstAndRest ==
  ASSUME NEW S, NEW list \in Seq(S), list # <<>>
  PROVE  /\ Head(list) \in S /\ Tail(list) \in Seq(S)
         /\ Elements(list) = {Head(list)} \cup Elements(Tail(list))
<1>1. Len(list) \in Nat \ {0} /\ DOMAIN list = 1..Len(list) /\ Head(list) = list[1]
  OBVIOUS
<1>2. /\ Tail(list) \in Seq(S) /\ Len(Tail(list)) = Len(list) - 1
      /\ \A k \in 1..(Len(list) - 1) : Tail(list)[k] = list[k + 1]
  BY <1>1
<1>3. Elements(Tail(list)) \subseteq Elements(list)
  BY <1>1, <1>2 DEF Elements
<1>4. \A k \in 1..Len(list) : list[k] = Head(list) \/ list[k] \in Elements(Tail(list))
  <2> SUFFICES ASSUME NEW k \in 1..Len(list), k # 1
               PROVE  list[k] \in Elements(Tail(list))
    BY Zenon, <1>1
  <2>1. k - 1 \in 1..(Len(list) - 1) /\ (k - 1) + 1 = k
    BY <1>1
  <2>2. list[k] = Tail(list)[k - 1] /\ k - 1 \in DOMAIN Tail(list)
    BY <1>2, <2>1
  <2> QED
    BY Zenon, <2>2 DEF Elements
<1>5. Elements(list) \subseteq {Head(list)} \cup Elements(Tail(list))
  BY Zenon, <1>1, <1>4 DEF Elements
<1>6. Head(list) \in Elements(list) /\ Head(list) \in S
  BY <1>1 DEF Elements
<1> QED
  BY Zenon, <1>2, <1>3, <1>5, <1>6

LEMMA NoneLeft == Elements(<<>>) = {}
BY DEF Elements

\* What is recorded are ports of the identifier.
LEMMA SpecPorts ==
  ASSUME NEW i \in Id, NEW s \in Spec[i]
  PROVE  /\ s.ports \in Seq(Port) /\ Elements(s.ports) \subseteq PortsOf(i)
         /\ s # None /\ s.ports # None
BY Zenon, HostAssumption DEF SpecType, PortsOf

-----------------------------------------------------------------------------
(***************************************************************************)
(* A call goes on, with the given step and ports left.                     *)
(***************************************************************************)

Onward(c, next, list, share) ==
  call' = [call EXCEPT ![c] = [id |-> call[c].id, spec |-> call[c].spec, left |-> list,
                               step |-> next, onShare |-> share]]

\* The updates the handlers make of a call are of this form.
LEMMA OnwardIs ==
  ASSUME call = [d \in Call |-> call[d]], NEW c \in Call, call[c] \in CallType,
         NEW next, NEW share
  PROVE  /\ Goes(c, next) => Onward(c, next, call[c].left, call[c].onShare)
         /\ NextPort(c, next) => Onward(c, next, Tail(call[c].left), call[c].onShare)
         /\ call' = [call EXCEPT ![c].step = next, ![c].onShare = share] =>
              Onward(c, next, call[c].left, share)
<1>1. call[c] \in CallType
  OBVIOUS
<1>2. call[c] = [id |-> call[c].id, spec |-> call[c].spec, left |-> call[c].left,
                 step |-> call[c].step, onShare |-> call[c].onShare]
  BY Zenon, <1>1 DEF CallType
<1>3. [call[c] EXCEPT !.step = next] =
        [id |-> call[c].id, spec |-> call[c].spec, left |-> call[c].left,
         step |-> next, onShare |-> call[c].onShare]
  BY <1>1 DEF CallType
<1>4. [call[c] EXCEPT !.step = next, !.left = Tail(call[c].left)] =
        [id |-> call[c].id, spec |-> call[c].spec, left |-> Tail(call[c].left),
         step |-> next, onShare |-> call[c].onShare]
  <2> DEFINE r == [call[c] EXCEPT !.step = next]
  <2>1. r = [id |-> call[c].id, spec |-> call[c].spec, left |-> call[c].left,
             step |-> next, onShare |-> call[c].onShare]
    BY Zenon, <1>3
  <2> HIDE DEF r
  <2>2. \A x : [r EXCEPT !.left = x] =
          [id |-> call[c].id, spec |-> call[c].spec, left |-> x,
           step |-> next, onShare |-> call[c].onShare]
    BY SMTT(60), <2>1
  <2> QED
    BY Zenon, <2>2 DEF r
<1>5. [call[c] EXCEPT !.step = next, !.onShare = share] =
        [id |-> call[c].id, spec |-> call[c].spec, left |-> call[c].left,
         step |-> next, onShare |-> share]
  <2> DEFINE r == [call[c] EXCEPT !.step = next]
  <2>1. r = [id |-> call[c].id, spec |-> call[c].spec, left |-> call[c].left,
             step |-> next, onShare |-> call[c].onShare]
    BY Zenon, <1>3
  <2> HIDE DEF r
  <2>2. [r EXCEPT !.onShare = share] =
          [id |-> call[c].id, spec |-> call[c].spec, left |-> call[c].left,
           step |-> next, onShare |-> share]
    BY SMTT(60), <2>1
  <2> QED
    BY Zenon, <2>2 DEF r
<1>6. /\ Goes(c, next) => Onward(c, next, call[c].left, call[c].onShare)
  BY Zenon, <1>3 DEF Goes, Onward
<1>7. NextPort(c, next) => Onward(c, next, Tail(call[c].left), call[c].onShare)
  BY Zenon, <1>4 DEF NextPort, Onward
<1>8. call' = [call EXCEPT ![c].step = next, ![c].onShare = share] =>
        Onward(c, next, call[c].left, share)
  BY Zenon, <1>5 DEF Onward
<1> QED
  BY Zenon, <1>6, <1>7, <1>8

LEMMA OnwardForms ==
  ASSUME HostTyped, NEW c \in Call, call[c] # None, NEW next, NEW share
  PROVE  /\ Goes(c, next) => Onward(c, next, call[c].left, call[c].onShare)
         /\ NextPort(c, next) => Onward(c, next, Tail(call[c].left), call[c].onShare)
         /\ call' = [call EXCEPT ![c].step = next, ![c].onShare = share] =>
              Onward(c, next, call[c].left, share)
BY Zenon, OnwardIs DEF HostTyped, CallSound

LEMMA GoesOn ==
  ASSUME HostTyped, OneHandler, Records,
         NEW c \in Call, call[c] # None, call[c].step # "start",
         NEW next \in Step, NEW list \in Seq(Port), NEW share \in BOOLEAN,
         Elements(list) \subseteq Elements(call[c].left),
         next \in {"insert", "delete"} => list # <<>>,
         next \in Closing <=> call[c].step \in Closing,
         Onward(c, next, list, share),
         ports' = ports, rules' \in [Port \cup {Forward} -> Nat]
  PROVE  /\ HostTyped' /\ OneHandler' /\ Records'
         /\ call'[c] # None /\ call'[c].id = call[c].id /\ call'[c].step = next
         /\ call'[c].left = list
         /\ \A d \in Call : d # c => call'[d] = call[d]
<1> DEFINE rec == [id |-> call[c].id, spec |-> call[c].spec, left |-> list,
                   step |-> next, onShare |-> share]
<1>1. call[c] \in CallType
  BY Zenon DEF HostTyped, PortsTyped, CallSound
<1>2. rec \in CallType
  BY Zenon, <1>1 DEF CallType
<1>3. rec # None
  BY Zenon, <1>2, NoCallAssumption
<1>4. /\ rec.id = call[c].id /\ rec.spec = call[c].spec /\ rec.left = list /\ rec.step = next
  OBVIOUS
<1>5. call' = [call EXCEPT ![c] = rec]
  BY Zenon DEF Onward
<1> HIDE DEF rec
<1>6. /\ call' = [d \in Call |-> call'[d]] /\ call'[c] = rec
      /\ \A d \in Call : d # c => call'[d] = call[d]
  BY Zenon, <1>5 DEF HostTyped, PortsTyped
<1>7. \A d \in Call : CallSound(d)'
  <2>1. CallSound(c)'
    BY Zenon, <1>2, <1>4, <1>6 DEF HostTyped, PortsTyped, CallSound
  <2>2. ASSUME NEW d \in Call, d # c PROVE CallSound(d)'
    BY Zenon, <1>6, <2>2 DEF HostTyped, PortsTyped, CallSound
  <2> QED
    BY Zenon, <2>1, <2>2
<1>8. HostTyped'
  BY Zenon, <1>6, <1>7 DEF HostTyped, PortsTyped
<1>9. OneHandler'
  BY <1>3, <1>4, <1>6 DEF OneHandler
<1>10. call[c].step \in Opening \cup Closing
  BY Zenon, <1>1 DEF CallType, Step, Opening, Closing
<1>11. Records'
  BY <1>3, <1>4, <1>6, <1>10 DEF Records, Opening, Closing
<1> QED
  BY Zenon, <1>3, <1>4, <1>6, <1>8, <1>9, <1>11

\* ... to the next port.
LEMMA GoesToNext ==
  ASSUME HostTyped, OneHandler, Records,
         NEW c \in Call, call[c] # None, call[c].left # <<>>,
         NEW next \in {"exists", "closing"}, call[c].step # "start",
         next \in Closing <=> call[c].step \in Closing, NextPort(c, next),
         ports' = ports, rules' \in [Port \cup {Forward} -> Nat]
  PROVE  /\ HostTyped' /\ OneHandler' /\ Records'
         /\ call'[c] # None /\ call'[c].id = call[c].id /\ call'[c].step = next
         /\ Elements(call[c].left) = {Head(call[c].left)} \cup Elements(call'[c].left)
         /\ \A d \in Call : d # c => call'[d] = call[d]
<1> DEFINE rest == Tail(call[c].left)
<1>1. call[c].left \in Seq(Port) /\ call[c].onShare \in BOOLEAN
  BY Zenon DEF HostTyped, PortsTyped, CallSound, CallType
<1>2. /\ rest \in Seq(Port)
      /\ Elements(call[c].left) = {Head(call[c].left)} \cup Elements(rest)
  BY Zenon, <1>1, FirstAndRest
<1>3. next \in Step /\ next \notin {"insert", "delete"}
  BY Zenon DEF Step
<1>4. Onward(c, next, rest, call[c].onShare)
  BY Zenon, OnwardForms
<1> HIDE DEF rest
<1>5. Elements(rest) \subseteq Elements(call[c].left)
  BY Zenon, <1>2
<1>6. /\ HostTyped' /\ OneHandler' /\ Records'
      /\ call'[c] # None /\ call'[c].id = call[c].id /\ call'[c].step = next
      /\ call'[c].left = rest
      /\ \A d \in Call : d # c => call'[d] = call[d]
  BY <1>1, <1>2, <1>3, <1>4, <1>5, GoesOn
<1> QED
  BY Zenon, <1>2, <1>6

\* A call is over.
LEMMA IsOver ==
  ASSUME HostTyped, OneHandler, Records, NEW c \in Call, Returns(c), ports' = ports,
         rules' = rules
  PROVE  /\ HostTyped' /\ OneHandler' /\ Records' /\ call'[c] = None
         /\ \A d \in Call : d # c => call'[d] = call[d]
<1>1. /\ call' = [d \in Call |-> call'[d]] /\ call'[c] = None
      /\ \A d \in Call : d # c => call'[d] = call[d]
  BY Zenon DEF HostTyped, PortsTyped, Returns
<1>2. \A d \in Call : CallSound(d)'
  BY Zenon, <1>1 DEF HostTyped, PortsTyped, CallSound
<1> QED
  BY ZenonT(60), <1>1, <1>2 DEF HostTyped, PortsTyped, OneHandler, Records

\* Calls with a port in common are for the same identifier.
LEMMA SamePort ==
  ASSUME HostTyped, PortsApart, NEW c \in Call, NEW d \in Call, call[c] # None, call[d] # None,
         NEW p \in Elements(call[c].left), p \in Elements(call[d].left)
  PROVE  call[c].id = call[d].id
<1>1. call[c].id \in Id /\ call[d].id \in Id
  BY Zenon DEF HostTyped, PortsTyped, CallSound, CallType
<1>2. p \in PortsOf(call[c].id) /\ p \in PortsOf(call[d].id)
  BY Zenon DEF HostTyped, PortsTyped, CallSound
<1> QED
  BY Zenon, <1>1, <1>2 DEF PortsApart

\* A call may drop a port from its list once it is open, and close ports that
\* nobody has recorded.
LEMMA StaysOpen ==
  ASSUME OpenOrSoon, NEW c \in Call, ports' = ports, refused \subseteq refused',
         \A d \in Call : d # c => call'[d] = call[d],
         \A i \in Id : ports[i] # None =>
           \A p \in Elements(ports[i]) : rules[p] > 0 => rules'[p] > 0,
         call[c] # None /\ call[c].step \in {"exists", "insert"} =>
           \A p \in Elements(call[c].left) :
             \/ call[c].id \in refused'
             \/ rules'[p] > 0
             \/ /\ call'[c] # None /\ call'[c].id = call[c].id
                /\ call'[c].step \in {"exists", "insert"} /\ p \in Elements(call'[c].left)
  PROVE  OpenOrSoon'
<1> SUFFICES ASSUME NEW i \in Id, ports[i] # None, i \notin refused', NEW p \in Elements(ports[i]),
                    ~(rules'[p] > 0)
             PROVE  \E d \in Call : /\ call'[d] # None /\ call'[d].id = i
                                    /\ call'[d].step \in {"exists", "insert"}
                                    /\ p \in Elements(call'[d].left)
  BY DEF OpenOrSoon
<1>1. PICK d \in Call : /\ call[d] # None /\ call[d].id = i
                        /\ call[d].step \in {"exists", "insert"}
                        /\ p \in Elements(call[d].left)
  BY ZenonT(60) DEF OpenOrSoon
<1>2. CASE d = c
  BY Zenon, <1>1, <1>2
<1>3. CASE d # c
  BY Zenon, <1>1, <1>3
<1> QED
  BY Zenon, <1>2, <1>3

-----------------------------------------------------------------------------
(***************************************************************************)
(* handleAssign, step by step.                                             *)
(***************************************************************************)

\* What is known of a call that is at the given step.
LEMMA AtStep ==
  ASSUME HostTyped, NEW c \in Call, NEW step, At(c, step)
  PROVE  /\ call[c] # None /\ call[c] \in CallType /\ call[c].step = step
         /\ call[c].id \in Id /\ call[c].left \in Seq(Port) /\ call[c].onShare \in BOOLEAN
         /\ Elements(call[c].left) \subseteq PortsOf(call[c].id)
         /\ step \in {"insert", "delete"} => call[c].left # <<>>
BY Zenon DEF HostTyped, PortsTyped, CallSound, CallType, At

\* iptables fails, and the other ports are not tried.
LEMMA Refused ==
  ASSUME HostSound, NEW c \in Call, At(c, "exists") \/ At(c, "insert"), Goes(c, "volumes"),
         refused' = refused \cup {call[c].id}, ports' = ports, rules' = rules
  PROVE  HostSound'
<1>1. /\ call[c] # None /\ call[c].step \in {"exists", "insert"}
      /\ call[c].left \in Seq(Port) /\ call[c].onShare \in BOOLEAN
  BY Zenon, AtStep DEF HostSound
<1>2. Onward(c, "volumes", call[c].left, call[c].onShare)
  BY Zenon, <1>1, OnwardForms DEF HostSound
<1>3. rules' \in [Port \cup {Forward} -> Nat] /\ "volumes" \in Step
      /\ "volumes" \notin Closing /\ call[c].step \notin Closing
  BY Zenon, <1>1 DEF HostSound, HostTyped, PortsTyped, Step, Closing
<1>4. /\ HostTyped' /\ OneHandler' /\ Records'
      /\ call'[c].step = "volumes"
      /\ \A d \in Call : d # c => call'[d] = call[d]
  BY SMTT(30), <1>1, <1>2, <1>3, GoesOn DEF HostSound
<1>5. InsertedOnce'
  BY Zenon, <1>4 DEF HostSound, InsertedOnce
<1>6. OpenOrSoon'
  BY Zenon, <1>4, StaysOpen DEF HostSound
<1> QED
  BY Zenon, <1>4, <1>5, <1>6 DEF HostSound

LEMMA EnsureKeeps ==
  ASSUME HostSound, NEW c \in Call, ensureRule(c)
  PROVE  HostSound'
<1> DEFINE p == Head(call[c].left)
<1>1. /\ call[c] # None /\ call[c].step = "exists" /\ call[c].left # <<>>
      /\ call[c].left \in Seq(Port) /\ call[c].onShare \in BOOLEAN
      /\ ports' = ports /\ rules' = rules
  BY Zenon, AtStep DEF ensureRule, HostSound
<1>2. p \in Port
  BY Zenon, <1>1, FirstAndRest
<1>3. /\ rules' \in [Port \cup {Forward} -> Nat] /\ {"exists", "insert"} \subseteq Step
      /\ "exists" \notin Closing /\ "insert" \notin Closing
  BY Zenon, <1>1 DEF HostSound, HostTyped, PortsTyped, Step, Closing
<1>4. CASE rules[p] > 0 /\ NextPort(c, "exists") /\ refused' = refused
  <2>1. /\ HostTyped' /\ OneHandler' /\ Records'
        /\ call'[c] # None /\ call'[c].id = call[c].id /\ call'[c].step = "exists"
        /\ Elements(call[c].left) = {p} \cup Elements(call'[c].left)
        /\ \A d \in Call : d # c => call'[d] = call[d]
    BY Zenon, <1>1, <1>3, <1>4, GoesToNext DEF HostSound
  <2>2. InsertedOnce'
    BY Zenon, <1>1, <2>1 DEF HostSound, InsertedOnce
  <2>3. OpenOrSoon'
    BY Zenon, <1>1, <1>4, <2>1, StaysOpen DEF HostSound
  <2> QED
    BY Zenon, <2>1, <2>2, <2>3 DEF HostSound
<1>5. CASE ~(rules[p] > 0) /\ Goes(c, "insert") /\ refused' = refused
  <2>1. Onward(c, "insert", call[c].left, call[c].onShare)
    BY Zenon, <1>1, <1>5, OnwardForms DEF HostSound
  <2>2. /\ HostTyped' /\ OneHandler' /\ Records'
        /\ call'[c] # None /\ call'[c].id = call[c].id /\ call'[c].step = "insert"
        /\ call'[c].left = call[c].left
        /\ \A d \in Call : d # c => call'[d] = call[d]
    BY <1>1, <1>3, <2>1, GoesOn DEF HostSound
  <2>3. rules[p] = 0
    BY <1>2, <1>5 DEF HostSound, HostTyped, PortsTyped
  <2>4. InsertedOnce'
    BY Zenon, <1>1, <2>2, <2>3 DEF HostSound, InsertedOnce
  <2>5. OpenOrSoon'
    BY Zenon, <1>1, <1>5, <2>2, StaysOpen DEF HostSound
  <2> QED
    BY Zenon, <2>2, <2>4, <2>5 DEF HostSound
<1>6. CASE Goes(c, "volumes") /\ refused' = refused \cup {call[c].id}
  BY Zenon, <1>1, <1>6, Refused DEF ensureRule
<1> QED
  BY Zenon, <1>4, <1>5, <1>6 DEF ensureRule

LEMMA InsertKeeps ==
  ASSUME HostSound, PortsApart, NEW c \in Call, InsertRule(c)
  PROVE  HostSound'
<1> DEFINE p == Head(call[c].left)
<1>1. /\ call[c] # None /\ call[c].step = "insert" /\ call[c].left # <<>>
      /\ call[c].left \in Seq(Port)
      /\ ports' = ports /\ At(c, "insert")
  BY Zenon, AtStep DEF InsertRule, HostSound
<1>2. p \in Port /\ p \in Elements(call[c].left)
  BY ZenonT(60), <1>1, FirstAndRest
<1>3. CASE rules' = [rules EXCEPT ![p] = @ + 1] /\ NextPort(c, "exists") /\ refused' = refused
  <2>1. /\ rules' \in [Port \cup {Forward} -> Nat] /\ rules[p] = 0 /\ rules'[p] = 1
        /\ \A r \in Port \cup {Forward} : r # p => rules'[r] = rules[r]
    BY <1>1, <1>2, <1>3 DEF HostSound, HostTyped, PortsTyped, InsertedOnce
  <2>2. "exists" \notin Closing /\ "insert" \notin Closing
    BY Zenon DEF Closing
  <2>3. /\ HostTyped' /\ OneHandler' /\ Records'
        /\ call'[c] # None /\ call'[c].id = call[c].id /\ call'[c].step = "exists"
        /\ Elements(call[c].left) = {p} \cup Elements(call'[c].left)
        /\ \A d \in Call : d # c => call'[d] = call[d]
    BY ZenonT(60), <1>1, <1>3, <2>1, <2>2, GoesToNext DEF HostSound
  <2>4. ASSUME NEW d \in Call, d # c, call[d] # None, call[d].step = "insert"
        PROVE  Head(call[d].left) \in Port /\ Head(call[d].left) # p
    <3>1. call[d].left \in Seq(Port) /\ call[d].left # <<>>
      BY Zenon, <2>4 DEF HostSound, HostTyped, PortsTyped, CallSound, CallType
    <3>2. Head(call[d].left) \in Port /\ Head(call[d].left) \in Elements(call[d].left)
      BY Zenon, <3>1, FirstAndRest
    <3>3. call[d].id # call[c].id
      BY Zenon, <1>1, <2>4 DEF HostSound, OneHandler
    <3> QED
      BY Zenon, <1>1, <1>2, <2>4, <3>2, <3>3, SamePort DEF HostSound
  <2>5. InsertedOnce'
    BY <2>1, <2>3, <2>4 DEF HostSound, InsertedOnce
  <2>6. \A i \in Id : ports[i] # None =>
          \A q \in Elements(ports[i]) : rules[q] > 0 => rules'[q] > 0
    <3> SUFFICES ASSUME NEW i \in Id, ports[i] # None, NEW q \in Elements(ports[i]), rules[q] > 0
                 PROVE  rules'[q] > 0
      OBVIOUS
    <3>1. q \in Port
      BY SpecPorts DEF HostSound, HostTyped, PortsTyped, Elements
    <3> QED
      BY <2>1, <3>1
  <2>7. OpenOrSoon'
    BY <1>1, <1>3, <2>1, <2>3, <2>6, StaysOpen DEF HostSound
  <2> QED
    BY Zenon, <2>3, <2>5, <2>7 DEF HostSound
<1>4. CASE Goes(c, "volumes") /\ refused' = refused \cup {call[c].id} /\ rules' = rules
  BY Zenon, <1>1, <1>4, Refused
<1> QED
  BY Zenon, <1>3, <1>4 DEF InsertRule

\* A step of a handler that neither touches a rule nor drops a port.
LEMMA GoesKeeps ==
  ASSUME HostSound, NEW c \in Call, NEW from \in Step, NEW to \in Step, NEW share \in BOOLEAN,
         At(c, from), from # "start", to # "insert", to = "delete" => call[c].left # <<>>,
         to \in Closing <=> from \in Closing,
         from \in {"exists", "insert"} => call[c].left = <<>>,
         Onward(c, to, call[c].left, share),
         ports' = ports, rules' = rules, refused' = refused
  PROVE  HostSound'
<1>1. /\ call[c] # None /\ call[c].step = from /\ call[c].left \in Seq(Port)
      /\ rules' \in [Port \cup {Forward} -> Nat]
  BY Zenon, AtStep DEF HostSound, HostTyped, PortsTyped
<1>2. /\ HostTyped' /\ OneHandler' /\ Records'
      /\ call'[c].step = to
      /\ \A d \in Call : d # c => call'[d] = call[d]
  BY <1>1, GoesOn DEF HostSound
<1>3. InsertedOnce'
  BY Zenon, <1>2 DEF HostSound, InsertedOnce
<1>4. OpenOrSoon'
  BY Zenon, <1>1, <1>2, StaysOpen, NoneLeft DEF HostSound
<1> QED
  BY Zenon, <1>2, <1>3, <1>4 DEF HostSound

\* The end of a call.
LEMMA ReturnsKeeps ==
  ASSUME HostSound, NEW c \in Call, call[c] # None, call[c].step \notin {"exists", "insert"},
         Returns(c), ports' = ports, rules' = rules, refused' = refused
  PROVE  HostSound'
<1>1. /\ HostTyped' /\ OneHandler' /\ Records' /\ call'[c] = None
      /\ \A d \in Call : d # c => call'[d] = call[d]
  BY Zenon, IsOver DEF HostSound
<1>2. InsertedOnce'
  BY Zenon, <1>1 DEF HostSound, InsertedOnce
<1>3. OpenOrSoon'
  BY Zenon, <1>1, StaysOpen DEF HostSound
<1> QED
  BY Zenon, <1>1, <1>2, <1>3 DEF HostSound

LEMMA OpenedKeeps ==
  ASSUME HostSound, NEW c \in Call, PortsOpened(c)
  PROVE  HostSound'
<1>1. Onward(c, "volumes", call[c].left, call[c].onShare) /\ call[c].onShare \in BOOLEAN
  BY Zenon, AtStep, OnwardForms DEF PortsOpened, HostSound
<1>2. {"exists", "volumes"} \subseteq Step \ Closing
  BY Zenon DEF Step, Closing
<1> QED
  BY Zenon, <1>1, <1>2, GoesKeeps DEF PortsOpened

LEMMA VolumesKeeps ==
  ASSUME HostSound, NEW c \in Call, resolveVolumes(c), mounted \in BOOLEAN
  PROVE  HostSound'
<1>1. call[c] # None /\ call[c].step = "volumes"
  BY Zenon, AtStep DEF resolveVolumes, HostSound
<1>2. CASE Returns(c)
  BY Zenon, <1>1, <1>2, ReturnsKeeps DEF resolveVolumes
<1>3. CASE call' = [call EXCEPT ![c].step = "start", ![c].onShare = mounted]
  <2>1. Onward(c, "start", call[c].left, mounted)
    BY Zenon, <1>1, <1>3, OnwardForms DEF HostSound
  <2>2. {"volumes", "start"} \subseteq Step \ Closing
    BY Zenon DEF Step, Closing
  <2> QED
    BY Zenon, <2>1, <2>2, GoesKeeps DEF resolveVolumes
<1> QED
  BY Zenon, <1>2, <1>3 DEF resolveVolumes

LEMMA StartKeeps ==
  ASSUME HostSound, NEW c \in Call, StartContainer(c)
  PROVE  HostSound'
<1>1. call[c] # None /\ call[c].step = "start"
  BY Zenon, AtStep DEF StartContainer, HostSound
<1> QED
  BY Zenon, <1>1, ReturnsKeeps DEF StartContainer

\* A call arrives, and while it is handled none other for its identifier.
LEMMA ArrivesTyped ==
  ASSUME HostTyped, OneHandler, NEW c \in Call, call[c] = None,
         NEW i \in Id, NEW rec \in CallType, rec.id = i,
         Elements(rec.left) \subseteq PortsOf(i), rec.step \in {"exists", "stop"},
         rec.step \in Closing <=> rec.spec = None,
         rec.spec # None => Elements(rec.left) \subseteq Elements(rec.spec.ports),
         Handling(i) = {},
         call' = [call EXCEPT ![c] = rec],
         PortsTyped', rules' = rules
  PROVE  /\ HostTyped' /\ OneHandler'
         /\ call'[c] = rec /\ rec # None
         /\ \A d \in Call : d # c => call'[d] = call[d]
         /\ \A d \in Call : call[d] # None /\ call[d].id = i => call[d].step = "start"
<1>1. /\ call'[c] = rec /\ \A d \in Call : d # c => call'[d] = call[d]
      /\ call' = [d \in Call |-> call'[d]]
  BY Zenon DEF HostTyped, PortsTyped
<1>2. rec # None
  BY Zenon, NoCallAssumption
<1>3. \A d \in Call : CallSound(d)'
  <2>1. CallSound(c)'
    BY Zenon, <1>1 DEF CallSound
  <2>2. ASSUME NEW d \in Call, d # c PROVE CallSound(d)'
    BY Zenon, <1>1, <2>2 DEF HostTyped, PortsTyped, CallSound
  <2> QED
    BY Zenon, <2>1, <2>2
<1>4. HostTyped'
  BY Zenon, <1>1, <1>3 DEF HostTyped, PortsTyped
<1>5. \A d \in Call : call[d] # None /\ call[d].id = i => call[d].step = "start"
  BY Zenon DEF UnderWay, Handling
<1>6. OneHandler'
  BY ZenonT(60), <1>1, <1>2, <1>5 DEF OneHandler
<1> QED
  BY Zenon, <1>1, <1>2, <1>4, <1>5, <1>6

LEMMA AssignKeeps ==
  ASSUME HostSound, Overlap = FALSE, NEW c \in Call, NEW i \in Id, NEW s \in Spec[i],
         handleAssign(c, i, s)
  PROVE  HostSound'
<1> DEFINE rec == [id |-> i, spec |-> s, left |-> s.ports, step |-> "exists", onShare |-> FALSE]
<1>1. /\ s.ports \in Seq(Port) /\ Elements(s.ports) \subseteq PortsOf(i)
      /\ s # None /\ s.ports # None
  BY Zenon, SpecPorts
<1>2. rec \in CallType
  BY Zenon, <1>1 DEF CallType, Step
<1>3. /\ call[c] = None /\ Handling(i) = {} /\ call' = [call EXCEPT ![c] = rec]
      /\ ports' = [ports EXCEPT ![i] = s.ports] /\ refused' = refused \ {i} /\ rules' = rules
  BY Zenon DEF handleAssign, Arrives
<1>4. /\ rec.id = i /\ rec.left = s.ports /\ rec.step = "exists" /\ rec.spec = s
      /\ rec.step \notin Closing
  BY Zenon DEF Closing
<1> HIDE DEF rec
<1>5. /\ ports' = [j \in Id |-> ports'[j]] /\ ports'[i] = s.ports
      /\ \A j \in Id : j # i => ports'[j] = ports[j]
  BY Zenon, <1>3 DEF HostSound, HostTyped, PortsTyped
<1>6. PortsTyped'
  BY Zenon, <1>5 DEF HostSound, HostTyped, PortsTyped
<1>7. /\ HostTyped' /\ OneHandler'
      /\ call'[c] = rec /\ rec # None
      /\ \A d \in Call : d # c => call'[d] = call[d]
      /\ \A d \in Call : call[d] # None /\ call[d].id = i => call[d].step = "start"
  <2>1. /\ HostTyped /\ OneHandler /\ Elements(rec.left) \subseteq PortsOf(i)
        /\ rec.step \in Closing <=> rec.spec = None
        /\ rec.spec # None => Elements(rec.left) \subseteq Elements(rec.spec.ports)
        /\ rec.step \in {"exists", "stop"}
    BY Zenon, <1>1, <1>3, <1>4 DEF HostSound
  <2> QED
    BY ZenonT(60), <1>2, <1>3, <1>4, <1>6, <2>1, ArrivesTyped
<1>8. \A d \in Call : call[d] # None => call[d].id \in Id
  BY Zenon DEF HostSound, HostTyped, PortsTyped, CallSound, CallType
<1>9. Records'
  <2> SUFFICES ASSUME NEW d \in Call, call'[d] # None
               PROVE  /\ call'[d].step \in Opening => ports'[call'[d].id] = call'[d].spec.ports
                      /\ call'[d].step \in Closing => ports'[call'[d].id] = None
    BY Zenon DEF Records
  <2>1. CASE d = c
    BY Zenon, <1>4, <1>5, <1>7, <2>1
  <2>2. CASE d # c /\ call[d].id = i
    BY Zenon, <1>7, <2>2 DEF Opening, Closing
  <2>3. CASE d # c /\ call[d].id # i
    BY <1>5, <1>7, <1>8, <2>3 DEF HostSound, Records
  <2> QED
    BY Zenon, <2>1, <2>2, <2>3
<1>10. InsertedOnce'
  BY Zenon, <1>3, <1>4, <1>7 DEF HostSound, InsertedOnce
<1>11. OpenOrSoon'
  <2> SUFFICES ASSUME NEW j \in Id, ports'[j] # None, j \notin refused',
                      NEW p \in Elements(ports'[j]), ~(rules'[p] > 0)
               PROVE  \E d \in Call : /\ call'[d] # None /\ call'[d].id = j
                                      /\ call'[d].step \in {"exists", "insert"}
                                      /\ p \in Elements(call'[d].left)
    BY Zenon DEF OpenOrSoon
  <2>1. CASE j = i
    BY ZenonT(60), <1>4, <1>5, <1>7, <2>1
  <2>2. CASE j # i
    BY SMTT(30), <1>3, <1>5, <1>7, <2>2 DEF HostSound, OpenOrSoon
  <2> QED
    BY Zenon, <2>1, <2>2
<1> QED
  BY Zenon, <1>7, <1>9, <1>10, <1>11 DEF HostSound

-----------------------------------------------------------------------------
(***************************************************************************)
(* handleUnassign, step by step.                                           *)
(***************************************************************************)

LEMMA UnassignKeeps ==
  ASSUME HostSound, Overlap = FALSE, NEW c \in Call, NEW i \in Id, handleUnassign(c, i)
  PROVE  HostSound'
<1> DEFINE rec == [id |-> i, spec |-> None, left |-> Recorded(i), step |-> "stop",
                   onShare |-> FALSE]
<1>1. Recorded(i) \in Seq(Port) /\ Elements(Recorded(i)) \subseteq PortsOf(i)
  BY SpecPorts, NoneLeft DEF HostSound, HostTyped, PortsTyped, Recorded
<1>2. rec \in CallType
  <2>1. "stop" \in Step /\ FALSE \in BOOLEAN /\ None \in (UNION {Spec[j] : j \in Id}) \cup {None}
    BY Zenon DEF Step
  <2> QED
    BY Zenon, <1>1, <2>1 DEF CallType
<1>3. /\ call[c] = None /\ Handling(i) = {} /\ call' = [call EXCEPT ![c] = rec]
      /\ ports' = [ports EXCEPT ![i] = None] /\ refused' = refused /\ rules' = rules
  BY Zenon DEF handleUnassign, Arrives
<1>4. /\ rec.id = i /\ rec.left = Recorded(i) /\ rec.step = "stop" /\ rec.spec = None
      /\ rec.step \in Closing /\ rec.step \notin Opening
  BY Zenon DEF Closing, Opening
<1> HIDE DEF rec
<1>5. /\ ports' = [j \in Id |-> ports'[j]] /\ ports'[i] = None
      /\ \A j \in Id : j # i => ports'[j] = ports[j]
  BY Zenon, <1>3 DEF HostSound, HostTyped, PortsTyped
<1>6. PortsTyped'
  BY Zenon, <1>5 DEF HostSound, HostTyped, PortsTyped
<1>7. /\ HostTyped' /\ OneHandler'
      /\ call'[c] = rec /\ rec # None
      /\ \A d \in Call : d # c => call'[d] = call[d]
      /\ \A d \in Call : call[d] # None /\ call[d].id = i => call[d].step = "start"
  <2>1. /\ HostTyped /\ OneHandler /\ Elements(rec.left) \subseteq PortsOf(i)
        /\ rec.step \in Closing <=> rec.spec = None
        /\ rec.spec # None => Elements(rec.left) \subseteq Elements(rec.spec.ports)
        /\ rec.step \in {"exists", "stop"}
    BY Zenon, <1>1, <1>3, <1>4 DEF HostSound
  <2> QED
    BY ZenonT(60), <1>2, <1>3, <1>4, <1>6, <2>1, ArrivesTyped
<1>8. \A d \in Call : call[d] # None => call[d].id \in Id
  BY Zenon DEF HostSound, HostTyped, PortsTyped, CallSound, CallType
<1>9. Records'
  <2> SUFFICES ASSUME NEW d \in Call, call'[d] # None
               PROVE  /\ call'[d].step \in Opening => ports'[call'[d].id] = call'[d].spec.ports
                      /\ call'[d].step \in Closing => ports'[call'[d].id] = None
    BY Zenon DEF Records
  <2>1. CASE d = c
    BY Zenon, <1>4, <1>5, <1>7, <2>1
  <2>2. CASE d # c /\ call[d].id = i
    BY Zenon, <1>7, <2>2 DEF Opening, Closing
  <2>3. CASE d # c /\ call[d].id # i
    BY <1>5, <1>7, <1>8, <2>3 DEF HostSound, Records
  <2> QED
    BY Zenon, <2>1, <2>2, <2>3
<1>10. InsertedOnce'
  BY Zenon, <1>3, <1>4, <1>7 DEF HostSound, InsertedOnce
<1>11. OpenOrSoon'
  BY <1>3, <1>5, <1>7 DEF HostSound, OpenOrSoon
<1> QED
  BY Zenon, <1>7, <1>9, <1>10, <1>11 DEF HostSound

LEMMA StopKeeps ==
  ASSUME HostSound, NEW c \in Call, StopContainer(c)
  PROVE  HostSound'
<1>1. Onward(c, "closing", call[c].left, call[c].onShare) /\ call[c].onShare \in BOOLEAN
  BY Zenon, AtStep, OnwardForms DEF StopContainer, HostSound
<1>2. {"stop", "closing"} \subseteq Step \cap Closing
  BY Zenon DEF Step, Closing
<1> QED
  BY Zenon, <1>1, <1>2, GoesKeeps DEF StopContainer

\* The next port, with the rules as they are or without one of the identifier's:
\* nobody has it recorded.
LEMMA ClosesNext ==
  ASSUME HostSound, PortsApart, NEW c \in Call, NEW from \in {"closing", "delete"}, At(c, from),
         call[c].left # <<>>, NextPort(c, "closing"), ports' = ports, refused' = refused,
         NEW n \in 0..rules[Head(call[c].left)],
         rules' = [rules EXCEPT ![Head(call[c].left)] = n]
  PROVE  HostSound'
<1> DEFINE p == Head(call[c].left)
<1>1. /\ call[c] # None /\ call[c].step = from /\ call[c].left \in Seq(Port)
      /\ call[c].id \in Id /\ Elements(call[c].left) \subseteq PortsOf(call[c].id)
  BY Zenon, AtStep DEF HostSound
<1>2. p \in Port /\ p \in PortsOf(call[c].id)
  BY <1>1, FirstAndRest
<1>3. /\ rules' \in [Port \cup {Forward} -> Nat] /\ rules'[p] <= rules[p]
      /\ \A r \in Port \cup {Forward} : r # p => rules'[r] = rules[r]
  BY <1>2 DEF HostSound, HostTyped, PortsTyped
<1>4. {"closing", "delete"} \subseteq Closing /\ from # "start"
  BY Zenon DEF Closing
<1>5. /\ HostTyped' /\ OneHandler' /\ Records'
      /\ call'[c].step = "closing"
      /\ \A d \in Call : d # c => call'[d] = call[d]
  BY Zenon, <1>1, <1>3, <1>4, GoesToNext DEF HostSound
<1>6. InsertedOnce'
  <2>1. \A r \in Port \cup {Forward} : rules'[r] <= 1
    BY <1>2, <1>3 DEF HostSound, HostTyped, PortsTyped, InsertedOnce
  <2>2. ASSUME NEW d \in Call, call'[d] # None, call'[d].step = "insert"
        PROVE  rules'[Head(call'[d].left)] = 0
    <3>1. d # c /\ call'[d] = call[d]
      BY Zenon, <1>5, <2>2
    <3>2. call[d].left \in Seq(Port) /\ call[d].left # <<>>
      BY Zenon, <2>2, <3>1 DEF HostSound, HostTyped, PortsTyped, CallSound, CallType
    <3>3. Head(call[d].left) \in Port /\ rules[Head(call[d].left)] = 0
      BY Zenon, <2>2, <3>1, <3>2, FirstAndRest DEF HostSound, InsertedOnce
    <3> QED
      BY <1>2, <1>3, <3>1, <3>3 DEF HostSound, HostTyped, PortsTyped
  <2> QED
    BY Zenon, <2>1, <2>2 DEF InsertedOnce
<1>7. ports[call[c].id] = None
  BY Zenon, <1>1, <1>4 DEF HostSound, Records
<1>8. ASSUME NEW i \in Id, ports[i] # None, NEW q \in Elements(ports[i]), rules[q] > 0
      PROVE  rules'[q] > 0
  <2>1. q \in PortsOf(i) /\ q \in Port
    BY <1>8, SpecPorts DEF HostSound, HostTyped, PortsTyped, Elements
  <2>2. q # p
    BY Zenon, <1>1, <1>2, <1>7, <1>8, <2>1 DEF PortsApart
  <2> QED
    BY Zenon, <1>3, <1>8, <2>1, <2>2
<1>9. OpenOrSoon'
  BY Zenon, <1>1, <1>4, <1>5, <1>8, StaysOpen DEF HostSound, Closing
<1> QED
  BY Zenon, <1>5, <1>6, <1>9 DEF HostSound

LEMMA CloseKeeps ==
  ASSUME HostSound, PortsApart, NEW c \in Call, ClosePort(c)
  PROVE  HostSound'
<1>1. /\ At(c, "closing") /\ call[c].left # <<>> /\ call[c].left \in Seq(Port)
      /\ call[c] # None /\ call[c].onShare \in BOOLEAN
      /\ ports' = ports /\ refused' = refused /\ rules' = rules
  BY Zenon, AtStep DEF ClosePort, HostSound
<1>2. CASE Goes(c, "delete")
  <2>1. Onward(c, "delete", call[c].left, call[c].onShare)
    BY Zenon, <1>1, <1>2, OnwardForms DEF HostSound
  <2>2. {"closing", "delete"} \subseteq Step \cap Closing
    BY Zenon DEF Step, Closing
  <2> QED
    BY Zenon, <1>1, <2>1, <2>2, GoesKeeps
<1>3. CASE NextPort(c, "closing")
  <2>1. Head(call[c].left) \in Port
    BY Zenon, <1>1, FirstAndRest
  <2>2. /\ rules[Head(call[c].left)] \in 0..rules[Head(call[c].left)]
        /\ rules' = [rules EXCEPT ![Head(call[c].left)] = rules[Head(call[c].left)]]
    BY <1>1, <2>1 DEF HostSound, HostTyped, PortsTyped
  <2> QED
    BY Zenon, <1>1, <1>3, <2>2, ClosesNext
<1> QED
  BY Zenon, <1>2, <1>3 DEF ClosePort

LEMMA DeleteKeeps ==
  ASSUME HostSound, PortsApart, NEW c \in Call, DeleteRule(c)
  PROVE  HostSound'
<1> DEFINE p == Head(call[c].left)
<1>1. /\ At(c, "delete") /\ call[c].left # <<>> /\ call[c].left \in Seq(Port)
      /\ ports' = ports /\ refused' = refused /\ NextPort(c, "closing")
  BY Zenon, AtStep DEF DeleteRule, HostSound
<1>2. p \in Port /\ rules[p] \in Nat
  BY Zenon, <1>1, FirstAndRest DEF HostSound, HostTyped, PortsTyped
<1>3. \E n \in 0..rules[p] : rules' = [rules EXCEPT ![p] = n]
  <2>1. CASE rules' = [rules EXCEPT ![p] = IF @ = 0 THEN 0 ELSE @ - 1]
    <3>1. (IF rules[p] = 0 THEN 0 ELSE rules[p] - 1) \in 0..rules[p]
      BY <1>2
    <3> QED
      BY Zenon, <2>1, <3>1
  <2>2. CASE rules' = rules
    <3>1. rules' = [rules EXCEPT ![p] = rules[p]] /\ rules[p] \in 0..rules[p]
      BY <1>2, <2>2 DEF HostSound, HostTyped, PortsTyped
    <3> QED
      BY Zenon, <3>1
  <2> QED
    BY Zenon, <2>1, <2>2 DEF DeleteRule
<1> QED
  BY Zenon, <1>1, <1>3, ClosesNext

LEMMA ClosedKeeps ==
  ASSUME HostSound, NEW c \in Call, PortsClosed(c)
  PROVE  HostSound'
<1>1. call[c] # None /\ call[c].step = "closing"
  BY Zenon, AtStep DEF PortsClosed, HostSound
<1> QED
  BY Zenon, <1>1, ReturnsKeeps DEF PortsClosed

\* The agent starts with no calls and no records.
LEMMA Starts ==
  ASSUME NEW there \in [Port \cup {Forward} -> Nat], \A r \in Port \cup {Forward} : there[r] <= 1
  PROVE  /\ EnsureForwarding(there) \in [Port \cup {Forward} -> Nat]
         /\ \A r \in Port \cup {Forward} : EnsureForwarding(there)[r] <= 1
BY DEF EnsureForwarding

LEMMA RestartKeeps ==
  ASSUME HostSound, NEW reboot \in BOOLEAN, Restart(reboot)
  PROVE  HostSound'
<1> DEFINE kept == IF reboot THEN [r \in DOMAIN rules |-> 0] ELSE rules
<1>1. kept \in [Port \cup {Forward} -> Nat] /\ \A r \in Port \cup {Forward} : kept[r] <= 1
  BY DEF HostSound, HostTyped, PortsTyped, InsertedOnce
<1>2. rules' = kept \/ rules' = EnsureForwarding(kept)
  BY Zenon DEF Restart
<1> HIDE DEF kept
<1>3. /\ rules' \in [Port \cup {Forward} -> Nat]
      /\ \A r \in Port \cup {Forward} : rules'[r] <= 1
  BY Zenon, <1>1, <1>2, Starts
<1>4. ports' = [i \in Id |-> None] /\ call' = [c \in Call |-> None]
  BY Zenon DEF Restart
<1>5. HostTyped'
  BY Zenon, <1>3, <1>4 DEF HostTyped, PortsTyped, CallSound
<1> QED
  BY Zenon, <1>3, <1>4, <1>5 DEF HostSound, OneHandler, Records, InsertedOnce, OpenOrSoon

-----------------------------------------------------------------------------
(***************************************************************************)
(* The theorems.                                                           *)
(***************************************************************************)

Counts ==
  /\ nfsSource \in BOOLEAN /\ mounted \in BOOLEAN
  /\ failures \in Nat /\ restarts \in Nat

HostInv == Counts /\ HostSound

LEMMA CountsStep ==
  ASSUME Counts, [HostNext]_hostVars
  PROVE  Counts'
<1>1. failures' \in Nat
  <2>1. failures' = failures \/ failures' = failures + 1
    BY ZenonT(60) DEF HostNext, hostVars, handleAssign, handleUnassign, ensureRule, InsertRule,
       PortsOpened,
       resolveVolumes, StartContainer, StopContainer, ClosePort, DeleteRule, PortsClosed,
       ContainerExits, Restart, Fails, Works
  <2> QED
    BY <2>1 DEF Counts
<1>2. nfsSource' = nfsSource /\ (restarts' = restarts \/ restarts' = restarts + 1)
  BY ZenonT(60) DEF HostNext, hostVars, handleAssign, handleUnassign, ensureRule, InsertRule,
     PortsOpened,
     resolveVolumes, StartContainer, StopContainer, ClosePort, DeleteRule, PortsClosed,
     ContainerExits, Restart
<1>3. mounted' = mounted \/ \E reboot \in BOOLEAN : Restart(reboot)
  BY ZenonT(60) DEF HostNext, hostVars, handleAssign, handleUnassign, ensureRule, InsertRule,
     PortsOpened,
     resolveVolumes, StartContainer, StopContainer, ClosePort, DeleteRule, PortsClosed,
     ContainerExits
<1>4. ASSUME NEW reboot \in BOOLEAN, Restart(reboot)
      PROVE  mounted' \in BOOLEAN
  BY Zenon, <1>4 DEF Restart, MountNFS
<1> QED
  BY <1>1, <1>2, <1>3, <1>4 DEF Counts

LEMMA HostStep ==
  ASSUME HostInv, Overlap = FALSE, PortsApart, [HostNext]_hostVars
  PROVE  HostInv'
<1>1. HostSound /\ mounted \in BOOLEAN
  BY Zenon DEF HostInv, Counts
<1>2. Counts'
  BY Zenon, CountsStep DEF HostInv
<1>3. UNCHANGED <<ports, rules, call, refused>> => HostSound'
  <2> SUFFICES ASSUME UNCHANGED <<ports, rules, call, refused>>
               PROVE  HostSound'
    OBVIOUS
  <2>1. HostTyped'
    BY Zenon, <1>1 DEF HostSound, HostTyped, PortsTyped, CallSound
  <2>2. OneHandler' /\ Records'
    BY Zenon, <1>1 DEF HostSound, OneHandler, Records
  <2>3. InsertedOnce' /\ OpenOrSoon'
    BY Zenon, <1>1 DEF HostSound, InsertedOnce, OpenOrSoon
  <2> QED
    BY Zenon, <2>1, <2>2, <2>3 DEF HostSound
<1>4. ASSUME NEW c \in Call, NEW i \in Id,
             handleUnassign(c, i) \/ \E s \in Spec[i] : handleAssign(c, i, s)
      PROVE  HostSound'
  BY Zenon, <1>1, <1>4, UnassignKeeps, AssignKeeps
<1>5. ASSUME NEW c \in Call,
             \/ ensureRule(c) \/ InsertRule(c) \/ PortsOpened(c) \/ resolveVolumes(c)
             \/ StartContainer(c)
             \/ StopContainer(c) \/ ClosePort(c) \/ DeleteRule(c) \/ PortsClosed(c)
      PROVE  HostSound'
  BY Zenon, <1>1, <1>5, EnsureKeeps, InsertKeeps, OpenedKeeps, VolumesKeeps, StartKeeps, StopKeeps,
     CloseKeeps, DeleteKeeps, ClosedKeeps
<1>6. ASSUME NEW i \in Id, ContainerExits(i)
      PROVE  HostSound'
  BY Zenon, <1>3, <1>6 DEF ContainerExits
<1>7. ASSUME NEW reboot \in BOOLEAN, Restart(reboot)
      PROVE  HostSound'
  BY Zenon, <1>1, <1>7, RestartKeeps
<1>8. HostSound'
  BY Zenon, <1>3, <1>4, <1>5, <1>6, <1>7 DEF HostNext, hostVars
<1> QED
  BY Zenon, <1>2, <1>8 DEF HostInv

LEMMA HostBegins == HostInit => HostInv
<1> SUFFICES ASSUME HostInit PROVE HostInv
  OBVIOUS
<1> DEFINE none == [r \in Port \cup {Forward} |-> 0]
<1>1. /\ none \in [Port \cup {Forward} -> Nat]
      /\ \A r \in Port \cup {Forward} : none[r] <= 1
  OBVIOUS
<1>2. rules = EnsureForwarding(none)
  BY Zenon DEF HostInit
<1> HIDE DEF none
<1>3. /\ rules \in [Port \cup {Forward} -> Nat]
      /\ \A r \in Port \cup {Forward} : rules[r] <= 1
  BY Zenon, <1>1, <1>2, Starts
<1>4. HostTyped
  BY Zenon, <1>3 DEF HostInit, HostTyped, PortsTyped, CallSound
<1>5. Counts
  BY Zenon, HostAssumption DEF HostInit, Counts
<1> QED
  BY Zenon, <1>3, <1>4, <1>5 DEF HostInit, HostInv, HostSound, OneHandler, Records, InsertedOnce,
     OpenOrSoon

LEMMA HostAlways ==
  ASSUME Overlap = FALSE, PortsApart
  PROVE  HostSpec => []HostInv
<1>1. HostInv /\ [HostNext]_hostVars => HostInv'
  BY Zenon, HostStep
<1> QED
  BY <1>1, HostBegins, PTL DEF HostSpec

\* Whatever the handlers of other identifiers do, and whatever failed before,
\* the ports recorded for an identifier are open once handleAssign is through.
THEOREM RecordedPortsOpen ==
  ASSUME Overlap = FALSE, PortsApart
  PROVE  HostSpec => []RunningPortsOpen
<1>1. HostInv => RunningPortsOpen
  BY Zenon DEF HostInv, HostSound, OpenOrSoon, RunningPortsOpen, UnderWay
<1> QED
  BY <1>1, HostAlways, PTL

\* What a port that is newly left open must come from.
Explained(p) ==
  \/ restarts' # restarts
  \/ \E i \in Id : p \in Elements(Recorded(i)) /\ ports'[i] # None
  \/ FailedFor(p)

\* The owners of a port stay, and its rule is not added: it is no new leak.
LEMMA StillOwned ==
  ASSUME NEW p \in Port, ports' = ports,
         \A d \in Call : call[d] # None /\ call[d].spec = None /\ p \in Elements(call[d].left) =>
           call'[d] # None /\ call'[d].spec = None /\ p \in Elements(call'[d].left),
         rules'[p] > 0 => rules[p] > 0,
         p \in Leaked'
  PROVE  p \in Leaked
BY Zenon DEF Leaked, Owned, Recorded

\* A call goes on, or ends, and keeps the port if it was to close it.
LEMMA OnwardOwned ==
  ASSUME HostTyped, NEW c \in Call, call[c] # None,
         NEW next \in Step, NEW list \in Seq(Port), NEW share \in BOOLEAN,
         Onward(c, next, list, share), NEW p \in Port,
         call[c].spec = None /\ p \in Elements(call[c].left) => p \in Elements(list)
  PROVE  \A d \in Call : call[d] # None /\ call[d].spec = None /\ p \in Elements(call[d].left) =>
           call'[d] # None /\ call'[d].spec = None /\ p \in Elements(call'[d].left)
<1> DEFINE rec == [id |-> call[c].id, spec |-> call[c].spec, left |-> list,
                   step |-> next, onShare |-> share]
<1>1. rec \in CallType
  BY Zenon DEF HostTyped, CallSound, CallType
<1>2. rec # None /\ rec.spec = call[c].spec /\ rec.left = list
  BY Zenon, <1>1, NoCallAssumption
<1>3. call' = [call EXCEPT ![c] = rec]
  BY Zenon DEF Onward
<1> HIDE DEF rec
<1> QED
  BY Zenon, <1>2, <1>3 DEF HostTyped

LEMMA ReturnsOwned ==
  ASSUME HostTyped, NEW c \in Call, Returns(c), NEW p \in Port,
         call[c].spec # None \/ p \notin Elements(call[c].left)
  PROVE  \A d \in Call : call[d] # None /\ call[d].spec = None /\ p \in Elements(call[d].left) =>
           call'[d] # None /\ call'[d].spec = None /\ p \in Elements(call'[d].left)
BY Zenon DEF HostTyped, Returns

\* A handler that opens ports has no port to close.
LEMMA OpenersOwnNothing ==
  ASSUME HostTyped, NEW c \in Call, call[c] # None, call[c].step \notin Closing
  PROVE  call[c].spec # None
BY Zenon DEF HostTyped, CallSound

LEMMA OpeningLeaksNothing ==
  ASSUME HostInv, NEW c \in Call,
         ensureRule(c) \/ PortsOpened(c) \/ resolveVolumes(c) \/ StartContainer(c),
         NEW p \in Leaked'
  PROVE  p \in Leaked
<1>1. /\ HostTyped /\ ports' = ports /\ rules' = rules /\ p \in Port
  BY Zenon DEF HostInv, HostSound, ensureRule, PortsOpened, resolveVolumes, StartContainer, Leaked
<1>2. call[c] # None /\ call[c].step \in {"exists", "volumes", "start"}
  BY Zenon DEF ensureRule, PortsOpened, resolveVolumes, StartContainer, At
<1>3. call[c].spec # None
  BY Zenon, <1>1, <1>2, OpenersOwnNothing DEF Closing
<1>4. call[c].left \in Seq(Port) /\ call[c].onShare \in BOOLEAN /\ mounted \in BOOLEAN
  BY Zenon, <1>1, <1>2 DEF HostTyped, CallSound, CallType, HostInv, Counts
<1>5. {"exists", "insert", "volumes", "start"} \subseteq Step
  BY Zenon DEF Step
<1>6. \/ Returns(c)
      \/ \E next \in Step, share \in BOOLEAN : Onward(c, next, call[c].left, share)
      \/ NextPort(c, "exists") /\ call[c].left # <<>>
  BY Zenon, <1>1, <1>2, <1>4, <1>5, OnwardForms
     DEF ensureRule, PortsOpened, resolveVolumes, StartContainer
<1>7. CASE Returns(c)
  BY Zenon, <1>1, <1>3, <1>7, ReturnsOwned, StillOwned
<1>8. CASE \E next \in Step, share \in BOOLEAN : Onward(c, next, call[c].left, share)
  BY SMTT(30), <1>1, <1>2, <1>3, <1>4, <1>8, OnwardOwned, StillOwned
<1>9. CASE NextPort(c, "exists") /\ call[c].left # <<>>
  <2>1. PICK rest \in Seq(Port) : Onward(c, "exists", rest, call[c].onShare)
    BY Zenon, <1>1, <1>2, <1>4, <1>9, FirstAndRest, OnwardForms
  <2>2. "exists" \in Step
    BY Zenon, <1>5
  <2>3. \A d \in Call : call[d] # None /\ call[d].spec = None /\ p \in Elements(call[d].left) =>
          call'[d] # None /\ call'[d].spec = None /\ p \in Elements(call'[d].left)
    BY SMTT(30), <1>1, <1>2, <1>3, <1>4, <2>1, <2>2, OnwardOwned
  <2> QED
    BY Zenon, <1>1, <2>3, StillOwned
<1> QED
  BY Zenon, <1>6, <1>7, <1>8, <1>9

LEMMA InsertLeaksNothing ==
  ASSUME HostInv, NEW c \in Call, InsertRule(c), NEW p \in Leaked'
  PROVE  p \in Leaked
<1> DEFINE q == Head(call[c].left)
<1>1. /\ HostTyped /\ ports' = ports /\ p \in Port
      /\ call[c] # None /\ call[c].step = "insert" /\ call[c].left # <<>>
      /\ call[c].left \in Seq(Port) /\ call[c].onShare \in BOOLEAN
      /\ call[c].id \in Id
  BY Zenon, AtStep DEF HostInv, HostSound, InsertRule, Leaked
<1>2. call[c].spec # None
  BY Zenon, <1>1, OpenersOwnNothing DEF Closing
<1>3. q \in Port /\ q \in Elements(call[c].left) /\ Tail(call[c].left) \in Seq(Port)
  BY ZenonT(60), <1>1, FirstAndRest
<1>4. q \in Elements(Recorded(call[c].id))
  <2>1. ports[call[c].id] = call[c].spec.ports
    BY Zenon, <1>1 DEF HostInv, HostSound, Records, Opening
  <2>2. call[c].spec.ports # None
    <3>1. PICK i \in Id : call[c].spec \in Spec[i]
      BY <1>1, <1>2 DEF HostTyped, CallSound, CallType
    <3> QED
      BY Zenon, <3>1, HostAssumption
  <2>3. q \in Elements(call[c].spec.ports)
    BY Zenon, <1>1, <1>2, <1>3 DEF HostTyped, CallSound
  <2> QED
    BY Zenon, <2>1, <2>2, <2>3 DEF Recorded
<1>5. p # q
  BY Zenon, <1>1, <1>4 DEF Leaked, Owned, Recorded
<1>6. rules'[p] = rules[p]
  BY Zenon, <1>1, <1>3, <1>5 DEF InsertRule, HostTyped
<1>7. PICK next \in Step, list \in Seq(Port) : Onward(c, next, list, call[c].onShare)
  <2>1. {"exists", "volumes"} \subseteq Step
    BY Zenon DEF Step
  <2>2. \/ Onward(c, "exists", Tail(call[c].left), call[c].onShare)
        \/ Onward(c, "volumes", call[c].left, call[c].onShare)
    BY Zenon, <1>1, OnwardForms DEF InsertRule
  <2> QED
    BY Zenon, <1>1, <1>3, <2>1, <2>2
<1>8. \A d \in Call : call[d] # None /\ call[d].spec = None /\ p \in Elements(call[d].left) =>
        call'[d] # None /\ call'[d].spec = None /\ p \in Elements(call'[d].left)
  BY SMTT(30), <1>1, <1>2, <1>7, OnwardOwned
<1> QED
  BY Zenon, <1>1, <1>6, <1>8, StillOwned

LEMMA ClosingExplained ==
  ASSUME HostInv, NEW c \in Call,
         StopContainer(c) \/ ClosePort(c) \/ DeleteRule(c) \/ PortsClosed(c),
         NEW p \in Leaked' \ Leaked
  PROVE  FailedFor(p)
<1>1. /\ HostTyped /\ ports' = ports /\ p \in Port /\ rules'[p] > 0
      /\ call[c] # None /\ call[c].step \in Closing
      /\ call[c].left \in Seq(Port) /\ call[c].onShare \in BOOLEAN
      /\ failures \in Nat
  BY Zenon, AtStep DEF HostInv, HostSound, Counts, StopContainer, ClosePort, DeleteRule,
     PortsClosed,
     Leaked, Closing
<1>2. CASE StopContainer(c) \/ (ClosePort(c) /\ Goes(c, "delete"))
  <2>1. PICK next \in Step : Onward(c, next, call[c].left, call[c].onShare)
    BY Zenon, <1>1, <1>2, OnwardForms DEF StopContainer, Step
  <2>2. \A d \in Call : call[d] # None /\ call[d].spec = None /\ p \in Elements(call[d].left) =>
          call'[d] # None /\ call'[d].spec = None /\ p \in Elements(call'[d].left)
    BY SMTT(30), <1>1, <2>1, OnwardOwned
  <2>3. rules' = rules
    BY Zenon, <1>2 DEF StopContainer, ClosePort
  <2> QED
    BY Zenon, <1>1, <2>2, <2>3, StillOwned
<1>3. CASE PortsClosed(c)
  <2>1. p \notin Elements(call[c].left) /\ Returns(c) /\ rules' = rules
    BY Zenon, <1>3, NoneLeft DEF PortsClosed
  <2> QED
    BY Zenon, <1>1, <2>1, ReturnsOwned, StillOwned
<1>4. CASE /\ NextPort(c, "closing") /\ call[c].left # <<>>
           /\ \/ ClosePort(c) /\ (Fails("iptables") \/ ~(rules[Head(call[c].left)] > 0))
              \/ DeleteRule(c)
  <2> DEFINE q == Head(call[c].left)
  <2>1. PICK rest \in Seq(Port) : /\ Onward(c, "closing", rest, call[c].onShare)
                                  /\ Elements(call[c].left) = {q} \cup Elements(rest)
    BY Zenon, <1>1, <1>4, FirstAndRest, OnwardForms
  <2>2. q \in Port /\ "closing" \in Step
    BY Zenon, <1>1, <1>4, FirstAndRest DEF Step
  <2>3. CASE p # q
    <3>1. \A d \in Call : call[d] # None /\ call[d].spec = None /\ p \in Elements(call[d].left) =>
            call'[d] # None /\ call'[d].spec = None /\ p \in Elements(call'[d].left)
      BY SMTT(30), <1>1, <2>1, <2>2, <2>3, OnwardOwned
    <3>2. rules'[p] = rules[p]
      BY Zenon, <1>1, <1>4, <2>2, <2>3 DEF ClosePort, DeleteRule, HostTyped
    <3> QED
      BY Zenon, <1>1, <3>1, <3>2, StillOwned
  <2>4. CASE p = q
    <3>1. rules[q] \in 0..1 /\ rules \in [Port \cup {Forward} -> Nat]
      BY SMTT(30), <2>2 DEF HostInv, HostSound, HostTyped, InsertedOnce
    <3>2. failures' = failures + 1
      <4>1. CASE ClosePort(c) /\ (Fails("iptables") \/ ~(rules[q] > 0))
        BY Zenon, <1>1, <2>4, <4>1 DEF ClosePort, Fails
      <4>2. CASE DeleteRule(c)
        BY SMTT(60), <1>1, <2>2, <2>4, <3>1, <4>2 DEF DeleteRule, Fails
      <4> QED
        BY Zenon, <1>4, <4>1, <4>2
    <3> QED
      BY SMTT(30), <1>1, <1>4, <2>4, <3>2 DEF FailedFor
  <2> QED
    BY Zenon, <2>3, <2>4
<1>5. DeleteRule(c) => call[c].left # <<>>
  BY Zenon, <1>1, AtStep DEF DeleteRule
<1> QED
  BY Zenon, <1>2, <1>3, <1>4, <1>5 DEF ClosePort, DeleteRule

LEMMA ArrivalExplained ==
  ASSUME HostInv, NEW c \in Call, NEW i \in Id,
         handleUnassign(c, i) \/ \E s \in Spec[i] : handleAssign(c, i, s),
         NEW p \in Leaked' \ Leaked
  PROVE  \E j \in Id : p \in Elements(Recorded(j)) /\ ports'[j] # None
<1>1. /\ HostTyped /\ PortsTyped /\ p \in Port /\ rules' = rules /\ call[c] = None
      /\ Owned(p) /\ ~Owned(p)'
  BY Zenon DEF HostInv, HostSound, HostTyped, handleUnassign, handleAssign, Arrives, Leaked
<1>2. \A d \in Call : d # c => call'[d] = call[d]
  BY Zenon, <1>1 DEF HostTyped, handleUnassign, handleAssign
<1>3. PICK j \in Id : p \in Elements(Recorded(j))
  BY Zenon, <1>1, <1>2 DEF Owned
<1>4. CASE handleUnassign(c, i)
  <2> DEFINE rec == [id |-> i, spec |-> None, left |-> Recorded(i), step |-> "stop",
                     onShare |-> FALSE]
  <2>1. call' = [call EXCEPT ![c] = rec] /\ ports' = [ports EXCEPT ![i] = None]
    BY Zenon, <1>4 DEF handleUnassign
  <2>2. rec.spec = None /\ rec.left = Recorded(i)
    BY Zenon
  <2>3. rec # None
    <3>1. Recorded(i) \in Seq(Port)
      BY <1>1, SpecPorts DEF PortsTyped, Recorded
    <3>2. "stop" \in Step /\ FALSE \in BOOLEAN
      BY Zenon DEF Step
    <3>3. rec \in CallType
      BY Zenon, <3>1, <3>2 DEF CallType
    <3> QED
      BY Zenon, <3>3, NoCallAssumption
  <2> HIDE DEF rec
  <2>4. call'[c] = rec
    BY Zenon, <1>1, <2>1 DEF HostTyped
  <2>5. j # i
    BY Zenon, <1>1, <1>3, <2>2, <2>3, <2>4 DEF Owned
  <2>6. ports'[j] = ports[j] /\ ports[j] # None
    BY Zenon, <1>1, <1>3, <2>1, <2>5, NoneLeft DEF PortsTyped, Recorded
  <2> QED
    BY Zenon, <1>3, <2>6
<1>5. ASSUME NEW s \in Spec[i], handleAssign(c, i, s)
      PROVE  ports'[j] # None
  <2>1. ports' = [ports EXCEPT ![i] = s.ports] /\ s.ports # None
    BY Zenon, <1>5, SpecPorts DEF handleAssign
  <2>2. ports[j] # None
    BY Zenon, <1>3, NoneLeft DEF Recorded
  <2> QED
    BY Zenon, <1>1, <2>1, <2>2 DEF PortsTyped
<1> QED
  BY Zenon, <1>3, <1>4, <1>5

\* A port stays open without anyone to close it only after a restart of the
\* agent, an assignment that overwrites its record, or a failure to close that
\* port: ClosePorts goes on after an error, and handleUnassign takes the whole
\* list.
THEOREM LeaksAreExplained ==
  ASSUME Overlap = FALSE, PortsApart
  PROVE  HostSpec => NoOtherLeak
<1>1. ASSUME HostInv, HostNext, NEW p \in Leaked' \ Leaked
      PROVE  Explained(p)
  <2>1. ASSUME NEW c \in Call, NEW i \in Id,
               handleUnassign(c, i) \/ \E s \in Spec[i] : handleAssign(c, i, s)
        PROVE  Explained(p)
    BY Zenon, <1>1, <2>1, ArrivalExplained DEF Explained
  <2>2. ASSUME NEW c \in Call,
               \/ ensureRule(c) \/ PortsOpened(c) \/ resolveVolumes(c) \/ StartContainer(c)
               \/ InsertRule(c)
        PROVE  FALSE
    BY Zenon, <1>1, <2>2, OpeningLeaksNothing, InsertLeaksNothing
  <2>3. ASSUME NEW c \in Call,
               StopContainer(c) \/ ClosePort(c) \/ DeleteRule(c) \/ PortsClosed(c)
        PROVE  Explained(p)
    BY Zenon, <1>1, <2>3, ClosingExplained DEF Explained
  <2>4. ASSUME NEW i \in Id, ContainerExits(i)
        PROVE  FALSE
    BY Zenon, <1>1, <2>4 DEF ContainerExits, Leaked, Owned, Recorded
  <2>5. ASSUME NEW reboot \in BOOLEAN, Restart(reboot)
        PROVE  Explained(p)
    BY <1>1, <2>5 DEF Restart, HostInv, Counts, Explained
  <2> QED
    BY Zenon, <1>1, <2>1, <2>2, <2>3, <2>4, <2>5 DEF HostNext
<1>2. HostInv /\ [HostNext]_hostVars =>
        [\A p \in Leaked' \ Leaked :
           \/ restarts' # restarts
           \/ \E i \in Id : p \in Elements(Recorded(i)) /\ ports'[i] # None
           \/ FailedFor(p)]_hostVars
  BY Zenon, <1>1 DEF Explained
<1> QED
  BY <1>2, HostAlways, PTL DEF HostSpec, NoOtherLeak

-----------------------------------------------------------------------------
(***************************************************************************)
(* Types.  Here handlers may overlap and ports may be shared.              *)
(***************************************************************************)

\* A call is for something assigned to its identifier.
CallPlaced(c) ==
  call[c] # None =>
    /\ call[c] \in CallType
    /\ call[c].step \in {"insert", "delete"} => call[c].left # <<>>
    /\ call[c].step \in Closing <=> call[c].spec = None
    /\ call[c].spec # None => call[c].spec \in Spec[call[c].id]

CallsPlaced == call = [c \in Call |-> call[c]] /\ \A c \in Call : CallPlaced(c)

\* And so is a container.
ContainersPlaced ==
  /\ container = [i \in Id |-> container[i]]
  /\ \A i \in Id :
       container[i] # None => container[i] \in [spec : Spec[i], onShare : BOOLEAN]

ShareTyped == nfsSource \in BOOLEAN /\ mounted \in BOOLEAN

Bounded == failures \in 0..MaxFailures /\ restarts \in 0..MaxRestarts /\ calls \in 0..MaxCalls

HostPlaced ==
  /\ ShareTyped /\ ContainersPlaced /\ PortsTyped
  /\ rules \in [Port \cup {Forward} -> Nat]
  /\ refused \subseteq Id
  /\ CallsPlaced /\ Bounded

LEMMA BoundedStep ==
  ASSUME Bounded, [HostNext]_hostVars
  PROVE  Bounded'
<1>1. failures' = failures \/ (failures < MaxFailures /\ failures' = failures + 1)
  BY ZenonT(60) DEF HostNext, hostVars, handleAssign, handleUnassign, ensureRule, InsertRule,
     PortsOpened, resolveVolumes, StartContainer, StopContainer, ClosePort, DeleteRule,
     PortsClosed, ContainerExits, Restart, Fails, Works
<1>2. restarts' = restarts \/ (restarts < MaxRestarts /\ restarts' = restarts + 1)
  BY ZenonT(60) DEF HostNext, hostVars, handleAssign, handleUnassign, ensureRule, InsertRule,
     PortsOpened, resolveVolumes, StartContainer, StopContainer, ClosePort, DeleteRule,
     PortsClosed, ContainerExits, Restart
<1>3. calls' = calls \/ (calls < MaxCalls /\ calls' = calls + 1)
  BY ZenonT(60) DEF HostNext, hostVars, handleAssign, handleUnassign, ensureRule, InsertRule,
     PortsOpened, resolveVolumes, StartContainer, StopContainer, ClosePort, DeleteRule,
     PortsClosed, ContainerExits, Restart, Arrives
<1> QED
  BY SMTT(30), <1>1, <1>2, <1>3, HostAssumption DEF Bounded

\* A call that arrives, goes on or returns leaves calls of this kind.
LEMMA PlacedArrives ==
  ASSUME CallsPlaced, NEW c \in Call, NEW i \in Id, NEW s, s \in Spec[i] \/ s = None,
         NEW list \in Seq(Port), NEW step, step = IF s = None THEN "stop" ELSE "exists",
         call' = [call EXCEPT ![c] = [id |-> i, spec |-> s, left |-> list,
                                      step |-> step, onShare |-> FALSE]]
  PROVE  CallsPlaced'
<1> DEFINE rec == [id |-> i, spec |-> s, left |-> list, step |-> step, onShare |-> FALSE]
<1>1. rec \in CallType
  BY Zenon DEF CallType, Step
<1>2. rec.id = i /\ rec.spec = s /\ rec.step = step
  OBVIOUS
<1>3. /\ call' = [d \in Call |-> call'[d]] /\ call'[c] = rec
      /\ \A d \in Call : d # c => call'[d] = call[d]
  BY Zenon DEF CallsPlaced
<1> HIDE DEF rec
<1>4. CallPlaced(c)'
  BY Zenon, <1>1, <1>2, <1>3 DEF CallPlaced, Closing
<1>5. ASSUME NEW d \in Call, d # c PROVE CallPlaced(d)'
  BY Zenon, <1>3, <1>5 DEF CallsPlaced, CallPlaced
<1> QED
  BY Zenon, <1>3, <1>4, <1>5 DEF CallsPlaced

LEMMA PlacedGoesOn ==
  ASSUME CallsPlaced, NEW c \in Call, call[c] # None,
         NEW next \in Step, NEW list \in Seq(Port), NEW share \in BOOLEAN,
         Onward(c, next, list, share),
         next \in {"insert", "delete"} => list # <<>>,
         next \in Closing <=> call[c].step \in Closing
  PROVE  CallsPlaced'
<1> DEFINE rec == [id |-> call[c].id, spec |-> call[c].spec, left |-> list,
                   step |-> next, onShare |-> share]
<1>1. call[c] \in CallType /\ CallPlaced(c)
  BY Zenon DEF CallsPlaced, CallPlaced
<1>2. rec \in CallType
  BY Zenon, <1>1 DEF CallType
<1>3. /\ rec.id = call[c].id /\ rec.spec = call[c].spec /\ rec.left = list
      /\ rec.step = next /\ rec.onShare = share
  OBVIOUS
<1>4. /\ call' = [d \in Call |-> call'[d]] /\ call'[c] = rec
      /\ \A d \in Call : d # c => call'[d] = call[d]
  BY Zenon DEF CallsPlaced, Onward
<1> HIDE DEF rec
<1>5. CallPlaced(c)'
  BY Zenon, <1>1, <1>2, <1>3, <1>4 DEF CallPlaced
<1>6. ASSUME NEW d \in Call, d # c PROVE CallPlaced(d)'
  BY Zenon, <1>4, <1>6 DEF CallsPlaced, CallPlaced
<1> QED
  BY Zenon, <1>4, <1>5, <1>6 DEF CallsPlaced

LEMMA PlacedReturns ==
  ASSUME CallsPlaced, NEW c \in Call, Returns(c)
  PROVE  CallsPlaced'
<1>1. /\ call' = [d \in Call |-> call'[d]] /\ call'[c] = None
      /\ \A d \in Call : d # c => call'[d] = call[d]
  BY Zenon DEF CallsPlaced, Returns
<1> QED
  BY Zenon, <1>1 DEF CallsPlaced, CallPlaced

\* What is known of a call that is at the given step, and what may become of it.
LEMMA PlacedAt ==
  ASSUME CallsPlaced, NEW c \in Call, NEW step, At(c, step)
  PROVE  /\ call[c] # None /\ call[c] \in CallType /\ call[c].step = step
         /\ call[c].id \in Id /\ call[c].left \in Seq(Port) /\ call[c].onShare \in BOOLEAN
         /\ step \in {"insert", "delete"} => call[c].left # <<>>
         /\ step \notin Closing => call[c].spec \in Spec[call[c].id]
BY ZenonT(60) DEF CallsPlaced, CallPlaced, CallType, At

LEMMA PlacedGoes ==
  ASSUME CallsPlaced, NEW c \in Call, NEW from, NEW to \in Step, At(c, from), Goes(c, to),
         to # "start", to \in {"insert", "delete"} => call[c].left # <<>>,
         to \in Closing <=> from \in Closing
  PROVE  CallsPlaced'
<1>1. /\ call[c] # None /\ call[c] \in CallType /\ call[c].step = from
      /\ call[c].left \in Seq(Port) /\ call[c].onShare \in BOOLEAN
  BY Zenon, PlacedAt
<1>2. Onward(c, to, call[c].left, call[c].onShare)
  BY Zenon, <1>1, OnwardIs DEF CallsPlaced
<1> QED
  BY Zenon, <1>1, <1>2, PlacedGoesOn

LEMMA PlacedGoesToNext ==
  ASSUME CallsPlaced, NEW c \in Call, NEW from, NEW to \in {"exists", "closing"}, At(c, from),
         call[c].left # <<>>, NextPort(c, to), to \in Closing <=> from \in Closing
  PROVE  CallsPlaced'
<1>1. /\ call[c] # None /\ call[c] \in CallType /\ call[c].step = from
      /\ call[c].left \in Seq(Port) /\ call[c].onShare \in BOOLEAN
  BY Zenon, PlacedAt
<1>2. Onward(c, to, Tail(call[c].left), call[c].onShare)
  BY Zenon, <1>1, OnwardIs DEF CallsPlaced
<1>3. Tail(call[c].left) \in Seq(Port)
  BY Zenon, <1>1, FirstAndRest
<1>4. to \in Step /\ to \notin {"insert", "delete", "start"}
  BY Zenon DEF Step
<1> QED
  BY Zenon, <1>1, <1>2, <1>3, <1>4, PlacedGoesOn

\* The calls of handleAssign and handleUnassign stay of this kind.
LEMMA PlacedStep ==
  ASSUME ShareTyped, CallsPlaced, PortsTyped, [HostNext]_hostVars
  PROVE  CallsPlaced'
<1> USE DEF Closing, Step
<1>1. ASSUME NEW c \in Call, NEW i \in Id, NEW s \in Spec[i], handleAssign(c, i, s)
      PROVE  CallsPlaced'
  <2>1. s.ports \in Seq(Port) /\ s # None
    BY Zenon, SpecPorts
  <2> QED
    BY Zenon, <1>1, <2>1, PlacedArrives DEF handleAssign
<1>2. ASSUME NEW c \in Call, NEW i \in Id, handleUnassign(c, i)
      PROVE  CallsPlaced'
  <2>1. Recorded(i) \in Seq(Port)
    <3>1. CASE ports[i] = None
      BY <3>1 DEF Recorded
    <3>2. CASE ports[i] # None
      BY Zenon, <3>2, SpecPorts DEF Recorded, PortsTyped
    <3> QED
      BY Zenon, <3>1, <3>2
  <2> QED
    BY Zenon, <1>2, <2>1, PlacedArrives DEF handleUnassign
<1>3. ASSUME NEW c \in Call, ensureRule(c)
      PROVE  CallsPlaced'
  BY Zenon, <1>3, PlacedGoes, PlacedGoesToNext DEF ensureRule
<1>4. ASSUME NEW c \in Call, InsertRule(c)
      PROVE  CallsPlaced'
  <2>1. call[c].left # <<>>
    BY Zenon, <1>4, PlacedAt DEF InsertRule
  <2> QED
    BY Zenon, <1>4, <2>1, PlacedGoes, PlacedGoesToNext DEF InsertRule
<1>5. ASSUME NEW c \in Call, PortsOpened(c)
      PROVE  CallsPlaced'
  BY Zenon, <1>5, PlacedGoes DEF PortsOpened
<1>6. ASSUME NEW c \in Call, resolveVolumes(c)
      PROVE  CallsPlaced'
  <2>1. /\ call[c] # None /\ call[c] \in CallType /\ call[c].step = "volumes"
        /\ call[c].left \in Seq(Port)
    BY Zenon, <1>6, PlacedAt DEF resolveVolumes
  <2>2. CASE /\ ~call[c].spec.volumes \/ nfsSource
             /\ call' = [call EXCEPT ![c].step = "start", ![c].onShare = mounted]
    <3>1. Onward(c, "start", call[c].left, mounted)
      BY Zenon, <2>1, <2>2, OnwardIs DEF CallsPlaced
    <3>2. "start" \in Step /\ "start" \notin Closing /\ "volumes" \notin Closing
      BY Zenon DEF Step, Closing
    <3> QED
      BY Zenon, <2>1, <3>1, <3>2, PlacedGoesOn DEF ShareTyped
  <2> QED
    BY Zenon, <1>6, <2>2, PlacedReturns DEF resolveVolumes
<1>7. ASSUME NEW c \in Call, StartContainer(c) \/ PortsClosed(c)
      PROVE  CallsPlaced'
  BY Zenon, <1>7, PlacedReturns DEF StartContainer, PortsClosed
<1>8. ASSUME NEW c \in Call, StopContainer(c) \/ ClosePort(c)
      PROVE  CallsPlaced'
  BY Zenon, <1>8, PlacedGoes, PlacedGoesToNext DEF StopContainer, ClosePort
<1>9. ASSUME NEW c \in Call, DeleteRule(c)
      PROVE  CallsPlaced'
  <2>1. call[c].left # <<>>
    BY Zenon, <1>9, PlacedAt DEF DeleteRule
  <2> QED
    BY Zenon, <1>9, <2>1, PlacedGoesToNext DEF DeleteRule
<1>10. ASSUME NEW reboot \in BOOLEAN, Restart(reboot)
       PROVE  CallsPlaced'
  <2>1. call' = [c \in Call |-> None]
    BY Zenon, <1>10 DEF Restart
  <2> QED
    BY Zenon, <2>1 DEF CallsPlaced, CallPlaced
<1>11. ASSUME UNCHANGED call
       PROVE  CallsPlaced'
  BY Zenon, <1>11 DEF CallsPlaced, CallPlaced
<1> QED
  BY Zenon, <1>1, <1>2, <1>3, <1>4, <1>5, <1>6, <1>7, <1>8, <1>9, <1>10, <1>11
     DEF HostNext, hostVars, ContainerExits

\* The containers there are stay of this kind.
LEMMA ContainersStep ==
  ASSUME CallsPlaced, ContainersPlaced, [HostNext]_hostVars
  PROVE  ContainersPlaced'
<1>1. ASSUME NEW i \in Id, NEW new, container' = [container EXCEPT ![i] = new],
             new # None => new \in [spec : Spec[i], onShare : BOOLEAN]
      PROVE  ContainersPlaced'
  <2>1. /\ container' = [j \in Id |-> container'[j]] /\ container'[i] = new
        /\ \A j \in Id : j # i => container'[j] = container[j]
    BY Zenon, <1>1 DEF ContainersPlaced
  <2> QED
    BY Zenon, <1>1, <2>1 DEF ContainersPlaced
<1>2. ASSUME NEW c \in Call, StartContainer(c), container' # container
      PROVE  ContainersPlaced'
  <2> DEFINE i == call[c].id
             new == [spec |-> call[c].spec, onShare |-> call[c].onShare]
             kept == IF container[i] = None THEN new ELSE container[i]
  <2>1. /\ i \in Id /\ call[c].spec \in Spec[i] /\ call[c].onShare \in BOOLEAN
    <3>1. At(c, "start") /\ "start" \notin Closing
      BY Zenon, <1>2 DEF StartContainer, Closing
    <3> QED
      BY Zenon, <3>1, PlacedAt
  <2>2. container' = [container EXCEPT ![i] = kept]
    BY Zenon, <1>2, <2>1 DEF StartContainer, ContainersPlaced
  <2>3. new \in [spec : Spec[i], onShare : BOOLEAN]
    BY Zenon, <2>1
  <2> HIDE DEF new
  <2>4. kept # None => kept \in [spec : Spec[i], onShare : BOOLEAN]
    BY Zenon, <2>1, <2>3 DEF ContainersPlaced
  <2> HIDE DEF kept, i
  <2> QED
    BY Zenon, <1>1, <2>1, <2>2, <2>4
<1>3. ASSUME NEW c \in Call, StopContainer(c), container' # container
      PROVE  ContainersPlaced'
  <2>1. call[c].id \in Id
    BY Zenon, <1>3, PlacedAt DEF StopContainer
  <2> QED
    BY Zenon, <1>1, <1>3, <2>1 DEF StopContainer
<1>4. ASSUME NEW i \in Id, ContainerExits(i)
      PROVE  ContainersPlaced'
  BY Zenon, <1>1, <1>4 DEF ContainerExits
<1>5. ASSUME NEW reboot \in BOOLEAN, Restart(reboot)
      PROVE  ContainersPlaced'
  BY Zenon, <1>5 DEF Restart, ContainersPlaced
<1>6. ASSUME container' = container
      PROVE  ContainersPlaced'
  BY Zenon, <1>6 DEF ContainersPlaced
<1> QED
  BY Zenon, <1>2, <1>3, <1>4, <1>5, <1>6
     DEF HostNext, hostVars, handleAssign, handleUnassign, ensureRule, InsertRule,
         PortsOpened, resolveVolumes, ClosePort, DeleteRule, PortsClosed

\* So does what the agent records and what it does to its host.
LEMMA RecordsStep ==
  ASSUME CallsPlaced, PortsTyped, rules \in [Port \cup {Forward} -> Nat], refused \subseteq Id,
         [HostNext]_hostVars
  PROVE  PortsTyped' /\ rules' \in [Port \cup {Forward} -> Nat] /\ refused' \subseteq Id
<1>1. ASSUME NEW c \in Call, NEW i \in Id,
             handleUnassign(c, i) \/ \E s \in Spec[i] : handleAssign(c, i, s)
      PROVE  PortsTyped' /\ rules' = rules /\ refused' \subseteq refused
  BY Zenon, <1>1 DEF handleUnassign, handleAssign, PortsTyped
<1>2. ASSUME NEW c \in Call, NEW step, At(c, step)
      PROVE  call[c].id \in Id
  BY Zenon, <1>2, PlacedAt
<1>3. ASSUME NEW c \in Call, ensureRule(c) \/ InsertRule(c)
      PROVE  refused' \subseteq Id
  <2>1. call[c].id \in Id
    BY Zenon, <1>2, <1>3 DEF ensureRule, InsertRule
  <2>2. refused' = refused \/ refused' = refused \cup {call[c].id}
    BY Zenon, <1>3 DEF ensureRule, InsertRule
  <2> QED
    BY Zenon, <2>1, <2>2
<1>4. ASSUME NEW c \in Call, InsertRule(c)
      PROVE  rules' \in [Port \cup {Forward} -> Nat]
  <2>1. \A r \in Port \cup {Forward} : rules[r] + 1 \in Nat
    OBVIOUS
  <2> QED
    BY Zenon, <1>4, <2>1 DEF InsertRule
<1>5. ASSUME NEW c \in Call, DeleteRule(c)
      PROVE  rules' \in [Port \cup {Forward} -> Nat]
  <2>1. \A r \in Port \cup {Forward} : (IF rules[r] = 0 THEN 0 ELSE rules[r] - 1) \in Nat
    OBVIOUS
  <2> QED
    BY Zenon, <1>5, <2>1 DEF DeleteRule
<1>6. ASSUME NEW reboot \in BOOLEAN, Restart(reboot)
      PROVE  /\ PortsTyped' /\ rules' \in [Port \cup {Forward} -> Nat]
             /\ refused' \subseteq Id
  <2> DEFINE kept == IF reboot THEN [r \in DOMAIN rules |-> 0] ELSE rules
  <2>1. kept \in [Port \cup {Forward} -> Nat]
    OBVIOUS
  <2>2. rules' = kept \/ rules' = EnsureForwarding(kept)
    BY Zenon, <1>6 DEF Restart
  <2> HIDE DEF kept
  <2>3. EnsureForwarding(kept) \in [Port \cup {Forward} -> Nat]
    BY <2>1 DEF EnsureForwarding
  <2> QED
    BY Zenon, <1>6, <2>1, <2>2, <2>3 DEF Restart, PortsTyped
<1>7. ports' = ports => PortsTyped'
  BY Zenon DEF PortsTyped
<1> QED
  <2>1. PortsTyped'
    BY Zenon, <1>1, <1>6, <1>7
       DEF HostNext, hostVars, ensureRule, InsertRule, PortsOpened, resolveVolumes,
           StartContainer, StopContainer, ClosePort, DeleteRule, PortsClosed, ContainerExits
  <2>2. rules' \in [Port \cup {Forward} -> Nat]
    BY Zenon, <1>1, <1>4, <1>5, <1>6
       DEF HostNext, hostVars, ensureRule, PortsOpened, resolveVolumes,
           StartContainer, StopContainer, ClosePort, PortsClosed, ContainerExits
  <2>3. refused' \subseteq Id
    BY Zenon, <1>1, <1>3, <1>6
       DEF HostNext, hostVars, PortsOpened, resolveVolumes,
           StartContainer, StopContainer, ClosePort, DeleteRule, PortsClosed, ContainerExits
  <2> QED
    BY Zenon, <2>1, <2>2, <2>3

LEMMA ShareStep ==
  ASSUME ShareTyped, [HostNext]_hostVars
  PROVE  ShareTyped'
<1>1. ASSUME NEW reboot \in BOOLEAN, Restart(reboot)
      PROVE  ShareTyped'
  BY Zenon, <1>1 DEF Restart, MountNFS, Fails, ShareTyped
<1>2. ASSUME UNCHANGED <<nfsSource, mounted>>
      PROVE  ShareTyped'
  BY Zenon, <1>2 DEF ShareTyped
<1> QED
  BY Zenon, <1>1, <1>2
     DEF HostNext, hostVars, handleAssign, handleUnassign, ensureRule, InsertRule, PortsOpened,
         resolveVolumes, StartContainer, StopContainer, ClosePort, DeleteRule, PortsClosed,
         ContainerExits

LEMMA PlacedAlways == HostSpec => []HostPlaced
<1>1. HostInit => HostPlaced
  <2> SUFFICES ASSUME HostInit PROVE HostPlaced
    OBVIOUS
  <2>1. EnsureForwarding([r \in Port \cup {Forward} |-> 0]) \in [Port \cup {Forward} -> Nat]
    BY DEF EnsureForwarding
  <2>2. Bounded
    BY HostAssumption DEF HostInit, Bounded
  <2>3. ShareTyped
    BY Zenon, HostAssumption DEF HostInit, ShareTyped
  <2> QED
    BY Zenon, <2>1, <2>2, <2>3 DEF HostInit, HostPlaced, ContainersPlaced, PortsTyped,
       CallsPlaced, CallPlaced
<1>2. HostPlaced /\ [HostNext]_hostVars => HostPlaced'
  BY Zenon, ShareStep, ContainersStep, RecordsStep, PlacedStep, BoundedStep DEF HostPlaced
<1> QED
  BY <1>1, <1>2, PTL DEF HostSpec

\* Whatever calls overlap and whatever fails, the handlers record, open, start
\* and stop only what was assigned, and the map Agent.ports, the rules and the
\* containers stay of their types.
THEOREM HostTypeKept == HostSpec => []HostTypeOK
<1>1. HostPlaced => HostTypeOK
  BY Zenon DEF HostPlaced, ShareTyped, ContainersPlaced, PortsTyped, CallsPlaced, CallPlaced,
     Bounded, HostTypeOK
<1> QED
  BY <1>1, PlacedAlways, PTL
=============================================================================
