------------------------------ MODULE MCIngress ------------------------------
(***************************************************************************)
(* Instances of apply and ingress for TLC: the manifests of two apps; between *)
(* them they use every form of naming a service, hand a host and a service  *)
(* from one app to the other, and contain the mistakes that are refused.    *)
(***************************************************************************)
EXTENDS Ingress

CONSTANTS a, b, h

\* A manifest with nothing but a workload.
Bare(name) ==
  [name |-> name, valid |-> TRUE, service |-> NoEntry, services |-> <<>>,
   ingress |-> NoEntry, ingresses |-> <<>>]

To(s) == [host |-> h, service |-> s]

One(name) == [Bare(name) EXCEPT !.service = Blank, !.ingress = To(Blank)]

\* b takes over the service a and the host.
Taken == [Bare(b) EXCEPT !.services = <<a, b>>, !.ingresses = <<To(b)>>]

Ambiguous == [Bare(b) EXCEPT !.services = <<a, b>>, !.ingresses = <<To(Blank)>>]

Undeclared == [Bare(b) EXCEPT !.ingress = To(a)]

Twice == [Bare(b) EXCEPT !.services = <<b, b>>]

Both == [Bare(b) EXCEPT !.service = b, !.services = <<a>>]

Bad == [One(b) EXCEPT !.valid = FALSE]

MCManifest == {Bare(a), One(a), One(b), Taken, Ambiguous, Undeclared, Twice, Both, Bad}

MCDirectory ==
  {{One(a)}, {Bare(a)}, {Taken}, {Bare(a), One(b)}, {One(a), Taken}, {}}
  \cup {{One(a), m} : m \in {Ambiguous, Undeclared, Twice, Both, Bad}}
=============================================================================
