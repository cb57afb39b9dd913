---------------------------- MODULE MCAgentHost ----------------------------
(***************************************************************************)
(* Instances of an agent's host for TLC: an identifier whose assignment      *)
(* changes ports, with a volume in one version, and a second identifier.    *)
(***************************************************************************)
EXTENDS AgentHost, TLC

CONSTANTS a, b

Of(list, vol) == [ports |-> list, volumes |-> vol]

\* Two versions of a, and b with a port of its own.
MCSpec == (a :> {Of(<<1, 2>>, TRUE), Of(<<2>>, FALSE)}) @@ (b :> {Of(<<3>>, FALSE)})
=============================================================================
