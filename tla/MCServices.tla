----------------------------- MODULE MCServices -----------------------------
(***************************************************************************)
(* Services for TLC: two services that take over each other's ClusterIP and  *)
(* NodePort when one is removed and the other created.                      *)
(***************************************************************************)
EXTENDS Services
=============================================================================
