--------------------------- MODULE MCCertificates ---------------------------
(***************************************************************************)
(* Instances of the certificates for TLC.                                   *)
(***************************************************************************)
EXTENDS Certificates
=============================================================================
