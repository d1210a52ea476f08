---------------------------- MODULE MCRevocation ----------------------------
(***************************************************************************)
(* Revocation on a registry of two credentials.                            *)
(***************************************************************************)
EXTENDS Revocation

\* Callers pass ids of the registry.
MCRevokeIds == 1..MaxCredNum
=============================================================================
