-------------------------- MODULE MCVcxConnection --------------------------
(* One inviter and two invitees who have read the same invitation. *)
EXTENDS VcxConnection
=============================================================================
