---------------------------- MODULE MCEscrowOutbox --------------------------
(* An instance of EscrowOutbox with an object of a project and a segment of
   the audit log. *)
EXTENDS EscrowOutbox
=============================================================================
