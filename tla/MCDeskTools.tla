----------------------------- MODULE MCDeskTools -----------------------------
(* Instances of DeskTools for TLC. *)
EXTENDS DeskTools

=============================================================================
