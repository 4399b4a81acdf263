----------------------------- MODULE MCFreelist -----------------------------
(* Instances of Freelist for TLC. *)
EXTENDS Freelist

=============================================================================
