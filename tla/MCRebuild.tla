----------------------------- MODULE MCRebuild ------------------------------
(* TLC instances of Rebuild: few rows, few sessions, few failures. *)
EXTENDS Rebuild

=============================================================================
