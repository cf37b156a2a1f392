------------------------------ MODULE MCWakes -------------------------------
(* TLC instance of Wakes: intake and one more lane, a budget of three items. *)
EXTENDS Wakes

=============================================================================
