------------------------------ MODULE MCOutbox ------------------------------
(* TLC instances of Outbox: few sends, few observers, few status checks. *)
EXTENDS Outbox

=============================================================================
