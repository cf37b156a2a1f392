------------------------------- MODULE Thread -------------------------------
(***************************************************************************)
(* What the outbox promises about the message thread on the user's phone:  *)
(* bubbles appear one at a time.  A bubble is opened when nothing else is  *)
(* open, and it ends by landing or by being known never to land; until one *)
(* of the two is certain no other bubble is started.                       *)
(***************************************************************************)
CONSTANT Bubbles

VARIABLE phase

Phases == {"unused", "open", "landed", "dead"}

Init == phase = [b \in Bubbles |-> "unused"]

Open(b) ==
  /\ phase[b] = "unused"
  /\ \A other \in Bubbles : phase[other] # "open"
  /\ phase' = [phase EXCEPT ![b] = "open"]

Land(b) ==
  /\ phase[b] = "open"
  /\ phase' = [phase EXCEPT ![b] = "landed"]

\* Only a bubble that did not land and no longer can is given up.
Kill(b) ==
  /\ phase[b] = "open"
  /\ phase' = [phase EXCEPT ![b] = "dead"]

Next == \E b \in Bubbles : Open(b) \/ Land(b) \/ Kill(b)

Spec == Init /\ [][Next]_phase

=============================================================================
