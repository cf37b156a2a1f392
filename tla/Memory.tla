------------------------------- MODULE Memory -------------------------------
(***************************************************************************)
(* What intake and session rebuild promise together about the memory of a  *)
(* relationship: the persona learns his messages one at a time, in the     *)
(* order in which he sent them, and never forgets one, whichever session   *)
(* she lives in.                                                           *)
(***************************************************************************)
EXTENDS Naturals

CONSTANT Messages   \* his messages, numbered by the time he sent them

VARIABLE known   \* the messages she knows

Init == known = {}

Learn(row) ==
  /\ \A earlier \in known : earlier < row
  /\ known' = known \cup {row}

Next == \E row \in Messages : Learn(row)

Spec == Init /\ [][Next]_known

=============================================================================
