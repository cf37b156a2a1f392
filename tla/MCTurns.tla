------------------------------ MODULE MCTurns -------------------------------
(***************************************************************************)
(* Two sessions that fail on quota; one may send and one may end.          *)
(***************************************************************************)
EXTENDS Turns, TLC

CONSTANTS s1, s2

MCSessions == {s1, s2}
=============================================================================
