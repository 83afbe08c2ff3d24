---------------------------- MODULE MCDepartures ----------------------------
(***************************************************************************)
(* Finite instances of Departures: two lines, one direction and one stop; a  *)
(* row that names no stop is of another stop than the one a notice names.  *)
(***************************************************************************)
EXTENDS Departures

Symmetry == Permutations(Lines)
=============================================================================
