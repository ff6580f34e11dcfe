----------------------------- MODULE MCPositions -----------------------------
(* Values for checking Positions with TLC. *)
EXTENDS Positions

\* The positions of MaxMoves = 3.
Positions3 == [objectID : Clients, x : 1..3]
=============================================================================
