------------------------------ MODULE MCUdpEcho ------------------------------
(* Values for checking UdpEcho with TLC. *)
EXTENDS UdpEcho, TLC

\* The lines of MaxLines = 2 or 3.
Lines2 == [line : 1..2, quit : BOOLEAN]
Lines3 == [line : 1..3, quit : BOOLEAN]

\* Clients are interchangeable; used by the runs without liveness only.
Symmetry == Permutations(Clients)
=============================================================================
