----------------------------- MODULE MCSizeFirst -----------------------------
(* Values for checking SizeFirst with TLC.                                    *)
EXTENDS SizeFirst

CONSTANT Wordy  \* the clients whose second line has a number of three digits

\* Two short lines, among them some as long as a header, or as many bytes as need a
\* second digit; or a short line and one of whose number a digit is lost.
SomeSizes ==
  [c \in Clients |-> IF c \in Wordy THEN <<{0, 2}, {9}>>
                                    ELSE <<0..3, 0..3>>]
=============================================================================
