----------------------------- MODULE EchoService -----------------------------
(***************************************************************************)
(* What an echo server and its clients promise together: a client asks one *)
(* line at a time, and what it shows in answer to its n-th line is its     *)
(* n-th line.  A line may never be answered, and a client that has been    *)
(* answered "quit" asks no more.                                           *)
(***************************************************************************)
EXTENDS Naturals, Sequences

CONSTANT Clients

VARIABLES typed,  \* of each line the user typed: is it "quit"?
          shown   \* the lines that the client has printed as answers

vars == <<typed, shown>>

Line(n, quit) == [line |-> n, quit |-> quit]

Init ==
  /\ typed = [c \in Clients |-> <<>>]
  /\ shown = [c \in Clients |-> <<>>]

Done(c) == \E k \in 1..Len(shown[c]) : shown[c][k].quit

Ask(c) ==
  /\ Len(shown[c]) = Len(typed[c])
  /\ ~Done(c)
  /\ \E quit \in BOOLEAN : typed' = [typed EXCEPT ![c] = Append(@, quit)]
  /\ UNCHANGED shown

Answer(c) ==
  /\ Len(shown[c]) < Len(typed[c])
  /\ LET n == Len(shown[c]) + 1
     IN  shown' = [shown EXCEPT ![c] = Append(@, Line(n, typed[c][n]))]
  /\ UNCHANGED typed

Next == \E c \in Clients : Ask(c) \/ Answer(c)

Spec == Init /\ [][Next]_vars
=============================================================================
