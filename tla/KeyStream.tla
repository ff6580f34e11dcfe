------------------------------ MODULE KeyStream ------------------------------
(***************************************************************************)
(* What the client and the server of 7/ promise together, without buffers, *)
(* sockets or window messages: the receiver lists the senders that have    *)
(* joined, and it is given every listed sender's messages whole, once, and *)
(* in the order they were sent.  Some of them may never arrive.            *)
(***************************************************************************)
EXTENDS Naturals, Sequences

CONSTANTS Senders,
          Msg(_)  \* the n-th message of a sender

VARIABLES sent,     \* how many messages each sender has sent
          got,      \* the messages that the receiver has from each sender
          members   \* the senders that the receiver lists

vars == <<sent, got, members>>

Init ==
  /\ sent = [s \in Senders |-> 0]
  /\ got = [s \in Senders |-> <<>>]
  /\ members = {}

\* A sender enters the list before anything is received from it.
Join(s) ==
  /\ s \notin members
  /\ got[s] = <<>>
  /\ members' = members \cup {s}
  /\ UNCHANGED <<sent, got>>

Leave(s) ==
  /\ members' = members \ {s}
  /\ UNCHANGED <<sent, got>>

Send(s) ==
  /\ sent' = [sent EXCEPT ![s] = @ + 1]
  /\ UNCHANGED <<got, members>>

Deliver(s) ==
  /\ s \in members
  /\ Len(got[s]) < sent[s]
  /\ got' = [got EXCEPT ![s] = Append(@, Msg(Len(@) + 1))]
  /\ UNCHANGED <<sent, members>>

Next == \E s \in Senders : Join(s) \/ Leave(s) \/ Send(s) \/ Deliver(s)

Spec == Init /\ [][Next]_vars
=============================================================================
