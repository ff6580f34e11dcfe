------------------------------ MODULE Positions ------------------------------
(***************************************************************************)
(* Lab 6: once a second a client (6/client/client.cpp) moves a player, and *)
(* sends its position to the server (6/server/server.cpp), which sends it  *)
(* back.  Neither looks at what recvfrom() returns, so unlike those of     *)
(* lab 4 both go on when it fails: a client with its next position, the    *)
(* server with the position and the address that it has.                   *)
(*                                                                         *)
(* player.y is always twice player.x and is left out; objectID, the time   *)
(* at which a client was started, is named by the client.                  *)
(***************************************************************************)
EXTENDS DatagramNet

CONSTANTS MaxMoves,   \* bound: how often a player moves
          MaxStarts   \* bound: how often the server is started

ASSUME PositionsAssumption ==
  /\ MaxMoves \in Nat \ {0}
  /\ MaxStarts \in Nat
  /\ Body = [objectID : Clients, x : 1..MaxMoves]

VARIABLES
  x,        \* player.x of each client
  seen,     \* recievedMsg.x of each client
  cstatus,  \* where each client is in its loop, or how it ended
  sstatus,  \* where the server is in its loop, or "down"
  last,     \* player and fromAddr of the server: the last datagram it received
  starts,   \* how often the server has been started
  dropped   \* history: clients whose position a server took with it

moveVars == <<x, seen, cstatus, sstatus, last, starts, dropped>>
vars == <<netVars, moveVars>>

NoDatagram == [kind |-> "none"]

Init ==
  /\ NetInit
  /\ x = [c \in Clients |-> 0]
  /\ seen = [c \in Clients |-> 0]
  /\ cstatus = [c \in Clients |-> "moving"]
  /\ sstatus = "down"
  /\ last = NoDatagram
  /\ starts = 0
  /\ dropped = {}

-----------------------------------------------------------------------------
(* The client. *)

\* The client's process ends, and its socket is closed.
EndLate(c, how) == Unbind(c) /\ UNCHANGED cstatus \* mutant: closes, goes on
End(c, how) == Unbind(c) /\ cstatus' = [cstatus EXCEPT ![c] = how]

\* What is sent when the player has made its n-th move.
PositionBefore(c, n) == \* mutant: sent before the player is moved
  [objectID |-> c, x |-> IF n > 1 THEN n - 1 ELSE n]
Position(c, n) == [objectID |-> c, x |-> n]

Move(c) ==
  /\ cstatus[c] = "moving"
  /\ x[c] < MaxMoves
  /\ x' = [x EXCEPT ![c] = @ + 1]
  /\ net' = net \cup {Request(c, Position(c, x[c] + 1))}
  /\ bound' = bound \cup {c}
  /\ cstatus' = [cstatus EXCEPT ![c] = "waiting"]
  /\ UNCHANGED <<unreachable, seen, sstatus, last, starts, dropped>>

\* The loop ends if the buffer, which nothing ever writes, starts with quit: after
\* the first round or never.
EndOfRound(c) ==
  \/ cstatus' = [cstatus EXCEPT ![c] = "moving"] /\ UNCHANGED bound
  \/ x[c] = 1 /\ bound' = bound \ {c} /\ cstatus' = [cstatus EXCEPT ![c] = "exited"]

\* recvfrom() returns a position.
Receive(c) ==
  /\ cstatus[c] = "waiting"
  /\ \E d \in net :
       /\ To(d) = c
       /\ net' \in Taken(d)
       /\ seen' = [seen EXCEPT ![c] = d.body.x]
  /\ EndOfRound(c)
  /\ unreachable' = unreachable \cap bound'
  /\ UNCHANGED <<x, sstatus, last, starts, dropped>>

\* recvfrom() fails, and the old position is shown.
WaitAgain(c) == \* mutant: back to recvfrom(), with nothing sent
  UNCHANGED <<cstatus, bound>>
AfterError(c) == EndOfRound(c)

ReceiveFails(c) ==
  /\ cstatus[c] = "waiting"
  /\ c \in unreachable
  /\ unreachable' = unreachable \ {c}
  /\ AfterError(c)
  /\ UNCHANGED <<net, x, seen, sstatus, last, starts, dropped>>

\* The user closes the console; what is in the socket is gone with it.
KillClient(c) ==
  /\ cstatus[c] \in {"moving", "waiting"}
  /\ End(c, "killed")
  /\ \E gone \in SUBSET {d \in net : To(d) = c} : net' = net \ gone
  /\ UNCHANGED <<x, seen, sstatus, last, starts, dropped>>

ClientLoop(c) == Move(c) \/ Receive(c) \/ ReceiveFails(c)

-----------------------------------------------------------------------------
(* The server. *)

\* main() up to its loop.
StartServer ==
  /\ sstatus = "down"
  /\ starts < MaxStarts
  /\ starts' = starts + 1
  /\ sstatus' = "receiving"
  /\ bound' = bound \cup {server}
  /\ UNCHANGED <<net, unreachable, x, seen, cstatus, last, dropped>>

\* What recvfrom() leaves in player and fromAddr.
ReceivedFromFirst(d) == \* mutant: fromAddr is filled in only once
  IF last = NoDatagram THEN d ELSE [d EXCEPT !.client = last.client]
Received(d) == d

\* recvfrom() returns a position of client c.
ServerReceive(c) ==
  /\ sstatus = "receiving"
  /\ \E d \in net :
       /\ From(d) = c
       /\ To(d) = server
       /\ net' \in Taken(d)
       /\ last' = Received(d)
  /\ sstatus' = "answering"
  /\ UNCHANGED <<bound, unreachable, x, seen, cstatus, starts, dropped>>

\* recvfrom() fails, and leaves player and fromAddr alone.
ServerReceiveFails ==
  /\ sstatus = "receiving"
  /\ server \in unreachable
  /\ unreachable' = unreachable \ {server}
  /\ sstatus' = "answering"
  /\ UNCHANGED <<net, bound, x, seen, cstatus, last, starts, dropped>>

\* sendto().  No client is at an address that was never filled in.
Answer ==
  /\ sstatus = "answering"
  /\ net' = net \cup {Reply(d.client, d.body) : d \in {last} \ {NoDatagram}}
  /\ sstatus' = "receiving"
  /\ UNCHANGED <<bound, unreachable, x, seen, cstatus, last, starts, dropped>>

\* The user closes the console; what is in the socket, and what has been received
\* but not answered, is gone with it.
KillServer ==
  /\ sstatus \in {"receiving", "answering"}
  /\ \E gone \in SUBSET {d \in net : To(d) = server} :
       /\ net' = net \ gone
       /\ dropped' = dropped \cup
            {d.client : d \in gone \cup IF sstatus = "answering"
                                        THEN {last} \ {NoDatagram} ELSE {}}
  /\ Unbind(server)
  /\ sstatus' = "down"
  /\ last' = NoDatagram
  /\ UNCHANGED <<x, seen, cstatus, starts>>

ServerLoop == (\E c \in Clients : ServerReceive(c)) \/ ServerReceiveFails \/ Answer

-----------------------------------------------------------------------------
Next ==
  \/ \E c \in Clients : ClientLoop(c) \/ KillClient(c)
  \/ StartServer \/ ServerLoop \/ KillServer
  \/ NetStep /\ UNCHANGED moveVars

Spec == Init /\ [][Next]_vars

\* Both programs go on when a call returns, and ICMP messages come back; what is in
\* the server's socket has its turn, however often recvfrom() fails in between.  The
\* users, who start and close the programs, owe nothing.
FairSpec ==
  /\ Spec
  /\ \A c \in Clients : WF_vars(ClientLoop(c)) /\ SF_vars(ServerReceive(c))
  /\ WF_vars(ServerLoop)
  /\ WF_vars(\E d \in net : Bounce(d) /\ UNCHANGED moveVars)

-----------------------------------------------------------------------------
\* Every variable has its type, and a program that runs has its socket.
TypeOK ==
  /\ NetTypeOK
  /\ x \in [Clients -> 0..MaxMoves]
  /\ seen \in [Clients -> 0..MaxMoves]
  /\ cstatus \in [Clients -> {"moving", "waiting", "exited", "killed"}]
  /\ sstatus \in {"down", "receiving", "answering"}
  /\ last \in {NoDatagram} \cup {d \in Datagram : d.kind = "request"}
  /\ starts \in 0..MaxStarts
  /\ dropped \subseteq Clients
  /\ \A c \in Clients :
       /\ cstatus[c] = "waiting" => c \in bound
       /\ cstatus[c] \in {"exited", "killed"} => c \notin bound
  /\ server \in bound <=> sstatus # "down"

\* Whatever is closed, restarted and sent again, a client is only ever sent, and
\* shows, positions that its own player has been at.
OwnPositions ==
  /\ \A d \in net : d.body.objectID = d.client /\ d.body.x <= x[d.client]
  /\ \A c \in Clients : seen[c] <= x[c]

\* As long as no client is closed, and nothing is duplicated, a position that
\* comes back is the one that the player is at, however often the server has been
\* closed and started and whatever was lost on the way.
InStep ==
  [][(\A c \in Clients : cstatus[c] # "killed")
       => \A c \in Clients : seen'[c] # seen[c] => seen'[c] = x[c]]_vars

\* A client waits for ever only for a position that a server took with it: if there
\* is no server the error of recvfrom() lets it go on.
GoesOn ==
  \A c \in Clients :
    cstatus[c] = "waiting" ~> cstatus[c] # "waiting" \/ c \in dropped
=============================================================================
