------------------------------- MODULE TcpNet -------------------------------
(***************************************************************************)
(* What the programs of 2/, 3/ and 5/ ask of WinSock: TCP, through calls   *)
(* that block.  The library is not in the repository, so this module is    *)
(* modelled from how they use it.                                          *)
(*                                                                         *)
(* A client program opens one socket, so c \in Clients names a run of it,  *)
(* its socket, and the socket that accept() returns for it.  Outstanding   *)
(* data is never more than a few messages of 40 bytes, so send() does not  *)
(* wait for room.                                                          *)
(***************************************************************************)
EXTENDS Naturals, Sequences

CONSTANTS Clients,
          Backlog,  \* listen()'s queue of pending connections
          Cut       \* clients whose sent bytes TCP may hand over in pieces

ASSUME TcpAssumption ==
  /\ Backlog \in Nat \ {0}
  /\ Cut \subseteq Clients

VARIABLES
  listening,  \* has the server called listen()?
  queue,      \* connections that have not been accepted, oldest first
  cli,        \* each client's socket
  srv,        \* the server's socket for each client
  up,         \* bytes sent to the server that it has not received
  down,       \* bytes sent to each client that it has not received
  reset       \* connections that have been reset

netVars == <<listening, queue, cli, srv, up, down, reset>>

Ends == {"none", "open", "closed"}

\* The type of the network's state.
NetTypeOK ==
  /\ listening \in BOOLEAN
  /\ queue \in Seq(Clients)
  /\ cli \in [Clients -> Ends]
  /\ srv \in [Clients -> Ends]
  /\ up \in [Clients -> Seq(Nat)]
  /\ down \in [Clients -> Seq(Nat)]
  /\ reset \subseteq Clients

NetInit ==
  /\ listening = FALSE
  /\ queue = <<>>
  /\ cli = [c \in Clients |-> "none"]
  /\ srv = [c \in Clients |-> "none"]
  /\ up = [c \in Clients |-> <<>>]
  /\ down = [c \in Clients |-> <<>>]
  /\ reset = {}

\* socket(), bind() and listen() in the server.
Listen ==
  /\ listening' = TRUE
  /\ UNCHANGED <<queue, cli, srv, up, down, reset>>

\* connect() returns; accept() need not have been called.
Connect(c) ==
  /\ listening
  /\ Len(queue) < Backlog
  /\ queue' = Append(queue, c)
  /\ cli' = [cli EXCEPT ![c] = "open"]
  /\ UNCHANGED <<listening, srv, up, down, reset>>

\* accept() returns a socket for c, and data is sent to it.
AcceptAndSend(c, data) ==
  /\ queue # <<>>
  /\ c = Head(queue)
  /\ c \notin reset
  /\ queue' = Tail(queue)
  /\ srv' = [srv EXCEPT ![c] = "open"]
  /\ down' = [down EXCEPT ![c] = @ \o data]
  /\ UNCHANGED <<listening, cli, up, reset>>

\* accept() fails: the connection was reset while it was pending.
AcceptFails == queue # <<>> /\ Head(queue) \in reset

\* The numbers of bytes that recv() may return on c's connection when it asks
\* for `room'.
RecvCount(c, bytes, room) ==
  {k \in 1..Len(bytes) : /\ k <= room
                         /\ c \notin Cut => k = room \/ k = Len(bytes)}

\* What recv() returns, and what it leaves.
Front(bytes, k) == SubSeq(bytes, 1, k)
Rest(bytes, k) == SubSeq(bytes, k + 1, Len(bytes))

\* recv() returns 0 or an error: the connection has ended.
ClientSeesEnd(c) == c \in reset \/ (down[c] = <<>> /\ srv[c] = "closed")
ServerSeesEnd(c) == c \in reset \/ (up[c] = <<>> /\ cli[c] = "closed")

\* closesocket() in a client.
CloseClient(c) ==
  /\ cli' = [cli EXCEPT ![c] = "closed"]
  /\ UNCHANGED <<listening, queue, srv, up, down, reset>>

\* A process ends without closing its sockets.
ClientGone(c) ==
  /\ cli' = [cli EXCEPT ![c] = "closed"]
  /\ reset' = reset \cup {d \in {c} : cli[d] = "open"}
  /\ UNCHANGED <<listening, queue, srv, up, down>>
ServerGone ==
  /\ listening' = FALSE
  /\ queue' = <<>>
  /\ srv' = [c \in Clients |-> IF srv[c] = "open" THEN "closed" ELSE srv[c]]
  /\ reset' = reset \cup {c \in Clients : cli[c] = "open" /\ srv[c] # "closed"}
  /\ UNCHANGED <<cli, up, down>>

\* Data was left in a socket that is closed, or has been sent to it since: a
\* reset comes back.
ResetArrives(c) ==
  /\ c \notin reset
  /\ \/ cli[c] = "closed" /\ srv[c] = "open" /\ down[c] # <<>>
     \/ srv[c] = "closed" /\ cli[c] = "open" /\ up[c] # <<>>
  /\ reset' = reset \cup {c}
  /\ UNCHANGED <<listening, queue, cli, srv, up, down>>
=============================================================================
