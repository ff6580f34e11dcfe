------------------------------ MODULE AsyncNet ------------------------------
(***************************************************************************)
(* What the two programs of 7/ ask of WinSock: TCP connections, and the    *)
(* WM_SOCKET messages that WSAAsyncSelect posts to a window.  The library  *)
(* itself is not in the repository, so this module is modelled from how    *)
(* 7/client/client/client.cpp and 7/server/server/server.cpp use it.       *)
(*                                                                         *)
(* A client opens one socket and connects it at most once, and the server  *)
(* never closes an accepted socket, so one identifier c \in Clients names  *)
(* a client process, its socket, and the server's handle for the           *)
(* connection.  The bytes of a stream are named by their position in it:   *)
(* the n-th byte that one side passes to send() is the number n.           *)
(***************************************************************************)
EXTENDS Naturals, Sequences

CONSTANTS Clients,       \* the client processes
          serverSocket,  \* the server's listening socket
          MsgSize,       \* sizeof NetMessage
          SendSlots,     \* messages a send buffer holds (100 in the code)
          Cap,           \* bytes TCP buffers in one direction of a connection
          Backlog,       \* listen()'s queue of pending connections
          EagerClose     \* may FD_CLOSE overtake data that is still unread?

ASSUME NetAssumption ==
  /\ serverSocket \notin Clients
  /\ MsgSize \in Nat \ {0}
  /\ SendSlots \in Nat \ {0}
  /\ Cap \in Nat
  /\ Cap >= MsgSize
  /\ Backlog \in Nat \ {0}
  /\ EagerClose \in BOOLEAN

VARIABLES
  tcp,        \* the client's end of each connection
  rst,        \* why the connection was reset, if it was: ResetCause
  up,         \* bytes from each client that the server has not received
  down,       \* bytes to each client that it has not received
  listening,  \* is serverSocket listening?
  backlog,    \* connections the server has not accepted yet
  sockets,    \* accepted sockets that the server process holds open
  fdClose,    \* accepted sockets whose FD_CLOSE has been posted
  srvQ,       \* WM_SOCKET messages posted to the server's window
  cliQ        \* WM_SOCKET messages posted to each client's window

netVars == <<tcp, rst, up, down, listening, backlog, sockets, fdClose,
             srvQ, cliQ>>

TcpState == {"idle", "connecting", "refused", "up", "closed"}

\* A client's process ended with its socket open; a client closed its socket
\* with data of the server unread, or before data of the server reached it; the
\* server's process ended.
ResetCause == {"no", "client", "unread", "server"}

EventName == {"FD_ACCEPT", "FD_CONNECT", "FD_READ", "FD_WRITE", "FD_CLOSE"}

\* A WM_SOCKET message: wParam, WSAGETSELECTEVENT and WSAGETSELECTERROR # 0.
Event(s, e, err) == [sock |-> s, event |-> e, error |-> err]

EventMsg == [sock : Clients \cup {serverSocket},
             event : EventName, error : BOOLEAN]

\* The bytes of the n-th NetMessage of a stream.
Encode(n) == [j \in 1..MsgSize |-> (n - 1) * MsgSize + j]

\* sendMessage()'s guard: is there room in the send buffer for one more?
FitsLate(buf) == Len(buf) <= SendSlots * MsgSize \* mutant: forgets the new one
Fits(buf) == Len(buf) + MsgSize <= SendSlots * MsgSize

\* What recv() leaves in the socket after its first k bytes.
Rest(bytes, k) == SubSeq(bytes, k + 1, Len(bytes))

\* What memmove() leaves in a send buffer of which k bytes were sent.
UnsentEarly(buf, k) == SubSeq(buf, k, Len(buf) - 1) \* mutant: from count - 1
Unsent(buf, k) == SubSeq(buf, k + 1, Len(buf))

\* What recv() may return k bytes of: at least one, at most the room asked for.
RecvCount(avail, room) == {k \in 1..Len(avail) : k <= room}

\* What send() takes: as much of the buffer as TCP has room for.
SendCount(buf, net) ==
  {k \in 1..Len(buf) : /\ k + Len(net) <= Cap
                       /\ k = Len(buf) \/ k + Len(net) = Cap}

Pending(q, m) == \E i \in 1..Len(q) : q[i] = m

\* An event is not posted again until a call re-enables it, so a queue never
\* holds the same message twice.
Post(q, m) == IF Pending(q, m) THEN q ELSE Append(q, m)

\* Does the peer's orderly close reach the window of accepted socket c, of
\* which unread bytes are left?
CloseDue(c, unread) == EagerClose \/ unread = <<>>

\* FD_CLOSE on accepted socket c: posted once, and to a live server only.
PostCloseAny(c, err) == \* mutant: without asking whether c was accepted
  IF c \notin fdClose
  THEN /\ srvQ' = Append(srvQ, Event(c, "FD_CLOSE", err))
       /\ fdClose' = fdClose \cup {c}
  ELSE UNCHANGED <<srvQ, fdClose>>
PostClose(c, err) ==
  IF c \in sockets \ fdClose
  THEN /\ srvQ' = Append(srvQ, Event(c, "FD_CLOSE", err))
       /\ fdClose' = fdClose \cup {c}
  ELSE UNCHANGED <<srvQ, fdClose>>

(***************************************************************************)
(* Client c's socket goes away: by closesocket() (abortive only if data    *)
(* was left unread), or abortively when the process ends without it.  The  *)
(* cause of the reset is "no" for an orderly close.                        *)
(***************************************************************************)
Disconnect(c, cause) ==
  /\ tcp' = [tcp EXCEPT ![c] = "closed"]
  /\ IF tcp[c] = "up" /\ rst[c] = "no" /\ cause # "no"
     THEN /\ rst' = [rst EXCEPT ![c] = cause]
          /\ PostClose(c, TRUE)
     ELSE /\ UNCHANGED rst
          /\ IF tcp[c] = "up" /\ rst[c] = "no" /\ CloseDue(c, up[c])
             THEN PostClose(c, FALSE)
             ELSE UNCHANGED <<srvQ, fdClose>>
  /\ UNCHANGED <<up, down, listening, backlog, sockets>>

\* The type of the network's state.
NetTypeOK ==
  /\ tcp \in [Clients -> TcpState]
  /\ rst \in [Clients -> ResetCause]
  /\ up \in [Clients -> Seq(Nat)]
  /\ down \in [Clients -> Seq(Nat)]
  /\ listening \in BOOLEAN
  /\ backlog \in Seq(Clients)
  /\ sockets \subseteq Clients
  /\ fdClose \subseteq sockets
  /\ srvQ \in Seq(EventMsg)
  /\ cliQ \in [Clients -> Seq(EventMsg)]

NetInit ==
  /\ tcp = [c \in Clients |-> "idle"]
  /\ rst = [c \in Clients |-> "no"]
  /\ up = [c \in Clients |-> <<>>]
  /\ down = [c \in Clients |-> <<>>]
  /\ listening = FALSE
  /\ backlog = <<>>
  /\ sockets = {}
  /\ fdClose = {}
  /\ srvQ = <<>>
  /\ cliQ = [c \in Clients |-> <<>>]

\* The handshake ends, with or without the server having called accept().
Establish(c) ==
  /\ tcp[c] = "connecting"
  /\ listening
  /\ Len(backlog) < Backlog
  /\ tcp' = [tcp EXCEPT ![c] = "up"]
  /\ backlog' = Append(backlog, c)
  /\ cliQ' = [cliQ EXCEPT ![c] = Post(@, Event(c, "FD_CONNECT", FALSE))]
  /\ srvQ' = Post(srvQ, Event(serverSocket, "FD_ACCEPT", FALSE))
  /\ UNCHANGED <<rst, up, down, listening, sockets, fdClose>>

\* Nobody listens on the port, or the backlog is full.
Refuse(c) ==
  /\ tcp[c] = "connecting"
  /\ ~listening \/ Len(backlog) >= Backlog
  /\ tcp' = [tcp EXCEPT ![c] = "refused"]
  /\ cliQ' = [cliQ EXCEPT ![c] = Post(@, Event(c, "FD_CONNECT", TRUE))]
  /\ UNCHANGED <<rst, up, down, listening, backlog, sockets, fdClose, srvQ>>

\* Data that the server sent to a socket which was already closed comes back
\* as a reset.
ResetArrives(c) ==
  /\ tcp[c] = "closed"
  /\ rst[c] = "no"
  /\ c \in sockets
  /\ down[c] # <<>>
  /\ rst' = [rst EXCEPT ![c] = "unread"]
  /\ PostClose(c, TRUE)
  /\ UNCHANGED <<tcp, up, down, listening, backlog, sockets, cliQ>>

NetStep(c) == Establish(c) \/ Refuse(c) \/ ResetArrives(c)
=============================================================================
