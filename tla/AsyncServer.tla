----------------------------- MODULE AsyncServer -----------------------------
(***************************************************************************)
(* The server of 7/ (7/server/server/server.cpp): a window whose procedure *)
(* handles the WM_SOCKET messages of the listening socket and of every     *)
(* accepted one.  Each handler makes one socket call at most, so each is   *)
(* one step.  The list of Client objects is a set of sockets, since no two *)
(* of them have the same.                                                  *)
(***************************************************************************)
EXTENDS AsyncNet

VARIABLES
  sstatus,    \* the process
  clients,    \* the sockets of the Client objects in the list
  recv_buf_,  \* the first recv_count_ bytes of each client's recv_buf_
  send_buf_,  \* the first send_count_ bytes of each client's send_buf_
  got         \* history: messages passed to each client's processMessage()

serverVars == <<sstatus, clients, recv_buf_, send_buf_, got>>

ServerStatus ==
  {"starting", "running", "quitting", "destroyed", "exited", "died"}

\* The type of the server's state.
ServerTypeOK ==
  /\ sstatus \in ServerStatus
  /\ clients \subseteq Clients
  /\ recv_buf_ \in [Clients -> Seq(Nat)]
  /\ send_buf_ \in [Clients -> Seq(Nat)]
  /\ got \in [Clients -> Seq(Seq(Nat))]

ServerInit ==
  /\ sstatus = "starting"
  /\ clients = {}
  /\ recv_buf_ = [c \in Clients |-> <<>>]
  /\ send_buf_ = [c \in Clients |-> <<>>]
  /\ got = [c \in Clients |-> <<>>]

\* The server process ends, by die() or after its loop, and every connection
\* it holds, accepted or not, is reset.
ServerGone(how) ==
  LET hit == {c \in Clients : tcp[c] = "up" /\ rst[c] = "no"} IN
  /\ sstatus' = how
  /\ listening' = FALSE
  /\ backlog' = <<>>
  /\ sockets' = {}
  /\ fdClose' = {}
  /\ srvQ' = <<>>
  /\ rst' = [c \in Clients |-> IF c \in hit THEN "server" ELSE rst[c]]
  /\ cliQ' = [c \in Clients |->
               IF c \in hit THEN Append(cliQ[c], Event(c, "FD_CLOSE", TRUE))
                            ELSE cliQ[c]]
  /\ UNCHANGED <<tcp, up, down, clients, recv_buf_, send_buf_, got>>

\* WinMain() up to its message loop.
StartListening ==
  /\ sstatus = "starting"
  /\ sstatus' = "running"
  /\ listening' = TRUE
  /\ UNCHANGED <<clients, recv_buf_, send_buf_, got, tcp, rst, up, down,
                 backlog, sockets, fdClose, srvQ, cliQ>>

Dispatching == sstatus \in {"running", "quitting"} /\ srvQ # <<>>

\* WSAGETSELECTERROR(lParam) # 0: the handler dies before it looks further.
FatalOnClose(m) == m.error \/ m.event = "FD_CLOSE" \* mutant: on any FD_CLOSE
Fatal(m) == m.error

OnError ==
  /\ Dispatching
  /\ Fatal(Head(srvQ))
  /\ ServerGone("died")

\* Is the next message an event e without an error?
Handling(e) == Dispatching /\ ~Fatal(Head(srvQ)) /\ Head(srvQ).event = e

\* getClientViaSocketAddress() # 0
StillOpen(s) == s \in sockets \* mutant: looks among the sockets
Listed(s) == s \in clients

\* Does accept() return INVALID_SOCKET?
AcceptFails == backlog = <<>> \/ rst[Head(backlog)] # "no"

\* What sendMessage() leaves in the buffer of a new client: the welcome.
Welcome == Encode(1)

PostIf(cond, m) == IF cond THEN <<m>> ELSE <<>>

\* FD_ACCEPT: addClientToList(), and die() if it fails or if the list holds a
\* client whose socket is the listening one.
OnAccept ==
  /\ Handling("FD_ACCEPT")
  /\ \/ /\ AcceptFails \/ Listed(serverSocket)
        /\ ServerGone("died")
     \/ /\ ~(AcceptFails \/ Listed(serverSocket))
        /\ LET c == Head(backlog) IN
           /\ backlog' = Tail(backlog)
           /\ sockets' = sockets \cup {c}
           /\ clients' = clients \cup {c}
           /\ recv_buf_' = [recv_buf_ EXCEPT ![c] = <<>>]
           /\ send_buf_' = [send_buf_ EXCEPT ![c] = Welcome]
           /\ LET ended == tcp[c] = "closed" /\ CloseDue(c, up[c]) IN
              /\ fdClose' = IF ended THEN fdClose \cup {c} ELSE fdClose
              /\ srvQ' = Tail(srvQ)
                   \o <<Event(c, "FD_WRITE", FALSE)>>
                   \o PostIf(up[c] # <<>>, Event(c, "FD_READ", FALSE))
                   \o PostIf(ended, Event(c, "FD_CLOSE", FALSE))
                   \o PostIf(Tail(backlog) # <<>>,
                             Event(serverSocket, "FD_ACCEPT", FALSE))
        /\ UNCHANGED <<sstatus, got, tcp, rst, up, down, listening, cliQ>>

\* What recv() leaves in recv_buf_ once a complete message is taken out of it,
\* and the messages processed so far.
UnreadKept(buf) == buf \* mutant: recv_count_ is not reset
Unread(buf) == IF Len(buf) = MsgSize THEN <<>> ELSE buf
ReceivedEarly(log, buf) == Append(log, buf) \* mutant: whole or not
Received(log, buf) == IF Len(buf) = MsgSize THEN Append(log, buf) ELSE log

WantReadNew(c) == recv_buf_[c] = <<>> \* mutant: only between messages
WantReadSwapped(c) == send_buf_[c] # <<>> \* mutant: the other one's test
WantRead(c) == TRUE

\* FD_READ: doRead(), one recv().  That it returns true if the socket should
\* be closed is not looked at.
OnRead ==
  /\ Handling("FD_READ")
  /\ LET c == Head(srvQ).sock IN
     /\ Listed(c)
     /\ \/ /\ ~WantRead(c) \/ rst[c] # "no" \/ up[c] = <<>>
           /\ srvQ' = Tail(srvQ)
           /\ UNCHANGED <<up, fdClose, recv_buf_, got>>
        \/ /\ WantRead(c)
           /\ rst[c] = "no"
           /\ \E k \in RecvCount(up[c], MsgSize - Len(recv_buf_[c])) :
                LET buf == recv_buf_[c] \o SubSeq(up[c], 1, k)
                    rest == Rest(up[c], k)
                    ended == /\ tcp[c] = "closed"
                             /\ c \notin fdClose
                             /\ CloseDue(c, rest)
                IN  /\ up' = [up EXCEPT ![c] = rest]
                    /\ recv_buf_' = [recv_buf_ EXCEPT ![c] = Unread(buf)]
                    /\ got' = [got EXCEPT ![c] = Received(@, buf)]
                    /\ fdClose' = IF ended THEN fdClose \cup {c} ELSE fdClose
                    /\ srvQ' = Tail(srvQ)
                         \o PostIf(rest # <<>>, Event(c, "FD_READ", FALSE))
                         \o PostIf(ended, Event(c, "FD_CLOSE", FALSE))
  /\ UNCHANGED <<sstatus, clients, send_buf_, tcp, rst, down, listening,
                 backlog, sockets, cliQ>>

WantWriteTwo(c) == Len(send_buf_[c]) > MsgSize \* mutant: off by one message
WantWrite(c) == send_buf_[c] # <<>>

\* FD_WRITE: doWrite(), one send(), if there is something to send.  Bytes sent
\* to a socket that the client has closed go nowhere, which send() cannot know.
OnWrite ==
  /\ Handling("FD_WRITE")
  /\ LET c == Head(srvQ).sock IN
     /\ Listed(c)
     /\ \/ /\ \/ ~WantWrite(c)
              \/ rst[c] # "no"
              \/ SendCount(send_buf_[c], down[c]) = {}
           /\ UNCHANGED <<send_buf_, down, cliQ>>
        \/ /\ WantWrite(c)
           /\ rst[c] = "no"
           /\ \E k \in SendCount(send_buf_[c], down[c]) :
                /\ down' = [down EXCEPT ![c] = @ \o SubSeq(send_buf_[c], 1, k)]
                /\ send_buf_' = [send_buf_ EXCEPT ![c] = Unsent(@, k)]
           /\ cliQ' = IF tcp[c] = "up"
                      THEN [cliQ EXCEPT
                             ![c] = Post(@, Event(c, "FD_READ", FALSE))]
                      ELSE cliQ
  /\ srvQ' = Tail(srvQ)
  /\ UNCHANGED <<sstatus, clients, recv_buf_, got, tcp, rst, up, listening,
                 backlog, sockets, fdClose>>

\* removeClient(): the Client leaves the list and is not deleted, so that its
\* destructor never closes the socket.
RemoveNone(list, c) == list \* mutant: the list is left as it is
RemoveAll(list, c) == {} \* mutant: the list is cleared
RemoveClient(list, c) == list \ {c}

\* FD_CLOSE: setClose(), getClose(), removeClient().
OnClose ==
  /\ Handling("FD_CLOSE")
  /\ Listed(Head(srvQ).sock)
  /\ clients' = RemoveClient(clients, Head(srvQ).sock)
  /\ srvQ' = Tail(srvQ)
  /\ UNCHANGED <<sstatus, recv_buf_, send_buf_, got, tcp, rst, up, down,
                 listening, backlog, sockets, fdClose, cliQ>>

\* A message for a socket of which no client is in the list is ignored.
OnStray ==
  /\ Dispatching
  /\ ~Fatal(Head(srvQ))
  /\ Head(srvQ).event # "FD_ACCEPT"
  /\ ~Listed(Head(srvQ).sock)
  /\ srvQ' = Tail(srvQ)
  /\ UNCHANGED <<serverVars, tcp, rst, up, down, listening, backlog, sockets,
                 fdClose, cliQ>>

\* Esc, or WM_DESTROY: the messages of a destroyed window are not dispatched.
ServerUser ==
  /\ sstatus = "running"
  /\ sstatus' \in {"quitting", "destroyed"}
  /\ UNCHANGED <<clients, recv_buf_, send_buf_, got, netVars>>

\* GetMessage() returns WM_QUIT: the code after the loop.
ServerQuit ==
  /\ \/ sstatus = "quitting" /\ srvQ = <<>>
     \/ sstatus = "destroyed"
  /\ ServerGone("exited")

ServerLoop ==
  \/ OnError \/ OnAccept \/ OnRead \/ OnWrite \/ OnClose \/ OnStray
  \/ ServerQuit
=============================================================================
