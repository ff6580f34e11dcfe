------------------------------ MODULE AsyncLab ------------------------------
(***************************************************************************)
(* The whole of 7/: the clients, the server, and WinSock between them.     *)
(***************************************************************************)
EXTENDS AsyncClient, AsyncServer

vars == <<netVars, clientVars, serverVars>>

Init == NetInit /\ ClientInit /\ ServerInit

ClientStep(c) == (User(c) \/ ClientLoop(c)) /\ UNCHANGED serverVars
ServerStep == (StartListening \/ ServerLoop \/ ServerUser)
              /\ UNCHANGED clientVars
WinSock(c) == NetStep(c) /\ UNCHANGED <<clientVars, serverVars>>

Next == \/ \E c \in Clients : ClientStep(c) \/ WinSock(c)
        \/ ServerStep

Spec == Init /\ [][Next]_vars

\* Windows goes on scheduling both processes, and TCP goes on delivering; the
\* users owe nothing.
Fairness ==
  /\ \A c \in Clients :
       /\ WF_vars(ClientLoop(c) /\ UNCHANGED serverVars)
       /\ WF_vars(WinSock(c))
  /\ WF_vars(StartListening /\ UNCHANGED clientVars)
  /\ WF_vars(ServerLoop /\ UNCHANGED clientVars)

FairSpec == Spec /\ Fairness

-----------------------------------------------------------------------------
\* Every variable of the network, the clients and the server has its type, and
\* FD_CLOSE is posted only for sockets that the server holds.
TypeOK == NetTypeOK /\ ClientTypeOK /\ ServerTypeOK

\* No buffer is ever overrun: what sendMessage() appends fits, and recv() is
\* never asked for zero bytes, which would look like a closed connection.
BuffersBounded ==
  \A c \in Clients :
    /\ Len(recv_buf[c]) < MsgSize
    /\ Len(recv_buf_[c]) < MsgSize
    /\ Len(send_buf[c]) <= SendSlots * MsgSize
    /\ Len(up[c]) <= Cap
    /\ Len(down[c]) <= Cap

\* However the bytes of a keypress are cut up by send() and recv(), the k-th
\* NetMessage that processMessage() gets from a client is the k-th that its
\* user's keys made, whole: nothing is torn, repeated or out of order.
KeypressesInOrder ==
  \A c \in Clients :
    /\ Len(got[c]) <= sent[c]
    /\ \A k \in 1..Len(got[c]) : got[c][k] = Encode(k)

\* The bytes of c's keypresses that are on their way, oldest first.
InFlight(c) == recv_buf_[c] \o up[c] \o send_buf[c]

\* Every byte of every keypress accepted by sendMessage() is in one place: in
\* a message the server has processed, or in one of the buffers on the way.
NothingLost ==
  \A c \in Clients :
    InFlight(c) = [j \in 1..((sent[c] - Len(got[c])) * MsgSize) |->
                    Len(got[c]) * MsgSize + j]

\* A client shows nothing but the one welcome, whole.
OnlyWelcome == \A c \in Clients : shown[c] \in {<<>>, <<Encode(1)>>}

\* Client c is the one that the message being handled is about: WinSock reports
\* an error on its socket, or accept() is about to take its connection.
About(c) ==
  /\ srvQ # <<>>
  /\ \/ Head(srvQ) = Event(c, "FD_CLOSE", TRUE)
     \/ /\ Head(srvQ).event = "FD_ACCEPT"
        /\ backlog # <<>>
        /\ c = Head(backlog)

\* Client c's process ended without closesocket(), or c closed its socket, in
\* order even, and never had all of the welcome that the server sent it.
LeftAbruptly(c) == rst[c] = "client" \/ (rst[c] = "unread" /\ down[c] # <<>>)

\* When the server aborts, it is for the client of the message it is handling,
\* which left abruptly.  It never aborts because of a client that has read its
\* welcome and then pressed Esc, nor by a sequence of its own: accept() is
\* called only when there is a connection to accept, and no listed client is
\* the listening socket.
ServerDiesOfReset ==
  [][sstatus' = "died" /\ sstatus # "died"
       => \E c \in Clients : About(c) /\ LeftAbruptly(c)]_vars

\* The windows' procedure for a socket never runs for a socket that the list
\* does not hold: "SHOULDNT HAPPEN", server.cpp line 431.  (The listening
\* socket is exempt: it is in no list, so the handler ends in that branch each
\* time it has handled an FD_ACCEPT.)
NoStrayMessages ==
  \A i \in 1..Len(srvQ) : srvQ[i].sock \in clients \cup {serverSocket}

\* Whenever something can be read from a listed client, the window has been
\* told so, or the handler will be: no byte waits for an event that is not
\* coming.
ReadsAnnounced ==
  \A c \in clients :
    up[c] # <<>> /\ rst[c] = "no" /\ sstatus \in {"running", "quitting"}
      => Pending(srvQ, Event(c, "FD_READ", FALSE))

\* A client that closes its socket in an orderly way leaves the list only when
\* doRead() has had all that it sent.
LeavesDrained ==
  [][\A c \in clients \ clients' : up[c] = <<>>]_vars

\* A connected client that stays gets its welcome.
WelcomeArrives ==
  \A c \in Clients :
    connected[c] ~> shown[c] # <<>> \/ status[c] # "running"

\* What has been given to send() is received, unless the connection is reset or
\* the server ends.
ServerDrains ==
  \A c \in Clients :
    up[c] # <<>>
      ~> up[c] = <<>> \/ rst[c] # "no" \/ sstatus \in {"exited", "died"}

\* A client that has gone leaves the list, if the server lives.
ClosedClientsLeave ==
  \A c \in Clients :
    tcp[c] = "closed" /\ c \in clients
      ~> c \notin clients \/ sstatus \in {"exited", "died"}

\* A client that quits comes to its end, by WM_QUIT or, when a message for the
\* socket it has closed comes first, by die().
QuittersEnd ==
  \A c \in Clients :
    status[c] \in {"quitting", "destroyed"} ~> status[c] \in {"exited", "died"}

-----------------------------------------------------------------------------
(* What a comment of 7/ says, and the code does not do. *)

\* client.cpp lines 373-374: what send() did not take is sent when "another
\* FD_WRITE message" comes.
SendBufDrains ==
  \A c \in Clients :
    send_buf[c] # <<>> ~> send_buf[c] = <<>> \/ status[c] # "running"

-----------------------------------------------------------------------------
\* The composition implements the stream of keypresses.
KeyPresses == INSTANCE KeyStream WITH
                Senders <- Clients, Msg <- Encode, members <- clients
ImplementsKeyStream == KeyPresses!Spec
=============================================================================
