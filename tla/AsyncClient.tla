----------------------------- MODULE AsyncClient -----------------------------
(***************************************************************************)
(* The client of 7/ (7/client/client/client.cpp): a window whose procedure *)
(* handles keys and WM_SOCKET messages, one at a time.  A handler runs to  *)
(* its end, but the network and the server move between two calls of       *)
(* recv() or send() that it makes, so each iteration of tryToRead() and    *)
(* tryToWrite() is a step of its own.                                      *)
(***************************************************************************)
EXTENDS AsyncNet

CONSTANT MaxKeys  \* bound: letters that a user types

ASSUME MaxKeysAssumption == MaxKeys \in Nat

VARIABLES
  connected,  \* the client believes that it is connected
  pc,         \* "loop": in GetMessage(); "read", "write": in a handler's loop
  recv_buf,   \* the first recv_count bytes of recv_buf
  send_buf,   \* the first send_count bytes of send_buf
  status,     \* the process
  sent,       \* history: messages that sendMessage() has accepted
  shown       \* history: messages passed to processMessage()

clientVars == <<connected, pc, recv_buf, send_buf, status, sent, shown>>

\* After Esc ("quitting") messages already posted are still dispatched before
\* WM_QUIT; the messages of a destroyed window are not.
ClientStatus == {"running", "quitting", "destroyed", "exited", "died"}

\* The type of the clients' state.
ClientTypeOK ==
  /\ connected \in [Clients -> BOOLEAN]
  /\ pc \in [Clients -> {"loop", "read", "write"}]
  /\ recv_buf \in [Clients -> Seq(Nat)]
  /\ send_buf \in [Clients -> Seq(Nat)]
  /\ status \in [Clients -> ClientStatus]
  /\ sent \in [Clients -> 0..MaxKeys]
  /\ shown \in [Clients -> Seq(Seq(Nat))]

ClientInit ==
  /\ connected = [c \in Clients |-> FALSE]
  /\ pc = [c \in Clients |-> "loop"]
  /\ recv_buf = [c \in Clients |-> <<>>]
  /\ send_buf = [c \in Clients |-> <<>>]
  /\ status = [c \in Clients |-> "running"]
  /\ sent = [c \in Clients |-> 0]
  /\ shown = [c \in Clients |-> <<>>]

\* die(): the process aborts, and its socket goes with it.
Dies(c) ==
  /\ status' = [status EXCEPT ![c] = "died"]
  /\ pc' = [pc EXCEPT ![c] = "loop"]
  /\ Disconnect(c, "client")
  /\ cliQ' = [cliQ EXCEPT ![c] = <<>>]
  /\ UNCHANGED <<connected, recv_buf, send_buf, sent, shown>>

AtKeyboard(c) == status[c] = "running" /\ pc[c] = "loop"

\* 'C' while not connected.  connect() answers WSAEWOULDBLOCK on a socket that
\* is not connecting yet, and with another error otherwise.
PressC(c) ==
  /\ AtKeyboard(c)
  /\ ~connected[c]
  /\ \/ /\ tcp[c] \in {"idle", "refused"}
        /\ tcp' = [tcp EXCEPT ![c] = "connecting"]
        /\ UNCHANGED <<rst, up, down, listening, backlog, sockets, fdClose,
                       srvQ, cliQ, clientVars>>
     \/ /\ tcp[c] \notin {"idle", "refused"}
        /\ Dies(c)

\* A letter while connected: sendMessage(), which goes on to tryToWrite().
PressLetter(c) ==
  /\ AtKeyboard(c)
  /\ connected[c]
  /\ sent[c] < MaxKeys
  /\ \/ /\ Fits(send_buf[c])
        /\ send_buf' = [send_buf EXCEPT ![c] = @ \o Encode(sent[c] + 1)]
        /\ sent' = [sent EXCEPT ![c] = @ + 1]
        /\ pc' = [pc EXCEPT ![c] = "write"]
        /\ UNCHANGED <<connected, recv_buf, status, shown, netVars>>
     \/ /\ ~Fits(send_buf[c])
        /\ Dies(c)

\* Esc closes the socket and quits, but only once connected.
PressEscape(c) ==
  /\ AtKeyboard(c)
  /\ connected[c]
  /\ Disconnect(c, IF down[c] # <<>> THEN "unread" ELSE "no")
  /\ status' = [status EXCEPT ![c] = "quitting"]
  /\ UNCHANGED <<connected, pc, recv_buf, send_buf, sent, shown, cliQ>>

\* WM_DESTROY: the window is gone, and the messages posted to it.
CloseWindow(c) ==
  /\ AtKeyboard(c)
  /\ status' = [status EXCEPT ![c] = "destroyed"]
  /\ UNCHANGED <<connected, pc, recv_buf, send_buf, sent, shown, netVars>>

\* WM_SOCKET.  FD_CLOSE without an error is ignored, and FD_WRITE is not in the
\* mask passed to WSAAsyncSelect, so it never comes.
SocketMessage(c) ==
  /\ status[c] \in {"running", "quitting"}
  /\ pc[c] = "loop"
  /\ cliQ[c] # <<>>
  /\ LET m == Head(cliQ[c]) IN
     \/ /\ m.error
        /\ Dies(c)
     \/ /\ ~m.error
        /\ cliQ' = [cliQ EXCEPT ![c] = Tail(@)]
        /\ connected' = [connected EXCEPT ![c] = @ \/ m.event = "FD_CONNECT"]
        /\ pc' = [pc EXCEPT ![c] = IF m.event = "FD_READ" THEN "read" ELSE @]
        /\ UNCHANGED <<recv_buf, send_buf, status, sent, shown, tcp, rst,
                       up, down, listening, backlog, sockets, fdClose, srvQ>>

\* May recv() and send() still be called on client c's socket?
Usable(c) == tcp[c] = "up" /\ rst[c] = "no"

\* What recv() leaves in recv_buf, once a complete message is taken out of it,
\* and the messages processed so far.
ProcessedEarly(log, buf) == Append(log, buf) \* mutant: whole or not
Unprocessed(buf) == IF Len(buf) = MsgSize THEN <<>> ELSE buf
Processed(log, buf) == IF Len(buf) = MsgSize THEN Append(log, buf) ELSE log

\* One iteration of tryToRead().
TryToRead(c) ==
  /\ pc[c] = "read"
  /\ \/ /\ ~Usable(c)
        /\ Dies(c)
     \/ /\ Usable(c)
        /\ down[c] = <<>>
        /\ pc' = [pc EXCEPT ![c] = "loop"]
        /\ UNCHANGED <<connected, recv_buf, send_buf, status, sent, shown,
                       netVars>>
     \/ /\ Usable(c)
        /\ \E k \in RecvCount(down[c], MsgSize - Len(recv_buf[c])) :
             LET buf == recv_buf[c] \o SubSeq(down[c], 1, k)
                 rest == Rest(down[c], k)
             IN  /\ down' = [down EXCEPT ![c] = rest]
                 /\ recv_buf' = [recv_buf EXCEPT ![c] = Unprocessed(buf)]
                 /\ shown' = [shown EXCEPT ![c] = Processed(@, buf)]
                 /\ cliQ' = IF rest = <<>> THEN cliQ
                            ELSE [cliQ EXCEPT
                                   ![c] = Post(@, Event(c, "FD_READ", FALSE))]
        /\ UNCHANGED <<connected, pc, send_buf, status, sent, tcp, rst, up,
                       listening, backlog, sockets, fdClose, srvQ>>

\* One iteration of tryToWrite().
TryToWrite(c) ==
  /\ pc[c] = "write"
  /\ \/ /\ ~Usable(c)
        /\ Dies(c)
     \/ /\ Usable(c)
        /\ SendCount(send_buf[c], up[c]) = {}
        /\ pc' = [pc EXCEPT ![c] = "loop"]
        /\ UNCHANGED <<connected, recv_buf, send_buf, status, sent, shown,
                       netVars>>
     \/ /\ Usable(c)
        /\ \E k \in SendCount(send_buf[c], up[c]) :
             LET rest == Unsent(send_buf[c], k)
             IN  /\ up' = [up EXCEPT ![c] = @ \o SubSeq(send_buf[c], 1, k)]
                 /\ send_buf' = [send_buf EXCEPT ![c] = rest]
                 /\ pc' = [pc EXCEPT ![c] = IF rest = <<>> THEN "loop" ELSE @]
        /\ srvQ' = IF c \in sockets
                   THEN Post(srvQ, Event(c, "FD_READ", FALSE))
                   ELSE srvQ
        /\ UNCHANGED <<connected, recv_buf, status, sent, shown, tcp, rst,
                       down, listening, backlog, sockets, fdClose, cliQ>>

\* Esc posts WM_QUIT, and so does WM_DESTROY.
QuitPostedByDestroy(c) == status[c] = "destroyed" \* mutant: only WM_DESTROY
QuitPosted(c) == status[c] \in {"quitting", "destroyed"}

\* GetMessage() returns WM_QUIT, and WSACleanup() resets a socket still open.
Quit(c) ==
  /\ QuitPosted(c)
  /\ status[c] = "quitting" => pc[c] = "loop" /\ cliQ[c] = <<>>
  /\ status' = [status EXCEPT ![c] = "exited"]
  /\ Disconnect(c, "client")
  /\ cliQ' = [cliQ EXCEPT ![c] = <<>>]
  /\ UNCHANGED <<connected, pc, recv_buf, send_buf, sent, shown>>

\* What the user may do, and what the message loop does by itself.
User(c) == \/ PressC(c) \/ PressLetter(c) \/ PressEscape(c) \/ CloseWindow(c)
ClientLoop(c) ==
  \/ SocketMessage(c) \/ TryToRead(c) \/ TryToWrite(c) \/ Quit(c)
=============================================================================
