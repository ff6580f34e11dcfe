------------------------------- MODULE TcpEcho -------------------------------
(***************************************************************************)
(* Lab 2: the server (2/server/server.cpp) accepts one connection at a     *)
(* time, greets the client (2/client/client.cpp), and sends back each      *)
(* message of MsgSize bytes until the client asks to quit or is gone.      *)
(* Neither looks at what send() returns, and recv() may return part of a   *)
(* message to both.                                                        *)
(*                                                                         *)
(* The bytes that a client sends are named by their position in its        *)
(* stream; those of the greeting are 0.                                    *)
(***************************************************************************)
EXTENDS TcpNet

CONSTANTS MsgSize,    \* MESSAGESIZE
          HelloSize,  \* the bytes of "hello", which the client compares
          MaxLines    \* bound: lines that a user types

ASSUME EchoAssumption ==
  /\ MsgSize \in Nat \ {0}
  /\ HelloSize \in 1..MsgSize
  /\ MaxLines \in Nat

VARIABLES
  typed,    \* history: of each line a user has typed, does it start with quit?
  heard,    \* history: the bytes that each client has received
  shown,    \* history: what each client has printed as answers
  cstatus,  \* where each client is in main(), or how it ended
  sstatus,  \* where the server is in main(), or how it ended
  serving   \* the client of clientSocket, as a set of one or none

echoVars == <<typed, heard, shown, cstatus, sstatus, serving>>
vars == <<netVars, echoVars>>

Hello == [j \in 1..MsgSize |-> 0]
Message(n) == [j \in 1..MsgSize |-> (n - 1) * MsgSize + j]

Init ==
  /\ NetInit
  /\ typed = [c \in Clients |-> <<>>]
  /\ heard = [c \in Clients |-> <<>>]
  /\ shown = [c \in Clients |-> <<>>]
  /\ cstatus = [c \in Clients |-> "start"]
  /\ sstatus = "starting"
  /\ serving = {}

-----------------------------------------------------------------------------
(* The client. *)

\* die(), or the user closes the console.
ClientEnds(c, how) ==
  /\ ClientGone(c)
  /\ cstatus' = [cstatus EXCEPT ![c] = how]

StartClient(c) ==
  /\ cstatus[c] = "start"
  /\ \/ /\ Connect(c)
        /\ cstatus' = [cstatus EXCEPT ![c] = "greeting"]
     \/ ClientEnds(c, "died")  \* socket() is given protocol -1; nobody listens
  /\ UNCHANGED <<typed, heard, shown, sstatus, serving>>

\* The first recv().  Its result is not looked at: if it brings less than
\* HelloSize bytes, the rest of the buffer was never written, and may or may not
\* complete them to "hello".  An empty buffer does not hold "hello" by chance.
ReadHello(c) ==
  /\ cstatus[c] = "greeting"
  /\ \/ /\ ClientSeesEnd(c)
        /\ ClientEnds(c, "died")
        /\ UNCHANGED heard
     \/ /\ ~ClientSeesEnd(c)
        /\ \E k \in RecvCount(c, down[c], MsgSize) :
             \/ /\ heard' = [heard EXCEPT ![c] = @ \o Front(down[c], k)]
                /\ down' = [down EXCEPT ![c] = Rest(@, k)]
                /\ cstatus' = [cstatus EXCEPT ![c] = "prompt"]
                /\ UNCHANGED <<listening, queue, cli, srv, up, reset>>
             \/ /\ k < HelloSize
                /\ ClientEnds(c, "died")
                /\ UNCHANGED heard
  /\ UNCHANGED <<typed, shown, sstatus, serving>>

TypeLine(c) ==
  /\ cstatus[c] = "prompt"
  /\ Len(typed[c]) < MaxLines
  /\ \E quit \in BOOLEAN : typed' = [typed EXCEPT ![c] = Append(@, quit)]
  /\ up' = [up EXCEPT ![c] = @ \o Message(Len(typed[c]) + 1)]
  /\ cstatus' = [cstatus EXCEPT ![c] = "waiting"]
  /\ UNCHANGED <<listening, queue, cli, srv, down, reset, heard, shown, sstatus,
                 serving>>

\* The recv() of the loop: whatever it returns is printed as the answer.
ReadAnswer(c) ==
  /\ cstatus[c] = "waiting"
  /\ \/ /\ ClientSeesEnd(c)
        /\ CloseClient(c)
        /\ cstatus' = [cstatus EXCEPT ![c] = "exited"]
        /\ UNCHANGED <<heard, shown>>
     \/ /\ ~ClientSeesEnd(c)
        /\ \E k \in RecvCount(c, down[c], MsgSize) :
             LET piece == Front(down[c], k)
             IN  /\ heard' = [heard EXCEPT ![c] = @ \o piece]
                 /\ shown' = [shown EXCEPT ![c] = Append(@, piece)]
                 /\ down' = [down EXCEPT ![c] = Rest(@, k)]
        /\ cstatus' = [cstatus EXCEPT ![c] = "prompt"]
        /\ UNCHANGED <<listening, queue, cli, srv, up, reset>>
  /\ UNCHANGED <<typed, sstatus, serving>>

KillClient(c) ==
  /\ cstatus[c] \in {"greeting", "prompt", "waiting"}
  /\ ClientEnds(c, "killed")
  /\ UNCHANGED <<typed, heard, shown, sstatus, serving>>

ClientLoop(c) == ReadHello(c) \/ ReadAnswer(c)

-----------------------------------------------------------------------------
(* The server. *)

\* die(), or the user closes the console.
ServerEnds(how) ==
  /\ ServerGone
  /\ sstatus' = how
  /\ serving' = {}

StartServer ==
  /\ sstatus = "starting"
  /\ Listen
  /\ sstatus' = "accepting"
  /\ UNCHANGED <<typed, heard, shown, cstatus, serving>>

Accept ==
  /\ sstatus = "accepting"
  /\ \/ \E c \in Clients :
          /\ AcceptAndSend(c, Hello)
          /\ serving' = {c}
          /\ sstatus' = "reading"
     \/ /\ AcceptFails
        /\ ServerEnds("died")
  /\ UNCHANGED <<typed, heard, shown, cstatus>>

\* Does a message of client c start with quit?
IsQuitNot(c, bytes) == \* mutant: memcmp() # 0
  \E n \in 1..Len(typed[c]) : bytes = Message(n) /\ ~typed[c][n]
IsQuit(c, bytes) ==
  \E n \in 1..Len(typed[c]) : bytes = Message(n) /\ typed[c][n]

\* closesocket(clientSocket), and back to accept().
BackToAcceptOpen(c) == \* mutant: the connection stays open
  /\ sstatus' = "accepting"
  /\ serving' = {}
  /\ UNCHANGED <<srv, listening, queue, cli, down, reset>>
BackToAccept(c) ==
  /\ srv' = [srv EXCEPT ![c] = "closed"]
  /\ sstatus' = "accepting"
  /\ serving' = {}
  /\ UNCHANGED <<listening, queue, cli, down, reset>>

\* What is sent back for a message.
EchoNothing(bytes) == <<>> \* mutant: it is only printed
EchoShort(bytes) == Front(bytes, MsgSize - 1) \* mutant: without the last byte
EchoOf(bytes) == bytes

\* One iteration of the inner loop.
Serve(c) ==
  /\ sstatus = "reading"
  /\ \/ /\ ServerSeesEnd(c)
        /\ BackToAccept(c)
        /\ UNCHANGED up
     \/ /\ ~ServerSeesEnd(c)
        /\ \E k \in RecvCount(c, up[c], MsgSize) :
             LET bytes == Front(up[c], k)
             IN  \/ /\ k # MsgSize
                    /\ ServerEnds("died")
                 \/ /\ k = MsgSize
                    /\ IsQuit(c, bytes)
                    /\ up' = [up EXCEPT ![c] = Rest(@, k)]
                    /\ BackToAccept(c)
                 \/ /\ k = MsgSize
                    /\ ~IsQuit(c, bytes)
                    /\ up' = [up EXCEPT ![c] = Rest(@, k)]
                    /\ down' = [down EXCEPT ![c] = @ \o EchoOf(bytes)]
                    /\ UNCHANGED <<listening, queue, cli, srv, reset, sstatus,
                                   serving>>
  /\ UNCHANGED <<typed, heard, shown, cstatus>>

KillServer ==
  /\ sstatus \in {"accepting", "reading"}
  /\ ServerEnds("killed")
  /\ UNCHANGED <<typed, heard, shown, cstatus>>

ServerLoop == Accept \/ \E c \in serving : Serve(c)

-----------------------------------------------------------------------------
Next ==
  \/ \E c \in Clients :
       \/ StartClient(c) \/ TypeLine(c) \/ ClientLoop(c) \/ KillClient(c)
       \/ ResetArrives(c) /\ UNCHANGED echoVars
  \/ StartServer \/ ServerLoop \/ KillServer

Spec == Init /\ [][Next]_vars

\* Both programs go on when a call returns, and resets arrive; the users owe
\* nothing.
FairSpec ==
  /\ Spec
  /\ \A c \in Clients :
       /\ WF_vars(ClientLoop(c))
       /\ WF_vars(ResetArrives(c) /\ UNCHANGED echoVars)
  /\ WF_vars(ServerLoop)

-----------------------------------------------------------------------------
\* Every variable has its type, and the server reads from the one client that
\* it has accepted and not closed.
TypeOK ==
  /\ NetTypeOK
  /\ typed \in [Clients -> Seq(BOOLEAN)]
  /\ heard \in [Clients -> Seq(Nat)]
  /\ shown \in [Clients -> Seq(Seq(Nat))]
  /\ cstatus \in [Clients -> {"start", "greeting", "prompt", "waiting",
                              "exited", "died", "killed"}]
  /\ sstatus \in {"starting", "accepting", "reading", "died", "killed"}
  /\ serving = {c \in Clients : srv[c] = "open"}
  /\ sstatus = "reading" <=> serving # {}
  /\ \A c, d \in serving : c = d

\* What client c has received or is about to receive, in order, and what it
\* should be: the greeting, and then the bytes that it sent.
Echoed(c) == heard[c] \o down[c]
Stream(n) == [j \in 1..(MsgSize * (n + 1)) |->
               IF j <= MsgSize THEN 0 ELSE j - MsgSize]
Given(c) == Stream(Len(typed[c]))

\* However recv() cuts them, a client gets the greeting and then its own bytes
\* back, in order and none twice; and as long as the server holds the
\* connection, none is missing: what has not come back has yet to be read.
EchoKept ==
  \A c \in Clients :
    /\ srv[c] = "none" => Echoed(c) = <<>> /\ typed[c] = <<>>
    /\ srv[c] = "open" => Echoed(c) \o up[c] = Given(c)
    /\ srv[c] = "closed" =>
         \E n \in 0..Len(Given(c)) : Echoed(c) = SubSeq(Given(c), 1, n)

\* Never does the server wait for a client that waits for the server: there is
\* something for one of them to read, or the connection is gone.
NoMutualWait ==
  \A c \in serving :
    /\ cstatus[c] \in {"greeting", "waiting"}
    /\ c \notin reset
    => up[c] # <<>> \/ down[c] # <<>>

\* A client is told that the server closed the connection only when its user
\* typed quit, or after one of the two went away.
ExitsAfterQuit ==
  \A c \in Clients :
    cstatus[c] = "exited"
      => c \in reset \/ \E n \in 1..Len(typed[c]) : typed[c][n]

\* Every line that a user types gets an answer, or the end of the connection.
AnswerComes ==
  \A c \in Clients : cstatus[c] = "waiting" ~> cstatus[c] # "waiting"

-----------------------------------------------------------------------------
\* For the clients whose messages come whole, whatever becomes of the others,
\* lab 2 implements the echo service: what such a client prints as its k-th
\* answer is its k-th line, and no line after quit is answered.
AnswerTo(c, k) ==
  IF shown[c][k] = Message(k) THEN [line |-> k, quit |-> typed[c][k]]
                              ELSE [line |-> 0, quit |-> FALSE]
Service == INSTANCE EchoService WITH
             Clients <- Clients \ Cut,
             typed <- [c \in Clients \ Cut |-> typed[c]],
             shown <- [c \in Clients \ Cut |->
                        [k \in 1..Len(shown[c]) |-> AnswerTo(c, k)]]
ImplementsEcho == Service!Spec
=============================================================================
