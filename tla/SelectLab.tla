----------------------------- MODULE SelectLab ------------------------------
(***************************************************************************)
(* Lab 5: one thread serves up to MaxClients clients with select().  The   *)
(* server (5/server/server.cpp) welcomes or denies each connection; the    *)
(* client (5/client/client.cpp) prints a message, sends a line, and waits  *)
(* for the next message.  The server asks select() only about the clients  *)
(* that want to be read, and a client wants that once select() has said    *)
(* that it is ready.                                                       *)
(*                                                                         *)
(* Bytes are named by their position in the client's stream; those that    *)
(* the server makes itself are 0.                                          *)
(***************************************************************************)
EXTENDS TcpNet, FiniteSets

CONSTANTS MsgSize,     \* MESSAGESIZE
          MaxClients,  \* MAX_NUM_CLIENTS
          MaxLines     \* bound: lines that a user types

\* What the theorems assume of the constants.
SelectAssumption ==
  /\ MsgSize \in Nat \ {0}
  /\ MaxClients \in Nat
  /\ MaxLines \in Nat
  /\ IsFiniteSet(Clients)

VARIABLES
  typed,    \* history: of each line a user has typed, does it start with quit?
  cstatus,  \* where each client is in main(), or how it ended
  sstatus,  \* where the server is in its loop, or how it ended
  listed,   \* the clients in the list `clients'
  reading,  \* those whose flag `read' is set
  waiting,  \* is serverSocket in `readable'?
  ready,    \* the clients whose socket is in `readable' and still to be read
  doubted   \* the one for which doRead() is called again, as a set of one or none

labVars == <<typed, cstatus, sstatus, listed, reading, waiting, ready, doubted>>
vars == <<netVars, labVars>>

\* The welcome, or the apology.
Greeting == [j \in 1..MsgSize |-> 0]
Message(n) == [j \in 1..MsgSize |-> (n - 1) * MsgSize + j]

Init ==
  /\ NetInit
  /\ typed = [c \in Clients |-> <<>>]
  /\ cstatus = [c \in Clients |-> "start"]
  /\ sstatus = "starting"
  /\ listed = {}
  /\ reading = {}
  /\ waiting = FALSE
  /\ ready = {}
  /\ doubted = {}

-----------------------------------------------------------------------------
(* The client. *)

\* die(), or the user closes the console.
ClientEnds(c, how) ==
  /\ ClientGone(c)
  /\ cstatus' = [cstatus EXCEPT ![c] = how]

StartClient(c) ==
  /\ cstatus[c] = "start"
  /\ \/ Connect(c) /\ cstatus' = [cstatus EXCEPT ![c] = "waiting"]
     \/ ~listening /\ ClientEnds(c, "died")
  /\ UNCHANGED <<typed, sstatus, listed, reading, waiting, ready, doubted>>

\* recv() with MSG_WAITALL; a part of a message comes only before the end.
ReadMessage(c) ==
  /\ cstatus[c] = "waiting"
  /\ \/ /\ ClientSeesEnd(c)
        /\ CloseClient(c)
        /\ cstatus' = [cstatus EXCEPT ![c] = "exited"]
     \/ /\ c \notin reset
        /\ down[c] # <<>>
        /\ Len(down[c]) >= MsgSize \/ srv[c] = "closed"
        /\ down' = [down EXCEPT ![c] = Rest(@, MsgSize)]
        /\ cstatus' = [cstatus EXCEPT ![c] = "prompt"]
        /\ UNCHANGED <<listening, queue, cli, srv, up, reset>>
  /\ UNCHANGED <<typed, sstatus, listed, reading, waiting, ready, doubted>>

TypeLine(c) ==
  /\ cstatus[c] = "prompt"
  /\ Len(typed[c]) < MaxLines
  /\ \E quit \in BOOLEAN : typed' = [typed EXCEPT ![c] = Append(@, quit)]
  /\ \/ /\ c \in reset
        /\ ClientEnds(c, "died")
     \/ /\ c \notin reset
        /\ up' = [up EXCEPT ![c] = @ \o Message(Len(typed[c]) + 1)]
        /\ cstatus' = [cstatus EXCEPT ![c] = "waiting"]
        /\ UNCHANGED <<listening, queue, cli, srv, down, reset>>
  /\ UNCHANGED <<sstatus, listed, reading, waiting, ready, doubted>>

KillClient(c) ==
  /\ cstatus[c] \in {"prompt", "waiting"}
  /\ ClientEnds(c, "killed")
  /\ UNCHANGED <<typed, sstatus, listed, reading, waiting, ready, doubted>>

-----------------------------------------------------------------------------
(* The server. *)

StartServer ==
  /\ sstatus = "starting"
  /\ Listen
  /\ sstatus' = "select"
  /\ UNCHANGED <<typed, cstatus, listed, reading, waiting, ready, doubted>>

\* The sockets that are given to select() besides serverSocket.
Watched == listed \cap reading

\* select() returns, with sockets that are ready or after 2.5 seconds.
Select ==
  /\ sstatus = "select"
  /\ waiting' = (queue # <<>>)
  /\ ready' = {c \in Watched : up[c] # <<>> \/ ServerSeesEnd(c)}
  /\ sstatus' = "accept"
  /\ UNCHANGED <<netVars, typed, cstatus, listed, reading, doubted>>

\* The first half of the loop's body.  If accept() fails, the second is left out.
Accept ==
  /\ sstatus = "accept"
  /\ \/ /\ ~waiting
        /\ sstatus' = "clients"
        /\ UNCHANGED <<netVars, listed>>
     \/ /\ waiting
        /\ AcceptFails
        /\ queue' = Tail(queue)
        /\ sstatus' = "select"
        /\ UNCHANGED <<listening, cli, srv, up, down, reset, listed>>
     \/ /\ waiting
        /\ \E c \in Clients :
             /\ AcceptAndSend(c, Greeting)
             /\ \/ Cardinality(listed) < MaxClients /\ listed' = listed \cup {c}
                \/ Cardinality(listed) >= MaxClients /\ UNCHANGED listed
        /\ sstatus' = "clients"
  /\ UNCHANGED <<typed, cstatus, reading, waiting, ready, doubted>>

IsQuit(c, bytes) ==
  \E n \in 1..Len(typed[c]) : bytes = Message(n) /\ typed[c][n]

\* doRead(): a message is echoed, unless the connection is `dead': there are no
\* bytes, or not a whole message, or it is quit; or send() fails, which it may for
\* any message, as when the connection has been reset since recv().
DoRead(c, dead) ==
  \/ /\ ServerSeesEnd(c)
     /\ dead
     /\ UNCHANGED <<up, down>>
  \/ /\ ~ServerSeesEnd(c)
     /\ \E k \in RecvCount(c, up[c], MsgSize) :
          /\ k # MsgSize \/ IsQuit(c, Front(up[c], k)) => dead
          /\ up' = [up EXCEPT ![c] = Rest(@, k)]
          /\ down' = IF dead THEN down
                     ELSE [down EXCEPT ![c] = @ \o Front(up[c], k)]

\* A client that is ready is read; one that seems dead is read once more, which
\* waits, before it is deleted.
ReadClient(c) ==
  /\ sstatus = "clients"
  /\ c \in ready /\ doubted = {}
  /\ reading' = reading \cup {c}
  /\ ready' = ready \ {c}
  /\ \E dead \in BOOLEAN :
       /\ DoRead(c, dead)
       /\ doubted' = IF dead THEN {c} ELSE {}
  /\ UNCHANGED <<listening, queue, cli, srv, reset, typed, cstatus, sstatus,
                 listed, waiting>>

ReadAgain(c) ==
  /\ c \in doubted
  /\ doubted' = {}
  /\ \/ /\ DoRead(c, FALSE)
        /\ UNCHANGED <<srv, listed, reading>>
     \/ /\ DoRead(c, TRUE)
        /\ srv' = [srv EXCEPT ![c] = "closed"]
        /\ listed' = listed \ {c}
        /\ reading' = reading \ {c}
  /\ UNCHANGED <<listening, queue, cli, reset, typed, cstatus, sstatus, waiting,
                 ready>>

\* The loop's body is done.
NextSelect ==
  /\ sstatus = "clients"
  /\ ready = {} /\ doubted = {}
  /\ sstatus' = "select"
  /\ UNCHANGED <<netVars, typed, cstatus, listed, reading, waiting, ready,
                 doubted>>

\* die(), or the user closes the console.
KillServer ==
  /\ sstatus \in {"select", "accept", "clients"}
  /\ ServerGone
  /\ sstatus' = "killed"
  /\ listed' = {} /\ reading' = {} /\ ready' = {} /\ doubted' = {}
  /\ waiting' = FALSE
  /\ UNCHANGED <<typed, cstatus>>

ServerLoop ==
  \/ Select \/ Accept \/ NextSelect
  \/ \E c \in Clients : ReadClient(c) \/ ReadAgain(c)

-----------------------------------------------------------------------------
Next ==
  \/ \E c \in Clients :
       \/ StartClient(c) \/ ReadMessage(c) \/ TypeLine(c) \/ KillClient(c)
       \/ ResetArrives(c) /\ UNCHANGED labVars
  \/ StartServer \/ ServerLoop \/ KillServer

Spec == Init /\ [][Next]_vars

\* Both programs go on when a call returns, and resets arrive; the users owe
\* nothing.
FairSpec ==
  /\ Spec
  /\ \A c \in Clients :
       /\ WF_vars(ReadMessage(c))
       /\ WF_vars(ResetArrives(c) /\ UNCHANGED labVars)
  /\ WF_vars(ServerLoop)

-----------------------------------------------------------------------------
\* What a client in the list sends is read, as long as both programs run: the
\* comment at 5/server/server.cpp:236 says that all of the connected clients'
\* sockets are given to select().
LinesRead ==
  \A c \in Clients :
    c \in listed /\ up[c] # <<>>
      ~> up[c] = <<>> \/ c \in reset \/ c \notin listed

-----------------------------------------------------------------------------
\* The server never takes a byte that a client has sent.
NeverReads == [][\A c \in Clients : Len(up'[c]) >= Len(up[c])]_vars

\* No more than MaxClients clients are in the list.
ListBounded == Cardinality(listed) <= MaxClients
=============================================================================
