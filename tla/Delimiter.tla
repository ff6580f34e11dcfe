------------------------------ MODULE Delimiter ------------------------------
(***************************************************************************)
(* Lab 3, with a delimiter: a client                                       *)
(* (3/SendDeliminatingCharacter/client/client.cpp) puts a bar behind each  *)
(* line and sends it in chunks of MESSAGESIZE bytes until one holds a bar. *)
(* The server (3/SendDeliminatingCharacter/server/server.cpp) serves one   *)
(* client at a time.  It receives into its buffer until it sees a bar      *)
(* there, and sends back what the buffer then holds: the last chunk.       *)
(*                                                                         *)
(* A byte is named by what it belongs to and by its kind: 4n + kind is a   *)
(* byte of a client's n-th line, and 4 * 0 + kind one that nobody wrote.   *)
(***************************************************************************)
EXTENDS TcpNet

CONSTANTS MsgSize,  \* MESSAGESIZE
          Lines,    \* bound: the lines that a user may type
          Junk,     \* bound: what an uninitialised buffer, with the byte behind
                    \* it, may hold
          MaxLines  \* bound: lines that a user types

Text == 0
Quit == 1  \* the first letter of a text that starts with quit
Bar == 2
Nul == 3
Kind(byte) == byte % 4

ASSUME DelimiterAssumption ==
  /\ MsgSize \in Nat \ {0, 1}
  /\ Lines \subseteq Seq({Text, Quit, Bar})
  /\ Junk \subseteq [1..(MsgSize + 1) -> Text..Nul]
  /\ MaxLines \in Nat

VARIABLES
  typed,    \* history: the lines that each user has typed
  shown,    \* history: what each client has printed as answers
  chunks,   \* i in the client: chunks of the line that have been sent
  cstatus,  \* where each client is in main(), or how it ended
  sstatus,  \* where the server is in main(), or how it ended
  serving,  \* the client of clientSocket, as a set of one or none
  buffer    \* the server's buffer and the byte behind it, while it has one

lineVars == <<typed, shown, chunks, cstatus, sstatus, serving, buffer>>
vars == <<netVars, lineVars>>

\* Does std::string(cells).find("|") find a bar: is there one before any \0?
HasBarAnywhere(cells) == \* mutant: all of the cells are searched
  \E j \in DOMAIN cells : Kind(cells[j]) = Bar
HasBar(cells) ==
  \E j \in DOMAIN cells : /\ Kind(cells[j]) = Bar
                          /\ \A i \in 1..(j - 1) : Kind(cells[i]) # Nul

\* Chunk number i, from 0, of the n-th line: the bytes that follow those of the
\* chunks before, and a \0.  What lies behind the end of the line starts with a \0.
Chunk(n, line, i) ==
  LET withBar == Append(line, Bar)
      from == i * (MsgSize - 1)
  IN  [j \in 1..MsgSize |->
        4 * n + IF j < MsgSize /\ from + j <= Len(withBar)
                THEN withBar[from + j] ELSE Nul]

\* Chunk i of the line that client c typed last.
NextChunk(c) == Chunk(Len(typed[c]), typed[c][Len(typed[c])], chunks[c])

Init ==
  /\ NetInit
  /\ typed = [c \in Clients |-> <<>>]
  /\ shown = [c \in Clients |-> <<>>]
  /\ chunks = [c \in Clients |-> 0]
  /\ cstatus = [c \in Clients |-> "start"]
  /\ sstatus = "starting"
  /\ serving = {}
  /\ buffer = <<>>

-----------------------------------------------------------------------------
(* The client. *)

\* die(), or the user closes the console.
ClientEnds(c, how) ==
  /\ ClientGone(c)
  /\ cstatus' = [cstatus EXCEPT ![c] = how]

StartClient(c) ==
  /\ cstatus[c] = "start"
  /\ \/ Connect(c) /\ cstatus' = [cstatus EXCEPT ![c] = "prompt"]
     \/ ~listening /\ ClientEnds(c, "died")
  /\ UNCHANGED <<typed, shown, chunks, sstatus, serving, buffer>>

\* getline() returns.
TypeLine(c) ==
  /\ cstatus[c] = "prompt"
  /\ Len(typed[c]) < MaxLines
  /\ \E line \in Lines : typed' = [typed EXCEPT ![c] = Append(@, line)]
  /\ chunks' = [chunks EXCEPT ![c] = 0]
  /\ cstatus' = [cstatus EXCEPT ![c] = "sending"]
  /\ UNCHANGED <<netVars, shown, sstatus, serving, buffer>>

\* One iteration of the loop that sends a line.
SendChunk(c) ==
  /\ cstatus[c] = "sending"
  /\ up' = [up EXCEPT ![c] = @ \o NextChunk(c)]
  /\ chunks' = [chunks EXCEPT ![c] = @ + 1]
  /\ cstatus' = [cstatus EXCEPT
                  ![c] = IF HasBar(NextChunk(c)) THEN "waiting" ELSE @]
  /\ UNCHANGED <<listening, queue, cli, srv, down, reset, typed, shown, sstatus,
                 serving, buffer>>

\* recv() with MSG_WAITALL.  The server sends nothing but whole messages.
ReadAnswer(c) ==
  /\ cstatus[c] = "waiting"
  /\ \/ /\ ClientSeesEnd(c)
        /\ CloseClient(c)
        /\ cstatus' = [cstatus EXCEPT ![c] = "exited"]
        /\ UNCHANGED shown
     \/ /\ c \notin reset
        /\ Len(down[c]) >= MsgSize
        /\ shown' = [shown EXCEPT ![c] = Append(@, Front(down[c], MsgSize))]
        /\ down' = [down EXCEPT ![c] = Rest(@, MsgSize)]
        /\ cstatus' = [cstatus EXCEPT ![c] = "prompt"]
        /\ UNCHANGED <<listening, queue, cli, srv, up, reset>>
  /\ UNCHANGED <<typed, chunks, sstatus, serving, buffer>>

KillClient(c) ==
  /\ \/ cstatus[c] = "prompt" /\ ClientEnds(c, "left")
     \/ cstatus[c] \in {"sending", "waiting"} /\ ClientEnds(c, "killed")
  /\ UNCHANGED <<typed, shown, chunks, sstatus, serving, buffer>>

ClientLoop(c) == SendChunk(c) \/ ReadAnswer(c)

-----------------------------------------------------------------------------
(* The server. *)

\* die(), or the user closes the console.
ServerEnds(how) ==
  /\ ServerGone
  /\ sstatus' = how
  /\ serving' = {}
  /\ buffer' = <<>>

StartServer ==
  /\ sstatus = "starting"
  /\ Listen
  /\ sstatus' = "accepting"
  /\ UNCHANGED <<typed, shown, chunks, cstatus, serving, buffer>>

\* The buffer of a new connection is not initialised.
Accept ==
  /\ sstatus = "accepting"
  /\ \/ \E c \in Clients :
          /\ AcceptAndSend(c, <<>>)
          /\ serving' = {c}
          /\ sstatus' = "reading"
          /\ buffer' \in Junk
     \/ AcceptFails /\ ServerEnds("died")
  /\ UNCHANGED <<typed, shown, chunks, cstatus>>

\* closesocket(clientSocket), and back to accept().
BackToAcceptOpen(c) == \* mutant: the connection stays open
  /\ sstatus' = "accepting"
  /\ serving' = {}
  /\ buffer' = <<>>
  /\ UNCHANGED <<srv, listening, queue, cli, down, reset>>
BackToAccept(c) ==
  /\ srv' = [srv EXCEPT ![c] = "closed"]
  /\ sstatus' = "accepting"
  /\ serving' = {}
  /\ buffer' = <<>>
  /\ UNCHANGED <<listening, queue, cli, down, reset>>

\* The buffer once recv() has written some bytes to it: the others stay.
Filled(bytes) ==
  [j \in 1..(MsgSize + 1) |-> IF j <= Len(bytes) THEN bytes[j] ELSE buffer[j]]

\* memcmp(buffer, "quit", 4) == 0
IsQuit(cells) == Kind(cells[1]) = Quit

\* What is sent back.
EchoNothing(cells) == <<>> \* mutant: it is only printed
EchoOf(cells) == Front(cells, MsgSize)

\* What the buffer holds when the next line is waited for.
NextRoundCleared(cells) == [j \in DOMAIN cells |-> Nul] \* mutant: it is cleared
NextRound(cells) == cells

\* recv(), and what is done with its result when the loop around it ends.  At the
\* end of the connection, without a bar in the buffer, that loop never does.
Serve(c) ==
  /\ sstatus = "reading"
  /\ \/ /\ ServerSeesEnd(c)
        /\ HasBar(buffer)
        /\ BackToAccept(c)
        /\ UNCHANGED up
     \/ /\ ~ServerSeesEnd(c)
        /\ \E k \in RecvCount(c, up[c], MsgSize) :
             LET cells == Filled(Front(up[c], k))
                 takes == up' = [up EXCEPT ![c] = Rest(@, k)]
             IN  \/ /\ ~HasBar(cells)
                    /\ takes
                    /\ buffer' = cells
                    /\ UNCHANGED <<listening, queue, cli, srv, down, reset,
                                   sstatus, serving>>
                 \/ /\ HasBar(cells) /\ k # MsgSize
                    /\ ServerEnds("died")
                 \/ /\ HasBar(cells) /\ k = MsgSize /\ IsQuit(cells)
                    /\ takes
                    /\ BackToAccept(c)
                 \/ /\ HasBar(cells) /\ k = MsgSize /\ ~IsQuit(cells)
                    /\ takes
                    /\ down' = [down EXCEPT ![c] = @ \o EchoOf(cells)]
                    /\ buffer' = NextRound(cells)
                    /\ UNCHANGED <<listening, queue, cli, srv, reset, sstatus,
                                   serving>>
  /\ UNCHANGED <<typed, shown, chunks, cstatus>>

KillServer ==
  /\ sstatus \in {"accepting", "reading"}
  /\ ServerEnds("killed")
  /\ UNCHANGED <<typed, shown, chunks, cstatus>>

ServerLoop == Accept \/ \E c \in serving : Serve(c)

-----------------------------------------------------------------------------
\* ResetArrives has no place here.  A client closes its socket only when the server
\* has closed the connection or it was reset, and the server only when it has read
\* all that the client sent: what follows a bar is part of its chunk.
Next ==
  \/ \E c \in Clients :
       StartClient(c) \/ TypeLine(c) \/ ClientLoop(c) \/ KillClient(c)
  \/ StartServer \/ ServerLoop \/ KillServer

Spec == Init /\ [][Next]_vars

\* Both programs go on when a call returns; the users owe nothing.
FairSpec ==
  /\ Spec
  /\ \A c \in Clients : WF_vars(ClientLoop(c))
  /\ WF_vars(ServerLoop)

-----------------------------------------------------------------------------
\* Every variable has its type; the server reads from the one client that it has
\* accepted and not closed, and has a buffer while it does.
TypeOK ==
  /\ NetTypeOK
  /\ typed \in [Clients -> Seq(Lines)]
  /\ shown \in [Clients -> Seq(Seq(Nat))]
  /\ chunks \in [Clients -> Nat]
  /\ cstatus \in [Clients -> {"start", "prompt", "sending", "waiting", "exited",
                              "died", "left", "killed"}]
  /\ sstatus \in {"starting", "accepting", "reading", "died", "killed"}
  /\ serving = {c \in Clients : srv[c] = "open"}
  /\ sstatus = "reading" <=> serving # {}
  /\ \A c, d \in serving : c = d
  /\ buffer \in IF serving = {} THEN {<<>>} ELSE [1..(MsgSize + 1) -> Nat]

\* As long as chunks come whole, a client that waits for its answer is never
\* waited for by the server: one of them has what it waits for.
NoMutualWait ==
  \A c \in serving \ Cut :
    cstatus[c] = "waiting" /\ c \notin reset
      => Len(down[c]) >= MsgSize \/ up[c] # <<>>

\* A line of a client that is served and whose chunks come whole is answered, or
\* the connection ends, whatever the buffer held before.
AnswerComes ==
  \A c \in Clients \ Cut :
    cstatus[c] = "waiting" /\ c \in serving ~> cstatus[c] # "waiting"

\* A client that goes away between two lines is noticed: recv() leaves the bar of
\* the last line in the buffer, so that the loop that looks for one there ends.  It
\* does not for a client that goes before its first line, or within one.
GoneNoticed ==
  \A c \in Clients \ Cut :
    cstatus[c] = "left" /\ typed[c] # <<>> /\ c \in serving ~> c \notin serving

-----------------------------------------------------------------------------
\* For the clients whose chunks come whole, whatever becomes of the others, the lab
\* implements the echo service for the tails of lines: the k-th answer is the last
\* chunk of the k-th line, and none follows a line whose last chunk is quit.  That
\* is the whole line only if one chunk holds it: see EchoesEverything.
LastChunk(n, line) ==
  CHOOSE chunk \in {Chunk(n, line, i) : i \in 0..Len(line)} :
    \E i \in 0..Len(line) :
      /\ chunk = Chunk(n, line, i) /\ HasBar(chunk)
      /\ \A h \in 0..(i - 1) : ~HasBar(Chunk(n, line, h))

IsQuitLine(line) == Kind(LastChunk(0, line)[1]) = Quit

AnswerTo(c, k) ==
  IF shown[c][k] = LastChunk(k, typed[c][k])
  THEN [line |-> k, quit |-> IsQuitLine(typed[c][k])]
  ELSE [line |-> 0, quit |-> FALSE]

Service == INSTANCE EchoService WITH
             Clients <- Clients \ Cut,
             typed <- [c \in Clients \ Cut |->
                        [n \in 1..Len(typed[c]) |-> IsQuitLine(typed[c][n])]],
             shown <- [c \in Clients \ Cut |->
                        [k \in 1..Len(shown[c]) |-> AnswerTo(c, k)]]
ImplementsTailEcho == Service!Spec

-----------------------------------------------------------------------------
(* What comments of lab 3 say, and the code does not do. *)

\* What the server receives from a client it sends back: when the k-th line of a
\* client whose chunks come whole has been answered, each chunk of it has come back.
\* 3/SendDeliminatingCharacter/server/server.cpp:4 says "The server repeats back
\* anything it receives from the client.", and client.cpp:4 "Text typed is sent to
\* the server which echos it back"; the loop at server.cpp:105 to 119 receives each
\* chunk over the one before, and what is sent at 144 is the last.
EchoesEverything ==
  \A c \in Clients \ Cut : \A k \in 1..Len(shown[c]) :
    \A i \in 0..Len(typed[c][k]) :
      (\A h \in 0..(i - 1) : ~HasBar(Chunk(k, typed[c][k], h)))
        => \E j \in 1..Len(shown[c]) : shown[c][j] = Chunk(k, typed[c][k], i)
=============================================================================
