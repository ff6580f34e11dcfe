----------------------------- MODULE SizeFirst ------------------------------
(***************************************************************************)
(* Lab 3, the size first: a client                                         *)
(* (3/SendSizeOfFileFirst/client/client.cpp) sends the number of bytes of  *)
(* a line as text, in a header of sizeof(int) bytes, waits for the header  *)
(* to come back, and sends the line.  The server                           *)
(* (3/SendSizeOfFileFirst/server/server.cpp) prints the lines of one       *)
(* client at a time.                                                       *)
(*                                                                         *)
(* Bytes are named by what they belong to: 2n is a byte of the header of a *)
(* client's n-th line, 2n+1 a byte of its text.  Those that the server     *)
(* sends are 0.                                                            *)
(***************************************************************************)
EXTENDS TcpNet

CONSTANTS HeaderSize,  \* sizeof(int)
          Base,        \* of the digits that itoa() writes
          Sizes,       \* bound: the lines that each user may type, and for each
                       \* of them the numbers of bytes that it may have
          MaxRead      \* bound: the number that atoi() may return

\* Does the header of a line of `size' bytes end with \0?
Limit == Base ^ (HeaderSize - 1)
Short(size) == size < Limit

ASSUME SizeAssumption ==
  /\ HeaderSize \in Nat \ {0}
  /\ Base \in Nat \ {0, 1}
  /\ MaxRead \in Nat
  /\ Sizes \in [Clients -> Seq(SUBSET (0..MaxRead))]

VARIABLES
  sizes,    \* history: the sizes of the lines that each user has typed
  quits,    \* the numbers of those of them that are just the word quit
  printed,  \* history: what the server has printed of each client
  cstatus,  \* where each client is in main(), or how it ended
  sstatus,  \* where the server is in main(), or how it ended
  serving,  \* the client of clientSocket, as a set of one or none
  expected  \* numberOfChars

sizeVars == <<sizes, quits, printed, cstatus, sstatus, serving, expected>>
vars == <<netVars, sizeVars>>

Header(n) == [j \in 1..HeaderSize |-> 2 * n]
Text(n, size) == [j \in 1..size |-> 2 * n + 1]

\* What fwrite() makes of a count of -1: bytes that nobody has sent.
Rubbish == <<0>>

\* numberOfChars if malloc() and recv() can do nothing with it.
Useless == MaxRead + 1

Init ==
  /\ NetInit
  /\ sizes = [c \in Clients |-> <<>>]
  /\ quits = [c \in Clients |-> {}]
  /\ printed = [c \in Clients |-> <<>>]
  /\ cstatus = [c \in Clients |-> "start"]
  /\ sstatus = "starting"
  /\ serving = {}
  /\ expected = 0

-----------------------------------------------------------------------------
(* The client. *)

\* die(), an abort, or the user closes the console.
ClientEnds(c, how) ==
  /\ ClientGone(c)
  /\ cstatus' = [cstatus EXCEPT ![c] = how]

StartClient(c) ==
  /\ cstatus[c] = "start"
  /\ \/ Connect(c) /\ cstatus' = [cstatus EXCEPT ![c] = "prompt"]
     \/ ~listening /\ ClientEnds(c, "died")
  /\ UNCHANGED <<sizes, quits, printed, sstatus, serving, expected>>

\* The word quit has sizeof(int) letters.  The prompt says that it ends the client
\* (client.cpp line 65), but it is sent like any other line.
SendHeader(c) ==
  /\ cstatus[c] = "prompt"
  /\ Len(sizes[c]) < Len(Sizes[c])
  /\ \E size \in Sizes[c][Len(sizes[c]) + 1] :
       /\ sizes' = [sizes EXCEPT ![c] = Append(@, size)]
       /\ \/ UNCHANGED quits
          \/ /\ size = HeaderSize
             /\ quits' = [quits EXCEPT ![c] = @ \cup {Len(sizes[c]) + 1}]
  /\ up' = [up EXCEPT ![c] = @ \o Header(Len(sizes[c]) + 1)]
  /\ cstatus' = [cstatus EXCEPT ![c] = "freeing"]
  /\ UNCHANGED <<listening, queue, cli, srv, down, reset, printed, sstatus,
                 serving, expected>>

\* The number was written to a buffer of as many bytes as the line has; one digit
\* and the \0 do not fit in less than two, and free() may notice.
FreeHeader(c) ==
  /\ cstatus[c] = "freeing"
  /\ \/ /\ cstatus' = [cstatus EXCEPT ![c] = "waiting"]
        /\ UNCHANGED netVars
     \/ /\ sizes[c][Len(sizes[c])] < 2
        /\ ClientEnds(c, "died")
  /\ UNCHANGED <<sizes, quits, printed, sstatus, serving, expected>>

\* recv() with MSG_WAITALL.  What comes back is not compared.
LineOf(c) == Text(Len(sizes[c]), sizes[c][Len(sizes[c])])

ReadAck(c) ==
  /\ cstatus[c] = "waiting"
  /\ \/ /\ ClientSeesEnd(c)
        /\ CloseClient(c)
        /\ cstatus' = [cstatus EXCEPT ![c] = "exited"]
     \/ /\ c \notin reset
        /\ Len(down[c]) >= HeaderSize
        /\ down' = [down EXCEPT ![c] = Rest(@, HeaderSize)]
        /\ up' = [up EXCEPT ![c] = @ \o LineOf(c)]
        /\ cstatus' = [cstatus EXCEPT ![c] = "prompt"]
        /\ UNCHANGED <<listening, queue, cli, srv, reset>>
  /\ UNCHANGED <<sizes, quits, printed, sstatus, serving, expected>>

KillClient(c) ==
  /\ cstatus[c] \in {"prompt", "freeing", "waiting"}
  /\ ClientEnds(c, "killed")
  /\ UNCHANGED <<sizes, quits, printed, sstatus, serving, expected>>

ClientLoop(c) == FreeHeader(c) \/ ReadAck(c)

-----------------------------------------------------------------------------
(* The server. *)

\* die(), an abort, or the user closes the console.
ServerEnds(how) ==
  /\ ServerGone
  /\ sstatus' = how
  /\ serving' = {}

StartServer ==
  /\ sstatus = "starting"
  /\ Listen
  /\ sstatus' = "accepting"
  /\ UNCHANGED <<sizes, quits, printed, cstatus, serving, expected>>

Accept ==
  /\ sstatus = "accepting"
  /\ \/ \E c \in Clients :
          /\ AcceptAndSend(c, <<>>)
          /\ serving' = {c}
          /\ sstatus' = "header"
     \/ AcceptFails /\ ServerEnds("died")
  /\ UNCHANGED <<sizes, quits, printed, cstatus, expected>>

\* closesocket(clientSocket), and back to accept().
BackToAcceptOpen(c) == \* mutant: the connection stays open
  /\ sstatus' = "accepting"
  /\ serving' = {}
  /\ UNCHANGED <<srv, listening, queue, cli, down, reset, expected>>
BackToAccept(c) ==
  /\ srv' = [srv EXCEPT ![c] = "closed"]
  /\ sstatus' = "accepting"
  /\ serving' = {}
  /\ UNCHANGED <<listening, queue, cli, down, reset, expected>>

\* A header that starts with the letters of quit is made of text: of that of the
\* line quit, or of letters within longer ones.
MustBeQuit(c, bytes) == \E n \in quits[c] : bytes = Text(n, HeaderSize)
MayBeQuit(bytes) == \A j \in 1..HeaderSize : bytes[j] % 2 = 1

\* The number that the digits in the header of a line of `size' bytes make: as
\* many of the first ones as there is room for.
Leading(size) ==
  IF size < Base * Limit THEN size
  ELSE CHOOSE l \in Limit..(Base * Limit - 1) :
         \E dropped \in 1..size : size \div (Base ^ dropped) = l

\* What atoi() may make of it.  Without a \0 it reads on behind the buffer, where
\* there may be more digits.
Digits(size) ==
  IF Short(size) THEN {size}
  ELSE {r \in 0..MaxRead :
          \E more \in 0..MaxRead : r \div (Base ^ more) = Leading(size)}

\* What atoi() may make of a buffer: one that is not a header holds anything.
NumberPlusOne(c, bytes) == \* mutant: the \0 is counted
  LET n == bytes[1] \div 2
  IN  IF bytes = Header(n) THEN {sizes[c][n] + 1} ELSE 0..Useless
Number(c, bytes) ==
  LET n == bytes[1] \div 2
  IN  IF bytes = Header(n) THEN Digits(sizes[c][n]) ELSE 0..Useless

\* The header is sent back.
NoAck(bytes) == <<>> \* mutant: it is not
AckOf(bytes) == [j \in 1..Len(bytes) |-> 0]

\* recv() with MSG_WAITALL, of a header.
ReadHeader(c) ==
  /\ sstatus = "header"
  /\ \/ /\ ServerSeesEnd(c)
        /\ BackToAccept(c)
        /\ UNCHANGED up
     \/ /\ c \notin reset /\ cli[c] = "closed"
        /\ Len(up[c]) \in 1..(HeaderSize - 1)
        /\ ServerEnds("died")
        /\ UNCHANGED expected
     \/ /\ c \notin reset
        /\ Len(up[c]) >= HeaderSize
        /\ up' = [up EXCEPT ![c] = Rest(@, HeaderSize)]
        /\ LET bytes == Front(up[c], HeaderSize)
           IN  \/ /\ MayBeQuit(bytes)
                  /\ BackToAccept(c)
               \/ /\ ~MustBeQuit(c, bytes)
                  /\ down' = [down EXCEPT ![c] = @ \o AckOf(bytes)]
                  /\ expected' \in Number(c, bytes)
                  /\ sstatus' = "text"
                  /\ UNCHANGED <<listening, queue, cli, srv, reset, serving>>
  /\ UNCHANGED <<sizes, quits, printed, cstatus>>

\* recv() with MSG_WAITALL, of a text.  Its result is not looked at: -1 is taken
\* for a very large number of bytes, and fwrite() prints rubbish or aborts.
Available(c) == IF Len(up[c]) < expected THEN Len(up[c]) ELSE expected

ReadText(c) ==
  /\ sstatus = "text"
  /\ \/ /\ c \in reset \/ expected = Useless
        /\ \/ /\ printed' = [printed EXCEPT ![c] = Append(@, Rubbish)]
              /\ sstatus' = "header"
              /\ UNCHANGED <<netVars, serving>>
           \/ ServerEnds("died") /\ UNCHANGED printed
     \/ /\ c \notin reset /\ expected # Useless
        /\ Len(up[c]) >= expected \/ cli[c] = "closed"
        /\ printed' = [printed EXCEPT ![c] = Append(@, Front(up[c], Available(c)))]
        /\ up' = [up EXCEPT ![c] = Rest(@, Available(c))]
        /\ sstatus' = "header"
        /\ UNCHANGED <<listening, queue, cli, srv, down, reset, serving>>
  /\ expected' = 0
  /\ UNCHANGED <<sizes, quits, cstatus>>

KillServer ==
  /\ sstatus \in {"accepting", "header", "text"}
  /\ ServerEnds("killed")
  /\ expected' = 0
  /\ UNCHANGED <<sizes, quits, printed, cstatus>>

ServerLoop == Accept \/ \E c \in serving : ReadHeader(c) \/ ReadText(c)

-----------------------------------------------------------------------------
Next ==
  \/ \E c \in Clients :
       \/ StartClient(c) \/ SendHeader(c) \/ ClientLoop(c) \/ KillClient(c)
       \/ ResetArrives(c) /\ UNCHANGED sizeVars
  \/ StartServer \/ ServerLoop \/ KillServer

Spec == Init /\ [][Next]_vars

\* Both programs go on when a call returns, and resets arrive; the users owe
\* nothing.
FairSpec ==
  /\ Spec
  /\ \A c \in Clients :
       /\ WF_vars(ClientLoop(c))
       /\ WF_vars(ResetArrives(c) /\ UNCHANGED sizeVars)
  /\ WF_vars(ServerLoop)

-----------------------------------------------------------------------------
\* Every variable has its type, and the server reads from the one client that
\* it has accepted and not closed.
TypeOK ==
  /\ NetTypeOK
  /\ sizes \in [Clients -> Seq(0..MaxRead)]
  /\ quits \in [Clients -> SUBSET Nat]
  /\ printed \in [Clients -> Seq(Seq(Nat))]
  /\ cstatus \in [Clients -> {"start", "prompt", "freeing", "waiting", "exited",
                              "died", "killed"}]
  /\ sstatus \in {"starting", "accepting", "header", "text", "died", "killed"}
  /\ serving = {c \in Clients : srv[c] = "open"}
  /\ sstatus \in {"header", "text"} <=> serving # {}
  /\ \A c, d \in serving : c = d
  /\ expected \in 0..Useless

\* Has the user of c typed a line whose header has no \0?
Long(c) == \E n \in 1..Len(sizes[c]) : ~Short(sizes[c][n])

\* Up to the first line whose header has no \0, the server prints each client's
\* lines, whole, in order and none twice; all else that it prints is rubbish, once,
\* as the last thing it prints of a client whose connection has been reset.
LinesPrinted ==
  \A c \in Clients : \A k \in 1..Len(printed[c]) :
    (\A n \in 1..Len(sizes[c]) : n <= k => Short(sizes[c][n]))
      => \/ k <= Len(sizes[c]) /\ printed[c][k] = Text(k, sizes[c][k])
         \/ /\ printed[c][k] = Rubbish
            /\ k = Len(printed[c]) /\ c \in reset

\* As long as its lines are short, a client that waits for its header to come back
\* is never waited for by the server: one of them has what it waits for.
NoMutualWait ==
  \A c \in serving :
    cstatus[c] = "waiting" /\ c \notin reset /\ ~Long(c)
      => \/ Len(down[c]) >= HeaderSize
         \/ Len(up[c]) >= IF sstatus = "header" THEN HeaderSize ELSE expected

\* As long as a client's lines are short, the server never loses the border
\* between header and text: what it is about to take for a header is the one of
\* the next line to print, even if a line is as long as a header, and the text
\* that it waits for has the size of that line.
HeadersInStep ==
  \A c \in serving :
    c \notin reset /\ ~Long(c)
      => IF sstatus = "header"
         THEN Len(up[c]) >= HeaderSize
                => Front(up[c], HeaderSize) = Header(Len(printed[c]) + 1)
         ELSE expected = sizes[c][Len(printed[c]) + 1]

\* The header of a client that is served comes back.
HeaderComesBack ==
  \A c \in Clients :
    cstatus[c] = "waiting" /\ c \in serving ~> cstatus[c] # "waiting" \/ Long(c)
=============================================================================
