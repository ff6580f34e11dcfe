------------------------------- MODULE UdpEcho -------------------------------
(***************************************************************************)
(* Lab 4: the client (4/client/client.cpp) sends each line that its user   *)
(* types as a datagram and waits for one to come back; the server          *)
(* (4/server/server.cpp) sends back what it receives.  Both calls of       *)
(* recvfrom() block, without a timeout.                                    *)
(***************************************************************************)
EXTENDS DatagramNet

CONSTANTS MaxLines,  \* bound: lines that a user types
          Kills      \* may users close the consoles of the programs?

ASSUME EchoAssumption ==
  /\ MaxLines \in Nat
  /\ Kills \in BOOLEAN
  /\ Body = [line : 1..MaxLines, quit : BOOLEAN]

VARIABLES
  typed,    \* history: of each line a user has typed, does it start with quit?
  shown,    \* history: the lines that each client has printed as answers
  cstatus,  \* where each client is in its loop, or how it ended
  sstatus,  \* the server process
  last      \* buffer and fromAddr of the server: the last datagram it received

echoVars == <<typed, shown, cstatus, sstatus, last>>
vars == <<netVars, echoVars>>

NoDatagram == [kind |-> "none"]

Init ==
  /\ NetInit
  /\ typed = [c \in Clients |-> <<>>]
  /\ shown = [c \in Clients |-> <<>>]
  /\ cstatus = [c \in Clients |-> "prompt"]
  /\ sstatus = "starting"
  /\ last = NoDatagram

-----------------------------------------------------------------------------
(* The client. *)

\* The client's process ends, and its socket is closed.
EndLate(c, how) == Unbind(c) /\ UNCHANGED cstatus \* mutant: closes, goes on
End(c, how) == Unbind(c) /\ cstatus' = [cstatus EXCEPT ![c] = how]

\* getline() returns.  The first line is sent; of the others the client itself
\* drops one in ten.
TypeLine(c) ==
  /\ cstatus[c] = "prompt"
  /\ Len(typed[c]) < MaxLines
  /\ \E quit \in BOOLEAN :
       /\ typed' = [typed EXCEPT ![c] = Append(@, quit)]
       /\ \/ net' = net \cup
                      {Request(c, [line |-> Len(typed[c]) + 1, quit |-> quit])}
          \/ typed[c] # <<>> /\ UNCHANGED net
  /\ bound' = bound \cup {c}
  /\ cstatus' = [cstatus EXCEPT ![c] = "waiting"]
  /\ UNCHANGED <<unreachable, shown, sstatus, last>>

\* recvfrom() returns an answer, which is printed; the client ends if it starts
\* with quit.
ShowAnswer(c) ==
  /\ cstatus[c] = "waiting"
  /\ \E d \in net :
       /\ To(d) = c
       /\ net' \in Taken(d)
       /\ shown' = [shown EXCEPT ![c] = Append(@, d.body)]
       /\ \/ /\ d.body.quit
             /\ End(c, "exited")
          \/ /\ ~d.body.quit
             /\ cstatus' = [cstatus EXCEPT ![c] = "prompt"]
             /\ UNCHANGED <<bound, unreachable>>
  /\ UNCHANGED <<typed, sstatus, last>>

\* recvfrom() fails, and the client dies.
ClientDies(c) ==
  /\ cstatus[c] = "waiting"
  /\ c \in unreachable
  /\ End(c, "died")
  /\ UNCHANGED <<net, typed, shown, sstatus, last>>

\* The user closes the client's console.
KillClient(c) ==
  /\ Kills
  /\ cstatus[c] \in {"prompt", "waiting"}
  /\ End(c, "killed")
  /\ UNCHANGED <<net, typed, shown, sstatus, last>>

ClientLoop(c) == ShowAnswer(c) \/ ClientDies(c)

-----------------------------------------------------------------------------
(* The server. *)

\* main() up to its loop.
StartServer ==
  /\ sstatus = "starting"
  /\ sstatus' = "running"
  /\ bound' = bound \cup {server}
  /\ UNCHANGED <<net, unreachable, typed, shown, cstatus, last>>

\* What sendto() sends after d was received.
AnswerLast(d) == \* mutant: to the address that the one before d came from
  Reply(IF last = NoDatagram THEN d.client ELSE last.client, d.body)
AnswerStale(d) == \* mutant: the buffer is sent before it is filled again
  Reply(d.client, IF last = NoDatagram THEN d.body ELSE last.body)
Answer(d) == Reply(d.client, d.body)

\* recvfrom() returns a datagram, and sendto() sends it back.
Echo ==
  /\ sstatus = "running"
  /\ \E d \in net :
       /\ To(d) = server
       /\ \E rest \in Taken(d) : net' = rest \cup {Answer(d)}
       /\ last' = d
  /\ UNCHANGED <<bound, unreachable, typed, shown, cstatus, sstatus>>

\* recvfrom() fails, and the server prints (size_t)-1 bytes of the buffer: it
\* crashes, or goes on to send the old buffer to the old address.
EchoAfterError ==
  /\ sstatus = "running"
  /\ server \in unreachable
  /\ \/ /\ sstatus' = "crashed"
        /\ Unbind(server)
        /\ UNCHANGED net
     \/ /\ unreachable' = unreachable \ {server}
        /\ net' = net \cup {Answer(last)}
        /\ UNCHANGED <<sstatus, bound>>
  /\ UNCHANGED <<typed, shown, cstatus, last>>

\* The user closes the server's console.
KillServer ==
  /\ Kills
  /\ sstatus = "running"
  /\ sstatus' = "killed"
  /\ Unbind(server)
  /\ UNCHANGED <<net, typed, shown, cstatus, last>>

ServerLoop == Echo \/ EchoAfterError

Next ==
  \/ \E c \in Clients : TypeLine(c) \/ ClientLoop(c) \/ KillClient(c)
  \/ StartServer \/ ServerLoop \/ KillServer
  \/ NetStep /\ UNCHANGED echoVars

Spec == Init /\ [][Next]_vars

\* Both programs go on when recvfrom() returns, and ICMP messages come back;
\* the users owe nothing.
FairSpec ==
  /\ Spec
  /\ \A c \in Clients : WF_vars(ClientLoop(c))
  /\ WF_vars(StartServer)
  /\ WF_vars(ServerLoop)
  /\ WF_vars(\E d \in net : Bounce(d) /\ UNCHANGED echoVars)

-----------------------------------------------------------------------------
\* Every variable has its type, and a running program has its socket.
TypeOK ==
  /\ NetTypeOK
  /\ typed \in [Clients -> Seq(BOOLEAN)]
  /\ shown \in [Clients -> Seq(Body)]
  /\ cstatus \in [Clients -> {"prompt", "waiting", "exited", "died", "killed"}]
  /\ sstatus \in {"starting", "running", "crashed", "killed"}
  /\ last \in {NoDatagram} \cup {d \in Datagram : d.kind = "request"}
  /\ \A c \in Clients : cstatus[c] = "waiting" => c \in bound
  /\ server \in bound <=> sstatus = "running"

\* Lost, duplicated or reordered, closed consoles or not: a client prints only
\* lines that its own user typed, and exits only after its user typed quit.
OwnAnswers ==
  \A c \in Clients :
    /\ \A k \in 1..Len(shown[c]) :
         LET b == shown[c][k]
         IN  b.line <= Len(typed[c]) /\ b.quit = typed[c][b.line]
    /\ cstatus[c] = "exited"
         => \E i \in 1..Len(typed[c]) : typed[c][i]

\* Client and server are in step: the k-th answer is the k-th line.
InStep ==
  \A c \in Clients :
    \A k \in 1..Len(shown[c]) : shown[c][k].line = k

\* If nobody closes a console and nothing is duplicated, every echo finds its
\* client waiting for it: none bounces, so the server's recvfrom() cannot fail.
EchoesAwaited ==
  /\ \A d \in net : d.kind = "reply" => cstatus[d.client] = "waiting"
  /\ server \notin unreachable

\* A line that the client did not drop itself is answered, if the network does
\* not lose it and the server is up.
SentIsAnswered ==
  \A c \in Clients :
    (\E d \in net : d.client = c /\ d.kind = "request")
      ~> cstatus[c] # "waiting" \/ sstatus # "running"

-----------------------------------------------------------------------------
(* What comments of 4/ say, and the code does not do. *)

\* server.cpp line 95: "Send the same data back to the address it came from".
\* Every answer is to a datagram that has just come.
EchoesWhatCame ==
  [][\A d \in net' \ net :
       d.kind = "reply" => Request(d.client, d.body) \in net]_vars

-----------------------------------------------------------------------------
\* Clients, server and network implement the echo service.
Service == INSTANCE EchoService
ImplementsEcho == Service!Spec
=============================================================================
