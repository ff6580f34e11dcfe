----------------------------- MODULE DatagramNet -----------------------------
(***************************************************************************)
(* What the programs of 4/ and 6/ ask of WinSock: UDP.  The library is not *)
(* in the repository, so this module is modelled from how they use it.     *)
(*                                                                         *)
(* Datagrams may be lost, duplicated and reordered.  One that reaches a    *)
(* machine where its port is not bound comes back as an ICMP message, and  *)
(* a later recvfrom() of its sender then fails with WSAECONNRESET.         *)
(***************************************************************************)
EXTENDS Naturals, Sequences

CONSTANTS Clients,      \* runs of the client program, each with one socket
          server,       \* the server's socket
          Body,         \* what a datagram may hold
          Lossy,        \* may datagrams be lost?
          Duplicating   \* may they be duplicated?

ASSUME DatagramAssumption ==
  /\ server \notin Clients
  /\ Lossy \in BOOLEAN
  /\ Duplicating \in BOOLEAN

VARIABLES
  net,         \* the datagrams on their way or waiting in a socket: a set, of
               \* two equal ones UDP keeps one
  bound,       \* the sockets that have a port
  unreachable  \* the sockets whose next recvfrom() may fail

netVars == <<net, bound, unreachable>>

Datagram == [client : Clients, kind : {"request", "reply"}, body : Body]

Request(c, b) == [client |-> c, kind |-> "request", body |-> b]
Reply(c, b) == [client |-> c, kind |-> "reply", body |-> b]

From(d) == IF d.kind = "request" THEN d.client ELSE server
To(d) == IF d.kind = "request" THEN server ELSE d.client

NetInit ==
  /\ net = {}
  /\ bound = {}
  /\ unreachable = {}

\* What may be left of the net once recvfrom() has returned d.
Taken(d) == {net \ {d}} \cup (IF Duplicating THEN {net} ELSE {})

\* Socket s is closed, by closesocket() or with its process.
Unbind(s) ==
  /\ bound' = bound \ {s}
  /\ unreachable' = unreachable \ {s}

Lose(d) ==
  /\ Lossy
  /\ net' = net \ {d}
  /\ UNCHANGED <<bound, unreachable>>

\* The ICMP message may be lost too.
Bounce(d) ==
  /\ To(d) \notin bound
  /\ net' = net \ {d}
  /\ \/ unreachable' = unreachable \cup ({From(d)} \cap bound)
     \/ Lossy /\ UNCHANGED unreachable
  /\ UNCHANGED bound

NetStep == \E d \in net : Lose(d) \/ Bounce(d)

NetTypeOK ==
  /\ net \subseteq Datagram
  /\ bound \subseteq Clients \cup {server}
  /\ unreachable \subseteq bound
=============================================================================
