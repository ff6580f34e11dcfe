--------------------------- MODULE Positions_proofs ---------------------------
(***************************************************************************)
(* Proofs about Positions, for any number of clients, moves and starts of  *)
(* the server.                                                             *)
(***************************************************************************)
EXTENDS Positions, TLAPS

LEMMA DatagramType ==
  ASSUME NEW c \in Clients, NEW b \in Body
  PROVE  /\ Request(c, b) \in Datagram /\ Reply(c, b) \in Datagram
         /\ Request(c, b).client = c /\ Request(c, b).body = b
         /\ Request(c, b).kind = "request"
         /\ Reply(c, b).client = c /\ Reply(c, b).body = b
  BY DEF Request, Reply, Datagram

LEMMA DatagramFields ==
  ASSUME NEW d \in Datagram
  PROVE  /\ d.client \in Clients /\ d.body \in Body /\ d.body.x \in 1..MaxMoves
         /\ d.kind \in {"request", "reply"} /\ d # NoDatagram
         /\ To(d) = server <=> d.kind = "request"
         /\ \A c \in Clients : To(d) = c => d.client = c
  BY DatagramAssumption, PositionsAssumption DEF Datagram, NoDatagram, To

\* What is left of the net is part of it.
LEMMA TakenPart ==
  ASSUME NEW d \in net, NEW rest \in Taken(d)
  PROVE  /\ rest \subseteq net
         /\ ~Duplicating => rest = net \ {d}
  BY DEF Taken

-----------------------------------------------------------------------------
(* What holds whatever the network does and whoever closes a console. *)

\* d holds a position that the player of its client has been at.
Own(d) == d.body.objectID = d.client /\ d.body.x <= x[d.client]

OwnInv ==
  /\ TypeOK
  /\ OwnPositions
  /\ last # NoDatagram => Own(last)

\* Players only move forwards, so a step that puts nothing but own positions on
\* the net keeps the invariant.
LEMMA OwnKept ==
  ASSUME OwnInv, TypeOK',
         \A c \in Clients : x[c] <= x'[c],
         \A d \in net' : d \in net \/ Own(d)',
         last' # NoDatagram => last' = last \/ Own(last'),
         \A c \in Clients : seen'[c] = seen[c] \/ seen'[c] <= x'[c]
  PROVE  OwnInv'
  <1>1. ASSUME NEW d \in Datagram, Own(d)
        PROVE  Own(d)'
    <2>1. d.client \in Clients /\ d.body.x \in Nat
      BY DatagramFields
    <2>2. x[d.client] \in Nat /\ x'[d.client] \in Nat
      BY <2>1 DEF OwnInv, TypeOK
    <2> QED  BY <1>1, <2>1, <2>2 DEF Own
  <1>2. \A d \in net' : Own(d)'
    BY <1>1 DEF OwnInv, TypeOK, NetTypeOK, OwnPositions, Own
  <1>3. (last # NoDatagram => Own(last))'
    <2> SUFFICES ASSUME last' # NoDatagram  PROVE Own(last)'
      OBVIOUS
    <2>1. CASE last' = last
      <3>1. last \in Datagram /\ Own(last)
        BY <2>1 DEF OwnInv, TypeOK
      <3> QED  BY <1>1, <2>1, <3>1 DEF Own
    <2>2. CASE Own(last')
      <3>1. last' \in Datagram
        BY DEF TypeOK
      <3> QED  BY <1>1, <2>2, <3>1 DEF Own
    <2> QED  BY <2>1, <2>2
  <1>4. \A c \in Clients : seen'[c] <= x'[c]
    <2> SUFFICES ASSUME NEW c \in Clients  PROVE seen'[c] <= x'[c]
      OBVIOUS
    <2>1. x[c] \in Nat /\ x'[c] \in Nat /\ seen[c] \in Nat /\ seen[c] <= x[c]
      BY DEF OwnInv, TypeOK, OwnPositions
    <2> QED  BY <2>1
  <1> QED  BY <1>2, <1>3, <1>4 DEF OwnInv, OwnPositions, Own

LEMMA OwnMove ==
  ASSUME OwnInv, NEW c \in Clients, Move(c)
  PROVE  OwnInv'
  <1> DEFINE b == Position(c, x[c] + 1)
  <1>1. /\ TypeOK /\ NetTypeOK /\ x[c] \in Nat /\ x[c] + 1 \in 1..MaxMoves
        /\ x' = [x EXCEPT ![c] = x[c] + 1] /\ UNCHANGED <<seen, last>>
    BY PositionsAssumption DEF OwnInv, TypeOK, Move
  <1>2. b \in Body /\ b.objectID = c /\ b.x = x[c] + 1
    BY <1>1, PositionsAssumption DEF Position
  <1>3. net' = net \cup {Request(c, b)}
    BY DEF Move
  <1> HIDE DEF b
  <1>4. TypeOK'
    <2>1. net' \subseteq Datagram
      BY <1>1, <1>2, <1>3, DatagramType DEF NetTypeOK
    <2>2. x' \in [Clients -> 0..MaxMoves]
      BY <1>1 DEF TypeOK
    <2> QED
      BY <1>1, <2>1, <2>2, DatagramAssumption DEF TypeOK, NetTypeOK, Move
  <1>5. x'[c] = x[c] + 1
    BY <1>1 DEF TypeOK
  <1>6. \A d \in Clients : x[d] <= x'[d]
    BY <1>1 DEF TypeOK
  <1>7. \A d \in net' : d \in net \/ Own(d)'
    BY <1>1, <1>2, <1>3, <1>5, DatagramType DEF Own
  <1> QED  BY <1>1, <1>4, <1>6, <1>7, OwnKept

LEMMA OwnReceive ==
  ASSUME OwnInv, NEW c \in Clients, Receive(c)
  PROVE  OwnInv'
  <1>1. PICK d \in net :
          /\ To(d) = c /\ net' \in Taken(d)
          /\ seen' = [seen EXCEPT ![c] = d.body.x]
    BY DEF Receive
  <1>2. /\ TypeOK /\ NetTypeOK /\ UNCHANGED <<x, sstatus, last, starts, dropped>>
        /\ cstatus[c] = "waiting" /\ unreachable' = unreachable \cap bound'
    BY DEF OwnInv, TypeOK, Receive
  <1>3. d \in Datagram /\ d.client = c /\ d.body.x \in 1..MaxMoves
    BY <1>1, <1>2, DatagramFields DEF NetTypeOK
  <1>4. d.body.x <= x[c]
    BY <1>3 DEF OwnInv, OwnPositions
  <1>5. net' \subseteq net
    BY <1>1, TakenPart
  <1>6. \/ cstatus' = [cstatus EXCEPT ![c] = "moving"] /\ bound' = bound
        \/ cstatus' = [cstatus EXCEPT ![c] = "exited"] /\ bound' = bound \ {c}
    BY DEF Receive, EndOfRound
  <1>7. TypeOK'
    <2>1. seen' \in [Clients -> 0..MaxMoves]
      BY <1>1, <1>2, <1>3 DEF TypeOK
    <2> QED  BY <1>2, <1>5, <1>6, <2>1, DatagramAssumption DEF TypeOK, NetTypeOK
  <1>8. \A k \in Clients : seen'[k] = seen[k] \/ seen'[k] <= x'[k]
    BY <1>1, <1>2, <1>4 DEF TypeOK
  <1>9. \A k \in Clients : x[k] <= x'[k]
    BY <1>2 DEF TypeOK
  <1> QED  BY <1>2, <1>5, <1>7, <1>8, <1>9, OwnKept

\* A client goes on without an answer, or its console is closed.
LEMMA OwnReceiveFails ==
  ASSUME OwnInv, NEW c \in Clients, ReceiveFails(c) \/ KillClient(c)
  PROVE  OwnInv'
  <1>1. /\ TypeOK /\ NetTypeOK
        /\ UNCHANGED <<x, seen, sstatus, last, starts, dropped>>
        /\ net' \subseteq net /\ unreachable' = unreachable \ {c}
    BY DEF OwnInv, TypeOK, ReceiveFails, KillClient, End, Unbind
  <1>2. \/ /\ cstatus[c] = "waiting" /\ bound' = bound
           /\ cstatus' = [cstatus EXCEPT ![c] = "moving"]
        \/ /\ bound' = bound \ {c}
           /\ \E how \in {"exited", "killed"} :
                cstatus' = [cstatus EXCEPT ![c] = how]
    BY DEF ReceiveFails, AfterError, EndOfRound, KillClient, End, Unbind
  <1>3. TypeOK'
    BY <1>1, <1>2, DatagramAssumption DEF TypeOK, NetTypeOK
  <1>4. \A k \in Clients : x[k] <= x'[k]
    BY <1>1 DEF TypeOK
  <1> QED  BY <1>1, <1>3, <1>4, OwnKept

LEMMA OwnServerReceive ==
  ASSUME OwnInv, NEW c \in Clients, ServerReceive(c)
  PROVE  OwnInv'
  <1>1. PICK d \in net :
          /\ To(d) = server /\ net' \in Taken(d) /\ last' = d
    BY DEF ServerReceive, Received
  <1>2. /\ TypeOK /\ NetTypeOK
        /\ UNCHANGED <<bound, unreachable, x, seen, cstatus, starts, dropped>>
        /\ sstatus = "receiving" /\ sstatus' = "answering"
    BY DEF OwnInv, TypeOK, ServerReceive
  <1>3. d \in Datagram /\ d.kind = "request"
    BY <1>1, <1>2, DatagramFields DEF NetTypeOK
  <1>4. net' \subseteq net
    BY <1>1, TakenPart
  <1>5. TypeOK'
    BY <1>1, <1>2, <1>3, <1>4 DEF TypeOK, NetTypeOK
  <1>6. Own(last')
    BY <1>1 DEF OwnInv, OwnPositions, Own
  <1>7. \A k \in Clients : x[k] <= x'[k]
    BY <1>2 DEF TypeOK
  <1> QED  BY <1>2, <1>4, <1>5, <1>6, <1>7, OwnKept

LEMMA OwnAnswer ==
  ASSUME OwnInv, Answer
  PROVE  OwnInv'
  <1>1. /\ TypeOK /\ NetTypeOK
        /\ UNCHANGED <<bound, unreachable, x, seen, cstatus, last, starts, dropped>>
        /\ sstatus = "answering" /\ sstatus' = "receiving"
    BY DEF OwnInv, TypeOK, Answer
  <1>2. \A d \in net' :
          \/ d \in net
          \/ last # NoDatagram /\ d = Reply(last.client, last.body)
    BY DEF Answer
  <1>3. last # NoDatagram
          => /\ Reply(last.client, last.body) \in Datagram
             /\ Reply(last.client, last.body).client = last.client
             /\ Reply(last.client, last.body).body = last.body
    BY <1>1, DatagramType, DatagramFields DEF TypeOK
  <1>4. TypeOK'
    <2>1. net' \subseteq Datagram
      BY <1>1, <1>2, <1>3 DEF NetTypeOK
    <2> QED  BY <1>1, <2>1 DEF TypeOK, NetTypeOK
  <1>5. \A d \in net' : d \in net \/ Own(d)'
    BY <1>1, <1>2, <1>3 DEF OwnInv, Own
  <1>6. \A k \in Clients : x[k] <= x'[k]
    BY <1>1 DEF TypeOK
  <1> QED  BY <1>1, <1>4, <1>5, <1>6, OwnKept

\* The other steps of the server receive and send nothing.
LEMMA OwnServerOther ==
  ASSUME OwnInv, StartServer \/ ServerReceiveFails \/ KillServer
  PROVE  OwnInv'
  <1>1. /\ TypeOK /\ NetTypeOK /\ UNCHANGED <<x, seen, cstatus>>
        /\ net' \subseteq net
        /\ last' \in {last, NoDatagram}
    BY DEF OwnInv, TypeOK, StartServer, ServerReceiveFails, KillServer
  <1>2. TypeOK'
    <2>1. CASE StartServer
      BY <1>1, <2>1, DatagramAssumption, PositionsAssumption
         DEF StartServer, TypeOK, NetTypeOK
    <2>2. CASE ServerReceiveFails
      BY <1>1, <2>2 DEF ServerReceiveFails, TypeOK, NetTypeOK
    <2>3. CASE KillServer
      <3>1. dropped' \subseteq Clients
        <4>1. PICK gone \in SUBSET {d \in net : To(d) = server} :
                dropped' = dropped \cup
                  {d.client : d \in gone \cup IF sstatus = "answering"
                                              THEN {last} \ {NoDatagram} ELSE {}}
          BY <2>3 DEF KillServer
        <4>2. \A d \in gone \cup IF sstatus = "answering"
                                 THEN {last} \ {NoDatagram} ELSE {} :
                d.client \in Clients
          BY <1>1, DatagramFields DEF TypeOK, NetTypeOK
        <4> QED  BY <1>1, <4>1, <4>2 DEF TypeOK
      <3> QED
        BY <1>1, <2>3, <3>1, DatagramAssumption
           DEF KillServer, Unbind, TypeOK, NetTypeOK
    <2> QED  BY <2>1, <2>2, <2>3
  <1>3. \A k \in Clients : x[k] <= x'[k]
    BY <1>1 DEF TypeOK
  <1> QED  BY <1>1, <1>2, <1>3, OwnKept

LEMMA OwnNet ==
  ASSUME OwnInv, (NetStep /\ UNCHANGED moveVars) \/ UNCHANGED vars
  PROVE  OwnInv'
  <1>1. /\ TypeOK /\ NetTypeOK /\ bound' = bound /\ UNCHANGED moveVars
        /\ net' \subseteq net /\ unreachable' \subseteq bound
    BY DEF OwnInv, TypeOK, NetTypeOK, NetStep, Lose, Bounce, vars, netVars
  <1>2. UNCHANGED <<x, seen, cstatus, sstatus, last, starts, dropped>>
    BY <1>1 DEF moveVars
  <1>3. TypeOK'
    BY <1>1, <1>2 DEF TypeOK, NetTypeOK
  <1>4. \A k \in Clients : x[k] <= x'[k]
    BY <1>1, <1>2 DEF TypeOK
  <1> QED  BY <1>1, <1>2, <1>3, <1>4, OwnKept

LEMMA OwnInit == Init => OwnInv
  BY DatagramAssumption, PositionsAssumption
     DEF Init, NetInit, OwnInv, OwnPositions, TypeOK, NetTypeOK, NoDatagram

LEMMA OwnNext ==
  ASSUME OwnInv, [Next]_vars
  PROVE  OwnInv'
  BY OwnMove, OwnReceive, OwnReceiveFails, OwnServerReceive, OwnAnswer,
     OwnServerOther, OwnNet
     DEF Next, ClientLoop, ServerLoop

LEMMA OwnInvariant == Spec => []OwnInv
  BY OwnInit, OwnNext, PTL DEF Spec

\* Every variable keeps its type, and a program that runs has its socket.
THEOREM PositionsTypeCorrect == Spec => []TypeOK
  <1>1. OwnInv => TypeOK
    BY DEF OwnInv
  <1> QED  BY <1>1, OwnInvariant, PTL

\* A client is only ever sent, and shows, positions that its own player has been
\* at, whatever is lost, repeated, closed and started again.
THEOREM PositionsOwn == Spec => []OwnPositions
  <1>1. OwnInv => OwnPositions
    BY DEF OwnInv
  <1> QED  BY <1>1, OwnInvariant, PTL

-----------------------------------------------------------------------------
(* A network that duplicates nothing, as long as no client is closed. *)

\* d holds what its client waits for, and its client will not be told that it
\* cannot be delivered.
Current(d) ==
  /\ cstatus[d.client] = "waiting"
  /\ d.body.x = x[d.client]
  /\ d.client \notin unreachable

\* What a client waits for is in one place: on the net, with the server that
\* answers, or lost, with or without an ICMP message.  The server is told of
\* nothing, because nobody that it answers has gone.
Steady ==
  /\ \A d \in net : Current(d)
  /\ \A d, e \in net : d.client = e.client => d = e
  /\ sstatus = "answering"
       => /\ last # NoDatagram
          /\ Current(last)
          /\ \A d \in net : d.client # last.client
  /\ \A c \in Clients : c \in unreachable => cstatus[c] = "waiting"
  /\ server \notin unreachable

NoneKilled == \A c \in Clients : cstatus[c] # "killed"

StepInv == OwnInv /\ (NoneKilled => Steady)

\* What the types say of a steady state.
LEMMA SteadyTypes ==
  ASSUME OwnInv
  PROVE  /\ cstatus \in [Clients -> {"moving", "waiting", "exited", "killed"}]
         /\ x \in [Clients -> 0..MaxMoves]
         /\ \A d \in net : d \in Datagram /\ d.client \in Clients
         /\ last # NoDatagram => last \in Datagram /\ last.client \in Clients
         /\ \A c \in Clients : cstatus[c] = "waiting" => c \in bound
  BY DatagramFields DEF OwnInv, TypeOK, NetTypeOK

\* A step of client c alone, that takes what there is for it from the net, or
\* finds nothing there and adds at most one datagram, which it then waits for.
LEMMA SteadyClient ==
  ASSUME OwnInv, Steady, NEW c \in Clients, UNCHANGED <<sstatus, last>>,
         sstatus = "answering" => last.client # c,
         \A k \in Clients : k # c => cstatus'[k] = cstatus[k] /\ x'[k] = x[k],
         \A d \in net' :
          (d \in net /\ d.client # c) \/ (d.client = c /\ Current(d)'),
         \A d, e \in net' : d.client = c /\ e.client = c => d = e,
         unreachable' \subseteq unreachable \ {c}
  PROVE  Steady'
  <1>1. ASSUME NEW d, d.client \in Clients, d.client # c, Current(d)
        PROVE  Current(d)'
    BY <1>1 DEF Current
  <1>2. \A d \in net' : Current(d)'
    BY <1>1, SteadyTypes DEF Steady
  <1>3. \A d, e \in net' : d.client = e.client => d = e
    BY DEF Steady
  <1>4. sstatus' = "answering"
          => /\ last' # NoDatagram
             /\ Current(last)'
             /\ \A d \in net' : d.client # last'.client
    <2> SUFFICES ASSUME sstatus = "answering"
                 PROVE  /\ last # NoDatagram
                        /\ Current(last)'
                        /\ \A d \in net' : d.client # last.client
      OBVIOUS
    <2>1. last # NoDatagram /\ last.client \in Clients /\ Current(last)
      BY SteadyTypes DEF Steady
    <2>2. Current(last)'
      BY <1>1, <2>1 DEF Current
    <2> QED  BY <2>1, <2>2 DEF Steady
  <1>5. /\ \A k \in Clients : k \in unreachable' => cstatus'[k] = "waiting"
        /\ server \notin unreachable'
    BY DEF Steady
  <1> QED  BY <1>2, <1>3, <1>4, <1>5 DEF Steady

LEMMA SteadyMove ==
  ASSUME OwnInv, Steady, NEW c \in Clients, Move(c)
  PROVE  Steady'
  <1>1. PICK r :
          /\ r.client = c /\ r.body.x = x[c] + 1
          /\ net' = net \cup {r}
    BY DEF Move, Request, Position
  <1>2. /\ cstatus[c] = "moving"
        /\ x' = [x EXCEPT ![c] = x[c] + 1]
        /\ cstatus' = [cstatus EXCEPT ![c] = "waiting"]
        /\ UNCHANGED <<unreachable, sstatus, last>>
    BY DEF Move
  <1>3. /\ x'[c] = x[c] + 1 /\ cstatus'[c] = "waiting"
        /\ \A k \in Clients : k # c => cstatus'[k] = cstatus[k] /\ x'[k] = x[k]
    BY <1>2, SteadyTypes
  <1>4. /\ c \notin unreachable
        /\ \A d \in net : d.client # c
        /\ sstatus = "answering" => last.client # c
    BY <1>2 DEF Steady, Current
  <1>5. \A d \in net' :
          (d \in net /\ d.client # c) \/ (d.client = c /\ Current(d)')
    BY <1>1, <1>2, <1>3, <1>4 DEF Current
  <1>6. \A d, e \in net' : d.client = c /\ e.client = c => d = e
    BY <1>1, <1>4
  <1>7. unreachable' \subseteq unreachable \ {c}
    BY <1>2, <1>4
  <1> QED  BY <1>2, <1>3, <1>4, <1>5, <1>6, <1>7, SteadyClient

\* The position that a client takes is the one that it waits for.
LEMMA SteadyTaken ==
  ASSUME ~Duplicating, OwnInv, Steady, NEW c \in Clients, Receive(c)
  PROVE  /\ seen' = [seen EXCEPT ![c] = x[c]]
         /\ \A d \in net' : d \in net /\ d.client # c
         /\ c \notin unreachable
         /\ sstatus = "answering" => last.client # c
  <1>1. PICK d \in net :
          /\ To(d) = c /\ net' \in Taken(d)
          /\ seen' = [seen EXCEPT ![c] = d.body.x]
    BY DEF Receive
  <1>2. d.client = c /\ net' = net \ {d}
    BY <1>1, SteadyTypes, DatagramFields, TakenPart
  <1> QED  BY <1>1, <1>2 DEF Steady, Current

LEMMA SteadyReceive ==
  ASSUME ~Duplicating, OwnInv, Steady, NEW c \in Clients, Receive(c)
  PROVE  Steady'
  <1>1. /\ UNCHANGED <<x, sstatus, last>>
        /\ unreachable' \subseteq unreachable
        /\ \E s : cstatus' = [cstatus EXCEPT ![c] = s]
    BY DEF Receive, EndOfRound
  <1>2. \A k \in Clients : k # c => cstatus'[k] = cstatus[k] /\ x'[k] = x[k]
    BY <1>1, SteadyTypes
  <1>3. /\ \A d \in net' : d \in net /\ d.client # c
        /\ unreachable' \subseteq unreachable \ {c}
        /\ sstatus = "answering" => last.client # c
    BY <1>1, SteadyTaken
  <1>4. \A d \in net' :
          (d \in net /\ d.client # c) \/ (d.client = c /\ Current(d)')
    BY <1>3
  <1>5. \A d, e \in net' : d.client = c /\ e.client = c => d = e
    BY <1>3
  <1> QED  BY <1>1, <1>2, <1>3, <1>4, <1>5, SteadyClient

LEMMA SteadyReceiveFails ==
  ASSUME OwnInv, Steady, NEW c \in Clients, ReceiveFails(c)
  PROVE  Steady'
  <1>1. /\ UNCHANGED <<net, x, sstatus, last>>
        /\ c \in unreachable /\ unreachable' = unreachable \ {c}
        /\ \E s : cstatus' = [cstatus EXCEPT ![c] = s]
    BY DEF ReceiveFails, AfterError, EndOfRound
  <1>2. \A k \in Clients : k # c => cstatus'[k] = cstatus[k] /\ x'[k] = x[k]
    BY <1>1, SteadyTypes
  <1>3. /\ \A d \in net' : d \in net /\ d.client # c
        /\ sstatus = "answering" => last.client # c
    BY <1>1 DEF Steady, Current
  <1>4. \A d \in net' :
          (d \in net /\ d.client # c) \/ (d.client = c /\ Current(d)')
    BY <1>3
  <1>5. \A d, e \in net' : d.client = c /\ e.client = c => d = e
    BY <1>3
  <1> QED  BY <1>1, <1>2, <1>3, <1>4, <1>5, SteadyClient

LEMMA SteadyServerReceive ==
  ASSUME ~Duplicating, Steady, NEW c \in Clients, ServerReceive(c), OwnInv
  PROVE  Steady'
  <1>1. PICK d \in net : net' \in Taken(d) /\ last' = d
    BY DEF ServerReceive, Received
  <1>2. /\ UNCHANGED <<unreachable, x, cstatus>> /\ sstatus' = "answering"
    BY DEF ServerReceive
  <1>3. net' = net \ {d} /\ d # NoDatagram
    BY <1>1, TakenPart, SteadyTypes, DatagramFields
  <1> QED  BY <1>1, <1>2, <1>3 DEF Steady, Current

LEMMA SteadyAnswer ==
  ASSUME Steady, Answer
  PROVE  Steady'
  <1>1. /\ UNCHANGED <<unreachable, x, cstatus, last>>
        /\ sstatus = "answering" /\ sstatus' = "receiving"
        /\ net' = net \cup {Reply(last.client, last.body)}
    BY DEF Answer, Steady
  <1>2. /\ Reply(last.client, last.body).client = last.client
        /\ Reply(last.client, last.body).body = last.body
    BY DEF Reply
  <1>3. \A d \in net' : Current(d)'
    BY <1>1, <1>2 DEF Steady, Current
  <1> QED  BY <1>1, <1>2, <1>3 DEF Steady

LEMMA SteadyServerOther ==
  ASSUME Steady, StartServer \/ ServerReceiveFails \/ KillServer
  PROVE  Steady'
  <1>1. /\ UNCHANGED <<x, cstatus>> /\ net' \subseteq net
        /\ unreachable' \subseteq unreachable /\ sstatus' # "answering"
    BY DEF StartServer, ServerReceiveFails, KillServer, Unbind, Steady
  <1> QED  BY <1>1 DEF Steady, Current

\* A datagram is lost, or comes back to the client that waits for its answer.
LEMMA SteadyNet ==
  ASSUME OwnInv, Steady, NetStep, UNCHANGED moveVars
  PROVE  Steady'
  <1>1. PICK d \in net : Lose(d) \/ Bounce(d)
    BY DEF NetStep
  <1>2. net' = net \ {d} /\ UNCHANGED <<x, cstatus, sstatus, last>>
    BY <1>1 DEF Lose, Bounce, moveVars
  <1>3. d \in Datagram /\ d.client \in Clients /\ Current(d)
    BY SteadyTypes DEF Steady
  <1>4. unreachable' \subseteq unreachable \cup {d.client}
    <2>1. CASE Lose(d)
      BY <2>1 DEF Lose
    <2>2. CASE Bounce(d)
      <3>1. To(d) # d.client
        BY <1>3, <2>2, SteadyTypes DEF Bounce, Current
      <3>2. From(d) = d.client
        BY <3>1 DEF From, To
      <3> QED  BY <2>2, <3>2 DEF Bounce
    <2> QED  BY <1>1, <2>1, <2>2
  <1>5. \A e \in net' : e.client # d.client
    BY <1>2 DEF Steady
  <1>6. \A e \in net' : Current(e)'
    BY <1>2, <1>4, <1>5 DEF Steady, Current
  <1>7. sstatus' = "answering"
          => /\ last' # NoDatagram
             /\ Current(last)'
             /\ \A e \in net' : e.client # last'.client
    BY <1>2, <1>4 DEF Steady, Current
  <1>8. /\ \A c \in Clients : c \in unreachable' => cstatus'[c] = "waiting"
        /\ server \notin unreachable'
    BY <1>2, <1>3, <1>4, DatagramAssumption DEF Steady, Current
  <1>9. \A e, f \in net' : e.client = f.client => e = f
    BY <1>2 DEF Steady
  <1> QED  BY <1>6, <1>7, <1>8, <1>9 DEF Steady

LEMMA SteadyStutter ==
  ASSUME Steady, UNCHANGED vars
  PROVE  Steady'
  BY DEF Steady, Current, vars, netVars, moveVars

\* A client whose console was closed does not come back.
LEMMA StaysKilled ==
  ASSUME OwnInv, [Next]_vars, NoneKilled'
  PROVE  /\ NoneKilled
         /\ \A c \in Clients : ~KillClient(c)
  <1>1. ASSUME NEW c \in Clients, KillClient(c)
        PROVE  cstatus'[c] = "killed"
    BY <1>1, SteadyTypes DEF KillClient, End
  <1>2. ASSUME NEW c \in Clients, ClientLoop(c),
               NEW k \in Clients, cstatus[k] = "killed"
        PROVE  cstatus'[k] = "killed"
    BY <1>2, SteadyTypes
       DEF ClientLoop, Move, Receive, ReceiveFails, AfterError, EndOfRound
  <1>3. \A c \in Clients : ~KillClient(c)
    BY <1>1 DEF NoneKilled
  <1>4. CASE \E c \in Clients : ClientLoop(c)
    BY <1>2, <1>3, <1>4 DEF NoneKilled
  <1>5. CASE StartServer \/ ServerLoop \/ KillServer
    BY <1>3, <1>5
       DEF StartServer, ServerLoop, ServerReceive, ServerReceiveFails, Answer,
           KillServer, NoneKilled
  <1>6. CASE (NetStep /\ UNCHANGED moveVars) \/ UNCHANGED vars
    BY <1>3, <1>6 DEF moveVars, vars, NoneKilled
  <1> QED  BY <1>3, <1>4, <1>5, <1>6 DEF Next

LEMMA StepNext ==
  ASSUME ~Duplicating, StepInv, [Next]_vars
  PROVE  StepInv'
  <1>1. OwnInv /\ OwnInv'
    BY OwnNext DEF StepInv
  <1>2. ASSUME NoneKilled'
        PROVE  Steady'
    <2>1. Steady /\ \A c \in Clients : ~KillClient(c)
      BY <1>1, <1>2, StaysKilled DEF StepInv
    <2> QED
      BY <1>1, <2>1, SteadyMove, SteadyReceive, SteadyReceiveFails,
         SteadyServerReceive, SteadyAnswer, SteadyServerOther, SteadyNet,
         SteadyStutter
         DEF Next, ClientLoop, ServerLoop
  <1> QED  BY <1>1, <1>2 DEF StepInv

\* In a network that duplicates nothing, as long as no client is closed: a
\* position that comes back is the one that the player is at, whatever was lost
\* and however often the server has been closed and started.
THEOREM PositionsInStep ==
  ASSUME ~Duplicating
  PROVE  Spec => InStep
  <1>1. Init => StepInv
    <2> SUFFICES ASSUME Init  PROVE StepInv
      OBVIOUS
    <2> QED  BY OwnInit DEF Init, NetInit, StepInv, Steady
  <1>2. StepInv /\ [Next]_vars => StepInv'
    BY StepNext
  <1>3. StepInv /\ [Next]_vars
          => [NoneKilled
                => \A c \in Clients : seen'[c] # seen[c] => seen'[c] = x[c]]_vars
    <2> SUFFICES ASSUME StepInv, Next, NoneKilled,
                        NEW c \in Clients, seen'[c] # seen[c]
                 PROVE  seen'[c] = x[c]
      OBVIOUS
    <2>1. PICK k \in Clients : Receive(k)
      BY DEF Next, ClientLoop, Move, ReceiveFails, KillClient, StartServer,
             ServerLoop, ServerReceive, ServerReceiveFails, Answer, KillServer,
             moveVars
    <2>2. OwnInv /\ Steady
      BY DEF StepInv
    <2>3. seen' = [seen EXCEPT ![k] = x[k]]
      BY <2>1, <2>2, SteadyTaken
    <2> QED  BY <2>2, <2>3 DEF OwnInv, TypeOK
  <1> QED  BY <1>1, <1>2, <1>3, PTL DEF Spec, InStep, NoneKilled
=============================================================================
