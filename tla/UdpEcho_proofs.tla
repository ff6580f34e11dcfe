---------------------------- MODULE UdpEcho_proofs ----------------------------
(***************************************************************************)
(* Proofs about UdpEcho, for any number of clients and lines.              *)
(***************************************************************************)
EXTENDS UdpEcho, SequenceTheorems, TLAPS

-----------------------------------------------------------------------------
(* What holds whatever the network does and whoever closes a console. *)

\* Line b.line of user c is the one that b holds.
Own(c, b) == b.line \in 1..Len(typed[c]) /\ b.quit = typed[c][b.line]

\* Only lines that were typed go round.  The server can have sent something, and
\* so have been told that it cannot be delivered, only after it has received.
OwnInv ==
  /\ TypeOK
  /\ \A d \in net : Own(d.client, d.body)
  /\ last # NoDatagram => Own(last.client, last.body)
  /\ \A c \in Clients : \A k \in 1..Len(shown[c]) : Own(c, shown[c][k])
  /\ \A c \in Clients :
       cstatus[c] = "exited" => \E i \in 1..Len(typed[c]) : typed[c][i]
  /\ last = NoDatagram
       => server \notin unreachable /\ \A d \in net : d.kind = "request"

LEMMA DatagramType ==
  ASSUME NEW c \in Clients, NEW b \in Body
  PROVE  /\ Request(c, b) \in Datagram /\ Reply(c, b) \in Datagram
         /\ Request(c, b).client = c /\ Request(c, b).body = b
         /\ Request(c, b).kind = "request"
         /\ Reply(c, b).client = c /\ Reply(c, b).body = b
         /\ Reply(c, b).kind = "reply"
         /\ From(Request(c, b)) = c /\ To(Request(c, b)) = server
         /\ From(Reply(c, b)) = server /\ To(Reply(c, b)) = c
  BY DEF Request, Reply, Datagram, From, To

LEMMA DatagramFields ==
  ASSUME NEW d \in Datagram
  PROVE  /\ d.client \in Clients /\ d.body \in Body
         /\ d.kind \in {"request", "reply"} /\ d # NoDatagram
         /\ To(d) = server <=> d.kind = "request"
         /\ From(d) \in Clients \cup {server}
  BY DatagramAssumption DEF Datagram, NoDatagram, From, To

\* A step that types nothing, and puts on the net nothing but lines that were
\* typed, keeps the invariant.
LEMMA OwnKept ==
  ASSUME OwnInv, TypeOK', UNCHANGED typed,
         \A d \in net' : d \in net \/ Own(d.client, d.body),
         last' # NoDatagram => Own(last'.client, last'.body),
         \A c \in Clients : \A k \in 1..Len(shown'[c]) :
           \/ k \in 1..Len(shown[c]) /\ shown'[c][k] = shown[c][k]
           \/ Own(c, shown'[c][k]),
         \A c \in Clients :
           cstatus'[c] = "exited"
             => \/ cstatus[c] = "exited"
                \/ \E i \in 1..Len(typed[c]) : typed[c][i],
         last' = NoDatagram
           => server \notin unreachable' /\ \A d \in net' : d.kind = "request"
  PROVE  OwnInv'
  <1>1. \A c, b : Own(c, b)' <=> Own(c, b)
    BY DEF Own
  <1>2. (\A d \in net : Own(d.client, d.body))'
    BY <1>1 DEF OwnInv
  <1>3. (last # NoDatagram => Own(last.client, last.body))'
    BY <1>1
  <1>4. (\A c \in Clients : \A k \in 1..Len(shown[c]) : Own(c, shown[c][k]))'
    BY <1>1 DEF OwnInv
  <1>5. (\A c \in Clients :
           cstatus[c] = "exited" => \E i \in 1..Len(typed[c]) : typed[c][i])'
    BY DEF OwnInv
  <1> QED  BY <1>2, <1>3, <1>4, <1>5 DEF OwnInv

LEMMA OwnTypeLine ==
  ASSUME OwnInv, NEW c \in Clients, TypeLine(c)
  PROVE  OwnInv'
  <1> USE DEF OwnInv, TypeOK, NetTypeOK
  <1>1. PICK quit \in BOOLEAN :
          /\ typed' = [typed EXCEPT ![c] = Append(@, quit)]
          /\ \/ net' = net \cup
                        {Request(c, [line |-> Len(typed[c]) + 1, quit |-> quit])}
             \/ typed[c] # <<>> /\ UNCHANGED net
    BY DEF TypeLine
  <1>2. /\ typed[c] \in Seq(BOOLEAN) /\ typed'[c] = Append(typed[c], quit)
        /\ Len(typed[c]) \in Nat /\ Len(typed[c]) + 1 \in 1..MaxLines
    BY <1>1, EchoAssumption DEF TypeLine
  <1>3. /\ Len(typed'[c]) = Len(typed[c]) + 1
        /\ typed'[c] \in Seq(BOOLEAN)
        /\ \A i \in 1..Len(typed[c]) : typed'[c][i] = typed[c][i]
        /\ typed'[c][Len(typed[c]) + 1] = quit
    BY <1>2, AppendProperties
  <1>4. PICK b \in Body :
          /\ b.line = Len(typed[c]) + 1 /\ b.quit = quit
          /\ \A d \in net' : d \in net \/ d = Request(c, b)
    <2> DEFINE b == [line |-> Len(typed[c]) + 1, quit |-> quit]
    <2>1. b \in Body
      BY <1>2, EchoAssumption
    <2>2. b.line = Len(typed[c]) + 1 /\ b.quit = quit
      OBVIOUS
    <2>3. \A d \in net' : d \in net \/ d = Request(c, b)
      BY <1>1
    <2> HIDE DEF b
    <2> QED  BY <2>1, <2>2, <2>3
  <1>5. ASSUME NEW d \in Clients, NEW x, Own(d, x)
        PROVE  Own(d, x)'
    <2>1. CASE d = c
      <3>1. x.line \in 1..Len(typed'[c])
        BY <1>2, <1>3, <1>5, <2>1 DEF Own
      <3>2. x.quit = typed'[c][x.line]
        BY <1>3, <1>5, <2>1 DEF Own
      <3> QED  BY <2>1, <3>1, <3>2 DEF Own
    <2>2. CASE d # c
      BY <1>1, <1>5, <2>2 DEF Own
    <2> QED  BY <2>1, <2>2
  <1>6. Own(c, b)'
    <2>1. b.line \in 1..Len(typed'[c])
      BY <1>2, <1>3, <1>4
    <2>2. b.quit = typed'[c][b.line]
      BY <1>3, <1>4
    <2> QED  BY <2>1, <2>2 DEF Own
  <1>7. TypeOK'
    <2>1. typed' \in [Clients -> Seq(BOOLEAN)]
      BY <1>1, <1>3
    <2>2. net' \subseteq Datagram
      BY <1>4, DatagramType
    <2>3. /\ bound' = bound \cup {c}
          /\ cstatus' = [cstatus EXCEPT ![c] = "waiting"]
          /\ UNCHANGED <<unreachable, shown, sstatus, last>>
      BY DEF TypeLine
    <2> QED  BY <2>1, <2>2, <2>3, DatagramAssumption
  <1>8. (\A d \in net : Own(d.client, d.body))'
    <2> SUFFICES ASSUME NEW d \in net'
                 PROVE  Own(d.client, d.body)'
      OBVIOUS
    <2>1. CASE d \in net
      <3>1. d.client \in Clients /\ Own(d.client, d.body)
        BY <2>1, DatagramFields
      <3> QED  BY <1>5, <3>1
    <2>2. CASE d = Request(c, b)
      <3>1. d.client = c /\ d.body = b
        BY <1>4, <2>2, DatagramType
      <3> QED  BY <1>6, <3>1
    <2> QED  BY <1>4, <2>1, <2>2
  <1>9. (last # NoDatagram => Own(last.client, last.body))'
    BY <1>5, DatagramFields DEF TypeLine
  <1>10. (\A x \in Clients : \A k \in 1..Len(shown[x]) : Own(x, shown[x][k]))'
    BY <1>5 DEF TypeLine
  <1>11. (\A x \in Clients :
            cstatus[x] = "exited" => \E i \in 1..Len(typed[x]) : typed[x][i])'
    BY <1>1 DEF TypeLine
  <1>12. (last = NoDatagram
            => server \notin unreachable /\ \A d \in net : d.kind = "request")'
    BY <1>4, DatagramType DEF TypeLine
  <1> QED  BY <1>7, <1>8, <1>9, <1>10, <1>11, <1>12

LEMMA OwnShowAnswer ==
  ASSUME OwnInv, NEW c \in Clients, ShowAnswer(c)
  PROVE  OwnInv'
  <1>1. PICK d \in net :
          /\ To(d) = c
          /\ net' \in Taken(d)
          /\ shown' = [shown EXCEPT ![c] = Append(@, d.body)]
          /\ \/ d.body.quit /\ End(c, "exited")
             \/ /\ ~d.body.quit
                /\ cstatus' = [cstatus EXCEPT ![c] = "prompt"]
                /\ UNCHANGED <<bound, unreachable>>
    BY DEF ShowAnswer
  <1>2. TypeOK /\ NetTypeOK /\ UNCHANGED <<typed, sstatus, last>>
    BY DEF OwnInv, TypeOK, ShowAnswer
  <1>3. d \in Datagram /\ d.client = c /\ d.body \in Body /\ d.kind = "reply"
    BY <1>1, <1>2, DatagramFields, DatagramAssumption DEF NetTypeOK, To
  <1>4. Own(c, d.body)
    BY <1>3 DEF OwnInv
  <1>5. net' \subseteq net
    BY <1>1 DEF Taken
  <1>6. /\ shown[c] \in Seq(Body) /\ shown'[c] = Append(shown[c], d.body)
        /\ Len(shown[c]) \in Nat
    BY <1>1, <1>2 DEF TypeOK
  <1>7. /\ shown'[c] \in Seq(Body) /\ Len(shown'[c]) = Len(shown[c]) + 1
        /\ \A k \in 1..Len(shown[c]) : shown'[c][k] = shown[c][k]
        /\ shown'[c][Len(shown[c]) + 1] = d.body
    BY <1>3, <1>6, AppendProperties
  <1>8. TypeOK'
    <2>1. shown' \in [Clients -> Seq(Body)]
      BY <1>1, <1>2, <1>7 DEF TypeOK
    <2>2. net' \subseteq Datagram
      BY <1>2, <1>5 DEF NetTypeOK
    <2>3. CASE d.body.quit
      <3>1. End(c, "exited")
        BY <1>1, <2>3
      <3> QED
        BY <1>2, <2>1, <2>2, <3>1, DatagramAssumption
           DEF TypeOK, NetTypeOK, End, Unbind
    <2>4. CASE ~d.body.quit
      BY <1>1, <1>2, <2>1, <2>2, <2>4 DEF TypeOK, NetTypeOK
    <2> QED  BY <2>3, <2>4
  <1>9. ASSUME NEW x \in Clients, NEW k \in 1..Len(shown'[x])
        PROVE  \/ k \in 1..Len(shown[x]) /\ shown'[x][k] = shown[x][k]
               \/ Own(x, shown'[x][k])
    <2>1. CASE x # c
      BY <1>1, <1>2, <2>1 DEF TypeOK
    <2>2. CASE x = c /\ k = Len(shown[c]) + 1
      BY <1>4, <1>7, <2>2
    <2>3. CASE x = c /\ k # Len(shown[c]) + 1
      <3>1. k \in 1..Len(shown[c])
        BY <1>6, <1>7, <2>3
      <3> QED  BY <1>7, <2>3, <3>1
    <2> QED  BY <2>1, <2>2, <2>3
  <1>10. ASSUME NEW x \in Clients, cstatus'[x] = "exited"
         PROVE  \/ cstatus[x] = "exited"
                \/ \E i \in 1..Len(typed[x]) : typed[x][i]
    <2>1. CASE x = c /\ d.body.quit
      BY <1>4, <2>1 DEF Own
    <2>2. CASE x # c \/ ~d.body.quit
      BY <1>1, <1>2, <1>10, <2>2 DEF TypeOK, End
    <2> QED  BY <2>1, <2>2
  <1>11. last' # NoDatagram
    BY <1>2, <1>3 DEF OwnInv
  <1>12. Own(last'.client, last'.body)
    BY <1>2, <1>11 DEF OwnInv
  <1> QED  BY <1>2, <1>5, <1>8, <1>9, <1>10, <1>11, <1>12, OwnKept

\* A client's process ends without having been answered quit.
LEMMA OwnEnds ==
  ASSUME OwnInv, NEW c \in Clients, ClientDies(c) \/ KillClient(c)
  PROVE  OwnInv'
  <1>1. PICK how \in {"died", "killed"} : End(c, how)
    BY DEF ClientDies, KillClient
  <1>2. TypeOK /\ NetTypeOK /\ UNCHANGED <<net, typed, shown, sstatus, last>>
    BY DEF OwnInv, TypeOK, ClientDies, KillClient
  <1>3. /\ cstatus' = [cstatus EXCEPT ![c] = how]
        /\ bound' = bound \ {c} /\ unreachable' = unreachable \ {c}
    BY <1>1 DEF End, Unbind
  <1>4. TypeOK'
    BY <1>2, <1>3, DatagramAssumption DEF TypeOK, NetTypeOK
  <1>5. \A x \in Clients : cstatus'[x] = "exited" => cstatus[x] = "exited"
    BY <1>2, <1>3 DEF TypeOK
  <1>6. last' # NoDatagram => Own(last'.client, last'.body)
    BY <1>2 DEF OwnInv
  <1>7. last' = NoDatagram
          => server \notin unreachable' /\ \A d \in net' : d.kind = "request"
    BY <1>2, <1>3 DEF OwnInv
  <1> QED  BY <1>2, <1>4, <1>5, <1>6, <1>7, OwnKept

LEMMA OwnServerProcess ==
  ASSUME OwnInv, StartServer \/ KillServer
  PROVE  OwnInv'
  <1>1. TypeOK /\ NetTypeOK /\ UNCHANGED <<net, typed, shown, cstatus, last>>
    BY DEF OwnInv, TypeOK, StartServer, KillServer
  <1>2. unreachable' \subseteq unreachable
    BY DEF StartServer, KillServer, Unbind
  <1>3. TypeOK'
    BY <1>1, DatagramAssumption
       DEF TypeOK, NetTypeOK, StartServer, KillServer, Unbind
  <1>4. last' # NoDatagram => Own(last'.client, last'.body)
    BY <1>1 DEF OwnInv
  <1>5. last' = NoDatagram
          => server \notin unreachable' /\ \A d \in net' : d.kind = "request"
    BY <1>1, <1>2 DEF OwnInv
  <1> QED  BY <1>1, <1>3, <1>4, <1>5, OwnKept

LEMMA OwnEcho ==
  ASSUME OwnInv, Echo
  PROVE  OwnInv'
  <1>1. PICK d \in net :
          /\ To(d) = server
          /\ \E rest \in Taken(d) : net' = rest \cup {Answer(d)}
          /\ last' = d
    BY DEF Echo
  <1>2. /\ TypeOK /\ NetTypeOK
        /\ UNCHANGED <<bound, unreachable, typed, shown, cstatus, sstatus>>
    BY DEF OwnInv, TypeOK, Echo
  <1>3. d \in Datagram /\ d.kind = "request" /\ d # NoDatagram
    BY <1>1, <1>2, DatagramFields DEF NetTypeOK
  <1>4. Own(d.client, d.body)
    BY DEF OwnInv
  <1>5. \A e \in net' : e \in net \/ e = Reply(d.client, d.body)
    BY <1>1 DEF Taken, Answer
  <1>6. /\ Reply(d.client, d.body) \in Datagram
        /\ Reply(d.client, d.body).client = d.client
        /\ Reply(d.client, d.body).body = d.body
    BY <1>3, DatagramFields, DatagramType
  <1>7. TypeOK'
    <2>1. net' \subseteq Datagram
      BY <1>2, <1>5, <1>6 DEF NetTypeOK
    <2> QED  BY <1>1, <1>2, <1>3, <2>1 DEF TypeOK, NetTypeOK
  <1>8. \A e \in net' : e \in net \/ Own(e.client, e.body)
    BY <1>4, <1>5, <1>6
  <1> QED  BY <1>1, <1>2, <1>3, <1>4, <1>7, <1>8, OwnKept

LEMMA OwnEchoAfterError ==
  ASSUME OwnInv, EchoAfterError
  PROVE  OwnInv'
  <1>1. /\ TypeOK /\ NetTypeOK /\ UNCHANGED <<typed, shown, cstatus, last>>
        /\ server \in unreachable
    BY DEF OwnInv, TypeOK, EchoAfterError
  <1>2. last # NoDatagram /\ last \in Datagram /\ Own(last.client, last.body)
    BY <1>1 DEF OwnInv, TypeOK
  <1>3. \A e \in net' : e \in net \/ e = Reply(last.client, last.body)
    BY DEF EchoAfterError, Answer
  <1>4. /\ Reply(last.client, last.body) \in Datagram
        /\ Reply(last.client, last.body).client = last.client
        /\ Reply(last.client, last.body).body = last.body
    BY <1>2, DatagramFields, DatagramType
  <1>5. TypeOK'
    <2>1. net' \subseteq Datagram
      BY <1>1, <1>3, <1>4 DEF NetTypeOK
    <2>2. /\ unreachable' = unreachable \ {server}
          /\ \/ bound' = bound \ {server} /\ sstatus' = "crashed"
             \/ bound' = bound /\ sstatus' = sstatus
      BY DEF EchoAfterError, Unbind
    <2> QED  BY <1>1, <2>1, <2>2, DatagramAssumption DEF TypeOK, NetTypeOK
  <1>6. \A e \in net' : e \in net \/ Own(e.client, e.body)
    BY <1>2, <1>3, <1>4
  <1> QED  BY <1>1, <1>2, <1>5, <1>6, OwnKept

LEMMA OwnNet ==
  ASSUME OwnInv, NetStep, UNCHANGED echoVars
  PROVE  OwnInv'
  <1>1. PICK d \in net : Lose(d) \/ Bounce(d)
    BY DEF NetStep
  <1>2. /\ TypeOK /\ NetTypeOK
        /\ UNCHANGED <<bound, typed, shown, cstatus, sstatus, last>>
    BY <1>1 DEF OwnInv, TypeOK, echoVars, Lose, Bounce
  <1>3. /\ net' \subseteq net
        /\ unreachable' \subseteq unreachable \cup ({From(d)} \cap bound)
    BY <1>1 DEF Lose, Bounce
  <1>4. TypeOK'
    BY <1>2, <1>3 DEF TypeOK, NetTypeOK
  <1>5. last' = NoDatagram
          => server \notin unreachable' /\ \A e \in net' : e.kind = "request"
    <2> SUFFICES ASSUME last = NoDatagram
                 PROVE  /\ server \notin unreachable'
                        /\ \A e \in net' : e.kind = "request"
      BY <1>2
    <2>1. /\ server \notin unreachable
          /\ \A e \in net : e.kind = "request"
      BY DEF OwnInv
    <2>2. From(d) # server
      BY <1>2, <2>1, DatagramFields, DatagramAssumption DEF From, NetTypeOK
    <2> QED  BY <1>3, <2>1, <2>2
  <1>6. last' # NoDatagram => Own(last'.client, last'.body)
    BY <1>2 DEF OwnInv
  <1> QED  BY <1>2, <1>3, <1>4, <1>5, <1>6, OwnKept

LEMMA OwnStutter ==
  ASSUME OwnInv, UNCHANGED vars
  PROVE  OwnInv'
  BY DEF OwnInv, Own, TypeOK, NetTypeOK, vars, netVars, echoVars

LEMMA OwnInvariant == Spec => []OwnInv
  <1>1. Init => OwnInv
    BY DatagramAssumption
       DEF Init, NetInit, OwnInv, TypeOK, NetTypeOK, NoDatagram
  <1>2. OwnInv /\ [Next]_vars => OwnInv'
    BY OwnTypeLine, OwnShowAnswer, OwnEnds, OwnServerProcess, OwnEcho,
       OwnEchoAfterError, OwnNet, OwnStutter
       DEF Next, ClientLoop, ServerLoop
  <1> QED  BY <1>1, <1>2, PTL DEF Spec

\* Every variable keeps its type, and a program that runs has its socket.
THEOREM EchoTypeCorrect == Spec => []TypeOK
  <1>1. OwnInv => TypeOK
    BY DEF OwnInv
  <1> QED  BY <1>1, OwnInvariant, PTL

\* A client prints nothing but lines of its own user, whatever is lost, repeated
\* or reordered and whoever closes a console.
THEOREM EchoesOwn == Spec => []OwnAnswers
  <1>1. OwnInv => OwnAnswers
    <2> SUFFICES ASSUME OwnInv, NEW c \in Clients, NEW k \in 1..Len(shown[c])
                 PROVE  /\ shown[c][k].line <= Len(typed[c])
                        /\ shown[c][k].quit = typed[c][shown[c][k].line]
      BY DEF OwnAnswers, OwnInv
    <2>1. Own(c, shown[c][k]) /\ Len(typed[c]) \in Nat
      BY DEF OwnInv, TypeOK
    <2> QED  BY <2>1 DEF Own
  <1> QED  BY <1>1, OwnInvariant, PTL

-----------------------------------------------------------------------------
(* What holds if nothing is duplicated and nobody closes a console. *)

\* Where client c is, by what its user has typed and what it has printed.
Steady(c) ==
  /\ cstatus[c] # "killed"
  /\ Len(typed[c]) = Len(shown[c])
                       + (IF cstatus[c] \in {"waiting", "died"} THEN 1 ELSE 0)
  /\ \A k \in 1..Len(shown[c]) :
       /\ shown[c][k].line = k
       /\ cstatus[c] # "exited" => ~shown[c][k].quit

\* A client that waits has at most one datagram of its own on its way, for the
\* line it typed last, and none once that has bounced; no other client has any.
StepInv ==
  /\ OwnInv
  /\ \A c \in Clients : Steady(c)
  /\ \A d \in net : /\ cstatus[d.client] = "waiting"
                    /\ d.body.line = Len(typed[d.client])
                    /\ d.client \notin unreachable
  /\ \A d, e \in net : d.client = e.client => d = e
  /\ unreachable \subseteq {c \in Clients : cstatus[c] = "waiting"}

LEMMA StepFacts ==
  ASSUME StepInv
  PROVE  /\ OwnInv /\ TypeOK /\ NetTypeOK /\ server \notin unreachable
         /\ \A c \in Clients : /\ typed[c] \in Seq(BOOLEAN)
                               /\ shown[c] \in Seq(Body)
                               /\ Len(typed[c]) \in Nat
                               /\ Len(shown[c]) \in Nat
         /\ \A d \in net : d.client \in Clients /\ d.body \in Body
  <1>1. OwnInv /\ TypeOK /\ NetTypeOK
    BY DEF StepInv, OwnInv, TypeOK
  <1>2. server \notin unreachable
    BY DatagramAssumption DEF StepInv
  <1>3. \A d \in net : d.client \in Clients /\ d.body \in Body
    BY <1>1, DatagramFields DEF NetTypeOK
  <1>4. \A c \in Clients : typed[c] \in Seq(BOOLEAN) /\ shown[c] \in Seq(Body)
    BY <1>1 DEF TypeOK
  <1>5. ASSUME NEW c \in Clients
        PROVE  Len(typed[c]) \in Nat /\ Len(shown[c]) \in Nat
    <2>1. typed[c] \in Seq(BOOLEAN) /\ shown[c] \in Seq(Body)
      BY <1>4
    <2> QED  BY <2>1
  <1> QED  BY <1>1, <1>2, <1>3, <1>4, <1>5

LEMMA SteadyKept ==
  ASSUME NEW c \in Clients, Steady(c), cstatus'[c] = cstatus[c],
         typed'[c] = typed[c], shown'[c] = shown[c]
  PROVE  Steady(c)'
  <1>1. cstatus'[c] # "killed"
    BY DEF Steady
  <1>2. Len(typed'[c])
          = Len(shown'[c])
              + (IF cstatus'[c] \in {"waiting", "died"} THEN 1 ELSE 0)
    BY DEF Steady
  <1>3. \A k \in 1..Len(shown'[c]) :
          /\ shown'[c][k].line = k
          /\ cstatus'[c] # "exited" => ~shown'[c][k].quit
    BY DEF Steady
  <1> QED  BY <1>1, <1>2, <1>3 DEF Steady

LEMMA StepTypeLine ==
  ASSUME StepInv, NEW c \in Clients, TypeLine(c)
  PROVE  StepInv'
  <1>1. OwnInv'
    BY OwnTypeLine DEF StepInv
  <1>2. PICK quit \in BOOLEAN :
          /\ typed' = [typed EXCEPT ![c] = Append(@, quit)]
          /\ \A d \in net' :
               d \in net
               \/ d = Request(c, [line |-> Len(typed[c]) + 1, quit |-> quit])
    BY DEF TypeLine
  <1>3. /\ cstatus[c] = "prompt"
        /\ cstatus' = [cstatus EXCEPT ![c] = "waiting"]
        /\ UNCHANGED <<unreachable, shown>>
    BY DEF TypeLine
  <1>4. /\ typed \in [Clients -> Seq(BOOLEAN)]
        /\ typed'[c] = Append(typed[c], quit)
        /\ typed[c] \in Seq(BOOLEAN) /\ Len(typed[c]) \in Nat
        /\ cstatus \in [Clients ->
                         {"prompt", "waiting", "exited", "died", "killed"}]
    BY <1>2, StepFacts DEF TypeOK
  <1>5. Len(typed'[c]) = Len(typed[c]) + 1
    BY <1>4, AppendProperties
  <1>6. /\ cstatus'[c] = "waiting"
        /\ \A x \in Clients : x # c => /\ cstatus'[x] = cstatus[x]
                                       /\ typed'[x] = typed[x]
    BY <1>2, <1>3, <1>4
  <1>7. (\A x \in Clients : Steady(x))'
    <2> SUFFICES ASSUME NEW x \in Clients  PROVE Steady(x)'
      OBVIOUS
    <2>1. CASE x # c
      BY <1>3, <1>6, <2>1, SteadyKept DEF StepInv
    <2>2. CASE x = c
      <3>1. /\ Len(typed[c]) = Len(shown[c]) /\ Len(shown[c]) \in Nat
            /\ \A k \in 1..Len(shown[c]) :
                 shown[c][k].line = k /\ ~shown[c][k].quit
        <4>1. Len(shown[c]) \in Nat /\ Len(typed[c]) = Len(shown[c]) + 0
          BY <1>3, StepFacts DEF StepInv, Steady
        <4>2. \A k \in 1..Len(shown[c]) :
                shown[c][k].line = k /\ ~shown[c][k].quit
          BY <1>3 DEF StepInv, Steady
        <4> QED  BY <4>1, <4>2
      <3> QED  BY <1>3, <1>5, <1>6, <2>2, <3>1 DEF Steady
    <2> QED  BY <2>1, <2>2
  <1>8. \A d \in net : d.client \in Clients /\ d.client # c
    BY <1>3, StepFacts DEF StepInv
  <1>9. PICK r : /\ r.client = c /\ r.body.line = Len(typed'[c])
                 /\ \A d \in net' : d \in net \/ d = r
    <2> DEFINE r == Request(c, [line |-> Len(typed[c]) + 1, quit |-> quit])
    <2>1. r.client = c /\ r.body.line = Len(typed[c]) + 1
      BY DEF Request
    <2>2. \A d \in net' : d \in net \/ d = r
      BY <1>2
    <2> HIDE DEF r
    <2> QED  BY <1>5, <2>1, <2>2
  <1>10. c \notin unreachable
    BY <1>3 DEF StepInv
  <1>11. (\A d \in net : /\ cstatus[d.client] = "waiting"
                         /\ d.body.line = Len(typed[d.client])
                         /\ d.client \notin unreachable)'
    BY <1>3, <1>6, <1>8, <1>9, <1>10 DEF StepInv
  <1>12. (\A d, e \in net : d.client = e.client => d = e)'
    BY <1>8, <1>9 DEF StepInv
  <1>13. (unreachable \subseteq {x \in Clients : cstatus[x] = "waiting"})'
    BY <1>3, <1>6 DEF StepInv
  <1> QED  BY <1>1, <1>7, <1>11, <1>12, <1>13 DEF StepInv

\* The answer that a waiting client takes is the line that it typed last.
LEMMA TakenAnswer ==
  ASSUME ~Duplicating, StepInv, NEW c \in Clients, ShowAnswer(c)
  PROVE  /\ cstatus[c] = "waiting" /\ UNCHANGED typed
         /\ Len(typed[c]) = Len(shown[c]) + 1
         /\ \E d \in net :
              /\ d.client = c /\ d.body \in Body /\ Own(c, d.body)
              /\ d.body.line = Len(shown[c]) + 1
              /\ net' = net \ {d}
              /\ shown' = [shown EXCEPT ![c] = Append(@, d.body)]
              /\ \/ d.body.quit /\ End(c, "exited")
                 \/ /\ ~d.body.quit
                    /\ cstatus' = [cstatus EXCEPT ![c] = "prompt"]
                    /\ UNCHANGED <<bound, unreachable>>
  <1>1. cstatus[c] = "waiting" /\ UNCHANGED typed
    BY DEF ShowAnswer
  <1>2. Len(typed[c]) = Len(shown[c]) + 1
    BY <1>1 DEF StepInv, Steady
  <1>3. PICK d \in net :
          /\ To(d) = c
          /\ net' \in Taken(d)
          /\ shown' = [shown EXCEPT ![c] = Append(@, d.body)]
          /\ \/ d.body.quit /\ End(c, "exited")
             \/ /\ ~d.body.quit
                /\ cstatus' = [cstatus EXCEPT ![c] = "prompt"]
                /\ UNCHANGED <<bound, unreachable>>
    BY DEF ShowAnswer
  <1>4. net' = net \ {d}
    BY <1>3 DEF Taken
  <1>5. d.client = c /\ d.body \in Body
    BY <1>3, StepFacts, DatagramAssumption DEF To
  <1>6. Own(c, d.body)
    BY <1>5, StepFacts DEF OwnInv
  <1>7. d.body.line = Len(shown[c]) + 1
    BY <1>2, <1>5 DEF StepInv
  <1> QED  BY <1>1, <1>2, <1>3, <1>4, <1>5, <1>6, <1>7

LEMMA StepShowAnswer ==
  ASSUME ~Duplicating, StepInv, NEW c \in Clients, ShowAnswer(c)
  PROVE  StepInv'
  <1>1. OwnInv'
    BY OwnShowAnswer DEF StepInv
  <1>2. /\ cstatus[c] = "waiting" /\ UNCHANGED typed
        /\ Len(typed[c]) = Len(shown[c]) + 1
    BY TakenAnswer
  <1>3. PICK d \in net :
          /\ d.client = c /\ d.body \in Body
          /\ d.body.line = Len(shown[c]) + 1
          /\ net' = net \ {d}
          /\ shown' = [shown EXCEPT ![c] = Append(@, d.body)]
          /\ \/ d.body.quit /\ End(c, "exited")
             \/ /\ ~d.body.quit
                /\ cstatus' = [cstatus EXCEPT ![c] = "prompt"]
                /\ UNCHANGED <<bound, unreachable>>
    BY TakenAnswer
  <1>4. /\ shown[c] \in Seq(Body) /\ Len(shown[c]) \in Nat
        /\ shown \in [Clients -> Seq(Body)]
        /\ cstatus \in [Clients ->
                         {"prompt", "waiting", "exited", "died", "killed"}]
    BY StepFacts DEF TypeOK
  <1>5. /\ shown'[c] = Append(shown[c], d.body)
        /\ Len(shown'[c]) = Len(shown[c]) + 1
        /\ \A k \in 1..Len(shown[c]) : shown'[c][k] = shown[c][k]
        /\ shown'[c][Len(shown[c]) + 1] = d.body
    BY <1>3, <1>4, AppendProperties
  <1>6. /\ unreachable' \subseteq unreachable
        /\ \A x \in Clients : x # c => /\ cstatus'[x] = cstatus[x]
                                       /\ shown'[x] = shown[x]
        /\ cstatus'[c] = IF d.body.quit THEN "exited" ELSE "prompt"
    BY <1>3, <1>4 DEF End, Unbind
  <1>7. c \notin unreachable
    BY <1>3 DEF StepInv
  <1>8. (\A x \in Clients : Steady(x))'
    <2> SUFFICES ASSUME NEW x \in Clients  PROVE Steady(x)'
      OBVIOUS
    <2>1. CASE x # c
      BY <1>2, <1>6, <2>1, SteadyKept DEF StepInv
    <2>2. CASE x = c
      <3>1. \A k \in 1..Len(shown[c]) : shown[c][k].line = k /\ ~shown[c][k].quit
        BY <1>2 DEF StepInv, Steady
      <3>2. \A k \in 1..Len(shown'[c]) :
              k \in 1..Len(shown[c]) \/ k = Len(shown[c]) + 1
        BY <1>4, <1>5
      <3>3. \A k \in 1..Len(shown'[c]) : shown'[c][k].line = k
        BY <1>3, <1>5, <3>1, <3>2
      <3>4. cstatus'[c] # "exited"
              => \A k \in 1..Len(shown'[c]) : ~shown'[c][k].quit
        BY <1>5, <1>6, <3>1, <3>2
      <3>5. Len(typed'[c]) = Len(shown'[c])
        BY <1>2, <1>5
      <3>6. cstatus'[c] \notin {"waiting", "died", "killed"}
        BY <1>6
      <3>7. Len(shown'[c]) \in Nat
        BY <1>4, <1>5
      <3>8. Len(typed'[c])
              = Len(shown'[c])
                  + (IF cstatus'[c] \in {"waiting", "died"} THEN 1 ELSE 0)
        <4>1. (IF cstatus'[c] \in {"waiting", "died"} THEN 1 ELSE 0) = 0
          BY <3>6
        <4>2. Len(typed'[c]) = Len(shown'[c]) + 0
          BY <3>5, <3>7
        <4> QED  BY <4>1, <4>2
      <3> QED  BY <2>2, <3>3, <3>4, <3>6, <3>8 DEF Steady
    <2> QED  BY <2>1, <2>2
  <1>9. \A e \in net' : e \in net /\ e.client \in Clients /\ e.client # c
    BY <1>3, StepFacts DEF StepInv
  <1>10. (\A e \in net : /\ cstatus[e.client] = "waiting"
                         /\ e.body.line = Len(typed[e.client])
                         /\ e.client \notin unreachable)'
    BY <1>2, <1>6, <1>9 DEF StepInv
  <1>11. (\A e, f \in net : e.client = f.client => e = f)'
    BY <1>9 DEF StepInv
  <1>12. (unreachable \subseteq {x \in Clients : cstatus[x] = "waiting"})'
    BY <1>6, <1>7 DEF StepInv
  <1> QED  BY <1>1, <1>8, <1>10, <1>11, <1>12 DEF StepInv

LEMMA StepClientDies ==
  ASSUME StepInv, NEW c \in Clients, ClientDies(c)
  PROVE  StepInv'
  <1>1. OwnInv'
    BY OwnEnds DEF StepInv
  <1>2. /\ cstatus[c] = "waiting" /\ c \in unreachable
        /\ unreachable' = unreachable \ {c}
        /\ UNCHANGED <<net, typed, shown>>
        /\ cstatus' = [cstatus EXCEPT ![c] = "died"]
    BY DEF ClientDies, End, Unbind
  <1>3. cstatus \in [Clients -> {"prompt", "waiting", "exited", "died", "killed"}]
    BY StepFacts DEF TypeOK
  <1>4. \A x \in Clients : cstatus'[x] = IF x = c THEN "died" ELSE cstatus[x]
    BY <1>2, <1>3
  <1>5. (\A x \in Clients : Steady(x))'
    <2> SUFFICES ASSUME NEW x \in Clients  PROVE Steady(x)'
      OBVIOUS
    <2>1. CASE x # c
      BY <1>2, <1>4, <2>1, SteadyKept DEF StepInv
    <2>2. CASE x = c
      <3>1. /\ Len(typed[c]) = Len(shown[c]) + 1
            /\ \A k \in 1..Len(shown[c]) :
                 shown[c][k].line = k /\ ~shown[c][k].quit
        BY <1>2 DEF StepInv, Steady
      <3>2. cstatus'[c] = "died"
        BY <1>4
      <3>3. Len(typed'[c])
              = Len(shown'[c])
                  + (IF cstatus'[c] \in {"waiting", "died"} THEN 1 ELSE 0)
        BY <1>2, <3>1, <3>2
      <3>4. \A k \in 1..Len(shown'[c]) :
              shown'[c][k].line = k /\ ~shown'[c][k].quit
        BY <1>2, <3>1
      <3> QED  BY <2>2, <3>2, <3>3, <3>4 DEF Steady
    <2> QED  BY <2>1, <2>2
  <1>6. \A d \in net : d.client \in Clients /\ d.client # c
    BY <1>2, StepFacts DEF StepInv
  <1>7. (\A d \in net : /\ cstatus[d.client] = "waiting"
                        /\ d.body.line = Len(typed[d.client])
                        /\ d.client \notin unreachable)'
    BY <1>2, <1>4, <1>6 DEF StepInv
  <1> QED  BY <1>1, <1>2, <1>4, <1>5, <1>7 DEF StepInv

LEMMA StepEcho ==
  ASSUME ~Duplicating, StepInv, Echo
  PROVE  StepInv'
  <1>1. OwnInv'
    BY OwnEcho DEF StepInv
  <1>2. PICK d \in net :
          /\ \E rest \in Taken(d) : net' = rest \cup {Answer(d)}
          /\ UNCHANGED <<unreachable, typed, shown, cstatus>>
    BY DEF Echo
  <1>3. PICK r : /\ r.client = d.client /\ r.body = d.body
                 /\ net' = (net \ {d}) \cup {r}
    BY <1>2 DEF Taken, Answer, Reply
  <1>4. (\A x \in Clients : Steady(x))'
    BY <1>2 DEF StepInv, Steady
  <1>5. (\A e \in net : /\ cstatus[e.client] = "waiting"
                        /\ e.body.line = Len(typed[e.client])
                        /\ e.client \notin unreachable)'
    BY <1>2, <1>3 DEF StepInv
  <1>6. (\A e, f \in net : e.client = f.client => e = f)'
    BY <1>3 DEF StepInv
  <1> QED  BY <1>1, <1>2, <1>4, <1>5, <1>6 DEF StepInv

LEMMA StepNet ==
  ASSUME StepInv, NetStep, UNCHANGED echoVars
  PROVE  StepInv'
  <1>1. OwnInv'
    BY OwnNet DEF StepInv
  <1>2. PICK d \in net : Lose(d) \/ Bounce(d)
    BY DEF NetStep
  <1>3. net' = net \ {d} /\ UNCHANGED <<typed, shown, cstatus>>
    BY <1>2 DEF Lose, Bounce, echoVars
  <1>4. unreachable' \subseteq unreachable \cup {d.client}
    <2>1. CASE Lose(d)
      BY <2>1 DEF Lose
    <2>2. CASE Bounce(d)
      <3>1. d.client \in bound /\ cstatus[d.client] = "waiting"
        BY StepFacts DEF StepInv, TypeOK
      <3>2. d.kind = "request"
        BY <2>2, <3>1, StepFacts, DatagramFields DEF Bounce, To, NetTypeOK
      <3> QED  BY <2>2, <3>2 DEF Bounce, From
    <2> QED  BY <1>2, <2>1, <2>2
  <1>5. (\A x \in Clients : Steady(x))'
    BY <1>3 DEF StepInv, Steady
  <1>6. (\A e \in net : /\ cstatus[e.client] = "waiting"
                        /\ e.body.line = Len(typed[e.client])
                        /\ e.client \notin unreachable)'
    BY <1>3, <1>4 DEF StepInv
  <1>7. (\A e, f \in net : e.client = f.client => e = f)'
    BY <1>3 DEF StepInv
  <1>8. (unreachable \subseteq {x \in Clients : cstatus[x] = "waiting"})'
    BY <1>3, <1>4, StepFacts DEF StepInv
  <1> QED  BY <1>1, <1>5, <1>6, <1>7, <1>8 DEF StepInv

LEMMA StepOther ==
  ASSUME StepInv, StartServer \/ UNCHANGED vars
  PROVE  StepInv'
  <1>1. OwnInv'
    BY OwnServerProcess, OwnStutter DEF StepInv
  <1>2. UNCHANGED <<net, unreachable, typed, shown, cstatus>>
    BY DEF StartServer, vars, netVars, echoVars
  <1> QED  BY <1>1, <1>2 DEF StepInv, Steady

LEMMA StepInvariant ==
  ASSUME ~Duplicating, ~Kills
  PROVE  Spec => []StepInv
  <1>1. Init => StepInv
    <2> SUFFICES ASSUME Init  PROVE StepInv
      OBVIOUS
    <2>1. OwnInv
      BY DatagramAssumption
         DEF Init, NetInit, OwnInv, TypeOK, NetTypeOK, NoDatagram
    <2> QED  BY <2>1 DEF Init, NetInit, StepInv, Steady
  <1>2. StepInv /\ [Next]_vars => StepInv'
    <2> SUFFICES ASSUME StepInv, [Next]_vars  PROVE StepInv'
      OBVIOUS
    <2>1. ~EchoAfterError
      BY StepFacts DEF EchoAfterError
    <2> QED
      BY <2>1, StepTypeLine, StepShowAnswer, StepClientDies, StepEcho, StepNet,
         StepOther
         DEF Next, ClientLoop, ServerLoop, KillClient, KillServer
  <1> QED  BY <1>1, <1>2, PTL DEF Spec

\* In a network that duplicates nothing, while nobody closes a console: the k-th
\* answer that a client prints is the answer to its user's k-th line.
THEOREM AnswersInStep ==
  ASSUME ~Duplicating, ~Kills
  PROVE  Spec => []InStep
  <1>1. StepInv => InStep
    BY DEF StepInv, Steady, InStep
  <1> QED  BY <1>1, StepInvariant, PTL

\* Under the same assumptions no echo is sent to a client that does not wait for
\* it, and recvfrom() never fails in the server.
THEOREM AllAwaited ==
  ASSUME ~Duplicating, ~Kills
  PROVE  Spec => []EchoesAwaited
  <1>1. StepInv => EchoesAwaited
    BY StepFacts DEF StepInv, EchoesAwaited
  <1> QED  BY <1>1, StepInvariant, PTL

\* Under the same assumptions, clients, server and network implement the echo
\* service.
THEOREM EchoImplements ==
  ASSUME ~Duplicating, ~Kills
  PROVE  Spec => ImplementsEcho
  <1>1. Init => Service!Init
    BY DEF Init, Service!Init
  <1>2. StepInv /\ [Next]_vars => [Service!Next]_Service!vars
    <2> SUFFICES ASSUME StepInv, [Next]_vars
                 PROVE  [Service!Next]_Service!vars
      OBVIOUS
    <2>1. ASSUME NEW c \in Clients, TypeLine(c)
          PROVE  Service!Ask(c)
      <3>1. /\ cstatus[c] = "prompt" /\ UNCHANGED shown
            /\ \E quit \in BOOLEAN :
                 typed' = [typed EXCEPT ![c] = Append(@, quit)]
        BY <2>1 DEF TypeLine
      <3>2. /\ Len(shown[c]) = Len(typed[c])
            /\ \A k \in 1..Len(shown[c]) : ~shown[c][k].quit
        <4>1. Len(shown[c]) \in Nat /\ Len(typed[c]) = Len(shown[c]) + 0
          BY <3>1, StepFacts DEF StepInv, Steady
        <4>2. \A k \in 1..Len(shown[c]) : ~shown[c][k].quit
          BY <3>1 DEF StepInv, Steady
        <4> QED  BY <4>1, <4>2
      <3> QED  BY <3>1, <3>2 DEF Service!Ask, Service!Done
    <2>2. ASSUME NEW c \in Clients, ShowAnswer(c)
          PROVE  Service!Answer(c)
      <3>1. PICK b \in Body :
              /\ Own(c, b) /\ b.line = Len(shown[c]) + 1
              /\ shown' = [shown EXCEPT ![c] = Append(@, b)]
        BY <2>2, TakenAnswer
      <3>2. b = Service!Line(Len(shown[c]) + 1, typed[c][Len(shown[c]) + 1])
        BY <3>1, EchoAssumption DEF Service!Line, Own
      <3>3. UNCHANGED typed /\ Len(shown[c]) < Len(typed[c])
        BY <2>2, TakenAnswer, StepFacts
      <3> QED  BY <3>1, <3>2, <3>3 DEF Service!Answer
    <2>3. CASE UNCHANGED <<typed, shown>>
      BY <2>3 DEF Service!vars
    <2> QED
      BY <2>1, <2>2, <2>3
         DEF Next, ClientLoop, ClientDies, KillClient, StartServer, ServerLoop,
             Echo, EchoAfterError, KillServer, echoVars, vars, Service!Next
  <1> QED  BY <1>1, <1>2, StepInvariant, PTL
           DEF Spec, ImplementsEcho, Service!Spec
=============================================================================
