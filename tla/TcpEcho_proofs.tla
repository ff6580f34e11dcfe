---------------------------- MODULE TcpEcho_proofs ----------------------------
(***************************************************************************)
(* Proofs about TcpEcho, for any number of clients and lines, any sizes of *)
(* messages, and however TCP cuts the stream.                              *)
(***************************************************************************)
EXTENDS TcpEcho, SequenceTheorems, TLAPS

-----------------------------------------------------------------------------
(* What the operators on streams return. *)

LEMMA CutProperties ==
  ASSUME NEW c \in Clients, NEW s \in Seq(Nat), NEW room \in Nat,
         NEW k \in RecvCount(c, s, room)
  PROVE  /\ k \in Nat /\ k >= 1 /\ k <= room /\ k <= Len(s)
         /\ Front(s, k) \in Seq(Nat) /\ Len(Front(s, k)) = k
         /\ Rest(s, k) \in Seq(Nat) /\ Len(Rest(s, k)) = Len(s) - k
  <1>1. k \in 1..Len(s) /\ k <= room /\ Len(s) \in Nat
    BY LenProperties DEF RecvCount
  <1>2. ASSUME NEW m \in 1..(Len(s) + 1), NEW n \in 0..Len(s)
        PROVE  /\ SubSeq(s, m, n) \in Seq(Nat)
               /\ Len(SubSeq(s, m, n)) = IF m <= n THEN n - m + 1 ELSE 0
    <2>1. \A i \in m..n : i \in 1..Len(s)
      BY <1>1
    <2>2. \A i \in m..n : s[i] \in Nat
      BY <2>1, ElementOfSeq
    <2> QED  BY <1>1, <2>2, SubSeqProperties
  <1>3. Front(s, k) \in Seq(Nat) /\ Len(Front(s, k)) = k
    BY <1>1, <1>2 DEF Front
  <1>4. Rest(s, k) \in Seq(Nat) /\ Len(Rest(s, k)) = Len(s) - k
    BY <1>1, <1>2 DEF Rest
  <1>5. k \in Nat /\ k >= 1 /\ k <= room /\ k <= Len(s)
    BY <1>1
  <1> QED  BY <1>3, <1>4, <1>5

\* What recv() returns and what it leaves are the stream that was there.
LEMMA CutJoins ==
  \A s \in Seq(Nat) : \A k \in 1..Len(s) : Front(s, k) \o Rest(s, k) = s
  <1> SUFFICES ASSUME NEW s \in Seq(Nat), NEW k \in 1..Len(s)
      PROVE  Front(s, k) \o Rest(s, k) = s
    OBVIOUS
  <1>1. Len(s) \in Nat
    BY LenProperties
  <1>2. SubSeq(s, 1, k) \o SubSeq(s, k + 1, Len(s)) = SubSeq(s, 1, Len(s))
    BY <1>1, ConcatAdjacentSubSeq
  <1>3. SubSeq(s, 1, Len(s)) = s
    BY SubSeqFull
  <1> QED  BY <1>2, <1>3 DEF Front, Rest

\* Concatenation is associative.
LEMMA Assoc ==
  \A s, t, u \in Seq(Nat) : (s \o t) \o u = s \o (t \o u)
  <1> SUFFICES ASSUME NEW s \in Seq(Nat), NEW t \in Seq(Nat), NEW u \in Seq(Nat)
      PROVE  (s \o t) \o u = s \o (t \o u)
    OBVIOUS
  <1> QED  BY ConcatAssociative, SMTT(30)

LEMMA MessageProperties ==
  ASSUME NEW n \in Nat
  PROVE  /\ Message(n + 1) \in Seq(Nat) /\ Len(Message(n + 1)) = MsgSize
         /\ \A j \in 1..MsgSize : Message(n + 1)[j] = n * MsgSize + j
  <1>1. MsgSize \in Nat /\ n * MsgSize \in Nat /\ (n + 1) - 1 = n
    BY EchoAssumption
  <1>2. Message(n + 1) = [j \in 1..MsgSize |-> n * MsgSize + j]
    BY <1>1 DEF Message
  <1>3. \A j \in 1..MsgSize : n * MsgSize + j \in Nat
    BY <1>1
  <1>4. Message(n + 1) \in [1..MsgSize -> Nat]
    BY <1>2, <1>3
  <1>5. Message(n + 1) \in Seq(Nat)
    BY <1>1, <1>4, SeqDef
  <1> QED  BY <1>1, <1>2, <1>5, LenProperties

LEMMA StreamProperties ==
  ASSUME NEW n \in Nat
  PROVE  /\ Stream(n) \in Seq(Nat)
         /\ Len(Stream(n)) = MsgSize * (n + 1)
         /\ MsgSize * (n + 1) \in Nat
         /\ \A j \in 1..(MsgSize * (n + 1)) :
              Stream(n)[j] = IF j <= MsgSize THEN 0 ELSE j - MsgSize
  <1> DEFINE len == MsgSize * (n + 1)
  <1>1. MsgSize \in Nat /\ len \in Nat
    BY EchoAssumption
  <1>2. \A j \in 1..len : (IF j <= MsgSize THEN 0 ELSE j - MsgSize) \in Nat
    BY <1>1
  <1>3. Stream(n) = [j \in 1..len |-> IF j <= MsgSize THEN 0 ELSE j - MsgSize]
    BY DEF Stream
  <1> HIDE DEF len
  <1>4. Stream(n) \in [1..len -> Nat]
    BY <1>2, <1>3
  <1>5. Stream(n) \in Seq(Nat)
    BY <1>1, <1>4, SeqDef
  <1>6. Len(Stream(n)) = len
    BY <1>1, <1>3, <1>5, LenProperties
  <1> QED  BY <1>1, <1>3, <1>5, <1>6 DEF len

\* One more message makes the stream one message longer.
LEMMA StreamGrows ==
  ASSUME NEW n \in Nat
  PROVE  Stream(n) \o Message(n + 1) = Stream(n + 1)
  <1> DEFINE len == MsgSize * (n + 1)
             long == MsgSize * ((n + 1) + 1)
             both == Stream(n) \o Message(n + 1)
  <1>1. /\ MsgSize \in Nat /\ MsgSize >= 1 /\ len \in Nat /\ long = len + MsgSize
        /\ n * MsgSize = len - MsgSize /\ len >= MsgSize /\ n + 1 \in Nat
    <2>1. MsgSize \in Nat /\ MsgSize >= 1
      BY EchoAssumption
    <2>2. n * MsgSize \in Nat /\ len = n * MsgSize + MsgSize
      BY <2>1
    <2> QED  BY <2>1, <2>2
  <1>2. /\ both \in Seq(Nat) /\ Len(both) = len + MsgSize
        /\ \A i \in 1..(len + MsgSize) :
             both[i] = IF i <= len THEN Stream(n)[i] ELSE Message(n + 1)[i - len]
    <2>1. Stream(n) \in Seq(Nat) /\ Len(Stream(n)) = len
      BY StreamProperties
    <2>2. Message(n + 1) \in Seq(Nat) /\ Len(Message(n + 1)) = MsgSize
      BY MessageProperties
    <2> HIDE DEF len
    <2> QED  BY <2>1, <2>2, ConcatProperties
  <1>3. /\ Stream(n + 1) \in Seq(Nat) /\ Len(Stream(n + 1)) = long
        /\ \A i \in 1..long :
             Stream(n + 1)[i] = IF i <= MsgSize THEN 0 ELSE i - MsgSize
    BY <1>1, StreamProperties
  <1>4. \A j \in 1..len : Stream(n)[j] = IF j <= MsgSize THEN 0 ELSE j - MsgSize
    BY StreamProperties
  <1>5. \A j \in 1..MsgSize : Message(n + 1)[j] = len - MsgSize + j
    BY <1>1, MessageProperties
  <1> HIDE DEF len, long, both
  <1>6. ASSUME NEW i \in 1..(len + MsgSize)  PROVE both[i] = Stream(n + 1)[i]
    <2>1. CASE i <= len
      <3>1. i \in 1..len /\ i \in 1..long
        BY <1>1, <2>1
      <3>2. both[i] = Stream(n)[i]
        BY <1>2, <2>1
      <3> QED  BY <1>3, <1>4, <3>1, <3>2
    <2>2. CASE i > len
      <3>1. i - len \in 1..MsgSize /\ len - MsgSize + (i - len) = i - MsgSize
            /\ i > MsgSize
        BY <1>1, <2>2
      <3>2. both[i] = i - MsgSize
        <4>1. both[i] = Message(n + 1)[i - len]
          BY <1>1, <1>2, <2>2
        <4>2. Message(n + 1)[i - len] = len - MsgSize + (i - len)
          BY <1>5, <3>1
        <4> QED  BY <3>1, <4>1, <4>2
      <3>3. Stream(n + 1)[i] = i - MsgSize
        BY <1>1, <1>3, <3>1
      <3> QED  BY <3>2, <3>3
    <2>3. i <= len \/ i > len
      BY <1>1
    <2> QED  BY <2>1, <2>2, <2>3
  <1>7. both = Stream(n + 1)
    BY <1>1, <1>2, <1>3, <1>6, SeqEqual
  <1> QED  BY <1>7 DEF both

LEMMA HelloProperties ==
  Hello = Stream(0) /\ Hello \in Seq(Nat) /\ Len(Hello) = MsgSize
  <1>1. MsgSize \in Nat /\ MsgSize * (0 + 1) = MsgSize
    BY EchoAssumption
  <1>2. Stream(0) = [j \in 1..MsgSize |-> IF j <= MsgSize THEN 0 ELSE j - MsgSize]
    BY <1>1 DEF Stream
  <1>3. Hello = Stream(0)
    BY <1>1, <1>2 DEF Hello
  <1> QED  BY <1>1, <1>3, StreamProperties

-----------------------------------------------------------------------------
(* The inductive invariant. *)

Alive == {"greeting", "prompt", "waiting"}

Quits(c) == \E n \in 1..Len(typed[c]) : typed[c][n]

\* How the two ends of c's connection and its program's state go together.
Linked(c) ==
  /\ cli[c] = "none" <=> cstatus[c] = "start"
  /\ cli[c] = "open" <=> cstatus[c] \in Alive
  /\ srv[c] # "none" => cli[c] # "none"
  /\ cstatus[c] \in {"prompt", "waiting"} => srv[c] # "none"

\* What c has received and will receive, and what is left of the stream that it
\* should get; a client that waits has not got all of it.
Flows(c) ==
  /\ srv[c] = "none" => /\ heard[c] = <<>> /\ down[c] = <<>>
                        /\ up[c] = <<>> /\ typed[c] = <<>>
  /\ srv[c] # "none" => \E rest \in Seq(Nat) :
                          /\ Echoed(c) \o rest = Given(c)
                          /\ srv[c] = "open" => rest = up[c]
  /\ cstatus[c] = "greeting" => heard[c] = <<>>
  /\ cstatus[c] = "waiting" => Len(heard[c]) <= MsgSize * Len(typed[c])

\* Why the server has closed c's connection, and why c has left its loop.
Reasons(c) ==
  /\ srv[c] = "closed" => c \in reset \/ cli[c] = "closed" \/ Quits(c)
  /\ cstatus[c] = "exited" => c \in reset \/ Quits(c)

\* The queue holds connections that have not been accepted, each once.
QueueOK ==
  /\ \A i \in 1..Len(queue) : srv[queue[i]] = "none" /\ cli[queue[i]] # "none"
  /\ \A i, j \in 1..Len(queue) : queue[i] = queue[j] => i = j

Good(c) == Linked(c) /\ Flows(c) /\ Reasons(c)

EchoInv == TypeOK /\ QueueOK /\ \A c \in Clients : Good(c)

LEMMA Types ==
  ASSUME TypeOK
  PROVE  /\ NetTypeOK
         /\ queue \in Seq(Clients) /\ Len(queue) \in Nat
         /\ \A c \in Clients :
              /\ typed[c] \in Seq(BOOLEAN) /\ Len(typed[c]) \in Nat
              /\ heard[c] \in Seq(Nat) /\ Len(heard[c]) \in Nat
              /\ shown[c] \in Seq(Seq(Nat))
              /\ up[c] \in Seq(Nat) /\ Len(up[c]) \in Nat
              /\ down[c] \in Seq(Nat) /\ Len(down[c]) \in Nat
  <1>1. NetTypeOK
    BY DEF TypeOK
  <1>2. ASSUME NEW c \in Clients
        PROVE  /\ typed[c] \in Seq(BOOLEAN) /\ heard[c] \in Seq(Nat)
               /\ shown[c] \in Seq(Seq(Nat))
               /\ up[c] \in Seq(Nat) /\ down[c] \in Seq(Nat)
    BY <1>1, <1>2 DEF TypeOK, NetTypeOK
  <1>3. queue \in Seq(Clients)
    BY <1>1 DEF NetTypeOK
  <1> QED  BY <1>1, <1>2, <1>3, LenProperties

\* A client of which a step changes nothing, except that its connection may be
\* reset, stays good.
LEMMA GoodKept ==
  ASSUME NEW c \in Clients, Good(c), reset \subseteq reset',
         typed'[c] = typed[c], heard'[c] = heard[c], cstatus'[c] = cstatus[c],
         cli'[c] = cli[c], srv'[c] = srv[c], up'[c] = up[c], down'[c] = down[c]
  PROVE  Good(c)'
  <1>1. Linked(c)'
    BY DEF Good, Linked
  <1>2. Flows(c)'
    BY DEF Good, Flows, Echoed, Given
  <1>3. Reasons(c)'
    BY DEF Good, Reasons, Quits
  <1> QED  BY <1>1, <1>2, <1>3 DEF Good

LEMMA EchoInvInit == Init => EchoInv
  <1> SUFFICES ASSUME Init  PROVE EchoInv
    OBVIOUS
  <1>1. TypeOK
    <2>1. NetTypeOK
      <3>1. <<>> \in Seq(Nat) /\ <<>> \in Seq(Clients)
        BY EmptySeq
      <3> QED  BY <3>1 DEF Init, NetInit, NetTypeOK, Ends
    <2>2. serving = {c \in Clients : srv[c] = "open"}
      BY DEF Init, NetInit
    <2> QED  BY <2>1, <2>2 DEF Init, TypeOK
  <1>2. QueueOK
    BY DEF Init, NetInit, QueueOK
  <1>3. \A c \in Clients : Good(c)
    BY DEF Init, NetInit, Good, Linked, Flows, Reasons, Alive
  <1> QED  BY <1>1, <1>2, <1>3 DEF EchoInv

LEMMA EchoInvStart ==
  ASSUME EchoInv, NEW c \in Clients, StartClient(c)
  PROVE  EchoInv'
  <1>1. /\ TypeOK /\ QueueOK /\ Good(c) /\ cstatus[c] = "start"
        /\ cli[c] = "none" /\ srv[c] = "none"
        /\ UNCHANGED <<listening, srv, up, down, typed, heard, shown, sstatus,
                       serving>>
    BY DEF EchoInv, Good, Linked, StartClient, Connect, ClientEnds, ClientGone
  <1>2. /\ NetTypeOK /\ queue \in Seq(Clients) /\ Len(queue) \in Nat
    BY <1>1, Types
  <1>3. CASE Connect(c) /\ cstatus' = [cstatus EXCEPT ![c] = "greeting"]
    <2>1. /\ queue' = Append(queue, c) /\ reset' = reset
          /\ cli' = [cli EXCEPT ![c] = "open"]
      BY <1>3 DEF Connect
    <2>2. /\ queue' \in Seq(Clients) /\ Len(queue') = Len(queue) + 1
          /\ \A i \in 1..Len(queue) : queue'[i] = queue[i]
          /\ queue'[Len(queue) + 1] = c
      BY <1>2, <2>1, AppendProperties
    <2>3. TypeOK'
      BY <1>1, <1>2, <1>3, <2>1, <2>2 DEF TypeOK, NetTypeOK, Ends
    <2>4. \A i \in 1..Len(queue) : queue[i] # c /\ queue[i] \in Clients
      BY <1>1, <1>2, ElementOfSeq DEF QueueOK
    <2>5. QueueOK'
      <3>1. \A i \in 1..Len(queue') : i \in 1..Len(queue) \/ i = Len(queue) + 1
        BY <1>2, <2>2
      <3>2. ASSUME NEW i \in 1..Len(queue')
            PROVE  srv'[queue'[i]] = "none" /\ cli'[queue'[i]] # "none"
        BY <1>1, <1>2, <2>1, <2>2, <2>4, <3>1 DEF QueueOK, NetTypeOK
      <3>3. ASSUME NEW i \in 1..Len(queue'), NEW j \in 1..Len(queue'),
                   queue'[i] = queue'[j]
            PROVE  i = j
        BY <1>1, <2>2, <2>4, <3>1, <3>3 DEF QueueOK
      <3> QED  BY <3>2, <3>3 DEF QueueOK
    <2>6. Good(c)'
      BY <1>1, <1>2, <1>3, <2>1
         DEF Good, Linked, Flows, Reasons, Alive, TypeOK, NetTypeOK
    <2>7. ASSUME NEW d \in Clients, d # c  PROVE Good(d)'
      BY <1>1, <1>2, <1>3, <2>1, <2>7, GoodKept DEF EchoInv, TypeOK, NetTypeOK
    <2> QED  BY <2>3, <2>5, <2>6, <2>7 DEF EchoInv
  <1>4. CASE ClientEnds(c, "died")
    <2>1. /\ queue' = queue /\ cstatus' = [cstatus EXCEPT ![c] = "died"]
          /\ cli' = [cli EXCEPT ![c] = "closed"] /\ reset' = reset
      BY <1>1, <1>4 DEF ClientEnds, ClientGone
    <2>2. TypeOK'
      BY <1>1, <1>2, <2>1 DEF TypeOK, NetTypeOK, Ends
    <2>3. \A i \in 1..Len(queue) : queue[i] # c /\ queue[i] \in Clients
      BY <1>1, <1>2, ElementOfSeq DEF QueueOK
    <2>4. QueueOK'
      BY <1>1, <1>2, <2>1, <2>3 DEF QueueOK, NetTypeOK
    <2>5. Good(c)'
      BY <1>1, <1>2, <2>1
         DEF Good, Linked, Flows, Reasons, Alive, TypeOK, NetTypeOK
    <2>6. ASSUME NEW d \in Clients, d # c  PROVE Good(d)'
      BY <1>1, <1>2, <2>1, <2>6, GoodKept DEF EchoInv, TypeOK, NetTypeOK
    <2> QED  BY <2>2, <2>4, <2>5, <2>6 DEF EchoInv
  <1> QED  BY <1>3, <1>4 DEF StartClient

\* The process of client c ends without closing its socket.
LEMMA EchoInvEnds ==
  ASSUME EchoInv, NEW c \in Clients, NEW how \in {"died", "killed"},
         cli[c] = "open", ClientEnds(c, how),
         UNCHANGED <<typed, heard, shown, sstatus, serving>>
  PROVE  EchoInv'
  <1>1. /\ TypeOK /\ NetTypeOK /\ QueueOK /\ Good(c)
        /\ queue \in Seq(Clients) /\ Len(queue) \in Nat
        /\ UNCHANGED <<listening, queue, srv, up, down>>
        /\ cstatus' = [cstatus EXCEPT ![c] = how]
        /\ cli' = [cli EXCEPT ![c] = "closed"] /\ reset' = reset \cup {c}
    BY Types DEF EchoInv, ClientEnds, ClientGone
  <1>2. TypeOK'
    BY <1>1 DEF TypeOK, NetTypeOK, Ends
  <1>3. QueueOK'
    <2>1. \A i \in 1..Len(queue) : queue[i] \in Clients
      BY <1>1, ElementOfSeq
    <2> QED  BY <1>1, <2>1 DEF QueueOK, NetTypeOK
  <1>4. Good(c)'
    <2>1. cstatus'[c] = how /\ cli'[c] = "closed"
      BY <1>1 DEF TypeOK, NetTypeOK
    <2>2. Linked(c)'
      BY <1>1, <2>1 DEF Good, Linked, Alive
    <2>3. Flows(c)'
      BY <1>1, <2>1 DEF Good, Flows, Echoed, Given
    <2>4. Reasons(c)'
      BY <1>1, <2>1 DEF Good, Reasons, Quits
    <2> QED  BY <2>2, <2>3, <2>4 DEF Good
  <1>5. ASSUME NEW d \in Clients, d # c  PROVE Good(d)'
    BY <1>1, <1>5, GoodKept DEF EchoInv, TypeOK, NetTypeOK
  <1> QED  BY <1>2, <1>3, <1>4, <1>5 DEF EchoInv

\* Client c receives k bytes.
LEMMA EchoInvReads ==
  ASSUME EchoInv, NEW c \in Clients, srv[c] # "none", cli[c] = "open",
         NEW k \in RecvCount(c, down[c], MsgSize),
         heard' = [heard EXCEPT ![c] = @ \o Front(down[c], k)],
         down' = [down EXCEPT ![c] = Rest(@, k)],
         cstatus' = [cstatus EXCEPT ![c] = "prompt"],
         shown' \in [Clients -> Seq(Seq(Nat))],
         UNCHANGED <<listening, queue, cli, srv, up, reset, typed, sstatus,
                     serving>>
  PROVE  EchoInv'
  <1>1. /\ TypeOK /\ NetTypeOK /\ QueueOK /\ Good(c) /\ MsgSize \in Nat
        /\ down[c] \in Seq(Nat) /\ heard[c] \in Seq(Nat)
    BY Types, EchoAssumption DEF EchoInv
  <1> DEFINE front == Front(down[c], k)
             left == Rest(down[c], k)
  <1>2. front \in Seq(Nat) /\ left \in Seq(Nat) /\ front \o left = down[c]
    <2>1. down[c] \in Seq(Nat) /\ MsgSize \in Nat
      BY <1>1
    <2>2. Front(down[c], k) \in Seq(Nat)
      BY <2>1, CutProperties
    <2>3. Rest(down[c], k) \in Seq(Nat)
      BY <2>1, CutProperties
    <2>4. Front(down[c], k) \o Rest(down[c], k) = down[c]
      <3>1. k \in 1..Len(down[c])
        BY DEF RecvCount
      <3> QED  BY <2>1, <3>1, CutJoins
    <2> QED  BY <2>2, <2>3, <2>4
  <1>3. /\ heard'[c] = heard[c] \o front /\ down'[c] = left
        /\ cstatus'[c] = "prompt"
    BY <1>1 DEF TypeOK, NetTypeOK
  <1> HIDE DEF front, left
  <1>4. heard'[c] \in Seq(Nat) /\ heard'[c] \o down'[c] = heard[c] \o down[c]
    <2>1. heard[c] \o front \in Seq(Nat)
      BY <1>1, <1>2, ConcatProperties
    <2>2. (heard[c] \o front) \o left = heard[c] \o (front \o left)
      BY <1>1, <1>2, Assoc
    <2> QED  BY <1>2, <1>3, <2>1, <2>2
  <1>5. TypeOK'
    <2>1. heard' \in [Clients -> Seq(Nat)] /\ down' \in [Clients -> Seq(Nat)]
      BY <1>1, <1>2, <1>3, <1>4 DEF TypeOK, NetTypeOK
    <2> QED  BY <1>1, <2>1 DEF TypeOK, NetTypeOK
  <1>6. QueueOK'
    BY <1>1 DEF QueueOK
  <1>7. Good(c)'
    <2>1. Linked(c)'
      BY <1>1, <1>3 DEF Good, Linked, Alive
    <2>2. Flows(c)'
      BY <1>1, <1>3, <1>4 DEF Good, Flows, Echoed, Given
    <2>3. Reasons(c)'
      BY <1>1, <1>3 DEF Good, Reasons, Quits
    <2> QED  BY <2>1, <2>2, <2>3 DEF Good
  <1>8. ASSUME NEW d \in Clients, d # c  PROVE Good(d)'
    BY <1>1, <1>8, GoodKept DEF EchoInv, TypeOK, NetTypeOK
  <1> QED  BY <1>5, <1>6, <1>7, <1>8 DEF EchoInv

LEMMA EchoInvReadHello ==
  ASSUME EchoInv, NEW c \in Clients, ReadHello(c)
  PROVE  EchoInv'
  <1>1. /\ TypeOK /\ QueueOK /\ Good(c) /\ cstatus[c] = "greeting"
        /\ cli[c] = "open" /\ heard[c] = <<>>
        /\ UNCHANGED <<listening, queue, srv, up, typed, shown, sstatus, serving>>
    BY DEF EchoInv, Good, Linked, Flows, Alive, ReadHello, ClientEnds, ClientGone
  <1>2. /\ NetTypeOK /\ queue \in Seq(Clients) /\ Len(queue) \in Nat
        /\ down[c] \in Seq(Nat) /\ heard[c] \in Seq(Nat) /\ MsgSize \in Nat
    BY <1>1, Types, EchoAssumption
  <1>3. CASE ClientEnds(c, "died") /\ UNCHANGED heard
    BY <1>1, <1>3, EchoInvEnds
  <1>4. ASSUME NEW k \in RecvCount(c, down[c], MsgSize),
               heard' = [heard EXCEPT ![c] = @ \o Front(down[c], k)],
               down' = [down EXCEPT ![c] = Rest(@, k)],
               cstatus' = [cstatus EXCEPT ![c] = "prompt"],
               UNCHANGED <<cli, reset>>
        PROVE  EchoInv'
    <2>1. srv[c] # "none"
      <3>1. down[c] # <<>>
        BY <1>2, <1>4, CutProperties
      <3> QED  BY <1>1, <3>1 DEF Good, Flows
    <2>2. shown' \in [Clients -> Seq(Seq(Nat))]
      BY <1>1 DEF TypeOK
    <2> QED  BY <1>1, <1>4, <2>1, <2>2, EchoInvReads
  <1> QED  BY <1>1, <1>3, <1>4 DEF ReadHello

LEMMA EchoInvTypeLine ==
  ASSUME EchoInv, NEW c \in Clients, TypeLine(c)
  PROVE  EchoInv'
  <1> DEFINE n == Len(typed[c])
             msg == Message(n + 1)
  <1>1. /\ TypeOK /\ NetTypeOK /\ QueueOK /\ Good(c) /\ MsgSize \in Nat
        /\ n \in Nat /\ up[c] \in Seq(Nat) /\ down[c] \in Seq(Nat)
        /\ heard[c] \in Seq(Nat) /\ cstatus[c] = "prompt"
        /\ typed[c] \in Seq(BOOLEAN)
        /\ UNCHANGED <<listening, queue, cli, srv, down, reset, heard, shown,
                       sstatus, serving>>
    BY Types, EchoAssumption DEF EchoInv, TypeLine
  <1>2. PICK quit \in BOOLEAN : typed' = [typed EXCEPT ![c] = Append(@, quit)]
    BY DEF TypeLine
  <1>3. /\ typed'[c] = Append(typed[c], quit) /\ up'[c] = up[c] \o msg
        /\ cstatus'[c] = "waiting"
        /\ up' = [up EXCEPT ![c] = @ \o msg]
        /\ cstatus' = [cstatus EXCEPT ![c] = "waiting"]
    BY <1>1, <1>2 DEF TypeLine, TypeOK, NetTypeOK
  <1>4. /\ typed'[c] \in Seq(BOOLEAN) /\ Len(typed'[c]) = n + 1
        /\ \A i \in 1..n : typed'[c][i] = typed[c][i]
    <2>1. typed[c] \in Seq(BOOLEAN) /\ quit \in BOOLEAN
      BY <1>1, <1>2
    <2> QED  BY <1>3, <2>1, AppendProperties
  <1>5. msg \in Seq(Nat)
    BY <1>1, MessageProperties
  <1> HIDE DEF msg
  <1>6. TypeOK'
    <2>1. typed' \in [Clients -> Seq(BOOLEAN)]
      BY <1>1, <1>2, <1>3, <1>4 DEF TypeOK
    <2>2. up' \in [Clients -> Seq(Nat)]
      BY <1>1, <1>3, <1>5, ConcatProperties DEF NetTypeOK
    <2> QED  BY <1>1, <1>3, <2>1, <2>2 DEF TypeOK, NetTypeOK
  <1>7. QueueOK'
    BY <1>1 DEF QueueOK
  <1>8. Linked(c)'
    BY <1>1, <1>3 DEF Good, Linked, Alive
  <1>9. srv[c] # "none" /\ srv'[c] = srv[c]
    BY <1>1 DEF Good, Linked
  <1>10. PICK rest \in Seq(Nat) : /\ Echoed(c) \o rest = Given(c)
                                  /\ srv[c] = "open" => rest = up[c]
    BY <1>1, <1>9 DEF Good, Flows
  <1>11. Echoed(c) \in Seq(Nat) /\ Echoed(c)' = Echoed(c)
    BY <1>1, ConcatProperties DEF Echoed
  <1>12. Given(c)' = Given(c) \o msg
    <2>1. Stream(n) \o Message(n + 1) = Stream(n + 1)
      BY <1>1, StreamGrows
    <2> QED  BY <1>4, <2>1 DEF Given, msg
  <1>13. Echoed(c)' \o (rest \o msg) = Given(c)'
    <2>1. (Echoed(c) \o rest) \o msg = Echoed(c) \o (rest \o msg)
      BY <1>5, <1>10, <1>11, Assoc
    <2> QED  BY <1>10, <1>11, <1>12, <2>1
  <1>14. Len(heard[c]) <= MsgSize * (n + 1)
    <2>1. Len(Given(c)) = MsgSize * (n + 1)
      BY <1>1, StreamProperties DEF Given
    <2>2. Len(Echoed(c)) = Len(heard[c]) + Len(down[c])
      BY <1>1, ConcatProperties DEF Echoed
    <2>3. Len(Given(c)) = Len(Echoed(c)) + Len(rest)
      BY <1>10, <1>11, ConcatProperties
    <2>4. Len(heard[c]) \in Nat /\ Len(down[c]) \in Nat /\ Len(rest) \in Nat
      BY <1>1, <1>10, LenProperties
    <2> DEFINE len == MsgSize * (n + 1)
    <2> HIDE DEF len
    <2>5. len = Len(heard[c]) + Len(down[c]) + Len(rest)
      BY <1>10, <2>1, <2>2, <2>3 DEF len
    <2>6. Len(heard[c]) <= len
      <3>1. \A a, b, d \in Nat : a <= a + b + d
        OBVIOUS
      <3> QED  BY <2>4, <2>5, <3>1, Zenon
    <2> QED  BY <2>6 DEF len
  <1>15. Flows(c)'
    <2>1. rest \o msg \in Seq(Nat)
      BY <1>5, <1>10, ConcatProperties
    <2>2. srv'[c] = "open" => rest \o msg = up'[c]
      BY <1>3, <1>9, <1>10
    <2>3. Len(heard'[c]) <= MsgSize * Len(typed'[c])
      BY <1>1, <1>4, <1>14
    <2> QED  BY <1>3, <1>9, <1>13, <2>1, <2>2, <2>3 DEF Flows
  <1>16. Reasons(c)'
    <2>1. ASSUME NEW i \in 1..n, typed[c][i]
          PROVE  i \in 1..Len(typed'[c]) /\ typed'[c][i]
      BY <1>1, <1>4, <2>1
    <2>2. Quits(c) => Quits(c)'
      BY <2>1 DEF Quits
    <2> QED  BY <1>1, <1>3, <2>2 DEF Good, Reasons
  <1>17. ASSUME NEW d \in Clients, d # c  PROVE Good(d)'
    BY <1>1, <1>2, <1>3, <1>17, GoodKept DEF EchoInv, TypeOK, NetTypeOK
  <1> QED  BY <1>6, <1>7, <1>8, <1>15, <1>16, <1>17 DEF EchoInv, Good

LEMMA EchoInvReadAnswer ==
  ASSUME EchoInv, NEW c \in Clients, ReadAnswer(c)
  PROVE  EchoInv'
  <1>1. /\ TypeOK /\ NetTypeOK /\ QueueOK /\ Good(c) /\ cstatus[c] = "waiting"
        /\ cli[c] = "open" /\ srv[c] # "none"
        /\ UNCHANGED <<listening, queue, srv, up, reset, typed, sstatus, serving>>
    BY Types
       DEF EchoInv, Good, Linked, Alive, ReadAnswer, CloseClient
  <1>2. CASE /\ ClientSeesEnd(c) /\ CloseClient(c)
             /\ cstatus' = [cstatus EXCEPT ![c] = "exited"]
             /\ UNCHANGED <<heard, shown>>
    <2>1. /\ cli' = [cli EXCEPT ![c] = "closed"] /\ UNCHANGED down
          /\ cli'[c] = "closed" /\ cstatus'[c] = "exited"
      BY <1>1, <1>2 DEF CloseClient, TypeOK, NetTypeOK
    <2>2. TypeOK'
      BY <1>1, <1>2, <2>1 DEF TypeOK, NetTypeOK, Ends
    <2>3. QueueOK'
      <3>1. \A i \in 1..Len(queue) : queue[i] \in Clients
        BY <1>1, ElementOfSeq DEF NetTypeOK
      <3> QED  BY <1>1, <2>1, <3>1 DEF QueueOK, NetTypeOK
    <2>4. Linked(c)'
      BY <1>1, <2>1 DEF Good, Linked, Alive
    <2>5. Flows(c)'
      BY <1>1, <1>2, <2>1 DEF Good, Flows, Echoed, Given
    <2>6. Reasons(c)'
      BY <1>1, <1>2, <2>1 DEF Good, Reasons, Quits, ClientSeesEnd
    <2>7. ASSUME NEW d \in Clients, d # c  PROVE Good(d)'
      BY <1>1, <1>2, <2>1, <2>7, GoodKept DEF EchoInv, TypeOK, NetTypeOK
    <2> QED  BY <2>2, <2>3, <2>4, <2>5, <2>6, <2>7 DEF EchoInv, Good
  <1>3. ASSUME NEW k \in RecvCount(c, down[c], MsgSize),
               heard' = [heard EXCEPT ![c] = @ \o Front(down[c], k)],
               shown' = [shown EXCEPT ![c] = Append(@, Front(down[c], k))],
               down' = [down EXCEPT ![c] = Rest(@, k)],
               cstatus' = [cstatus EXCEPT ![c] = "prompt"],
               UNCHANGED cli
        PROVE  EchoInv'
    <2>1. Front(down[c], k) \in Seq(Nat)
      BY <1>1, Types, CutProperties, EchoAssumption
    <2>2. shown' \in [Clients -> Seq(Seq(Nat))]
      BY <1>1, <1>3, <2>1, AppendProperties DEF TypeOK
    <2> QED  BY <1>1, <1>3, <2>2, EchoInvReads
  <1> QED  BY <1>1, <1>2, <1>3 DEF ReadAnswer

LEMMA EchoInvKill ==
  ASSUME EchoInv, NEW c \in Clients, KillClient(c)
  PROVE  EchoInv'
  <1>1. cli[c] = "open"
    BY DEF EchoInv, Good, Linked, Alive, KillClient
  <1> QED  BY <1>1, EchoInvEnds DEF KillClient

LEMMA EchoInvReset ==
  ASSUME EchoInv, NEW c \in Clients, ResetArrives(c), UNCHANGED echoVars
  PROVE  EchoInv'
  <1>1. /\ TypeOK /\ NetTypeOK /\ reset' = reset \cup {c}
        /\ UNCHANGED <<listening, queue, cli, srv, up, down, echoVars>>
    BY Types DEF EchoInv, ResetArrives
  <1>2. TypeOK'
    BY <1>1 DEF TypeOK, NetTypeOK, echoVars
  <1>3. QueueOK'
    BY <1>1 DEF EchoInv, QueueOK
  <1>4. ASSUME NEW d \in Clients  PROVE Good(d)'
    BY <1>1, GoodKept DEF EchoInv, echoVars
  <1> QED  BY <1>2, <1>3, <1>4 DEF EchoInv

-----------------------------------------------------------------------------
(* The steps of the server. *)

LEMMA EchoInvStartServer ==
  ASSUME EchoInv, StartServer
  PROVE  EchoInv'
  <1>1. /\ TypeOK /\ NetTypeOK /\ sstatus = "starting"
        /\ listening' = TRUE /\ sstatus' = "accepting"
        /\ UNCHANGED <<queue, cli, srv, up, down, reset, typed, heard, shown,
                       cstatus, serving>>
    BY Types DEF EchoInv, StartServer, Listen
  <1>2. TypeOK'
    BY <1>1 DEF TypeOK, NetTypeOK
  <1>3. QueueOK'
    BY <1>1 DEF EchoInv, QueueOK
  <1>4. ASSUME NEW d \in Clients  PROVE Good(d)'
    BY <1>1, GoodKept DEF EchoInv
  <1> QED  BY <1>2, <1>3, <1>4 DEF EchoInv

\* The server process ends: each connection that it holds, or that waits for it,
\* is reset.
LEMMA EchoInvServerEnds ==
  ASSUME EchoInv, NEW how \in {"died", "killed"}, ServerEnds(how),
         UNCHANGED <<typed, heard, shown, cstatus>>
  PROVE  EchoInv'
  <1>1. /\ TypeOK /\ NetTypeOK /\ UNCHANGED <<cli, up, down>>
        /\ listening' = FALSE /\ queue' = <<>> /\ sstatus' = how /\ serving' = {}
        /\ srv' = [c \in Clients |->
                     IF srv[c] = "open" THEN "closed" ELSE srv[c]]
        /\ reset' = reset \cup {c \in Clients :
                                  cli[c] = "open" /\ srv[c] # "closed"}
    BY Types DEF EchoInv, ServerEnds, ServerGone
  <1>2. TypeOK'
    <2>1. srv' \in [Clients -> Ends] /\ queue' \in Seq(Clients)
          /\ reset' \subseteq Clients
      BY <1>1, EmptySeq DEF NetTypeOK, Ends
    <2>2. {c \in Clients : srv'[c] = "open"} = {}
      BY <1>1
    <2> QED  BY <1>1, <2>1, <2>2 DEF TypeOK, NetTypeOK
  <1>3. QueueOK'
    BY <1>1 DEF QueueOK
  <1>4. ASSUME NEW d \in Clients  PROVE Good(d)'
    <2>1. /\ Good(d) /\ reset \subseteq reset'
          /\ srv'[d] = IF srv[d] = "open" THEN "closed" ELSE srv[d]
      BY <1>1 DEF EchoInv
    <2>2. CASE srv[d] # "open"
      BY <1>1, <2>1, <2>2, GoodKept
    <2>3. CASE srv[d] = "open"
      <3>1. srv'[d] = "closed"
        BY <2>1, <2>3
      <3>2. Linked(d)'
        BY <1>1, <2>1, <2>3, <3>1 DEF Good, Linked
      <3>3. Flows(d)'
        BY <1>1, <2>1, <2>3, <3>1 DEF Good, Flows, Echoed, Given
      <3>4. cli[d] = "closed" \/ d \in reset'
        BY <1>1, <2>1, <2>3 DEF Good, Linked, NetTypeOK, Ends
      <3>5. Reasons(d)'
        BY <1>1, <2>1, <2>3, <3>1, <3>4 DEF Good, Reasons, Quits
      <3> QED  BY <3>2, <3>3, <3>5 DEF Good
    <2> QED  BY <2>2, <2>3
  <1> QED  BY <1>2, <1>3, <1>4 DEF EchoInv

LEMMA EchoInvAccept ==
  ASSUME EchoInv, Accept
  PROVE  EchoInv'
  <1>1. /\ TypeOK /\ NetTypeOK /\ QueueOK /\ sstatus = "accepting"
        /\ UNCHANGED <<typed, heard, shown, cstatus>>
        /\ queue \in Seq(Clients) /\ Len(queue) \in Nat
    BY Types DEF EchoInv, Accept
  <1>2. CASE AcceptFails /\ ServerEnds("died")
    BY <1>1, <1>2, EchoInvServerEnds
  <1>3. ASSUME NEW c \in Clients, AcceptAndSend(c, Hello), serving' = {c},
               sstatus' = "reading"
        PROVE  EchoInv'
    <2>1. /\ queue # <<>> /\ c = queue[1] /\ queue' = Tail(queue)
          /\ srv' = [srv EXCEPT ![c] = "open"]
          /\ down' = [down EXCEPT ![c] = @ \o Hello]
          /\ UNCHANGED <<listening, cli, up, reset>>
          /\ srv'[c] = "open" /\ down'[c] = down[c] \o Hello
      <3>1. queue # <<>> => Head(queue) = queue[1]
        BY <1>1, HeadTailProperties
      <3> QED  BY <1>1, <1>3, <3>1 DEF AcceptAndSend, NetTypeOK
    <2>2. /\ queue' \in Seq(Clients) /\ Len(queue') = Len(queue) - 1
          /\ Len(queue) >= 1
          /\ \A i \in 1..Len(queue') : queue'[i] = queue[i + 1]
      BY <1>1, <2>1, HeadTailProperties, LenProperties, EmptySeq
    <2>3. srv[c] = "none" /\ cli[c] # "none" /\ Good(c)
      BY <1>1, <2>1, <2>2 DEF QueueOK, EchoInv
    <2>4. /\ heard[c] = <<>> /\ down[c] = <<>> /\ up[c] = <<>> /\ typed[c] = <<>>
      BY <2>3 DEF Good, Flows
    <2>5. /\ Hello \in Seq(Nat) /\ Hello = Stream(0)
          /\ down'[c] = Hello /\ Echoed(c)' = Hello
      BY <1>1, <2>1, <2>4, HelloProperties, ConcatEmptySeq DEF Echoed
    <2>6. TypeOK'
      <3>1. down' \in [Clients -> Seq(Nat)] /\ srv' \in [Clients -> Ends]
        BY <1>1, <2>1, <2>5 DEF NetTypeOK, Ends
      <3>2. \A d \in Clients : srv[d] # "open"
        BY <1>1 DEF TypeOK
      <3>3. \A d \in Clients : srv'[d] = "open" <=> d = c
        BY <1>1, <2>1, <3>2 DEF NetTypeOK
      <3>4. {d \in Clients : srv'[d] = "open"} = {c}
        BY <3>3
      <3> QED  BY <1>1, <1>3, <2>1, <2>2, <3>1, <3>4 DEF TypeOK, NetTypeOK
    <2>7. QueueOK'
      <3>1. ASSUME NEW i \in 1..Len(queue')
            PROVE  /\ i + 1 \in 1..Len(queue) /\ queue'[i] = queue[i + 1]
                   /\ queue'[i] # c /\ queue[i + 1] \in Clients
        <4>1. i + 1 \in 1..Len(queue) /\ 1 \in 1..Len(queue) /\ i + 1 # 1
          BY <1>1, <2>2
        <4> QED  BY <1>1, <2>1, <2>2, <4>1, ElementOfSeq DEF QueueOK
      <3>2. ASSUME NEW i \in 1..Len(queue')
            PROVE  srv'[queue'[i]] = "none" /\ cli'[queue'[i]] # "none"
        <4> DEFINE d == queue[i + 1]
        <4>1. d \in Clients /\ d # c /\ queue'[i] = d
          BY <3>1
        <4>2. srv[d] = "none" /\ cli[d] # "none"
          BY <1>1, <3>1 DEF QueueOK
        <4> HIDE DEF d
        <4> QED  BY <1>1, <2>1, <4>1, <4>2 DEF NetTypeOK
      <3>3. ASSUME NEW i \in 1..Len(queue'), NEW j \in 1..Len(queue'),
                   queue'[i] = queue'[j]
            PROVE  i = j
        <4>1. i + 1 = j + 1
          BY <1>1, <3>1, <3>3 DEF QueueOK
        <4> QED  BY <2>2, <4>1
      <3> QED  BY <3>2, <3>3 DEF QueueOK
    <2>8. Good(c)'
      <3>1. Linked(c)'
        BY <1>1, <2>1, <2>3 DEF Good, Linked
      <3>2. Flows(c)'
        <4>1. up'[c] = <<>> /\ <<>> \in Seq(Nat) /\ Hello \o <<>> = Hello
          BY <2>1, <2>4, <2>5, EmptySeq, ConcatEmptySeq
        <4>2. Given(c)' = Hello
          BY <1>1, <2>4, <2>5 DEF Given
        <4>3. cstatus[c] # "waiting"
          BY <2>3 DEF Good, Linked
        <4> QED  BY <1>1, <2>1, <2>3, <2>4, <2>5, <4>1, <4>2, <4>3
                 DEF Good, Flows
      <3>3. Reasons(c)'
        BY <1>1, <2>1, <2>3 DEF Good, Reasons, Quits
      <3> QED  BY <3>1, <3>2, <3>3 DEF Good
    <2>9. ASSUME NEW d \in Clients, d # c  PROVE Good(d)'
      BY <1>1, <2>1, <2>9, GoodKept DEF EchoInv, NetTypeOK
    <2> QED  BY <2>6, <2>7, <2>8, <2>9 DEF EchoInv
  <1> QED  BY <1>1, <1>2, <1>3 DEF Accept

\* The server closes the connection of c, having received what is not left in
\* the socket.
LEMMA EchoInvCloses ==
  ASSUME EchoInv, NEW c \in Clients, srv[c] = "open", BackToAccept(c),
         c \in reset \/ cli[c] = "closed" \/ Quits(c),
         up' \in [Clients -> Seq(Nat)],
         \A d \in Clients : d # c => up'[d] = up[d],
         UNCHANGED <<typed, heard, shown, cstatus>>
  PROVE  EchoInv'
  <1>1. /\ TypeOK /\ NetTypeOK /\ QueueOK /\ Good(c) /\ serving = {c}
        /\ srv' = [srv EXCEPT ![c] = "closed"] /\ srv'[c] = "closed"
        /\ sstatus' = "accepting" /\ serving' = {}
        /\ UNCHANGED <<listening, queue, cli, down, reset>>
    BY Types DEF EchoInv, BackToAccept, TypeOK, NetTypeOK
  <1>2. TypeOK'
    <2>1. srv' \in [Clients -> Ends]
      BY <1>1 DEF NetTypeOK, Ends
    <2>2. {d \in Clients : srv'[d] = "open"} = {}
      BY <1>1 DEF TypeOK, NetTypeOK
    <2> QED  BY <1>1, <2>1, <2>2 DEF TypeOK, NetTypeOK
  <1>3. QueueOK'
    <2>1. \A i \in 1..Len(queue) : queue[i] \in Clients /\ queue[i] # c
      BY <1>1, ElementOfSeq DEF NetTypeOK, QueueOK
    <2> QED  BY <1>1, <2>1 DEF QueueOK, NetTypeOK
  <1>4. Good(c)'
    <2>1. Linked(c)'
      BY <1>1 DEF Good, Linked
    <2>2. Flows(c)'
      BY <1>1 DEF Good, Flows, Echoed, Given
    <2>3. Reasons(c)'
      BY <1>1 DEF Good, Reasons, Quits
    <2> QED  BY <2>1, <2>2, <2>3 DEF Good
  <1>5. ASSUME NEW d \in Clients, d # c  PROVE Good(d)'
    BY <1>1, <1>5, GoodKept DEF EchoInv, NetTypeOK
  <1> QED  BY <1>2, <1>3, <1>4, <1>5 DEF EchoInv

\* The server sends back the bytes that it has received.
LEMMA EchoInvEchoes ==
  ASSUME EchoInv, NEW c \in Clients, srv[c] = "open",
         NEW k \in RecvCount(c, up[c], MsgSize),
         up' = [up EXCEPT ![c] = Rest(@, k)],
         down' = [down EXCEPT ![c] = @ \o EchoOf(Front(up[c], k))],
         UNCHANGED <<listening, queue, cli, srv, reset, sstatus, serving,
                     typed, heard, shown, cstatus>>
  PROVE  EchoInv'
  <1> DEFINE front == Front(up[c], k)
             left == Rest(up[c], k)
  <1>1. /\ TypeOK /\ NetTypeOK /\ QueueOK /\ Good(c) /\ MsgSize \in Nat
        /\ up[c] \in Seq(Nat) /\ down[c] \in Seq(Nat) /\ heard[c] \in Seq(Nat)
    BY Types, EchoAssumption DEF EchoInv
  <1>2. front \in Seq(Nat) /\ left \in Seq(Nat) /\ front \o left = up[c]
    <2>1. up[c] \in Seq(Nat) /\ MsgSize \in Nat
      BY <1>1
    <2>2. Front(up[c], k) \in Seq(Nat)
      BY <2>1, CutProperties
    <2>3. Rest(up[c], k) \in Seq(Nat)
      BY <2>1, CutProperties
    <2>4. Front(up[c], k) \o Rest(up[c], k) = up[c]
      <3>1. k \in 1..Len(up[c])
        BY DEF RecvCount
      <3> QED  BY <2>1, <3>1, CutJoins
    <2> QED  BY <2>2, <2>3, <2>4
  <1>3. up'[c] = left /\ down'[c] = down[c] \o front
    BY <1>1 DEF NetTypeOK, EchoOf
  <1> HIDE DEF front, left
  <1>4. down'[c] \in Seq(Nat) /\ Echoed(c) \in Seq(Nat)
    <2>1. down[c] \o front \in Seq(Nat) /\ heard[c] \o down[c] \in Seq(Nat)
      BY <1>1, <1>2, ConcatProperties
    <2> QED  BY <1>3, <2>1 DEF Echoed
  <1>5. TypeOK'
    <2>1. up' \in [Clients -> Seq(Nat)] /\ down' \in [Clients -> Seq(Nat)]
      BY <1>1, <1>2, <1>3, <1>4 DEF NetTypeOK
    <2> QED  BY <1>1, <2>1 DEF TypeOK, NetTypeOK
  <1>6. QueueOK'
    BY <1>1 DEF QueueOK
  <1>7. Linked(c)'
    BY <1>1 DEF Good, Linked
  <1>8. Flows(c)'
    <2>1. Echoed(c) \o up[c] = Given(c)
      BY <1>1 DEF Good, Flows
    <2>2. Echoed(c)' = Echoed(c) \o front
      <3>1. (heard[c] \o down[c]) \o front = heard[c] \o (down[c] \o front)
        BY <1>1, <1>2, Assoc
      <3>2. Echoed(c)' = heard[c] \o (down[c] \o front)
        BY <1>3 DEF Echoed
      <3> QED  BY <3>1, <3>2 DEF Echoed
    <2>3. (Echoed(c) \o front) \o left = Echoed(c) \o (front \o left)
      <3> DEFINE e == Echoed(c)
      <3> HIDE DEF e
      <3>1. e \in Seq(Nat) /\ front \in Seq(Nat) /\ left \in Seq(Nat)
        BY <1>2, <1>4 DEF e
      <3>2. (e \o front) \o left = e \o (front \o left)
        BY <3>1, Assoc
      <3> QED  BY <3>2 DEF e
    <2>4. Echoed(c)' \o up'[c] = Given(c)'
      BY <1>2, <1>3, <2>1, <2>2, <2>3 DEF Given
    <2> QED  BY <1>1, <1>2, <1>3, <2>4 DEF Good, Flows
  <1>9. Reasons(c)'
    BY <1>1 DEF Good, Reasons, Quits
  <1>10. ASSUME NEW d \in Clients, d # c  PROVE Good(d)'
    BY <1>1, <1>10, GoodKept DEF EchoInv, NetTypeOK
  <1> QED  BY <1>5, <1>6, <1>7, <1>8, <1>9, <1>10 DEF EchoInv, Good

LEMMA EchoInvServe ==
  ASSUME EchoInv, NEW c \in serving, Serve(c)
  PROVE  EchoInv'
  <1>1. /\ c \in Clients /\ srv[c] = "open" /\ TypeOK /\ NetTypeOK
        /\ up[c] \in Seq(Nat) /\ MsgSize \in Nat
        /\ UNCHANGED <<typed, heard, shown, cstatus>>
    <2>1. c \in Clients /\ srv[c] = "open" /\ TypeOK
      BY DEF EchoInv, TypeOK
    <2> QED  BY <2>1, Types, EchoAssumption DEF Serve
  <1>2. CASE ServerSeesEnd(c) /\ BackToAccept(c) /\ UNCHANGED up
    <2>1. c \in reset \/ cli[c] = "closed"
      BY <1>2 DEF ServerSeesEnd
    <2>2. up' \in [Clients -> Seq(Nat)] /\ \A d \in Clients : up'[d] = up[d]
      BY <1>1, <1>2 DEF NetTypeOK
    <2> QED  BY <1>1, <1>2, <2>1, <2>2, EchoInvCloses
  <1>3. CASE ServerEnds("died")
    BY <1>1, <1>3, EchoInvServerEnds
  <1>4. ASSUME NEW k \in RecvCount(c, up[c], MsgSize), IsQuit(c, Front(up[c], k)),
               up' = [up EXCEPT ![c] = Rest(@, k)], BackToAccept(c)
        PROVE  EchoInv'
    <2>1. Quits(c)
      BY <1>4 DEF IsQuit, Quits
    <2>2. Rest(up[c], k) \in Seq(Nat)
      BY <1>1, CutProperties
    <2>3. /\ up' \in [Clients -> Seq(Nat)]
          /\ \A d \in Clients : d # c => up'[d] = up[d]
      BY <1>1, <1>4, <2>2 DEF NetTypeOK
    <2> QED  BY <1>1, <1>4, <2>1, <2>3, EchoInvCloses
  <1>5. ASSUME NEW k \in RecvCount(c, up[c], MsgSize),
               up' = [up EXCEPT ![c] = Rest(@, k)],
               down' = [down EXCEPT ![c] = @ \o EchoOf(Front(up[c], k))],
               UNCHANGED <<listening, queue, cli, srv, reset, sstatus, serving>>
        PROVE  EchoInv'
    BY <1>1, <1>5, EchoInvEchoes
  <1> QED  BY <1>2, <1>3, <1>4, <1>5 DEF Serve

LEMMA EchoInvNext == EchoInv /\ [Next]_vars => EchoInv'
  <1> SUFFICES ASSUME EchoInv, [Next]_vars  PROVE EchoInv'
    OBVIOUS
  <1>1. ASSUME NEW c \in Clients, ClientLoop(c)  PROVE EchoInv'
    BY <1>1, EchoInvReadHello, EchoInvReadAnswer DEF ClientLoop
  <1>2. CASE ServerLoop
    BY <1>2, EchoInvAccept, EchoInvServe DEF ServerLoop
  <1>3. CASE KillServer
    BY <1>3, EchoInvServerEnds DEF KillServer
  <1>4. CASE UNCHANGED vars
    <2>1. TypeOK'
      BY <1>4 DEF EchoInv, TypeOK, NetTypeOK, vars, netVars, echoVars
    <2>2. QueueOK'
      BY <1>4 DEF EchoInv, QueueOK, vars, netVars
    <2>3. ASSUME NEW d \in Clients  PROVE Good(d)'
      BY <1>4, GoodKept DEF EchoInv, vars, netVars, echoVars
    <2> QED  BY <2>1, <2>2, <2>3 DEF EchoInv
  <1> QED  BY <1>1, <1>2, <1>3, <1>4, EchoInvStart, EchoInvTypeLine,
              EchoInvKill, EchoInvReset, EchoInvStartServer DEF Next

LEMMA EchoInvariant == Spec => []EchoInv
  BY EchoInvInit, EchoInvNext, PTL DEF Spec

-----------------------------------------------------------------------------
(* The theorems. *)

\* Whatever the clients, their users, the server and TCP do, every variable of
\* lab 2 keeps its type, and the server reads from the one client that it has
\* accepted and not closed (2/server/server.cpp).
THEOREM TcpTypeCorrect == Spec => []TypeOK
  <1>1. EchoInv => TypeOK
    BY DEF EchoInv
  <1> QED  BY <1>1, EchoInvariant, PTL

\* What has not come back yet is what the server has yet to read.
LEMMA EchoKeptHolds == EchoInv => EchoKept
  <1> SUFFICES ASSUME EchoInv, NEW c \in Clients
      PROVE  /\ srv[c] = "none" => Echoed(c) = <<>> /\ typed[c] = <<>>
             /\ srv[c] = "open" => Echoed(c) \o up[c] = Given(c)
             /\ srv[c] = "closed" =>
                  \E n \in 0..Len(Given(c)) : Echoed(c) = SubSeq(Given(c), 1, n)
    BY DEF EchoKept
  <1>1. /\ Flows(c) /\ heard[c] \in Seq(Nat) /\ down[c] \in Seq(Nat)
        /\ Len(typed[c]) \in Nat
    BY Types DEF EchoInv, Good
  <1>2. srv[c] = "none" => Echoed(c) = <<>> /\ typed[c] = <<>>
    BY <1>1, EmptySeq, ConcatEmptySeq DEF Flows, Echoed
  <1>3. srv[c] = "open" => Echoed(c) \o up[c] = Given(c)
    BY <1>1 DEF Flows
  <1>4. ASSUME srv[c] = "closed"
        PROVE  \E n \in 0..Len(Given(c)) : Echoed(c) = SubSeq(Given(c), 1, n)
    <2>1. PICK rest \in Seq(Nat) : Echoed(c) \o rest = Given(c)
      BY <1>1, <1>4 DEF Flows
    <2>2. heard[c] \o down[c] \in Seq(Nat)
      BY <1>1, ConcatProperties
    <2>3. Echoed(c) \in Seq(Nat)
      BY <2>2 DEF Echoed
    <2> DEFINE n == Len(Echoed(c))
    <2>4. /\ n \in Nat /\ Len(rest) \in Nat
          /\ Len(Echoed(c) \o rest) = n + Len(rest)
      BY <2>1, <2>3, ConcatProperties, LenProperties
    <2>5. n \in 0..Len(Given(c))
      BY <2>1, <2>4
    <2>6. SubSeq(Echoed(c) \o rest, 1, n) = Echoed(c)
      BY <2>1, <2>3, SubSeqOfConcat1, SubSeqFull
    <2> QED  BY <2>1, <2>5, <2>6
  <1> QED  BY <1>2, <1>3, <1>4

\* For any number of clients and lines and any sizes, however recv() cuts the
\* streams and whoever goes away: a client of lab 2 is sent the greeting and its
\* own bytes, in order, and while it is served none of them is missing.
THEOREM TcpEchoKept == Spec => []EchoKept
  BY EchoInvariant, EchoKeptHolds, PTL

LEMMA NoMutualWaitHolds == EchoInv => NoMutualWait
  <1> SUFFICES ASSUME EchoInv, NEW c \in serving, c \notin reset,
                      cstatus[c] \in {"greeting", "waiting"},
                      up[c] = <<>>, down[c] = <<>>
      PROVE  FALSE
    BY DEF NoMutualWait
  <1>1. /\ c \in Clients /\ srv[c] = "open" /\ Flows(c)
        /\ heard[c] \in Seq(Nat) /\ Len(typed[c]) \in Nat
    BY Types DEF EchoInv, TypeOK, Good
  <1>2. Given(c) = heard[c]
    <2>1. Echoed(c) = heard[c]
      BY <1>1, ConcatEmptySeq DEF Echoed
    <2>2. Echoed(c) \o up[c] = Given(c)
      BY <1>1 DEF Flows
    <2> QED  BY <1>1, <2>1, <2>2, ConcatEmptySeq
  <1> DEFINE asked == MsgSize * Len(typed[c])
  <1>3. asked \in Nat /\ MsgSize \in Nat /\ MsgSize >= 1
    BY <1>1, EchoAssumption
  <1>4. Len(heard[c]) = asked + MsgSize
    <2>1. Len(Given(c)) = MsgSize * (Len(typed[c]) + 1)
      BY <1>1, StreamProperties DEF Given
    <2>2. MsgSize * (Len(typed[c]) + 1) = asked + MsgSize
      BY <1>1, <1>3
    <2> QED  BY <1>2, <2>1, <2>2
  <1> HIDE DEF asked
  <1>5. CASE cstatus[c] = "greeting"
    <2>1. heard[c] = <<>>
      BY <1>1, <1>5 DEF Flows
    <2>2. Len(heard[c]) = 0
      BY <2>1, EmptySeq
    <2> QED  BY <1>3, <1>4, <2>2
  <1>6. CASE cstatus[c] = "waiting"
    <2>1. Len(heard[c]) <= asked
      BY <1>1, <1>6 DEF Flows, asked
    <2> QED  BY <1>3, <1>4, <2>1
  <1> QED  BY <1>5, <1>6

\* For all values of the constants, the server and the client that it serves
\* never both wait in recv() with nothing to read.
THEOREM TcpNoMutualWait == Spec => []NoMutualWait
  BY EchoInvariant, NoMutualWaitHolds, PTL

\* For all values of the constants, a client that leaves its loop because the
\* connection has ended had its user type quit, or its connection was reset.
THEOREM TcpExitsAfterQuit == Spec => []ExitsAfterQuit
  <1>1. EchoInv => ExitsAfterQuit
    BY DEF EchoInv, Good, Reasons, Quits, ExitsAfterQuit
  <1> QED  BY <1>1, EchoInvariant, PTL

-----------------------------------------------------------------------------
(* The refinement: for the clients whose messages come whole. *)

\* The one message that is on its way while client c waits for its answer.
Underway(c) ==
  LET n == Len(typed[c])
  IN  \/ down[c] = <<>> /\ up[c] \in {<<>>, Message(n)}
      \/ up[c] = <<>> /\ down[c] = Message(n) /\ ~typed[c][n]

\* What client c has printed are its lines, none of them quit; and no more than
\* one message is on its way.
Whole(c) ==
  /\ Len(shown[c]) <= Len(typed[c])
  /\ \A k \in 1..Len(shown[c]) : shown[c][k] = Message(k) /\ ~typed[c][k]
  /\ cstatus[c] = "greeting" =>
       typed[c] = <<>> /\ up[c] = <<>> /\ down[c] \in {<<>>, Hello}
  /\ cstatus[c] = "prompt" =>
       Len(typed[c]) = Len(shown[c]) /\ up[c] = <<>> /\ down[c] = <<>>
  /\ cstatus[c] = "waiting" =>
       Len(typed[c]) = Len(shown[c]) + 1 /\ Underway(c)

Wholes == Clients \ Cut

WholeInv == \A c \in Wholes : Whole(c)

\* Where nothing cuts it, a message is received whole.
LEMMA ReadWhole ==
  ASSUME NEW c \in Wholes, NEW s \in Seq(Nat), Len(s) = MsgSize,
         NEW k \in RecvCount(c, s, MsgSize)
  PROVE  k = MsgSize /\ Front(s, k) = s /\ Rest(s, k) = <<>>
  <1>1. k = MsgSize /\ MsgSize \in Nat
    BY EchoAssumption DEF RecvCount, Wholes
  <1>2. Front(s, k) = s
    BY <1>1, SubSeqFull DEF Front
  <1>3. Rest(s, k) = <<>>
    <2>1. Len(SubSeq(s, k + 1, Len(s))) = 0 /\ SubSeq(s, k + 1, Len(s)) \in Seq(Nat)
      BY <1>1, SubSeqProperties
    <2> QED  BY <2>1, EmptySeq DEF Rest
  <1> QED  BY <1>1, <1>2, <1>3

\* A client that at most stops running keeps what it has printed and what is on
\* its way.
LEMMA WholeKept ==
  ASSUME NEW c \in Clients, Whole(c),
         typed'[c] = typed[c], shown'[c] = shown[c],
         up'[c] = up[c], down'[c] = down[c],
         cstatus'[c] = cstatus[c] \/ cstatus'[c] \notin Alive
  PROVE  Whole(c)'
  <1>1. Underway(c) => Underway(c)'
    BY DEF Underway
  <1> QED  BY <1>1 DEF Whole, Alive

LEMMA WholeInvInit == Init => WholeInv
  <1> SUFFICES ASSUME Init, NEW c \in Wholes  PROVE Whole(c)
    BY DEF WholeInv
  <1>1. /\ typed[c] = <<>> /\ shown[c] = <<>> /\ cstatus[c] = "start"
        /\ Len(shown[c]) = 0 /\ Len(typed[c]) = 0
    BY EmptySeq DEF Init, Wholes
  <1> QED  BY <1>1 DEF Whole

LEMMA WholeInvStart ==
  ASSUME EchoInv, WholeInv, NEW c \in Clients, StartClient(c)
  PROVE  WholeInv'
  <1>1. /\ TypeOK /\ cstatus[c] = "start" /\ UNCHANGED <<typed, shown, up, down>>
        /\ \/ cstatus' = [cstatus EXCEPT ![c] = "greeting"]
           \/ cstatus' = [cstatus EXCEPT ![c] = "died"]
    BY DEF EchoInv, StartClient, Connect, ClientEnds, ClientGone
  <1>2. ASSUME NEW d \in Wholes  PROVE Whole(d)'
    <2>1. d \in Clients /\ Whole(d)
      BY DEF WholeInv, Wholes
    <2>2. CASE cstatus'[d] # "greeting" \/ d # c
      BY <1>1, <2>1, <2>2, WholeKept DEF TypeOK, Alive
    <2>3. CASE cstatus'[d] = "greeting" /\ d = c
      <3>1. /\ typed[d] = <<>> /\ up[d] = <<>> /\ down[d] = <<>>
        BY <1>1, <2>1, <2>3 DEF EchoInv, Good, Linked, Flows
      <3> QED  BY <1>1, <2>1, <2>3, <3>1 DEF Whole
    <2> QED  BY <2>2, <2>3
  <1> QED  BY <1>2 DEF WholeInv, Wholes

LEMMA WholeInvReadHello ==
  ASSUME EchoInv, WholeInv, NEW c \in Clients, ReadHello(c)
  PROVE  WholeInv'
  <1>1. /\ TypeOK /\ cstatus[c] = "greeting" /\ UNCHANGED <<typed, shown, up>>
    BY DEF EchoInv, ReadHello, ClientEnds, ClientGone
  <1>2. CASE ClientEnds(c, "died")
    <2>1. down' = down /\ cstatus' = [cstatus EXCEPT ![c] = "died"]
      BY <1>2 DEF ClientEnds, ClientGone
    <2> QED  BY <1>1, <2>1, WholeKept DEF WholeInv, Wholes, TypeOK, Alive
  <1>3. ASSUME NEW k \in RecvCount(c, down[c], MsgSize),
               down' = [down EXCEPT ![c] = Rest(@, k)],
               cstatus' = [cstatus EXCEPT ![c] = "prompt"]
        PROVE  WholeInv'
    <2>1. ASSUME NEW d \in Wholes, d # c  PROVE Whole(d)'
      BY <1>1, <1>3, <2>1, WholeKept DEF WholeInv, Wholes, TypeOK, NetTypeOK
    <2>2. ASSUME c \in Wholes  PROVE Whole(c)'
      <3>1. Whole(c) /\ typed[c] = <<>> /\ up[c] = <<>> /\ down[c] \in {<<>>, Hello}
        BY <1>1, <2>2 DEF WholeInv, Whole
      <3>2. down[c] = Hello
        <4>1. 1..Len(down[c]) # {}
          BY <1>3 DEF RecvCount
        <4> QED  BY <3>1, <4>1
      <3>3. Rest(down[c], k) = <<>>
        BY <1>3, <2>2, <3>2, HelloProperties, ReadWhole
      <3>4. down'[c] = <<>> /\ cstatus'[c] = "prompt"
        BY <1>1, <1>3, <3>3 DEF TypeOK, NetTypeOK
      <3>5. Len(shown[c]) = 0
        <4>1. Len(shown[c]) \in Nat
          BY <1>1, LenProperties DEF TypeOK
        <4> QED  BY <3>1, <4>1 DEF Whole
      <3> QED  BY <1>1, <3>1, <3>4, <3>5 DEF Whole
    <2> QED  BY <2>1, <2>2 DEF WholeInv, Wholes
  <1> QED  BY <1>2, <1>3 DEF ReadHello

LEMMA WholeInvTypeLine ==
  ASSUME EchoInv, WholeInv, NEW c \in Clients, TypeLine(c)
  PROVE  WholeInv'
  <1> DEFINE n == Len(typed[c])
  <1>1. /\ TypeOK /\ NetTypeOK /\ cstatus[c] = "prompt"
        /\ UNCHANGED <<down, shown>>
        /\ up' = [up EXCEPT ![c] = @ \o Message(n + 1)]
        /\ cstatus' = [cstatus EXCEPT ![c] = "waiting"]
        /\ typed[c] \in Seq(BOOLEAN) /\ n \in Nat
    BY Types DEF EchoInv, TypeLine
  <1>2. PICK quit \in BOOLEAN : typed' = [typed EXCEPT ![c] = Append(@, quit)]
    BY DEF TypeLine
  <1>3. /\ typed'[c] = Append(typed[c], quit) /\ cstatus'[c] = "waiting"
        /\ up'[c] = up[c] \o Message(n + 1)
    BY <1>1, <1>2 DEF TypeOK, NetTypeOK
  <1>4. Len(typed'[c]) = n + 1 /\ \A i \in 1..n : typed'[c][i] = typed[c][i]
    <2>1. typed[c] \in Seq(BOOLEAN) /\ quit \in BOOLEAN
      BY <1>1, <1>2
    <2> QED  BY <1>3, <2>1, AppendProperties
  <1>5. ASSUME NEW d \in Wholes, d # c  PROVE Whole(d)'
    BY <1>1, <1>2, <1>5, WholeKept DEF WholeInv, Wholes, TypeOK, NetTypeOK
  <1>6. ASSUME c \in Wholes  PROVE Whole(c)'
    <2>1. Whole(c) /\ n = Len(shown[c]) /\ up[c] = <<>> /\ down[c] = <<>>
      BY <1>1, <1>6 DEF WholeInv, Whole
    <2>2. up'[c] = Message(n + 1)
      <3>1. Message(n + 1) \in Seq(Nat)
        BY <1>1, MessageProperties
      <3> QED  BY <1>3, <2>1, <3>1, ConcatEmptySeq
    <2>3. Underway(c)'
      BY <1>1, <1>4, <2>1, <2>2 DEF Underway
    <2>4. \A k \in 1..n : shown'[c][k] = Message(k) /\ ~typed'[c][k]
      BY <1>1, <1>4, <2>1 DEF Whole
    <2> QED  BY <1>1, <1>3, <1>4, <2>1, <2>3, <2>4 DEF Whole
  <1> QED  BY <1>5, <1>6 DEF WholeInv, Wholes

\* What ReadAnswer does to a client whose messages come whole.
LEMMA WholeAnswer ==
  ASSUME EchoInv, NEW c \in Wholes, Whole(c), cstatus[c] = "waiting",
         NEW k \in RecvCount(c, down[c], MsgSize),
         shown' = [shown EXCEPT ![c] = Append(@, Front(down[c], k))],
         down' = [down EXCEPT ![c] = Rest(@, k)],
         cstatus' = [cstatus EXCEPT ![c] = "prompt"],
         UNCHANGED <<typed, up>>
  PROVE  /\ Whole(c)'
         /\ Len(typed[c]) = Len(shown[c]) + 1
         /\ shown'[c] = Append(shown[c], Message(Len(typed[c])))
  <1> DEFINE n == Len(typed[c])
             old == shown[c]
             new == shown'[c]
             msg == Message(n)
  <1>1. /\ c \in Clients /\ TypeOK /\ NetTypeOK /\ n \in Nat
        /\ old \in Seq(Seq(Nat)) /\ Len(old) \in Nat
        /\ n = Len(old) + 1 /\ Underway(c)
    <2>1. c \in Clients /\ TypeOK
      BY DEF Wholes, EchoInv
    <2> QED  BY <2>1, Types, LenProperties DEF Whole
  <1>2. down[c] = msg /\ up[c] = <<>> /\ ~typed[c][n]
    <2>1. 1..Len(down[c]) # {}
      BY DEF RecvCount
    <2> QED  BY <1>1, <2>1 DEF Underway
  <1>3. msg \in Seq(Nat) /\ Len(msg) = MsgSize
    <2>1. Len(old) + 1 = n
      BY <1>1
    <2> QED  BY <1>1, <2>1, MessageProperties
  <1>4. Front(down[c], k) = msg /\ Rest(down[c], k) = <<>>
    BY <1>2, <1>3, ReadWhole
  <1>5. new = Append(old, msg) /\ down'[c] = <<>> /\ cstatus'[c] = "prompt"
    BY <1>1, <1>4 DEF TypeOK, NetTypeOK
  <1> HIDE DEF msg
  <1>6. /\ Len(new) = n /\ new[n] = msg
        /\ \A i \in 1..Len(old) : new[i] = old[i]
    <2>1. old \in Seq(Seq(Nat)) /\ msg \in Seq(Nat)
      BY <1>1, <1>3
    <2> HIDE DEF old, new
    <2>2. /\ Len(new) = Len(old) + 1 /\ new[Len(old) + 1] = msg
          /\ \A i \in 1..Len(old) : new[i] = old[i]
      BY <1>5, <2>1, AppendProperties
    <2> QED  BY <1>1, <2>2
  <1>7. \A i \in 1..n : new[i] = Message(i) /\ ~typed[c][i]
    <2>1. \A i \in 1..n : i = n \/ i \in 1..Len(old)
      BY <1>1
    <2>2. \A i \in 1..Len(old) : old[i] = Message(i) /\ ~typed[c][i]
      BY DEF Whole
    <2> HIDE DEF old, new
    <2> QED  BY <1>2, <1>6, <2>1, <2>2 DEF msg
  <1>8. typed'[c] = typed[c] /\ up'[c] = up[c]
    OBVIOUS
  <1>9. Whole(c)'
    BY <1>1, <1>2, <1>5, <1>6, <1>7, <1>8 DEF Whole
  <1> QED  BY <1>1, <1>5, <1>9 DEF msg

LEMMA WholeInvReadAnswer ==
  ASSUME EchoInv, WholeInv, NEW c \in Clients, ReadAnswer(c)
  PROVE  WholeInv'
  <1>1. TypeOK /\ NetTypeOK /\ cstatus[c] = "waiting" /\ UNCHANGED <<typed, up>>
    BY Types DEF EchoInv, ReadAnswer, CloseClient
  <1>2. CASE /\ CloseClient(c) /\ UNCHANGED <<heard, shown>>
             /\ cstatus' = [cstatus EXCEPT ![c] = "exited"]
    BY <1>1, <1>2, WholeKept
       DEF WholeInv, Wholes, CloseClient, TypeOK, Alive
  <1>3. ASSUME NEW k \in RecvCount(c, down[c], MsgSize),
               shown' = [shown EXCEPT ![c] = Append(@, Front(down[c], k))],
               down' = [down EXCEPT ![c] = Rest(@, k)],
               cstatus' = [cstatus EXCEPT ![c] = "prompt"]
        PROVE  WholeInv'
    <2>1. ASSUME NEW d \in Wholes, d # c  PROVE Whole(d)'
      BY <1>1, <1>3, <2>1, WholeKept DEF WholeInv, Wholes, TypeOK, NetTypeOK
    <2>2. ASSUME c \in Wholes  PROVE Whole(c)'
      <3>1. Whole(c)
        BY <2>2 DEF WholeInv
      <3> QED  BY <1>1, <1>3, <2>2, <3>1, WholeAnswer
    <2> QED  BY <2>1, <2>2 DEF WholeInv, Wholes
  <1> QED  BY <1>2, <1>3 DEF ReadAnswer

LEMMA WholeInvAccept ==
  ASSUME EchoInv, WholeInv, Accept
  PROVE  WholeInv'
  <1>1. TypeOK /\ NetTypeOK /\ QueueOK /\ UNCHANGED <<typed, shown, up, cstatus>>
    BY Types DEF EchoInv, Accept, AcceptAndSend, ServerEnds, ServerGone
  <1>2. CASE ServerEnds("died")
    BY <1>1, <1>2, WholeKept DEF WholeInv, Wholes, ServerEnds, ServerGone
  <1>3. ASSUME NEW c \in Clients, AcceptAndSend(c, Hello)
        PROVE  WholeInv'
    <2>1. /\ down' = [down EXCEPT ![c] = @ \o Hello] /\ srv[c] = "none"
      <3>1. queue \in Seq(Clients) /\ queue # <<>> /\ c = Head(queue)
        BY <1>1, <1>3 DEF AcceptAndSend, NetTypeOK
      <3>2. 1 \in 1..Len(queue) /\ c = queue[1]
        BY <3>1, HeadTailProperties, LenProperties, EmptySeq
      <3> QED  BY <1>1, <1>3, <3>2 DEF AcceptAndSend, QueueOK
    <2>2. ASSUME NEW d \in Wholes, d # c  PROVE Whole(d)'
      BY <1>1, <2>1, <2>2, WholeKept DEF WholeInv, Wholes, NetTypeOK
    <2>3. ASSUME c \in Wholes  PROVE Whole(c)'
      <3>1. Whole(c) /\ cstatus[c] \notin {"prompt", "waiting"} /\ down[c] = <<>>
        BY <2>1, <2>3 DEF WholeInv, EchoInv, Good, Linked, Flows
      <3>2. down'[c] = Hello
        <4>1. down'[c] = down[c] \o Hello
          BY <1>1, <2>1 DEF NetTypeOK
        <4> QED  BY <3>1, <4>1, HelloProperties, ConcatEmptySeq
      <3> QED  BY <1>1, <3>1, <3>2 DEF Whole
    <2> QED  BY <2>2, <2>3 DEF WholeInv, Wholes
  <1> QED  BY <1>2, <1>3 DEF Accept

\* The server has received the message of a client whose messages come whole,
\* and sends it back or, if it is quit, does not.
LEMMA WholeServed ==
  ASSUME EchoInv, NEW c \in Wholes, Whole(c),
         NEW k \in RecvCount(c, up[c], MsgSize),
         up' = [up EXCEPT ![c] = Rest(@, k)],
         \/ down'[c] = down[c]
         \/ down'[c] = down[c] \o Front(up[c], k) /\ ~IsQuit(c, Front(up[c], k)),
         UNCHANGED <<typed, shown, cstatus>>
  PROVE  Whole(c)'
  <1> DEFINE n == Len(typed[c])
  <1>1. c \in Clients /\ TypeOK /\ NetTypeOK /\ n \in Nat /\ up[c] # <<>>
    <2>1. c \in Clients /\ TypeOK
      BY DEF Wholes, EchoInv
    <2>2. 1..Len(up[c]) # {}
      BY DEF RecvCount
    <2> QED  BY <2>1, <2>2, Types
  <1>2. CASE cstatus[c] = "waiting"
    <2>1. up[c] = Message(n) /\ down[c] = <<>> /\ n = Len(shown[c]) + 1
      BY <1>1, <1>2 DEF Whole, Underway
    <2>2. Message(n) \in Seq(Nat) /\ Len(Message(n)) = MsgSize /\ n \in 1..n
      <3>1. Len(shown[c]) \in Nat
        <4>1. shown[c] \in Seq(Seq(Nat))
          BY <1>1 DEF TypeOK
        <4> QED  BY <4>1, LenProperties
      <3> QED  BY <2>1, <3>1, MessageProperties
    <2>3. Front(up[c], k) = Message(n) /\ Rest(up[c], k) = <<>>
      BY <2>1, <2>2, ReadWhole
    <2>4. up'[c] = <<>>
      BY <1>1, <2>3 DEF NetTypeOK
    <2>5. \/ down'[c] = <<>>
          \/ down'[c] = Message(n) /\ ~typed[c][n]
      BY <2>1, <2>2, <2>3, ConcatEmptySeq DEF IsQuit
    <2>6. Underway(c)'
      BY <2>4, <2>5 DEF Underway
    <2> QED  BY <1>2, <2>6 DEF Whole
  <1>3. CASE cstatus[c] # "waiting"
    BY <1>1, <1>3 DEF Whole
  <1> QED  BY <1>2, <1>3

LEMMA WholeInvServe ==
  ASSUME EchoInv, WholeInv, NEW c \in serving, Serve(c)
  PROVE  WholeInv'
  <1>1. /\ c \in Clients /\ TypeOK /\ NetTypeOK
        /\ UNCHANGED <<typed, shown, cstatus>>
    <2>1. c \in Clients /\ TypeOK
      BY DEF EchoInv, TypeOK
    <2> QED  BY <2>1, Types DEF Serve
  <1>2. CASE UNCHANGED <<up, down>>
    BY <1>1, <1>2, WholeKept DEF WholeInv, Wholes
  <1>3. ASSUME NEW k \in RecvCount(c, up[c], MsgSize),
               up' = [up EXCEPT ![c] = Rest(@, k)],
               \/ down' = down
               \/ /\ down' = [down EXCEPT ![c] = @ \o Front(up[c], k)]
                  /\ ~IsQuit(c, Front(up[c], k))
        PROVE  WholeInv'
    <2>1. ASSUME NEW d \in Wholes, d # c  PROVE Whole(d)'
      <3>1. up'[d] = up[d] /\ down'[d] = down[d]
        BY <1>1, <1>3, <2>1 DEF Wholes, NetTypeOK
      <3> QED  BY <1>1, <2>1, <3>1, WholeKept DEF WholeInv, Wholes
    <2>2. ASSUME c \in Wholes  PROVE Whole(c)'
      <3>1. Whole(c)
        BY <2>2 DEF WholeInv
      <3>2. \/ down'[c] = down[c]
            \/ /\ down'[c] = down[c] \o Front(up[c], k)
               /\ ~IsQuit(c, Front(up[c], k))
        BY <1>1, <1>3 DEF NetTypeOK
      <3> QED  BY <1>1, <1>3, <2>2, <3>1, <3>2, WholeServed
    <2> QED  BY <2>1, <2>2 DEF WholeInv, Wholes
  <1> QED  BY <1>2, <1>3
           DEF Serve, BackToAccept, ServerEnds, ServerGone, EchoOf

LEMMA WholeInvNext == EchoInv /\ WholeInv /\ [Next]_vars => WholeInv'
  <1> SUFFICES ASSUME EchoInv, WholeInv, [Next]_vars  PROVE WholeInv'
    OBVIOUS
  <1>1. ASSUME NEW c \in Clients, KillClient(c)  PROVE WholeInv'
    <2>1. /\ TypeOK /\ UNCHANGED <<typed, shown, up, down>>
          /\ cstatus' = [cstatus EXCEPT ![c] = "killed"]
      BY <1>1 DEF EchoInv, KillClient, ClientEnds, ClientGone
    <2> QED  BY <2>1, WholeKept DEF WholeInv, Wholes, TypeOK, Alive
  <1>2. CASE UNCHANGED <<typed, shown, up, down, cstatus>>
    BY <1>2, WholeKept DEF WholeInv, Wholes
  <1>3. ASSUME NEW c \in Clients, ResetArrives(c), UNCHANGED echoVars
        PROVE  WholeInv'
    BY <1>2, <1>3 DEF ResetArrives, echoVars
  <1>4. CASE StartServer \/ KillServer
    BY <1>2, <1>4 DEF StartServer, Listen, KillServer, ServerEnds, ServerGone
  <1>5. CASE UNCHANGED vars
    BY <1>2, <1>5 DEF vars, netVars, echoVars
  <1>6. ASSUME NEW c \in Clients, ClientLoop(c)  PROVE WholeInv'
    BY <1>6, WholeInvReadHello, WholeInvReadAnswer DEF ClientLoop
  <1>7. CASE ServerLoop
    BY <1>7, WholeInvAccept, WholeInvServe DEF ServerLoop
  <1> QED  BY <1>1, <1>3, <1>4, <1>5, <1>6, <1>7, WholeInvStart,
              WholeInvTypeLine DEF Next

\* The variables of the service: what the users have typed, and what the clients
\* have printed, in the words of the service.
Answers(c) == [k \in 1..Len(shown[c]) |-> AnswerTo(c, k)]
AllTyped == [c \in Clients \ Cut |-> typed[c]]
AllAnswers == [c \in Clients \ Cut |-> [k \in 1..Len(shown[c]) |-> AnswerTo(c, k)]]

LEMMA ServiceInit == Init => Service!Init
  <1> SUFFICES ASSUME Init  PROVE Service!Init
    OBVIOUS
  <1>1. ASSUME NEW c \in Clients  PROVE typed[c] = <<>> /\ Answers(c) = <<>>
    <2>1. typed[c] = <<>> /\ shown[c] = <<>> /\ Len(shown[c]) = 0
      BY EmptySeq DEF Init
    <2> QED  BY <2>1 DEF Answers
  <1> QED  BY <1>1 DEF Service!Init, Answers

\* A step that changes no line and no answer of such a client is a stutter.
LEMMA ServiceStutters ==
  ASSUME \A c \in Wholes : typed'[c] = typed[c] /\ shown'[c] = shown[c]
  PROVE  UNCHANGED Service!vars
  <1>1. AllTyped' = AllTyped
    BY DEF AllTyped, Wholes
  <1>2. \A c \in Wholes : \A k \in 1..Len(shown[c]) :
           AnswerTo(c, k)' = AnswerTo(c, k)
    BY DEF AnswerTo
  <1>3. \A c \in Wholes : Answers(c)' = Answers(c)
    BY <1>2 DEF Answers
  <1>4. AllAnswers = [c \in Wholes |-> Answers(c)]
        /\ AllAnswers' = [c \in Wholes |-> Answers(c)']
    BY DEF AllAnswers, Answers, Wholes
  <1>5. AllAnswers' = AllAnswers
    BY <1>3, <1>4
  <1> QED  BY <1>1, <1>5 DEF Service!vars, AllTyped, AllAnswers

LEMMA ServiceAsks ==
  ASSUME EchoInv, WholeInv, NEW c \in Wholes, TypeLine(c)
  PROVE  Service!Ask(c)
  <1> DEFINE n == Len(typed[c])
  <1>1. /\ c \in Clients /\ TypeOK /\ Whole(c) /\ shown' = shown
        /\ n = Len(shown[c]) /\ n \in Nat
    <2>1. c \in Clients /\ TypeOK /\ Whole(c)
      BY DEF EchoInv, WholeInv, Wholes
    <2> QED  BY <2>1, Types DEF TypeLine, Whole
  <1>2. PICK quit \in BOOLEAN : typed' = [typed EXCEPT ![c] = Append(@, quit)]
    BY DEF TypeLine
  <1>3. /\ AllTyped[c] = typed[c] /\ AllAnswers[c] = Answers(c)
    BY DEF AllTyped, AllAnswers, Answers, Wholes
  <1>4. Len(Answers(c)) = n
    BY <1>1, LenProperties DEF Answers
  <1>5. ~\E k \in 1..Len(Answers(c)) : Answers(c)[k].quit
    <2>1. ASSUME NEW k \in 1..n  PROVE Answers(c)[k].quit = FALSE
      <3>1. Answers(c)[k] = AnswerTo(c, k)
        BY <1>1 DEF Answers
      <3>2. typed[c][k] = FALSE /\ shown[c][k] = Message(k)
        <4>1. ~typed[c][k] /\ shown[c][k] = Message(k)
          BY <1>1 DEF Whole
        <4>2. typed[c][k] \in BOOLEAN
          BY <1>1, ElementOfSeq DEF TypeOK
        <4> QED  BY <4>1, <4>2
      <3> QED  BY <3>1, <3>2 DEF AnswerTo
    <2> QED  BY <1>4, <2>1
  <1>6. AllTyped' = [AllTyped EXCEPT ![c] = Append(@, quit)]
    BY <1>1, <1>2 DEF AllTyped, TypeOK, Wholes
  <1>7. AllAnswers' = AllAnswers
    <2>1. ASSUME NEW d \in Wholes  PROVE Answers(d)' = Answers(d)
      <3>1. ASSUME NEW k \in 1..Len(shown[d])  PROVE AnswerTo(d, k)' = AnswerTo(d, k)
        <4>1. CASE d # c
          <5>1. typed'[d] = typed[d]
            BY <1>1, <1>2, <4>1 DEF TypeOK, Wholes
          <5> QED  BY <1>1, <5>1 DEF AnswerTo
        <4>2. CASE d = c
          <5>1. typed[c] \in Seq(BOOLEAN) /\ typed'[c] = Append(typed[c], quit)
            BY <1>1, <1>2 DEF TypeOK
          <5>2. \A i \in 1..n : typed'[c][i] = typed[c][i]
            BY <5>1, AppendProperties
          <5>3. typed'[d][k] = typed[d][k]
            BY <1>1, <4>2, <5>2
          <5> QED  BY <1>1, <5>3 DEF AnswerTo
        <4> QED  BY <4>1, <4>2
      <3> QED  BY <1>1, <3>1 DEF Answers
    <2>2. /\ AllAnswers = [d \in Wholes |-> Answers(d)]
          /\ AllAnswers' = [d \in Wholes |-> Answers(d)']
      BY DEF AllAnswers, Answers, Wholes
    <2> QED  BY <2>1, <2>2
  <1>8. Len(AllAnswers[c]) = Len(AllTyped[c])
    BY <1>1, <1>3, <1>4
  <1>9. ~\E k \in 1..Len(AllAnswers[c]) : AllAnswers[c][k].quit
    BY <1>3, <1>5
  <1> QED  BY <1>6, <1>7, <1>8, <1>9
           DEF Service!Ask, Service!Done, AllTyped, AllAnswers

LEMMA FunctionIsSeq ==
  ASSUME NEW T, NEW n \in Nat, NEW f \in [1..n -> T]
  PROVE  f \in Seq(T) /\ Len(f) = n
  <1>1. f \in Seq(T)
    BY SeqDef
  <1> QED  BY <1>1, LenProperties

LEMMA ServiceAnswers ==
  ASSUME EchoInv, WholeInv, NEW c \in Wholes,
         UNCHANGED typed, Len(typed[c]) = Len(shown[c]) + 1,
         shown' = [shown EXCEPT ![c] = Append(@, Message(Len(typed[c])))]
  PROVE  Service!Answer(c)
  <1> DEFINE m == Len(shown[c])
             n == Len(typed[c])
             answer == Service!Line(n, typed[c][n])
             S == [line : Nat, quit : BOOLEAN]
  <1>1. /\ c \in Clients /\ TypeOK /\ n \in Nat /\ m \in Nat /\ n = m + 1
        /\ typed[c] \in Seq(BOOLEAN) /\ shown[c] \in Seq(Seq(Nat))
    <2>1. c \in Clients /\ TypeOK
      BY DEF Wholes, EchoInv
    <2>2. shown[c] \in Seq(Seq(Nat))
      BY <2>1 DEF TypeOK
    <2> QED  BY <2>1, <2>2, Types, LenProperties
  <1>2. Message(n) \in Seq(Nat)
    BY <1>1, MessageProperties
  <1>3. /\ shown'[c] = Append(shown[c], Message(n))
        /\ Len(shown'[c]) = n /\ shown'[c][n] = Message(n)
        /\ \A k \in 1..m : shown'[c][k] = shown[c][k]
    <2>1. shown'[c] = Append(shown[c], Message(n))
      BY <1>1 DEF TypeOK
    <2> DEFINE msg == Message(n)
    <2> HIDE DEF msg
    <2>2. msg \in Seq(Nat) /\ shown'[c] = Append(shown[c], msg)
      BY <1>2, <2>1 DEF msg
    <2>3. /\ Len(shown'[c]) = m + 1 /\ shown'[c][m + 1] = msg
          /\ \A k \in 1..m : shown'[c][k] = shown[c][k]
      BY <1>1, <2>2, AppendProperties
    <2> QED  BY <1>1, <2>1, <2>3 DEF msg
  <1>4. \A k \in 1..n : typed[c][k] \in BOOLEAN
    BY <1>1, ElementOfSeq
  <1>5. answer \in S /\ AnswerTo(c, n)' = answer
    <2>1. n \in 1..n /\ shown'[c][n] = Message(n) /\ typed'[c][n] = typed[c][n]
      BY <1>1, <1>3
    <2> QED  BY <1>1, <1>4, <2>1 DEF AnswerTo, Service!Line
  <1>6. ASSUME NEW k \in 1..m
        PROVE  AnswerTo(c, k)' = AnswerTo(c, k) /\ AnswerTo(c, k) \in S
    <2>1. shown'[c][k] = shown[c][k] /\ typed'[c][k] = typed[c][k]
          /\ typed[c][k] \in BOOLEAN /\ k \in Nat
      BY <1>1, <1>3, <1>4
    <2> QED  BY <2>1 DEF AnswerTo
  <1>7. Answers(c) \in Seq(S) /\ Len(Answers(c)) = m
    <2>1. Answers(c) = [k \in 1..m |-> AnswerTo(c, k)]
      BY DEF Answers
    <2>2. Answers(c) \in [1..m -> S]
      BY <1>6, <2>1
    <2> HIDE DEF m, S
    <2> QED  BY <1>1, <2>2, FunctionIsSeq
  <1>8. Answers(c)' = Append(Answers(c), answer)
    <2> DEFINE old == Answers(c)
               new == [k \in 1..n |-> AnswerTo(c, k)']
               more == Append(old, answer)
    <2>1. Answers(c)' = new
      BY <1>3 DEF Answers
    <2>2. \A k \in 1..m : old[k] = AnswerTo(c, k)
      BY DEF Answers
    <2>3. \A k \in 1..n : k \in 1..m \/ k = n
      BY <1>1
    <2>4. \A k \in 1..n : new[k] = IF k = n THEN answer ELSE old[k]
      BY <1>5, <1>6, <2>2, <2>3
    <2>5. old \in Seq(S) /\ Len(old) = m /\ answer \in S
      BY <1>5, <1>7
    <2>6. new \in Seq(S) /\ Len(new) = n
      <3>1. \A k \in 1..n : AnswerTo(c, k)' \in S
        BY <1>5, <1>6, <2>3
      <3>2. new \in [1..n -> S]
        BY <3>1
      <3> HIDE DEF n, new, S
      <3> QED  BY <1>1, <3>2, FunctionIsSeq
    <2> HIDE DEF old, new, answer, S
    <2>7. /\ more \in Seq(S) /\ Len(more) = m + 1
          /\ \A k \in 1..m : more[k] = old[k]
          /\ more[m + 1] = answer
      BY <2>5, AppendProperties
    <2> HIDE DEF more
    <2>8. \A k \in 1..n : new[k] = more[k]
      BY <1>1, <2>3, <2>4, <2>7
    <2>9. new = more
      BY <1>1, <2>6, <2>7, <2>8, SeqEqual
    <2> QED  BY <2>1, <2>9 DEF more, old
  <1>9. AllAnswers' = [AllAnswers EXCEPT ![c] = Append(@, answer)]
    <2>1. ASSUME NEW d \in Wholes, d # c  PROVE Answers(d)' = Answers(d)
      <3>1. shown'[d] = shown[d] /\ typed'[d] = typed[d]
        BY <1>1, <2>1 DEF TypeOK, Wholes
      <3> QED  BY <3>1 DEF Answers, AnswerTo
    <2>2. /\ AllAnswers = [d \in Wholes |-> Answers(d)]
          /\ AllAnswers' = [d \in Wholes |-> Answers(d)']
      BY DEF AllAnswers, Answers, Wholes
    <2> HIDE DEF answer
    <2> QED  BY <1>8, <2>1, <2>2
  <1>10. /\ AllTyped[c] = typed[c] /\ AllAnswers[c] = Answers(c)
         /\ AllTyped' = AllTyped
    BY DEF AllTyped, AllAnswers, Answers, Wholes
  <1>11. Len(AllAnswers[c]) < Len(AllTyped[c]) /\ Len(AllAnswers[c]) + 1 = n
    BY <1>1, <1>7, <1>10
  <1> DEFINE a == AllAnswers
             b == AllTyped
  <1>12. LET j == Len(a[c]) + 1
         IN  a' = [a EXCEPT ![c] = Append(@, Service!Line(j, b[c][j]))]
    BY <1>9, <1>10, <1>11
  <1> QED  BY <1>10, <1>11, <1>12 DEF Service!Answer, AllTyped, AllAnswers

LEMMA ServiceNext ==
  EchoInv /\ WholeInv /\ [Next]_vars => [Service!Next]_(Service!vars)
  <1> SUFFICES ASSUME EchoInv, WholeInv, [Next]_vars
      PROVE  Service!Next \/ UNCHANGED Service!vars
    BY DEF Service!Next
  <1>1. TypeOK
    BY DEF EchoInv
  <1>2. CASE UNCHANGED <<typed, shown>>
    BY <1>2, ServiceStutters
  <1>3. ASSUME NEW c \in Clients, TypeLine(c)
        PROVE  Service!Next \/ UNCHANGED Service!vars
    <2>1. CASE c \in Wholes
      BY <1>3, <2>1, ServiceAsks DEF Service!Next, Wholes
    <2>2. CASE c \notin Wholes
      <3>1. PICK quit \in BOOLEAN : typed' = [typed EXCEPT ![c] = Append(@, quit)]
        BY <1>3 DEF TypeLine
      <3>2. \A d \in Wholes : typed'[d] = typed[d] /\ shown'[d] = shown[d]
        BY <1>1, <1>3, <2>2, <3>1 DEF TypeLine, TypeOK, Wholes
      <3> QED  BY <3>2, ServiceStutters
    <2> QED  BY <2>1, <2>2
  <1>4. ASSUME NEW c \in Clients, ReadAnswer(c)
        PROVE  Service!Next \/ UNCHANGED Service!vars
    <2>1. CASE UNCHANGED shown
      BY <1>2, <1>4, <2>1 DEF ReadAnswer
    <2>2. ASSUME NEW k \in RecvCount(c, down[c], MsgSize),
                 shown' = [shown EXCEPT ![c] = Append(@, Front(down[c], k))],
                 down' = [down EXCEPT ![c] = Rest(@, k)],
                 cstatus' = [cstatus EXCEPT ![c] = "prompt"],
                 UNCHANGED <<up, typed>>
          PROVE  Service!Next \/ UNCHANGED Service!vars
      <3>1. CASE c \notin Wholes
        <4>1. \A d \in Wholes : typed'[d] = typed[d] /\ shown'[d] = shown[d]
          BY <1>1, <2>2, <3>1 DEF TypeOK, Wholes
        <4> QED  BY <4>1, ServiceStutters
      <3>2. CASE c \in Wholes
        <4>1. cstatus[c] = "waiting" /\ Whole(c)
          BY <1>4, <3>2 DEF ReadAnswer, WholeInv
        <4>2. /\ Len(typed[c]) = Len(shown[c]) + 1
              /\ shown'[c] = Append(shown[c], Message(Len(typed[c])))
          BY <2>2, <3>2, <4>1, WholeAnswer
        <4>3. shown' = [shown EXCEPT ![c] = Append(@, Message(Len(typed[c])))]
          BY <1>1, <2>2, <4>2 DEF TypeOK
        <4>4. Service!Answer(c)
          BY <2>2, <3>2, <4>2, <4>3, ServiceAnswers
        <4>5. \E d \in Clients \ Cut : Service!Answer(d)
          BY <3>2, <4>4 DEF Wholes
        <4> QED  BY <4>5 DEF Service!Next
      <3> QED  BY <3>1, <3>2
    <2> QED  BY <1>4, <2>1, <2>2 DEF ReadAnswer
  <1>5. ASSUME NEW c \in Clients, StartClient(c) \/ ReadHello(c) \/ KillClient(c)
        PROVE  Service!Next \/ UNCHANGED Service!vars
    BY <1>2, <1>5 DEF StartClient, ReadHello, KillClient
  <1>6. ASSUME NEW c \in Clients, UNCHANGED echoVars
        PROVE  Service!Next \/ UNCHANGED Service!vars
    BY <1>2, <1>6 DEF echoVars
  <1>7. ASSUME NEW c \in serving, Serve(c)
        PROVE  Service!Next \/ UNCHANGED Service!vars
    BY <1>2, <1>7 DEF Serve
  <1>8. CASE StartServer \/ Accept \/ KillServer \/ UNCHANGED vars
    BY <1>2, <1>8 DEF StartServer, Accept, KillServer, vars, echoVars
  <1>9. CASE Next
    <2>1. CASE \E c \in Clients :
                 \/ StartClient(c) \/ TypeLine(c) \/ ClientLoop(c) \/ KillClient(c)
                 \/ ResetArrives(c) /\ UNCHANGED echoVars
      <3>1. PICK c \in Clients :
                   \/ StartClient(c) \/ TypeLine(c) \/ ClientLoop(c)
                   \/ KillClient(c)
                   \/ ResetArrives(c) /\ UNCHANGED echoVars
        BY <2>1
      <3>2. CASE StartClient(c) \/ KillClient(c)
        BY <1>5, <3>2
      <3>3. CASE TypeLine(c)
        BY <1>3, <3>3
      <3>4. CASE ClientLoop(c)
        BY <1>4, <1>5, <3>4 DEF ClientLoop
      <3>5. CASE UNCHANGED echoVars
        BY <1>6, <3>5
      <3> QED  BY <3>1, <3>2, <3>3, <3>4, <3>5
    <2>2. CASE StartServer \/ ServerLoop \/ KillServer
      BY <1>7, <1>8, <2>2, Zenon DEF ServerLoop
    <2> QED  BY <1>9, <2>1, <2>2, Zenon DEF Next
  <1> QED  BY <1>8, <1>9

\* For all values of the constants, and whoever goes away: the clients of lab 2
\* whose messages come whole, and the server, implement the echo service.
THEOREM TcpImplementsEcho == Spec => ImplementsEcho
  BY EchoInvariant, EchoInvInit, WholeInvInit, WholeInvNext, ServiceInit,
     ServiceNext, PTL DEF Spec, ImplementsEcho, Service!Spec
=============================================================================
