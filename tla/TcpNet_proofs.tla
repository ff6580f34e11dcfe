---------------------------- MODULE TcpNet_proofs ----------------------------
(***************************************************************************)
(* What TcpNet keeps true whatever its programs do, and what its operators *)
(* on streams return, for any number of clients.                           *)
(***************************************************************************)
EXTENDS TcpNet, SequenceTheorems, TLAPS

-----------------------------------------------------------------------------
(* Streams. *)

\* The parts of a stream.
LEMMA CutProperties ==
  ASSUME NEW s \in Seq(Nat), NEW k \in 0..Len(s)
  PROVE  /\ Front(s, k) \in Seq(Nat) /\ Len(Front(s, k)) = k
         /\ \A i \in 1..k : Front(s, k)[i] = s[i]
         /\ Rest(s, k) \in Seq(Nat) /\ Len(Rest(s, k)) = Len(s) - k
         /\ \A i \in 1..(Len(s) - k) : Rest(s, k)[i] = s[k + i]
  <1>1. Len(s) \in Nat
    BY LenProperties
  <1>2. ASSUME NEW m \in 1..(Len(s) + 1), NEW n \in 0..Len(s)
        PROVE  /\ SubSeq(s, m, n) \in Seq(Nat)
               /\ Len(SubSeq(s, m, n)) = IF m <= n THEN n - m + 1 ELSE 0
               /\ \A i \in 1..(n - m + 1) : SubSeq(s, m, n)[i] = s[m + i - 1]
    <2>1. \A i \in m..n : i \in 1..Len(s)
      BY <1>1
    <2>2. \A i \in m..n : s[i] \in Nat
      BY <2>1, ElementOfSeq
    <2> QED  BY <1>1, <2>2, SubSeqProperties
  <1>3. /\ Front(s, k) \in Seq(Nat) /\ Len(Front(s, k)) = k
        /\ \A i \in 1..k : Front(s, k)[i] = s[i]
    BY <1>1, <1>2 DEF Front
  <1>4. /\ Rest(s, k) \in Seq(Nat) /\ Len(Rest(s, k)) = Len(s) - k
        /\ \A i \in 1..(Len(s) - k) : Rest(s, k)[i] = s[k + i]
    BY <1>1, <1>2 DEF Rest
  <1> QED  BY <1>3, <1>4

\* A stream is cut where two pieces of it were joined.
LEMMA CutOfConcat ==
  ASSUME NEW s \in Seq(Nat), NEW t \in Seq(Nat)
  PROVE  /\ Len(s) \in 0..Len(s \o t)
         /\ Front(s \o t, Len(s)) = s
         /\ Rest(s \o t, Len(s)) = t
  <1> DEFINE both == s \o t
  <1>1. /\ Len(s) \in Nat /\ Len(t) \in Nat
        /\ both \in Seq(Nat) /\ Len(both) = Len(s) + Len(t)
        /\ \A i \in 1..(Len(s) + Len(t)) :
             both[i] = IF i <= Len(s) THEN s[i] ELSE t[i - Len(s)]
    BY LenProperties, ConcatProperties
  <1> HIDE DEF both
  <1>2. Len(s) \in 0..Len(both)
    BY <1>1
  <1>3. Front(both, Len(s)) = s
    <2>1. /\ Front(both, Len(s)) \in Seq(Nat) /\ Len(Front(both, Len(s))) = Len(s)
          /\ \A i \in 1..Len(s) : Front(both, Len(s))[i] = both[i]
      BY <1>1, <1>2, CutProperties
    <2>2. \A i \in 1..Len(s) : both[i] = s[i]
      BY <1>1
    <2> QED  BY <2>1, <2>2, SeqEqual
  <1>4. Rest(both, Len(s)) = t
    <2>1. Len(both) - Len(s) = Len(t)
      BY <1>1
    <2>2. /\ Rest(both, Len(s)) \in Seq(Nat) /\ Len(Rest(both, Len(s))) = Len(t)
          /\ \A i \in 1..Len(t) : Rest(both, Len(s))[i] = both[Len(s) + i]
      <3>1. /\ Rest(both, Len(s)) \in Seq(Nat)
            /\ Len(Rest(both, Len(s))) = Len(both) - Len(s)
            /\ \A i \in 1..(Len(both) - Len(s)) :
                 Rest(both, Len(s))[i] = both[Len(s) + i]
        BY <1>1, <1>2, CutProperties
      <3> QED  BY <2>1, <3>1
    <2>3. ASSUME NEW i \in 1..Len(t)  PROVE both[Len(s) + i] = t[i]
      <3>1. /\ Len(s) + i \in 1..(Len(s) + Len(t)) /\ ~(Len(s) + i <= Len(s))
            /\ (Len(s) + i) - Len(s) = i
        BY <1>1
      <3> QED  BY <1>1, <3>1
    <2> QED  BY <2>2, <2>3, SeqEqual
  <1> QED  BY <1>2, <1>3, <1>4 DEF both

\* A stream that holds one piece is cut behind it.
LEMMA CutWhole ==
  ASSUME NEW s \in Seq(Nat)
  PROVE  Len(s) \in 0..Len(s) /\ Front(s, Len(s)) = s /\ Rest(s, Len(s)) = <<>>
  <1>1. <<>> \in Seq(Nat) /\ s \o <<>> = s
    BY EmptySeq, ConcatEmptySeq
  <1> QED  BY <1>1, CutOfConcat

-----------------------------------------------------------------------------
(* The network. *)

\* Pending connections wait once, and have not been accepted.
QueueOK ==
  /\ \A i \in 1..Len(queue) :
       /\ srv[queue[i]] = "none" /\ cli[queue[i]] # "none"
       /\ cli[queue[i]] = "open" \/ queue[i] \in reset
  /\ \A i, j \in 1..Len(queue) : queue[i] = queue[j] => i = j

\* A client has a connection before anything goes through it, and does not close
\* one that the server holds, unless it was reset.
Connected(c) ==
  /\ cli[c] = "none" => srv[c] = "none" /\ up[c] = <<>>
  /\ srv[c] = "none" => down[c] = <<>>
  /\ srv[c] = "open" => cli[c] = "open" \/ c \in reset

NetInv == NetTypeOK /\ QueueOK /\ \A c \in Clients : Connected(c)

LEMMA NetTypes ==
  ASSUME NetTypeOK
  PROVE  /\ queue \in Seq(Clients) /\ Len(queue) \in Nat
         /\ \A i \in 1..Len(queue) : queue[i] \in Clients
         /\ \A c \in Clients :
              /\ up[c] \in Seq(Nat) /\ Len(up[c]) \in Nat
              /\ down[c] \in Seq(Nat) /\ Len(down[c]) \in Nat
  BY LenProperties, ElementOfSeq DEF NetTypeOK

LEMMA NetInvInit == NetInit => NetInv
  <1>1. <<>> \in Seq(Nat) /\ <<>> \in Seq(Clients) /\ Len(<<>>) = 0
    BY EmptySeq
  <1> SUFFICES ASSUME NetInit  PROVE NetInv
    OBVIOUS
  <1>2. NetTypeOK
    BY <1>1 DEF NetInit, NetTypeOK, Ends
  <1>3. QueueOK
    BY <1>1 DEF NetInit, QueueOK
  <1>4. \A c \in Clients : Connected(c)
    BY DEF NetInit, Connected
  <1> QED  BY <1>2, <1>3, <1>4 DEF NetInv

LEMMA NetInvListen ==
  ASSUME NetInv, Listen
  PROVE  NetInv'
  BY DEF Listen, NetInv, NetTypeOK, QueueOK, Connected

LEMMA NetInvConnect ==
  ASSUME NetInv, NEW c \in Clients, cli[c] = "none", Connect(c)
  PROVE  NetInv'
  <1>1. /\ NetTypeOK /\ QueueOK /\ queue \in Seq(Clients) /\ Len(queue) \in Nat
        /\ srv[c] = "none"
        /\ cli' = [cli EXCEPT ![c] = "open"]
        /\ UNCHANGED <<srv, up, down, reset>>
    BY NetTypes DEF NetInv, Connected, Connect
  <1>2. /\ queue' \in Seq(Clients) /\ Len(queue') = Len(queue) + 1
        /\ \A i \in 1..Len(queue) : queue'[i] = queue[i]
        /\ queue'[Len(queue) + 1] = c
    BY <1>1, AppendProperties DEF Connect
  <1>3. \A i \in 1..Len(queue) : queue[i] # c /\ queue[i] \in Clients
    BY <1>1, NetTypes DEF QueueOK
  <1>4. \A i \in 1..Len(queue') : i \in 1..Len(queue) \/ i = Len(queue) + 1
    BY <1>1, <1>2
  <1>5. NetTypeOK'
    BY <1>1, <1>2 DEF Connect, NetTypeOK, Ends
  <1>6. QueueOK'
    <2>1. \A i \in 1..Len(queue') :
            /\ srv'[queue'[i]] = "none" /\ cli'[queue'[i]] # "none"
            /\ cli'[queue'[i]] = "open" \/ queue'[i] \in reset'
      <3>1. ASSUME NEW i \in 1..Len(queue)
            PROVE  /\ srv[queue[i]] = "none" /\ cli'[queue[i]] # "none"
                   /\ cli'[queue[i]] = "open" \/ queue[i] \in reset
        BY <1>1, <1>3 DEF QueueOK, NetTypeOK
      <3>2. cli'[c] = "open"
        BY <1>1 DEF NetTypeOK
      <3> QED  BY <1>1, <1>2, <1>4, <3>1, <3>2
    <2>2. \A i, j \in 1..Len(queue') : queue'[i] = queue'[j] => i = j
      BY <1>1, <1>2, <1>3, <1>4 DEF QueueOK
    <2> QED  BY <2>1, <2>2 DEF QueueOK
  <1>7. ASSUME NEW d \in Clients  PROVE Connected(d)'
    BY <1>1 DEF NetInv, NetTypeOK, Connected
  <1> QED  BY <1>5, <1>6, <1>7 DEF NetInv

LEMMA NetInvAccept ==
  ASSUME NetInv, NEW c \in Clients, AcceptAndSend(c, <<>>)
  PROVE  NetInv' /\ srv[c] = "none" /\ cli[c] = "open" /\ UNCHANGED down
  <1>1. /\ NetTypeOK /\ QueueOK /\ queue \in Seq(Clients) /\ Len(queue) \in Nat
        /\ queue # <<>> /\ c = Head(queue) /\ c \notin reset
        /\ queue' = Tail(queue)
        /\ srv' = [srv EXCEPT ![c] = "open"]
        /\ down' = [down EXCEPT ![c] = @ \o <<>>]
        /\ UNCHANGED <<listening, cli, up, reset>>
    BY NetTypes DEF NetInv, AcceptAndSend
  <1>2. /\ Len(queue) >= 1 /\ c = queue[1]
        /\ queue' \in Seq(Clients) /\ Len(queue') = Len(queue) - 1
        /\ \A i \in 1..Len(queue') : queue'[i] = queue[i + 1]
    BY <1>1, EmptySeq, HeadTailProperties
  <1>3. srv[c] = "none" /\ cli[c] = "open"
    BY <1>1, <1>2 DEF QueueOK
  <1>4. UNCHANGED down
    <2>1. down[c] \o <<>> = down[c]
      BY <1>1, NetTypes, ConcatEmptySeq
    <2> QED  BY <1>1, <2>1 DEF NetTypeOK
  <1>5. NetTypeOK'
    BY <1>1, <1>2, <1>4 DEF NetTypeOK, Ends
  <1>6. QueueOK'
    <2>1. \A i \in 1..Len(queue') : i + 1 \in 1..Len(queue) /\ i + 1 # 1
      BY <1>1, <1>2
    <2>2. \A i \in 1..Len(queue') : queue'[i] # c /\ queue'[i] \in Clients
      <3>1. 1 \in 1..Len(queue)
        BY <1>1, <1>2
      <3> QED  BY <1>1, <1>2, <2>1, <3>1, NetTypes DEF QueueOK
    <2>3. \A i \in 1..Len(queue') :
            /\ srv'[queue'[i]] = "none" /\ cli'[queue'[i]] # "none"
            /\ cli'[queue'[i]] = "open" \/ queue'[i] \in reset'
      BY <1>1, <1>2, <2>1, <2>2 DEF QueueOK, NetTypeOK
    <2>4. ASSUME NEW i \in 1..Len(queue'), NEW j \in 1..Len(queue'),
                 queue'[i] = queue'[j]
          PROVE  i = j
      <3>1. i + 1 = j + 1
        BY <1>1, <1>2, <2>1, <2>4 DEF QueueOK
      <3> QED  BY <3>1
    <2> QED  BY <2>3, <2>4 DEF QueueOK
  <1>7. ASSUME NEW d \in Clients  PROVE Connected(d)'
    BY <1>1, <1>3, <1>4 DEF NetInv, NetTypeOK, Connected
  <1> QED  BY <1>3, <1>4, <1>5, <1>6, <1>7 DEF NetInv

\* A client's socket is closed, with its process or because the connection has
\* ended.
LEMMA NetInvClientEnds ==
  ASSUME NetInv, NEW c \in Clients,
         \/ ClientGone(c)
         \/ cli[c] # "none" /\ ClientSeesEnd(c) /\ CloseClient(c)
  PROVE  NetInv'
  <1>1. /\ NetTypeOK /\ QueueOK /\ cli' = [cli EXCEPT ![c] = "closed"]
        /\ UNCHANGED <<listening, queue, srv, up, down>>
        /\ reset \subseteq reset' /\ reset' \subseteq reset \cup {c}
        /\ \/ cli[c] = "open" => c \in reset'
           \/ ClientSeesEnd(c) /\ reset' = reset
    BY DEF NetInv, ClientGone, CloseClient
  <1>2. \A d \in Clients : d # c => cli'[d] = cli[d]
    BY <1>1 DEF NetTypeOK
  <1>3. NetTypeOK' /\ cli'[c] = "closed"
    BY <1>1 DEF NetTypeOK, Ends
  <1>4. srv[c] # "closed" /\ cli[c] = "open" => c \in reset'
    BY <1>1 DEF ClientSeesEnd
  <1>5. QueueOK'
    BY <1>1, <1>2, <1>3, <1>4, NetTypes DEF QueueOK
  <1>6. ASSUME NEW d \in Clients  PROVE Connected(d)'
    <2>1. CASE d # c
      BY <1>1, <1>2, <2>1 DEF NetInv, Connected
    <2>2. CASE d = c
      BY <1>1, <1>3, <1>4, <2>2 DEF NetInv, Connected
    <2> QED  BY <2>1, <2>2
  <1> QED  BY <1>3, <1>5, <1>6 DEF NetInv

LEMMA NetInvServerGone ==
  ASSUME NetInv, ServerGone
  PROVE  /\ NetInv'
         /\ \A c \in Clients : srv'[c] # "open"
         /\ \A c \in Clients : /\ cli[c] = "open" => c \in reset' \/ srv[c] = "closed"
                               /\ srv[c] = "open" => c \in reset'
  <1>1. /\ NetTypeOK /\ queue' = <<>>
        /\ srv' = [c \in Clients |-> IF srv[c] = "open" THEN "closed" ELSE srv[c]]
        /\ reset' = reset \cup {c \in Clients : cli[c] = "open" /\ srv[c] # "closed"}
        /\ UNCHANGED <<cli, up, down>>
    BY DEF NetInv, ServerGone
  <1>2. <<>> \in Seq(Clients) /\ Len(<<>>) = 0
    BY EmptySeq
  <1>3. NetTypeOK'
    BY <1>1, <1>2 DEF ServerGone, NetTypeOK, Ends
  <1>4. QueueOK'
    BY <1>1, <1>2 DEF QueueOK
  <1>5. ASSUME NEW c \in Clients  PROVE Connected(c)'
    BY <1>1 DEF NetInv, NetTypeOK, Connected
  <1> QED  BY <1>1, <1>3, <1>4, <1>5 DEF NetInv, NetTypeOK, Connected

\* The server closes the socket of a client.
LEMMA NetInvServerCloses ==
  ASSUME NetInv, NEW c \in Clients, srv[c] = "open",
         srv' = [srv EXCEPT ![c] = "closed"], up' \in [Clients -> Seq(Nat)],
         \A d \in Clients : d # c => up'[d] = up[d],
         UNCHANGED <<listening, queue, cli, down, reset>>
  PROVE  NetInv'
  <1>1. NetTypeOK /\ QueueOK /\ cli[c] # "none"
    BY DEF NetInv, Connected
  <1>2. NetTypeOK'
    BY <1>1 DEF NetTypeOK, Ends
  <1>3. QueueOK'
    BY <1>1, NetTypes DEF QueueOK, NetTypeOK
  <1>4. ASSUME NEW d \in Clients  PROVE Connected(d)'
    BY <1>1 DEF NetInv, NetTypeOK, Connected
  <1> QED  BY <1>2, <1>3, <1>4 DEF NetInv

\* Data is sent or received.
LEMMA NetInvData ==
  ASSUME NetInv,
         up' \in [Clients -> Seq(Nat)], down' \in [Clients -> Seq(Nat)],
         \A c \in Clients : cli[c] = "none" => up'[c] = up[c],
         \A c \in Clients : srv[c] = "none" => down'[c] = down[c],
         UNCHANGED <<listening, queue, cli, srv, reset>>
  PROVE  NetInv'
  BY DEF NetInv, NetTypeOK, QueueOK, Connected

\* A connection is reset.
LEMMA NetInvReset ==
  ASSUME NetInv, NEW c \in Clients, ResetArrives(c)
  PROVE  NetInv' /\ reset \subseteq reset'
  BY DEF ResetArrives, NetInv, NetTypeOK, QueueOK, Connected
=============================================================================
