--------------------------- MODULE SizeFirst_proofs ---------------------------
(***************************************************************************)
(* Proofs about SizeFirst, for any number of clients and lines of any      *)
(* sizes, and any width of the header.                                     *)
(***************************************************************************)
EXTENDS SizeFirst, TcpNet_proofs

-----------------------------------------------------------------------------
(* What goes through the streams. *)

LEMMA HeaderProperties ==
  ASSUME NEW n \in Nat
  PROVE  /\ Header(n) \in Seq(Nat) /\ Len(Header(n)) = HeaderSize
         /\ \A j \in 1..HeaderSize : Header(n)[j] = 2 * n
         /\ HeaderSize \in Nat /\ HeaderSize >= 1
  <1>1. HeaderSize \in Nat /\ HeaderSize >= 1 /\ 2 * n \in Nat
    BY SizeAssumption
  <1>2. Header(n) \in [1..HeaderSize -> Nat]
    BY <1>1 DEF Header
  <1>3. Header(n) \in Seq(Nat)
    BY <1>1, <1>2, SeqDef
  <1> QED  BY <1>1, <1>3, LenProperties DEF Header

LEMMA TextProperties ==
  ASSUME NEW n \in Nat, NEW size \in Nat
  PROVE  /\ Text(n, size) \in Seq(Nat) /\ Len(Text(n, size)) = size
         /\ \A j \in 1..size : Text(n, size)[j] = 2 * n + 1
  <1>1. 2 * n + 1 \in Nat
    OBVIOUS
  <1>2. Text(n, size) \in [1..size -> Nat]
    BY <1>1 DEF Text
  <1>3. Text(n, size) \in Seq(Nat)
    BY <1>2, SeqDef
  <1> QED  BY <1>3, LenProperties DEF Text

\* The bytes of the n-th line name it.
LEMMA LineOfByte == \A n \in Nat : (2 * n) \div 2 = n /\ (2 * n + 1) \div 2 = n
                             /\ (2 * n) % 2 = 0
  BY SMT

Acks == [j \in 1..HeaderSize |-> 0]

LEMMA AckProperties ==
  ASSUME NEW s \in Seq(Nat)
  PROVE  /\ AckOf(s) \in Seq(Nat)
         /\ Len(s) = HeaderSize => AckOf(s) = Acks /\ Len(Acks) = HeaderSize
                                   /\ Acks \in Seq(Nat)
  <1>1. Len(s) \in Nat
    BY LenProperties
  <1>2. AckOf(s) \in [1..Len(s) -> Nat]
    BY <1>1 DEF AckOf
  <1>3. AckOf(s) \in Seq(Nat)
    BY <1>1, <1>2, SeqDef
  <1>4. Len(AckOf(s)) = Len(s)
    BY <1>1, <1>3, LenProperties DEF AckOf
  <1> QED  BY <1>3, <1>4 DEF AckOf, Acks

-----------------------------------------------------------------------------
(* The inductive invariant. *)

Running == {"prompt", "freeing", "waiting"}

\* Has c sent a header that has not come back?
Asked(c) == cstatus[c] \in {"freeing", "waiting"}

\* Does the server wait for a text of c?
InText(c) == c \in serving /\ sstatus = "text"

\* The text of the n-th line of c, and how many lines it has typed, and the server
\* has printed.
TextOf(c, n) == Text(n, sizes[c][n])
Typed(c) == Len(sizes[c])
Printed(c) == Len(printed[c])

\* How the socket and the history of c go with the state of its program; the bytes
\* that it has sent are those of lines that it has typed.
Linked(c) ==
  /\ cli[c] = "none" <=> cstatus[c] = "start"
  /\ cli[c] = "open" <=> cstatus[c] \in Running
  /\ cstatus[c] = "start" => sizes[c] = <<>>
  /\ Asked(c) => sizes[c] # <<>>
  /\ srv[c] = "none" => printed[c] = <<>>
  /\ \A j \in 1..Len(up[c]) : up[c][j] \div 2 \in 1..Typed(c)

\* LinesPrinted, of c: once rubbish has been printed, the server is no more in
\* a text of c.
PrintedOK(c) ==
  \A k \in 1..Printed(c) :
    (\A n \in 1..Typed(c) : n <= k => Short(sizes[c][n]))
      => \/ k <= Typed(c) /\ printed[c][k] = TextOf(c, k)
         \/ /\ printed[c][k] = Rubbish
            /\ k = Printed(c) /\ c \in reset /\ ~InText(c)

\* The connection of c is in use or pending, and the lines up to the one that the
\* server is to print next are short.
OnTrack(c) ==
  /\ cli[c] = "open" /\ srv[c] # "closed" /\ c \notin reset
  /\ \A m \in 1..Typed(c) : m <= Printed(c) + 1 => Short(sizes[c][m])

\* All has been printed, and nothing is on its way.
Idle(c) ==
  /\ ~InText(c) /\ cstatus[c] = "prompt" /\ Typed(c) = Printed(c)
  /\ up[c] = <<>> /\ down[c] = <<>>

\* The server has not read the header of the last line.
HeaderSent(c) ==
  /\ ~InText(c) /\ Asked(c) /\ Typed(c) = Printed(c) + 1
  /\ up[c] = Header(Typed(c)) /\ down[c] = <<>>

\* It has sent it back.
HeaderBack(c) ==
  /\ InText(c) /\ Asked(c) /\ Typed(c) = Printed(c) + 1
  /\ expected = sizes[c][Typed(c)]
  /\ up[c] = <<>> /\ down[c] = Acks

\* It has sent it back and printed the line, which is empty.
EmptyPrinted(c) ==
  /\ ~InText(c) /\ Asked(c) /\ Typed(c) = Printed(c)
  /\ sizes[c][Typed(c)] = 0
  /\ up[c] = <<>> /\ down[c] = Acks

\* The text of the last line has been sent.
TextSent(c) ==
  /\ InText(c) /\ cstatus[c] = "prompt" /\ Typed(c) = Printed(c) + 1
  /\ expected = sizes[c][Typed(c)]
  /\ up[c] = TextOf(c, Typed(c)) /\ down[c] = <<>>

\* So has the header of the next one.
NextHeaderSent(c) ==
  /\ InText(c) /\ Asked(c) /\ Typed(c) = Printed(c) + 2
  /\ expected = sizes[c][Printed(c) + 1]
  /\ up[c] = TextOf(c, Printed(c) + 1) \o Header(Typed(c)) /\ down[c] = <<>>

InStep(c) ==
  \/ Idle(c) \/ HeaderSent(c) \/ HeaderBack(c)
  \/ EmptyPrinted(c) \/ TextSent(c) \/ NextHeaderSent(c)

Good(c) == /\ Linked(c) /\ PrintedOK(c)
           /\ OnTrack(c) => InStep(c)

SizeInv == TypeOK /\ NetInv /\ \A c \in Clients : Good(c)

-----------------------------------------------------------------------------
(* How the parts of the invariant are kept. *)

LEMMA Types ==
  ASSUME SizeInv
  PROVE  /\ TypeOK /\ NetInv /\ NetTypeOK
         /\ \A c \in Clients :
              /\ sizes[c] \in Seq(0..MaxRead) /\ Typed(c) \in Nat
              /\ \A n \in 1..Typed(c) : sizes[c][n] \in 0..MaxRead
              /\ printed[c] \in Seq(Seq(Nat)) /\ Printed(c) \in Nat
              /\ up[c] \in Seq(Nat) /\ Len(up[c]) \in Nat
              /\ down[c] \in Seq(Nat) /\ Len(down[c]) \in Nat
              /\ c \in serving <=> srv[c] = "open"
  <1>1. TypeOK /\ NetInv /\ NetTypeOK
    BY DEF SizeInv, NetInv
  <1> SUFFICES ASSUME NEW c \in Clients
               PROVE  /\ sizes[c] \in Seq(0..MaxRead) /\ Typed(c) \in Nat
                      /\ \A n \in 1..Typed(c) : sizes[c][n] \in 0..MaxRead
                      /\ printed[c] \in Seq(Seq(Nat)) /\ Printed(c) \in Nat
                      /\ up[c] \in Seq(Nat) /\ Len(up[c]) \in Nat
                      /\ down[c] \in Seq(Nat) /\ Len(down[c]) \in Nat
                      /\ c \in serving <=> srv[c] = "open"
    BY <1>1
  <1>2. sizes[c] \in Seq(0..MaxRead) /\ printed[c] \in Seq(Seq(Nat))
    BY <1>1 DEF TypeOK
  <1>3. Typed(c) \in Nat /\ Printed(c) \in Nat
    BY <1>2, LenProperties DEF Typed, Printed
  <1>4. \A n \in 1..Typed(c) : sizes[c][n] \in 0..MaxRead
    BY <1>2, ElementOfSeq DEF Typed
  <1> QED  BY <1>1, <1>2, <1>3, <1>4, NetTypes DEF TypeOK

\* A client of which a step changes nothing, except that its connection may be
\* accepted or reset, stays good.
LEMMA GoodKept ==
  ASSUME NEW c \in Clients, Good(c), reset \subseteq reset',
         sizes'[c] = sizes[c], printed'[c] = printed[c],
         cstatus'[c] = cstatus[c], cli'[c] = cli[c],
         srv'[c] = srv[c] \/ (srv[c] = "none" /\ srv'[c] = "open"),
         up'[c] = up[c], down'[c] = down[c],
         InText(c)' <=> InText(c), InText(c) => expected' = expected
  PROVE  Good(c)'
  <1>1. /\ Typed(c)' = Typed(c) /\ Printed(c)' = Printed(c)
        /\ (Asked(c)' <=> Asked(c)) /\ (Long(c)' <=> Long(c))
        /\ \A n : TextOf(c, n)' = TextOf(c, n)
    BY DEF Typed, Printed, Asked, Long, TextOf
  <1>2. Linked(c)'
    BY <1>1 DEF Good, Linked
  <1>3. PrintedOK(c)'
    BY <1>1 DEF Good, PrintedOK
  <1>4. OnTrack(c)' => InStep(c)'
    <2> SUFFICES ASSUME OnTrack(c)'  PROVE InStep(c)'
      OBVIOUS
    <2>1. OnTrack(c)
      BY <1>1 DEF OnTrack
    <2>2. InStep(c)
      BY <2>1 DEF Good
    <2>3. Idle(c) => Idle(c)'
      BY <1>1 DEF Idle
    <2>4. HeaderSent(c) => HeaderSent(c)'
      BY <1>1 DEF HeaderSent
    <2>5. HeaderBack(c) => HeaderBack(c)'
      BY <1>1 DEF HeaderBack, Acks
    <2>6. EmptyPrinted(c) => EmptyPrinted(c)'
      BY <1>1 DEF EmptyPrinted, Acks
    <2>7. TextSent(c) => TextSent(c)'
      BY <1>1 DEF TextSent
    <2>8. NextHeaderSent(c) => NextHeaderSent(c)'
      BY <1>1 DEF NextHeaderSent
    <2> QED  BY <2>2, <2>3, <2>4, <2>5, <2>6, <2>7, <2>8 DEF InStep
  <1> QED  BY <1>2, <1>3, <1>4 DEF Good

LEMMA SizeInvInit == Init => SizeInv
  <1> SUFFICES ASSUME Init  PROVE SizeInv
    OBVIOUS
  <1>1. NetInv
    BY NetInvInit DEF Init
  <1>2. /\ <<>> \in Seq(0..MaxRead) /\ <<>> \in Seq(Seq(Nat)) /\ Len(<<>>) = 0
        /\ 0 \in 0..Useless
    BY EmptySeq, SizeAssumption DEF Useless
  <1>3. TypeOK
    BY <1>1, <1>2 DEF Init, NetInit, NetInv, TypeOK
  <1>4. ASSUME NEW c \in Clients  PROVE Good(c)
    <2>1. Linked(c)
      BY <1>2 DEF Init, NetInit, Linked, Running, Asked
    <2>2. PrintedOK(c)
      BY <1>2 DEF Init, PrintedOK, Printed
    <2>3. ~OnTrack(c)
      BY DEF Init, NetInit, OnTrack
    <2> QED  BY <2>1, <2>2, <2>3 DEF Good
  <1> QED  BY <1>1, <1>3, <1>4 DEF SizeInv

\* Client c ends: its process does, or it closes its socket because the connection
\* has ended.
LEMMA SizeInvClientEnds ==
  ASSUME SizeInv, NEW c \in Clients, NEW how,
         cstatus' = [cstatus EXCEPT ![c] = how],
         \/ ClientGone(c) /\ how \in {"died", "killed"}
         \/ /\ cli[c] # "none" /\ ClientSeesEnd(c) /\ CloseClient(c)
            /\ how = "exited",
         UNCHANGED <<sizes, quits, printed, sstatus, serving, expected>>
  PROVE  SizeInv'
  <1>1. /\ TypeOK /\ NetInv /\ NetTypeOK /\ Good(c)
        /\ cli' = [cli EXCEPT ![c] = "closed"]
        /\ UNCHANGED <<srv, up, down>> /\ reset \subseteq reset'
    BY Types DEF SizeInv, ClientGone, CloseClient
  <1>2. NetInv'
    BY <1>1, NetInvClientEnds
  <1>3. TypeOK'
    BY <1>1, <1>2 DEF TypeOK, NetInv
  <1>4. cli'[c] = "closed" /\ cstatus'[c] = how
    BY <1>1 DEF TypeOK, NetTypeOK
  <1>5. Good(c)'
    <2>1. Linked(c)'
      BY <1>1, <1>4 DEF Good, Linked, Running, Asked, Typed
    <2>2. PrintedOK(c)'
      BY <1>1 DEF Good, PrintedOK, Printed, Typed, TextOf, InText
    <2>3. ~OnTrack(c)'
      BY <1>4 DEF OnTrack
    <2> QED  BY <2>1, <2>2, <2>3 DEF Good
  <1>6. ASSUME NEW d \in Clients, d # c  PROVE Good(d)'
    <2>1. cli'[d] = cli[d] /\ cstatus'[d] = cstatus[d]
      BY <1>1, <1>6 DEF TypeOK, NetTypeOK
    <2> QED  BY <1>1, <2>1, GoodKept DEF SizeInv, InText
  <1> QED  BY <1>2, <1>3, <1>5, <1>6 DEF SizeInv

LEMMA SizeInvStartClient ==
  ASSUME SizeInv, NEW c \in Clients, StartClient(c)
  PROVE  SizeInv'
  <1>1. /\ TypeOK /\ NetInv /\ NetTypeOK /\ Good(c)
        /\ cstatus[c] = "start" /\ cli[c] = "none"
        /\ UNCHANGED <<sizes, quits, printed, sstatus, serving, expected>>
    BY Types DEF SizeInv, StartClient, Good, Linked
  <1>2. /\ srv[c] = "none" /\ up[c] = <<>> /\ down[c] = <<>>
        /\ sizes[c] = <<>> /\ printed[c] = <<>> /\ c \notin serving
    BY <1>1, Types DEF NetInv, Connected, Good, Linked
  <1>3. CASE Connect(c) /\ cstatus' = [cstatus EXCEPT ![c] = "prompt"]
    <2>1. NetInv'
      BY <1>1, <1>3, NetInvConnect
    <2>2. /\ cli' = [cli EXCEPT ![c] = "open"]
          /\ UNCHANGED <<srv, up, down, reset>>
      BY <1>3 DEF Connect
    <2>3. TypeOK'
      BY <1>1, <1>3, <2>1, <2>2 DEF TypeOK, NetInv
    <2>4. cli'[c] = "open" /\ cstatus'[c] = "prompt"
      BY <1>1, <1>3, <2>2 DEF TypeOK, NetTypeOK
    <2>5. Good(c)'
      <3>1. Linked(c)'
        BY <1>1, <2>2, <2>4 DEF Good, Linked, Running, Asked, Typed
      <3>2. PrintedOK(c)'
        BY <1>1, <2>2 DEF Good, PrintedOK, Printed, Typed, TextOf, InText
      <3>3. InStep(c)'
        BY <1>1, <1>2, <2>2, <2>4 DEF InStep, Idle, InText, Typed, Printed
      <3> QED  BY <3>1, <3>2, <3>3 DEF Good
    <2>6. ASSUME NEW d \in Clients, d # c  PROVE Good(d)'
      <3>1. cli'[d] = cli[d] /\ cstatus'[d] = cstatus[d]
        BY <1>1, <1>3, <2>2, <2>6 DEF TypeOK, NetTypeOK
      <3> QED  BY <1>1, <2>2, <3>1, GoodKept DEF SizeInv, InText
    <2> QED  BY <2>1, <2>3, <2>5, <2>6 DEF SizeInv
  <1>4. CASE ClientEnds(c, "died")
    BY <1>1, <1>4, SizeInvClientEnds DEF ClientEnds
  <1> QED  BY <1>3, <1>4 DEF StartClient

LEMMA SizeInvSendHeader ==
  ASSUME SizeInv, NEW c \in Clients, SendHeader(c)
  PROVE  SizeInv'
  <1>1. /\ TypeOK /\ NetInv /\ NetTypeOK /\ Good(c)
        /\ cstatus[c] = "prompt" /\ cli[c] = "open"
        /\ cstatus' = [cstatus EXCEPT ![c] = "freeing"]
        /\ UNCHANGED <<listening, queue, cli, srv, down, reset, printed, sstatus,
                       serving, expected>>
    BY Types DEF SizeInv, SendHeader, Good, Linked, Running
  <1> DEFINE n == Typed(c)
             header == Header(n + 1)
  <1> DEFINE choice == Sizes[c][n + 1]
  <1>2. PICK size \in choice :
          /\ sizes' = [sizes EXCEPT ![c] = Append(@, size)]
          /\ \/ UNCHANGED quits
             \/ quits' = [quits EXCEPT ![c] = @ \cup {n + 1}]
    BY DEF SendHeader, Typed
  <1> DEFINE len == Len(up[c])
  <1>3. n \in Nat /\ n + 1 \in Nat /\ Printed(c) \in Nat /\ len \in Nat
    BY Types
  <1>4. /\ sizes'[c] \in Seq(0..MaxRead) /\ Typed(c)' = n + 1
        /\ \A m \in 1..n : sizes'[c][m] = sizes[c][m]
        /\ sizes'[c][n + 1] = size
        /\ sizes'[c] # <<>>
    <2>1. sizes[c] \in Seq(0..MaxRead) /\ sizes'[c] = Append(sizes[c], size)
      BY <1>1, <1>2, Types DEF TypeOK
    <2>2. size \in 0..MaxRead
      <3>1. Sizes[c] \in Seq(SUBSET (0..MaxRead)) /\ n + 1 \in 1..Len(Sizes[c])
        <4>1. Sizes[c] \in Seq(SUBSET (0..MaxRead)) /\ n < Len(Sizes[c])
          BY SizeAssumption DEF SendHeader, Typed
        <4> QED  BY <1>3, <4>1, LenProperties
      <3>2. choice \in SUBSET (0..MaxRead)
        BY <3>1, ElementOfSeq
      <3> QED  BY <3>2
    <2> QED  BY <2>1, <2>2, AppendProperties DEF Typed
  <1>5. /\ header \in Seq(Nat) /\ Len(header) = HeaderSize /\ HeaderSize \in Nat
        /\ \A j \in 1..HeaderSize : header[j] = 2 * (n + 1)
    BY <1>3, HeaderProperties
  <1>6. up' = [up EXCEPT ![c] = @ \o header]
    BY DEF SendHeader, Typed
  <1> HIDE DEF header
  <1>7. /\ up'[c] = up[c] \o header /\ up'[c] \in Seq(Nat)
        /\ Len(up'[c]) = len + HeaderSize
        /\ \A i \in 1..(len + HeaderSize) :
             up'[c][i] = IF i <= len THEN up[c][i] ELSE header[i - len]
    <2>1. up'[c] = up[c] \o header /\ up[c] \in Seq(Nat)
      BY <1>1, <1>6, Types DEF NetTypeOK
    <2>2. /\ up[c] \o header \in Seq(Nat)
          /\ Len(up[c] \o header) = len + Len(header)
          /\ \A i \in 1..(len + Len(header)) :
               (up[c] \o header)[i] =
                 IF i <= len THEN up[c][i] ELSE header[i - len]
      <3>1. header \in Seq(Nat)
        BY <1>5
      <3> QED  BY <2>1, <3>1, ConcatProperties
    <2> QED  BY <1>5, <2>1, <2>2
  <1>8. up' \in [Clients -> Seq(Nat)] /\ \A d \in Clients : d # c => up'[d] = up[d]
    BY <1>1, <1>6, <1>7 DEF NetTypeOK
  <1>9. NetInv'
    <2>1. down' \in [Clients -> Seq(Nat)]
      BY <1>1 DEF NetTypeOK
    <2> QED  BY <1>1, <1>8, <2>1, NetInvData
  <1>10. TypeOK'
    <2>1. sizes' \in [Clients -> Seq(0..MaxRead)]
      BY <1>1, <1>2, <1>4 DEF TypeOK
    <2>2. quits' \in [Clients -> SUBSET Nat]
      <3>1. quits \in [Clients -> SUBSET Nat]
        BY <1>1 DEF TypeOK
      <3>2. quits[c] \cup {n + 1} \in SUBSET Nat
        BY <1>3, <3>1
      <3> QED  BY <1>2, <3>1, <3>2
    <2> QED  BY <1>1, <1>9, <2>1, <2>2 DEF TypeOK, NetInv
  <1>11. cstatus'[c] = "freeing"
    BY <1>1 DEF TypeOK
  <1>12. \A k : k \in 1..n => TextOf(c, k)' = TextOf(c, k)
    BY <1>4 DEF TextOf
  <1>13. Good(c)'
    <2>1. Linked(c)'
      <3>1. ASSUME NEW j \in 1..Len(up'[c])  PROVE up'[c][j] \div 2 \in 1..(n + 1)
        <4>1. CASE j <= len
          <5>1. j \in 1..len /\ up'[c][j] = up[c][j]
            BY <1>3, <1>5, <1>7, <4>1
          <5>2. up[c][j] \div 2 \in 1..n
            BY <1>1, <5>1 DEF Good, Linked
          <5> QED  BY <1>3, <5>1, <5>2
        <4>2. CASE j > len
          <5>1. j - len \in 1..HeaderSize
            BY <1>3, <1>5, <1>7, <4>2
          <5>2. up'[c][j] = 2 * (n + 1)
            BY <1>3, <1>5, <1>7, <4>2, <5>1
          <5> QED  BY <1>3, <5>2
        <4> QED  BY <1>3, <1>7, <4>1, <4>2
      <3> QED
        BY <1>1, <1>4, <1>11, <3>1 DEF Good, Linked, Running, Asked
    <2>2. PrintedOK(c)'
      <3> SUFFICES ASSUME NEW k \in 1..Printed(c),
                          \A m \in 1..(n + 1) : m <= k => Short(sizes'[c][m])
                   PROVE  \/ k <= n + 1 /\ printed[c][k] = TextOf(c, k)'
                          \/ /\ printed[c][k] = Rubbish
                             /\ k = Printed(c) /\ c \in reset /\ ~InText(c)
        BY <1>1, <1>4 DEF PrintedOK, Printed, Short, InText
      <3>1. \A m \in 1..n : m <= k => Short(sizes[c][m])
        BY <1>3, <1>4
      <3>2. CASE k <= n /\ printed[c][k] = TextOf(c, k)
        <4>1. k \in 1..n
          BY <1>3, <3>2
        <4>2. k <= n + 1
          BY <1>3, <4>1
        <4>3. TextOf(c, k)' = TextOf(c, k)
          BY <1>12, <4>1
        <4> QED  BY <3>2, <4>2, <4>3
      <3>3. CASE ~(k <= n /\ printed[c][k] = TextOf(c, k))
        BY <1>1, <3>1, <3>3 DEF Good, PrintedOK
      <3> QED  BY <3>2, <3>3
    <2>3. ASSUME OnTrack(c)'  PROVE InStep(c)'
      <3>1. \A m \in 1..n : m <= Printed(c) + 1 => Short(sizes[c][m])
        <4> SUFFICES ASSUME NEW m \in 1..n, m <= Printed(c) + 1
                     PROVE  Short(sizes[c][m])
          OBVIOUS
        <4>1. m \in 1..(n + 1) /\ sizes'[c][m] = sizes[c][m]
          BY <1>3, <1>4
        <4>2. Short(sizes'[c][m])
          BY <1>1, <1>4, <2>3, <4>1 DEF OnTrack, Printed, Short
        <4> QED  BY <4>1, <4>2
      <3>2. OnTrack(c)
        BY <1>1, <2>3, <3>1 DEF OnTrack
      <3>3. Idle(c) \/ TextSent(c)
        BY <1>1, <3>2 DEF Good, InStep, HeaderSent, HeaderBack, EmptyPrinted,
                          NextHeaderSent, Asked
      <3>4. Printed(c)' = Printed(c) /\ (InText(c)' <=> InText(c)) /\ Asked(c)'
        BY <1>1, <1>11 DEF Printed, InText, Asked
      <3>5. CASE Idle(c)
        <4>1. up'[c] = header
          BY <1>5, <1>7, <3>5, ConcatEmptySeq DEF Idle
        <4> QED
          BY <1>1, <1>4, <3>4, <3>5, <4>1 DEF Idle, InStep, HeaderSent, header
      <3>6. CASE TextSent(c)
        <4>1. n = Printed(c) + 1 /\ n \in 1..n
          BY <1>3, <3>6 DEF TextSent
        <4>2. up'[c] = TextOf(c, Printed(c) + 1)' \o header
          BY <1>7, <1>12, <3>4, <3>6, <4>1 DEF TextSent
        <4>3. expected' = sizes'[c][Printed(c) + 1] /\ Typed(c)' = Printed(c) + 2
          BY <1>1, <1>3, <1>4, <3>6, <4>1 DEF TextSent
        <4> QED
          BY <1>1, <1>4, <3>4, <3>6, <4>2, <4>3
             DEF TextSent, InStep, NextHeaderSent, header
      <3> QED  BY <3>3, <3>5, <3>6
    <2> QED  BY <2>1, <2>2, <2>3 DEF Good
  <1>14. ASSUME NEW d \in Clients, d # c  PROVE Good(d)'
    <2>1. sizes'[d] = sizes[d] /\ cstatus'[d] = cstatus[d] /\ up'[d] = up[d]
      BY <1>1, <1>2, <1>8, <1>14 DEF TypeOK
    <2> QED  BY <1>1, <2>1, GoodKept DEF SizeInv, InText
  <1> QED  BY <1>9, <1>10, <1>13, <1>14 DEF SizeInv

LEMMA SizeInvFreeHeader ==
  ASSUME SizeInv, NEW c \in Clients, FreeHeader(c)
  PROVE  SizeInv'
  <1>1. /\ TypeOK /\ NetInv /\ NetTypeOK /\ Good(c)
        /\ cstatus[c] = "freeing"
        /\ UNCHANGED <<sizes, quits, printed, sstatus, serving, expected>>
    BY Types DEF SizeInv, FreeHeader
  <1>2. CASE cstatus' = [cstatus EXCEPT ![c] = "waiting"] /\ UNCHANGED netVars
    <2>1. UNCHANGED <<listening, queue, cli, srv, up, down, reset>>
      BY <1>2 DEF netVars
    <2>2. NetInv'
      BY <1>1, <2>1 DEF NetInv, NetTypeOK, QueueOK, Connected
    <2>3. TypeOK'
      BY <1>1, <1>2, <2>1, <2>2 DEF TypeOK, NetInv
    <2>4. cstatus'[c] = "waiting"
      BY <1>1, <1>2 DEF TypeOK
    <2>5. Good(c)'
      <3>1. /\ Typed(c)' = Typed(c) /\ Printed(c)' = Printed(c)
            /\ (Long(c)' <=> Long(c)) /\ Asked(c) /\ Asked(c)'
            /\ (InText(c)' <=> InText(c))
            /\ \A n : TextOf(c, n)' = TextOf(c, n)
        BY <1>1, <2>4 DEF Typed, Printed, Long, Asked, InText, TextOf
      <3>2. Linked(c)'
        BY <1>1, <2>1, <2>4, <3>1 DEF Good, Linked, Running
      <3>3. PrintedOK(c)'
        BY <1>1, <2>1, <3>1 DEF Good, PrintedOK
      <3>4. ASSUME OnTrack(c)'  PROVE InStep(c)'
        <4>1. OnTrack(c)
          BY <1>1, <2>1, <3>1, <3>4 DEF OnTrack
        <4>2. HeaderSent(c) \/ HeaderBack(c) \/ EmptyPrinted(c) \/ NextHeaderSent(c)
          BY <1>1, <4>1 DEF Good, InStep, Idle, TextSent
        <4>3. HeaderSent(c) => HeaderSent(c)'
          BY <2>1, <3>1 DEF HeaderSent
        <4>4. HeaderBack(c) => HeaderBack(c)'
          BY <1>1, <2>1, <3>1 DEF HeaderBack, Acks
        <4>5. EmptyPrinted(c) => EmptyPrinted(c)'
          BY <1>1, <2>1, <3>1 DEF EmptyPrinted, Acks
        <4>6. NextHeaderSent(c) => NextHeaderSent(c)'
          BY <1>1, <2>1, <3>1 DEF NextHeaderSent
        <4> QED  BY <4>2, <4>3, <4>4, <4>5, <4>6 DEF InStep
      <3> QED  BY <3>2, <3>3, <3>4 DEF Good
    <2>6. ASSUME NEW d \in Clients, d # c  PROVE Good(d)'
      <3>1. cstatus'[d] = cstatus[d]
        BY <1>1, <1>2, <2>6 DEF TypeOK
      <3> QED  BY <1>1, <2>1, <3>1, GoodKept DEF SizeInv, InText
    <2> QED  BY <2>2, <2>3, <2>5, <2>6 DEF SizeInv
  <1>3. CASE ClientEnds(c, "died")
    BY <1>1, <1>3, SizeInvClientEnds DEF ClientEnds
  <1> QED  BY <1>2, <1>3 DEF FreeHeader

\* The header of c has come back, and c sends the text.
LEMMA SizeInvSendText ==
  ASSUME SizeInv, NEW c \in Clients, cstatus[c] = "waiting",
         c \notin reset, Len(down[c]) >= HeaderSize,
         down' = [down EXCEPT ![c] = Rest(@, HeaderSize)],
         up' = [up EXCEPT ![c] = @ \o LineOf(c)],
         cstatus' = [cstatus EXCEPT ![c] = "prompt"],
         UNCHANGED <<listening, queue, cli, srv, reset, sizes, quits, printed, sstatus,
                     serving, expected>>
  PROVE  SizeInv'
  <1> DEFINE n == Typed(c)
             len == Len(up[c])
             text == TextOf(c, n)
  <1>1. /\ TypeOK /\ NetInv /\ NetTypeOK /\ Good(c) /\ cli[c] = "open"
        /\ sizes[c] # <<>> /\ Asked(c)
    BY Types DEF SizeInv, Good, Linked, Running, Asked
  <1>2. HeaderSize \in Nat /\ HeaderSize >= 1
    BY SizeAssumption
  <1>3. n \in Nat /\ n >= 1 /\ Printed(c) \in Nat /\ len \in Nat /\ sizes[c][n] \in Nat
    <2>1. n \in Nat /\ n >= 1
      BY <1>1, Types, EmptySeq DEF Typed
    <2> QED  BY <2>1, Types
  <1>4. srv[c] # "none"
    <2>1. down[c] # <<>>
      BY <1>2, EmptySeq
    <2> QED  BY <1>1, <2>1 DEF NetInv, Connected
  <1>5. /\ text \in Seq(Nat) /\ Len(text) = sizes[c][n]
        /\ \A j \in 1..(sizes[c][n]) : text[j] = 2 * n + 1
    BY <1>3, TextProperties DEF TextOf
  <1>6. up' = [up EXCEPT ![c] = @ \o text]
    BY DEF LineOf, TextOf, Typed
  <1> HIDE DEF text
  <1>7. up[c] \in Seq(Nat) /\ down[c] \in Seq(Nat) /\ Len(down[c]) \in Nat
    BY Types
  <1>8. /\ up'[c] = up[c] \o text /\ up'[c] \in Seq(Nat)
        /\ Len(up'[c]) = len + Len(text)
        /\ \A i \in 1..(len + Len(text)) :
             up'[c][i] = IF i <= len THEN up[c][i] ELSE text[i - len]
    <2>1. up'[c] = up[c] \o text
      BY <1>1, <1>6 DEF NetTypeOK
    <2>2. /\ up[c] \o text \in Seq(Nat)
          /\ Len(up[c] \o text) = len + Len(text)
          /\ \A i \in 1..(len + Len(text)) :
               (up[c] \o text)[i] = IF i <= len THEN up[c][i] ELSE text[i - len]
      <3>1. text \in Seq(Nat)
        BY <1>5
      <3> QED  BY <1>7, <3>1, ConcatProperties
    <2> QED  BY <2>1, <2>2
  <1>9. down'[c] = Rest(down[c], HeaderSize) /\ down'[c] \in Seq(Nat)
    <2>1. HeaderSize \in 0..Len(down[c])
      BY <1>2, <1>7
    <2> QED  BY <1>1, <1>7, <2>1, CutProperties DEF NetTypeOK
  <1>10. NetInv'
    <2>1. up' \in [Clients -> Seq(Nat)] /\ down' \in [Clients -> Seq(Nat)]
      BY <1>1, <1>6, <1>8, <1>9 DEF NetTypeOK
    <2>2. \A d \in Clients : d # c => up'[d] = up[d] /\ down'[d] = down[d]
      BY <1>1 DEF NetTypeOK
    <2> QED  BY <1>1, <1>4, <2>1, <2>2, NetInvData
  <1>11. TypeOK'
    BY <1>1, <1>10 DEF TypeOK, NetInv
  <1>12. cstatus'[c] = "prompt"
    BY <1>1 DEF TypeOK
  <1>13. Good(c)'
    <2>1. /\ Typed(c)' = n /\ Printed(c)' = Printed(c)
          /\ (Long(c)' <=> Long(c)) /\ (InText(c)' <=> InText(c))
          /\ \A m : TextOf(c, m)' = TextOf(c, m)
      BY DEF Typed, Printed, Long, InText, TextOf
    <2>2. Linked(c)'
      <3>1. ASSUME NEW j \in 1..Len(up'[c])  PROVE up'[c][j] \div 2 \in 1..n
        <4>1. CASE j <= len
          <5>1. j \in 1..len /\ up'[c][j] = up[c][j]
            BY <1>3, <1>5, <1>8, <4>1
          <5> QED  BY <1>1, <5>1 DEF Good, Linked
        <4>2. CASE j > len
          <5>1. j - len \in 1..(sizes[c][n])
            BY <1>3, <1>5, <1>8, <4>2
          <5>2. up'[c][j] = 2 * n + 1
            BY <1>3, <1>5, <1>8, <4>2, <5>1
          <5>3. n \in 1..n
            BY <1>3
          <5> QED  BY <1>3, <5>2, <5>3, LineOfByte
        <4>3. Len(text) \in Nat
          BY <1>3, <1>5
        <4>4. j <= len \/ j > len
          BY <1>3, <1>8, <4>3
        <4> QED  BY <4>1, <4>2, <4>4
      <3> QED
        BY <1>1, <1>12, <2>1, <3>1 DEF Good, Linked, Running, Asked
    <2>3. PrintedOK(c)'
      BY <1>1, <2>1 DEF Good, PrintedOK
    <2>4. ASSUME OnTrack(c)'  PROVE InStep(c)'
      <3>1. OnTrack(c)
        BY <2>1, <2>4 DEF OnTrack
      <3>2. HeaderBack(c) \/ EmptyPrinted(c)
        <4>1. down[c] # <<>>
          BY <1>2, EmptySeq
        <4> QED
          BY <1>1, <3>1, <4>1
             DEF Good, InStep, Idle, HeaderSent, TextSent, NextHeaderSent
      <3>3. up[c] = <<>> /\ down[c] = Acks
        BY <3>2 DEF HeaderBack, EmptyPrinted
      <3>4. up'[c] = text
        BY <1>5, <1>8, <3>3, ConcatEmptySeq
      <3>5. down'[c] = <<>>
        <4>1. Len(down[c]) = HeaderSize
          BY <1>2, <1>7, <3>3, HeaderProperties, AckProperties, LenProperties
             DEF Acks
        <4> QED  BY <1>7, <1>9, <4>1, CutWhole
      <3>6. CASE HeaderBack(c)
        BY <1>12, <2>1, <3>4, <3>5, <3>6 DEF HeaderBack, InStep, TextSent, text
      <3>7. CASE EmptyPrinted(c)
        <4>1. Len(text) = 0
          BY <1>5, <3>7 DEF EmptyPrinted
        <4>2. text = <<>>
          BY <1>5, <4>1, EmptySeq
        <4> QED  BY <1>12, <2>1, <3>4, <3>5, <3>7, <4>2 DEF EmptyPrinted, InStep, Idle
      <3> QED  BY <3>2, <3>6, <3>7
    <2> QED  BY <2>2, <2>3, <2>4 DEF Good
  <1>14. ASSUME NEW d \in Clients, d # c  PROVE Good(d)'
    <2>1. cstatus'[d] = cstatus[d] /\ up'[d] = up[d] /\ down'[d] = down[d]
      BY <1>1, <1>14 DEF TypeOK, NetTypeOK
    <2> QED  BY <1>1, <2>1, GoodKept DEF SizeInv, InText
  <1> QED  BY <1>10, <1>11, <1>13, <1>14 DEF SizeInv

LEMMA SizeInvReadAck ==
  ASSUME SizeInv, NEW c \in Clients, ReadAck(c)
  PROVE  SizeInv'
  <1>1. cstatus[c] = "waiting" /\ cli[c] = "open"
    BY DEF SizeInv, ReadAck, Good, Linked, Running
  <1>2. CASE /\ ClientSeesEnd(c) /\ CloseClient(c)
             /\ cstatus' = [cstatus EXCEPT ![c] = "exited"]
    BY <1>1, <1>2, SizeInvClientEnds DEF ReadAck
  <1>3. CASE ~ClientSeesEnd(c) \/ ~CloseClient(c)
             \/ cstatus' # [cstatus EXCEPT ![c] = "exited"]
    BY <1>1, <1>3, SizeInvSendText DEF ReadAck
  <1> QED  BY <1>2, <1>3

LEMMA SizeInvKillClient ==
  ASSUME SizeInv, NEW c \in Clients, KillClient(c)
  PROVE  SizeInv'
  BY SizeInvClientEnds DEF KillClient, ClientEnds

LEMMA SizeInvReset ==
  ASSUME SizeInv, NEW c \in Clients, ResetArrives(c), UNCHANGED sizeVars
  PROVE  SizeInv'
  <1>1. /\ NetInv' /\ reset \subseteq reset'
    BY NetInvReset DEF SizeInv
  <1>2. /\ UNCHANGED <<cli, srv, up, down>>
        /\ UNCHANGED <<sizes, quits, printed, cstatus, sstatus, serving, expected>>
    BY DEF ResetArrives, sizeVars
  <1>3. TypeOK'
    BY <1>1, <1>2 DEF SizeInv, TypeOK, NetInv
  <1>4. ASSUME NEW d \in Clients  PROVE Good(d)'
    BY <1>1, <1>2, GoodKept DEF SizeInv, InText
  <1> QED  BY <1>1, <1>3, <1>4 DEF SizeInv

-----------------------------------------------------------------------------
(* The steps of the server. *)

LEMMA SizeInvStartServer ==
  ASSUME SizeInv, StartServer
  PROVE  SizeInv'
  <1>1. /\ TypeOK /\ sstatus = "starting" /\ sstatus' = "accepting"
        /\ UNCHANGED <<queue, cli, srv, up, down, reset>>
        /\ UNCHANGED <<sizes, quits, printed, cstatus, serving, expected>>
    BY DEF SizeInv, StartServer, Listen
  <1>2. NetInv'
    BY NetInvListen DEF SizeInv, StartServer
  <1>3. TypeOK'
    BY <1>1, <1>2 DEF TypeOK, NetInv
  <1>4. ASSUME NEW c \in Clients  PROVE Good(c)'
    BY <1>1, GoodKept DEF SizeInv, InText
  <1> QED  BY <1>2, <1>3, <1>4 DEF SizeInv

\* The server ends: it dies, aborts or is killed.
LEMMA SizeInvServerEnds ==
  ASSUME SizeInv, ServerGone, serving' = {}, sstatus' \in {"died", "killed"},
         expected' \in 0..Useless, UNCHANGED <<sizes, quits, printed, cstatus>>
  PROVE  SizeInv'
  <1>1. /\ TypeOK /\ NetInv /\ NetTypeOK
        /\ srv' = [c \in Clients |-> IF srv[c] = "open" THEN "closed" ELSE srv[c]]
        /\ reset \subseteq reset' /\ UNCHANGED <<cli, up, down>>
    BY Types DEF SizeInv, ServerGone
  <1>2. /\ NetInv'
        /\ \A c \in Clients : srv'[c] # "open"
        /\ \A c \in Clients : /\ cli[c] = "open" => c \in reset' \/ srv[c] = "closed"
                              /\ srv[c] = "open" => c \in reset'
    BY <1>1, NetInvServerGone
  <1>3. TypeOK'
    BY <1>1, <1>2 DEF TypeOK, NetInv
  <1>4. ASSUME NEW c \in Clients  PROVE Good(c)'
    <2>1. Good(c)
      BY DEF SizeInv
    <2>2. Linked(c)'
      BY <1>1, <2>1 DEF Good, Linked, Asked, Typed
    <2>3. PrintedOK(c)'
      BY <1>1, <2>1 DEF Good, PrintedOK, Printed, Typed, TextOf, InText
    <2>4. ~OnTrack(c)'
      BY <1>1, <1>2 DEF OnTrack
    <2> QED  BY <2>2, <2>3, <2>4 DEF Good
  <1> QED  BY <1>2, <1>3, <1>4 DEF SizeInv

LEMMA SizeInvAccept ==
  ASSUME SizeInv, Accept
  PROVE  SizeInv'
  <1>1. /\ TypeOK /\ NetInv /\ NetTypeOK /\ sstatus = "accepting" /\ serving = {}
        /\ UNCHANGED <<sizes, quits, printed, cstatus, expected>>
    BY Types DEF SizeInv, TypeOK, Accept
  <1>2. ASSUME NEW c \in Clients, AcceptAndSend(c, <<>>), serving' = {c},
               sstatus' = "header"
        PROVE  SizeInv'
    <2>1. NetInv' /\ srv[c] = "none" /\ UNCHANGED down
      BY <1>1, <1>2, NetInvAccept
    <2>2. srv' = [srv EXCEPT ![c] = "open"] /\ UNCHANGED <<cli, up, reset>>
      BY <1>2 DEF AcceptAndSend
    <2>3. /\ srv'[c] = "open"
          /\ \A d \in Clients : d # c => srv'[d] = srv[d] /\ srv[d] # "open"
      BY <1>1, <2>2 DEF TypeOK, NetTypeOK
    <2>4. TypeOK'
      BY <1>1, <1>2, <2>1, <2>3 DEF TypeOK, NetInv
    <2>5. ASSUME NEW d \in Clients  PROVE Good(d)'
      BY <1>1, <1>2, <2>1, <2>2, <2>3, GoodKept DEF SizeInv, InText
    <2> QED  BY <2>1, <2>4, <2>5 DEF SizeInv
  <1>3. CASE AcceptFails /\ ServerEnds("died")
    BY <1>1, <1>3, SizeInvServerEnds DEF ServerEnds, TypeOK
  <1> QED  BY <1>2, <1>3 DEF Accept

\* The server closes the connection that it reads from.
LEMMA SizeInvBackToAccept ==
  ASSUME SizeInv, NEW c \in serving, BackToAccept(c),
         up' \in [Clients -> Seq(Nat)],
         \A d \in Clients : d # c => up'[d] = up[d],
         \A j \in 1..Len(up'[c]) : up'[c][j] \div 2 \in 1..Typed(c),
         UNCHANGED <<sizes, quits, printed, cstatus>>
  PROVE  SizeInv'
  <1>1. /\ TypeOK /\ NetInv /\ NetTypeOK /\ c \in Clients /\ srv[c] = "open"
        /\ srv' = [srv EXCEPT ![c] = "closed"]
        /\ sstatus' = "accepting" /\ serving' = {}
        /\ UNCHANGED <<listening, queue, cli, down, reset, expected>>
    BY Types DEF TypeOK, BackToAccept
  <1>2. NetInv'
    BY <1>1, NetInvServerCloses
  <1>3. /\ srv'[c] = "closed"
        /\ \A d \in Clients : d # c => srv'[d] = srv[d] /\ d \notin serving
    BY <1>1 DEF TypeOK, NetTypeOK
  <1>4. TypeOK'
    BY <1>1, <1>2, <1>3 DEF TypeOK, NetInv
  <1>5. Good(c)'
    <2>1. Good(c)
      BY <1>1 DEF SizeInv
    <2>2. Linked(c)'
      BY <1>1, <1>3, <2>1 DEF Good, Linked, Asked, Typed
    <2>3. PrintedOK(c)'
      BY <1>1, <2>1 DEF Good, PrintedOK, Printed, Typed, TextOf, InText
    <2>4. ~OnTrack(c)'
      BY <1>3 DEF OnTrack
    <2> QED  BY <2>2, <2>3, <2>4 DEF Good
  <1>6. ASSUME NEW d \in Clients, d # c  PROVE Good(d)'
    BY <1>1, <1>3, <1>6, GoodKept DEF SizeInv, InText
  <1> QED  BY <1>2, <1>4, <1>5, <1>6 DEF SizeInv

\* What is left of a stream names lines that its client has typed.
LEMMA RestLinked ==
  ASSUME SizeInv, NEW c \in Clients, NEW k \in 0..Len(up[c]),
         up' = [up EXCEPT ![c] = Rest(@, k)]
  PROVE  /\ up' \in [Clients -> Seq(Nat)]
         /\ \A d \in Clients : d # c => up'[d] = up[d]
         /\ up'[c] = Rest(up[c], k)
         /\ \A j \in 1..Len(up'[c]) : up'[c][j] \div 2 \in 1..Typed(c)
  <1>1. NetTypeOK /\ Good(c) /\ up[c] \in Seq(Nat) /\ Len(up[c]) \in Nat
    BY Types DEF SizeInv
  <1>2. /\ Rest(up[c], k) \in Seq(Nat) /\ Len(Rest(up[c], k)) = Len(up[c]) - k
        /\ \A i \in 1..(Len(up[c]) - k) : Rest(up[c], k)[i] = up[c][k + i]
    BY <1>1, CutProperties
  <1>3. /\ up' \in [Clients -> Seq(Nat)] /\ up'[c] = Rest(up[c], k)
        /\ \A d \in Clients : d # c => up'[d] = up[d]
    BY <1>1, <1>2 DEF NetTypeOK
  <1>4. ASSUME NEW j \in 1..Len(up'[c])  PROVE up'[c][j] \div 2 \in 1..Typed(c)
    <2>1. j \in 1..(Len(up[c]) - k)
      BY <1>2, <1>3
    <2>2. up'[c][j] = up[c][k + j]
      BY <1>2, <1>3, <2>1
    <2>3. k + j \in 1..Len(up[c])
      BY <1>1, <2>1
    <2> QED  BY <1>1, <2>2, <2>3 DEF Good, Linked
  <1> QED  BY <1>3, <1>4

\* What atoi() makes of a buffer fits numberOfChars, and is the size of the line
\* if the buffer is the header of a short one.
LEMMA NumberProperties ==
  ASSUME SizeInv, NEW c \in Clients, NEW bytes \in Seq(Nat),
         bytes[1] \div 2 \in 1..Typed(c)
  PROVE  /\ Number(c, bytes) \subseteq 0..Useless
         /\ \A n \in 1..Typed(c) :
              bytes = Header(n) /\ Short(sizes[c][n])
                => Number(c, bytes) = {sizes[c][n]}
  <1>1. Useless = MaxRead + 1 /\ MaxRead \in Nat
    BY SizeAssumption DEF Useless
  <1>2. \A n \in 1..Typed(c) : sizes[c][n] \in 0..MaxRead
    BY Types
  <1>3. ASSUME NEW size \in 0..MaxRead  PROVE Digits(size) \subseteq 0..Useless
    <2>1. CASE Short(size)
      BY <1>1, <2>1 DEF Digits
    <2>2. CASE ~Short(size)
      <3>1. Digits(size) \subseteq 0..MaxRead
        BY <2>2 DEF Digits
      <3>2. 0..MaxRead \subseteq 0..Useless
        BY <1>1
      <3> QED  BY <3>1, <3>2
    <2> QED  BY <2>1, <2>2
  <1>4. Number(c, bytes) \subseteq 0..Useless
    <2>1. sizes[c][bytes[1] \div 2] \in 0..MaxRead
      BY <1>2
    <2>2. Digits(sizes[c][bytes[1] \div 2]) \subseteq 0..Useless
      BY <1>3, <2>1
    <2> QED  BY <2>2 DEF Number
  <1>5. ASSUME NEW n \in 1..Typed(c), bytes = Header(n), Short(sizes[c][n])
        PROVE  Number(c, bytes) = {sizes[c][n]}
    <2>1. n \in Nat
      BY Types
    <2>2. bytes[1] = 2 * n
      <3>1. 1 \in 1..HeaderSize
        BY SizeAssumption
      <3> QED  BY <1>5, <2>1, <3>1, HeaderProperties
    <2>3. bytes[1] \div 2 = n
      BY <2>1, <2>2, LineOfByte
    <2> QED  BY <1>5, <2>3 DEF Number, Digits
  <1> QED  BY <1>4, <1>5

\* The server has read the header of c, and sends it back.
LEMMA SizeInvSendBack ==
  ASSUME SizeInv, NEW c \in serving, sstatus = "header", c \notin reset,
         Len(up[c]) >= HeaderSize,
         up' = [up EXCEPT ![c] = Rest(@, HeaderSize)],
         down' = [down EXCEPT ![c] = @ \o AckOf(Front(up[c], HeaderSize))],
         expected' \in Number(c, Front(up[c], HeaderSize)),
         sstatus' = "text",
         UNCHANGED <<listening, queue, cli, srv, reset, serving>>,
         UNCHANGED <<sizes, quits, printed, cstatus>>
  PROVE  SizeInv'
  <1> DEFINE bytes == Front(up[c], HeaderSize)
             n == Typed(c)
  <1>1. /\ TypeOK /\ NetInv /\ NetTypeOK /\ c \in Clients /\ srv[c] = "open"
        /\ Good(c) /\ up[c] \in Seq(Nat) /\ Len(up[c]) \in Nat
        /\ down[c] \in Seq(Nat) /\ n \in Nat /\ Printed(c) \in Nat
    BY Types DEF SizeInv, TypeOK
  <1>2. HeaderSize \in Nat /\ HeaderSize >= 1
    BY SizeAssumption
  <1>3. HeaderSize \in 0..Len(up[c])
    BY <1>1, <1>2
  <1>4. /\ bytes \in Seq(Nat) /\ Len(bytes) = HeaderSize
        /\ \A i \in 1..HeaderSize : bytes[i] = up[c][i]
    BY <1>1, <1>3, CutProperties
  <1>5. bytes[1] \div 2 \in 1..n
    <2>1. 1 \in 1..HeaderSize /\ 1 \in 1..Len(up[c])
      BY <1>1, <1>2
    <2> QED  BY <1>1, <1>4, <2>1 DEF Good, Linked
  <1>6. /\ up' \in [Clients -> Seq(Nat)]
        /\ \A d \in Clients : d # c => up'[d] = up[d]
        /\ up'[c] = Rest(up[c], HeaderSize)
        /\ \A j \in 1..Len(up'[c]) : up'[c][j] \div 2 \in 1..n
    BY <1>1, <1>3, RestLinked
  <1>7. /\ down'[c] = down[c] \o AckOf(bytes) /\ down' \in [Clients -> Seq(Nat)]
        /\ \A d \in Clients : d # c => down'[d] = down[d]
    <2>1. AckOf(bytes) \in Seq(Nat)
      BY <1>4, AckProperties
    <2>2. down[c] \o AckOf(bytes) \in Seq(Nat)
      BY <1>1, <2>1, ConcatProperties
    <2> QED  BY <1>1, <2>2 DEF NetTypeOK
  <1>8. /\ expected' \in 0..Useless
        /\ \A m \in 1..n : bytes = Header(m) /\ Short(sizes[c][m])
                             => expected' = sizes[c][m]
    BY <1>1, <1>4, <1>5, NumberProperties
  <1> HIDE DEF bytes
  <1>9. NetInv'
    <2>1. \A d \in Clients : cli[d] = "none" => up'[d] = up[d]
      BY <1>1, <1>6 DEF NetInv, Connected
    <2>2. \A d \in Clients : srv[d] = "none" => down'[d] = down[d]
      BY <1>1, <1>7
    <2> QED  BY <1>1, <1>6, <1>7, <2>1, <2>2, NetInvData
  <1>10. TypeOK'
    BY <1>1, <1>8, <1>9 DEF TypeOK, NetInv
  <1>11. Good(c)'
    <2>1. /\ Typed(c)' = n /\ Printed(c)' = Printed(c)
          /\ (Long(c)' <=> Long(c)) /\ ~InText(c) /\ InText(c)'
          /\ (Asked(c)' <=> Asked(c))
      BY DEF Typed, Printed, Long, InText, Asked
    <2>2. Linked(c)'
      BY <1>1, <1>6, <2>1 DEF Good, Linked
    <2>3. PrintedOK(c)'
      BY <1>1 DEF Good, PrintedOK, Printed, Typed, TextOf
    <2>4. ASSUME OnTrack(c)'  PROVE InStep(c)'
      <3>1. OnTrack(c)
        BY <2>1, <2>4 DEF OnTrack
      <3>2. HeaderSent(c)
        <4>1. up[c] # <<>>
          BY <1>2, EmptySeq
        <4> QED
          BY <1>1, <2>1, <3>1, <4>1 DEF Good, InStep, Idle, HeaderBack,
                                        EmptyPrinted, TextSent, NextHeaderSent
      <3>3. up[c] = Header(n) /\ down[c] = <<>> /\ n = Printed(c) + 1 /\ n \in 1..n
        BY <1>1, <3>2 DEF HeaderSent
      <3>4. Len(up[c]) = HeaderSize
        BY <1>1, <3>3, HeaderProperties
      <3>5. up'[c] = <<>> /\ bytes = Header(n)
        BY <1>1, <1>6, <3>3, <3>4, CutWhole DEF bytes
      <3>6. down'[c] = Acks
        <4>1. AckOf(bytes) = Acks /\ Acks \in Seq(Nat)
          BY <1>4, AckProperties
        <4> QED  BY <1>7, <3>3, <4>1, ConcatEmptySeq
      <3>7. Short(sizes[c][n])
        BY <1>1, <3>1, <3>3 DEF OnTrack
      <3>8. expected' = sizes'[c][n]
        BY <1>8, <3>3, <3>5, <3>7
      <3>9. Acks' = Acks
        BY DEF Acks
      <3> QED
        BY <2>1, <3>2, <3>5, <3>6, <3>8, <3>9 DEF HeaderSent, InStep, HeaderBack
    <2> QED  BY <2>2, <2>3, <2>4 DEF Good
  <1>12. ASSUME NEW d \in Clients, d # c  PROVE Good(d)'
    <2>1. d \notin serving
      BY <1>1, <1>12 DEF TypeOK
    <2> QED  BY <1>1, <1>6, <1>7, <1>12, <2>1, GoodKept DEF SizeInv, InText
  <1> QED  BY <1>9, <1>10, <1>11, <1>12 DEF SizeInv

LEMMA SizeInvReadHeader ==
  ASSUME SizeInv, NEW c \in serving, ReadHeader(c)
  PROVE  SizeInv'
  <1>1. /\ TypeOK /\ NetInv /\ NetTypeOK /\ c \in Clients /\ srv[c] = "open"
        /\ Good(c) /\ up[c] \in Seq(Nat) /\ Len(up[c]) \in Nat
        /\ sstatus = "header" /\ UNCHANGED <<sizes, quits, printed, cstatus>>
    BY Types DEF SizeInv, TypeOK, ReadHeader
  <1>2. CASE ServerSeesEnd(c) /\ BackToAccept(c) /\ UNCHANGED up
    <2>1. \A j \in 1..Len(up'[c]) : up'[c][j] \div 2 \in 1..Typed(c)
      BY <1>1, <1>2 DEF Good, Linked
    <2> QED  BY <1>1, <1>2, <2>1, SizeInvBackToAccept DEF NetTypeOK
  <1>3. CASE ServerEnds("died") /\ UNCHANGED expected
    BY <1>1, <1>3, SizeInvServerEnds DEF ServerEnds, TypeOK
  <1>4. ASSUME c \notin reset, Len(up[c]) >= HeaderSize,
               up' = [up EXCEPT ![c] = Rest(@, HeaderSize)], BackToAccept(c)
        PROVE  SizeInv'
    <2>1. HeaderSize \in 0..Len(up[c])
      BY <1>1, <1>4, SizeAssumption
    <2> QED  BY <1>1, <1>4, <2>1, RestLinked, SizeInvBackToAccept
  <1>5. ASSUME c \notin reset, Len(up[c]) >= HeaderSize,
               up' = [up EXCEPT ![c] = Rest(@, HeaderSize)],
               down' = [down EXCEPT ![c] = @ \o AckOf(Front(up[c], HeaderSize))],
               expected' \in Number(c, Front(up[c], HeaderSize)),
               sstatus' = "text",
               UNCHANGED <<listening, queue, cli, srv, reset, serving>>
        PROVE  SizeInv'
    BY <1>1, <1>5, SizeInvSendBack
  <1> QED  BY <1>2, <1>3, <1>4, <1>5 DEF ReadHeader

\* What the server prints while the lines of c are short is the next line, and it
\* is then in step with c.
LEMMA NextLinePrinted ==
  ASSUME SizeInv, NEW c \in serving, InText(c), OnTrack(c),
         Len(up[c]) >= expected
  PROVE  /\ Printed(c) + 1 \in 1..Typed(c)
         /\ Front(up[c], expected) = TextOf(c, Printed(c) + 1)
         /\ \/ HeaderBack(c) /\ sizes[c][Typed(c)] = 0
               /\ Rest(up[c], expected) = <<>>
            \/ TextSent(c) /\ Rest(up[c], expected) = <<>>
            \/ NextHeaderSent(c) /\ Rest(up[c], expected) = Header(Typed(c))
  <1> DEFINE p == Printed(c)
             n == Typed(c)
  <1>1. /\ c \in Clients /\ Good(c) /\ p \in Nat /\ n \in Nat
        /\ \A m \in 1..n : sizes[c][m] \in Nat
    <2>1. c \in Clients
      BY Types DEF TypeOK
    <2> QED  BY <2>1, Types DEF SizeInv
  <1>2. ASSUME NEW m \in 1..n
        PROVE  TextOf(c, m) \in Seq(Nat) /\ Len(TextOf(c, m)) = sizes[c][m]
    <2>1. m \in Nat /\ sizes[c][m] \in Nat
      BY <1>1
    <2> QED  BY <2>1, TextProperties DEF TextOf
  <1>3. HeaderBack(c) \/ TextSent(c) \/ NextHeaderSent(c)
    BY <1>1 DEF Good, InStep, Idle, HeaderSent, EmptyPrinted
  <1>4. CASE HeaderBack(c)
    <2>1. n = p + 1 /\ expected = sizes[c][n] /\ up[c] = <<>>
      BY <1>4 DEF HeaderBack
    <2>2. n \in 1..n
      BY <1>1, <2>1
    <2>3. expected = 0
      <3>1. Len(up[c]) = 0
        BY <2>1, EmptySeq
      <3>2. expected \in Nat
        BY <1>1, <2>1, <2>2
      <3> QED  BY <3>1, <3>2
    <2>4. /\ <<>> \in Seq(Nat) /\ Len(<<>>) = 0
          /\ Front(<<>>, 0) = <<>> /\ Rest(<<>>, 0) = <<>>
      BY EmptySeq, CutWhole
    <2>5. TextOf(c, n) = <<>>
      BY <1>2, <2>1, <2>2, <2>3, EmptySeq
    <2> QED  BY <1>4, <2>1, <2>2, <2>3, <2>4, <2>5
  <1>5. CASE TextSent(c)
    <2>1. n = p + 1 /\ expected = sizes[c][n] /\ up[c] = TextOf(c, n)
      BY <1>5 DEF TextSent
    <2>2. n \in 1..n
      BY <1>1, <2>1
    <2>3. up[c] \in Seq(Nat) /\ Len(up[c]) = expected
      BY <1>2, <2>1, <2>2
    <2>4. Front(up[c], expected) = up[c] /\ Rest(up[c], expected) = <<>>
      BY <2>3, CutWhole
    <2> QED  BY <1>5, <2>1, <2>2, <2>4
  <1>6. CASE NextHeaderSent(c)
    <2>1. /\ n = p + 2 /\ expected = sizes[c][p + 1]
          /\ up[c] = TextOf(c, p + 1) \o Header(n)
      BY <1>6 DEF NextHeaderSent
    <2>2. p + 1 \in 1..n
      BY <1>1, <2>1
    <2>3. TextOf(c, p + 1) \in Seq(Nat) /\ Len(TextOf(c, p + 1)) = expected
      BY <1>2, <2>1, <2>2
    <2>4. Header(n) \in Seq(Nat)
      BY <1>1, HeaderProperties
    <2>5. /\ Front(up[c], expected) = TextOf(c, p + 1)
          /\ Rest(up[c], expected) = Header(n)
      BY <2>1, <2>3, <2>4, CutOfConcat
    <2> QED  BY <1>6, <2>2, <2>5
  <1> QED  BY <1>3, <1>4, <1>5, <1>6

\* The server has read and printed all that it waits for.
LEMMA SizeInvPrint ==
  ASSUME SizeInv, NEW c \in serving, sstatus = "text", c \notin reset,
         Len(up[c]) >= expected,
         printed' = [printed EXCEPT ![c] = Append(@, Front(up[c], expected))],
         up' = [up EXCEPT ![c] = Rest(@, expected)],
         sstatus' = "header", expected' = 0,
         UNCHANGED <<listening, queue, cli, srv, down, reset, serving>>,
         UNCHANGED <<sizes, quits, cstatus>>
  PROVE  SizeInv'
  <1> DEFINE text == Front(up[c], expected)
             n == Typed(c)
             p == Printed(c)
  <1>1. /\ TypeOK /\ NetInv /\ NetTypeOK /\ c \in Clients /\ srv[c] = "open"
        /\ Good(c) /\ up[c] \in Seq(Nat) /\ Len(up[c]) \in Nat
        /\ printed[c] \in Seq(Seq(Nat)) /\ n \in Nat /\ p \in Nat /\ InText(c)
    BY Types DEF SizeInv, TypeOK, InText
  <1>2. expected \in 0..Len(up[c]) /\ 0 \in 0..Useless
    BY <1>1, SizeAssumption DEF TypeOK, Useless
  <1>3. text \in Seq(Nat)
    BY <1>1, <1>2, CutProperties
  <1>4. /\ up' \in [Clients -> Seq(Nat)]
        /\ \A d \in Clients : d # c => up'[d] = up[d]
        /\ up'[c] = Rest(up[c], expected)
        /\ \A j \in 1..Len(up'[c]) : up'[c][j] \div 2 \in 1..n
    BY <1>1, <1>2, RestLinked
  <1>5. OnTrack(c)
          => /\ p + 1 \in 1..n /\ text = TextOf(c, p + 1)
             /\ \/ HeaderBack(c) /\ sizes[c][n] = 0 /\ up'[c] = <<>>
                \/ TextSent(c) /\ up'[c] = <<>>
                \/ NextHeaderSent(c) /\ up'[c] = Header(n)
    BY <1>1, <1>4, NextLinePrinted
  <1> HIDE DEF text
  <1>6. /\ printed' \in [Clients -> Seq(Seq(Nat))]
        /\ \A d \in Clients : d # c => printed'[d] = printed[d]
        /\ Printed(c)' = p + 1 /\ printed'[c][p + 1] = text
        /\ \A k \in 1..p : printed'[c][k] = printed[c][k]
    <2>1. printed'[c] = Append(printed[c], text)
      BY <1>1 DEF TypeOK, text
    <2>2. /\ Append(printed[c], text) \in Seq(Seq(Nat))
          /\ Len(Append(printed[c], text)) = p + 1
          /\ \A k \in 1..p : Append(printed[c], text)[k] = printed[c][k]
          /\ Append(printed[c], text)[p + 1] = text
      BY <1>1, <1>3, AppendProperties DEF Printed
    <2>3. /\ printed' \in [Clients -> Seq(Seq(Nat))]
          /\ \A d \in Clients : d # c => printed'[d] = printed[d]
      BY <1>1, <2>1, <2>2 DEF TypeOK, text
    <2> QED  BY <2>1, <2>2, <2>3 DEF Printed
  <1>7. NetInv'
    <2>1. \A d \in Clients : cli[d] = "none" => up'[d] = up[d]
      BY <1>1, <1>4 DEF NetInv, Connected
    <2>2. down' \in [Clients -> Seq(Nat)]
      BY <1>1 DEF NetTypeOK
    <2> QED  BY <1>1, <1>4, <2>1, <2>2, NetInvData
  <1>8. TypeOK'
    BY <1>1, <1>2, <1>6, <1>7 DEF TypeOK, NetInv
  <1>9. Good(c)'
    <2>1. /\ Typed(c)' = n /\ (Long(c)' <=> Long(c)) /\ ~InText(c)'
          /\ (Asked(c)' <=> Asked(c)) /\ \A m : TextOf(c, m)' = TextOf(c, m)
      BY DEF Typed, Long, InText, Asked, TextOf
    <2>2. Linked(c)'
      BY <1>1, <1>4, <2>1 DEF Good, Linked
    <2>3. cli[c] = "open" /\ srv[c] # "closed"
      BY <1>1 DEF NetInv, Connected
    <2>4. PrintedOK(c)'
      <3> SUFFICES ASSUME NEW k \in 1..(p + 1),
                          \A m \in 1..n : m <= k => Short(sizes[c][m])
                   PROVE  \/ k <= n /\ printed'[c][k] = TextOf(c, k)
                          \/ /\ printed'[c][k] = Rubbish
                             /\ k = p + 1 /\ c \in reset /\ ~InText(c)'
        BY <1>6, <2>1 DEF PrintedOK, Short
      <3>1. k \in 1..p \/ k = p + 1
        BY <1>1
      <3>2. CASE k \in 1..p
        BY <1>1, <1>6, <3>2 DEF Good, PrintedOK
      <3>3. CASE k = p + 1
        <4>1. OnTrack(c)
          BY <2>3, <3>3 DEF OnTrack
        <4>2. p + 1 \in 1..n /\ text = TextOf(c, p + 1)
          BY <1>5, <4>1
        <4>3. p + 1 <= n
          BY <4>2
        <4> QED  BY <1>6, <3>3, <4>2, <4>3
      <3> QED  BY <3>1, <3>2, <3>3
    <2>5. ASSUME OnTrack(c)'  PROVE InStep(c)'
      <3>1. \A m \in 1..n : m <= p + 1 => m <= (p + 1) + 1
        BY <1>1
      <3>2. OnTrack(c)
        BY <1>6, <2>1, <2>5, <3>1 DEF OnTrack, Short
      <3>3. CASE HeaderBack(c) /\ sizes[c][n] = 0 /\ up'[c] = <<>>
        <4>1. EmptyPrinted(c)'
          BY <1>6, <2>1, <3>3 DEF HeaderBack, EmptyPrinted, Acks
        <4> QED  BY <4>1 DEF InStep
      <3>4. CASE TextSent(c) /\ up'[c] = <<>>
        <4>1. Idle(c)'
          BY <1>6, <2>1, <3>4 DEF TextSent, Idle
        <4> QED  BY <4>1 DEF InStep
      <3>5. CASE NextHeaderSent(c) /\ up'[c] = Header(n)
        <4>1. n = (p + 1) + 1
          BY <1>1, <3>5 DEF NextHeaderSent
        <4>2. HeaderSent(c)'
          BY <1>6, <2>1, <3>5, <4>1 DEF NextHeaderSent, HeaderSent
        <4> QED  BY <4>2 DEF InStep
      <3> QED  BY <1>5, <3>2, <3>3, <3>4, <3>5
    <2> QED  BY <2>2, <2>4, <2>5 DEF Good
  <1>10. ASSUME NEW d \in Clients, d # c  PROVE Good(d)'
    <2>1. d \notin serving
      BY <1>1, <1>10 DEF TypeOK
    <2> QED  BY <1>1, <1>4, <1>6, <1>10, <2>1, GoodKept DEF SizeInv, InText
  <1> QED  BY <1>7, <1>8, <1>9, <1>10 DEF SizeInv

LEMMA SizeInvReadText ==
  ASSUME SizeInv, NEW c \in serving, ReadText(c)
  PROVE  SizeInv'
  <1>1. /\ TypeOK /\ NetInv /\ NetTypeOK /\ c \in Clients /\ srv[c] = "open"
        /\ Good(c) /\ Len(up[c]) \in Nat
        /\ Useless = MaxRead + 1 /\ MaxRead \in Nat /\ expected \in 0..Useless
        /\ \A n \in 1..Typed(c) : sizes[c][n] \in 0..MaxRead
        /\ sstatus = "text" /\ expected' = 0 /\ UNCHANGED <<sizes, quits, cstatus>>
    BY Types, SizeAssumption DEF SizeInv, TypeOK, ReadText, Useless
  <1>2. ASSUME c \in reset \/ expected = Useless,
               printed' = [printed EXCEPT ![c] = Append(@, Rubbish)],
               sstatus' = "header", UNCHANGED <<netVars, serving>>
        PROVE  SizeInv'
    <2> DEFINE p == Printed(c)
    <2>1. UNCHANGED <<listening, queue, cli, srv, up, down, reset>>
      BY <1>2 DEF netVars
    <2>2. NetInv'
      BY <1>1, <2>1 DEF NetInv, NetTypeOK, QueueOK, Connected
    <2>3. /\ printed' \in [Clients -> Seq(Seq(Nat))]
          /\ \A d \in Clients : d # c => printed'[d] = printed[d]
          /\ p \in Nat /\ Printed(c)' = p + 1 /\ printed'[c][p + 1] = Rubbish
          /\ \A k \in 1..p : printed'[c][k] = printed[c][k]
      <3>1. Rubbish \in Seq(Nat)
        BY DEF Rubbish
      <3>2. printed[c] \in Seq(Seq(Nat)) /\ printed'[c] = Append(printed[c], Rubbish)
        BY <1>1, <1>2, Types DEF TypeOK
      <3>3. /\ Append(printed[c], Rubbish) \in Seq(Seq(Nat))
            /\ Len(Append(printed[c], Rubbish)) = p + 1 /\ p \in Nat
            /\ Append(printed[c], Rubbish)[p + 1] = Rubbish
            /\ \A k \in 1..p : Append(printed[c], Rubbish)[k] = printed[c][k]
        BY <3>1, <3>2, AppendProperties, LenProperties DEF Printed
      <3> QED  BY <1>1, <1>2, <3>2, <3>3 DEF TypeOK, Printed
    <2> HIDE DEF p
    <2>4. TypeOK'
      BY <1>1, <1>2, <2>1, <2>2, <2>3 DEF TypeOK, NetInv
    <2>5. InText(c) /\ ~InText(c)'
      BY <1>1, <1>2 DEF InText
    <2>6. ~OnTrack(c)
      <3> SUFFICES ASSUME OnTrack(c)  PROVE FALSE
        OBVIOUS
      <3>1. expected = MaxRead + 1
        BY <1>1, <1>2 DEF OnTrack
      <3>2. HeaderBack(c) \/ TextSent(c) \/ NextHeaderSent(c)
        BY <1>1 DEF Good, InStep, Idle, HeaderSent, EmptyPrinted, InText
      <3>3. \E n \in 1..Typed(c) : expected = sizes[c][n]
        <4>1. Typed(c) \in Nat /\ Printed(c) \in Nat
          BY <1>1, Types
        <4> QED
          BY <3>2, <4>1 DEF HeaderBack, TextSent, NextHeaderSent
      <3> QED  BY <1>1, <3>1, <3>3
    <2>7. Good(c)'
      <3>1. /\ Typed(c)' = Typed(c) /\ Typed(c) \in Nat
            /\ (Asked(c)' <=> Asked(c)) /\ \A k : TextOf(c, k)' = TextOf(c, k)
        BY <1>1, Types DEF Typed, Asked, TextOf
      <3>2. Linked(c)'
        BY <1>1, <1>2, <2>1, <3>1 DEF Good, Linked
      <3>3. cli[c] = "open" \/ c \in reset
        BY <1>1 DEF NetInv, Connected
      <3>4. PrintedOK(c)'
        <4> SUFFICES ASSUME NEW k \in 1..(p + 1),
                            \A m \in 1..Typed(c) : m <= k => Short(sizes[c][m])
                     PROVE  \/ k <= Typed(c) /\ printed'[c][k] = TextOf(c, k)
                            \/ /\ printed'[c][k] = Rubbish
                               /\ k = p + 1 /\ c \in reset
          BY <1>1, <2>1, <2>3, <2>5, <3>1 DEF PrintedOK, Short
        <4>1. CASE k \in 1..p
          BY <1>1, <2>3, <2>5, <4>1 DEF Good, PrintedOK, p
        <4>2. CASE k = p + 1
          BY <1>1, <2>3, <2>6, <3>3, <4>2 DEF OnTrack, p
        <4> QED  BY <2>3, <4>1, <4>2
      <3>5. ~OnTrack(c)'
        <4> SUFFICES ASSUME OnTrack(c)'  PROVE OnTrack(c)
          BY <2>6
        <4>1. \A m \in 1..Typed(c) : m <= p + 1 => m <= (p + 1) + 1
          BY <2>3, <3>1
        <4> QED
          BY <1>1, <2>1, <2>3, <3>1, <4>1 DEF OnTrack, Short, p
      <3> QED  BY <3>2, <3>4, <3>5 DEF Good
    <2>8. ASSUME NEW d \in Clients, d # c  PROVE Good(d)'
      <3>1. d \notin serving
        BY <1>1, <2>8 DEF TypeOK
      <3> QED  BY <1>1, <1>2, <2>1, <2>3, <2>8, <3>1, GoodKept DEF SizeInv, InText
    <2> QED  BY <2>2, <2>4, <2>7, <2>8 DEF SizeInv
  <1>3. ASSUME UNCHANGED printed, ServerEnds("died")  PROVE SizeInv'
    <2>1. 0 \in 0..Useless
      BY <1>1
    <2> QED  BY <1>1, <1>3, <2>1, SizeInvServerEnds DEF ServerEnds
  <1>4. ASSUME c \notin reset,
               Len(up[c]) >= expected \/ cli[c] = "closed",
               printed' = [printed EXCEPT ![c] = Append(@, Front(up[c], Available(c)))],
               up' = [up EXCEPT ![c] = Rest(@, Available(c))],
               sstatus' = "header",
               UNCHANGED <<listening, queue, cli, srv, down, reset, serving>>
        PROVE  SizeInv'
    <2>1. cli[c] = "open"
      BY <1>1, <1>4 DEF NetInv, Connected
    <2>2. Len(up[c]) >= expected
      BY <1>4, <2>1
    <2>3. ~(Len(up[c]) < expected)
      BY <1>1, <2>2
    <2>4. Available(c) = expected
      BY <2>3 DEF Available
    <2> QED  BY <1>1, <1>4, <2>2, <2>4, SizeInvPrint
  <1> QED  BY <1>2, <1>3, <1>4 DEF ReadText

-----------------------------------------------------------------------------
(* The theorems. *)

LEMMA SizeInvNext == SizeInv /\ [Next]_vars => SizeInv'
  <1> SUFFICES ASSUME SizeInv, [Next]_vars  PROVE SizeInv'
    OBVIOUS
  <1>1. ASSUME NEW c \in Clients, StartClient(c)  PROVE SizeInv'
    BY <1>1, SizeInvStartClient
  <1>2. ASSUME NEW c \in Clients, SendHeader(c)  PROVE SizeInv'
    BY <1>2, SizeInvSendHeader
  <1>3. ASSUME NEW c \in Clients, ClientLoop(c)  PROVE SizeInv'
    BY <1>3, SizeInvFreeHeader, SizeInvReadAck DEF ClientLoop
  <1>4. ASSUME NEW c \in Clients, KillClient(c)  PROVE SizeInv'
    BY <1>4, SizeInvKillClient
  <1>5. ASSUME NEW c \in Clients, ResetArrives(c), UNCHANGED sizeVars
        PROVE  SizeInv'
    BY <1>5, SizeInvReset
  <1>6. CASE StartServer
    BY <1>6, SizeInvStartServer
  <1>7. CASE ServerLoop
    BY <1>7, SizeInvAccept, SizeInvReadHeader, SizeInvReadText DEF ServerLoop
  <1>8. CASE KillServer
    <2>1. 0 \in 0..Useless
      BY SizeAssumption DEF Useless
    <2> QED  BY <1>8, <2>1, SizeInvServerEnds DEF KillServer, ServerEnds
  <1>9. CASE UNCHANGED vars
    <2>1. /\ UNCHANGED <<listening, queue, cli, srv, up, down, reset>>
          /\ UNCHANGED <<sizes, quits, printed, cstatus, sstatus, serving, expected>>
      BY <1>9 DEF vars, netVars, sizeVars
    <2>2. NetInv'
      BY <2>1 DEF SizeInv, NetInv, NetTypeOK, QueueOK, Connected
    <2>3. TypeOK'
      BY <2>1, <2>2 DEF SizeInv, TypeOK, NetInv
    <2>4. ASSUME NEW c \in Clients  PROVE Good(c)'
      BY <2>1, GoodKept DEF SizeInv, InText
    <2> QED  BY <2>2, <2>3, <2>4 DEF SizeInv
  <1> QED
    BY <1>1, <1>2, <1>3, <1>4, <1>5, <1>6, <1>7, <1>8, <1>9 DEF Next

LEMMA SizeInvariant == Spec => []SizeInv
  BY SizeInvInit, SizeInvNext, PTL DEF Spec

\* Whatever the clients, their users, the server and TCP do, and whatever is read
\* as a number, every variable of lab 3 keeps its type, and the server reads from
\* the one client that it has accepted and not closed
\* (3/SendSizeOfFileFirst/server/server.cpp).
THEOREM SizeTypeCorrect == Spec => []TypeOK
  <1>1. SizeInv => TypeOK
    BY DEF SizeInv
  <1> QED  BY <1>1, SizeInvariant, PTL

\* For any number of clients and lines of any sizes, whoever goes away and whatever
\* is reset: up to its first line whose header has no \0, the server prints the
\* lines of each client, whole, in order and none twice; if recv() fails in a text,
\* one thing more, which is the last.
THEOREM SizeLinesPrinted == Spec => []LinesPrinted
  <1>1. SizeInv => LinesPrinted
    BY DEF SizeInv, Good, PrintedOK, Printed, Typed, TextOf, LinesPrinted
  <1> QED  BY <1>1, SizeInvariant, PTL

LEMMA SizeNoMutualWaitHolds == SizeInv => NoMutualWait
  <1> SUFFICES ASSUME SizeInv, NEW c \in serving, cstatus[c] = "waiting",
                      c \notin reset, ~Long(c)
               PROVE  \/ Len(down[c]) >= HeaderSize
                      \/ Len(up[c]) >= IF sstatus = "header" THEN HeaderSize
                                                             ELSE expected
    BY DEF NoMutualWait
  <1>1. /\ NetInv /\ c \in Clients /\ srv[c] = "open" /\ Good(c)
        /\ sstatus \in {"header", "text"}
        /\ Typed(c) \in Nat /\ Printed(c) \in Nat
        /\ \A n \in 1..Typed(c) : sizes[c][n] \in Nat
    BY Types DEF SizeInv, TypeOK
  <1>2. OnTrack(c)
    BY <1>1 DEF NetInv, Connected, OnTrack, Long, Typed
  <1>3. HeaderSent(c) \/ HeaderBack(c) \/ EmptyPrinted(c) \/ NextHeaderSent(c)
    BY <1>1, <1>2 DEF Good, InStep, Idle, TextSent
  <1>4. HeaderSize \in Nat
    BY SizeAssumption
  <1>5. CASE HeaderSent(c)
    <2>1. sstatus = "header" /\ up[c] = Header(Typed(c))
      BY <1>1, <1>5 DEF HeaderSent, InText
    <2>2. Len(up[c]) = HeaderSize
      BY <1>1, <2>1, HeaderProperties
    <2> QED  BY <1>4, <2>1, <2>2
  <1>6. CASE HeaderBack(c) \/ EmptyPrinted(c)
    <2>1. down[c] = Acks
      BY <1>6 DEF HeaderBack, EmptyPrinted
    <2>2. Len(down[c]) = HeaderSize
      BY <1>4, <2>1, HeaderProperties, AckProperties, LenProperties DEF Acks
    <2> QED  BY <1>4, <2>2
  <1>7. CASE NextHeaderSent(c)
    <2> DEFINE text == TextOf(c, Printed(c) + 1)
    <2>1. /\ sstatus = "text" /\ expected = sizes[c][Printed(c) + 1]
          /\ up[c] = text \o Header(Typed(c))
          /\ Printed(c) + 1 \in 1..Typed(c)
      BY <1>1, <1>7 DEF NextHeaderSent, InText
    <2>2. expected \in Nat /\ text \in Seq(Nat) /\ Len(text) = expected
      <3>1. Printed(c) + 1 \in Nat /\ sizes[c][Printed(c) + 1] \in Nat
        BY <1>1, <2>1
      <3> QED  BY <2>1, <3>1, TextProperties DEF TextOf
    <2>3. Header(Typed(c)) \in Seq(Nat) /\ Len(Header(Typed(c))) = HeaderSize
      BY <1>1, HeaderProperties
    <2>4. Len(up[c]) = expected + HeaderSize
      <3>1. text \in Seq(Nat) /\ Header(Typed(c)) \in Seq(Nat)
        BY <2>2, <2>3
      <3>2. Len(text \o Header(Typed(c))) = Len(text) + Len(Header(Typed(c)))
        BY <3>1, ConcatProperties
      <3> QED  BY <2>1, <2>2, <2>3, <3>2
    <2>5. Len(up[c]) >= expected
      <3>1. expected \in Nat
        BY <2>2
      <3> QED  BY <1>4, <2>4, <3>1
    <2> QED  BY <2>1, <2>5
  <1> QED  BY <1>3, <1>5, <1>6, <1>7

\* For all values of the constants, the server and a client of short lines never
\* both wait in recv() for bytes that the other one has not sent.
THEOREM SizeNoMutualWait == Spec => []NoMutualWait
  BY SizeInvariant, SizeNoMutualWaitHolds, PTL

LEMMA SizeHeadersInStepHolds == SizeInv => HeadersInStep
  <1> SUFFICES ASSUME SizeInv, NEW c \in serving, c \notin reset, ~Long(c)
               PROVE  IF sstatus = "header"
                      THEN Len(up[c]) >= HeaderSize
                             => Front(up[c], HeaderSize) = Header(Printed(c) + 1)
                      ELSE expected = sizes[c][Printed(c) + 1]
    BY DEF HeadersInStep, Printed
  <1>1. /\ NetInv /\ c \in Clients /\ srv[c] = "open" /\ Good(c)
        /\ sstatus \in {"header", "text"}
        /\ Typed(c) \in Nat /\ Printed(c) \in Nat
    BY Types DEF SizeInv, TypeOK
  <1>2. OnTrack(c)
    BY <1>1 DEF NetInv, Connected, OnTrack, Long, Typed
  <1>3. CASE sstatus = "header"
    <2> SUFFICES ASSUME Len(up[c]) >= HeaderSize
                 PROVE  Front(up[c], HeaderSize) = Header(Printed(c) + 1)
      BY <1>3
    <2>1. up[c] # <<>>
      BY SizeAssumption, EmptySeq
    <2>2. HeaderSent(c)
      BY <1>1, <1>2, <1>3, <2>1
         DEF Good, InStep, Idle, HeaderBack, EmptyPrinted, TextSent,
             NextHeaderSent, InText
    <2>3. up[c] = Header(Typed(c)) /\ Typed(c) = Printed(c) + 1
      BY <2>2 DEF HeaderSent
    <2>4. Header(Typed(c)) \in Seq(Nat) /\ Len(Header(Typed(c))) = HeaderSize
      BY <1>1, HeaderProperties
    <2> QED  BY <2>3, <2>4, CutWhole
  <1>4. CASE sstatus = "text"
    <2>1. HeaderBack(c) \/ TextSent(c) \/ NextHeaderSent(c)
      BY <1>1, <1>2, <1>4 DEF Good, InStep, Idle, HeaderSent, EmptyPrinted, InText
    <2> QED
      BY <1>1, <1>4, <2>1 DEF HeaderBack, TextSent, NextHeaderSent
  <1> QED  BY <1>1, <1>3, <1>4

\* For all values of the constants, as long as a client's lines are short, what the
\* server takes for a header is the header of the next line to print, never text,
\* however long that is, and it waits for as many bytes as that line has.
THEOREM SizeHeadersInStep == Spec => []HeadersInStep
  BY SizeInvariant, SizeHeadersInStepHolds, PTL
=============================================================================
