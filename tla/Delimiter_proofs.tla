--------------------------- MODULE Delimiter_proofs ---------------------------
(***************************************************************************)
(* Proofs about Delimiter, for any number of clients, any lines, any size  *)
(* of the chunks and anything in the uninitialised buffer.                 *)
(***************************************************************************)
EXTENDS Delimiter, TcpNet_proofs

-----------------------------------------------------------------------------
(* What a chunk is made of. *)

Letters == {Text, Quit, Bar}

\* The kind of byte j of chunk i of a line: it does not depend on the number of
\* the line.
KindAt(line, i, j) ==
  IF j < MsgSize /\ i * (MsgSize - 1) + j <= Len(line) + 1
  THEN Append(line, Bar)[i * (MsgSize - 1) + j]
  ELSE Nul

\* Does chunk i of a line hold a bar in front of its first \0, is it the first one
\* that does, and does it start with quit?
BarIn(line, i) ==
  \E j \in 1..MsgSize : /\ KindAt(line, i, j) = Bar
                        /\ \A m \in 1..(j - 1) : KindAt(line, i, m) # Nul
FirstBar(line, i) == BarIn(line, i) /\ \A h \in 0..(i - 1) : ~BarIn(line, h)
QuitIn(line, i) == KindAt(line, i, 1) = Quit

\* A stream that holds the chunks from number r on, but not number i, of line n.
Holds(stream, n, line, r, i) ==
  /\ Len(stream) = MsgSize * (i - r)
  /\ \A h \in r..(i - 1), j \in 1..MsgSize :
       stream[MsgSize * (h - r) + j] = Chunk(n, line, h)[j]

-----------------------------------------------------------------------------
(* The inductive invariant. *)

Running == {"prompt", "sending", "waiting"}

Typed(c) == Len(typed[c])
Shown(c) == Len(shown[c])
Line(c) == typed[c][Typed(c)]

\* How the socket and the history of c go with the state of its program.
Linked(c) ==
  /\ (cli[c] = "none" <=> cstatus[c] = "start")
  /\ (cli[c] = "open" <=> cstatus[c] \in Running)
  /\ cstatus[c] \in {"sending", "waiting"} => typed[c] # <<>>

\* What c has printed are the last chunks of its lines, none of them quit; the line
\* that it is sending, or has sent, is the next one.
Answered(c) ==
  /\ \A k \in 1..Shown(c) : /\ shown[c][k] = LastChunk(k, typed[c][k])
                            /\ ~IsQuitLine(typed[c][k])
  /\ cstatus[c] \in {"start", "prompt"} => Typed(c) = Shown(c)
  /\ cstatus[c] \in {"sending", "waiting"} => Typed(c) = Shown(c) + 1

\* c sends chunks as long as there is no bar in them, which is not longer than the
\* line.
Sent(c) ==
  /\ cstatus[c] = "sending" =>
       /\ chunks[c] * (MsgSize - 1) <= Len(Line(c))
       /\ \A h \in 0..(chunks[c] - 1) : ~BarIn(Line(c), h)
  /\ cstatus[c] = "waiting" =>
       /\ chunks[c] - 1 \in 0..Len(Line(c))
       /\ FirstBar(Line(c), chunks[c] - 1)

\* The chunks from number r on of the line of c are on their way to the server.
Coming(c, r) ==
  down[c] = <<>> /\ Holds(up[c], Typed(c), Line(c), r, chunks[c])

\* What is on its way on c's connection.
Underway(c) ==
  /\ cstatus[c] \in {"start", "prompt"} => up[c] = <<>> /\ down[c] = <<>>
  /\ cstatus[c] = "sending" => \E r \in 0..chunks[c] : Coming(c, r)
  /\ cstatus[c] = "waiting" =>
       \/ \E r \in 0..(chunks[c] - 1) : Coming(c, r)
       \/ up[c] = <<>> /\ down[c] = <<>> /\ srv[c] = "closed"
       \/ /\ up[c] = <<>> /\ down[c] = Chunk(Typed(c), Line(c), chunks[c] - 1)
          /\ ~QuitIn(Line(c), chunks[c] - 1)

\* For a client whose chunks come whole.
Whole(c) == Answered(c) /\ Sent(c) /\ (c \notin reset => Underway(c))

Good(c) == Linked(c) /\ (c \notin Cut => Whole(c))

LineInv == TypeOK /\ NetInv /\ \A c \in Clients : Good(c)

-----------------------------------------------------------------------------
(* Lemmas about chunks. *)

LEMMA Sizes ==
  /\ MsgSize \in Nat /\ MsgSize >= 2 /\ MsgSize - 1 \in Nat
  /\ 1 \in 1..MsgSize /\ MsgSize \in 1..MsgSize
  BY DelimiterAssumption

LEMMA KindOfByte == \A n \in Nat, kind \in 0..3 : 4 * n + kind \in Nat
                                                  /\ Kind(4 * n + kind) = kind
  BY SMT DEF Kind

\* Where a chunk starts.
LEMMA FromProperties ==
  ASSUME NEW i \in Nat
  PROVE  /\ i * (MsgSize - 1) \in Nat /\ i <= i * (MsgSize - 1)
         /\ (i + 1) * (MsgSize - 1) = i * (MsgSize - 1) + (MsgSize - 1)
  <1> DEFINE room == MsgSize - 1
  <1>1. room \in Nat /\ room >= 1
    BY Sizes
  <1> HIDE DEF room
  <1>2. i * room \in Nat /\ i <= i * room /\ (i + 1) * room = i * room + room
    BY <1>1
  <1> QED  BY <1>2 DEF room

LEMMA WithBarProperties ==
  ASSUME NEW line \in Seq(Letters)
  PROVE  /\ Len(line) \in Nat /\ Len(Append(line, Bar)) = Len(line) + 1
         /\ \A k \in 1..(Len(line) + 1) : Append(line, Bar)[k] \in Letters
         /\ Append(line, Bar)[Len(line) + 1] = Bar
  <1>1. Bar \in Letters
    BY DEF Letters
  <1>2. /\ Append(line, Bar) \in Seq(Letters)
        /\ Len(Append(line, Bar)) = Len(line) + 1
        /\ Append(line, Bar)[Len(line) + 1] = Bar
    BY <1>1, AppendProperties
  <1>3. \A k \in 1..(Len(line) + 1) : Append(line, Bar)[k] \in Letters
    BY <1>2, ElementOfSeq
  <1> QED  BY <1>2, <1>3, LenProperties

LEMMA ChunkProperties ==
  ASSUME NEW n \in Nat, NEW line \in Seq(Letters), NEW i \in Nat
  PROVE  /\ Chunk(n, line, i) \in Seq(Nat) /\ Len(Chunk(n, line, i)) = MsgSize
         /\ DOMAIN Chunk(n, line, i) = 1..MsgSize
         /\ \A j \in 1..MsgSize : Kind(Chunk(n, line, i)[j]) = KindAt(line, i, j)
         /\ KindAt(line, i, MsgSize) = Nul
  <1> DEFINE from == i * (MsgSize - 1)
             withBar == Append(line, Bar)
  <1>1. from \in Nat /\ MsgSize \in Nat /\ Len(line) \in Nat
    BY Sizes, FromProperties, LenProperties
  <1>2. /\ Len(withBar) = Len(line) + 1
        /\ \A k \in 1..(Len(line) + 1) : withBar[k] \in Letters
    BY WithBarProperties
  <1>3. Chunk(n, line, i) =
          [j \in 1..MsgSize |->
             4 * n + IF j < MsgSize /\ from + j <= Len(withBar)
                     THEN withBar[from + j] ELSE Nul]
    BY DEF Chunk
  <1>4. \A j : KindAt(line, i, j) =
                 IF j < MsgSize /\ from + j <= Len(line) + 1
                 THEN withBar[from + j] ELSE Nul
    BY DEF KindAt
  <1> HIDE DEF from, withBar
  <1>5. ASSUME NEW j \in 1..MsgSize  PROVE KindAt(line, i, j) \in 0..3
    <2>1. CASE j < MsgSize /\ from + j <= Len(line) + 1
      <3>1. from + j \in 1..(Len(line) + 1)
        BY <1>1, <2>1
      <3>2. withBar[from + j] \in Letters
        BY <1>2, <3>1
      <3> QED  BY <1>4, <2>1, <3>2 DEF Letters, Text, Quit, Bar
    <2>2. CASE ~(j < MsgSize /\ from + j <= Len(line) + 1)
      BY <1>4, <2>2 DEF Nul
    <2> QED  BY <2>1, <2>2
  <1>6. \A j \in 1..MsgSize : Chunk(n, line, i)[j] = 4 * n + KindAt(line, i, j)
    BY <1>2, <1>3, <1>4
  <1>7. \A j \in 1..MsgSize : /\ Chunk(n, line, i)[j] \in Nat
                              /\ Kind(Chunk(n, line, i)[j]) = KindAt(line, i, j)
    BY <1>5, <1>6, KindOfByte
  <1>8. Chunk(n, line, i) \in [1..MsgSize -> Nat]
    BY <1>3, <1>7
  <1>9. Chunk(n, line, i) \in Seq(Nat)
    BY <1>1, <1>8, SeqDef
  <1>10. KindAt(line, i, MsgSize) = Nul
    BY <1>1, <1>4
  <1>11. DOMAIN Chunk(n, line, i) = 1..MsgSize
    BY <1>8
  <1>12. Len(Chunk(n, line, i)) = MsgSize
    BY <1>1, <1>9, <1>11, LenProperties
  <1> QED  BY <1>7, <1>9, <1>10, <1>11, <1>12

\* Whether there is a bar in a chunk does not depend on the number of its line.
LEMMA BarInChunk ==
  ASSUME NEW n \in Nat, NEW line \in Seq(Letters), NEW i \in Nat
  PROVE  HasBar(Chunk(n, line, i)) <=> BarIn(line, i)
  <1>1. MsgSize \in Nat
    BY Sizes
  <1>2. /\ DOMAIN Chunk(n, line, i) = 1..MsgSize
        /\ \A j \in 1..MsgSize : Kind(Chunk(n, line, i)[j]) = KindAt(line, i, j)
    BY ChunkProperties
  <1>3. \A j \in 1..MsgSize : \A m \in 1..(j - 1) : m \in 1..MsgSize
    BY <1>1
  <1> QED  BY <1>2, <1>3 DEF HasBar, BarIn

\* What lies in the buffer behind a chunk is neither searched nor sent back.
LEMMA FilledProperties ==
  ASSUME NEW n \in Nat, NEW line \in Seq(Letters), NEW i \in Nat,
         buffer \in [1..(MsgSize + 1) -> Nat]
  PROVE  LET cells == Filled(Chunk(n, line, i))
         IN  /\ (HasBar(cells) <=> BarIn(line, i))
             /\ (IsQuit(cells) <=> QuitIn(line, i))
             /\ EchoOf(cells) = Chunk(n, line, i)
  <1> DEFINE chunk == Chunk(n, line, i)
             cells == Filled(chunk)
  <1>1. MsgSize \in Nat /\ MsgSize >= 2
    BY Sizes
  <1>2. /\ chunk \in Seq(Nat) /\ Len(chunk) = MsgSize
        /\ \A j \in 1..MsgSize : Kind(chunk[j]) = KindAt(line, i, j)
        /\ KindAt(line, i, MsgSize) = Nul
    BY ChunkProperties
  <1>3. \A j \in 1..MsgSize : chunk[j] \in Nat
    BY <1>2, ElementOfSeq
  <1>4. cells = [j \in 1..(MsgSize + 1) |-> IF j <= MsgSize THEN chunk[j]
                                                            ELSE buffer[j]]
    BY <1>2 DEF Filled
  <1> HIDE DEF chunk, cells
  <1>5. \A j \in 1..(MsgSize + 1) : j \in 1..MsgSize \/ j = MsgSize + 1
    BY <1>1
  <1>6. /\ DOMAIN cells = 1..(MsgSize + 1)
        /\ \A j \in 1..MsgSize : j \in 1..(MsgSize + 1) /\ cells[j] = chunk[j]
    BY <1>1, <1>4
  <1>7. cells \in Seq(Nat) /\ Len(cells) = MsgSize + 1
    <2>1. cells \in [1..(MsgSize + 1) -> Nat]
      BY <1>1, <1>3, <1>4
    <2>2. MsgSize + 1 \in Nat
      BY <1>1
    <2>3. cells \in Seq(Nat)
      BY <2>1, <2>2, SeqDef
    <2> QED  BY <1>6, <2>2, <2>3, LenProperties
  <1>8. HasBar(cells) <=> BarIn(line, i)
    <2>1. \A j \in 1..MsgSize : \A m \in 1..(j - 1) : m \in 1..MsgSize
      BY <1>1
    <2>2. ASSUME BarIn(line, i)  PROVE HasBar(cells)
      <3>1. PICK j \in 1..MsgSize :
                   /\ KindAt(line, i, j) = Bar
                   /\ \A m \in 1..(j - 1) : KindAt(line, i, m) # Nul
        BY <2>2 DEF BarIn
      <3>2. \A m \in 1..MsgSize : Kind(cells[m]) = KindAt(line, i, m)
        BY <1>2, <1>6
      <3>3. \A m \in 1..(j - 1) : Kind(cells[m]) # Nul
        BY <2>1, <3>1, <3>2
      <3>4. j \in DOMAIN cells /\ Kind(cells[j]) = Bar
        BY <1>6, <3>1, <3>2
      <3> QED  BY <3>3, <3>4 DEF HasBar
    <2>3. ASSUME HasBar(cells)  PROVE BarIn(line, i)
      <3>1. PICK j \in 1..(MsgSize + 1) :
                   /\ Kind(cells[j]) = Bar
                   /\ \A m \in 1..(j - 1) : Kind(cells[m]) # Nul
        BY <1>6, <2>3 DEF HasBar
      <3>2. j # MsgSize + 1
        <4> SUFFICES ASSUME j = MsgSize + 1  PROVE FALSE
          OBVIOUS
        <4>1. MsgSize \in 1..MsgSize /\ MsgSize \in 1..(j - 1)
          BY <1>1
        <4>2. Kind(cells[MsgSize]) # Nul
          BY <3>1, <4>1
        <4>3. Kind(cells[MsgSize]) = KindAt(line, i, MsgSize)
          BY <1>2, <1>6, <4>1
        <4> QED  BY <1>2, <4>2, <4>3
      <3>3. j \in 1..MsgSize
        BY <1>5, <3>2
      <3> QED  BY <1>2, <1>6, <2>1, <3>1, <3>3 DEF BarIn
    <2> QED  BY <2>2, <2>3
  <1>9. IsQuit(cells) <=> QuitIn(line, i)
    <2>1. 1 \in 1..MsgSize
      BY <1>1
    <2> QED  BY <1>2, <1>6, <2>1 DEF IsQuit, QuitIn
  <1>10. EchoOf(cells) = chunk
    <2>1. MsgSize \in 0..Len(cells)
      BY <1>1, <1>7
    <2>2. /\ Front(cells, MsgSize) \in Seq(Nat) /\ Len(Front(cells, MsgSize)) = MsgSize
          /\ \A j \in 1..MsgSize : Front(cells, MsgSize)[j] = cells[j]
      BY <1>7, <2>1, CutProperties
    <2>3. Front(cells, MsgSize) = chunk
      BY <1>2, <1>6, <2>2, SeqEqual
    <2> QED  BY <2>3 DEF EchoOf
  <1> QED  BY <1>8, <1>9, <1>10 DEF cells, chunk

\* There is a bar in the last chunk that starts within a line or right behind it.
LEMMA NoBarYet ==
  ASSUME NEW line \in Seq(Letters), NEW i \in Nat, ~BarIn(line, i),
         i * (MsgSize - 1) <= Len(line)
  PROVE  (i + 1) * (MsgSize - 1) <= Len(line)
  <1> DEFINE from == i * (MsgSize - 1)
             next == (i + 1) * (MsgSize - 1)
             withBar == Append(line, Bar)
             last == Len(line) + 1 - from
  <1>1. /\ from \in Nat /\ MsgSize \in Nat /\ Len(line) \in Nat
        /\ next = from + (MsgSize - 1) /\ from <= Len(line)
    BY Sizes, FromProperties, LenProperties
  <1>2. /\ \A k \in 1..(Len(line) + 1) : withBar[k] \in Letters
        /\ withBar[Len(line) + 1] = Bar
    BY WithBarProperties
  <1>3. \A j : KindAt(line, i, j) =
                 IF j < MsgSize /\ from + j <= Len(line) + 1
                 THEN withBar[from + j] ELSE Nul
    BY DEF KindAt
  <1> SUFFICES ASSUME ~(next <= Len(line))  PROVE FALSE
    OBVIOUS
  <1> HIDE DEF from, next, withBar
  <1>4. last \in 1..MsgSize /\ last < MsgSize /\ from + last = Len(line) + 1
    BY <1>1
  <1> HIDE DEF last
  <1>5. KindAt(line, i, last) = Bar
    BY <1>1, <1>2, <1>3, <1>4
  <1>6. ASSUME NEW m \in 1..(last - 1)  PROVE KindAt(line, i, m) # Nul
    <2>1. m < MsgSize /\ from + m <= Len(line) + 1 /\ from + m \in 1..(Len(line) + 1)
      BY <1>1, <1>4
    <2>2. KindAt(line, i, m) = withBar[from + m]
      BY <1>3, <2>1
    <2> QED  BY <1>2, <2>1, <2>2 DEF Letters, Text, Quit, Bar, Nul
  <1> QED  BY <1>4, <1>5, <1>6 DEF BarIn

\* The last chunk of a line is the first one with a bar.
LEMMA LastChunkProperties ==
  ASSUME NEW n \in Nat, NEW line \in Seq(Letters), NEW i \in 0..Len(line),
         FirstBar(line, i)
  PROVE  /\ LastChunk(n, line) = Chunk(n, line, i)
         /\ (IsQuitLine(line) <=> QuitIn(line, i))
  <1>1. Len(line) \in Nat /\ i \in Nat
    BY LenProperties
  <1>2. ASSUME NEW m \in Nat  PROVE LastChunk(m, line) = Chunk(m, line, i)
    <2> DEFINE Last(chunk) == \E k \in 0..Len(line) :
                                /\ chunk = Chunk(m, line, k) /\ HasBar(chunk)
                                /\ \A h \in 0..(k - 1) : ~HasBar(Chunk(m, line, h))
               all == {Chunk(m, line, k) : k \in 0..Len(line)}
    <2>1. \A k \in 0..Len(line) : k \in Nat /\ (HasBar(Chunk(m, line, k)) <=> BarIn(line, k))
      BY <1>1, BarInChunk
    <2>2. \A k \in 0..Len(line) : \A h \in 0..(k - 1) : h \in 0..Len(line)
      BY <1>1
    <2>3. Chunk(m, line, i) \in all /\ Last(Chunk(m, line, i))
      BY <2>1, <2>2 DEF FirstBar
    <2>4. ASSUME NEW chunk \in all, Last(chunk)  PROVE chunk = Chunk(m, line, i)
      <3>1. PICK k \in 0..Len(line) :
                   /\ chunk = Chunk(m, line, k) /\ HasBar(chunk)
                   /\ \A h \in 0..(k - 1) : ~HasBar(Chunk(m, line, h))
        BY <2>4
      <3>2. FirstBar(line, k)
        BY <2>1, <2>2, <3>1 DEF FirstBar
      <3>3. ~(k < i) /\ ~(i < k)
        <4>1. k < i => k \in 0..(i - 1)
          BY <1>1
        <4>2. i < k => i \in 0..(k - 1)
          BY <1>1
        <4> QED  BY <3>2, <4>1, <4>2 DEF FirstBar
      <3>4. k = i
        BY <1>1, <3>3
      <3> QED  BY <3>1, <3>4
    <2>5. LastChunk(m, line) = CHOOSE chunk \in all : Last(chunk)
      BY DEF LastChunk
    <2> HIDE DEF all, Last
    <2> QED  BY <2>3, <2>4, <2>5
  <1>3. Kind(Chunk(0, line, i)[1]) = KindAt(line, i, 1)
    BY <1>1, Sizes, ChunkProperties
  <1>4. IsQuitLine(line) <=> QuitIn(line, i)
    BY <1>2, <1>3 DEF IsQuitLine, QuitIn
  <1> QED  BY <1>2, <1>4

-----------------------------------------------------------------------------
(* Lemmas about streams of chunks. *)

LEMMA HoldsNone ==
  ASSUME NEW n, NEW line, NEW r \in Nat
  PROVE  Holds(<<>>, n, line, r, r)
  <1>1. r - r = 0 /\ MsgSize * 0 = 0 /\ Len(<<>>) = 0
    BY Sizes, EmptySeq
  <1>2. \A h \in r..(r - 1) : FALSE
    OBVIOUS
  <1> QED  BY <1>1, <1>2 DEF Holds

\* A stream is empty when all of its chunks have been received.
LEMMA HoldsLength ==
  ASSUME NEW s \in Seq(Nat), NEW n, NEW line, NEW i \in Nat, NEW r \in 0..i,
         Holds(s, n, line, r, i)
  PROVE  /\ r = i => s = <<>>
         /\ r # i => s # <<>> /\ Len(s) >= MsgSize
  <1> DEFINE more == i - r
  <1>1. more \in Nat /\ MsgSize \in Nat /\ MsgSize >= 2 /\ Len(s) \in Nat
    BY Sizes, LenProperties
  <1>2. Len(s) = MsgSize * more
    BY DEF Holds
  <1>3. ASSUME r = i  PROVE s = <<>>
    <2>1. more = 0
      BY <1>3
    <2>2. Len(s) = 0
      BY <1>1, <1>2, <2>1
    <2> QED  BY <2>2, EmptySeq
  <1>4. ASSUME r # i  PROVE s # <<>> /\ Len(s) >= MsgSize
    <2>1. more >= 1
      BY <1>4
    <2> HIDE DEF more
    <2>2. MsgSize * more >= MsgSize
      BY <1>1, <2>1
    <2>3. Len(s) >= MsgSize /\ Len(s) # 0
      BY <1>1, <1>2, <2>2
    <2> QED  BY <2>3, EmptySeq
  <1> QED  BY <1>3, <1>4

\* The next chunk is sent.
LEMMA HoldsSend ==
  ASSUME NEW s \in Seq(Nat), NEW n \in Nat, NEW line \in Seq(Letters),
         NEW i \in Nat, NEW r \in 0..i, Holds(s, n, line, r, i)
  PROVE  Holds(s \o Chunk(n, line, i), n, line, r, i + 1)
  <1> DEFINE chunk == Chunk(n, line, i)
             both == s \o chunk
             len == MsgSize * (i - r)
  <1>1. MsgSize \in Nat /\ r \in Nat
    BY Sizes
  <1>2. chunk \in Seq(Nat) /\ Len(chunk) = MsgSize
    BY ChunkProperties
  <1>3. Len(s) = len /\ len \in Nat
    BY LenProperties DEF Holds
  <1>4. /\ Len(both) = len + MsgSize
        /\ \A k \in 1..(len + MsgSize) :
             both[k] = IF k <= len THEN s[k] ELSE chunk[k - len]
    <2>1. chunk \in Seq(Nat)
      BY <1>2
    <2> HIDE DEF chunk
    <2>2. /\ Len(both) = Len(s) + Len(chunk)
          /\ \A k \in 1..(Len(s) + Len(chunk)) :
               both[k] = IF k <= Len(s) THEN s[k] ELSE chunk[k - Len(s)]
      BY <2>1, ConcatProperties
    <2> HIDE DEF both, len
    <2> QED  BY <1>2, <1>3, <2>2
  <1>5. MsgSize * ((i + 1) - r) = len + MsgSize
    <2>1. i - r \in Nat /\ (i + 1) - r = (i - r) + 1
      BY <1>1
    <2> QED  BY <1>1, <2>1
  <1>6. ASSUME NEW h \in r..i, NEW j \in 1..MsgSize
        PROVE  both[MsgSize * (h - r) + j] = Chunk(n, line, h)[j]
    <2> DEFINE k == MsgSize * (h - r) + j
    <2>1. CASE h = i
      <3>1. k = len + j
        BY <2>1
      <3>2. k \in 1..(len + MsgSize) /\ ~(k <= len) /\ k - len = j
        <4> HIDE DEF k, len
        <4> QED  BY <1>1, <1>3, <3>1
      <3>3. both[k] = chunk[j]
        <4> HIDE DEF k, both, chunk, len
        <4> QED  BY <1>4, <3>2
      <3> QED  BY <2>1, <3>3
    <2>2. CASE h # i
      <3>1. h \in r..(i - 1)
        BY <1>1, <2>2
      <3>2. k \in 1..len
        <4>1. /\ h - r \in Nat /\ (i - r) - (h - r) >= 1 /\ i - r \in Nat
          BY <1>1, <3>1
        <4> DEFINE a == h - r
                   b == i - r
        <4>2. a \in Nat /\ b \in Nat /\ b >= a + 1 /\ j \in Nat /\ 1 <= j /\ j <= MsgSize
          BY <1>1, <4>1
        <4> HIDE DEF a, b
        <4>3. MsgSize * b >= MsgSize * (a + 1)
          BY <1>1, <4>2
        <4>4. MsgSize * (a + 1) = MsgSize * a + MsgSize
          BY <1>1, <4>2
        <4>5. MsgSize * a \in Nat /\ MsgSize * b \in Nat
          BY <1>1, <4>2
        <4>6. MsgSize * a + j \in 1..(MsgSize * b)
          BY <1>1, <4>2, <4>3, <4>4, <4>5
        <4> QED  BY <4>6 DEF a, b
      <3>3. s[k] = Chunk(n, line, h)[j]
        BY <3>1 DEF Holds
      <3>4. both[k] = s[k]
        <4> HIDE DEF k, both, chunk, len
        <4>1. k \in 1..(len + MsgSize) /\ k <= len
          BY <1>1, <1>3, <3>2
        <4> QED  BY <1>4, <4>1
      <3> QED  BY <3>3, <3>4
    <2> QED  BY <2>1, <2>2
  <1>7. (i + 1) - 1 = i
    OBVIOUS
  <1> HIDE DEF both, len
  <1> QED  BY <1>4, <1>5, <1>6, <1>7 DEF Holds, both

\* The oldest chunk is received.
LEMMA HoldsReceive ==
  ASSUME NEW s \in Seq(Nat), NEW n \in Nat, NEW line \in Seq(Letters),
         NEW i \in Nat, NEW r \in 0..(i - 1), Holds(s, n, line, r, i)
  PROVE  /\ MsgSize \in 0..Len(s) /\ Front(s, MsgSize) = Chunk(n, line, r)
         /\ Holds(Rest(s, MsgSize), n, line, r + 1, i)
  <1> DEFINE chunk == Chunk(n, line, r)
             rest == Rest(s, MsgSize)
             m == (i - (r + 1))
  <1>1. /\ MsgSize \in Nat /\ r \in Nat /\ r \in 0..i /\ r # i
        /\ m \in Nat /\ Len(s) \in Nat
    BY Sizes, LenProperties
  <1>2. Len(s) >= MsgSize
    BY <1>1, HoldsLength
  <1>3. MsgSize \in 0..Len(s)
    BY <1>1, <1>2
  <1>4. chunk \in Seq(Nat) /\ Len(chunk) = MsgSize
    BY <1>1, ChunkProperties
  <1>5. /\ Front(s, MsgSize) \in Seq(Nat) /\ Len(Front(s, MsgSize)) = MsgSize
        /\ \A k \in 1..MsgSize : Front(s, MsgSize)[k] = s[k]
        /\ Len(rest) = Len(s) - MsgSize
        /\ \A k \in 1..(Len(s) - MsgSize) : rest[k] = s[MsgSize + k]
    BY <1>3, CutProperties
  <1>6. \A h \in r..(i - 1), j \in 1..MsgSize :
          s[MsgSize * (h - r) + j] = Chunk(n, line, h)[j]
    BY DEF Holds
  <1>7. Len(s) = MsgSize * m + MsgSize
    <2>1. Len(s) = MsgSize * (i - r) /\ i - r = m + 1
      BY <1>1 DEF Holds
    <2> HIDE DEF m
    <2> QED  BY <1>1, <2>1
  <1>8. Front(s, MsgSize) = chunk
    <2>1. ASSUME NEW j \in 1..MsgSize  PROVE s[j] = chunk[j]
      <3>1. r \in r..(i - 1) /\ MsgSize * (r - r) + j = j
        BY <1>1
      <3> QED  BY <1>6, <3>1
    <2> HIDE DEF chunk
    <2> QED  BY <1>4, <1>5, <2>1, SeqEqual
  <1>9. Len(rest) = MsgSize * m
    <2> HIDE DEF m, rest
    <2>1. MsgSize * m \in Nat
      BY <1>1
    <2> QED  BY <1>1, <1>5, <1>7, <2>1
  <1>10. ASSUME NEW h \in (r + 1)..(i - 1), NEW j \in 1..MsgSize
         PROVE  rest[MsgSize * (h - (r + 1)) + j] = Chunk(n, line, h)[j]
    <2> DEFINE a == h - (r + 1)
               k == MsgSize * a + j
    <2>1. /\ h \in r..(i - 1) /\ a \in Nat /\ m >= a + 1 /\ h - r = a + 1
          /\ j \in Nat /\ 1 <= j /\ j <= MsgSize
      BY <1>1
    <2> HIDE DEF a, m, rest
    <2>2. /\ MsgSize * a \in Nat /\ MsgSize * m \in Nat
          /\ MsgSize * (a + 1) = MsgSize * a + MsgSize
      BY <1>1, <2>1
    <2>3. MsgSize * m >= MsgSize * (a + 1)
      BY <1>1, <2>1
    <2>4. k \in 1..(MsgSize * m) /\ MsgSize + k = MsgSize * (a + 1) + j
      BY <1>1, <2>1, <2>2, <2>3
    <2>5. k \in 1..(Len(s) - MsgSize)
      BY <1>1, <1>7, <2>2, <2>4
    <2>6. rest[k] = s[MsgSize * (h - r) + j]
      BY <1>5, <2>1, <2>4, <2>5
    <2>7. rest[k] = Chunk(n, line, h)[j]
      BY <1>6, <2>1, <2>6
    <2> QED  BY <2>7 DEF a
  <1> QED  BY <1>3, <1>8, <1>9, <1>10 DEF Holds

-----------------------------------------------------------------------------
(* How the parts of the invariant are kept. *)

LEMMA Types ==
  ASSUME LineInv
  PROVE  /\ TypeOK /\ NetInv /\ NetTypeOK
         /\ \A c \in Clients :
              /\ typed[c] \in Seq(Lines) /\ Typed(c) \in Nat
              /\ \A n \in 1..Typed(c) :
                   typed[c][n] \in Seq(Letters) /\ Len(typed[c][n]) \in Nat
              /\ shown[c] \in Seq(Seq(Nat)) /\ Shown(c) \in Nat
              /\ chunks[c] \in Nat
              /\ up[c] \in Seq(Nat) /\ Len(up[c]) \in Nat
              /\ down[c] \in Seq(Nat) /\ Len(down[c]) \in Nat
              /\ (c \in serving <=> srv[c] = "open")
  <1>1. TypeOK /\ NetInv /\ NetTypeOK
    BY DEF LineInv, NetInv
  <1>2. ASSUME NEW c \in Clients
        PROVE  /\ typed[c] \in Seq(Lines) /\ Typed(c) \in Nat
               /\ \A n \in 1..Typed(c) :
                    typed[c][n] \in Seq(Letters) /\ Len(typed[c][n]) \in Nat
    <2>1. typed[c] \in Seq(Lines)
      BY <1>1 DEF TypeOK
    <2>2. ASSUME NEW n \in 1..Typed(c)
          PROVE  typed[c][n] \in Seq(Letters) /\ Len(typed[c][n]) \in Nat
      <3>1. typed[c][n] \in Lines
        BY <2>1, ElementOfSeq DEF Typed
      <3>2. typed[c][n] \in Seq(Letters)
        BY <3>1, DelimiterAssumption DEF Letters
      <3> QED  BY <3>2, LenProperties
    <2> QED  BY <2>1, <2>2, LenProperties DEF Typed
  <1>3. ASSUME NEW c \in Clients
        PROVE  /\ shown[c] \in Seq(Seq(Nat)) /\ Shown(c) \in Nat
               /\ chunks[c] \in Nat /\ (c \in serving <=> srv[c] = "open")
    BY <1>1, LenProperties DEF TypeOK, Shown
  <1> QED  BY <1>1, <1>2, <1>3, NetTypes

\* The line that a client is sending.
LEMMA LineTypes ==
  ASSUME LineInv, NEW c \in Clients, cstatus[c] \in {"sending", "waiting"}
  PROVE  /\ Typed(c) \in Nat /\ Typed(c) \in 1..Typed(c)
         /\ Line(c) \in Seq(Letters) /\ Len(Line(c)) \in Nat
  <1>1. Typed(c) \in Nat /\ Typed(c) # 0
    <2>1. typed[c] # <<>> /\ typed[c] \in Seq(Lines)
      BY Types DEF LineInv, Good, Linked
    <2> QED  BY <2>1, EmptySeq, LenProperties DEF Typed
  <1>2. Typed(c) \in 1..Typed(c)
    BY <1>1
  <1> QED  BY <1>1, <1>2, Types DEF Line

\* A client of which a step changes nothing, except that its connection may be
\* accepted, closed or reset, stays good.
LEMMA GoodKept ==
  ASSUME NEW c \in Clients, Good(c), reset \subseteq reset',
         typed'[c] = typed[c], shown'[c] = shown[c], chunks'[c] = chunks[c],
         cstatus'[c] = cstatus[c], cli'[c] = cli[c],
         srv[c] = "closed" => srv'[c] = "closed",
         up'[c] = up[c], down'[c] = down[c]
  PROVE  Good(c)'
  <1>1. Typed(c)' = Typed(c) /\ Shown(c)' = Shown(c) /\ Line(c)' = Line(c)
    BY DEF Typed, Shown, Line
  <1>2. Linked(c)'
    BY DEF Good, Linked
  <1>3. ASSUME c \notin Cut  PROVE Whole(c)'
    <2>1. Whole(c)
      BY <1>3 DEF Good
    <2>2. Answered(c)' /\ Sent(c)'
      BY <1>1, <2>1 DEF Whole, Answered, Sent
    <2>3. \A r : Coming(c, r) => Coming(c, r)'
      BY <1>1 DEF Coming
    <2>4. Underway(c) => Underway(c)'
      BY <1>1, <2>3 DEF Underway
    <2> QED  BY <2>1, <2>2, <2>4 DEF Whole
  <1> QED  BY <1>2, <1>3 DEF Good

LEMMA LineInvInit == Init => LineInv
  <1> SUFFICES ASSUME Init  PROVE LineInv
    OBVIOUS
  <1>1. NetInv
    BY NetInvInit DEF Init
  <1>2. <<>> \in Seq(Lines) /\ <<>> \in Seq(Seq(Nat)) /\ Len(<<>>) = 0
    BY EmptySeq
  <1>3. TypeOK
    BY <1>1, <1>2 DEF Init, NetInit, NetInv, TypeOK
  <1>4. ASSUME NEW c \in Clients  PROVE Good(c)
    <2>1. Linked(c)
      BY DEF Init, NetInit, Linked, Running
    <2>2. Answered(c) /\ Sent(c)
      BY <1>2 DEF Init, Answered, Sent, Typed, Shown
    <2>3. Underway(c)
      BY DEF Init, NetInit, Underway
    <2> QED  BY <2>1, <2>2, <2>3 DEF Good, Whole
  <1> QED  BY <1>1, <1>3, <1>4 DEF LineInv

\* Client c ends: its process does, or it closes its socket because the connection
\* has ended.
LEMMA LineInvClientEnds ==
  ASSUME LineInv, NEW c \in Clients,
         NEW how \in {"died", "left", "killed", "exited"},
         cstatus' = [cstatus EXCEPT ![c] = how],
         \/ ClientGone(c)
         \/ cli[c] # "none" /\ ClientSeesEnd(c) /\ CloseClient(c),
         UNCHANGED <<typed, shown, chunks, sstatus, serving, buffer>>
  PROVE  LineInv'
  <1>1. /\ TypeOK /\ NetInv /\ NetTypeOK /\ Good(c)
        /\ cli' = [cli EXCEPT ![c] = "closed"]
        /\ UNCHANGED <<srv, up, down>> /\ reset \subseteq reset'
    BY Types DEF LineInv, ClientGone, CloseClient
  <1>2. NetInv'
    BY <1>1, NetInvClientEnds
  <1>3. TypeOK'
    BY <1>1, <1>2 DEF TypeOK, NetInv
  <1>4. cli'[c] = "closed" /\ cstatus'[c] = how
    BY <1>1 DEF TypeOK, NetTypeOK
  <1>5. Good(c)'
    <2>1. Linked(c)'
      BY <1>4 DEF Linked, Running
    <2>2. c \notin Cut => Answered(c)'
      BY <1>1, <1>4 DEF Good, Whole, Answered, Shown, Typed
    <2>3. Sent(c)' /\ Underway(c)'
      BY <1>4 DEF Sent, Underway
    <2> QED  BY <2>1, <2>2, <2>3 DEF Good, Whole
  <1>6. ASSUME NEW d \in Clients, d # c  PROVE Good(d)'
    <2>1. cli'[d] = cli[d] /\ cstatus'[d] = cstatus[d]
      BY <1>1, <1>6 DEF TypeOK, NetTypeOK
    <2> QED  BY <1>1, <2>1, GoodKept DEF LineInv
  <1> QED  BY <1>2, <1>3, <1>5, <1>6 DEF LineInv

LEMMA LineInvStartClient ==
  ASSUME LineInv, NEW c \in Clients, StartClient(c)
  PROVE  LineInv'
  <1>1. /\ TypeOK /\ NetInv /\ NetTypeOK /\ Good(c)
        /\ cstatus[c] = "start" /\ cli[c] = "none"
        /\ UNCHANGED <<typed, shown, chunks, sstatus, serving, buffer>>
    BY Types DEF LineInv, StartClient, Good, Linked
  <1>2. CASE Connect(c) /\ cstatus' = [cstatus EXCEPT ![c] = "prompt"]
    <2>1. NetInv'
      BY <1>1, <1>2, NetInvConnect
    <2>2. /\ cli' = [cli EXCEPT ![c] = "open"]
          /\ UNCHANGED <<srv, up, down, reset>>
      BY <1>2 DEF Connect
    <2>3. TypeOK'
      BY <1>1, <1>2, <2>1, <2>2 DEF TypeOK, NetInv
    <2>4. cli'[c] = "open" /\ cstatus'[c] = "prompt"
      BY <1>1, <1>2, <2>2 DEF TypeOK, NetTypeOK
    <2>5. Good(c)'
      <3>1. Linked(c)'
        BY <2>4 DEF Linked, Running
      <3>2. c \notin Cut => Answered(c)'
        BY <1>1, <2>4 DEF Good, Whole, Answered, Shown, Typed
      <3>3. Sent(c)'
        BY <2>4 DEF Sent
      <3>4. Underway(c)'
        BY <1>1, <2>2, <2>4 DEF NetInv, Connected, Underway
      <3> QED  BY <3>1, <3>2, <3>3, <3>4 DEF Good, Whole
    <2>6. ASSUME NEW d \in Clients, d # c  PROVE Good(d)'
      <3>1. cli'[d] = cli[d] /\ cstatus'[d] = cstatus[d]
        BY <1>1, <1>2, <2>2, <2>6 DEF TypeOK, NetTypeOK
      <3> QED  BY <1>1, <2>2, <3>1, GoodKept DEF LineInv
    <2> QED  BY <2>1, <2>3, <2>5, <2>6 DEF LineInv
  <1>3. CASE ClientEnds(c, "died")
    BY <1>1, <1>3, LineInvClientEnds DEF ClientEnds
  <1> QED  BY <1>2, <1>3 DEF StartClient

LEMMA LineInvTypeLine ==
  ASSUME LineInv, NEW c \in Clients, TypeLine(c)
  PROVE  LineInv'
  <1> DEFINE n == Typed(c)
  <1>1. /\ TypeOK /\ NetInv /\ NetTypeOK /\ Good(c) /\ n \in Nat
        /\ cstatus[c] = "prompt" /\ cli[c] = "open"
        /\ cstatus' = [cstatus EXCEPT ![c] = "sending"]
        /\ chunks' = [chunks EXCEPT ![c] = 0]
        /\ UNCHANGED <<netVars, shown, sstatus, serving, buffer>>
    BY Types DEF LineInv, TypeLine, Good, Linked, Running
  <1>2. UNCHANGED <<listening, queue, cli, srv, up, down, reset>>
    BY <1>1 DEF netVars
  <1>3. PICK line \in Lines : typed' = [typed EXCEPT ![c] = Append(@, line)]
    BY DEF TypeLine
  <1>4. /\ typed'[c] \in Seq(Lines) /\ Typed(c)' = n + 1 /\ typed'[c] # <<>>
        /\ \A k \in 1..n : typed'[c][k] = typed[c][k]
        /\ Line(c)' = line
    <2>1. typed[c] \in Seq(Lines) /\ typed'[c] = Append(typed[c], line)
      BY <1>1, <1>3, Types DEF TypeOK
    <2> QED  BY <2>1, AppendProperties DEF Typed, Line
  <1>5. NetInv'
    BY <1>1, <1>2 DEF NetInv, NetTypeOK, QueueOK, Connected
  <1>6. TypeOK'
    <2>1. typed' \in [Clients -> Seq(Lines)]
      BY <1>1, <1>3, <1>4 DEF TypeOK
    <2> QED  BY <1>1, <1>2, <1>5, <2>1 DEF TypeOK, NetInv
  <1>7. cstatus'[c] = "sending" /\ chunks'[c] = 0
    BY <1>1 DEF TypeOK
  <1>8. Good(c)'
    <2>1. Linked(c)'
      BY <1>1, <1>2, <1>4, <1>7 DEF Linked, Running
    <2>2. ASSUME c \notin Cut  PROVE Whole(c)'
      <3>1. Answered(c) /\ Shown(c) = n
        BY <1>1, <2>2 DEF Good, Whole, Answered
      <3>2. Answered(c)'
        <4>1. Shown(c)' = n
          BY <1>1, <3>1 DEF Shown
        <4> QED  BY <1>1, <1>4, <1>7, <3>1, <4>1 DEF Answered
      <3>3. Sent(c)'
        <4>1. line \in Seq(Letters)
          BY DelimiterAssumption DEF Letters
        <4>2. 0 * (MsgSize - 1) = 0 /\ Len(line) \in Nat
          BY <4>1, Sizes, LenProperties
        <4>3. 0 * (MsgSize - 1) <= Len(line) /\ \A h \in 0..(0 - 1) : FALSE
          BY <4>2
        <4> QED  BY <1>4, <1>7, <4>3 DEF Sent
      <3>4. c \notin reset' => Underway(c)'
        <4> SUFFICES ASSUME c \notin reset  PROVE Underway(c)'
          BY <1>2
        <4>1. up[c] = <<>> /\ down[c] = <<>>
          BY <1>1, <2>2 DEF Good, Whole, Underway
        <4>2. Holds(<<>>, n + 1, line, 0, 0)
          BY HoldsNone
        <4>3. Coming(c, 0)'
          BY <1>2, <1>4, <1>7, <4>1, <4>2 DEF Coming
        <4>4. 0 \in 0..0
          OBVIOUS
        <4> QED  BY <1>7, <4>3, <4>4 DEF Underway
      <3> QED  BY <3>2, <3>3, <3>4 DEF Whole
    <2> QED  BY <2>1, <2>2 DEF Good
  <1>9. ASSUME NEW d \in Clients, d # c  PROVE Good(d)'
    <2>1. /\ typed'[d] = typed[d] /\ cstatus'[d] = cstatus[d]
          /\ chunks'[d] = chunks[d]
      BY <1>1, <1>3, <1>9 DEF TypeOK
    <2> QED  BY <1>1, <1>2, <2>1, GoodKept DEF LineInv
  <1> QED  BY <1>5, <1>6, <1>8, <1>9 DEF LineInv

LEMMA LineInvSendChunk ==
  ASSUME LineInv, NEW c \in Clients, SendChunk(c)
  PROVE  LineInv'
  <1> DEFINE n == Typed(c)
             line == Line(c)
             i == chunks[c]
             chunk == Chunk(n, line, i)
  <1>1. /\ TypeOK /\ NetInv /\ NetTypeOK /\ Good(c) /\ i \in Nat
        /\ cstatus[c] = "sending" /\ cli[c] = "open"
        /\ up[c] \in Seq(Nat) /\ down[c] \in Seq(Nat)
        /\ chunks' = [chunks EXCEPT ![c] = @ + 1]
        /\ UNCHANGED <<listening, queue, cli, srv, down, reset, typed, shown,
                       sstatus, serving, buffer>>
    BY Types DEF LineInv, SendChunk, Good, Linked, Running
  <1>2. /\ up' = [up EXCEPT ![c] = @ \o chunk]
        /\ cstatus' = [cstatus EXCEPT
                        ![c] = IF HasBar(chunk) THEN "waiting" ELSE @]
    BY DEF SendChunk, NextChunk, Typed, Line
  <1>3. n \in Nat /\ line \in Seq(Letters) /\ Len(line) \in Nat
    BY <1>1, LineTypes
  <1>4. /\ chunk \in Seq(Nat) /\ (HasBar(chunk) <=> BarIn(line, i))
    BY <1>1, <1>3, ChunkProperties, BarInChunk
  <1>5. Typed(c)' = n /\ Line(c)' = line /\ Shown(c)' = Shown(c)
    BY <1>1 DEF Typed, Line, Shown
  <1> HIDE DEF chunk, line, n
  <1>6. up'[c] = up[c] \o chunk /\ up'[c] \in Seq(Nat)
    <2>1. up[c] \o chunk \in Seq(Nat)
      BY <1>1, <1>4, ConcatProperties
    <2> QED  BY <1>1, <1>2, <2>1 DEF NetTypeOK
  <1>7. up' \in [Clients -> Seq(Nat)] /\ \A d \in Clients : d # c => up'[d] = up[d]
    BY <1>1, <1>2, <1>6 DEF NetTypeOK
  <1>8. NetInv'
    <2>1. down' \in [Clients -> Seq(Nat)]
      BY <1>1 DEF NetTypeOK
    <2> QED  BY <1>1, <1>7, <2>1, NetInvData
  <1>9. /\ chunks'[c] = i + 1 /\ i + 1 \in Nat
        /\ cstatus'[c] = IF BarIn(line, i) THEN "waiting" ELSE "sending"
    BY <1>1, <1>2, <1>4 DEF TypeOK
  <1>10. TypeOK'
    <2>1. cstatus' \in [Clients -> {"start", "prompt", "sending", "waiting",
                                    "exited", "died", "left", "killed"}]
      BY <1>1, <1>2 DEF TypeOK
    <2>2. chunks' \in [Clients -> Nat]
      BY <1>1, <1>9 DEF TypeOK
    <2> QED  BY <1>1, <1>8, <2>1, <2>2 DEF TypeOK, NetInv
  <1>11. Good(c)'
    <2>1. Linked(c)'
      BY <1>1, <1>9 DEF Good, Linked, Running
    <2>2. ASSUME c \notin Cut  PROVE Whole(c)'
      <3>1. Whole(c)
        BY <1>1, <2>2 DEF Good
      <3>2. Answered(c)'
        <4>1. cstatus'[c] \in {"sending", "waiting"}
          BY <1>9
        <4>2. Typed(c) = Shown(c) + 1
          BY <1>1, <3>1 DEF Whole, Answered
        <4> QED  BY <1>1, <1>5, <3>1, <4>1, <4>2 DEF Whole, Answered, n
      <3>3. /\ i * (MsgSize - 1) <= Len(line)
            /\ \A h \in 0..(i - 1) : ~BarIn(line, h)
        BY <1>1, <3>1 DEF Whole, Sent, line
      <3>4. i \in 0..Len(line)
        <4>1. i * (MsgSize - 1) \in Nat /\ i <= i * (MsgSize - 1)
          BY <1>1, FromProperties
        <4> QED  BY <1>1, <1>3, <3>3, <4>1
      <3>5. Sent(c)'
        <4>1. CASE BarIn(line, i)
          <5>1. FirstBar(line, i)
            BY <3>3, <4>1 DEF FirstBar
          <5>2. (i + 1) - 1 = i
            BY <1>1
          <5> QED  BY <1>5, <1>9, <3>4, <4>1, <5>1, <5>2 DEF Sent
        <4>2. CASE ~BarIn(line, i)
          <5>1. (i + 1) * (MsgSize - 1) <= Len(line)
            BY <1>1, <1>3, <3>3, <4>2, NoBarYet
          <5>2. \A h \in 0..((i + 1) - 1) : h \in 0..(i - 1) \/ h = i
            BY <1>1
          <5>3. \A h \in 0..((i + 1) - 1) : ~BarIn(line, h)
            BY <3>3, <4>2, <5>2
          <5> QED  BY <1>5, <1>9, <4>2, <5>1, <5>3 DEF Sent
        <4> QED  BY <4>1, <4>2
      <3>6. ASSUME c \notin reset'  PROVE Underway(c)'
        <4>1. PICK r \in 0..i : Coming(c, r)
          BY <1>1, <3>1, <3>6 DEF Whole, Underway
        <4>2. Holds(up[c] \o chunk, n, line, r, i + 1)
          BY <1>1, <1>3, <4>1, HoldsSend DEF Coming, chunk, line, n
        <4>3. Coming(c, r)'
          BY <1>1, <1>5, <1>6, <1>9, <4>1, <4>2 DEF Coming
        <4>4. r \in 0..(i + 1) /\ r \in 0..((i + 1) - 1)
          BY <1>1
        <4> QED  BY <1>9, <4>3, <4>4 DEF Underway
      <3> QED  BY <3>2, <3>5, <3>6 DEF Whole
    <2> QED  BY <2>1, <2>2 DEF Good
  <1>12. ASSUME NEW d \in Clients, d # c  PROVE Good(d)'
    <2>1. /\ cstatus'[d] = cstatus[d] /\ chunks'[d] = chunks[d] /\ up'[d] = up[d]
      BY <1>1, <1>2, <1>7, <1>12 DEF TypeOK
    <2> QED  BY <1>1, <2>1, GoodKept DEF LineInv
  <1> QED  BY <1>8, <1>10, <1>11, <1>12 DEF LineInv

\* A client whose chunks come whole reads the last chunk of its line, and nothing
\* else is on its way.
LEMMA WholeAnswer ==
  ASSUME LineInv, NEW c \in Clients \ Cut, cstatus[c] = "waiting",
         c \notin reset, Len(down[c]) >= MsgSize
  PROVE  /\ Typed(c) \in 1..Typed(c) /\ Typed(c) = Shown(c) + 1
         /\ Front(down[c], MsgSize) = LastChunk(Typed(c), Line(c))
         /\ ~IsQuitLine(Line(c))
         /\ up[c] = <<>> /\ Rest(down[c], MsgSize) = <<>>
  <1> DEFINE n == Typed(c)
             line == Line(c)
             i == chunks[c] - 1
  <1>1. /\ Whole(c) /\ n \in Nat /\ n \in 1..n
        /\ line \in Seq(Letters) /\ Len(line) \in Nat
    BY LineTypes DEF LineInv, Good
  <1>2. i \in 0..Len(line) /\ i \in Nat /\ FirstBar(line, i) /\ n = Shown(c) + 1
    BY <1>1 DEF Whole, Answered, Sent
  <1>3. down[c] # <<>>
    BY Sizes, EmptySeq
  <1>4. up[c] = <<>> /\ down[c] = Chunk(n, line, i) /\ ~QuitIn(line, i)
    BY <1>1, <1>3 DEF Whole, Underway, Coming
  <1>5. Chunk(n, line, i) \in Seq(Nat) /\ Len(Chunk(n, line, i)) = MsgSize
    BY <1>1, <1>2, ChunkProperties
  <1>6. /\ Front(down[c], MsgSize) = Chunk(n, line, i)
        /\ Rest(down[c], MsgSize) = <<>>
    BY <1>4, <1>5, CutWhole
  <1>7. /\ LastChunk(n, line) = Chunk(n, line, i)
        /\ (IsQuitLine(line) <=> QuitIn(line, i))
    BY <1>1, <1>2, LastChunkProperties
  <1> QED  BY <1>1, <1>2, <1>4, <1>6, <1>7

LEMMA LineInvReadAnswer ==
  ASSUME LineInv, NEW c \in Clients, ReadAnswer(c)
  PROVE  LineInv'
  <1>1. /\ TypeOK /\ NetInv /\ NetTypeOK /\ Good(c)
        /\ cstatus[c] = "waiting" /\ cli[c] = "open"
        /\ down[c] \in Seq(Nat) /\ Len(down[c]) \in Nat
        /\ shown[c] \in Seq(Seq(Nat)) /\ Shown(c) \in Nat
        /\ UNCHANGED <<typed, chunks, sstatus, serving, buffer>>
    BY Types DEF LineInv, ReadAnswer, Good, Linked, Running
  <1>2. CASE /\ ClientSeesEnd(c) /\ CloseClient(c)
             /\ cstatus' = [cstatus EXCEPT ![c] = "exited"]
             /\ UNCHANGED shown
    BY <1>1, <1>2, LineInvClientEnds
  <1>3. ASSUME c \notin reset, Len(down[c]) >= MsgSize,
               shown' = [shown EXCEPT ![c] = Append(@, Front(down[c], MsgSize))],
               down' = [down EXCEPT ![c] = Rest(@, MsgSize)],
               cstatus' = [cstatus EXCEPT ![c] = "prompt"],
               UNCHANGED <<listening, queue, cli, srv, up, reset>>
        PROVE  LineInv'
    <2> DEFINE answer == Front(down[c], MsgSize)
               p == Shown(c)
    <2>1. MsgSize \in 0..Len(down[c])
      BY <1>1, <1>3, Sizes
    <2>2. answer \in Seq(Nat) /\ Rest(down[c], MsgSize) \in Seq(Nat)
      BY <1>1, <2>1, CutProperties
    <2>3. c \notin Cut
            => /\ Typed(c) \in 1..Typed(c) /\ Typed(c) = p + 1
               /\ answer = LastChunk(Typed(c), Line(c)) /\ ~IsQuitLine(Line(c))
               /\ up[c] = <<>> /\ Rest(down[c], MsgSize) = <<>>
      BY <1>1, <1>3, WholeAnswer
    <2> HIDE DEF answer
    <2>4. /\ down' \in [Clients -> Seq(Nat)] /\ down'[c] = Rest(down[c], MsgSize)
          /\ \A d \in Clients : d # c => down'[d] = down[d]
      BY <1>1, <1>3, <2>2 DEF NetTypeOK
    <2>5. /\ shown' \in [Clients -> Seq(Seq(Nat))]
          /\ \A d \in Clients : d # c => shown'[d] = shown[d]
          /\ Shown(c)' = p + 1 /\ shown'[c][p + 1] = answer
          /\ \A k \in 1..p : shown'[c][k] = shown[c][k]
      <3>1. shown' = [shown EXCEPT ![c] = Append(@, answer)]
        BY <1>3 DEF answer
      <3>2. /\ Append(shown[c], answer) \in Seq(Seq(Nat))
            /\ Len(Append(shown[c], answer)) = p + 1
            /\ \A k \in 1..p : Append(shown[c], answer)[k] = shown[c][k]
            /\ Append(shown[c], answer)[p + 1] = answer
        BY <1>1, <2>2, AppendProperties DEF Shown
      <3>3. /\ shown' \in [Clients -> Seq(Seq(Nat))]
            /\ shown'[c] = Append(shown[c], answer)
            /\ \A d \in Clients : d # c => shown'[d] = shown[d]
        BY <1>1, <3>1, <3>2 DEF TypeOK
      <3> QED  BY <3>2, <3>3 DEF Shown
    <2>6. NetInv'
      <3>1. srv[c] # "none"
        <4>1. down[c] # <<>>
          BY <1>3, Sizes, EmptySeq
        <4> QED  BY <1>1, <4>1 DEF NetInv, Connected
      <3>2. up' \in [Clients -> Seq(Nat)]
        BY <1>1, <1>3 DEF NetTypeOK
      <3> QED  BY <1>1, <1>3, <2>4, <3>1, <3>2, NetInvData
    <2>7. TypeOK'
      BY <1>1, <1>3, <2>5, <2>6 DEF TypeOK, NetInv
    <2>8. cstatus'[c] = "prompt" /\ Typed(c)' = Typed(c)
      BY <1>1, <1>3 DEF TypeOK, Typed
    <2>9. Good(c)'
      <3>1. Linked(c)'
        BY <1>1, <1>3, <2>8 DEF Linked, Running
      <3>2. ASSUME c \notin Cut  PROVE Answered(c)'
        <4>1. Answered(c)
          BY <1>1, <3>2 DEF Good, Whole
        <4>2. \A k \in 1..(p + 1) : k \in 1..p \/ k = p + 1
          BY <1>1
        <4>3. /\ shown'[c][p + 1] = LastChunk(p + 1, typed[c][p + 1])
              /\ ~IsQuitLine(typed[c][p + 1])
          BY <2>3, <2>5, <3>2 DEF Line
        <4> QED  BY <1>1, <2>3, <2>5, <2>8, <3>2, <4>1, <4>2, <4>3 DEF Answered
      <3>3. Sent(c)'
        BY <2>8 DEF Sent
      <3>4. c \notin Cut => Underway(c)'
        BY <1>3, <2>3, <2>4, <2>8 DEF Underway
      <3> QED  BY <3>1, <3>2, <3>3, <3>4 DEF Good, Whole
    <2>10. ASSUME NEW d \in Clients, d # c  PROVE Good(d)'
      <3>1. cstatus'[d] = cstatus[d] /\ shown'[d] = shown[d] /\ down'[d] = down[d]
        BY <1>1, <1>3, <2>4, <2>5, <2>10 DEF TypeOK
      <3> QED  BY <1>1, <1>3, <3>1, GoodKept DEF LineInv
    <2> QED  BY <2>6, <2>7, <2>9, <2>10 DEF LineInv
  <1> QED  BY <1>2, <1>3 DEF ReadAnswer

LEMMA LineInvKillClient ==
  ASSUME LineInv, NEW c \in Clients, KillClient(c)
  PROVE  LineInv'
  BY LineInvClientEnds DEF KillClient, ClientEnds

-----------------------------------------------------------------------------
(* The steps of the server. *)

LEMMA LineInvStartServer ==
  ASSUME LineInv, StartServer
  PROVE  LineInv'
  <1>1. /\ TypeOK /\ sstatus = "starting" /\ sstatus' = "accepting"
        /\ UNCHANGED <<queue, cli, srv, up, down, reset>>
        /\ UNCHANGED <<typed, shown, chunks, cstatus, serving, buffer>>
    BY DEF LineInv, StartServer, Listen
  <1>2. NetInv'
    BY NetInvListen DEF LineInv, StartServer
  <1>3. TypeOK'
    BY <1>1, <1>2 DEF TypeOK, NetInv
  <1>4. ASSUME NEW c \in Clients  PROVE Good(c)'
    BY <1>1, GoodKept DEF LineInv
  <1> QED  BY <1>2, <1>3, <1>4 DEF LineInv

\* The server ends: it dies or is killed.
LEMMA LineInvServerEnds ==
  ASSUME LineInv, NEW how \in {"died", "killed"}, ServerEnds(how),
         UNCHANGED <<typed, shown, chunks, cstatus>>
  PROVE  LineInv'
  <1>1. /\ TypeOK /\ NetInv /\ NetTypeOK /\ ServerGone
        /\ serving' = {} /\ buffer' = <<>> /\ sstatus' = how
        /\ srv' = [c \in Clients |-> IF srv[c] = "open" THEN "closed" ELSE srv[c]]
        /\ reset \subseteq reset' /\ UNCHANGED <<cli, up, down>>
    BY Types DEF LineInv, ServerEnds, ServerGone
  <1>2. NetInv' /\ \A c \in Clients : srv'[c] # "open"
    BY <1>1, NetInvServerGone
  <1>3. TypeOK'
    BY <1>1, <1>2 DEF TypeOK, NetInv
  <1>4. ASSUME NEW c \in Clients  PROVE Good(c)'
    BY <1>1, GoodKept DEF LineInv
  <1> QED  BY <1>2, <1>3, <1>4 DEF LineInv

LEMMA LineInvAccept ==
  ASSUME LineInv, Accept
  PROVE  LineInv'
  <1>1. /\ TypeOK /\ NetInv /\ NetTypeOK /\ sstatus = "accepting" /\ serving = {}
        /\ UNCHANGED <<typed, shown, chunks, cstatus>>
    BY Types DEF LineInv, TypeOK, Accept
  <1>2. ASSUME NEW c \in Clients, AcceptAndSend(c, <<>>), serving' = {c},
               sstatus' = "reading", buffer' \in Junk
        PROVE  LineInv'
    <2>1. NetInv' /\ srv[c] = "none" /\ UNCHANGED down
      BY <1>1, <1>2, NetInvAccept
    <2>2. srv' = [srv EXCEPT ![c] = "open"] /\ UNCHANGED <<cli, up, reset>>
      BY <1>2 DEF AcceptAndSend
    <2>3. /\ srv'[c] = "open"
          /\ \A d \in Clients : d # c => srv'[d] = srv[d] /\ srv[d] # "open"
      BY <1>1, <2>2 DEF TypeOK, NetTypeOK
    <2>4. buffer' \in [1..(MsgSize + 1) -> Nat]
      <3>1. buffer' \in [1..(MsgSize + 1) -> Text..Nul]
        BY <1>2, DelimiterAssumption
      <3>2. Text..Nul \subseteq Nat
        BY DEF Text, Nul
      <3> QED  BY <3>1, <3>2
    <2>5. TypeOK'
      BY <1>1, <1>2, <2>1, <2>3, <2>4 DEF TypeOK, NetInv
    <2>6. ASSUME NEW d \in Clients  PROVE Good(d)'
      BY <1>1, <2>1, <2>2, <2>3, GoodKept DEF LineInv
    <2> QED  BY <2>1, <2>5, <2>6 DEF LineInv
  <1>3. CASE AcceptFails /\ ServerEnds("died")
    BY <1>1, <1>3, LineInvServerEnds
  <1> QED  BY <1>2, <1>3 DEF Accept

\* A step of the server that concerns only the client that it serves, c.
LEMMA LineInvServed ==
  ASSUME LineInv, NEW c \in serving, NetInv', TypeOK',
         \A d \in Clients : d # c =>
           up'[d] = up[d] /\ down'[d] = down[d] /\ srv'[d] = srv[d],
         c \notin Cut /\ c \notin reset => Underway(c)',
         UNCHANGED <<cli, reset, typed, shown, chunks, cstatus>>
  PROVE  LineInv'
  <1>1. c \in Clients /\ Good(c)
    BY Types DEF TypeOK, LineInv
  <1>2. Good(c)'
    <2>1. Typed(c)' = Typed(c) /\ Shown(c)' = Shown(c) /\ Line(c)' = Line(c)
      BY DEF Typed, Shown, Line
    <2>2. Linked(c)'
      BY <1>1 DEF Good, Linked
    <2>3. c \notin Cut => Answered(c)' /\ Sent(c)'
      BY <1>1, <2>1 DEF Good, Whole, Answered, Sent
    <2> QED  BY <2>2, <2>3 DEF Good, Whole
  <1>3. ASSUME NEW d \in Clients, d # c  PROVE Good(d)'
    BY <1>3, GoodKept DEF LineInv
  <1> QED  BY <1>2, <1>3 DEF LineInv

\* The server closes the connection that it reads from.
LEMMA LineInvBackToAccept ==
  ASSUME LineInv, NEW c \in serving, BackToAccept(c),
         up' \in [Clients -> Seq(Nat)],
         \A d \in Clients : d # c => up'[d] = up[d],
         c \notin Cut /\ c \notin reset => Underway(c)',
         UNCHANGED <<typed, shown, chunks, cstatus>>
  PROVE  LineInv'
  <1>1. /\ TypeOK /\ NetInv /\ NetTypeOK /\ c \in Clients /\ srv[c] = "open"
        /\ srv' = [srv EXCEPT ![c] = "closed"]
        /\ sstatus' = "accepting" /\ serving' = {} /\ buffer' = <<>>
        /\ UNCHANGED <<listening, queue, cli, down, reset>>
    BY Types DEF TypeOK, BackToAccept
  <1>2. NetInv'
    BY <1>1, NetInvServerCloses
  <1>3. /\ srv'[c] = "closed"
        /\ \A d \in Clients : d # c => srv'[d] = srv[d] /\ d \notin serving
    BY <1>1 DEF TypeOK, NetTypeOK
  <1>4. TypeOK'
    BY <1>1, <1>2, <1>3 DEF TypeOK, NetInv
  <1> QED  BY <1>1, <1>2, <1>3, <1>4, LineInvServed

\* What recv() leaves of a stream, and in the buffer.
LEMMA ReceivedTypes ==
  ASSUME LineInv, NEW c \in serving, NEW k \in RecvCount(c, up[c], MsgSize)
  PROVE  /\ Rest(up[c], k) \in Seq(Nat)
         /\ Filled(Front(up[c], k)) \in [1..(MsgSize + 1) -> Nat]
         /\ EchoOf(Filled(Front(up[c], k))) \in Seq(Nat)
  <1> DEFINE bytes == Front(up[c], k)
             cells == Filled(bytes)
  <1>1. /\ c \in Clients /\ up[c] \in Seq(Nat) /\ Len(up[c]) \in Nat
        /\ buffer \in [1..(MsgSize + 1) -> Nat] /\ MsgSize \in Nat
    BY Types, Sizes DEF TypeOK
  <1>2. k \in 1..Len(up[c])
    BY DEF RecvCount
  <1>3. k \in 0..Len(up[c])
    BY <1>1, <1>2
  <1>4. bytes \in Seq(Nat) /\ Len(bytes) = k /\ Rest(up[c], k) \in Seq(Nat)
    BY <1>1, <1>3, CutProperties
  <1> HIDE DEF bytes
  <1>5. \A j \in 1..(MsgSize + 1) : j <= Len(bytes) => bytes[j] \in Nat
    <2>1. \A j \in 1..(MsgSize + 1) : j <= Len(bytes) => j \in 1..Len(bytes)
      BY <1>1, <1>3, <1>4
    <2> QED  BY <1>4, <2>1, ElementOfSeq
  <1>6. cells \in [1..(MsgSize + 1) -> Nat]
    BY <1>1, <1>5 DEF Filled
  <1> HIDE DEF cells
  <1>7. cells \in Seq(Nat) /\ Len(cells) = MsgSize + 1
    <2>1. MsgSize + 1 \in Nat
      BY <1>1
    <2>2. cells \in Seq(Nat) /\ DOMAIN cells = 1..(MsgSize + 1)
      BY <1>6, <2>1, SeqDef
    <2> QED  BY <2>1, <2>2, LenProperties
  <1>8. EchoOf(cells) \in Seq(Nat)
    <2>1. MsgSize \in 0..Len(cells)
      BY <1>1, <1>7
    <2> QED  BY <1>7, <2>1, CutProperties DEF EchoOf
  <1> QED  BY <1>4, <1>6, <1>8 DEF cells, bytes

\* recv() returns the oldest chunk that is on its way, whole.
LEMMA WholeServed ==
  ASSUME LineInv, NEW c \in serving, c \notin Cut, c \notin reset,
         NEW k \in RecvCount(c, up[c], MsgSize)
  PROVE  /\ k = MsgSize /\ cstatus[c] \in {"sending", "waiting"}
         /\ chunks[c] \in Nat /\ down[c] = <<>>
         /\ \E r \in 0..(chunks[c] - 1) :
              LET cells == Filled(Front(up[c], k))
              IN  /\ Holds(Rest(up[c], k), Typed(c), Line(c), r + 1, chunks[c])
                  /\ Rest(up[c], k) \in Seq(Nat)
                  /\ (HasBar(cells) <=> BarIn(Line(c), r))
                  /\ (IsQuit(cells) <=> QuitIn(Line(c), r))
                  /\ EchoOf(cells) = Chunk(Typed(c), Line(c), r)
  <1>1. /\ c \in Clients /\ TypeOK /\ NetInv /\ Good(c) /\ srv[c] = "open"
        /\ up[c] \in Seq(Nat) /\ Len(up[c]) \in Nat /\ chunks[c] \in Nat
        /\ buffer \in [1..(MsgSize + 1) -> Nat]
    BY Types DEF TypeOK, LineInv
  <1>2. /\ k \in 1..Len(up[c]) /\ k <= MsgSize
        /\ k = MsgSize \/ k = Len(up[c])
    BY DEF RecvCount
  <1>3. up[c] # <<>>
    <2>1. Len(up[c]) # 0
      BY <1>1, <1>2
    <2> QED  BY <2>1, EmptySeq
  <1>4. cli[c] = "open" /\ Underway(c) /\ cstatus[c] \in {"sending", "waiting"}
    BY <1>1, <1>3 DEF NetInv, Connected, Good, Linked, Whole, Underway, Running
  <1>5. PICK r \in 0..chunks[c] : Coming(c, r)
    <2>1. \A r \in 0..(chunks[c] - 1) : r \in 0..chunks[c]
      BY <1>1
    <2> QED  BY <1>3, <1>4, <2>1 DEF Underway
  <1>6. /\ down[c] = <<>> /\ Holds(up[c], Typed(c), Line(c), r, chunks[c])
        /\ Typed(c) \in Nat /\ Line(c) \in Seq(Letters)
    BY <1>1, <1>4, <1>5, LineTypes DEF Coming
  <1>7. Len(up[c]) >= MsgSize /\ r # chunks[c]
    BY <1>1, <1>3, <1>6, HoldsLength
  <1>8. k = MsgSize
    BY <1>1, <1>2, <1>7, Sizes
  <1>9. r \in 0..(chunks[c] - 1) /\ r \in Nat
    BY <1>1, <1>7
  <1>10. /\ Front(up[c], k) = Chunk(Typed(c), Line(c), r)
         /\ Holds(Rest(up[c], k), Typed(c), Line(c), r + 1, chunks[c])
    BY <1>1, <1>6, <1>8, <1>9, HoldsReceive
  <1>11. /\ (HasBar(Filled(Front(up[c], k))) <=> BarIn(Line(c), r))
         /\ (IsQuit(Filled(Front(up[c], k))) <=> QuitIn(Line(c), r))
         /\ EchoOf(Filled(Front(up[c], k))) = Chunk(Typed(c), Line(c), r)
    BY <1>1, <1>6, <1>9, <1>10, FilledProperties
  <1>12. Rest(up[c], k) \in Seq(Nat)
    BY ReceivedTypes
  <1> QED  BY <1>1, <1>4, <1>6, <1>8, <1>9, <1>10, <1>11, <1>12

\* After a chunk without a bar there are more to come.
LEMMA MoreComing ==
  ASSUME LineInv, NEW c \in serving, c \notin Cut, c \notin reset,
         NEW k \in RecvCount(c, up[c], MsgSize),
         ~HasBar(Filled(Front(up[c], k))),
         up'[c] = Rest(up[c], k),
         UNCHANGED <<typed, chunks, cstatus, down>>
  PROVE  Underway(c)'
  <1>1. /\ c \in Clients /\ Whole(c) /\ chunks[c] \in Nat /\ down[c] = <<>>
        /\ cstatus[c] \in {"sending", "waiting"}
    BY Types, WholeServed DEF TypeOK, LineInv, Good
  <1>2. PICK r \in 0..(chunks[c] - 1) :
               /\ Holds(Rest(up[c], k), Typed(c), Line(c), r + 1, chunks[c])
               /\ ~BarIn(Line(c), r)
    BY WholeServed
  <1>3. Coming(c, r + 1)'
    BY <1>1, <1>2 DEF Coming, Typed, Line
  <1>4. r + 1 \in 0..chunks[c]
    BY <1>1
  <1>5. ASSUME cstatus[c] = "waiting"  PROVE r + 1 \in 0..(chunks[c] - 1)
    <2>1. BarIn(Line(c), chunks[c] - 1)
      BY <1>1, <1>5 DEF Whole, Sent, FirstBar
    <2>2. r # chunks[c] - 1
      BY <1>2, <2>1
    <2> QED  BY <1>1, <2>2
  <1> QED  BY <1>1, <1>3, <1>4, <1>5 DEF Underway

\* The first chunk with a bar is the last one, and is sent back if it is not quit.
LEMMA LastOne ==
  ASSUME LineInv, NEW c \in serving, c \notin Cut, c \notin reset,
         NEW k \in RecvCount(c, up[c], MsgSize),
         HasBar(Filled(Front(up[c], k)))
  PROVE  /\ cstatus[c] = "waiting" /\ Rest(up[c], k) = <<>> /\ down[c] = <<>>
         /\ EchoOf(Filled(Front(up[c], k)))
              = Chunk(Typed(c), Line(c), chunks[c] - 1)
         /\ (IsQuit(Filled(Front(up[c], k))) <=> QuitIn(Line(c), chunks[c] - 1))
  <1>1. /\ c \in Clients /\ Whole(c) /\ chunks[c] \in Nat /\ down[c] = <<>>
        /\ cstatus[c] \in {"sending", "waiting"}
    BY Types, WholeServed DEF TypeOK, LineInv, Good
  <1>2. PICK r \in 0..(chunks[c] - 1) :
               LET cells == Filled(Front(up[c], k))
               IN  /\ Holds(Rest(up[c], k), Typed(c), Line(c), r + 1, chunks[c])
                   /\ Rest(up[c], k) \in Seq(Nat)
                   /\ BarIn(Line(c), r)
                   /\ (IsQuit(cells) <=> QuitIn(Line(c), r))
                   /\ EchoOf(cells) = Chunk(Typed(c), Line(c), r)
    BY WholeServed
  <1>3. cstatus[c] = "waiting" /\ r = chunks[c] - 1
    <2>1. cstatus[c] # "sending"
      BY <1>1, <1>2 DEF Whole, Sent
    <2>2. \A h \in 0..((chunks[c] - 1) - 1) : ~BarIn(Line(c), h)
      BY <1>1, <2>1 DEF Whole, Sent, FirstBar
    <2>3. r \notin 0..((chunks[c] - 1) - 1)
      BY <1>2, <2>2
    <2>4. r = chunks[c] - 1
      BY <1>1, <2>3
    <2> QED  BY <1>1, <2>1, <2>4
  <1>4. r + 1 = chunks[c] /\ r + 1 \in 0..chunks[c]
    BY <1>1, <1>3
  <1>5. Rest(up[c], k) = <<>>
    BY <1>1, <1>2, <1>4, HoldsLength
  <1> QED  BY <1>1, <1>2, <1>3, <1>5

LEMMA LineInvServe ==
  ASSUME LineInv, NEW c \in serving, Serve(c)
  PROVE  LineInv'
  <1>1. /\ c \in Clients /\ TypeOK /\ NetInv /\ NetTypeOK /\ srv[c] = "open"
        /\ down[c] \in Seq(Nat)
        /\ UNCHANGED <<typed, shown, chunks, cstatus>>
    <2>1. c \in Clients
      BY Types DEF TypeOK
    <2> QED  BY <2>1, Types DEF Serve
  <1>2. CASE ServerSeesEnd(c) /\ BackToAccept(c) /\ UNCHANGED up
    <2>1. c \in reset
      BY <1>1, <1>2 DEF ServerSeesEnd, NetInv, Connected
    <2> QED  BY <1>1, <1>2, <2>1, LineInvBackToAccept DEF NetTypeOK
  <1>3. CASE ServerEnds("died")
    BY <1>1, <1>3, LineInvServerEnds
  <1>4. ASSUME ~ServerSeesEnd(c), NEW k \in RecvCount(c, up[c], MsgSize),
               up' = [up EXCEPT ![c] = Rest(@, k)]
        PROVE  /\ up' \in [Clients -> Seq(Nat)] /\ up'[c] = Rest(up[c], k)
               /\ \A d \in Clients : d # c => up'[d] = up[d]
               /\ \A d \in Clients : cli[d] = "none" => up'[d] = up[d]
    <2>1. Rest(up[c], k) \in Seq(Nat)
      BY ReceivedTypes
    <2>2. /\ up' \in [Clients -> Seq(Nat)] /\ up'[c] = Rest(up[c], k)
          /\ \A d \in Clients : d # c => up'[d] = up[d]
      BY <1>1, <1>4, <2>1 DEF NetTypeOK
    <2> QED  BY <1>1, <2>2 DEF NetInv, Connected
  <1>5. ASSUME ~ServerSeesEnd(c), NEW k \in RecvCount(c, up[c], MsgSize),
               ~HasBar(Filled(Front(up[c], k))),
               up' = [up EXCEPT ![c] = Rest(@, k)],
               buffer' = Filled(Front(up[c], k)),
               UNCHANGED <<listening, queue, cli, srv, down, reset, sstatus,
                           serving>>
        PROVE  LineInv'
    <2>1. /\ up' \in [Clients -> Seq(Nat)] /\ up'[c] = Rest(up[c], k)
          /\ \A d \in Clients : d # c => up'[d] = up[d]
          /\ \A d \in Clients : cli[d] = "none" => up'[d] = up[d]
      BY <1>4, <1>5
    <2>2. NetInv'
      <3>1. down' \in [Clients -> Seq(Nat)]
        BY <1>1, <1>5 DEF NetTypeOK
      <3> QED  BY <1>1, <1>5, <2>1, <3>1, NetInvData
    <2>3. TypeOK'
      <3>1. buffer' \in [1..(MsgSize + 1) -> Nat]
        BY <1>5, ReceivedTypes
      <3> QED  BY <1>1, <1>5, <2>2, <3>1 DEF TypeOK, NetInv
    <2>4. c \notin Cut /\ c \notin reset => Underway(c)'
      BY <1>1, <1>5, <2>1, MoreComing
    <2> QED  BY <1>1, <1>5, <2>1, <2>2, <2>3, <2>4, LineInvServed
  <1>6. ASSUME ~ServerSeesEnd(c), NEW k \in RecvCount(c, up[c], MsgSize),
               HasBar(Filled(Front(up[c], k))),
               up' = [up EXCEPT ![c] = Rest(@, k)],
               BackToAccept(c)
        PROVE  LineInv'
    <2>1. /\ up' \in [Clients -> Seq(Nat)] /\ up'[c] = Rest(up[c], k)
          /\ \A d \in Clients : d # c => up'[d] = up[d]
      BY <1>4, <1>6
    <2>2. srv'[c] = "closed" /\ down' = down
      BY <1>1, <1>6 DEF BackToAccept, NetTypeOK
    <2>3. ASSUME c \notin Cut, c \notin reset  PROVE Underway(c)'
      <3>1. cstatus'[c] = "waiting" /\ up'[c] = <<>> /\ down'[c] = <<>>
        BY <1>1, <1>6, <2>1, <2>2, <2>3, LastOne
      <3> QED  BY <2>2, <3>1 DEF Underway
    <2> QED  BY <1>1, <1>6, <2>1, <2>3, LineInvBackToAccept
  <1>7. ASSUME ~ServerSeesEnd(c), NEW k \in RecvCount(c, up[c], MsgSize),
               HasBar(Filled(Front(up[c], k))),
               ~IsQuit(Filled(Front(up[c], k))),
               up' = [up EXCEPT ![c] = Rest(@, k)],
               down' = [down EXCEPT ![c] = @ \o EchoOf(Filled(Front(up[c], k)))],
               buffer' = NextRound(Filled(Front(up[c], k))),
               UNCHANGED <<listening, queue, cli, srv, reset, sstatus, serving>>
        PROVE  LineInv'
    <2> DEFINE echo == EchoOf(Filled(Front(up[c], k)))
    <2>1. /\ up' \in [Clients -> Seq(Nat)] /\ up'[c] = Rest(up[c], k)
          /\ \A d \in Clients : d # c => up'[d] = up[d]
          /\ \A d \in Clients : cli[d] = "none" => up'[d] = up[d]
      BY <1>4, <1>7
    <2>2. echo \in Seq(Nat)
      BY ReceivedTypes
    <2>3. ASSUME c \notin Cut, c \notin reset
          PROVE  /\ cstatus[c] = "waiting" /\ up'[c] = <<>> /\ down[c] = <<>>
                 /\ echo = Chunk(Typed(c), Line(c), chunks[c] - 1)
                 /\ ~QuitIn(Line(c), chunks[c] - 1)
      BY <1>7, <2>1, <2>3, LastOne
    <2>4. down' = [down EXCEPT ![c] = @ \o echo]
      BY <1>7
    <2> HIDE DEF echo
    <2>5. /\ down' \in [Clients -> Seq(Nat)] /\ down'[c] = down[c] \o echo
          /\ \A d \in Clients : d # c => down'[d] = down[d]
      <3>1. down[c] \o echo \in Seq(Nat)
        BY <1>1, <2>2, ConcatProperties
      <3> QED  BY <1>1, <2>4, <3>1 DEF NetTypeOK
    <2>6. NetInv'
      BY <1>1, <1>7, <2>1, <2>5, NetInvData
    <2>7. TypeOK'
      <3>1. buffer' \in [1..(MsgSize + 1) -> Nat]
        BY <1>7, ReceivedTypes DEF NextRound
      <3> QED  BY <1>1, <1>7, <2>6, <3>1 DEF TypeOK, NetInv
    <2>8. ASSUME c \notin Cut, c \notin reset  PROVE Underway(c)'
      <3>1. down'[c] = echo
        BY <2>2, <2>3, <2>5, <2>8, ConcatEmptySeq
      <3> QED  BY <1>1, <2>3, <2>8, <3>1 DEF Underway, Typed, Line
    <2> QED  BY <1>1, <1>7, <2>1, <2>5, <2>6, <2>7, <2>8, LineInvServed
  <1> QED  BY <1>2, <1>3, <1>5, <1>6, <1>7 DEF Serve

-----------------------------------------------------------------------------
(* The theorems. *)

LEMMA LineInvNext == LineInv /\ [Next]_vars => LineInv'
  <1> SUFFICES ASSUME LineInv, [Next]_vars  PROVE LineInv'
    OBVIOUS
  <1>1. ASSUME NEW c \in Clients, StartClient(c) \/ TypeLine(c)  PROVE LineInv'
    BY <1>1, LineInvStartClient, LineInvTypeLine
  <1>2. ASSUME NEW c \in Clients, ClientLoop(c)  PROVE LineInv'
    BY <1>2, LineInvSendChunk, LineInvReadAnswer DEF ClientLoop
  <1>3. ASSUME NEW c \in Clients, KillClient(c)  PROVE LineInv'
    BY <1>3, LineInvKillClient
  <1>4. CASE StartServer
    BY <1>4, LineInvStartServer
  <1>5. CASE ServerLoop
    BY <1>5, LineInvAccept, LineInvServe DEF ServerLoop
  <1>6. CASE KillServer
    BY <1>6, LineInvServerEnds DEF KillServer
  <1>7. CASE UNCHANGED vars
    <2>1. /\ UNCHANGED <<listening, queue, cli, srv, up, down, reset>>
          /\ UNCHANGED <<typed, shown, chunks, cstatus, sstatus, serving, buffer>>
      BY <1>7 DEF vars, netVars, lineVars
    <2>2. NetInv'
      BY <2>1 DEF LineInv, NetInv, NetTypeOK, QueueOK, Connected
    <2>3. TypeOK'
      BY <2>1, <2>2 DEF LineInv, TypeOK, NetInv
    <2>4. ASSUME NEW c \in Clients  PROVE Good(c)'
      BY <2>1, GoodKept DEF LineInv
    <2> QED  BY <2>2, <2>3, <2>4 DEF LineInv
  <1> QED  BY <1>1, <1>2, <1>3, <1>4, <1>5, <1>6, <1>7 DEF Next

LEMMA LineInvariant == Spec => []LineInv
  BY LineInvInit, LineInvNext, PTL DEF Spec

\* Whatever the clients, their users, the server and TCP do, and whatever an
\* uninitialised buffer holds, every variable of lab 3 with a delimiter keeps its
\* type, and the server has a buffer and reads from the one client that it has
\* accepted and not closed (3/SendDeliminatingCharacter/server/server.cpp).
THEOREM DelimiterTypeCorrect == Spec => []TypeOK
  <1>1. LineInv => TypeOK
    BY DEF LineInv
  <1> QED  BY <1>1, LineInvariant, PTL

LEMMA DelimiterNoMutualWaitHolds == LineInv => NoMutualWait
  <1> SUFFICES ASSUME LineInv, NEW c \in serving \ Cut, cstatus[c] = "waiting",
                      c \notin reset
               PROVE  Len(down[c]) >= MsgSize \/ up[c] # <<>>
    BY DEF NoMutualWait
  <1>1. /\ c \in Clients /\ srv[c] = "open" /\ Whole(c) /\ chunks[c] \in Nat
        /\ up[c] \in Seq(Nat) /\ Typed(c) \in Nat /\ Line(c) \in Seq(Letters)
    <2>1. c \in Clients
      BY Types DEF TypeOK
    <2> QED  BY <2>1, Types, LineTypes DEF LineInv, Good
  <1>2. ASSUME NEW r \in 0..(chunks[c] - 1), Coming(c, r)  PROVE up[c] # <<>>
    <2>1. r \in 0..chunks[c] /\ r # chunks[c]
      BY <1>1
    <2>2. Holds(up[c], Typed(c), Line(c), r, chunks[c])
      BY <1>2 DEF Coming
    <2> QED  BY <1>1, <2>1, <2>2, HoldsLength
  <1>3. up[c] = <<>> => down[c] = Chunk(Typed(c), Line(c), chunks[c] - 1)
    BY <1>1, <1>2 DEF Whole, Underway
  <1>4. chunks[c] - 1 \in Nat
    BY <1>1, LineTypes DEF Whole, Sent
  <1>5. up[c] = <<>> => Len(down[c]) = MsgSize
    BY <1>1, <1>3, <1>4, ChunkProperties
  <1> QED  BY <1>5, Sizes

\* For any number of clients, any lines and any contents of the buffer: as long as
\* chunks come whole, the server and the client that it serves never both wait in
\* recv() with nothing to read.
THEOREM DelimiterNoMutualWait == Spec => []NoMutualWait
  BY LineInvariant, DelimiterNoMutualWaitHolds, PTL

-----------------------------------------------------------------------------
(* The refinement: for the clients whose chunks come whole. *)

Wholes == Clients \ Cut

\* The variables of the service: which lines the users have typed, and what the
\* clients have printed, in the words of the service.
Asked(c) == [n \in 1..Len(typed[c]) |-> IsQuitLine(typed[c][n])]
Answers(c) == [k \in 1..Len(shown[c]) |-> AnswerTo(c, k)]
AllAsked == [c \in Clients \ Cut |->
               [n \in 1..Len(typed[c]) |-> IsQuitLine(typed[c][n])]]
AllAnswers == [c \in Clients \ Cut |->
                 [k \in 1..Len(shown[c]) |-> AnswerTo(c, k)]]

LEMMA AllOfThem ==
  /\ AllAsked = [c \in Wholes |-> Asked(c)]
  /\ AllAnswers = [c \in Wholes |-> Answers(c)]
  /\ AllAsked' = [c \in Wholes |-> Asked(c)']
  /\ AllAnswers' = [c \in Wholes |-> Answers(c)']
  BY DEF AllAsked, AllAnswers, Asked, Answers, Wholes

LEMMA FunctionIsSeq ==
  ASSUME NEW T, NEW n \in Nat, NEW f \in [1..n -> T]
  PROVE  f \in Seq(T) /\ Len(f) = n
  <1>1. f \in Seq(T)
    BY SeqDef
  <1> QED  BY <1>1, LenProperties

\* A sequence that has one more element than another one, and the same ones before.
LEMMA GrowsByOne ==
  ASSUME NEW S, NEW m \in Nat, NEW f \in [1..m -> S], NEW g \in [1..(m + 1) -> S],
         \A k \in 1..m : g[k] = f[k]
  PROVE  /\ Len(f) = m /\ Len(g) = m + 1
         /\ g = Append(f, g[m + 1])
  <1> DEFINE last == g[m + 1]
             more == Append(f, last)
  <1>1. m + 1 \in Nat /\ last \in S
    BY SMT
  <1>2. f \in Seq(S) /\ g \in Seq(S)
    BY <1>1, SeqDef
  <1>3. Len(f) = m /\ Len(g) = m + 1
    BY <1>1, <1>2, LenProperties
  <1> HIDE DEF last
  <1>4. /\ more \in Seq(S) /\ Len(more) = m + 1
        /\ \A k \in 1..m : more[k] = f[k]
        /\ more[m + 1] = last
    BY <1>1, <1>2, <1>3, AppendProperties
  <1> HIDE DEF more
  <1>5. \A k \in 1..(m + 1) : k \in 1..m \/ k = m + 1
    BY SMT
  <1>6. \A k \in 1..(m + 1) : g[k] = more[k]
    BY <1>4, <1>5 DEF last
  <1>7. g = more
    BY <1>2, <1>3, <1>4, <1>6, SeqEqual
  <1> QED  BY <1>3, <1>7 DEF more, last

LEMMA ServiceInit == Init => Service!Init
  <1> SUFFICES ASSUME Init  PROVE Service!Init
    OBVIOUS
  <1>1. ASSUME NEW c \in Clients  PROVE Asked(c) = <<>> /\ Answers(c) = <<>>
    <2>1. /\ typed[c] = <<>> /\ Len(typed[c]) = 0
          /\ shown[c] = <<>> /\ Len(shown[c]) = 0
      BY EmptySeq DEF Init
    <2> QED  BY <2>1 DEF Asked, Answers
  <1> QED  BY <1>1 DEF Service!Init, Asked, Answers

\* A step that changes no line and no answer of such a client is a stutter.
LEMMA ServiceStutters ==
  ASSUME \A c \in Wholes : typed'[c] = typed[c] /\ shown'[c] = shown[c]
  PROVE  UNCHANGED Service!vars
  <1>1. \A c \in Wholes : Asked(c)' = Asked(c)
    BY DEF Asked
  <1>2. \A c \in Wholes : \A k \in 1..Len(shown[c]) :
           AnswerTo(c, k)' = AnswerTo(c, k)
    BY DEF AnswerTo
  <1>3. \A c \in Wholes : Answers(c)' = Answers(c)
    BY <1>2 DEF Answers
  <1>4. AllAsked' = AllAsked /\ AllAnswers' = AllAnswers
    BY <1>1, <1>3, AllOfThem
  <1> QED  BY <1>4 DEF Service!vars, AllAsked, AllAnswers

LEMMA ServiceAsks ==
  ASSUME LineInv, NEW c \in Wholes, TypeLine(c)
  PROVE  Service!Ask(c)
  <1> DEFINE n == Len(typed[c])
  <1>1. /\ c \in Clients /\ TypeOK /\ shown' = shown /\ n = Len(shown[c])
        /\ n \in Nat /\ Answered(c) /\ typed[c] \in Seq(Lines)
    <2>1. c \in Clients /\ Whole(c) /\ cstatus[c] = "prompt" /\ shown' = shown
      BY DEF Wholes, LineInv, Good, TypeLine
    <2> QED  BY <2>1, Types DEF Whole, Answered, Typed, Shown
  <1>2. PICK line \in Lines : typed' = [typed EXCEPT ![c] = Append(@, line)]
    BY DEF TypeLine
  <1>3. /\ Len(typed'[c]) = n + 1
        /\ \A k \in 1..n : typed'[c][k] = typed[c][k]
    <2>1. typed'[c] = Append(typed[c], line)
      BY <1>1, <1>2 DEF TypeOK
    <2> QED  BY <1>1, <2>1, AppendProperties
  <1>4. \A d \in Wholes : d # c => typed'[d] = typed[d]
    BY <1>1, <1>2 DEF TypeOK, Wholes
  <1>5. /\ Asked(c) \in [1..n -> BOOLEAN] /\ Asked(c)' \in [1..(n + 1) -> BOOLEAN]
        /\ \A k \in 1..n : Asked(c)'[k] = Asked(c)[k]
    <2>1. \A k \in 1..n : k \in 1..(n + 1)
      BY <1>1
    <2>2. /\ Asked(c) = [k \in 1..n |-> IsQuitLine(typed[c][k])]
          /\ Asked(c)' = [k \in 1..(n + 1) |-> IsQuitLine(typed'[c][k])]
      BY <1>3 DEF Asked, IsQuitLine, LastChunk, Chunk, HasBar
    <2>3. \A l : IsQuitLine(l) \in BOOLEAN
      BY DEF IsQuitLine
    <2> QED  BY <1>3, <2>1, <2>2, <2>3
  <1>6. PICK quit \in BOOLEAN : Asked(c)' = Append(Asked(c), quit)
    <2>1. n + 1 \in 1..(n + 1)
      BY <1>1
    <2>2. Asked(c)'[n + 1] \in BOOLEAN
      BY <1>5, <2>1
    <2> QED  BY <1>1, <1>5, <2>2, GrowsByOne
  <1>7. AllAsked' = [AllAsked EXCEPT ![c] = Append(@, quit)]
    <2>1. \A d \in Wholes : d # c => Asked(d)' = Asked(d)
      BY <1>4 DEF Asked
    <2> QED  BY <1>6, <2>1, AllOfThem
  <1>8. AllAnswers' = AllAnswers
    <2>1. ASSUME NEW d \in Wholes  PROVE Answers(d)' = Answers(d)
      <3>1. ASSUME NEW k \in 1..Len(shown[d])  PROVE typed'[d][k] = typed[d][k]
        BY <1>1, <1>3, <1>4
      <3>2. \A k \in 1..Len(shown[d]) : AnswerTo(d, k)' = AnswerTo(d, k)
        BY <1>1, <3>1 DEF AnswerTo
      <3> QED  BY <1>1, <3>2 DEF Answers
    <2> QED  BY <2>1, AllOfThem
  <1>9. AllAsked[c] = Asked(c) /\ AllAnswers[c] = Answers(c)
    BY AllOfThem
  <1>10. Len(Asked(c)) = n /\ Len(Answers(c)) = n
    <2>1. Len(Asked(c)) = n
      BY <1>1, <1>5, GrowsByOne
    <2>2. DOMAIN Answers(c) = 1..n
      BY <1>1 DEF Answers
    <2>3. Len(Answers(c)) = n
      BY <1>1, <2>2, LenProperties DEF Answers
    <2> QED  BY <2>1, <2>3
  <1>11. ~\E k \in 1..Len(Answers(c)) : Answers(c)[k].quit
    <2>1. ASSUME NEW k \in 1..n  PROVE Answers(c)[k].quit = FALSE
      <3>1. Answers(c)[k] = AnswerTo(c, k)
        BY <1>1 DEF Answers
      <3>2. IsQuitLine(typed[c][k]) = FALSE /\ shown[c][k] = LastChunk(k, typed[c][k])
        <4>1. ~IsQuitLine(typed[c][k]) /\ shown[c][k] = LastChunk(k, typed[c][k])
          BY <1>1 DEF Answered, Shown
        <4> QED  BY <4>1 DEF IsQuitLine
      <3> QED  BY <3>1, <3>2 DEF AnswerTo
    <2> QED  BY <1>10, <2>1
  <1>12. /\ Len(AllAnswers[c]) = Len(AllAsked[c])
         /\ ~\E k \in 1..Len(AllAnswers[c]) : AllAnswers[c][k].quit
    BY <1>9, <1>10, <1>11
  <1> QED  BY <1>7, <1>8, <1>12
           DEF Service!Ask, Service!Done, AllAsked, AllAnswers

LEMMA ServiceAnswers ==
  ASSUME LineInv, NEW c \in Wholes, UNCHANGED typed,
         Typed(c) \in 1..Typed(c), Typed(c) = Shown(c) + 1,
         shown' = [shown EXCEPT ![c] = Append(@, LastChunk(Typed(c), Line(c)))]
  PROVE  Service!Answer(c)
  <1>0. PICK m \in Nat, n \in Nat : m = Shown(c) /\ n = Typed(c)
    BY Types DEF Wholes
  <1> DEFINE last == LastChunk(n, Line(c))
             answer == Service!Line(n, IsQuitLine(Line(c)))
             S == [line : Nat, quit : BOOLEAN]
  <1>1. /\ c \in Clients /\ TypeOK /\ n = m + 1 /\ n \in 1..n
        /\ Line(c) = typed[c][n]
        /\ shown[c] \in Seq(Seq(Nat)) /\ Len(shown[c]) = m
    <2>1. c \in Clients
      BY DEF Wholes
    <2> QED  BY <1>0, <2>1, Types DEF Line, Shown
  <1>2. /\ shown'[c] = Append(shown[c], last)
        /\ \A d \in Wholes : d # c => shown'[d] = shown[d]
    BY <1>0, <1>1 DEF TypeOK, Wholes
  <1>3. /\ Len(shown'[c]) = m + 1 /\ shown'[c][m + 1] = last
        /\ \A k \in 1..m : shown'[c][k] = shown[c][k]
    <2> DEFINE T == Seq(Nat) \cup {last}
    <2> HIDE DEF last
    <2>1. shown[c] \in Seq(T) /\ last \in T
      <3>1. Seq(Nat) \subseteq T
        BY DEF T
      <3>2. last \in T
        BY DEF T
      <3> HIDE DEF T
      <3>3. shown[c] \in [1..m -> Seq(Nat)]
        BY <1>1, LenProperties
      <3>4. shown[c] \in [1..m -> T]
        BY <3>1, <3>3
      <3>5. shown[c] \in Seq(T)
        BY <3>4, FunctionIsSeq
      <3> QED  BY <3>2, <3>5
    <2> HIDE DEF T
    <2> QED  BY <1>1, <1>2, <2>1, AppendProperties
  <1>4. \A l : IsQuitLine(l) \in BOOLEAN
    BY DEF IsQuitLine
  <1>5. answer \in S /\ AnswerTo(c, n)' = answer
    <2>1. shown'[c][n] = LastChunk(n, typed'[c][n]) /\ typed'[c][n] = Line(c)
      BY <1>1, <1>3
    <2> QED  BY <1>1, <1>4, <2>1 DEF AnswerTo, Service!Line
  <1>6. ASSUME NEW k \in 1..m
        PROVE  AnswerTo(c, k)' = AnswerTo(c, k) /\ AnswerTo(c, k) \in S
    <2>1. shown'[c][k] = shown[c][k] /\ k \in Nat
      BY <1>1, <1>3
    <2> QED  BY <1>4, <2>1 DEF AnswerTo
  <1> HIDE DEF answer, S, last
  <1>7. \A k \in 1..(m + 1) : k \in 1..m \/ k = m + 1
    BY <1>1
  <1>8. /\ Answers(c) = [k \in 1..m |-> AnswerTo(c, k)]
        /\ Answers(c)' = [k \in 1..(m + 1) |-> AnswerTo(c, k)']
    BY <1>1, <1>3 DEF Answers
  <1>9. /\ Answers(c) \in [1..m -> S] /\ Answers(c)' \in [1..(m + 1) -> S]
        /\ \A k \in 1..m : Answers(c)'[k] = Answers(c)[k]
        /\ Answers(c)'[m + 1] = answer
    <2>1. \A k \in 1..m : k \in 1..(m + 1)
      BY <1>1
    <2>2. m + 1 \in 1..(m + 1)
      BY <1>1
    <2>3. \A k \in 1..(m + 1) : AnswerTo(c, k)' \in S
      BY <1>1, <1>5, <1>6, <1>7
    <2>4. AnswerTo(c, m + 1)' = answer
      BY <1>1, <1>5
    <2> QED  BY <1>6, <1>8, <2>1, <2>2, <2>3, <2>4
  <1>10. Answers(c)' = Append(Answers(c), answer) /\ Len(Answers(c)) = m
    BY <1>1, <1>9, GrowsByOne
  <1>11. AllAnswers' = [AllAnswers EXCEPT ![c] = Append(@, answer)]
    <2>1. ASSUME NEW d \in Wholes, d # c  PROVE Answers(d)' = Answers(d)
      BY <1>2, <2>1 DEF Answers, AnswerTo
    <2> QED  BY <1>10, <2>1, AllOfThem
  <1>12. AllAsked' = AllAsked
    <2>1. \A d \in Wholes : Asked(d)' = Asked(d)
      BY DEF Asked
    <2> QED  BY <2>1, AllOfThem
  <1>13. AllAsked[c] = Asked(c) /\ AllAnswers[c] = Answers(c)
    BY AllOfThem
  <1>14. Len(Asked(c)) = n /\ Asked(c)[n] = IsQuitLine(Line(c))
    <2>1. Asked(c) = [k \in 1..n |-> IsQuitLine(typed[c][k])]
      BY <1>0 DEF Asked, Typed
    <2>2. Asked(c) \in [1..n -> BOOLEAN]
      BY <1>4, <2>1
    <2>3. Len(Asked(c)) = n
      BY <2>2, FunctionIsSeq
    <2> QED  BY <1>1, <2>1, <2>3
  <1>15. Len(AllAnswers[c]) < Len(AllAsked[c]) /\ Len(AllAnswers[c]) + 1 = n
    BY <1>1, <1>10, <1>13, <1>14
  <1> DEFINE a == AllAnswers
             b == AllAsked
  <1>16. LET j == Len(a[c]) + 1
         IN  a' = [a EXCEPT ![c] = Append(@, Service!Line(j, b[c][j]))]
    BY <1>11, <1>13, <1>14, <1>15 DEF answer
  <1> QED  BY <1>12, <1>15, <1>16 DEF Service!Answer, AllAsked, AllAnswers

LEMMA ServiceNext == LineInv /\ [Next]_vars => [Service!Next]_(Service!vars)
  <1> SUFFICES ASSUME LineInv, [Next]_vars
      PROVE  Service!Next \/ UNCHANGED Service!vars
    BY DEF Service!Next
  <1>1. TypeOK
    BY DEF LineInv
  <1>2. CASE UNCHANGED <<typed, shown>>
    BY <1>2, ServiceStutters
  <1>3. ASSUME NEW c \in Clients, TypeLine(c)
        PROVE  Service!Next \/ UNCHANGED Service!vars
    <2>1. CASE c \in Wholes
      BY <1>3, <2>1, ServiceAsks DEF Service!Next, Wholes
    <2>2. CASE c \notin Wholes
      <3>1. \A d \in Wholes : typed'[d] = typed[d] /\ shown'[d] = shown[d]
        BY <1>1, <1>3, <2>2 DEF TypeLine, TypeOK, Wholes
      <3> QED  BY <3>1, ServiceStutters
    <2> QED  BY <2>1, <2>2
  <1>4. ASSUME NEW c \in Clients, ReadAnswer(c)
        PROVE  Service!Next \/ UNCHANGED Service!vars
    <2>1. CASE UNCHANGED shown
      BY <1>2, <1>4, <2>1 DEF ReadAnswer
    <2>2. ASSUME c \notin reset, Len(down[c]) >= MsgSize,
                 shown' = [shown EXCEPT ![c] = Append(@, Front(down[c], MsgSize))]
          PROVE  Service!Next \/ UNCHANGED Service!vars
      <3>1. cstatus[c] = "waiting" /\ UNCHANGED typed
        BY <1>4 DEF ReadAnswer
      <3>2. CASE c \notin Wholes
        <4>1. \A d \in Wholes : typed'[d] = typed[d] /\ shown'[d] = shown[d]
          BY <1>1, <2>2, <3>1, <3>2 DEF TypeOK, Wholes
        <4> QED  BY <4>1, ServiceStutters
      <3>3. CASE c \in Wholes
        <4>1. /\ Typed(c) \in 1..Typed(c) /\ Typed(c) = Shown(c) + 1
              /\ Front(down[c], MsgSize) = LastChunk(Typed(c), Line(c))
          BY <2>2, <3>1, <3>3, WholeAnswer DEF Wholes
        <4>2. shown' = [shown EXCEPT
                         ![c] = Append(@, LastChunk(Typed(c), Line(c)))]
          BY <2>2, <4>1
        <4>3. Service!Answer(c)
          BY <3>1, <3>3, <4>1, <4>2, ServiceAnswers
        <4>4. \E d \in Clients \ Cut : Service!Answer(d)
          BY <3>3, <4>3 DEF Wholes
        <4> QED  BY <4>4 DEF Service!Next
      <3> QED  BY <3>2, <3>3
    <2> QED  BY <1>4, <2>1, <2>2 DEF ReadAnswer
  <1>5. ASSUME NEW c \in Clients, StartClient(c) \/ SendChunk(c) \/ KillClient(c)
        PROVE  Service!Next \/ UNCHANGED Service!vars
    BY <1>2, <1>5 DEF StartClient, SendChunk, KillClient
  <1>6. ASSUME NEW c \in serving, Serve(c)
        PROVE  Service!Next \/ UNCHANGED Service!vars
    BY <1>2, <1>6 DEF Serve
  <1>7. CASE StartServer \/ Accept \/ KillServer \/ UNCHANGED vars
    BY <1>2, <1>7 DEF StartServer, Accept, KillServer, vars, lineVars
  <1>8. CASE ServerLoop
    BY <1>6, <1>7, <1>8, Zenon DEF ServerLoop
  <1>9. ASSUME NEW c \in Clients, ClientLoop(c)
        PROVE  Service!Next \/ UNCHANGED Service!vars
    BY <1>4, <1>5, <1>9, Zenon DEF ClientLoop
  <1>10. ASSUME NEW c \in Clients,
                StartClient(c) \/ TypeLine(c) \/ ClientLoop(c) \/ KillClient(c)
         PROVE  Service!Next \/ UNCHANGED Service!vars
    BY <1>3, <1>5, <1>9, <1>10, Zenon
  <1>11. CASE Next
    BY <1>7, <1>8, <1>10, <1>11, Zenon DEF Next
  <1> QED  BY <1>7, <1>11

\* For any number of clients, any lines and any contents of the buffer, and whoever
\* goes away: the clients of lab 3 whose chunks come whole, and the server,
\* implement the echo service for the tails of lines: the k-th answer is the last chunk of the
\* k-th line, which is all of it only if one chunk holds it (EchoesEverything).
THEOREM DelimiterImplementsTailEcho == Spec => ImplementsTailEcho
  BY LineInvariant, ServiceInit, ServiceNext, PTL DEF Spec, ImplementsTailEcho,
                                                     Service!Spec
=============================================================================
