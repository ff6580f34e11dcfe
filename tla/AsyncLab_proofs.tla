--------------------------- MODULE AsyncLab_proofs ---------------------------
(***************************************************************************)
(* Proofs about AsyncLab, for any number of clients, sizes of messages and *)
(* buffers, and number of keypresses.                                      *)
(***************************************************************************)
EXTENDS AsyncLab, SequenceTheorems, TLAPS

-----------------------------------------------------------------------------
(* What the operators on buffers and queues return.                        *)

LEMMA TakenProperties ==
  ASSUME NEW s \in Seq(Nat), NEW k \in 1..Len(s)
  PROVE  /\ SubSeq(s, 1, k) \in Seq(Nat)
         /\ Len(SubSeq(s, 1, k)) = k
         /\ \A i \in 1..k : SubSeq(s, 1, k)[i] = s[i]
  <1>1. \A i \in 1..k : s[i] \in Nat
    BY ElementOfSeq
  <1> QED  BY <1>1, SubSeqProperties

LEMMA LeftProperties ==
  ASSUME NEW s \in Seq(Nat), NEW k \in 1..Len(s)
  PROVE  /\ SubSeq(s, k + 1, Len(s)) \in Seq(Nat)
         /\ Len(SubSeq(s, k + 1, Len(s))) = Len(s) - k
         /\ \A i \in 1..(Len(s) - k) : SubSeq(s, k + 1, Len(s))[i] = s[k + i]
  <1> DEFINE from == k + 1
             upto == Len(s)
             left == SubSeq(s, from, upto)
  <1>1. /\ upto \in Nat /\ from \in Int /\ from \in 1..(upto + 1)
        /\ upto - from + 1 = Len(s) - k
        /\ (IF from <= upto THEN upto - from + 1 ELSE 0) = Len(s) - k
    <2>1. Len(s) \in Nat
      OBVIOUS
    <2> QED  BY <2>1
  <1>2. \A i \in from..upto : s[i] \in Nat
    <2>1. upto \in Nat /\ k \in Nat /\ k >= 1
      <3>1. Len(s) \in Nat
        OBVIOUS
      <3> QED  BY <3>1
    <2>2. ASSUME NEW i \in from..upto  PROVE i \in 1..upto
      BY <2>1, <2>2
    <2> QED  BY <2>2, ElementOfSeq
  <1>3. \A i \in 1..(Len(s) - k) : from + i - 1 = k + i
    OBVIOUS
  <1> HIDE DEF from, upto
  <1>4. /\ left \in Seq(Nat)
        /\ Len(left) = IF from <= upto THEN upto - from + 1 ELSE 0
        /\ \A i \in 1..(upto - from + 1) : left[i] = s[from + i - 1]
    BY <1>1, <1>2, SubSeqProperties
  <1>5. \A i \in 1..(Len(s) - k) : left[i] = s[k + i]
    BY <1>1, <1>3, <1>4
  <1> QED  BY <1>1, <1>4, <1>5 DEF from, upto

LEMMA RestProperties ==
  ASSUME NEW s \in Seq(Nat), NEW k \in 1..Len(s)
  PROVE  /\ Rest(s, k) \in Seq(Nat)
         /\ Len(Rest(s, k)) = Len(s) - k
         /\ \A i \in 1..(Len(s) - k) : Rest(s, k)[i] = s[k + i]
         /\ Unsent(s, k) = Rest(s, k)
  BY LeftProperties DEF Rest, Unsent

LEMMA EncodeProperties ==
  ASSUME NEW n \in Nat \ {0}
  PROVE  /\ Encode(n) \in Seq(Nat)
         /\ Len(Encode(n)) = MsgSize
         /\ \A j \in 1..MsgSize : Encode(n)[j] = (n - 1) * MsgSize + j
  <1> MsgSize \in Nat  BY NetAssumption
  <1>1. (n - 1) * MsgSize \in Nat  OBVIOUS
  <1>2. \A j \in 1..MsgSize : (n - 1) * MsgSize + j \in Nat  BY <1>1
  <1>3. Encode(n) \in Seq(Nat) 
    BY <1>2 DEF Encode
  <1>4. Len(Encode(n)) = MsgSize
    BY <1>3, LenProperties DEF Encode
  <1> QED  BY <1>3, <1>4 DEF Encode

LEMMA EventType ==
  ASSUME NEW s \in Clients \cup {serverSocket}, NEW e \in EventName,
         NEW err \in BOOLEAN
  PROVE  Event(s, e, err) \in EventMsg
  BY DEF Event, EventMsg

LEMMA PostType ==
  ASSUME NEW q \in Seq(EventMsg), NEW m \in EventMsg
  PROVE  Post(q, m) \in Seq(EventMsg)
  BY AppendProperties DEF Post

LEMMA OneType ==
  ASSUME NEW m \in EventMsg
  PROVE  <<m>> \in Seq(EventMsg)
  OBVIOUS

LEMMA PostIfType ==
  ASSUME NEW b, NEW m \in EventMsg
  PROVE  PostIf(b, m) \in Seq(EventMsg)
  BY DEF PostIf

-----------------------------------------------------------------------------
(* Type correctness.                                                       *)

\* While the server lives, it holds the socket of every client in its list: what
\* lets OnRead record an FD_CLOSE.
ListedOpen == sstatus \notin {"exited", "died"} => clients \subseteq sockets

TypeInv == TypeOK /\ ListedOpen

LEMMA PostCloseType ==
  ASSUME NetTypeOK, NEW c \in Clients, NEW err \in BOOLEAN, PostClose(c, err)
  PROVE  /\ srvQ' \in Seq(EventMsg)
         /\ fdClose' \subseteq sockets
  <1>1. Event(c, "FD_CLOSE", err) \in EventMsg
    BY EventType DEF EventName
  <1>2. CASE c \in sockets \ fdClose
    <2>1. /\ srvQ' = Append(srvQ, Event(c, "FD_CLOSE", err))
          /\ fdClose' = fdClose \cup {c}
      BY <1>2 DEF PostClose
    <2>2. srvQ' \in Seq(EventMsg)
      BY <1>1, <2>1, AppendProperties DEF NetTypeOK
    <2> QED  BY <1>2, <2>1, <2>2 DEF NetTypeOK
  <1>3. CASE c \notin sockets \ fdClose
    BY <1>3 DEF PostClose, NetTypeOK
  <1> QED  BY <1>2, <1>3

LEMMA DisconnectType ==
  ASSUME NetTypeOK, NEW c \in Clients, NEW cause \in ResetCause,
         Disconnect(c, cause)
  PROVE  /\ tcp' \in [Clients -> TcpState]
         /\ rst' \in [Clients -> ResetCause]
         /\ srvQ' \in Seq(EventMsg)
         /\ fdClose' \subseteq sockets
         /\ UNCHANGED <<up, down, listening, backlog, sockets>>
  <1>1. tcp' \in [Clients -> TcpState]
    BY DEF Disconnect, NetTypeOK, TcpState
  <1>2. rst' \in [Clients -> ResetCause]
    BY DEF Disconnect, NetTypeOK
  <1>3. \/ PostClose(c, TRUE)
        \/ PostClose(c, FALSE)
        \/ UNCHANGED <<srvQ, fdClose>>
    BY DEF Disconnect
  <1>4. srvQ' \in Seq(EventMsg) /\ fdClose' \subseteq sockets
    BY <1>3, PostCloseType DEF NetTypeOK
  <1> QED  BY <1>1, <1>2, <1>4 DEF Disconnect

LEMMA DiesType ==
  ASSUME TypeInv, NEW c \in Clients, Dies(c), UNCHANGED serverVars
  PROVE  TypeInv'
  <1>1. NetTypeOK /\ ClientTypeOK /\ ServerTypeOK
    BY DEF TypeInv, TypeOK
  <1>2. /\ tcp' \in [Clients -> TcpState]
        /\ rst' \in [Clients -> ResetCause]
        /\ srvQ' \in Seq(EventMsg)
        /\ fdClose' \subseteq sockets
        /\ UNCHANGED <<up, down, listening, backlog, sockets>>
    BY <1>1, DisconnectType DEF Dies, ResetCause
  <1>3. cliQ' \in [Clients -> Seq(EventMsg)]
    BY <1>1 DEF Dies, NetTypeOK
  <1>4. NetTypeOK'
    BY <1>1, <1>2, <1>3 DEF NetTypeOK
  <1>5. ClientTypeOK'
    BY <1>1 DEF Dies, ClientTypeOK, ClientStatus
  <1>6. ServerTypeOK'
    BY <1>1 DEF ServerTypeOK, serverVars
  <1> QED
    BY <1>2, <1>4, <1>5, <1>6 DEF TypeInv, TypeOK, ListedOpen, serverVars

\* What a step adds to one client's queue keeps the queues' type.
LEMMA QueueType ==
  ASSUME NetTypeOK, NEW c \in Clients, NEW e \in EventName, NEW err \in BOOLEAN,
         cliQ' = [cliQ EXCEPT ![c] = Post(@, Event(c, e, err))]
  PROVE  cliQ' \in [Clients -> Seq(EventMsg)]
  <1>1. Event(c, e, err) \in EventMsg
    BY EventType
  <1>2. cliQ[c] \in Seq(EventMsg)
    BY DEF NetTypeOK
  <1>3. Post(cliQ[c], Event(c, e, err)) \in Seq(EventMsg)
    BY <1>1, <1>2, PostType
  <1> QED  BY <1>3 DEF NetTypeOK

LEMMA UserType ==
  ASSUME TypeInv, NEW c \in Clients, User(c), UNCHANGED serverVars
  PROVE  TypeInv'
  <1> USE DEF TypeInv, TypeOK
  <1>1. CASE Dies(c)
    BY <1>1, DiesType
  <1>2. CASE PressC(c) /\ ~Dies(c)
    <2>1. /\ tcp' = [tcp EXCEPT ![c] = "connecting"]
          /\ UNCHANGED <<rst, up, down, listening, backlog, sockets, fdClose,
                         srvQ, cliQ, clientVars>>
      BY <1>2 DEF PressC
    <2>2. NetTypeOK'
      BY <2>1 DEF NetTypeOK, TcpState
    <2>3. ClientTypeOK'
      BY <2>1 DEF ClientTypeOK, clientVars
    <2> QED  BY <2>1, <2>2, <2>3 DEF ServerTypeOK, ListedOpen, serverVars
  <1>3. CASE PressLetter(c) /\ ~Dies(c)
    <2>1. /\ sent[c] < MaxKeys
          /\ send_buf' = [send_buf EXCEPT ![c] = @ \o Encode(sent[c] + 1)]
          /\ sent' = [sent EXCEPT ![c] = @ + 1]
          /\ pc' = [pc EXCEPT ![c] = "write"]
          /\ UNCHANGED <<connected, recv_buf, status, shown, netVars>>
      BY <1>3 DEF PressLetter
    <2>2. sent[c] \in 0..MaxKeys /\ MaxKeys \in Nat /\ send_buf[c] \in Seq(Nat)
      BY MaxKeysAssumption DEF ClientTypeOK
    <2>3. send_buf[c] \o Encode(sent[c] + 1) \in Seq(Nat)
      BY <2>2, EncodeProperties, ConcatProperties
    <2>4. sent[c] + 1 \in 0..MaxKeys
      BY <2>1, <2>2
    <2>5. ClientTypeOK'
      BY <2>1, <2>3, <2>4 DEF ClientTypeOK
    <2>6. NetTypeOK'
      BY <2>1 DEF NetTypeOK, netVars
    <2> QED
      BY <2>1, <2>5, <2>6 DEF ServerTypeOK, ListedOpen, serverVars, netVars
  <1>4. CASE PressEscape(c)
    <2>1. NetTypeOK' /\ UNCHANGED sockets
      <3>1. CASE UNCHANGED <<status, netVars>>
        BY <3>1 DEF NetTypeOK, netVars
      <3> DEFINE cause == IF down[c] # <<>> THEN "unread" ELSE "no"
      <3>2. CASE Disconnect(c, cause) /\ UNCHANGED cliQ
        <4>1. /\ tcp' \in [Clients -> TcpState]
              /\ rst' \in [Clients -> ResetCause]
              /\ srvQ' \in Seq(EventMsg)
              /\ fdClose' \subseteq sockets
              /\ UNCHANGED <<up, down, listening, backlog, sockets>>
          <5>1. cause \in ResetCause
            BY DEF ResetCause
          <5> HIDE DEF cause
          <5> QED  BY <3>2, <5>1, DisconnectType
        <4> QED  BY <3>2, <4>1 DEF NetTypeOK
      <3> QED  BY <1>4, <3>1, <3>2 DEF PressEscape
    <2>2. ClientTypeOK'
      BY <1>4 DEF PressEscape, ClientTypeOK, ClientStatus
    <2> QED  BY <2>1, <2>2 DEF ServerTypeOK, ListedOpen, serverVars
  <1>5. CASE CloseWindow(c)
    <2>1. NetTypeOK'
      BY <1>5 DEF CloseWindow, NetTypeOK, netVars
    <2>2. ClientTypeOK'
      BY <1>5 DEF CloseWindow, ClientTypeOK, ClientStatus
    <2> QED
      BY <1>5, <2>1, <2>2
         DEF CloseWindow, ServerTypeOK, ListedOpen, serverVars, netVars
  <1> QED
    BY <1>1, <1>2, <1>3, <1>4, <1>5 DEF User

LEMMA ClientLoopType ==
  ASSUME TypeInv, NEW c \in Clients, ClientLoop(c), UNCHANGED serverVars
  PROVE  TypeInv'
  <1> USE DEF TypeInv, TypeOK
  <1>1. CASE Dies(c)
    BY <1>1, DiesType
  <1>2. CASE SocketMessage(c) /\ ~Dies(c)
    <2> DEFINE m == Head(cliQ[c])
    <2>1. /\ cliQ[c] # <<>>
          /\ cliQ' = [cliQ EXCEPT ![c] = Tail(@)]
          /\ connected' = [connected EXCEPT ![c] = @ \/ m.event = "FD_CONNECT"]
          /\ pc' = [pc EXCEPT ![c] = IF m.event = "FD_READ" THEN "read" ELSE @]
          /\ UNCHANGED <<recv_buf, send_buf, status, sent, shown, tcp, rst,
                         up, down, listening, backlog, sockets, fdClose, srvQ>>
      BY <1>2 DEF SocketMessage
    <2>2. cliQ[c] \in Seq(EventMsg) /\ connected[c] \in BOOLEAN
      BY DEF NetTypeOK, ClientTypeOK
    <2>3. Tail(cliQ[c]) \in Seq(EventMsg)
      BY <2>1, <2>2, HeadTailProperties
    <2>4. NetTypeOK'
      BY <2>1, <2>3 DEF NetTypeOK
    <2>5. (connected[c] \/ m.event = "FD_CONNECT") \in BOOLEAN
      OBVIOUS
    <2>6. connected' \in [Clients -> BOOLEAN]
      BY <2>1, <2>5, Zenon DEF ClientTypeOK
    <2>7. pc' \in [Clients -> {"loop", "read", "write"}]
      BY <2>1 DEF ClientTypeOK
    <2>8. ClientTypeOK'
      BY <2>1, <2>6, <2>7 DEF ClientTypeOK
    <2> QED
      BY <2>1, <2>4, <2>8 DEF ServerTypeOK, ListedOpen, serverVars
  <1>3. CASE TryToRead(c) /\ ~Dies(c)
    <2>1. CASE down[c] = <<>>
      <3>1. /\ pc' = [pc EXCEPT ![c] = "loop"]
            /\ UNCHANGED <<connected, recv_buf, send_buf, status, sent,
                           shown, netVars>>
        BY <1>3, <2>1, EmptySeq DEF TryToRead, RecvCount
      <3>2. NetTypeOK'
        BY <3>1 DEF NetTypeOK, netVars
      <3>3. ClientTypeOK'
        BY <3>1 DEF ClientTypeOK
      <3> QED
        BY <3>1, <3>2, <3>3 DEF ServerTypeOK, ListedOpen, serverVars, netVars
    <2>2. CASE down[c] # <<>>
      <3>1. PICK k \in RecvCount(down[c], MsgSize - Len(recv_buf[c])) :
              LET buf == recv_buf[c] \o SubSeq(down[c], 1, k)
                  rest == Rest(down[c], k)
              IN  /\ down' = [down EXCEPT ![c] = rest]
                  /\ recv_buf' = [recv_buf EXCEPT ![c] = Unprocessed(buf)]
                  /\ shown' = [shown EXCEPT ![c] = Processed(@, buf)]
                  /\ cliQ' = IF rest = <<>> THEN cliQ
                             ELSE [cliQ EXCEPT
                                    ![c] = Post(@, Event(c, "FD_READ", FALSE))]
        BY <1>3, <2>2 DEF TryToRead
      <3>2. UNCHANGED <<connected, pc, send_buf, status, sent, tcp, rst,
                        up, listening, backlog, sockets, fdClose, srvQ>>
        BY <1>3, <2>2 DEF TryToRead
      <3>3. /\ down[c] \in Seq(Nat) /\ recv_buf[c] \in Seq(Nat)
            /\ shown[c] \in Seq(Seq(Nat)) /\ k \in 1..Len(down[c])
        BY DEF NetTypeOK, ClientTypeOK, RecvCount
      <3> DEFINE buf == recv_buf[c] \o SubSeq(down[c], 1, k)
      <3>4. buf \in Seq(Nat)
        BY <3>3, TakenProperties, ConcatProperties
      <3>5. Unprocessed(buf) \in Seq(Nat)
        BY <3>4 DEF Unprocessed
      <3>6. Processed(shown[c], buf) \in Seq(Seq(Nat))
        BY <3>3, <3>4, AppendProperties DEF Processed
      <3>7. Rest(down[c], k) \in Seq(Nat)
        BY <3>3, RestProperties
      <3>8. cliQ' \in [Clients -> Seq(EventMsg)]
        <4>1. CASE UNCHANGED cliQ
          BY <4>1 DEF NetTypeOK
        <4>2. CASE cliQ' = [cliQ EXCEPT
                             ![c] = Post(@, Event(c, "FD_READ", FALSE))]
          BY <4>2, QueueType DEF EventName
        <4> QED  BY <3>1, <4>1, <4>2
      <3>9. NetTypeOK'
        BY <3>1, <3>2, <3>7, <3>8 DEF NetTypeOK
      <3>10. ClientTypeOK'
        <4> HIDE DEF buf
        <4>1. recv_buf' = [recv_buf EXCEPT ![c] = Unprocessed(buf)]
              /\ shown' = [shown EXCEPT ![c] = Processed(@, buf)]
          BY <3>1 DEF buf
        <4> QED  BY <3>2, <3>5, <3>6, <4>1 DEF ClientTypeOK
      <3> QED
        BY <3>2, <3>9, <3>10 DEF ServerTypeOK, ListedOpen, serverVars
    <2> QED  BY <2>1, <2>2
  <1>4. CASE TryToWrite(c) /\ ~Dies(c)
    <2>1. CASE /\ pc' = [pc EXCEPT ![c] = "loop"]
               /\ UNCHANGED <<connected, recv_buf, send_buf, status, sent,
                              shown, netVars>>
      <3>1. NetTypeOK'
        BY <2>1 DEF NetTypeOK, netVars
      <3>2. ClientTypeOK'
        BY <2>1 DEF ClientTypeOK
      <3> QED
        BY <2>1, <3>1, <3>2 DEF ServerTypeOK, ListedOpen, serverVars, netVars
    <2>2. CASE /\ \E k \in SendCount(send_buf[c], up[c]) :
                    LET rest == Unsent(send_buf[c], k)
                    IN  /\ up' = [up EXCEPT
                                   ![c] = @ \o SubSeq(send_buf[c], 1, k)]
                        /\ send_buf' = [send_buf EXCEPT ![c] = rest]
                        /\ pc' = [pc EXCEPT
                                   ![c] = IF rest = <<>> THEN "loop" ELSE @]
               /\ srvQ' = IF c \in sockets
                          THEN Post(srvQ, Event(c, "FD_READ", FALSE))
                          ELSE srvQ
               /\ UNCHANGED <<connected, recv_buf, status, sent, shown,
                              tcp, rst, down, listening, backlog, sockets,
                              fdClose, cliQ>>
      <3>1. PICK k \in SendCount(send_buf[c], up[c]) :
              /\ up' = [up EXCEPT ![c] = @ \o SubSeq(send_buf[c], 1, k)]
              /\ send_buf' = [send_buf EXCEPT ![c] = Unsent(send_buf[c], k)]
              /\ pc' = [pc EXCEPT ![c] = IF Unsent(send_buf[c], k) = <<>>
                                         THEN "loop" ELSE @]
        BY <2>2
      <3>2. /\ send_buf[c] \in Seq(Nat) /\ up[c] \in Seq(Nat)
            /\ k \in 1..Len(send_buf[c])
        BY DEF NetTypeOK, ClientTypeOK, SendCount
      <3>3. up[c] \o SubSeq(send_buf[c], 1, k) \in Seq(Nat)
        BY <3>2, TakenProperties, ConcatProperties
      <3>4. Unsent(send_buf[c], k) \in Seq(Nat)
        BY <3>2, RestProperties
      <3>5. Event(c, "FD_READ", FALSE) \in EventMsg
        BY EventType DEF EventName
      <3>6. srvQ' \in Seq(EventMsg)
        BY <2>2, <3>5, PostType DEF NetTypeOK
      <3>7. UNCHANGED <<connected, recv_buf, status, sent, shown, tcp, rst,
                        down, listening, backlog, sockets, fdClose, cliQ>>
        BY <2>2
      <3>8. up' \in [Clients -> Seq(Nat)]
        BY <3>1, <3>3 DEF NetTypeOK
      <3>9. NetTypeOK'
        BY <3>6, <3>7, <3>8 DEF NetTypeOK
      <3>10. ClientTypeOK'
        BY <3>1, <3>4, <3>7 DEF ClientTypeOK
      <3> QED
        BY <3>7, <3>9, <3>10 DEF ServerTypeOK, ListedOpen, serverVars
    <2> QED  BY <1>4, <2>1, <2>2 DEF TryToWrite
  <1>5. CASE Quit(c)
    <2>1. /\ tcp' \in [Clients -> TcpState]
          /\ rst' \in [Clients -> ResetCause]
          /\ srvQ' \in Seq(EventMsg)
          /\ fdClose' \subseteq sockets
          /\ UNCHANGED <<up, down, listening, backlog, sockets>>
      BY <1>5, DisconnectType DEF Quit, ResetCause
    <2>2. cliQ' = [cliQ EXCEPT ![c] = <<>>]
      BY <1>5 DEF Quit
    <2>3. cliQ' \in [Clients -> Seq(EventMsg)]
      BY <2>2 DEF NetTypeOK
    <2>4. NetTypeOK'
      BY <2>1, <2>3 DEF NetTypeOK
    <2>5. ClientTypeOK'
      BY <1>5 DEF Quit, ClientTypeOK, ClientStatus
    <2> QED
      BY <2>1, <2>4, <2>5 DEF ServerTypeOK, ListedOpen, serverVars
  <1> QED
    BY <1>1, <1>2, <1>3, <1>4, <1>5 DEF ClientLoop

LEMMA ServerGoneType ==
  ASSUME TypeInv, NEW how \in {"exited", "died"}, ServerGone(how),
         UNCHANGED clientVars
  PROVE  TypeInv'
  <1> USE DEF TypeInv, TypeOK
  <1> DEFINE hit == {c \in Clients : tcp[c] = "up" /\ rst[c] = "no"}
  <1>1. /\ sstatus' = how
        /\ listening' = FALSE
        /\ backlog' = <<>>
        /\ sockets' = {}
        /\ fdClose' = {}
        /\ srvQ' = <<>>
        /\ rst' = [c \in Clients |-> IF c \in hit THEN "server" ELSE rst[c]]
        /\ UNCHANGED <<tcp, up, down, clients, recv_buf_, send_buf_, got>>
    BY DEF ServerGone
  <1>2. cliQ' = [c \in Clients |->
                  IF c \in hit THEN Append(cliQ[c], Event(c, "FD_CLOSE", TRUE))
                               ELSE cliQ[c]]
    BY DEF ServerGone
  <1>3. ASSUME NEW c \in Clients
        PROVE  /\ cliQ[c] \in Seq(EventMsg)
               /\ Append(cliQ[c], Event(c, "FD_CLOSE", TRUE)) \in Seq(EventMsg)
    <2>1. Event(c, "FD_CLOSE", TRUE) \in EventMsg
      BY EventType DEF EventName
    <2>2. cliQ[c] \in Seq(EventMsg)
      BY DEF NetTypeOK
    <2> QED  BY <2>1, <2>2, AppendProperties
  <1>4. cliQ' \in [Clients -> Seq(EventMsg)]
    BY <1>2, <1>3
  <1>5. rst' \in [Clients -> ResetCause]
    BY <1>1 DEF NetTypeOK, ResetCause
  <1>6. backlog' \in Seq(Clients) /\ srvQ' \in Seq(EventMsg)
    BY <1>1, EmptySeq
  <1> HIDE DEF hit
  <1>7. NetTypeOK'
    BY <1>1, <1>4, <1>5, <1>6 DEF NetTypeOK
  <1>8. ServerTypeOK'
    BY <1>1 DEF ServerTypeOK, ServerStatus
  <1> QED
    BY <1>1, <1>7, <1>8 DEF ClientTypeOK, ListedOpen, clientVars

LEMMA AcceptType ==
  ASSUME TypeInv, OnAccept, ~ServerGone("died"), UNCHANGED clientVars
  PROVE  TypeInv'
  <1> USE DEF TypeInv, TypeOK
  <1> DEFINE c == Head(backlog)
             ended == tcp[c] = "closed" /\ CloseDue(c, up[c])
  <1>1. /\ srvQ # <<>>
        /\ backlog # <<>>
        /\ sstatus \in {"running", "quitting"}
        /\ backlog' = Tail(backlog)
        /\ sockets' = sockets \cup {c}
        /\ clients' = clients \cup {c}
        /\ recv_buf_' = [recv_buf_ EXCEPT ![c] = <<>>]
        /\ send_buf_' = [send_buf_ EXCEPT ![c] = Welcome]
        /\ fdClose' = IF ended THEN fdClose \cup {c} ELSE fdClose
        /\ UNCHANGED <<sstatus, got, tcp, rst, up, down, listening, cliQ>>
    BY DEF OnAccept, AcceptFails, Handling, Dispatching
  <1>2. srvQ' = Tail(srvQ)
           \o <<Event(c, "FD_WRITE", FALSE)>>
           \o PostIf(up[c] # <<>>, Event(c, "FD_READ", FALSE))
           \o PostIf(ended, Event(c, "FD_CLOSE", FALSE))
           \o PostIf(Tail(backlog) # <<>>,
                     Event(serverSocket, "FD_ACCEPT", FALSE))
    BY DEF OnAccept
  <1>3. c \in Clients /\ Tail(backlog) \in Seq(Clients)
    BY <1>1, HeadTailProperties DEF NetTypeOK
  <1>4. Tail(srvQ) \in Seq(EventMsg)
    BY <1>1, HeadTailProperties DEF NetTypeOK
  <1> HIDE DEF c, ended
  <1>5. /\ Event(c, "FD_WRITE", FALSE) \in EventMsg
        /\ Event(c, "FD_READ", FALSE) \in EventMsg
        /\ Event(c, "FD_CLOSE", FALSE) \in EventMsg
        /\ Event(serverSocket, "FD_ACCEPT", FALSE) \in EventMsg
    BY <1>3, EventType DEF EventName
  <1>6. /\ <<Event(c, "FD_WRITE", FALSE)>> \in Seq(EventMsg)
        /\ PostIf(up[c] # <<>>, Event(c, "FD_READ", FALSE)) \in Seq(EventMsg)
        /\ PostIf(ended, Event(c, "FD_CLOSE", FALSE)) \in Seq(EventMsg)
        /\ PostIf(Tail(backlog) # <<>>,
                  Event(serverSocket, "FD_ACCEPT", FALSE)) \in Seq(EventMsg)
    <2>1. <<Event(c, "FD_WRITE", FALSE)>> \in Seq(EventMsg)
      BY <1>5, OneType
    <2> QED  BY <1>5, <2>1, PostIfType
  <1>7. srvQ' \in Seq(EventMsg)
    BY <1>2, <1>4, <1>6, ConcatProperties
  <1>8. NetTypeOK'
    BY <1>1, <1>3, <1>7 DEF NetTypeOK
  <1>9. Welcome \in Seq(Nat)
    BY EncodeProperties DEF Welcome
  <1>10. ServerTypeOK'
    BY <1>1, <1>3, <1>9 DEF ServerTypeOK
  <1>11. ClientTypeOK'
    BY DEF ClientTypeOK, clientVars
  <1> QED
    BY <1>1, <1>8, <1>10, <1>11 DEF ListedOpen

LEMMA ReadType ==
  ASSUME TypeInv, OnRead, UNCHANGED clientVars
  PROVE  TypeInv'
  <1> USE DEF TypeInv, TypeOK
  <1> DEFINE c == Head(srvQ).sock
  <1>1. /\ srvQ # <<>>
        /\ c \in clients
        /\ sstatus \in {"running", "quitting"}
        /\ UNCHANGED <<sstatus, clients, send_buf_, tcp, rst, down, listening,
                       backlog, sockets, cliQ>>
    BY DEF OnRead, Handling, Dispatching, Listed
  <1>2. c \in Clients /\ c \in sockets
    BY <1>1 DEF ServerTypeOK, NetTypeOK, ListedOpen
  <1>3. Tail(srvQ) \in Seq(EventMsg)
    BY <1>1, HeadTailProperties DEF NetTypeOK
  <1>4. CASE srvQ' = Tail(srvQ) /\ UNCHANGED <<up, fdClose, recv_buf_, got>>
    <2>1. NetTypeOK'
      BY <1>1, <1>3, <1>4 DEF NetTypeOK
    <2>2. ServerTypeOK'
      BY <1>1, <1>4 DEF ServerTypeOK
    <2> QED
      BY <1>1, <2>1, <2>2 DEF ClientTypeOK, ListedOpen, clientVars
  <1>5. CASE \E k \in RecvCount(up[c], MsgSize - Len(recv_buf_[c])) :
               LET buf == recv_buf_[c] \o SubSeq(up[c], 1, k)
                   rest == Rest(up[c], k)
                   ended == /\ tcp[c] = "closed"
                            /\ c \notin fdClose
                            /\ CloseDue(c, rest)
               IN  /\ up' = [up EXCEPT ![c] = rest]
                   /\ recv_buf_' = [recv_buf_ EXCEPT ![c] = Unread(buf)]
                   /\ got' = [got EXCEPT ![c] = Received(@, buf)]
                   /\ fdClose' = IF ended THEN fdClose \cup {c} ELSE fdClose
                   /\ srvQ' = Tail(srvQ)
                        \o PostIf(rest # <<>>, Event(c, "FD_READ", FALSE))
                        \o PostIf(ended, Event(c, "FD_CLOSE", FALSE))
    <2>1. PICK k \in RecvCount(up[c], MsgSize - Len(recv_buf_[c])) :
            LET buf == recv_buf_[c] \o SubSeq(up[c], 1, k)
                rest == Rest(up[c], k)
                ended == /\ tcp[c] = "closed"
                         /\ c \notin fdClose
                         /\ CloseDue(c, rest)
            IN  /\ up' = [up EXCEPT ![c] = rest]
                /\ recv_buf_' = [recv_buf_ EXCEPT ![c] = Unread(buf)]
                /\ got' = [got EXCEPT ![c] = Received(@, buf)]
                /\ fdClose' = IF ended THEN fdClose \cup {c} ELSE fdClose
                /\ srvQ' = Tail(srvQ)
                     \o PostIf(rest # <<>>, Event(c, "FD_READ", FALSE))
                     \o PostIf(ended, Event(c, "FD_CLOSE", FALSE))
      BY <1>5
    <2> DEFINE buf == recv_buf_[c] \o SubSeq(up[c], 1, k)
               rest == Rest(up[c], k)
               ended == /\ tcp[c] = "closed"
                        /\ c \notin fdClose
                        /\ CloseDue(c, rest)
    <2>2. /\ up[c] \in Seq(Nat) /\ recv_buf_[c] \in Seq(Nat)
          /\ got[c] \in Seq(Seq(Nat)) /\ k \in 1..Len(up[c])
      BY <1>2 DEF NetTypeOK, ServerTypeOK, RecvCount
    <2>3. buf \in Seq(Nat)
      BY <2>2, TakenProperties, ConcatProperties
    <2>4. Unread(buf) \in Seq(Nat)
      BY <2>3 DEF Unread
    <2>5. Received(got[c], buf) \in Seq(Seq(Nat))
      BY <2>2, <2>3, AppendProperties DEF Received
    <2>6. rest \in Seq(Nat)
      BY <2>2, RestProperties
    <2>7. /\ Event(c, "FD_READ", FALSE) \in EventMsg
          /\ Event(c, "FD_CLOSE", FALSE) \in EventMsg
      BY <1>2, EventType DEF EventName
    <2> HIDE DEF c, buf, rest, ended
    <2>8. /\ up' = [up EXCEPT ![c] = rest]
          /\ recv_buf_' = [recv_buf_ EXCEPT ![c] = Unread(buf)]
          /\ got' = [got EXCEPT ![c] = Received(@, buf)]
          /\ fdClose' = IF ended THEN fdClose \cup {c} ELSE fdClose
          /\ srvQ' = Tail(srvQ)
               \o PostIf(rest # <<>>, Event(c, "FD_READ", FALSE))
               \o PostIf(ended, Event(c, "FD_CLOSE", FALSE))
      BY <2>1 DEF c, buf, rest, ended
    <2>9. /\ PostIf(rest # <<>>, Event(c, "FD_READ", FALSE)) \in Seq(EventMsg)
          /\ PostIf(ended, Event(c, "FD_CLOSE", FALSE)) \in Seq(EventMsg)
      BY <2>7, PostIfType
    <2>10. srvQ' \in Seq(EventMsg)
      BY <1>3, <2>8, <2>9, ConcatProperties
    <2>11. up' \in [Clients -> Seq(Nat)] /\ fdClose' \subseteq sockets
      BY <1>2, <2>6, <2>8 DEF NetTypeOK
    <2>12. NetTypeOK'
      BY <1>1, <2>10, <2>11 DEF NetTypeOK
    <2>13. ServerTypeOK'
      BY <1>1, <2>4, <2>5, <2>8 DEF ServerTypeOK
    <2> QED
      BY <1>1, <2>12, <2>13 DEF ClientTypeOK, ListedOpen, clientVars
  <1> QED  BY <1>4, <1>5 DEF OnRead

LEMMA WriteType ==
  ASSUME TypeInv, OnWrite, UNCHANGED clientVars
  PROVE  TypeInv'
  <1> USE DEF TypeInv, TypeOK
  <1> DEFINE c == Head(srvQ).sock
  <1>1. /\ srvQ # <<>>
        /\ c \in clients
        /\ srvQ' = Tail(srvQ)
        /\ UNCHANGED <<sstatus, clients, recv_buf_, got, tcp, rst, up,
                       listening, backlog, sockets, fdClose>>
    BY DEF OnWrite, Handling, Dispatching, Listed
  <1>2. c \in Clients
    BY <1>1 DEF ServerTypeOK
  <1>3. srvQ' \in Seq(EventMsg)
    BY <1>1, HeadTailProperties DEF NetTypeOK
  <1>4. CASE UNCHANGED <<send_buf_, down, cliQ>>
    <2>1. NetTypeOK'
      BY <1>1, <1>3, <1>4 DEF NetTypeOK
    <2>2. ServerTypeOK'
      BY <1>1, <1>4 DEF ServerTypeOK
    <2> QED
      BY <1>1, <2>1, <2>2 DEF ClientTypeOK, ListedOpen, clientVars
  <1>5. CASE /\ \E k \in SendCount(send_buf_[c], down[c]) :
                  /\ down' = [down EXCEPT
                               ![c] = @ \o SubSeq(send_buf_[c], 1, k)]
                  /\ send_buf_' = [send_buf_ EXCEPT ![c] = Unsent(@, k)]
             /\ cliQ' = IF tcp[c] = "up"
                        THEN [cliQ EXCEPT
                               ![c] = Post(@, Event(c, "FD_READ", FALSE))]
                        ELSE cliQ
    <2>1. PICK k \in SendCount(send_buf_[c], down[c]) :
            /\ down' = [down EXCEPT ![c] = @ \o SubSeq(send_buf_[c], 1, k)]
            /\ send_buf_' = [send_buf_ EXCEPT ![c] = Unsent(@, k)]
      BY <1>5
    <2>2. /\ down[c] \in Seq(Nat) /\ send_buf_[c] \in Seq(Nat)
          /\ k \in 1..Len(send_buf_[c])
      BY <1>2 DEF NetTypeOK, ServerTypeOK, SendCount
    <2>3. down[c] \o SubSeq(send_buf_[c], 1, k) \in Seq(Nat)
      BY <2>2, TakenProperties, ConcatProperties
    <2>4. Unsent(send_buf_[c], k) \in Seq(Nat)
      BY <2>2, RestProperties
    <2>5. cliQ' \in [Clients -> Seq(EventMsg)]
      <3>1. CASE UNCHANGED cliQ
        BY <3>1 DEF NetTypeOK
      <3>2. CASE cliQ' = [cliQ EXCEPT
                           ![c] = Post(@, Event(c, "FD_READ", FALSE))]
        BY <1>2, <3>2, QueueType DEF EventName
      <3> QED  BY <1>5, <3>1, <3>2
    <2>6. down' \in [Clients -> Seq(Nat)]
      BY <2>1, <2>3 DEF NetTypeOK
    <2>7. NetTypeOK'
      BY <1>1, <1>3, <2>5, <2>6 DEF NetTypeOK
    <2>8. ServerTypeOK'
      BY <1>1, <2>1, <2>4 DEF ServerTypeOK
    <2> QED
      BY <1>1, <2>7, <2>8 DEF ClientTypeOK, ListedOpen, clientVars
  <1> QED  BY <1>4, <1>5 DEF OnWrite

LEMMA ServerType ==
  ASSUME TypeInv, StartListening \/ ServerLoop \/ ServerUser,
         UNCHANGED clientVars
  PROVE  TypeInv'
  <1> USE DEF TypeInv, TypeOK
  <1>1. CASE ServerGone("died") \/ ServerGone("exited")
    BY <1>1, ServerGoneType
  <1>2. CASE OnAccept /\ ~ServerGone("died")
    BY <1>2, AcceptType
  <1>3. CASE OnRead
    BY <1>3, ReadType
  <1>4. CASE OnWrite
    BY <1>4, WriteType
  <1>5. CASE OnClose
    <2>1. /\ srvQ # <<>>
          /\ clients' = clients \ {Head(srvQ).sock}
          /\ srvQ' = Tail(srvQ)
          /\ UNCHANGED <<sstatus, recv_buf_, send_buf_, got, tcp, rst, up, down,
                         listening, backlog, sockets, fdClose, cliQ>>
      BY <1>5 DEF OnClose, Handling, Dispatching, RemoveClient
    <2>2. srvQ' \in Seq(EventMsg)
      BY <2>1, HeadTailProperties DEF NetTypeOK
    <2>3. NetTypeOK'
      BY <2>1, <2>2 DEF NetTypeOK
    <2>4. ServerTypeOK'
      BY <2>1 DEF ServerTypeOK
    <2> QED
      BY <2>1, <2>3, <2>4 DEF ClientTypeOK, ListedOpen, clientVars
  <1>6. CASE OnStray
    <2>1. /\ srvQ # <<>>
          /\ srvQ' = Tail(srvQ)
          /\ UNCHANGED <<serverVars, tcp, rst, up, down, listening, backlog,
                         sockets, fdClose, cliQ>>
      BY <1>6 DEF OnStray, Dispatching
    <2>2. srvQ' \in Seq(EventMsg)
      BY <2>1, HeadTailProperties DEF NetTypeOK
    <2>3. NetTypeOK'
      BY <2>1, <2>2 DEF NetTypeOK
    <2> QED
      BY <2>1, <2>3
         DEF ClientTypeOK, ServerTypeOK, ListedOpen, clientVars, serverVars
  <1>7. CASE StartListening
    <2>1. NetTypeOK'
      BY <1>7 DEF StartListening, NetTypeOK
    <2>2. ServerTypeOK'
      BY <1>7 DEF StartListening, ServerTypeOK, ServerStatus
    <2>3. ListedOpen'
      BY <1>7 DEF StartListening, ListedOpen
    <2> QED  BY <2>1, <2>2, <2>3 DEF ClientTypeOK, clientVars
  <1>8. CASE ServerUser
    <2>1. NetTypeOK'
      BY <1>8 DEF ServerUser, NetTypeOK, netVars
    <2>2. ServerTypeOK'
      BY <1>8 DEF ServerUser, ServerTypeOK, ServerStatus
    <2> QED
      BY <1>8, <2>1, <2>2
         DEF ServerUser, ClientTypeOK, ListedOpen, clientVars, netVars
  <1> QED
    BY <1>1, <1>2, <1>3, <1>4, <1>5, <1>6, <1>7, <1>8
       DEF ServerLoop, OnError, ServerQuit

LEMMA NetType ==
  ASSUME TypeInv, NEW c \in Clients, NetStep(c),
         UNCHANGED <<clientVars, serverVars>>
  PROVE  TypeInv'
  <1> USE DEF TypeInv, TypeOK
  <1>1. UNCHANGED sockets
    BY DEF NetStep, Establish, Refuse, ResetArrives
  <1>2. NetTypeOK'
    <2>1. CASE Establish(c)
      <3>1. cliQ' \in [Clients -> Seq(EventMsg)]
        BY <2>1, QueueType DEF Establish, EventName
      <3>2. srvQ' \in Seq(EventMsg)
        <4>1. Event(serverSocket, "FD_ACCEPT", FALSE) \in EventMsg
          BY EventType DEF EventName
        <4> QED  BY <2>1, <4>1, PostType DEF Establish, NetTypeOK
      <3>3. backlog' \in Seq(Clients)
        BY <2>1, AppendProperties DEF Establish, NetTypeOK
      <3>4. /\ tcp' = [tcp EXCEPT ![c] = "up"]
            /\ UNCHANGED <<rst, up, down, listening, sockets, fdClose>>
        BY <2>1 DEF Establish
      <3> QED  BY <3>1, <3>2, <3>3, <3>4 DEF NetTypeOK, TcpState
    <2>2. CASE Refuse(c)
      <3>1. cliQ' \in [Clients -> Seq(EventMsg)]
        BY <2>2, QueueType DEF Refuse, EventName
      <3> QED  BY <2>2, <3>1 DEF Refuse, NetTypeOK, TcpState
    <2>3. CASE ResetArrives(c)
      <3>1. srvQ' \in Seq(EventMsg) /\ fdClose' \subseteq sockets
        BY <2>3, PostCloseType DEF ResetArrives
      <3> QED  BY <2>3, <3>1 DEF ResetArrives, NetTypeOK, ResetCause
    <2> QED  BY <2>1, <2>2, <2>3 DEF NetStep
  <1> QED
    BY <1>1, <1>2
       DEF ClientTypeOK, ServerTypeOK, ListedOpen, clientVars, serverVars

LEMMA TypeInit == Init => TypeInv
  <1> SUFFICES ASSUME Init PROVE TypeInv
    OBVIOUS
  <1>1. NetTypeOK
    BY EmptySeq DEF Init, NetInit, NetTypeOK, TcpState, ResetCause
  <1>2. ClientTypeOK
    BY EmptySeq, MaxKeysAssumption
       DEF Init, ClientInit, ClientTypeOK, ClientStatus
  <1>3. ServerTypeOK
    BY EmptySeq DEF Init, ServerInit, ServerTypeOK, ServerStatus
  <1>4. ListedOpen
    BY DEF Init, ServerInit, ListedOpen
  <1> QED  BY <1>1, <1>2, <1>3, <1>4 DEF TypeInv, TypeOK

LEMMA TypeStep == TypeInv /\ [Next]_vars => TypeInv'
  <1> SUFFICES ASSUME TypeInv, [Next]_vars PROVE TypeInv'
    OBVIOUS
  <1>1. ASSUME NEW c \in Clients, ClientStep(c)  PROVE TypeInv'
    BY <1>1, UserType, ClientLoopType DEF ClientStep
  <1>2. ASSUME NEW c \in Clients, WinSock(c)  PROVE TypeInv'
    BY <1>2, NetType DEF WinSock
  <1>3. CASE ServerStep
    BY <1>3, ServerType DEF ServerStep
  <1>4. CASE UNCHANGED vars
    BY <1>4 DEF vars, netVars, clientVars, serverVars, TypeInv, TypeOK,
                NetTypeOK, ClientTypeOK, ServerTypeOK, ListedOpen
  <1> QED  BY <1>1, <1>2, <1>3, <1>4 DEF Next

\* Every reachable state is well typed: the invariant of every run.
THEOREM TypeCorrect == Spec => []TypeOK
  <1>1. TypeInv => TypeOK
    BY DEF TypeInv
  <1> QED  BY <1>1, TypeInit, TypeStep, PTL DEF Spec

-----------------------------------------------------------------------------
(* The stream of keypresses.                                               *)

Bytes(n) == n * MsgSize

\* s holds the bytes of a stream that follow the first n.
Continues(s, n) == \A j \in 1..Len(s) : s[j] = n + j

\* A client has sent n messages; sb, u and rb are its send_buf, what TCP holds
\* of it, and its recv_buf_ at the server; g is what the server has processed.
StreamOf(n, sb, u, rb, g) ==
  /\ Len(rb) < MsgSize
  /\ Continues(rb, Bytes(Len(g)))
  /\ Continues(u, Bytes(Len(g)) + Len(rb))
  /\ Continues(sb, Bytes(Len(g)) + Len(rb) + Len(u))
  /\ Bytes(Len(g)) + Len(rb) + Len(u) + Len(sb) = Bytes(n)
  /\ \A k \in 1..Len(g) : g[k] = Encode(k)

StreamInv ==
  \A c \in Clients :
    StreamOf(sent[c], send_buf[c], up[c], recv_buf_[c], got[c])

LEMMA BytesProperties ==
  ASSUME NEW n \in Nat
  PROVE  /\ Bytes(n) \in Nat
         /\ Bytes(n + 1) = Bytes(n) + MsgSize
         /\ \A m \in Nat : m > n => Bytes(m) >= Bytes(n) + MsgSize
  <1> MsgSize \in Nat \ {0}  BY NetAssumption
  <1>1. Bytes(n) \in Nat /\ Bytes(n + 1) = Bytes(n) + MsgSize
    BY DEF Bytes
  <1>2. ASSUME NEW m \in Nat, m > n
        PROVE  Bytes(m) >= Bytes(n) + MsgSize
    <2>1. PICK d \in Nat : m = n + 1 + d
      <3>1. m - n - 1 \in Nat /\ m = n + 1 + (m - n - 1)
        BY <1>2
      <3> QED  BY <3>1
    <2>2. m * MsgSize = n * MsgSize + MsgSize + d * MsgSize
      BY <2>1
    <2>3. d * MsgSize \in Nat
      OBVIOUS
    <2> QED  BY <2>2, <2>3, <1>1 DEF Bytes
  <1> QED  BY <1>1, <1>2

\* No more messages are processed than were sent.
LEMMA NotAhead ==
  ASSUME NEW n \in Nat, NEW sb \in Seq(Nat), NEW u \in Seq(Nat),
         NEW rb \in Seq(Nat), NEW g \in Seq(Seq(Nat)), StreamOf(n, sb, u, rb, g)
  PROVE  /\ Len(g) <= n
         /\ Len(rb) + Len(u) + Len(sb) >= MsgSize => Len(g) < n
  <1>1. /\ Len(g) \in Nat /\ Len(rb) \in Nat /\ Len(u) \in Nat
        /\ Len(sb) \in Nat /\ MsgSize \in Nat \ {0}
    BY NetAssumption
  <1>2. /\ Bytes(n) \in Nat /\ Bytes(Len(g)) \in Nat
        /\ Len(g) > n => Bytes(Len(g)) >= Bytes(n) + MsgSize
    BY <1>1, BytesProperties
  <1>3. Bytes(Len(g)) + Len(rb) + Len(u) + Len(sb) = Bytes(n)
    BY DEF StreamOf
  <1>4. ~(Len(g) > n)
    BY <1>1, <1>2, <1>3
  <1>5. Len(g) = n => Bytes(Len(g)) = Bytes(n)
    OBVIOUS
  <1>6. Len(rb) + Len(u) + Len(sb) >= MsgSize => Len(g) # n
    BY <1>1, <1>2, <1>3, <1>5
  <1> QED  BY <1>1, <1>4, <1>6

\* Two pieces of a stream in a row are one.
LEMMA ContinuesConcat ==
  ASSUME NEW s \in Seq(Nat), NEW t \in Seq(Nat), NEW n \in Nat,
         Continues(s, n), Continues(t, n + Len(s))
  PROVE  Continues(s \o t, n)
  <1>1. /\ Len(s \o t) = Len(s) + Len(t)
        /\ \A i \in 1..(Len(s) + Len(t)) :
             (s \o t)[i] = IF i <= Len(s) THEN s[i] ELSE t[i - Len(s)]
    BY ConcatProperties
  <1> QED  BY <1>1 DEF Continues

\* The buffers on the way hold exactly what is sent and not yet processed.
LEMMA StreamWhole ==
  ASSUME NEW n \in Nat, NEW sb \in Seq(Nat), NEW u \in Seq(Nat),
         NEW rb \in Seq(Nat), NEW g \in Seq(Seq(Nat)), StreamOf(n, sb, u, rb, g)
  PROVE  /\ rb \o u \o sb \in Seq(Nat)
         /\ Len(rb \o u \o sb) = (n - Len(g)) * MsgSize
         /\ Continues(rb \o u \o sb, Bytes(Len(g)))
  <1> DEFINE t == rb \o u
             from == Bytes(Len(g))
  <1>1. /\ Len(g) \in Nat /\ Len(rb) \in Nat /\ Len(u) \in Nat
        /\ Len(sb) \in Nat /\ MsgSize \in Nat
    BY NetAssumption
  <1>2. Bytes(n) \in Nat /\ from \in Nat
    BY <1>1, BytesProperties
  <1>3. t \in Seq(Nat) /\ Len(t) = Len(rb) + Len(u)
    BY ConcatProperties
  <1>4. Continues(t, from)
    BY <1>2, ContinuesConcat DEF StreamOf
  <1> HIDE DEF t, from
  <1>5. from + Len(t) = from + Len(rb) + Len(u)
    BY <1>1, <1>2, <1>3
  <1>6. Continues(sb, from + Len(t))
    BY <1>5 DEF StreamOf, from
  <1>7. t \o sb \in Seq(Nat) /\ Len(t \o sb) = Len(rb) + Len(u) + Len(sb)
    <2>1. t \o sb \in Seq(Nat) /\ Len(t \o sb) = Len(t) + Len(sb)
      BY <1>3, ConcatProperties
    <2> QED  BY <1>1, <1>3, <2>1
  <1>8. Continues(t \o sb, from)
    BY <1>2, <1>3, <1>4, <1>6, ContinuesConcat
  <1>9. from + Len(rb) + Len(u) + Len(sb) = Bytes(n)
    BY DEF StreamOf, from
  <1>10. Bytes(n) - from = (n - Len(g)) * MsgSize
    BY <1>1 DEF Bytes, from
  <1>11. Len(t \o sb) = (n - Len(g)) * MsgSize
    <2>1. Len(t \o sb) = Bytes(n) - from
      BY <1>1, <1>2, <1>7, <1>9
    <2> QED  BY <1>10, <2>1
  <1> QED  BY <1>7, <1>8, <1>11 DEF t, from

\* A piece of a stream, cut in two.
LEMMA ContinuesCut ==
  ASSUME NEW s \in Seq(Nat), NEW k \in 1..Len(s), NEW n \in Nat,
         Continues(s, n)
  PROVE  /\ Continues(SubSeq(s, 1, k), n)
         /\ Continues(Rest(s, k), n + k)
         /\ Continues(Unsent(s, k), n + k)
  <1>1. Continues(SubSeq(s, 1, k), n)
    BY TakenProperties DEF Continues
  <1>2. Continues(Rest(s, k), n + k)
    <2>1. /\ Len(Rest(s, k)) = Len(s) - k
          /\ \A i \in 1..(Len(s) - k) : Rest(s, k)[i] = s[k + i]
      BY RestProperties
    <2>2. ASSUME NEW i \in 1..(Len(s) - k)  PROVE s[k + i] = n + k + i
      <3>1. k + i \in 1..Len(s)
        OBVIOUS
      <3> QED  BY <3>1 DEF Continues
    <2> QED  BY <2>1, <2>2 DEF Continues
  <1> QED  BY <1>1, <1>2, RestProperties

\* sendMessage() puts a message behind what is in send_buf.
LEMMA StreamSend ==
  ASSUME NEW n \in Nat, NEW sb \in Seq(Nat), NEW u \in Seq(Nat),
         NEW rb \in Seq(Nat), NEW g \in Seq(Seq(Nat)), StreamOf(n, sb, u, rb, g)
  PROVE  StreamOf(n + 1, sb \o Encode(n + 1), u, rb, g)
  <1>1. /\ Encode(n + 1) \in Seq(Nat)
        /\ Len(Encode(n + 1)) = MsgSize
        /\ \A j \in 1..MsgSize : Encode(n + 1)[j] = (n + 1 - 1) * MsgSize + j
    <2>1. n + 1 \in Nat \ {0}
      OBVIOUS
    <2> QED  BY <2>1, EncodeProperties
  <1>2. Continues(Encode(n + 1), Bytes(n))
    BY <1>1 DEF Continues, Bytes
  <1>3. Bytes(n) \in Nat /\ Bytes(Len(g)) \in Nat
        /\ Bytes(n + 1) = Bytes(n) + MsgSize
    BY BytesProperties
  <1> DEFINE from == Bytes(Len(g)) + Len(rb) + Len(u)
  <1>4. from \in Nat /\ from + Len(sb) = Bytes(n)
    BY <1>3 DEF StreamOf
  <1>5. Continues(sb \o Encode(n + 1), from)
    BY <1>1, <1>2, <1>4, ContinuesConcat DEF StreamOf
  <1>6. Len(sb \o Encode(n + 1)) = Len(sb) + MsgSize
    BY <1>1, ConcatProperties
  <1> QED
    <2>1. MsgSize \in Nat
      BY NetAssumption
    <2> QED  BY <1>3, <1>4, <1>5, <1>6, <2>1 DEF StreamOf

\* send() takes the first k bytes of send_buf.
LEMMA StreamWrite ==
  ASSUME NEW n \in Nat, NEW sb \in Seq(Nat), NEW u \in Seq(Nat),
         NEW rb \in Seq(Nat), NEW g \in Seq(Seq(Nat)), StreamOf(n, sb, u, rb, g),
         NEW k \in 1..Len(sb)
  PROVE  StreamOf(n, Unsent(sb, k), u \o SubSeq(sb, 1, k), rb, g)
  <1> DEFINE from == Bytes(Len(g)) + Len(rb)
  <1>1. Bytes(n) \in Nat /\ from \in Nat
    <2>1. Len(g) \in Nat /\ Len(rb) \in Nat
      OBVIOUS
    <2>2. Bytes(n) \in Nat /\ Bytes(Len(g)) \in Nat
      BY <2>1, BytesProperties
    <2> QED  BY <2>1, <2>2
  <1>2. /\ Continues(SubSeq(sb, 1, k), from + Len(u))
        /\ Continues(Unsent(sb, k), from + Len(u) + k)
    BY <1>1, ContinuesCut DEF StreamOf
  <1>3. /\ SubSeq(sb, 1, k) \in Seq(Nat)
        /\ Len(SubSeq(sb, 1, k)) = k
        /\ Len(Unsent(sb, k)) = Len(sb) - k
    BY TakenProperties, RestProperties
  <1>4. Continues(u \o SubSeq(sb, 1, k), from)
    BY <1>1, <1>2, <1>3, ContinuesConcat DEF StreamOf
  <1>5. Len(u \o SubSeq(sb, 1, k)) = Len(u) + k
    BY <1>3, ConcatProperties
  <1>6. from + Len(u) + k = from + Len(u \o SubSeq(sb, 1, k))
    BY <1>1, <1>5
  <1>7. from + Len(u \o SubSeq(sb, 1, k)) + Len(Unsent(sb, k)) = Bytes(n)
    <2>1. Len(u) \in Nat /\ Len(sb) \in Nat /\ k \in Nat
      OBVIOUS
    <2>2. from + (Len(u) + k) + (Len(sb) - k) = from + Len(u) + Len(sb)
      BY <1>1, <2>1
    <2> QED  BY <1>3, <1>5, <2>2 DEF StreamOf
  <1> QED  BY <1>2, <1>4, <1>6, <1>7 DEF StreamOf

\* recv() takes k bytes, and a complete message is processed.
LEMMA StreamRead ==
  ASSUME NEW n \in Nat, NEW sb \in Seq(Nat), NEW u \in Seq(Nat),
         NEW rb \in Seq(Nat), NEW g \in Seq(Seq(Nat)), StreamOf(n, sb, u, rb, g),
         NEW k \in RecvCount(u, MsgSize - Len(rb))
  PROVE  LET buf == rb \o SubSeq(u, 1, k)
         IN  StreamOf(n, sb, Rest(u, k), Unread(buf), Received(g, buf))
  <1> DEFINE buf == rb \o SubSeq(u, 1, k)
             from == Bytes(Len(g))
  <1>1. k \in 1..Len(u) /\ k <= MsgSize - Len(rb) /\ MsgSize \in Nat \ {0}
    BY NetAssumption DEF RecvCount
  <1>2. /\ Bytes(n) \in Nat /\ from \in Nat
        /\ Bytes(Len(g) + 1) = from + MsgSize
    BY BytesProperties
  <1>3. /\ Continues(SubSeq(u, 1, k), from + Len(rb))
        /\ Continues(Rest(u, k), from + Len(rb) + k)
    <2>1. from + Len(rb) \in Nat
      <3>1. Len(rb) \in Nat
        OBVIOUS
      <3> QED  BY <1>2, <3>1
    <2>2. Continues(u, from + Len(rb))
      BY DEF StreamOf
    <2> QED  BY <1>1, <2>1, <2>2, ContinuesCut
  <1>4. /\ SubSeq(u, 1, k) \in Seq(Nat)
        /\ Len(SubSeq(u, 1, k)) = k
        /\ Len(Rest(u, k)) = Len(u) - k
    BY <1>1, TakenProperties, RestProperties
  <1>5. buf \in Seq(Nat) /\ Len(buf) = Len(rb) + k
    BY <1>4, ConcatProperties
  <1>6. Continues(buf, from)
    BY <1>2, <1>3, <1>4, ContinuesConcat DEF StreamOf
  <1> HIDE DEF buf
  <1>7. CASE Len(buf) # MsgSize
    <2>1. Unread(buf) = buf /\ Received(g, buf) = g
      BY <1>7 DEF Unread, Received
    <2>2. from + Len(rb) + k = from + Len(buf) /\ Len(buf) < MsgSize
      <3>1. Len(rb) \in Nat /\ Len(u) \in Nat
        OBVIOUS
      <3>2. k \in Nat
        BY <1>1, <3>1
      <3>3. Len(buf) = Len(rb) + k
        BY <1>5
      <3>4. from + Len(rb) + k = from + Len(buf)
        BY <1>2, <3>1, <3>2, <3>3
      <3>5. Len(rb) + k <= MsgSize
        BY <1>1, <3>1, <3>2
      <3>6. Len(rb) + k # MsgSize
        BY <1>7, <3>3
      <3>7. Len(rb) + k < MsgSize
        <4>1. ASSUME NEW x \in Nat, NEW y \in Nat, x <= y, x # y
              PROVE  x < y
          BY <4>1
        <4>2. Len(rb) + k \in Nat /\ MsgSize \in Nat
          BY <1>1, <3>1, <3>2
        <4> QED  BY <3>5, <3>6, <4>1, <4>2
      <3> QED  BY <3>3, <3>4, <3>7
    <2>3. StreamOf(n, sb, Rest(u, k), buf, g)
      <3>1. Continues(Rest(u, k), from + Len(buf))
        BY <1>3, <2>2
      <3>2. from + Len(buf) + Len(Rest(u, k)) = from + Len(rb) + Len(u)
        BY <1>1, <1>2, <1>4, <1>5
      <3>3. Continues(sb, from + Len(buf) + Len(Rest(u, k)))
        BY <3>2 DEF StreamOf
      <3> QED  BY <1>6, <2>2, <3>1, <3>2, <3>3 DEF StreamOf
    <2> QED  BY <2>1, <2>3 DEF buf
  <1>8. CASE Len(buf) = MsgSize
    <2>1. Unread(buf) = <<>> /\ Received(g, buf) = Append(g, buf)
      BY <1>8 DEF Unread, Received
    <2>2. /\ Len(Append(g, buf)) = Len(g) + 1
          /\ \A i \in 1..Len(g) : Append(g, buf)[i] = g[i]
          /\ Append(g, buf)[Len(g) + 1] = buf
      BY <1>5, AppendProperties
    <2>3. buf = Encode(Len(g) + 1)
      <3>1. /\ Encode(Len(g) + 1) \in Seq(Nat)
            /\ Len(Encode(Len(g) + 1)) = MsgSize
            /\ \A j \in 1..MsgSize :
                 Encode(Len(g) + 1)[j] = (Len(g) + 1 - 1) * MsgSize + j
        <4>1. Len(g) + 1 \in Nat \ {0}
          OBVIOUS
        <4> QED  BY <4>1, EncodeProperties
      <3>2. \A j \in 1..MsgSize : buf[j] = from + j
        BY <1>6, <1>8 DEF Continues
      <3>3. from = (Len(g) + 1 - 1) * MsgSize
        <4>1. Len(g) \in Nat /\ Len(g) + 1 - 1 = Len(g)
          OBVIOUS
        <4> QED  BY <4>1 DEF Bytes
      <3>4. \A j \in 1..MsgSize : Encode(Len(g) + 1)[j] = buf[j]
        BY <3>1, <3>2, <3>3
      <3> QED  BY <1>5, <1>8, <3>1, <3>4, SeqEqual
    <2>4. \A i \in 1..(Len(g) + 1) : Append(g, buf)[i] = Encode(i)
      BY <2>2, <2>3 DEF StreamOf
    <2>5. Bytes(Len(Append(g, buf))) = from + Len(rb) + k
      <3>1. Len(rb) \in Nat
        OBVIOUS
      <3>2. Bytes(Len(Append(g, buf))) = from + Len(buf)
        BY <1>2, <1>8, <2>2
      <3> QED  BY <1>1, <1>2, <1>5, <3>1, <3>2
    <2>6. StreamOf(n, sb, Rest(u, k), <<>>, Append(g, buf))
      <3>1. Continues(Rest(u, k), Bytes(Len(Append(g, buf))) + 0)
        BY <1>1, <1>2, <1>3, <2>5
      <3>2. Bytes(Len(Append(g, buf))) + 0 + Len(Rest(u, k))
              = from + Len(rb) + Len(u)
        <4>1. Len(rb) \in Nat /\ Len(u) \in Nat /\ k \in Nat
          BY <1>1
        <4>2. from + Len(rb) + k + 0 + (Len(u) - k) = from + Len(rb) + Len(u)
          BY <1>2, <4>1
        <4> QED  BY <1>4, <2>5, <4>2
      <3>3. Continues(sb, Bytes(Len(Append(g, buf))) + 0 + Len(Rest(u, k)))
        BY <3>2 DEF StreamOf
      <3>4. Len(<<>>) = 0 /\ Continues(<<>>, Bytes(Len(Append(g, buf))))
        BY DEF Continues
      <3> QED  BY <1>1, <2>2, <2>4, <3>1, <3>2, <3>3, <3>4 DEF StreamOf
    <2> QED  BY <2>1, <2>6 DEF buf
  <1> QED  BY <1>7, <1>8 DEF buf

\* The server has nothing of client c yet.
Fresh(c) == c \notin clients /\ got[c] = <<>> /\ recv_buf_[c] = <<>>

\* Client c has no connection yet, and never had one.
Early(c) == tcp[c] \in {"idle", "connecting", "refused"}

\* A connection is accepted once: nothing is known of a client that waits in
\* the backlog, where it waits once, or that has not come that far.
AcceptInv ==
  /\ \A c \in Clients :
       Early(c) => /\ Fresh(c)
                   /\ \A i \in 1..Len(backlog) : backlog[i] # c
  /\ \A i \in 1..Len(backlog) : Fresh(backlog[i])
  /\ \A i, j \in 1..Len(backlog) : backlog[i] = backlog[j] => i = j

LabInv == TypeInv /\ StreamInv /\ AcceptInv

\* No step of a client touches the backlog or leads back to an early state.
LEMMA ClientFrame ==
  ASSUME NetTypeOK, NEW c \in Clients, User(c) \/ ClientLoop(c)
  PROVE  /\ UNCHANGED backlog
         /\ \A d \in Clients : Early(d)' => Early(d)
  <1>1. CASE \E b : Disconnect(c, b)
    BY <1>1 DEF Disconnect, Early, NetTypeOK
  <1>2. CASE UNCHANGED <<backlog, tcp>>
    BY <1>2 DEF Early
  <1>3. CASE PressC(c) /\ ~Dies(c)
    BY <1>3 DEF PressC, Early, NetTypeOK
  <1>4. Dies(c) => \E b : Disconnect(c, b)
    BY DEF Dies
  <1>5. PressLetter(c) => Dies(c) \/ UNCHANGED <<backlog, tcp>>
    BY DEF PressLetter, netVars
  <1>6. PressEscape(c) =>
          (\E b : Disconnect(c, b)) \/ UNCHANGED <<backlog, tcp>>
    BY DEF PressEscape, netVars
  <1>7. CloseWindow(c) => UNCHANGED <<backlog, tcp>>
    BY DEF CloseWindow, netVars
  <1>8. SocketMessage(c) => Dies(c) \/ UNCHANGED <<backlog, tcp>>
    BY DEF SocketMessage
  <1>9. TryToRead(c) => Dies(c) \/ UNCHANGED <<backlog, tcp>>
    BY DEF TryToRead, netVars
  <1>10. TryToWrite(c) => Dies(c) \/ UNCHANGED <<backlog, tcp>>
    BY DEF TryToWrite, netVars
  <1>11. Quit(c) => \E b : Disconnect(c, b)
    BY DEF Quit
  <1> QED
    BY <1>1, <1>2, <1>3, <1>4, <1>5, <1>6, <1>7, <1>8, <1>9, <1>10, <1>11
       DEF User, ClientLoop

\* What a step of a client does to its stream.
LEMMA ClientEffect ==
  ASSUME TypeInv, NEW c \in Clients, User(c) \/ ClientLoop(c)
  PROVE  \/ UNCHANGED <<sent, send_buf, up>>
         \/ /\ sent' = [sent EXCEPT ![c] = @ + 1]
            /\ send_buf' = [send_buf EXCEPT ![c] = @ \o Encode(sent[c] + 1)]
            /\ UNCHANGED up
         \/ \E k \in 1..Len(send_buf[c]) :
              /\ up' = [up EXCEPT ![c] = @ \o SubSeq(send_buf[c], 1, k)]
              /\ send_buf' = [send_buf EXCEPT ![c] = Unsent(send_buf[c], k)]
              /\ UNCHANGED sent
  <1>1. Dies(c) => UNCHANGED <<sent, send_buf, up>>
    BY DEF Dies, Disconnect
  <1>2. PressC(c) => Dies(c) \/ UNCHANGED <<sent, send_buf, up>>
    BY DEF PressC, clientVars
  <1>3. PressLetter(c) =>
          \/ Dies(c)
          \/ /\ sent' = [sent EXCEPT ![c] = @ + 1]
             /\ send_buf' = [send_buf EXCEPT ![c] = @ \o Encode(sent[c] + 1)]
             /\ UNCHANGED up
    BY DEF PressLetter, netVars
  <1>4. PressEscape(c) => UNCHANGED <<sent, send_buf, up>>
    BY DEF PressEscape, Disconnect, netVars
  <1>5. CloseWindow(c) => UNCHANGED <<sent, send_buf, up>>
    BY DEF CloseWindow, netVars
  <1>6. SocketMessage(c) => Dies(c) \/ UNCHANGED <<sent, send_buf, up>>
    BY DEF SocketMessage
  <1>7. TryToRead(c) => Dies(c) \/ UNCHANGED <<sent, send_buf, up>>
    BY DEF TryToRead, netVars
  <1>8. TryToWrite(c) =>
          \/ Dies(c)
          \/ UNCHANGED <<sent, send_buf, up>>
          \/ \E k \in 1..Len(send_buf[c]) :
               /\ up' = [up EXCEPT ![c] = @ \o SubSeq(send_buf[c], 1, k)]
               /\ send_buf' = [send_buf EXCEPT ![c] = Unsent(send_buf[c], k)]
               /\ UNCHANGED sent
    BY DEF TryToWrite, SendCount, netVars
  <1>9. Quit(c) => UNCHANGED <<sent, send_buf, up>>
    BY DEF Quit, Disconnect
  <1> QED
    BY <1>1, <1>2, <1>3, <1>4, <1>5, <1>6, <1>7, <1>8, <1>9
       DEF User, ClientLoop

\* A client's stream depends on five variables only.
LEMMA StreamFrame ==
  ASSUME StreamInv, UNCHANGED <<sent, send_buf, up, recv_buf_, got>>
  PROVE  StreamInv'
  BY DEF StreamInv

LEMMA ClientStream ==
  ASSUME LabInv, NEW c \in Clients, ClientStep(c)
  PROVE  StreamInv' /\ AcceptInv'
  <1>1. TypeInv /\ NetTypeOK /\ ClientTypeOK /\ ServerTypeOK
    BY DEF LabInv, TypeInv, TypeOK
  <1>2. (User(c) \/ ClientLoop(c)) /\ UNCHANGED <<clients, recv_buf_, got>>
    BY DEF ClientStep, serverVars
  <1>3. AcceptInv'
    BY <1>1, <1>2, ClientFrame DEF LabInv, AcceptInv, Fresh
  <1>4. ASSUME NEW d \in Clients
        PROVE  /\ sent[d] \in Nat /\ send_buf[d] \in Seq(Nat)
               /\ up[d] \in Seq(Nat) /\ recv_buf_[d] \in Seq(Nat)
               /\ got[d] \in Seq(Seq(Nat))
               /\ StreamOf(sent[d], send_buf[d], up[d], recv_buf_[d], got[d])
    BY <1>1, MaxKeysAssumption
       DEF NetTypeOK, ClientTypeOK, ServerTypeOK, LabInv, StreamInv
  <1>5. CASE UNCHANGED <<sent, send_buf, up>>
    BY <1>2, <1>3, <1>5, StreamFrame DEF LabInv
  <1>6. CASE /\ sent' = [sent EXCEPT ![c] = @ + 1]
             /\ send_buf' = [send_buf EXCEPT ![c] = @ \o Encode(sent[c] + 1)]
             /\ UNCHANGED up
    <2>1. StreamOf(sent[c] + 1, send_buf[c] \o Encode(sent[c] + 1), up[c],
                   recv_buf_[c], got[c])
      BY <1>4, StreamSend
    <2>2. StreamInv'
      BY <1>1, <1>2, <1>4, <1>6, <2>1 DEF StreamInv, ClientTypeOK
    <2> QED  BY <1>3, <2>2
  <1>7. CASE \E k \in 1..Len(send_buf[c]) :
               /\ up' = [up EXCEPT ![c] = @ \o SubSeq(send_buf[c], 1, k)]
               /\ send_buf' = [send_buf EXCEPT ![c] = Unsent(send_buf[c], k)]
               /\ UNCHANGED sent
    <2>1. PICK k \in 1..Len(send_buf[c]) :
            /\ up' = [up EXCEPT ![c] = @ \o SubSeq(send_buf[c], 1, k)]
            /\ send_buf' = [send_buf EXCEPT ![c] = Unsent(send_buf[c], k)]
            /\ UNCHANGED sent
      BY <1>7
    <2>2. StreamOf(sent[c], Unsent(send_buf[c], k),
                   up[c] \o SubSeq(send_buf[c], 1, k), recv_buf_[c], got[c])
      BY <1>4, StreamWrite
    <2>3. StreamInv'
      BY <1>1, <1>2, <1>4, <2>1, <2>2 DEF StreamInv, ClientTypeOK, NetTypeOK
    <2> QED  BY <1>3, <2>3
  <1> QED
    BY <1>1, <1>2, <1>5, <1>6, <1>7, ClientEffect

\* A complete message is the next of the stream, and had been sent.
LEMMA StreamMessage ==
  ASSUME NEW n \in Nat, NEW sb \in Seq(Nat), NEW u \in Seq(Nat),
         NEW rb \in Seq(Nat), NEW g \in Seq(Seq(Nat)), StreamOf(n, sb, u, rb, g),
         NEW k \in RecvCount(u, MsgSize - Len(rb)),
         Len(rb \o SubSeq(u, 1, k)) = MsgSize
  PROVE  /\ Received(g, rb \o SubSeq(u, 1, k)) = Append(g, Encode(Len(g) + 1))
         /\ Len(g) < n
  <1> DEFINE buf == rb \o SubSeq(u, 1, k)
  <1>1. /\ k \in 1..Len(u) /\ Len(g) \in Nat /\ Len(rb) \in Nat
        /\ Len(u) \in Nat /\ Len(sb) \in Nat /\ MsgSize \in Nat
    BY NetAssumption DEF RecvCount
  <1>2. SubSeq(u, 1, k) \in Seq(Nat) /\ Len(SubSeq(u, 1, k)) = k
    BY <1>1, TakenProperties
  <1>3. buf \in Seq(Nat) /\ Len(buf) = Len(rb) + k
    BY <1>2, ConcatProperties
  <1>4. Received(g, buf) = Append(g, buf)
    BY DEF Received
  <1>5. Append(g, buf)[Len(g) + 1] = buf /\ Len(Append(g, buf)) = Len(g) + 1
    BY <1>3, AppendProperties
  <1>6. StreamOf(n, sb, Rest(u, k), Unread(buf), Received(g, buf))
    BY StreamRead
  <1>7. buf = Encode(Len(g) + 1)
    <2>1. \A i \in 1..Len(Append(g, buf)) : Append(g, buf)[i] = Encode(i)
      BY <1>4, <1>6 DEF StreamOf
    <2>2. Len(g) + 1 \in 1..Len(Append(g, buf))
      BY <1>1, <1>5
    <2> QED  BY <1>5, <2>1, <2>2
  <1>8. Len(rb) + Len(u) + Len(sb) >= MsgSize
    BY <1>1, <1>3
  <1>9. Len(g) < n
    BY <1>8, NotAhead
  <1> QED  BY <1>4, <1>7, <1>9

\* The step of OnRead that receives k bytes from client c.
Receives(c, k) ==
  LET buf == recv_buf_[c] \o SubSeq(up[c], 1, k)
  IN  /\ up' = [up EXCEPT ![c] = Rest(up[c], k)]
      /\ recv_buf_' = [recv_buf_ EXCEPT ![c] = Unread(buf)]
      /\ got' = [got EXCEPT ![c] = Received(@, buf)]

\* What a step of the server does to the streams and the list.
LEMMA ServerEffect ==
  ASSUME ServerTypeOK, StartListening \/ ServerLoop \/ ServerUser
  PROVE  /\ UNCHANGED tcp
         /\ \/ /\ UNCHANGED <<up, recv_buf_, got>>
               /\ \/ UNCHANGED clients
                  \/ \E d \in Clients : clients' = clients \ {d}
               /\ backlog' \in {backlog, <<>>}
            \/ /\ backlog # <<>>
               /\ backlog' = Tail(backlog)
               /\ clients' = clients \cup {Head(backlog)}
               /\ recv_buf_' = [recv_buf_ EXCEPT ![Head(backlog)] = <<>>]
               /\ UNCHANGED <<up, got>>
            \/ /\ UNCHANGED <<clients, backlog>>
               /\ \E c \in clients :
                    \E k \in RecvCount(up[c], MsgSize - Len(recv_buf_[c])) :
                      Receives(c, k)
  <1>1. CASE ServerGone("died") \/ ServerGone("exited")
    BY <1>1 DEF ServerGone
  <1>2. CASE OnAccept /\ ~ServerGone("died")
    BY <1>2 DEF OnAccept, AcceptFails
  <1>3. CASE OnRead
    BY <1>3 DEF OnRead, Receives, Listed
  <1>4. CASE OnWrite
    BY <1>4 DEF OnWrite
  <1>5. CASE OnClose
    <2>1. /\ Head(srvQ).sock \in Clients
          /\ clients' = clients \ {Head(srvQ).sock}
          /\ UNCHANGED <<up, recv_buf_, got, tcp, backlog>>
      BY <1>5 DEF OnClose, RemoveClient, Listed, ServerTypeOK
    <2> QED  BY <2>1
  <1>6. CASE OnStray
    BY <1>6 DEF OnStray, serverVars
  <1>7. CASE StartListening
    BY <1>7 DEF StartListening
  <1>8. CASE ServerUser
    BY <1>8 DEF ServerUser, netVars
  <1> QED
    BY <1>1, <1>2, <1>3, <1>4, <1>5, <1>6, <1>7, <1>8
       DEF ServerLoop, OnError, ServerQuit

LEMMA ServerStream ==
  ASSUME LabInv, ServerStep
  PROVE  StreamInv' /\ AcceptInv'
  <1>1. NetTypeOK /\ ClientTypeOK /\ ServerTypeOK
    BY DEF LabInv, TypeInv, TypeOK
  <1>2. UNCHANGED <<sent, send_buf, tcp>>
    BY <1>1, ServerEffect DEF ServerStep, clientVars
  <1>3. ASSUME NEW d \in Clients
        PROVE  /\ sent[d] \in Nat /\ send_buf[d] \in Seq(Nat)
               /\ up[d] \in Seq(Nat) /\ recv_buf_[d] \in Seq(Nat)
               /\ got[d] \in Seq(Seq(Nat))
               /\ StreamOf(sent[d], send_buf[d], up[d], recv_buf_[d], got[d])
    BY <1>1, MaxKeysAssumption
       DEF NetTypeOK, ClientTypeOK, ServerTypeOK, LabInv, StreamInv
  <1>4. CASE /\ UNCHANGED <<up, recv_buf_, got>>
             /\ \/ UNCHANGED clients
                \/ \E d \in Clients : clients' = clients \ {d}
             /\ backlog' \in {backlog, <<>>}
    <2>1. StreamInv'
      BY <1>2, <1>4, StreamFrame DEF LabInv
    <2>2. AcceptInv'
      <3>1. \A d : Fresh(d) => Fresh(d)'
        BY <1>4 DEF Fresh
      <3>2. \A d \in Clients : Early(d)' => Early(d)
        BY <1>2 DEF Early
      <3>3. CASE backlog' = backlog
        BY <3>1, <3>2, <3>3 DEF LabInv, AcceptInv
      <3>4. CASE backlog' = <<>>
        BY <3>1, <3>2, <3>4 DEF LabInv, AcceptInv
      <3> QED  BY <1>4, <3>3, <3>4
    <2> QED  BY <2>1, <2>2
  <1>5. CASE /\ backlog # <<>>
             /\ backlog' = Tail(backlog)
             /\ clients' = clients \cup {Head(backlog)}
             /\ recv_buf_' = [recv_buf_ EXCEPT ![Head(backlog)] = <<>>]
             /\ UNCHANGED <<up, got>>
    <2> DEFINE c == Head(backlog)
    <2>1. /\ c \in Clients /\ c = backlog[1] /\ Len(backlog) \in Nat \ {0}
          /\ Len(Tail(backlog)) = Len(backlog) - 1
          /\ \A i \in 1..Len(Tail(backlog)) : Tail(backlog)[i] = backlog[i + 1]
      BY <1>1, <1>5, HeadTailProperties, EmptySeq DEF NetTypeOK
    <2>2. 1 \in 1..Len(backlog)
      BY <2>1
    <2>3. Fresh(c)
      BY <2>1, <2>2 DEF LabInv, AcceptInv
    <2>4. UNCHANGED recv_buf_
      BY <1>1, <1>5, <2>3 DEF Fresh, ServerTypeOK
    <2>5. StreamInv'
      BY <1>2, <1>5, <2>4, StreamFrame DEF LabInv
    <2>6. \A d : d # c /\ Fresh(d) => Fresh(d)'
      BY <1>5, <2>4 DEF Fresh
    <2>7. \A i \in 1..Len(backlog') : /\ i + 1 \in 1..Len(backlog)
                                     /\ backlog'[i] = backlog[i + 1]
      BY <1>5, <2>1
    <2>8. \A i \in 1..Len(backlog') : backlog'[i] # c
      BY <2>1, <2>2, <2>7 DEF LabInv, AcceptInv
    <2>9. AcceptInv'
      <3>1. \A d \in Clients :
              Early(d)' => /\ Fresh(d)'
                           /\ \A i \in 1..Len(backlog') : backlog'[i] # d
        BY <1>2, <2>1, <2>2, <2>6, <2>7 DEF LabInv, AcceptInv, Early
      <3>2. (\A i \in 1..Len(backlog) : Fresh(backlog[i]))'
        <4>1. ASSUME NEW i \in 1..Len(backlog')
              PROVE  /\ backlog'[i] # c
                     /\ Fresh(backlog'[i])
          BY <2>7, <2>8 DEF LabInv, AcceptInv
        <4> QED  BY <1>5, <2>4, <4>1 DEF Fresh
      <3>3. ASSUME NEW i \in 1..Len(backlog'), NEW j \in 1..Len(backlog'),
                   backlog'[i] = backlog'[j]
            PROVE  i = j
        <4>1. /\ i + 1 \in 1..Len(backlog) /\ j + 1 \in 1..Len(backlog)
              /\ backlog[i + 1] = backlog[j + 1]
          BY <2>7, <3>3
        <4>2. i + 1 = j + 1
          BY <4>1 DEF LabInv, AcceptInv
        <4> QED  BY <4>2
      <3> QED  BY <3>1, <3>2, <3>3 DEF AcceptInv
    <2> QED  BY <2>5, <2>9
  <1>6. CASE /\ UNCHANGED <<clients, backlog>>
             /\ \E c \in clients :
                  \E k \in RecvCount(up[c], MsgSize - Len(recv_buf_[c])) :
                    Receives(c, k)
    <2>0. PICK c \in clients :
            \E k \in RecvCount(up[c], MsgSize - Len(recv_buf_[c])) :
              Receives(c, k)
      BY <1>6
    <2>1. PICK k \in RecvCount(up[c], MsgSize - Len(recv_buf_[c])) :
            Receives(c, k)
      BY <2>0
    <2>2. c \in Clients
      BY <1>1 DEF ServerTypeOK
    <2> DEFINE buf == recv_buf_[c] \o SubSeq(up[c], 1, k)
    <2>3. StreamOf(sent[c], send_buf[c], Rest(up[c], k), Unread(buf),
                   Received(got[c], buf))
      BY <1>3, <2>2, StreamRead
    <2> HIDE DEF buf
    <2>4. /\ up' = [up EXCEPT ![c] = Rest(up[c], k)]
          /\ recv_buf_' = [recv_buf_ EXCEPT ![c] = Unread(buf)]
          /\ got' = [got EXCEPT ![c] = Received(@, buf)]
      BY <2>1 DEF Receives, buf
    <2>5. StreamInv'
      BY <1>1, <1>2, <1>3, <2>2, <2>3, <2>4
         DEF StreamInv, NetTypeOK, ServerTypeOK
    <2>6. \A d \in Clients : Fresh(d) => Fresh(d)'
      BY <1>1, <1>6, <2>2, <2>4 DEF Fresh, ServerTypeOK
    <2>7. \A i \in 1..Len(backlog) : backlog[i] \in Clients
      BY <1>1 DEF NetTypeOK
    <2>8. AcceptInv'
      BY <1>2, <1>6, <2>6, <2>7 DEF LabInv, AcceptInv, Early, Fresh
    <2> QED  BY <2>5, <2>8
  <1> QED
    BY <1>1, <1>4, <1>5, <1>6, ServerEffect DEF ServerStep

LEMMA NetStream ==
  ASSUME LabInv, NEW c \in Clients, WinSock(c)
  PROVE  StreamInv' /\ AcceptInv'
  <1>1. NetTypeOK
    BY DEF LabInv, TypeInv, TypeOK
  <1>2. UNCHANGED <<sent, send_buf, up, recv_buf_, got, clients>>
    BY DEF WinSock, NetStep, Establish, Refuse, ResetArrives, clientVars,
           serverVars
  <1>3. StreamInv'
    BY <1>2, StreamFrame DEF LabInv
  <1>4. CASE Establish(c)
    <2>1. /\ Early(c)
          /\ tcp' = [tcp EXCEPT ![c] = "up"]
          /\ backlog' = Append(backlog, c)
      BY <1>4 DEF Establish, Early
    <2>2. /\ Fresh(c)
          /\ \A i \in 1..Len(backlog) : backlog[i] # c
      BY <2>1 DEF LabInv, AcceptInv
    <2>3. /\ Len(backlog) \in Nat
          /\ Len(backlog') = Len(backlog) + 1
          /\ \A i \in 1..Len(backlog) : backlog'[i] = backlog[i]
          /\ backlog'[Len(backlog) + 1] = c
      BY <1>1, <2>1, AppendProperties DEF NetTypeOK
    <2>4. \A d \in Clients : Early(d)' => Early(d) /\ d # c
      BY <1>1, <2>1 DEF Early, NetTypeOK
    <2>5. \A i \in 1..Len(backlog') : i \in 1..Len(backlog) \/ backlog'[i] = c
      BY <2>3
    <2>6. \A d \in Clients :
            Early(d)' => /\ Fresh(d)'
                         /\ \A i \in 1..Len(backlog') : backlog'[i] # d
      BY <1>2, <2>3, <2>4, <2>5 DEF LabInv, AcceptInv, Fresh
    <2>7. (\A i \in 1..Len(backlog) : Fresh(backlog[i]))'
      <3>1. ASSUME NEW i \in 1..Len(backlog')
            PROVE  Fresh(backlog'[i])
        BY <2>2, <2>3, <2>5 DEF LabInv, AcceptInv
      <3> QED  BY <1>2, <3>1 DEF Fresh
    <2>8. ASSUME NEW i \in 1..Len(backlog'), NEW j \in 1..Len(backlog'),
                 backlog'[i] = backlog'[j]
          PROVE  i = j
      <3>1. CASE i \in 1..Len(backlog) /\ j \in 1..Len(backlog)
        BY <2>3, <2>8, <3>1 DEF LabInv, AcceptInv
      <3>2. CASE i \notin 1..Len(backlog) /\ j \notin 1..Len(backlog)
        BY <2>3, <3>2
      <3>3. CASE i \in 1..Len(backlog) /\ j \notin 1..Len(backlog)
        BY <2>2, <2>3, <2>5, <2>8, <3>3
      <3>4. CASE i \notin 1..Len(backlog) /\ j \in 1..Len(backlog)
        BY <2>2, <2>3, <2>5, <2>8, <3>4
      <3> QED  BY <3>1, <3>2, <3>3, <3>4
    <2>9. AcceptInv'
      BY <2>6, <2>7, <2>8 DEF AcceptInv
    <2> QED  BY <1>3, <2>9
  <1>5. CASE Refuse(c) \/ ResetArrives(c)
    <2>1. UNCHANGED backlog /\ \A d \in Clients : Early(d)' => Early(d)
      BY <1>1, <1>5 DEF Refuse, ResetArrives, Early, NetTypeOK
    <2>2. AcceptInv'
      BY <1>2, <2>1 DEF LabInv, AcceptInv, Fresh
    <2> QED  BY <1>3, <2>2
  <1> QED  BY <1>4, <1>5 DEF WinSock, NetStep

\* The inductive invariant of the composition.
LEMMA LabInvariant == Spec => []LabInv
  <1>1. Init => LabInv
    <2> SUFFICES ASSUME Init PROVE LabInv
      OBVIOUS
    <2>1. TypeInv
      BY TypeInit
    <2>2. StreamInv
      <3>1. Len(<<>>) = 0 /\ Bytes(0) = 0 /\ MsgSize \in Nat \ {0}
        BY NetAssumption DEF Bytes
      <3>2. StreamOf(0, <<>>, <<>>, <<>>, <<>>)
        BY <3>1 DEF StreamOf, Continues
      <3> QED
        BY <3>2 DEF Init, NetInit, ClientInit, ServerInit, StreamInv
    <2>3. AcceptInv
      BY DEF Init, NetInit, ServerInit, AcceptInv, Fresh
    <2> QED  BY <2>1, <2>2, <2>3 DEF LabInv
  <1>2. LabInv /\ [Next]_vars => LabInv'
    <2> SUFFICES ASSUME LabInv, [Next]_vars PROVE LabInv'
      OBVIOUS
    <2>1. TypeInv'
      BY TypeStep DEF LabInv
    <2>2. ASSUME NEW c \in Clients, ClientStep(c)
          PROVE  StreamInv' /\ AcceptInv'
      BY <2>2, ClientStream
    <2>3. ASSUME NEW c \in Clients, WinSock(c)
          PROVE  StreamInv' /\ AcceptInv'
      BY <2>3, NetStream
    <2>4. ASSUME ServerStep  PROVE StreamInv' /\ AcceptInv'
      BY <2>4, ServerStream
    <2>5. ASSUME UNCHANGED vars  PROVE StreamInv' /\ AcceptInv'
      BY <2>5 DEF vars, netVars, clientVars, serverVars, LabInv, StreamInv,
                  AcceptInv, Early, Fresh
    <2>6. StreamInv' /\ AcceptInv'
      BY <2>2, <2>3, <2>4, <2>5 DEF Next
    <2> QED  BY <2>1, <2>6 DEF LabInv
  <1> QED  BY <1>1, <1>2, PTL DEF Spec

\* The messages processed for each client are the first ones it sent, whole and
\* in order, for any sizes of message and buffers.
THEOREM InOrder == Spec => []KeypressesInOrder
  <1>1. LabInv => KeypressesInOrder
    <2> SUFFICES ASSUME LabInv, NEW c \in Clients
                 PROVE  /\ Len(got[c]) <= sent[c]
                        /\ \A k \in 1..Len(got[c]) : got[c][k] = Encode(k)
      BY DEF KeypressesInOrder
    <2>1. StreamOf(sent[c], send_buf[c], up[c], recv_buf_[c], got[c])
      BY DEF LabInv, StreamInv
    <2>2. /\ sent[c] \in Nat /\ send_buf[c] \in Seq(Nat)
          /\ up[c] \in Seq(Nat) /\ recv_buf_[c] \in Seq(Nat)
          /\ got[c] \in Seq(Seq(Nat))
      BY MaxKeysAssumption
         DEF LabInv, TypeInv, TypeOK, NetTypeOK, ClientTypeOK, ServerTypeOK
    <2>3. Len(got[c]) <= sent[c]
      BY <2>1, <2>2, NotAhead
    <2> QED  BY <2>1, <2>3 DEF StreamOf
  <1> QED  BY <1>1, LabInvariant, PTL

\* Every byte of every keypress is in a processed message or in a buffer on the
\* way to the server, in its place.
THEOREM NoneLost == Spec => []NothingLost
  <1>1. LabInv => NothingLost
    <2> SUFFICES ASSUME LabInv, NEW c \in Clients
                 PROVE  InFlight(c)
                          = [j \in 1..((sent[c] - Len(got[c])) * MsgSize) |->
                              Len(got[c]) * MsgSize + j]
      BY DEF NothingLost
    <2> DEFINE n == sent[c]
               g == got[c]
               s == InFlight(c)
    <2>1. StreamOf(n, send_buf[c], up[c], recv_buf_[c], g)
      BY DEF LabInv, StreamInv
    <2>2. /\ n \in Nat /\ send_buf[c] \in Seq(Nat)
          /\ up[c] \in Seq(Nat) /\ recv_buf_[c] \in Seq(Nat)
          /\ g \in Seq(Seq(Nat)) /\ Len(g) \in Nat /\ MsgSize \in Nat
      BY MaxKeysAssumption, NetAssumption
         DEF LabInv, TypeInv, TypeOK, NetTypeOK, ClientTypeOK, ServerTypeOK
    <2>3. /\ s \in Seq(Nat)
          /\ Len(s) = (n - Len(g)) * MsgSize
          /\ Continues(s, Bytes(Len(g)))
      BY <2>1, <2>2, StreamWhole DEF InFlight
    <2> HIDE DEF n, g, s
    <2>4. s = [j \in 1..Len(s) |-> s[j]]
      BY <2>3
    <2>5. \A j \in 1..Len(s) : s[j] = Len(g) * MsgSize + j
      BY <2>3 DEF Continues, Bytes
    <2>6. s = [j \in 1..((n - Len(g)) * MsgSize) |-> Len(g) * MsgSize + j]
      BY <2>3, <2>4, <2>5
    <2> QED  BY <2>6 DEF n, g, s
  <1> QED  BY <1>1, LabInvariant, PTL

\* The clients, the server and WinSock together implement KeyStream: every step
\* is a step of the abstract channel, or changes nothing that it can see.
THEOREM Implements == Spec => ImplementsKeyStream
  <1>1. Init => KeyPresses!Init
    BY DEF Init, ClientInit, ServerInit, KeyPresses!Init
  <1>2. LabInv /\ [Next]_vars => [KeyPresses!Next]_KeyPresses!vars
    <2> SUFFICES ASSUME LabInv, [Next]_vars
                 PROVE  [KeyPresses!Next]_KeyPresses!vars
      OBVIOUS
    <2>1. TypeInv /\ NetTypeOK /\ ClientTypeOK /\ ServerTypeOK
      BY DEF LabInv, TypeInv, TypeOK
    <2>2. CASE UNCHANGED <<sent, got, clients>>
      BY <2>2 DEF KeyPresses!vars
    <2>3. ASSUME NEW c \in Clients, ClientStep(c)
          PROVE  [KeyPresses!Next]_KeyPresses!vars
      <3>1. UNCHANGED <<got, clients>>
        BY <2>3 DEF ClientStep, serverVars
      <3>2. UNCHANGED sent \/ sent' = [sent EXCEPT ![c] = @ + 1]
        BY <2>1, <2>3, ClientEffect DEF ClientStep
      <3> QED
        BY <2>2, <3>1, <3>2 DEF KeyPresses!Next, KeyPresses!Send
    <2>4. ASSUME NEW c \in Clients, WinSock(c)
          PROVE  [KeyPresses!Next]_KeyPresses!vars
      BY <2>2, <2>4 DEF WinSock, clientVars, serverVars
    <2>5. CASE ServerStep
      <3>1. UNCHANGED sent
        BY <2>5 DEF ServerStep, clientVars
      <3>2. CASE /\ UNCHANGED got
                 /\ \/ UNCHANGED clients
                    \/ \E d \in Clients : clients' = clients \ {d}
        BY <3>1, <3>2
           DEF KeyPresses!vars, KeyPresses!Next, KeyPresses!Leave
      <3>3. CASE /\ backlog # <<>>
                 /\ clients' = clients \cup {Head(backlog)}
                 /\ UNCHANGED got
        <4> DEFINE c == Head(backlog)
        <4>1. c \in Clients /\ c = backlog[1] /\ 1 \in 1..Len(backlog)
          BY <2>1, <3>3, HeadTailProperties, EmptySeq DEF NetTypeOK
        <4>2. c \notin clients /\ got[c] = <<>>
          BY <4>1 DEF LabInv, AcceptInv, Fresh
        <4> QED
          BY <3>1, <3>3, <4>1, <4>2 DEF KeyPresses!Next, KeyPresses!Join
      <3>4. CASE /\ UNCHANGED clients
                 /\ \E c \in clients :
                      \E k \in RecvCount(up[c], MsgSize - Len(recv_buf_[c])) :
                        Receives(c, k)
        <4>1. PICK c \in clients :
                \E k \in RecvCount(up[c], MsgSize - Len(recv_buf_[c])) :
                  Receives(c, k)
          BY <3>4
        <4>2. PICK k \in RecvCount(up[c], MsgSize - Len(recv_buf_[c])) :
                Receives(c, k)
          BY <4>1
        <4> DEFINE buf == recv_buf_[c] \o SubSeq(up[c], 1, k)
        <4>3. c \in Clients /\ got' = [got EXCEPT ![c] = Received(@, buf)]
          BY <2>1, <4>2 DEF ServerTypeOK, Receives
        <4>4. CASE Len(buf) # MsgSize
          <5>1. UNCHANGED got
            BY <2>1, <4>3, <4>4 DEF Received, ServerTypeOK
          <5> QED  BY <3>1, <3>4, <5>1 DEF KeyPresses!vars
        <4>5. CASE Len(buf) = MsgSize
          <5>1. /\ sent[c] \in Nat /\ send_buf[c] \in Seq(Nat)
                /\ up[c] \in Seq(Nat) /\ recv_buf_[c] \in Seq(Nat)
                /\ got[c] \in Seq(Seq(Nat))
                /\ StreamOf(sent[c], send_buf[c], up[c], recv_buf_[c], got[c])
            BY <2>1, <4>3, MaxKeysAssumption
               DEF NetTypeOK, ClientTypeOK, ServerTypeOK, LabInv, StreamInv
          <5> HIDE DEF buf
          <5>2. /\ Len(got[c]) < sent[c]
                /\ Received(got[c], buf)
                     = Append(got[c], Encode(Len(got[c]) + 1))
            <6> DEFINE n == sent[c]
                       sb == send_buf[c]
                       u == up[c]
                       rb == recv_buf_[c]
                       g == got[c]
            <6>1. /\ n \in Nat /\ sb \in Seq(Nat) /\ u \in Seq(Nat)
                  /\ rb \in Seq(Nat) /\ g \in Seq(Seq(Nat))
                  /\ StreamOf(n, sb, u, rb, g)
              BY <5>1
            <6>2. k \in RecvCount(u, MsgSize - Len(rb))
              BY <4>2
            <6>3. buf = rb \o SubSeq(u, 1, k)
              BY DEF buf
            <6> HIDE DEF n, sb, u, rb, g
            <6>4. Len(rb \o SubSeq(u, 1, k)) = MsgSize
              BY <4>5, <6>3
            <6>5. /\ Received(g, buf) = Append(g, Encode(Len(g) + 1))
                  /\ Len(g) < n
              <7>1. /\ Received(g, rb \o SubSeq(u, 1, k))
                         = Append(g, Encode(Len(g) + 1))
                    /\ Len(g) < n
                BY <6>1, <6>2, <6>4, StreamMessage
              <7> QED  BY <6>3, <7>1
            <6> QED  BY <6>5 DEF n, g
          <5>4. got' = [got EXCEPT ![c] = Append(@, Encode(Len(@) + 1))]
            BY <4>3, <5>2
          <5> QED
            BY <3>1, <3>4, <4>1, <4>3, <5>2, <5>4
               DEF KeyPresses!Next, KeyPresses!Deliver
        <4> QED  BY <4>4, <4>5
      <3> QED
        BY <2>1, <2>5, <3>2, <3>3, <3>4, ServerEffect DEF ServerStep
    <2> QED  BY <2>2, <2>3, <2>4, <2>5 DEF Next, vars, clientVars, serverVars
  <1> QED  BY <1>1, <1>2, LabInvariant, PTL
          DEF Spec, ImplementsKeyStream, KeyPresses!Spec

-----------------------------------------------------------------------------
(* The order of the messages in a queue.                                   *)

\* A message x stands somewhere before a message y.
Before(q, x, y) == \E i, j \in 1..Len(q) : i < j /\ q[i] = x /\ q[j] = y

LEMMA TailQueue ==
  ASSUME NEW q \in Seq(EventMsg), q # <<>>
  PROVE  /\ Head(q) \in EventMsg
         /\ Tail(q) \in Seq(EventMsg)
         /\ Pending(q, Head(q))
         /\ \A x : Pending(Tail(q), x) => Pending(q, x) /\ Before(q, Head(q), x)
         /\ \A x : Pending(q, x) /\ x # Head(q) => Pending(Tail(q), x)
         /\ \A x, y : Before(Tail(q), x, y) => Before(q, x, y)
  <1>1. /\ Head(q) \in EventMsg /\ Tail(q) \in Seq(EventMsg)
        /\ Head(q) = q[1] /\ Len(q) \in Nat \ {0}
        /\ Len(Tail(q)) = Len(q) - 1
        /\ \A i \in 1..Len(Tail(q)) : Tail(q)[i] = q[i + 1]
    BY HeadTailProperties, EmptySeq
  <1> DEFINE n == Len(q)
             t == Tail(q)
             h == Head(q)
  <1>2. /\ n \in Nat \ {0} /\ h = q[1] /\ Len(t) = n - 1
        /\ \A i \in 1..Len(t) : t[i] = q[i + 1]
    BY <1>1
  <1>3. \A x : Pending(q, x) <=> \E i \in 1..n : q[i] = x
    BY DEF Pending
  <1>4. \A x, y : Before(q, x, y)
                    <=> \E i, j \in 1..n : i < j /\ q[i] = x /\ q[j] = y
    BY DEF Before
  <1>5. 1 \in 1..n
    BY <1>2
  <1>6. Pending(q, h)
    BY <1>2, <1>3, <1>5
  <1> HIDE DEF n, t, h
  <1>7. ASSUME NEW x, Pending(t, x)
        PROVE  Pending(q, x) /\ Before(q, h, x)
    <2>1. PICK i \in 1..Len(t) : t[i] = x
      BY <1>7 DEF Pending
    <2>2. i + 1 \in 1..n /\ q[i + 1] = x /\ 1 < i + 1
      BY <1>2, <2>1
    <2> QED  BY <1>2, <1>3, <1>4, <1>5, <2>2
  <1>8. ASSUME NEW x, Pending(q, x), x # h
        PROVE  Pending(t, x)
    <2>1. PICK i \in 1..n : q[i] = x
      BY <1>3, <1>8
    <2>2. i # 1
      BY <1>2, <1>8, <2>1
    <2>3. i - 1 \in 1..Len(t) /\ (i - 1) + 1 = i
      BY <1>2, <2>2
    <2> QED  BY <1>2, <2>1, <2>3 DEF Pending
  <1>9. ASSUME NEW x, NEW y, Before(t, x, y)
        PROVE  Before(q, x, y)
    <2>1. PICK i \in 1..Len(t), j \in 1..Len(t) : i < j /\ t[i] = x /\ t[j] = y
      BY <1>9 DEF Before
    <2>2. /\ i + 1 \in 1..n /\ j + 1 \in 1..n /\ i + 1 < j + 1
          /\ q[i + 1] = x /\ q[j + 1] = y
      BY <1>2, <2>1
    <2> QED  BY <1>4, <2>2
  <1> QED  BY <1>1, <1>6, <1>7, <1>8, <1>9 DEF t, h

LEMMA JoinedQueue ==
  ASSUME NEW q \in Seq(EventMsg), NEW r \in Seq(EventMsg)
  PROVE  /\ q \o r \in Seq(EventMsg)
         /\ \A x : Pending(q \o r, x) <=> Pending(q, x) \/ Pending(r, x)
         /\ \A x, y : Before(q \o r, x, y)
              => \/ Before(q, x, y)
                 \/ Before(r, x, y)
                 \/ Pending(q, x) /\ Pending(r, y)
  <1> DEFINE s == q \o r
             n == Len(q)
             m == Len(r)
  <1>1. /\ s \in Seq(EventMsg) /\ Len(s) = n + m /\ n \in Nat /\ m \in Nat
        /\ \A i \in 1..(n + m) : s[i] = IF i <= n THEN q[i] ELSE r[i - n]
    BY ConcatProperties
  <1>2. /\ \A x : Pending(q, x) <=> \E i \in 1..n : q[i] = x
        /\ \A x : Pending(r, x) <=> \E i \in 1..m : r[i] = x
        /\ \A x, y : Before(q, x, y)
                       <=> \E i, j \in 1..n : i < j /\ q[i] = x /\ q[j] = y
        /\ \A x, y : Before(r, x, y)
                       <=> \E i, j \in 1..m : i < j /\ r[i] = x /\ r[j] = y
    BY DEF Pending, Before
  <1> HIDE DEF s, n, m
  <1>3. ASSUME NEW i \in 1..(n + m)
        PROVE  \/ i \in 1..n /\ s[i] = q[i]
               \/ i - n \in 1..m /\ s[i] = r[i - n] /\ i > n
    BY <1>1
  <1>4. ASSUME NEW x, Pending(s, x)
        PROVE  Pending(q, x) \/ Pending(r, x)
    <2>1. PICK i \in 1..(n + m) : s[i] = x
      BY <1>1, <1>4 DEF Pending
    <2> QED  BY <1>2, <1>3, <2>1
  <1>5. ASSUME NEW x, Pending(q, x) \/ Pending(r, x)
        PROVE  Pending(s, x)
    <2>1. CASE Pending(q, x)
      <3>1. PICK i \in 1..n : q[i] = x
        BY <1>2, <2>1
      <3>2. i \in 1..(n + m) /\ s[i] = x
        BY <1>1, <3>1
      <3> QED  BY <1>1, <3>2 DEF Pending
    <2>2. CASE Pending(r, x)
      <3>1. PICK i \in 1..m : r[i] = x
        BY <1>2, <2>2
      <3>2. n + i \in 1..(n + m) /\ ~(n + i <= n) /\ (n + i) - n = i
        BY <1>1
      <3>3. s[n + i] = x
        BY <1>1, <3>1, <3>2
      <3> QED  BY <1>1, <3>2, <3>3 DEF Pending
    <2> QED  BY <1>5, <2>1, <2>2
  <1>6. ASSUME NEW x, NEW y, Before(s, x, y)
        PROVE  \/ Before(q, x, y)
               \/ Before(r, x, y)
               \/ Pending(q, x) /\ Pending(r, y)
    <2>1. PICK i \in 1..(n + m), j \in 1..(n + m) :
            i < j /\ s[i] = x /\ s[j] = y
      BY <1>1, <1>6 DEF Before
    <2>2. CASE i \in 1..n /\ j \in 1..n
      BY <1>1, <1>2, <2>1, <2>2
    <2>3. CASE i \in 1..n /\ j \notin 1..n
      <3>1. s[i] = q[i] /\ j - n \in 1..m /\ s[j] = r[j - n]
        BY <1>1, <1>3, <2>3
      <3> QED  BY <1>2, <2>1, <2>3, <3>1
    <2>4. CASE i \notin 1..n
      <3>1. /\ i - n \in 1..m /\ s[i] = r[i - n] /\ i > n
        BY <1>3, <2>4
      <3>2. j > n
        BY <1>1, <2>1, <3>1
      <3>3. j - n \in 1..m /\ s[j] = r[j - n]
        BY <1>1, <1>3, <3>2
      <3>4. i - n < j - n
        BY <1>1, <2>1
      <3> QED  BY <1>2, <2>1, <3>1, <3>3, <3>4
    <2> QED  BY <2>2, <2>3, <2>4
  <1> QED  BY <1>1, <1>4, <1>5, <1>6 DEF s

LEMMA OneQueue ==
  ASSUME NEW m \in EventMsg
  PROVE  /\ <<m>> \in Seq(EventMsg)
         /\ \A x : Pending(<<m>>, x) <=> x = m
         /\ \A x, y : ~Before(<<m>>, x, y)
  <1>1. <<m>> \in Seq(EventMsg) /\ Len(<<m>>) = 1 /\ <<m>>[1] = m
    OBVIOUS
  <1> QED  BY <1>1 DEF Pending, Before

LEMMA NoQueue ==
  /\ <<>> \in Seq(EventMsg)
  /\ \A x : ~Pending(<<>>, x)
  /\ \A x, y : ~Before(<<>>, x, y)
  <1>1. <<>> \in Seq(EventMsg) /\ Len(<<>>) = 0
    OBVIOUS
  <1> QED  BY <1>1 DEF Pending, Before

LEMMA PostIfQueue ==
  ASSUME NEW b \in BOOLEAN, NEW m \in EventMsg
  PROVE  /\ PostIf(b, m) \in Seq(EventMsg)
         /\ \A x : Pending(PostIf(b, m), x) <=> b /\ x = m
         /\ \A x, y : ~Before(PostIf(b, m), x, y)
  BY OneQueue, NoQueue DEF PostIf

LEMMA AppendQueue ==
  ASSUME NEW q \in Seq(EventMsg), NEW m \in EventMsg
  PROVE  /\ Append(q, m) \in Seq(EventMsg)
         /\ \A x : Pending(Append(q, m), x) <=> Pending(q, x) \/ x = m
         /\ \A x, y : Before(Append(q, m), x, y)
              => Before(q, x, y) \/ (Pending(q, x) /\ y = m)
  <1> DEFINE r == <<m>>
  <1>1. Append(q, m) = q \o r
    BY AppendIsConcat
  <1>2. /\ r \in Seq(EventMsg)
        /\ \A x : Pending(r, x) <=> x = m
        /\ \A x, y : ~Before(r, x, y)
    BY OneQueue
  <1> HIDE DEF r
  <1>3. /\ q \o r \in Seq(EventMsg)
        /\ \A x : Pending(q \o r, x) <=> Pending(q, x) \/ Pending(r, x)
        /\ \A x, y : Before(q \o r, x, y)
             => \/ Before(q, x, y)
                \/ Before(r, x, y)
                \/ Pending(q, x) /\ Pending(r, y)
    BY <1>2, JoinedQueue
  <1> QED  BY <1>1, <1>2, <1>3

LEMMA PostQueue ==
  ASSUME NEW q \in Seq(EventMsg), NEW m \in EventMsg
  PROVE  /\ Post(q, m) \in Seq(EventMsg)
         /\ \A x : Pending(Post(q, m), x) <=> Pending(q, x) \/ x = m
         /\ \A x, y : Before(Post(q, m), x, y)
              => \/ Before(q, x, y)
                 \/ Pending(q, x) /\ y = m /\ ~Pending(q, m)
  <1>1. CASE Pending(q, m)
    BY <1>1 DEF Post
  <1>2. CASE ~Pending(q, m)
    BY <1>2, AppendQueue DEF Post
  <1> QED  BY <1>1, <1>2

-----------------------------------------------------------------------------
(* What the clients and WinSock do to the connections and to the server's  *)
(* queue.                                                                  *)

\* The connection of c was reset, by its disappearance or by data
\* that it never read.
ByClient(c) == rst[c] \in {"client", "unread"}

\* FD_CLOSE goes to the server's window: an error because of a client's reset,
\* or an orderly close.
Closing(c) ==
  \E err \in BOOLEAN :
    /\ c \in sockets \ fdClose
    /\ srvQ' = Append(srvQ, Event(c, "FD_CLOSE", err))
    /\ fdClose' = fdClose \cup {c}
    /\ err => ByClient(c)'
    /\ ~err => tcp'[c] = "closed" /\ CloseDue(c, up[c])

\* The connection of c ends, or is reset by the client's side.
Ends(c) ==
  /\ tcp' = tcp \/ tcp' = [tcp EXCEPT ![c] = "closed"]
  /\ \/ rst' = rst
     \/ /\ rst[c] = "no"
        /\ \E cause \in {"client", "unread"} : rst' = [rst EXCEPT ![c] = cause]
  /\ UNCHANGED <<srvQ, fdClose>> \/ Closing(c)
  /\ UNCHANGED <<up, listening, backlog, sockets>>

\* Client c does nothing that the server could notice.
Quiet(c) ==
  /\ \/ tcp' = tcp
     \/ \E s \in {"connecting", "refused"} :
          Early(c) /\ tcp' = [tcp EXCEPT ![c] = s]
  /\ UNCHANGED <<rst, up, srvQ, fdClose, listening, backlog, sockets>>

\* send() on c's socket takes bytes.
Writes(c) ==
  /\ tcp[c] = "up" /\ rst[c] = "no"
  /\ \E k \in SendCount(send_buf[c], up[c]) :
       up' = [up EXCEPT ![c] = @ \o SubSeq(send_buf[c], 1, k)]
  /\ srvQ' = IF c \in sockets THEN Post(srvQ, Event(c, "FD_READ", FALSE))
                              ELSE srvQ
  /\ UNCHANGED <<tcp, rst, listening, backlog, sockets, fdClose>>

LEMMA EndsEffect ==
  ASSUME NetTypeOK, NEW c \in Clients
  PROVE  /\ \A b \in {"no", "client", "unread"} : Disconnect(c, b) => Ends(c)
         /\ ResetArrives(c) => Ends(c)
  <1>1. tcp \in [Clients -> TcpState]
        /\ rst \in [Clients -> ResetCause]
    BY DEF NetTypeOK
  <1>2. ASSUME NEW err \in BOOLEAN, PostClose(c, err),
               err => ByClient(c)',
               ~err => tcp'[c] = "closed" /\ CloseDue(c, up[c])
        PROVE  UNCHANGED <<srvQ, fdClose>> \/ Closing(c)
    <2>1. CASE c \in sockets \ fdClose
      <3>1. /\ srvQ' = Append(srvQ, Event(c, "FD_CLOSE", err))
            /\ fdClose' = fdClose \cup {c}
        BY <1>2, <2>1 DEF PostClose
      <3> QED  BY <1>2, <2>1, <3>1 DEF Closing
    <2>2. CASE c \notin sockets \ fdClose
      BY <1>2, <2>2 DEF PostClose
    <2> QED  BY <2>1, <2>2
  <1>3. ASSUME NEW b \in {"no", "client", "unread"}, Disconnect(c, b)
        PROVE  Ends(c)
    <2>1. tcp' = [tcp EXCEPT ![c] = "closed"]
          /\ UNCHANGED <<up, listening, backlog, sockets>>
      BY <1>3 DEF Disconnect
    <2>2. tcp'[c] = "closed"
      BY <1>1, <2>1
    <2>3. CASE tcp[c] = "up" /\ rst[c] = "no" /\ b # "no"
      <3>1. rst' = [rst EXCEPT ![c] = b] /\ PostClose(c, TRUE)
        BY <1>3, <2>3 DEF Disconnect
      <3>2. ByClient(c)'
        BY <1>1, <1>3, <2>3, <3>1 DEF ByClient
      <3>3. UNCHANGED <<srvQ, fdClose>> \/ Closing(c)
        BY <1>2, <3>1, <3>2
      <3> QED  BY <1>3, <2>1, <2>3, <3>1, <3>3 DEF Ends
    <2>4. CASE ~(tcp[c] = "up" /\ rst[c] = "no" /\ b # "no")
      <3>1. /\ UNCHANGED rst
            /\ \/ UNCHANGED <<srvQ, fdClose>>
               \/ CloseDue(c, up[c]) /\ PostClose(c, FALSE)
        BY <1>3, <2>4 DEF Disconnect
      <3>2. UNCHANGED <<srvQ, fdClose>> \/ Closing(c)
        BY <1>2, <2>2, <3>1
      <3> QED  BY <2>1, <3>1, <3>2 DEF Ends
    <2> QED  BY <2>3, <2>4
  <1>4. ASSUME ResetArrives(c)  PROVE Ends(c)
    <2>1. /\ rst[c] = "no" /\ rst' = [rst EXCEPT ![c] = "unread"]
          /\ PostClose(c, TRUE)
          /\ UNCHANGED <<tcp, up, listening, backlog, sockets>>
      BY <1>4 DEF ResetArrives
    <2>2. ByClient(c)'
      BY <1>1, <2>1 DEF ByClient
    <2>3. UNCHANGED <<srvQ, fdClose>> \/ Closing(c)
      BY <1>2, <2>1, <2>2
    <2> QED  BY <2>1, <2>3 DEF Ends
  <1> QED  BY <1>3, <1>4

\* Every step but the server's.
LEMMA OutsideEffect ==
  ASSUME NetTypeOK, NEW c \in Clients, ClientStep(c) \/ WinSock(c)
  PROVE  /\ UNCHANGED serverVars
         /\ Ends(c) \/ Quiet(c) \/ Writes(c) \/ Establish(c)
  <1>1. UNCHANGED serverVars
    BY DEF ClientStep, WinSock
  <1>2. Dies(c) => Ends(c)
    BY EndsEffect DEF Dies
  <1>3. PressC(c) => Dies(c) \/ Quiet(c)
    BY DEF PressC, Quiet, Early
  <1>4. PressLetter(c) => Dies(c) \/ Quiet(c)
    BY DEF PressLetter, Quiet, netVars
  <1>5. PressEscape(c) => Ends(c)
    BY EndsEffect DEF PressEscape
  <1>6. CloseWindow(c) => Quiet(c)
    BY DEF CloseWindow, Quiet, netVars
  <1>7. SocketMessage(c) => Dies(c) \/ Quiet(c)
    BY DEF SocketMessage, Quiet
  <1>8. TryToRead(c) => Dies(c) \/ Quiet(c)
    BY DEF TryToRead, Quiet, netVars
  <1>9. TryToWrite(c) => Dies(c) \/ Quiet(c) \/ Writes(c)
    <2> SUFFICES ASSUME TryToWrite(c), ~Dies(c), ~Quiet(c)
                 PROVE  Writes(c)
      OBVIOUS
    <2>1. /\ Usable(c)
          /\ \E k \in SendCount(send_buf[c], up[c]) :
               up' = [up EXCEPT ![c] = @ \o SubSeq(send_buf[c], 1, k)]
          /\ srvQ' = IF c \in sockets
                     THEN Post(srvQ, Event(c, "FD_READ", FALSE))
                     ELSE srvQ
          /\ UNCHANGED <<tcp, rst, listening, backlog, sockets, fdClose>>
      BY DEF TryToWrite, Quiet, netVars
    <2> QED  BY <2>1 DEF Writes, Usable
  <1>10. Quit(c) => Ends(c)
    BY EndsEffect DEF Quit
  <1>11. NetStep(c) => Ends(c) \/ Quiet(c) \/ Establish(c)
    BY EndsEffect DEF NetStep, Refuse, Quiet, Early
  <1> QED
    BY <1>1, <1>2, <1>3, <1>4, <1>5, <1>6, <1>7, <1>8, <1>9, <1>10, <1>11
       DEF ClientStep, WinSock, User, ClientLoop

-----------------------------------------------------------------------------
(* What the server does to its queue.                                      *)

AcceptMsg == Event(serverSocket, "FD_ACCEPT", FALSE)
ReadMsg(c) == Event(c, "FD_READ", FALSE)
WriteMsg(c) == Event(c, "FD_WRITE", FALSE)
CloseMsg(c) == Event(c, "FD_CLOSE", FALSE)

\* The messages about a client's connection.
LEMMA EventFacts ==
  ASSUME NEW c \in Clients, NEW err \in BOOLEAN,
         NEW e \in {"FD_READ", "FD_WRITE", "FD_CLOSE"}
  PROVE  /\ Event(c, e, err) \in EventMsg
         /\ Event(c, e, err).sock = c
         /\ Event(c, e, err).event = e
         /\ Event(c, e, err).error <=> err
         /\ Event(c, e, err) # AcceptMsg
  <1>1. Event(c, e, err) \in EventMsg
    BY EventType DEF EventName
  <1>2. /\ Event(c, e, err).sock = c
        /\ Event(c, e, err).event = e
        /\ Event(c, e, err).error = err
    BY DEF Event
  <1>3. AcceptMsg.event = "FD_ACCEPT" /\ e # "FD_ACCEPT"
    BY DEF AcceptMsg, Event
  <1> QED  BY <1>1, <1>2, <1>3

LEMMA MsgFacts ==
  ASSUME NEW c \in Clients, NEW m \in {ReadMsg(c), WriteMsg(c), CloseMsg(c)}
  PROVE  /\ m \in EventMsg /\ m # AcceptMsg
         /\ m.sock = c /\ ~m.error
         /\ m.event \in {"FD_READ", "FD_WRITE", "FD_CLOSE"}
         /\ m.event = "FD_READ" <=> m = ReadMsg(c)
         /\ m.event = "FD_CLOSE" <=> m = CloseMsg(c)
  <1>1. CASE m = ReadMsg(c)
    BY <1>1, EventFacts DEF ReadMsg, CloseMsg
  <1>2. CASE m = WriteMsg(c)
    BY <1>2, EventFacts DEF ReadMsg, WriteMsg, CloseMsg
  <1>3. CASE m = CloseMsg(c)
    BY <1>3, EventFacts DEF ReadMsg, CloseMsg
  <1> QED  BY <1>1, <1>2, <1>3

LEMMA AcceptFacts ==
  /\ AcceptMsg \in EventMsg
  /\ AcceptMsg.sock = serverSocket
  /\ AcceptMsg.event = "FD_ACCEPT"
  /\ ~AcceptMsg.error
  <1>1. AcceptMsg \in EventMsg
    BY EventType DEF AcceptMsg, EventName
  <1> QED  BY <1>1 DEF AcceptMsg, Event

\* What doRead() leaves in the queue behind the messages q.
ReadQueue(q, c, more, ended) ==
  q \o PostIf(more, ReadMsg(c)) \o PostIf(ended, CloseMsg(c))

LEMMA ReadQueueFacts ==
  ASSUME NEW q \in Seq(EventMsg), NEW c \in Clients,
         NEW more \in BOOLEAN, NEW ended \in BOOLEAN
  PROVE  /\ ReadQueue(q, c, more, ended) \in Seq(EventMsg)
         /\ \A m : Pending(ReadQueue(q, c, more, ended), m)
              <=> \/ Pending(q, m)
                  \/ more /\ m = ReadMsg(c)
                  \/ ended /\ m = CloseMsg(c)
         /\ \A m, n : Before(ReadQueue(q, c, more, ended), m, n)
              => \/ Before(q, m, n)
                 \/ Pending(q, m) /\ more /\ n = ReadMsg(c)
                 \/ Pending(q, m) /\ ended /\ n = CloseMsg(c)
                 \/ more /\ ended /\ m = ReadMsg(c) /\ n = CloseMsg(c)
  <1> DEFINE r == PostIf(more, ReadMsg(c))
             e == PostIf(ended, CloseMsg(c))
             s == q \o r
  <1>1. /\ r \in Seq(EventMsg) /\ e \in Seq(EventMsg)
        /\ \A m : Pending(r, m) <=> more /\ m = ReadMsg(c)
        /\ \A m : Pending(e, m) <=> ended /\ m = CloseMsg(c)
        /\ \A m, n : ~Before(r, m, n) /\ ~Before(e, m, n)
    <2>1. ReadMsg(c) \in EventMsg /\ CloseMsg(c) \in EventMsg
      BY MsgFacts
    <2> QED  BY <2>1, PostIfQueue
  <1>2. ReadQueue(q, c, more, ended) = s \o e
    BY DEF ReadQueue
  <1> HIDE DEF r, e
  <1>3. /\ s \in Seq(EventMsg)
        /\ \A m : Pending(s, m) <=> Pending(q, m) \/ Pending(r, m)
        /\ \A m, n : Before(s, m, n)
             => Before(q, m, n) \/ (Pending(q, m) /\ Pending(r, n))
    BY <1>1, JoinedQueue
  <1> HIDE DEF s
  <1>4. /\ s \o e \in Seq(EventMsg)
        /\ \A m : Pending(s \o e, m) <=> Pending(s, m) \/ Pending(e, m)
        /\ \A m, n : Before(s \o e, m, n)
             => Before(s, m, n) \/ (Pending(s, m) /\ Pending(e, n))
    BY <1>1, <1>3, JoinedQueue
  <1> QED  BY <1>1, <1>2, <1>3, <1>4

\* What accept() leaves in the queue behind the messages q.
AcceptQueue(q, c, unread, ended, waiting) ==
  q \o <<WriteMsg(c)>>
    \o PostIf(unread, ReadMsg(c))
    \o PostIf(ended, CloseMsg(c))
    \o PostIf(waiting, AcceptMsg)

LEMMA AcceptQueueFacts ==
  ASSUME NEW q \in Seq(EventMsg), NEW c \in Clients, NEW unread \in BOOLEAN,
         NEW ended \in BOOLEAN, NEW waiting \in BOOLEAN
  PROVE  /\ \A m : Pending(AcceptQueue(q, c, unread, ended, waiting), m)
              <=> \/ Pending(q, m)
                  \/ m = WriteMsg(c)
                  \/ unread /\ m = ReadMsg(c)
                  \/ ended /\ m = CloseMsg(c)
                  \/ waiting /\ m = AcceptMsg
         /\ \A m, n : Before(AcceptQueue(q, c, unread, ended, waiting), m, n)
              => \/ Before(q, m, n)
                 \/ Pending(q, m) /\ (n = AcceptMsg \/ n.sock = c)
                 \/ m \in {WriteMsg(c), ReadMsg(c)}
                 \/ m = CloseMsg(c) /\ n = AcceptMsg
  <1> DEFINE w == <<WriteMsg(c)>>
             p == q \o w
             s == ReadQueue(p, c, unread, ended)
             a == PostIf(waiting, AcceptMsg)
  <1>1. /\ w \in Seq(EventMsg)
        /\ \A m : Pending(w, m) <=> m = WriteMsg(c)
        /\ \A m, n : ~Before(w, m, n)
    <2>1. WriteMsg(c) \in EventMsg
      BY MsgFacts
    <2> QED  BY <2>1, OneQueue
  <1>2. /\ a \in Seq(EventMsg)
        /\ \A m : Pending(a, m) <=> waiting /\ m = AcceptMsg
        /\ \A m, n : ~Before(a, m, n)
    BY AcceptFacts, PostIfQueue
  <1>3. AcceptQueue(q, c, unread, ended, waiting) = s \o a
    BY DEF AcceptQueue, ReadQueue
  <1> HIDE DEF w, a
  <1>4. /\ p \in Seq(EventMsg)
        /\ \A m : Pending(p, m) <=> Pending(q, m) \/ Pending(w, m)
        /\ \A m, n : Before(p, m, n)
             => Before(q, m, n) \/ (Pending(q, m) /\ Pending(w, n))
    BY <1>1, JoinedQueue
  <1> HIDE DEF p
  <1>5. /\ s \in Seq(EventMsg)
        /\ \A m : Pending(s, m)
             <=> \/ Pending(p, m)
                 \/ unread /\ m = ReadMsg(c)
                 \/ ended /\ m = CloseMsg(c)
        /\ \A m, n : Before(s, m, n)
             => \/ Before(p, m, n)
                \/ Pending(p, m) /\ n \in {ReadMsg(c), CloseMsg(c)}
                \/ m = ReadMsg(c)
    BY <1>4, ReadQueueFacts
  <1> HIDE DEF s
  <1>6. /\ \A m : Pending(s \o a, m) <=> Pending(s, m) \/ Pending(a, m)
        /\ \A m, n : Before(s \o a, m, n)
             => Before(s, m, n) \/ (Pending(s, m) /\ Pending(a, n))
    BY <1>2, <1>5, JoinedQueue
  <1>7. \A n \in {WriteMsg(c), ReadMsg(c), CloseMsg(c)} : n.sock = c
    BY MsgFacts
  <1> QED
    <2>1. \A m : Pending(s \o a, m)
              <=> \/ Pending(q, m)
                  \/ m = WriteMsg(c)
                  \/ unread /\ m = ReadMsg(c)
                  \/ ended /\ m = CloseMsg(c)
                  \/ waiting /\ m = AcceptMsg
      BY <1>1, <1>2, <1>4, <1>5, <1>6
    <2>2. ASSUME NEW m, NEW n, Before(s \o a, m, n)
          PROVE  \/ Before(q, m, n)
                 \/ Pending(q, m) /\ (n = AcceptMsg \/ n.sock = c)
                 \/ m \in {WriteMsg(c), ReadMsg(c)}
                 \/ m = CloseMsg(c) /\ n = AcceptMsg
      <3>1. CASE Before(s, m, n)
        BY <1>1, <1>4, <1>5, <1>7, <3>1
      <3>2. CASE Pending(s, m) /\ Pending(a, n)
        BY <1>1, <1>2, <1>4, <1>5, <3>2
      <3> QED  BY <1>6, <2>2, <3>1, <3>2
    <2> QED  BY <1>3, <2>1, <2>2

\* A connection is accepted.
Accepts(c) ==
  /\ Handling("FD_ACCEPT") /\ ~AcceptFails
  /\ backlog # <<>> /\ c = Head(backlog) /\ backlog' = Tail(backlog)
  /\ sockets' = sockets \cup {c}
  /\ clients' = clients \cup {c}
  /\ \E ended \in BOOLEAN :
       /\ ended <=> tcp[c] = "closed" /\ CloseDue(c, up[c])
       /\ fdClose' = IF ended THEN fdClose \cup {c} ELSE fdClose
       /\ srvQ' = AcceptQueue(Tail(srvQ), c, up[c] # <<>>, ended,
                              Tail(backlog) # <<>>)
  /\ UNCHANGED <<sstatus, tcp, rst, up>>

\* doRead() takes k bytes.
Reads(c, k) ==
  /\ Handling("FD_READ") /\ c = Head(srvQ).sock /\ c \in clients
  /\ rst[c] = "no"
  /\ k \in RecvCount(up[c], MsgSize - Len(recv_buf_[c]))
  /\ up' = [up EXCEPT ![c] = Rest(up[c], k)]
  /\ \E ended \in BOOLEAN :
       /\ ended <=> /\ tcp[c] = "closed"
                    /\ c \notin fdClose
                    /\ CloseDue(c, Rest(up[c], k))
       /\ fdClose' = IF ended THEN fdClose \cup {c} ELSE fdClose
       /\ srvQ' = ReadQueue(Tail(srvQ), c, Rest(up[c], k) # <<>>, ended)
  /\ UNCHANGED <<sstatus, clients, tcp, rst, backlog, sockets>>

\* The first message is taken from the queue and has no effect on the network.
Skips ==
  /\ Dispatching /\ ~Fatal(Head(srvQ))
  /\ srvQ' = Tail(srvQ)
  /\ \/ UNCHANGED clients
     \/ /\ Head(srvQ).event = "FD_CLOSE"
        /\ Head(srvQ).sock \in clients
        /\ clients' = clients \ {Head(srvQ).sock}
  /\ Head(srvQ).event = "FD_READ" /\ Head(srvQ).sock \in clients
       => rst[Head(srvQ).sock] # "no" \/ up[Head(srvQ).sock] = <<>>
  /\ UNCHANGED <<sstatus, tcp, rst, up, backlog, sockets, fdClose>>

LEMMA ServerSteps ==
  ASSUME NetTypeOK, ServerTypeOK, ServerStep
  PROVE  \/ \E c \in Clients : Accepts(c)
         \/ \E c \in Clients : \E k \in Nat : Reads(c, k)
         \/ Skips
         \/ OnError
         \/ Handling("FD_ACCEPT") /\ AcceptFails /\ ServerGone("died")
         \/ ServerQuit
         \/ StartListening \/ ServerUser
  <1>1. ASSUME OnAccept
        PROVE  \/ \E c \in Clients : Accepts(c)
               \/ Handling("FD_ACCEPT") /\ AcceptFails /\ ServerGone("died")
    <2>1. ~Listed(serverSocket)
      BY NetAssumption DEF Listed, ServerTypeOK
    <2>2. CASE AcceptFails
      BY <1>1, <2>2 DEF OnAccept
    <2>3. CASE ~AcceptFails
      <3> DEFINE c == Head(backlog)
                 over == tcp[c] = "closed" /\ CloseDue(c, up[c])
      <3>1. backlog # <<>> /\ c \in Clients
        BY <2>3, HeadTailProperties DEF AcceptFails, NetTypeOK
      <3>2. PICK ended \in BOOLEAN : ended <=> over
        OBVIOUS
      <3>3. /\ fdClose' = IF over THEN fdClose \cup {c} ELSE fdClose
            /\ srvQ' = AcceptQueue(Tail(srvQ), c, up[c] # <<>>, over,
                                   Tail(backlog) # <<>>)
        BY <1>1, <2>1, <2>3
           DEF OnAccept, AcceptQueue, AcceptMsg, ReadMsg, WriteMsg, CloseMsg
      <3>4. PostIf(over, CloseMsg(c)) = PostIf(ended, CloseMsg(c))
        BY <3>2 DEF PostIf
      <3>5. /\ fdClose' = IF ended THEN fdClose \cup {c} ELSE fdClose
            /\ srvQ' = AcceptQueue(Tail(srvQ), c, up[c] # <<>>, ended,
                                   Tail(backlog) # <<>>)
        BY <3>2, <3>3, <3>4 DEF AcceptQueue
      <3>6. /\ Handling("FD_ACCEPT") /\ backlog' = Tail(backlog)
            /\ sockets' = sockets \cup {c} /\ clients' = clients \cup {c}
            /\ UNCHANGED <<sstatus, tcp, rst, up>>
        BY <1>1, <2>1, <2>3 DEF OnAccept
      <3>7. Accepts(c)
        BY <2>3, <3>1, <3>2, <3>5, <3>6 DEF Accepts
      <3> QED  BY <3>1, <3>7
    <2> QED  BY <2>2, <2>3
  <1>2. ASSUME OnRead
        PROVE  Skips \/ \E c \in Clients : \E k \in Nat : Reads(c, k)
    <2> DEFINE c == Head(srvQ).sock
    <2>1. /\ Handling("FD_READ") /\ c \in clients /\ c \in Clients
          /\ UNCHANGED <<sstatus, clients, tcp, rst, backlog, sockets>>
      BY <1>2 DEF OnRead, Listed, ServerTypeOK
    <2>2. CASE /\ ~WantRead(c) \/ rst[c] # "no" \/ up[c] = <<>>
               /\ srvQ' = Tail(srvQ)
               /\ UNCHANGED <<up, fdClose>>
      BY <2>1, <2>2 DEF Skips, Handling, WantRead
    <2>3. CASE ~(/\ ~WantRead(c) \/ rst[c] # "no" \/ up[c] = <<>>
                 /\ srvQ' = Tail(srvQ)
                 /\ UNCHANGED <<up, fdClose>>)
      <3>1. rst[c] = "no"
        BY <1>2, <2>3 DEF OnRead
      <3>2. PICK k \in RecvCount(up[c], MsgSize - Len(recv_buf_[c])) :
              LET rest == Rest(up[c], k)
                  ended == /\ tcp[c] = "closed"
                           /\ c \notin fdClose
                           /\ CloseDue(c, rest)
              IN  /\ up' = [up EXCEPT ![c] = rest]
                  /\ fdClose' = IF ended THEN fdClose \cup {c} ELSE fdClose
                  /\ srvQ' = Tail(srvQ)
                       \o PostIf(rest # <<>>, Event(c, "FD_READ", FALSE))
                       \o PostIf(ended, Event(c, "FD_CLOSE", FALSE))
        BY <1>2, <2>3 DEF OnRead
      <3> DEFINE over == /\ tcp[c] = "closed"
                         /\ c \notin fdClose
                         /\ CloseDue(c, Rest(up[c], k))
      <3>3. PICK ended \in BOOLEAN : ended <=> over
        OBVIOUS
      <3>4. /\ up' = [up EXCEPT ![c] = Rest(up[c], k)]
            /\ fdClose' = IF over THEN fdClose \cup {c} ELSE fdClose
            /\ srvQ' = ReadQueue(Tail(srvQ), c, Rest(up[c], k) # <<>>, over)
        BY <3>2 DEF ReadQueue, ReadMsg, CloseMsg
      <3>5. PostIf(over, CloseMsg(c)) = PostIf(ended, CloseMsg(c))
        BY <3>3 DEF PostIf
      <3>6. /\ fdClose' = IF ended THEN fdClose \cup {c} ELSE fdClose
            /\ srvQ' = ReadQueue(Tail(srvQ), c, Rest(up[c], k) # <<>>, ended)
        BY <3>3, <3>4, <3>5 DEF ReadQueue
      <3>7. Reads(c, k)
        BY <2>1, <3>1, <3>3, <3>4, <3>6 DEF Reads
      <3>8. k \in Nat
        BY DEF RecvCount
      <3> QED  BY <2>1, <3>7, <3>8
    <2> QED  BY <2>2, <2>3
  <1>3. OnWrite => Skips
    BY DEF OnWrite, Handling, Skips
  <1>4. OnClose => Skips
    BY DEF OnClose, Handling, Skips, Listed, RemoveClient
  <1>5. OnStray => Skips
    BY DEF OnStray, Skips, Listed, serverVars
  <1> QED
    BY <1>1, <1>2, <1>3, <1>4, <1>5 DEF ServerStep, ServerLoop

-----------------------------------------------------------------------------
(* What ends the server.                                                   *)

\* Only clients reset connections while the server lives, and the only errors
\* in the queue are FD_CLOSE messages of such connections.
ErrorsOfClients ==
  /\ sstatus \notin {"exited", "died"} => \A c \in Clients : rst[c] # "server"
  /\ \A m \in EventMsg :
       Pending(srvQ, m) /\ m.error
         => \E c \in Clients : m = Event(c, "FD_CLOSE", TRUE) /\ ByClient(c)

\* The queue holds an FD_ACCEPT only while somebody waits in the backlog, and
\* never two.
AcceptsWaited ==
  /\ \A m \in EventMsg :
       Pending(srvQ, m) /\ m.event = "FD_ACCEPT"
         => m = AcceptMsg /\ backlog # <<>>
  /\ ~Before(srvQ, AcceptMsg, AcceptMsg)

KillInv == ErrorsOfClients /\ AcceptsWaited

\* A shorter queue with the same connections.
LEMMA KillFrame ==
  ASSUME KillInv, NetTypeOK, UNCHANGED <<rst, backlog, sstatus>>,
         \A m : Pending(srvQ', m) => Pending(srvQ, m),
         \A m, n : Before(srvQ', m, n) => Before(srvQ, m, n)
  PROVE  KillInv'
  <1>1. ErrorsOfClients'
    BY DEF KillInv, ErrorsOfClients, ByClient
  <1>2. AcceptsWaited'
    BY DEF KillInv, AcceptsWaited
  <1> QED  BY <1>1, <1>2 DEF KillInv

\* Messages that are neither errors nor FD_ACCEPT do not matter.
LEMMA KillHarmless ==
  ASSUME KillInv, NetTypeOK, UNCHANGED <<rst, backlog, sstatus>>,
         \A m \in EventMsg :
           Pending(srvQ', m)
             => Pending(srvQ, m) \/ (~m.error /\ m.event # "FD_ACCEPT"),
         Before(srvQ', AcceptMsg, AcceptMsg)
           => Before(srvQ, AcceptMsg, AcceptMsg)
  PROVE  KillInv'
  <1>1. ErrorsOfClients'
    BY DEF KillInv, ErrorsOfClients, ByClient
  <1>2. AcceptsWaited'
    BY DEF KillInv, AcceptsWaited
  <1> QED  BY <1>1, <1>2 DEF KillInv

LEMMA KillOutside ==
  ASSUME KillInv, NetTypeOK, NEW c \in Clients, UNCHANGED sstatus,
         Ends(c) \/ Quiet(c) \/ Writes(c) \/ Establish(c)
  PROVE  KillInv'
  <1>1. /\ srvQ \in Seq(EventMsg) /\ backlog \in Seq(Clients)
        /\ rst \in [Clients -> ResetCause]
    BY DEF NetTypeOK
  <1>2. CASE Quiet(c)
    BY <1>2, KillFrame DEF Quiet
  <1>3. CASE Writes(c)
    <2> DEFINE m0 == Event(c, "FD_READ", FALSE)
    <2>1. m0 \in EventMsg
      BY EventFacts
    <2>2. m0 # AcceptMsg /\ m0.event = "FD_READ" /\ ~m0.error
      BY EventFacts
    <2>3. srvQ' = srvQ \/ srvQ' = Post(srvQ, m0)
      BY <1>3 DEF Writes
    <2> HIDE DEF m0
    <2>4. /\ \A m : Pending(srvQ', m) => Pending(srvQ, m) \/ m = m0
          /\ \A m, n : Before(srvQ', m, n) => Before(srvQ, m, n) \/ n = m0
      BY <1>1, <2>1, <2>3, PostQueue
    <2>5. UNCHANGED <<rst, backlog, sstatus>>
      BY <1>3 DEF Writes
    <2> QED  BY <2>2, <2>4, <2>5, KillHarmless
  <1>4. CASE Establish(c)
    <2>1. /\ srvQ' = Post(srvQ, AcceptMsg)
          /\ backlog' = Append(backlog, c)
          /\ UNCHANGED rst
      BY <1>4 DEF Establish, AcceptMsg
    <2>2. backlog' # <<>>
      BY <1>1, <2>1, AppendProperties, EmptySeq
    <2>3. /\ \A m : Pending(srvQ', m) => Pending(srvQ, m) \/ m = AcceptMsg
          /\ \A m, n : Before(srvQ', m, n)
               => \/ Before(srvQ, m, n)
                  \/ Pending(srvQ, m) /\ n = AcceptMsg
                     /\ ~Pending(srvQ, AcceptMsg)
      BY <1>1, <2>1, AcceptFacts, PostQueue
    <2>4. ErrorsOfClients'
      BY <2>1, <2>3, AcceptFacts
         DEF KillInv, ErrorsOfClients, ByClient
    <2>5. AcceptsWaited'
      BY <2>2, <2>3 DEF KillInv, AcceptsWaited
    <2> QED  BY <2>4, <2>5 DEF KillInv
  <1>5. CASE Ends(c)
    <2>1. /\ UNCHANGED backlog
          /\ \/ rst' = rst
             \/ /\ rst[c] = "no"
                /\ \E cause \in {"client", "unread"} :
                     rst' = [rst EXCEPT ![c] = cause]
          /\ UNCHANGED <<srvQ, fdClose>> \/ Closing(c)
      BY <1>5 DEF Ends
    <2>2. \A d \in Clients : /\ ByClient(d) => ByClient(d)'
                             /\ rst[d] # "server" => rst'[d] # "server"
      BY <1>1, <2>1 DEF ByClient
    <2>3. CASE UNCHANGED srvQ
      <3>1. ErrorsOfClients'
        BY <2>2, <2>3 DEF KillInv, ErrorsOfClients
      <3>2. AcceptsWaited'
        BY <2>1, <2>3 DEF KillInv, AcceptsWaited
      <3> QED  BY <3>1, <3>2 DEF KillInv
    <2>4. CASE Closing(c)
      <3>1. PICK err \in BOOLEAN :
              /\ srvQ' = Append(srvQ, Event(c, "FD_CLOSE", err))
              /\ err => ByClient(c)'
        BY <2>4 DEF Closing
      <3> DEFINE m0 == Event(c, "FD_CLOSE", err)
      <3>2. m0 \in EventMsg
        BY EventFacts
      <3>3. /\ m0 # AcceptMsg /\ m0.event = "FD_CLOSE" /\ m0.sock = c
            /\ m0.error <=> err
        BY EventFacts
      <3>4. srvQ' = Append(srvQ, m0)
        BY <3>1
      <3> HIDE DEF m0
      <3>5. /\ \A m : Pending(srvQ', m) => Pending(srvQ, m) \/ m = m0
            /\ \A m, n : Before(srvQ', m, n) => Before(srvQ, m, n) \/ n = m0
        BY <1>1, <3>2, <3>4, AppendQueue
      <3>6. ErrorsOfClients'
        <4>1. ASSUME NEW m \in EventMsg, Pending(srvQ', m), m.error
              PROVE  \E d \in Clients :
                       m = Event(d, "FD_CLOSE", TRUE) /\ ByClient(d)'
          <5>1. CASE m = m0
            BY <3>1, <3>3, <4>1, <5>1 DEF m0
          <5>2. CASE Pending(srvQ, m)
            BY <2>2, <4>1, <5>2 DEF KillInv, ErrorsOfClients
          <5> QED  BY <3>5, <4>1, <5>1, <5>2
        <4> QED  BY <2>2, <4>1 DEF KillInv, ErrorsOfClients
      <3>7. AcceptsWaited'
        BY <2>1, <3>3, <3>5 DEF KillInv, AcceptsWaited
      <3> QED  BY <3>6, <3>7 DEF KillInv
    <2> QED  BY <2>1, <2>3, <2>4
  <1> QED  BY <1>2, <1>3, <1>4, <1>5

\* What is left of the network when the server is gone.
LEMMA KillGone ==
  ASSUME NEW how \in {"exited", "died"}, ServerGone(how)
  PROVE  KillInv'
  <1>1. srvQ' = <<>> /\ sstatus' = how
    BY DEF ServerGone
  <1>2. ErrorsOfClients'
    BY <1>1, NoQueue DEF ErrorsOfClients
  <1>3. AcceptsWaited'
    BY <1>1, NoQueue DEF AcceptsWaited
  <1> QED  BY <1>2, <1>3 DEF KillInv

LEMMA KillServer ==
  ASSUME KillInv, TypeInv, ServerStep
  PROVE  KillInv'
  <1>1. /\ NetTypeOK /\ ServerTypeOK
        /\ srvQ \in Seq(EventMsg) /\ backlog \in Seq(Clients)
    BY DEF TypeInv, TypeOK, NetTypeOK
  <1>2. ASSUME Dispatching
        PROVE  /\ srvQ # <<>> /\ sstatus \notin {"exited", "died"}
               /\ Head(srvQ) \in EventMsg
               /\ Tail(srvQ) \in Seq(EventMsg)
               /\ Pending(srvQ, Head(srvQ))
               /\ \A m : Pending(Tail(srvQ), m)
                     => Pending(srvQ, m) /\ Before(srvQ, Head(srvQ), m)
               /\ \A m, n : Before(Tail(srvQ), m, n) => Before(srvQ, m, n)
    <2>1. srvQ # <<>> /\ sstatus \notin {"exited", "died"}
      BY <1>2 DEF Dispatching
    <2> QED  BY <1>1, <2>1, TailQueue
  <1>3. ASSUME Handling("FD_ACCEPT")
        PROVE  Dispatching /\ Head(srvQ) = AcceptMsg /\ backlog # <<>>
    <2>1. Dispatching /\ Head(srvQ).event = "FD_ACCEPT"
      BY <1>3 DEF Handling
    <2> QED  BY <1>2, <2>1 DEF KillInv, AcceptsWaited
  <1>4. CASE OnError
    BY <1>4, KillGone DEF OnError
  <1>5. CASE Handling("FD_ACCEPT") /\ AcceptFails /\ ServerGone("died")
    BY <1>5, KillGone
  <1>6. ASSUME NEW c \in Clients, Accepts(c)
        PROVE  KillInv'
    <2>1. /\ Dispatching /\ Head(srvQ) = AcceptMsg
          /\ backlog' = Tail(backlog) /\ UNCHANGED <<sstatus, rst>>
      BY <1>3, <1>6 DEF Accepts
    <2>2. PICK ended \in BOOLEAN :
            srvQ' = AcceptQueue(Tail(srvQ), c, up[c] # <<>>, ended,
                                Tail(backlog) # <<>>)
      BY <1>6 DEF Accepts
    <2>3. /\ \A m : Pending(srvQ', m)
               => \/ Pending(Tail(srvQ), m)
                  \/ m \in {WriteMsg(c), ReadMsg(c), CloseMsg(c)}
                  \/ m = AcceptMsg /\ Tail(backlog) # <<>>
          /\ \A m, n : Before(srvQ', m, n)
               => \/ Before(Tail(srvQ), m, n)
                  \/ Pending(Tail(srvQ), m)
                  \/ m \in {WriteMsg(c), ReadMsg(c), CloseMsg(c)}
      <3> DEFINE unread == up[c] # <<>>
                 waiting == Tail(backlog) # <<>>
                 q == Tail(srvQ)
      <3>1. unread \in BOOLEAN /\ waiting \in BOOLEAN /\ q \in Seq(EventMsg)
        BY <1>2, <2>1
      <3>2. srvQ' = AcceptQueue(q, c, unread, ended, waiting)
        BY <2>2
      <3> HIDE DEF unread, q, waiting
      <3>3. /\ \A m : Pending(srvQ', m)
                 => \/ Pending(q, m)
                    \/ m \in {WriteMsg(c), ReadMsg(c), CloseMsg(c)}
                    \/ m = AcceptMsg /\ waiting
            /\ \A m, n : Before(srvQ', m, n)
                 => \/ Before(q, m, n)
                    \/ Pending(q, m)
                    \/ m \in {WriteMsg(c), ReadMsg(c), CloseMsg(c)}
        BY <3>1, <3>2, AcceptQueueFacts
      <3> QED  BY <3>3 DEF q, waiting
    <2>4. \A m \in {WriteMsg(c), ReadMsg(c), CloseMsg(c)} :
            m # AcceptMsg /\ ~m.error /\ m.event # "FD_ACCEPT"
      BY MsgFacts
    <2>5. ~Pending(Tail(srvQ), AcceptMsg)
      BY <1>2, <2>1 DEF KillInv, AcceptsWaited
    <2>6. ~Before(srvQ', AcceptMsg, AcceptMsg)
      BY <1>2, <2>1, <2>3, <2>4, <2>5 DEF KillInv, AcceptsWaited
    <2>7. ASSUME NEW m \in EventMsg, Pending(srvQ', m)
          PROVE  \/ Pending(srvQ, m) /\ m # AcceptMsg
                 \/ m = AcceptMsg /\ Tail(backlog) # <<>>
                 \/ ~m.error /\ m.event # "FD_ACCEPT"
      BY <1>2, <2>1, <2>3, <2>4, <2>5, <2>7
    <2>8. ErrorsOfClients'
      BY <2>1, <2>7, AcceptFacts
         DEF KillInv, ErrorsOfClients, ByClient
    <2>9. AcceptsWaited'
      BY <2>1, <2>6, <2>7 DEF KillInv, AcceptsWaited
    <2> QED  BY <2>8, <2>9 DEF KillInv
  <1>7. ASSUME NEW c \in Clients, NEW k \in Nat, Reads(c, k)
        PROVE  KillInv'
    <2>1. Dispatching /\ UNCHANGED <<rst, backlog, sstatus>>
      BY <1>7 DEF Reads, Handling
    <2>2. PICK ended \in BOOLEAN :
            srvQ' = ReadQueue(Tail(srvQ), c, Rest(up[c], k) # <<>>, ended)
      BY <1>7 DEF Reads
    <2>3. /\ \A m : Pending(srvQ', m)
               => Pending(Tail(srvQ), m) \/ m \in {ReadMsg(c), CloseMsg(c)}
          /\ \A m, n : Before(srvQ', m, n)
               => Before(Tail(srvQ), m, n) \/ n \in {ReadMsg(c), CloseMsg(c)}
      <3> DEFINE more == Rest(up[c], k) # <<>>
      <3>1. more \in BOOLEAN /\ Tail(srvQ) \in Seq(EventMsg)
        BY <1>2, <2>1
      <3>2. srvQ' = ReadQueue(Tail(srvQ), c, more, ended)
        BY <2>2
      <3> HIDE DEF more
      <3> QED  BY <3>1, <3>2, ReadQueueFacts
    <2>4. \A m \in {ReadMsg(c), CloseMsg(c)} :
            m # AcceptMsg /\ ~m.error /\ m.event # "FD_ACCEPT"
      BY MsgFacts
    <2>5. Before(srvQ', AcceptMsg, AcceptMsg)
            => Before(srvQ, AcceptMsg, AcceptMsg)
      BY <1>2, <2>1, <2>3, <2>4
    <2>6. \A m \in EventMsg :
            Pending(srvQ', m)
              => Pending(srvQ, m) \/ (~m.error /\ m.event # "FD_ACCEPT")
      BY <1>2, <2>1, <2>3, <2>4
    <2> QED  BY <1>1, <2>1, <2>5, <2>6, KillHarmless
  <1>8. CASE Skips
    <2>1. /\ Dispatching /\ srvQ' = Tail(srvQ)
          /\ UNCHANGED <<rst, backlog, sstatus>>
      BY <1>8 DEF Skips
    <2> QED  BY <1>1, <1>2, <2>1, KillFrame
  <1>9. CASE ServerQuit
    BY <1>9, KillGone DEF ServerQuit
  <1>10. CASE StartListening \/ ServerUser
    <2>1. /\ UNCHANGED <<rst, backlog, srvQ>>
          /\ sstatus \notin {"exited", "died"}
      BY <1>10 DEF StartListening, ServerUser, netVars
    <2>2. ErrorsOfClients'
      BY <2>1 DEF KillInv, ErrorsOfClients, ByClient
    <2>3. AcceptsWaited'
      BY <2>1 DEF KillInv, AcceptsWaited
    <2> QED  BY <2>2, <2>3 DEF KillInv
  <1> QED
    BY <1>1, <1>4, <1>5, <1>6, <1>7, <1>8, <1>9, <1>10, ServerSteps

\* A connection that was reset because of unread data still has that data.
UnreadInv == \A c \in Clients : rst[c] = "unread" => down[c] # <<>>

LEMMA UnreadStep ==
  ASSUME NetTypeOK, UnreadInv, [Next]_vars
  PROVE  UnreadInv'
  <1>1. /\ rst \in [Clients -> ResetCause]
        /\ down \in [Clients -> Seq(Nat)]
    BY DEF NetTypeOK
  <1>2. CASE UNCHANGED <<rst, down>>
    BY <1>2 DEF UnreadInv
  <1>3. ASSUME NEW c \in Clients, NEW cause, Disconnect(c, cause),
               cause = "unread" => down[c] # <<>>
        PROVE  UnreadInv'
    <2>1. /\ down' = down
          /\ rst' = rst \/ rst' = [rst EXCEPT ![c] = cause]
      BY <1>3 DEF Disconnect
    <2> QED  BY <1>1, <1>3, <2>1 DEF UnreadInv
  <1>4. ASSUME NEW c \in Clients, ClientStep(c)
        PROVE  UnreadInv'
    <2>1. CASE Dies(c) \/ Quit(c)
      BY <1>3, <2>1 DEF Dies, Quit
    <2>2. CASE PressEscape(c)
      <3>1. PICK cause \in {"no", "unread"} :
              /\ Disconnect(c, cause)
              /\ cause = "unread" => down[c] # <<>>
        BY <2>2 DEF PressEscape
      <3> QED  BY <1>3, <3>1
    <2>3. CASE TryToRead(c) /\ ~Dies(c)
      <3>1. /\ rst[c] = "no" /\ rst' = rst
            /\ down' = down \/ \E s : down' = [down EXCEPT ![c] = s]
        BY <2>3 DEF TryToRead, Usable, netVars
      <3> QED  BY <1>1, <3>1 DEF UnreadInv
    <2>4. PressC(c) \/ PressLetter(c) \/ CloseWindow(c) \/ SocketMessage(c)
            \/ TryToWrite(c)
            => Dies(c) \/ UNCHANGED <<rst, down>>
      BY DEF PressC, PressLetter, CloseWindow, SocketMessage, TryToWrite, netVars
    <2> QED
      BY <1>2, <1>4, <2>1, <2>2, <2>3, <2>4 DEF ClientStep, User, ClientLoop
  <1>5. ASSUME NEW c \in Clients, WinSock(c)
        PROVE  UnreadInv'
    <2>1. CASE ResetArrives(c)
      <3>1. /\ down[c] # <<>> /\ down' = down
            /\ rst' = [rst EXCEPT ![c] = "unread"]
        BY <2>1 DEF ResetArrives
      <3> QED  BY <1>1, <3>1 DEF UnreadInv
    <2>2. Establish(c) \/ Refuse(c) => UNCHANGED <<rst, down>>
      BY DEF Establish, Refuse
    <2> QED  BY <1>2, <1>5, <2>1, <2>2 DEF WinSock, NetStep
  <1>6. ASSUME NEW how, ServerGone(how)
        PROVE  UnreadInv'
    <2>1. /\ down' = down
          /\ \A c \in Clients : rst'[c] = rst[c] \/ rst'[c] = "server"
      BY <1>6 DEF ServerGone
    <2> QED  BY <2>1 DEF UnreadInv
  <1>7. CASE OnWrite
    <2> DEFINE c == Head(srvQ).sock
    <2>1. /\ rst' = rst
          /\ \/ down' = down
             \/ rst[c] = "no" /\ \E s : down' = [down EXCEPT ![c] = s]
      BY <1>7 DEF OnWrite
    <2> HIDE DEF c
    <2> QED  BY <1>1, <2>1 DEF UnreadInv
  <1>8. CASE ServerStep
    <2>1. \/ UNCHANGED <<rst, down>>
          \/ \E how : ServerGone(how)
          \/ OnWrite
      BY <1>8 DEF ServerStep, StartListening, ServerLoop, OnError, OnAccept,
                  OnRead, OnClose, OnStray, ServerUser, ServerQuit, netVars
    <2> QED  BY <1>2, <1>6, <1>7, <2>1
  <1>9. CASE UNCHANGED vars
    BY <1>2, <1>9 DEF vars, netVars
  <1> QED  BY <1>4, <1>5, <1>8, <1>9 DEF Next

LEMMA KillInvariant == Spec => [](KillInv /\ UnreadInv)
  <1>1. Init => KillInv /\ UnreadInv
    <2> SUFFICES ASSUME Init PROVE KillInv /\ UnreadInv
      OBVIOUS
    <2>1. srvQ = <<>> /\ sstatus = "starting" /\ \A c \in Clients : rst[c] = "no"
      BY DEF Init, NetInit, ServerInit
    <2> QED
      BY <2>1, NoQueue DEF KillInv, ErrorsOfClients, AcceptsWaited, UnreadInv
  <1>2. LabInv /\ KillInv /\ UnreadInv /\ [Next]_vars => (KillInv /\ UnreadInv)'
    <2> SUFFICES ASSUME LabInv, KillInv, UnreadInv, [Next]_vars
                 PROVE  KillInv' /\ UnreadInv'
      OBVIOUS
    <2>1. TypeInv /\ NetTypeOK
      BY DEF LabInv, TypeInv, TypeOK
    <2>2. UnreadInv'
      BY <2>1, UnreadStep
    <2>3. ASSUME NEW c \in Clients, ClientStep(c) \/ WinSock(c)
          PROVE  KillInv'
      BY <2>1, <2>3, OutsideEffect, KillOutside DEF serverVars
    <2>4. CASE ServerStep
      BY <2>1, <2>2, <2>4, KillServer
    <2>5. CASE UNCHANGED vars
      BY <2>1, <2>2, <2>5, KillFrame DEF vars, netVars, serverVars
    <2> QED  BY <2>2, <2>3, <2>4, <2>5 DEF Next
  <1> QED  BY <1>1, <1>2, LabInvariant, PTL DEF Spec

\* The server aborts only while it handles the message of a client that left
\* abruptly: because of an error that WinSock reports on that client's socket,
\* or because accept() does not get its connection.  accept() is never called
\* without a connection to accept, the listening socket is never in the list,
\* and a client that had all of its welcome and closed in order does no harm.
THEOREM ServerDeathExplained == Spec => ServerDiesOfReset
  <1>1. LabInv /\ KillInv /\ UnreadInv /\ [Next]_vars
          => [sstatus' = "died" /\ sstatus # "died"
                => \E c \in Clients : About(c) /\ LeftAbruptly(c)]_vars
    <2> SUFFICES ASSUME LabInv, KillInv, UnreadInv, Next,
                        sstatus' = "died", sstatus # "died"
                 PROVE  \E c \in Clients : About(c) /\ LeftAbruptly(c)
      OBVIOUS
    <2>1. /\ NetTypeOK /\ ServerTypeOK
          /\ srvQ \in Seq(EventMsg) /\ backlog \in Seq(Clients)
      BY DEF LabInv, TypeInv, TypeOK, NetTypeOK
    <2>2. ServerStep
      BY DEF Next, ClientStep, WinSock, serverVars
    <2>3. OnError \/ (Handling("FD_ACCEPT") /\ AcceptFails)
      BY <2>1, <2>2, ServerSteps
         DEF Accepts, Reads, Skips, ServerQuit, ServerGone, StartListening,
             ServerUser
    <2>4. ASSUME Dispatching
          PROVE  /\ srvQ # <<>> /\ sstatus \notin {"exited", "died"}
                 /\ Head(srvQ) \in EventMsg /\ Pending(srvQ, Head(srvQ))
      BY <2>1, <2>4, TailQueue DEF Dispatching
    <2>5. \A c \in Clients : ByClient(c) => LeftAbruptly(c)
      BY DEF ByClient, LeftAbruptly, UnreadInv
    <2>6. CASE OnError
      <3>1. Dispatching /\ Head(srvQ).error
        BY <2>6 DEF OnError, Fatal
      <3>2. PICK c \in Clients :
              Head(srvQ) = Event(c, "FD_CLOSE", TRUE) /\ ByClient(c)
        BY <2>4, <3>1 DEF KillInv, ErrorsOfClients
      <3> QED  BY <2>4, <2>5, <3>1, <3>2 DEF About
    <2>7. CASE Handling("FD_ACCEPT") /\ AcceptFails
      <3>1. Dispatching /\ Head(srvQ).event = "FD_ACCEPT"
        BY <2>7 DEF Handling
      <3>2. backlog # <<>>
        BY <2>4, <3>1 DEF KillInv, AcceptsWaited
      <3>3. Head(backlog) \in Clients /\ rst[Head(backlog)] # "no"
        BY <2>1, <2>7, <3>2, HeadTailProperties DEF AcceptFails
      <3>4. ByClient(Head(backlog))
        BY <2>1, <2>4, <3>1, <3>3
           DEF NetTypeOK, ResetCause, KillInv, ErrorsOfClients, ByClient
      <3> QED  BY <2>4, <2>5, <3>1, <3>2, <3>3, <3>4 DEF About
    <2> QED  BY <2>3, <2>6, <2>7
  <1> QED
    BY <1>1, LabInvariant, KillInvariant, PTL DEF Spec, ServerDiesOfReset

-----------------------------------------------------------------------------
(* Nothing that a listed client has sent waits unannounced.                *)

ReadsInv ==
  /\ ReadsAnnounced
  /\ sstatus = "starting" => clients = {}

LEMMA ReadsOutside ==
  ASSUME ReadsInv, TypeInv, NEW c \in Clients, UNCHANGED serverVars,
         Ends(c) \/ Quiet(c) \/ Writes(c) \/ Establish(c)
  PROVE  ReadsInv'
  <1>1. /\ NetTypeOK /\ ServerTypeOK /\ ListedOpen
        /\ srvQ \in Seq(EventMsg) /\ clients \subseteq Clients
    BY DEF TypeInv, TypeOK, NetTypeOK, ServerTypeOK
  <1>2. /\ UNCHANGED <<sstatus, clients>>
        /\ \A d : Event(d, "FD_READ", FALSE) = ReadMsg(d)
    BY DEF serverVars, ReadMsg
  <1> SUFFICES ASSUME NEW d \in clients, up'[d] # <<>>, rst'[d] = "no",
                      sstatus \in {"running", "quitting"}
               PROVE  Pending(srvQ', ReadMsg(d))
    BY <1>2 DEF ReadsInv, ReadsAnnounced
  <1>3. d \in Clients /\ d \in sockets
    BY <1>1 DEF ListedOpen
  <1>4. up[d] # <<>> /\ rst[d] = "no" => Pending(srvQ, ReadMsg(d))
    BY <1>2 DEF ReadsInv, ReadsAnnounced
  <1>5. CASE Quiet(c)
    BY <1>4, <1>5 DEF Quiet
  <1>6. CASE Writes(c)
    <2>1. /\ UNCHANGED rst
          /\ c # d => up'[d] = up[d]
          /\ srvQ' = IF c \in sockets THEN Post(srvQ, ReadMsg(c)) ELSE srvQ
      BY <1>1, <1>3, <1>6 DEF Writes, NetTypeOK, ReadMsg
    <2>2. ReadMsg(c) \in EventMsg
      BY MsgFacts
    <2>3. Pending(srvQ, ReadMsg(d)) => Pending(srvQ', ReadMsg(d))
      BY <1>1, <2>1, <2>2, PostQueue
    <2>4. c = d => Pending(srvQ', ReadMsg(d))
      BY <1>1, <1>3, <2>1, <2>2, PostQueue
    <2> QED  BY <1>4, <2>1, <2>3, <2>4
  <1>7. CASE Establish(c)
    <2>1. UNCHANGED <<up, rst>> /\ srvQ' = Post(srvQ, AcceptMsg)
      BY <1>7 DEF Establish, AcceptMsg
    <2> QED  BY <1>1, <1>4, <2>1, AcceptFacts, PostQueue
  <1>8. CASE Ends(c)
    <2>1. UNCHANGED up /\ rst[d] = "no"
      BY <1>1, <1>3, <1>8 DEF Ends, NetTypeOK
    <2>2. Pending(srvQ, ReadMsg(d))
      BY <1>4, <2>1
    <2>3. CASE UNCHANGED srvQ
      BY <2>2, <2>3
    <2>4. CASE Closing(c)
      <3>1. PICK err \in BOOLEAN : srvQ' = Append(srvQ, Event(c, "FD_CLOSE", err))
        BY <2>4 DEF Closing
      <3>2. Event(c, "FD_CLOSE", err) \in EventMsg
        BY EventFacts
      <3> QED  BY <1>1, <2>2, <3>1, <3>2, AppendQueue
    <2> QED  BY <1>8, <2>3, <2>4 DEF Ends
  <1> QED  BY <1>5, <1>6, <1>7, <1>8

LEMMA ReadsServer ==
  ASSUME ReadsInv, TypeInv, ServerStep
  PROVE  ReadsInv'
  <1>1. /\ NetTypeOK /\ ServerTypeOK
        /\ srvQ \in Seq(EventMsg) /\ clients \subseteq Clients
    BY DEF TypeInv, TypeOK, NetTypeOK, ServerTypeOK
  <1>2. /\ \A d : Event(d, "FD_READ", FALSE) = ReadMsg(d)
        /\ \A d \in clients :
             up[d] # <<>> /\ rst[d] = "no" /\ sstatus \in {"running", "quitting"}
               => Pending(srvQ, ReadMsg(d))
    BY DEF ReadMsg, ReadsInv, ReadsAnnounced
  <1>3. ASSUME Dispatching
        PROVE  /\ sstatus \in {"running", "quitting"}
               /\ Tail(srvQ) \in Seq(EventMsg)
               /\ \A m : Pending(srvQ, m) /\ m # Head(srvQ)
                           => Pending(Tail(srvQ), m)
    <2>1. srvQ # <<>> /\ sstatus \in {"running", "quitting"}
      BY <1>3 DEF Dispatching
    <2> QED  BY <1>1, <2>1, TailQueue
  <1>4. \A d \in Clients :
          ReadMsg(d).event = "FD_READ" /\ ReadMsg(d).sock = d
    BY MsgFacts
  <1>5. ASSUME sstatus' \in {"exited", "died"}  PROVE ReadsInv'
    BY <1>5 DEF ReadsInv, ReadsAnnounced
  <1>6. ASSUME NEW c \in Clients, Accepts(c)
        PROVE  ReadsInv'
    <2>1. /\ Dispatching /\ Head(srvQ).event = "FD_ACCEPT"
          /\ clients' = clients \cup {c} /\ UNCHANGED <<sstatus, up, rst>>
      BY <1>6 DEF Accepts, Handling
    <2>2. PICK ended \in BOOLEAN :
            srvQ' = AcceptQueue(Tail(srvQ), c, up[c] # <<>>, ended,
                                Tail(backlog) # <<>>)
      BY <1>6 DEF Accepts
    <2>3. /\ \A m : Pending(Tail(srvQ), m) => Pending(srvQ', m)
          /\ up[c] # <<>> => Pending(srvQ', ReadMsg(c))
      <3> DEFINE unread == up[c] # <<>>
                 waiting == Tail(backlog) # <<>>
      <3>1. unread \in BOOLEAN /\ waiting \in BOOLEAN
        OBVIOUS
      <3>2. srvQ' = AcceptQueue(Tail(srvQ), c, unread, ended, waiting)
        BY <2>2
      <3> HIDE DEF unread, waiting
      <3>3. /\ \A m : Pending(Tail(srvQ), m) => Pending(srvQ', m)
            /\ unread => Pending(srvQ', ReadMsg(c))
        BY <1>3, <2>1, <3>1, <3>2, AcceptQueueFacts
      <3> QED  BY <3>3 DEF unread
    <2>4. ASSUME NEW d \in clients', up'[d] # <<>>, rst'[d] = "no"
          PROVE  Pending(srvQ', ReadMsg(d))
      <3>1. CASE d = c
        BY <2>1, <2>3, <2>4, <3>1
      <3>2. CASE d # c
        <4>1. d \in clients /\ d \in Clients /\ Pending(srvQ, ReadMsg(d))
          BY <1>1, <1>2, <1>3, <2>1, <2>4, <3>2
        <4>2. ReadMsg(d) # Head(srvQ)
          BY <1>4, <2>1, <4>1
        <4> QED  BY <1>3, <2>1, <2>3, <4>1, <4>2
      <3> QED  BY <3>1, <3>2
    <2>5. sstatus' # "starting"
      BY <1>3, <2>1
    <2> QED  BY <1>2, <2>4, <2>5 DEF ReadsInv, ReadsAnnounced
  <1>7. ASSUME NEW c \in Clients, NEW k \in Nat, Reads(c, k)
        PROVE  ReadsInv'
    <2>1. /\ Dispatching /\ c = Head(srvQ).sock
          /\ up' = [up EXCEPT ![c] = Rest(up[c], k)]
          /\ UNCHANGED <<sstatus, clients, rst>>
      BY <1>7 DEF Reads, Handling
    <2>2. PICK ended \in BOOLEAN :
            srvQ' = ReadQueue(Tail(srvQ), c, Rest(up[c], k) # <<>>, ended)
      BY <1>7 DEF Reads
    <2>3. /\ \A m : Pending(Tail(srvQ), m) => Pending(srvQ', m)
          /\ Rest(up[c], k) # <<>> => Pending(srvQ', ReadMsg(c))
      <3> DEFINE more == Rest(up[c], k) # <<>>
      <3>1. more \in BOOLEAN /\ Tail(srvQ) \in Seq(EventMsg)
        BY <1>3, <2>1
      <3>2. srvQ' = ReadQueue(Tail(srvQ), c, more, ended)
        BY <2>2
      <3> HIDE DEF more
      <3>3. /\ \A m : Pending(Tail(srvQ), m) => Pending(srvQ', m)
            /\ more => Pending(srvQ', ReadMsg(c))
        BY <3>1, <3>2, ReadQueueFacts
      <3> QED  BY <3>3 DEF more
    <2>4. ASSUME NEW d \in clients, up'[d] # <<>>, rst[d] = "no"
          PROVE  Pending(srvQ', ReadMsg(d))
      <3>1. CASE d = c
        <4>1. up'[c] = Rest(up[c], k)
          BY <1>1, <2>1 DEF NetTypeOK
        <4> QED  BY <2>3, <2>4, <3>1, <4>1
      <3>2. CASE d # c
        <4>1. d \in Clients /\ up'[d] = up[d]
          BY <1>1, <2>1, <3>2 DEF NetTypeOK
        <4>2. Pending(srvQ, ReadMsg(d)) /\ ReadMsg(d) # Head(srvQ)
          BY <1>2, <1>3, <1>4, <2>1, <2>4, <3>2, <4>1
        <4> QED  BY <1>3, <2>1, <2>3, <4>2
      <3> QED  BY <3>1, <3>2
    <2>5. sstatus' # "starting"
      BY <1>3, <2>1
    <2> QED  BY <1>2, <2>1, <2>4, <2>5 DEF ReadsInv, ReadsAnnounced
  <1>8. CASE Skips
    <2>1. /\ Dispatching /\ srvQ' = Tail(srvQ) /\ clients' \subseteq clients
          /\ Head(srvQ).event = "FD_READ" /\ Head(srvQ).sock \in clients
               => rst[Head(srvQ).sock] # "no" \/ up[Head(srvQ).sock] = <<>>
          /\ UNCHANGED <<sstatus, up, rst>>
      BY <1>8 DEF Skips
    <2>2. ASSUME NEW d \in clients', up[d] # <<>>, rst[d] = "no"
          PROVE  Pending(srvQ', ReadMsg(d))
      <3>1. d \in clients /\ d \in Clients /\ Pending(srvQ, ReadMsg(d))
        BY <1>1, <1>2, <1>3, <2>1, <2>2
      <3>2. ReadMsg(d) # Head(srvQ)
        BY <1>4, <2>1, <2>2, <3>1
      <3> QED  BY <1>3, <2>1, <3>1, <3>2
    <2>3. sstatus' # "starting"
      BY <1>3, <2>1
    <2> QED  BY <1>2, <2>1, <2>2, <2>3 DEF ReadsInv, ReadsAnnounced
  <1>9. CASE OnError \/ ServerGone("died") \/ ServerQuit
    BY <1>5, <1>9 DEF OnError, ServerQuit, ServerGone
  <1>10. CASE StartListening
    BY <1>10 DEF StartListening, ReadsInv, ReadsAnnounced
  <1>11. CASE ServerUser
    BY <1>2, <1>11 DEF ServerUser, netVars, ReadsInv, ReadsAnnounced
  <1> QED
    BY <1>1, <1>6, <1>7, <1>8, <1>9, <1>10, <1>11, ServerSteps

\* While something can be read from a listed client, its window has been told
\* so: doRead()'s single recv() loses no event that is not posted again.
THEOREM ReadsTold == Spec => []ReadsAnnounced
  <1>1. Init => ReadsInv
    BY DEF Init, ServerInit, ReadsInv, ReadsAnnounced
  <1>2. LabInv /\ ReadsInv /\ [Next]_vars => ReadsInv'
    <2> SUFFICES ASSUME LabInv, ReadsInv, [Next]_vars PROVE ReadsInv'
      OBVIOUS
    <2>1. TypeInv /\ NetTypeOK
      BY DEF LabInv, TypeInv, TypeOK
    <2>2. ASSUME NEW c \in Clients, ClientStep(c) \/ WinSock(c)
          PROVE  ReadsInv'
      BY <2>1, <2>2, OutsideEffect, ReadsOutside
    <2>3. CASE ServerStep
      BY <2>1, <2>3, ReadsServer
    <2>4. CASE UNCHANGED vars
      BY <2>4 DEF vars, netVars, serverVars, ReadsInv, ReadsAnnounced
    <2> QED  BY <2>2, <2>3, <2>4 DEF Next
  <1>3. ReadsInv => ReadsAnnounced
    BY DEF ReadsInv
  <1> QED  BY <1>1, <1>2, <1>3, LabInvariant, PTL DEF Spec

-----------------------------------------------------------------------------
(* An orderly close is the last that the server hears of a client.  Here   *)
(* FD_CLOSE does not overtake data that is still unread.                   *)

\* FD_CLOSE is posted when there is nothing left to read, and stands behind all
\* other messages about its socket.
CloseIsLast ==
  \A c \in Clients :
    /\ Pending(srvQ, CloseMsg(c))
         => tcp[c] = "closed" /\ up[c] = <<>> /\ c \in fdClose
    /\ \A m \in EventMsg : m.sock = c => ~Before(srvQ, CloseMsg(c), m)

\* What is open and not listed has been closed by its client.
UnlistedClosed ==
  \A c \in sockets \ clients : tcp[c] = "closed" /\ c \in fdClose

NoStray ==
  \A m \in EventMsg : Pending(srvQ, m) => m.sock \in clients \cup {serverSocket}

CloseInv == CloseIsLast /\ UnlistedClosed /\ NoStray

\* CloseMsg(c) tells its client.
LEMMA CloseMsgFacts ==
  ASSUME NEW c \in Clients, NEW d \in Clients
  PROVE  /\ CloseMsg(c) = CloseMsg(d) => c = d
         /\ CloseMsg(c) \notin {ReadMsg(d), WriteMsg(d), AcceptMsg}
         /\ Event(d, "FD_CLOSE", TRUE) # CloseMsg(c)
  <1>1. /\ CloseMsg(c).sock = c /\ CloseMsg(d).sock = d
        /\ CloseMsg(c).event = "FD_CLOSE" /\ ~CloseMsg(c).error
        /\ CloseMsg(c) # AcceptMsg
    BY EventFacts DEF CloseMsg
  <1>2. /\ ReadMsg(d).event = "FD_READ"
        /\ WriteMsg(d).event = "FD_WRITE"
        /\ Event(d, "FD_CLOSE", TRUE).error
    BY EventFacts DEF ReadMsg, WriteMsg
  <1> QED  BY <1>1, <1>2

\* A message without an error is known by its socket and its event.
LEMMA CloseMsgIs ==
  ASSUME NEW m \in EventMsg, m.event = "FD_CLOSE", ~m.error
  PROVE  m = CloseMsg(m.sock)
  BY DEF EventMsg, CloseMsg, Event

LEMMA CloseOutside ==
  ASSUME ~EagerClose, CloseInv, TypeInv, NEW c \in Clients, UNCHANGED serverVars,
         Ends(c) \/ Quiet(c) \/ Writes(c) \/ Establish(c)
  PROVE  CloseInv'
  <1>1. /\ NetTypeOK /\ ServerTypeOK
        /\ srvQ \in Seq(EventMsg) /\ clients \subseteq Clients
        /\ sockets \subseteq Clients /\ UNCHANGED clients
        /\ tcp \in [Clients -> TcpState] /\ up \in [Clients -> Seq(Nat)]
    BY DEF TypeInv, TypeOK, NetTypeOK, ServerTypeOK, serverVars
  <1>2. CASE Quiet(c)
    <2>1. /\ UNCHANGED <<up, srvQ, fdClose, sockets>>
          /\ \A d \in Clients : tcp[d] = "closed" => tcp'[d] = "closed"
      BY <1>1, <1>2 DEF Quiet, Early
    <2>2. CloseIsLast'
      BY <2>1 DEF CloseInv, CloseIsLast
    <2>3. UnlistedClosed' /\ NoStray'
      BY <1>1, <2>1 DEF CloseInv, UnlistedClosed, NoStray
    <2> QED  BY <2>2, <2>3 DEF CloseInv
  <1>3. CASE Writes(c)
    <2>1. /\ tcp[c] = "up"
          /\ \A d \in Clients : d # c => up'[d] = up[d]
          /\ srvQ' = IF c \in sockets THEN Post(srvQ, ReadMsg(c)) ELSE srvQ
          /\ UNCHANGED <<tcp, fdClose, sockets>>
      BY <1>1, <1>3 DEF Writes, ReadMsg
    <2>2. ReadMsg(c) \in EventMsg /\ ReadMsg(c).sock = c
      BY MsgFacts
    <2>3. /\ \A m : Pending(srvQ', m)
               => Pending(srvQ, m) \/ (m = ReadMsg(c) /\ c \in sockets)
          /\ \A m, n : Before(srvQ', m, n)
               => Before(srvQ, m, n) \/ (Pending(srvQ, m) /\ n = ReadMsg(c))
      BY <1>1, <2>1, <2>2, PostQueue
    <2>4. ~Pending(srvQ, CloseMsg(c))
      BY <2>1 DEF CloseInv, CloseIsLast
    <2>5. CloseIsLast'
      <3>1. ASSUME NEW d \in Clients, Pending(srvQ', CloseMsg(d))
            PROVE  tcp'[d] = "closed" /\ up'[d] = <<>> /\ d \in fdClose'
        <4>1. CloseMsg(d) # ReadMsg(c)
          BY CloseMsgFacts
        <4>2. Pending(srvQ, CloseMsg(d)) /\ d # c
          BY <2>3, <2>4, <3>1, <4>1
        <4> QED  BY <2>1, <4>2 DEF CloseInv, CloseIsLast
      <3>2. ASSUME NEW d \in Clients, NEW m \in EventMsg, m.sock = d
            PROVE  ~Before(srvQ', CloseMsg(d), m)
        BY <2>2, <2>3, <2>4, <3>2 DEF CloseInv, CloseIsLast
      <3> QED  BY <3>1, <3>2 DEF CloseIsLast
    <2>6. UnlistedClosed'
      BY <1>1, <2>1 DEF CloseInv, UnlistedClosed
    <2>7. c \in sockets => c \in clients
      BY <2>1 DEF CloseInv, UnlistedClosed
    <2>8. NoStray'
      BY <1>1, <2>2, <2>3, <2>7 DEF CloseInv, NoStray
    <2> QED  BY <2>5, <2>6, <2>8 DEF CloseInv
  <1>4. CASE Establish(c)
    <2>1. /\ tcp[c] # "closed"
          /\ \A d \in Clients : d # c => tcp'[d] = tcp[d]
          /\ srvQ' = Post(srvQ, AcceptMsg)
          /\ UNCHANGED <<up, fdClose, sockets>>
      BY <1>1, <1>4 DEF Establish, AcceptMsg
    <2>2. /\ \A m : Pending(srvQ', m) => Pending(srvQ, m) \/ m = AcceptMsg
          /\ \A m, n : Before(srvQ', m, n) => Before(srvQ, m, n) \/ n = AcceptMsg
      BY <1>1, <2>1, AcceptFacts, PostQueue
    <2>3. CloseIsLast'
      <3>1. ASSUME NEW d \in Clients, Pending(srvQ', CloseMsg(d))
            PROVE  tcp'[d] = "closed" /\ up'[d] = <<>> /\ d \in fdClose'
        <4>1. Pending(srvQ, CloseMsg(d))
          BY <2>2, <3>1, CloseMsgFacts
        <4> QED  BY <2>1, <4>1 DEF CloseInv, CloseIsLast
      <3>2. ASSUME NEW d \in Clients, NEW m \in EventMsg, m.sock = d
            PROVE  ~Before(srvQ', CloseMsg(d), m)
        BY <2>2, <3>2, AcceptFacts, NetAssumption DEF CloseInv, CloseIsLast
      <3> QED  BY <3>1, <3>2 DEF CloseIsLast
    <2>4. UnlistedClosed'
      BY <1>1, <2>1 DEF CloseInv, UnlistedClosed
    <2>5. NoStray'
      BY <1>1, <2>2, AcceptFacts DEF CloseInv, NoStray
    <2> QED  BY <2>3, <2>4, <2>5 DEF CloseInv
  <1>5. CASE Ends(c)
    <2>1. /\ \A d \in Clients : tcp[d] = "closed" => tcp'[d] = "closed"
          /\ UNCHANGED <<up, sockets>>
          /\ UNCHANGED <<srvQ, fdClose>> \/ Closing(c)
      BY <1>1, <1>5 DEF Ends
    <2>2. CASE UNCHANGED <<srvQ, fdClose>>
      <3>1. CloseIsLast'
        BY <2>1, <2>2 DEF CloseInv, CloseIsLast
      <3>2. UnlistedClosed' /\ NoStray'
        BY <1>1, <2>1, <2>2 DEF CloseInv, UnlistedClosed, NoStray
      <3> QED  BY <3>1, <3>2 DEF CloseInv
    <2>3. CASE Closing(c)
      <3>1. PICK err \in BOOLEAN :
              /\ c \in sockets \ fdClose
              /\ srvQ' = Append(srvQ, Event(c, "FD_CLOSE", err))
              /\ fdClose' = fdClose \cup {c}
              /\ ~err => tcp'[c] = "closed" /\ up[c] = <<>>
        BY <2>3 DEF Closing, CloseDue
      <3> DEFINE m0 == Event(c, "FD_CLOSE", err)
      <3>2. m0 \in EventMsg /\ m0.sock = c
        BY EventFacts
      <3>3. \A d \in Clients : m0 = CloseMsg(d) => d = c /\ ~err
        BY CloseMsgFacts DEF CloseMsg
      <3>4. srvQ' = Append(srvQ, m0)
        BY <3>1
      <3> HIDE DEF m0
      <3>5. /\ \A m : Pending(srvQ', m) => Pending(srvQ, m) \/ m = m0
            /\ \A m, n : Before(srvQ', m, n)
                 => Before(srvQ, m, n) \/ (Pending(srvQ, m) /\ n = m0)
        BY <1>1, <3>2, <3>4, AppendQueue
      <3>6. ~Pending(srvQ, CloseMsg(c))
        BY <3>1 DEF CloseInv, CloseIsLast
      <3>7. ASSUME NEW d \in Clients, Pending(srvQ', CloseMsg(d))
            PROVE  tcp'[d] = "closed" /\ up'[d] = <<>> /\ d \in fdClose'
        <4>1. CASE Pending(srvQ, CloseMsg(d))
          BY <2>1, <3>1, <4>1 DEF CloseInv, CloseIsLast
        <4>2. CASE CloseMsg(d) = m0
          BY <2>1, <3>1, <3>3, <4>2
        <4> QED  BY <3>5, <3>7, <4>1, <4>2
      <3>8. ASSUME NEW d \in Clients, NEW m \in EventMsg, m.sock = d
            PROVE  ~Before(srvQ', CloseMsg(d), m)
        BY <3>2, <3>5, <3>6, <3>8 DEF CloseInv, CloseIsLast
      <3>9. CloseIsLast'
        BY <3>7, <3>8 DEF CloseIsLast
      <3>10. UnlistedClosed'
        BY <1>1, <2>1, <3>1 DEF CloseInv, UnlistedClosed
      <3>11. c \in clients
        BY <3>1 DEF CloseInv, UnlistedClosed
      <3>12. NoStray'
        BY <1>1, <3>2, <3>5, <3>11 DEF CloseInv, NoStray
      <3> QED  BY <3>9, <3>10, <3>12 DEF CloseInv
    <2> QED  BY <2>1, <2>2, <2>3
  <1> QED  BY <1>2, <1>3, <1>4, <1>5

\* After FD_CLOSE without an error nothing about its socket is left.
LEMMA CloseTaken ==
  ASSUME CloseInv, TypeInv, Dispatching, ~Fatal(Head(srvQ)),
         Head(srvQ).event = "FD_CLOSE", Head(srvQ).sock \in clients
  PROVE  LET c == Head(srvQ).sock
         IN  /\ c \in Clients /\ tcp[c] = "closed" /\ up[c] = <<>>
             /\ c \in fdClose
             /\ \A m \in EventMsg : Pending(Tail(srvQ), m) => m.sock # c
  <1> DEFINE c == Head(srvQ).sock
  <1>1. /\ srvQ \in Seq(EventMsg) /\ srvQ # <<>> /\ c \in Clients
    BY DEF TypeInv, TypeOK, NetTypeOK, ServerTypeOK, Dispatching
  <1>2. /\ Head(srvQ) \in EventMsg /\ Pending(srvQ, Head(srvQ))
        /\ \A m : Pending(Tail(srvQ), m) => Before(srvQ, Head(srvQ), m)
    BY <1>1, TailQueue
  <1>3. Head(srvQ) = CloseMsg(c)
    BY <1>2, CloseMsgIs DEF Fatal
  <1> HIDE DEF c
  <1>4. /\ c \in Clients /\ tcp[c] = "closed" /\ up[c] = <<>> /\ c \in fdClose
        /\ \A m \in EventMsg : Pending(Tail(srvQ), m) => m.sock # c
    BY <1>1, <1>2, <1>3 DEF CloseInv, CloseIsLast
  <1> QED  BY <1>4 DEF c

LEMMA CloseServer ==
  ASSUME ~EagerClose, CloseInv, LabInv, ServerStep
  PROVE  CloseInv'
  <1>1. /\ TypeInv /\ NetTypeOK /\ ServerTypeOK
        /\ srvQ \in Seq(EventMsg) /\ clients \subseteq Clients
        /\ sockets \subseteq Clients /\ backlog \in Seq(Clients)
        /\ up \in [Clients -> Seq(Nat)]
    BY DEF LabInv, TypeInv, TypeOK, NetTypeOK, ServerTypeOK
  <1>2. ASSUME Dispatching
        PROVE  /\ Tail(srvQ) \in Seq(EventMsg)
               /\ \A m : Pending(Tail(srvQ), m) => Pending(srvQ, m)
               /\ \A m, n : Before(Tail(srvQ), m, n) => Before(srvQ, m, n)
    <2>1. srvQ # <<>>
      BY <1>2 DEF Dispatching
    <2> QED  BY <1>1, <2>1, TailQueue
  <1>3. ASSUME srvQ' = <<>>, sockets' = {}  PROVE CloseInv'
    BY <1>3, NoQueue DEF CloseInv, CloseIsLast, UnlistedClosed, NoStray
  <1>4. ASSUME NEW c \in Clients, Accepts(c)
        PROVE  CloseInv'
    <2>1. /\ Dispatching /\ backlog # <<>> /\ c = Head(backlog)
          /\ sockets' = sockets \cup {c} /\ clients' = clients \cup {c}
          /\ UNCHANGED <<tcp, up>>
      BY <1>4 DEF Accepts, Handling
    <2>2. PICK ended \in BOOLEAN :
            /\ ended => tcp[c] = "closed" /\ up[c] = <<>>
            /\ fdClose' = IF ended THEN fdClose \cup {c} ELSE fdClose
            /\ srvQ' = AcceptQueue(Tail(srvQ), c, up[c] # <<>>, ended,
                                   Tail(backlog) # <<>>)
      BY <1>4 DEF Accepts, CloseDue
    <2>3. /\ \A m : Pending(srvQ', m)
               => \/ Pending(Tail(srvQ), m)
                  \/ m \in {WriteMsg(c), ReadMsg(c), AcceptMsg}
                  \/ ended /\ m = CloseMsg(c)
          /\ \A m, n : Before(srvQ', m, n)
               => \/ Before(Tail(srvQ), m, n)
                  \/ Pending(Tail(srvQ), m) /\ (n = AcceptMsg \/ n.sock = c)
                  \/ m \in {WriteMsg(c), ReadMsg(c)}
                  \/ m = CloseMsg(c) /\ n = AcceptMsg
      <3> DEFINE unread == up[c] # <<>>
                 waiting == Tail(backlog) # <<>>
      <3>1. unread \in BOOLEAN /\ waiting \in BOOLEAN
        OBVIOUS
      <3>2. srvQ' = AcceptQueue(Tail(srvQ), c, unread, ended, waiting)
        BY <2>2
      <3> HIDE DEF unread, waiting
      <3>3. Tail(srvQ) \in Seq(EventMsg)
        BY <1>2, <2>1
      <3>4. \A m : Pending(srvQ', m)
               => \/ Pending(Tail(srvQ), m)
                  \/ m \in {WriteMsg(c), ReadMsg(c), AcceptMsg}
                  \/ ended /\ m = CloseMsg(c)
        BY <3>1, <3>2, <3>3, AcceptQueueFacts
      <3> DEFINE q == Tail(srvQ)
      <3> HIDE DEF q
      <3>5. \A m, n : Before(AcceptQueue(q, c, unread, ended, waiting), m, n)
               => \/ Before(q, m, n)
                  \/ Pending(q, m) /\ (n = AcceptMsg \/ n.sock = c)
                  \/ m \in {WriteMsg(c), ReadMsg(c)}
                  \/ m = CloseMsg(c) /\ n = AcceptMsg
        <4>1. q \in Seq(EventMsg)
          BY <3>3 DEF q
        <4> QED  BY <3>1, <4>1, AcceptQueueFacts
      <3> QED  BY <3>2, <3>4, <3>5 DEF q
    <2>4. c \notin clients
      <3>1. 1 \in 1..Len(backlog) /\ backlog[1] = c
        BY <1>1, <2>1, HeadTailProperties, EmptySeq
      <3> QED  BY <3>1 DEF LabInv, AcceptInv, Fresh
    <2>5. \A m \in EventMsg : m.sock = c => ~Pending(Tail(srvQ), m)
      BY <1>2, <2>1, <2>4, NetAssumption DEF CloseInv, NoStray
    <2>6. ~Pending(Tail(srvQ), CloseMsg(c))
      BY <2>5, MsgFacts
    <2>7. ASSUME NEW d \in Clients, Pending(srvQ', CloseMsg(d))
          PROVE  tcp'[d] = "closed" /\ up'[d] = <<>> /\ d \in fdClose'
      <3>1. Pending(Tail(srvQ), CloseMsg(d)) \/ (ended /\ d = c)
        BY <2>3, <2>7, CloseMsgFacts
      <3>2. CASE Pending(Tail(srvQ), CloseMsg(d))
        BY <1>2, <2>1, <2>2, <3>2 DEF CloseInv, CloseIsLast
      <3>3. CASE ended /\ d = c
        BY <2>1, <2>2, <3>3
      <3> QED  BY <3>1, <3>2, <3>3
    <2>8. ASSUME NEW d \in Clients, NEW m \in EventMsg, m.sock = d
          PROVE  ~Before(srvQ', CloseMsg(d), m)
      <3>1. m # AcceptMsg
        BY <2>8, AcceptFacts, NetAssumption
      <3>2. ~Before(Tail(srvQ), CloseMsg(d), m)
        BY <1>2, <2>1, <2>8 DEF CloseInv, CloseIsLast
      <3>3. m.sock = c => ~Pending(Tail(srvQ), CloseMsg(d))
        BY <2>6, <2>8
      <3>4. CloseMsg(d) \notin {WriteMsg(c), ReadMsg(c)}
        BY CloseMsgFacts
      <3> QED  BY <2>3, <3>1, <3>2, <3>3, <3>4
    <2>9. CloseIsLast'
      BY <2>7, <2>8 DEF CloseIsLast
    <2>10. UnlistedClosed'
      BY <2>1, <2>2 DEF CloseInv, UnlistedClosed
    <2>11. NoStray'
      <3>1. \A m \in {WriteMsg(c), ReadMsg(c), CloseMsg(c)} : m.sock = c
        BY MsgFacts
      <3> QED
        BY <1>2, <2>1, <2>3, <3>1, AcceptFacts DEF CloseInv, NoStray
    <2> QED  BY <2>9, <2>10, <2>11 DEF CloseInv
  <1>5. ASSUME NEW c \in Clients, NEW k \in Nat, Reads(c, k)
        PROVE  CloseInv'
    <2>1. /\ Dispatching /\ c \in clients
          /\ k \in RecvCount(up[c], MsgSize - Len(recv_buf_[c]))
          /\ up' = [up EXCEPT ![c] = Rest(up[c], k)]
          /\ UNCHANGED <<clients, tcp, sockets>>
      BY <1>5 DEF Reads, Handling
    <2>2. PICK ended \in BOOLEAN :
            /\ ended => tcp[c] = "closed" /\ Rest(up[c], k) = <<>>
            /\ fdClose' = IF ended THEN fdClose \cup {c} ELSE fdClose
            /\ srvQ' = ReadQueue(Tail(srvQ), c, Rest(up[c], k) # <<>>, ended)
      BY <1>5 DEF Reads, CloseDue
    <2>3. /\ \A m : Pending(srvQ', m)
               => \/ Pending(Tail(srvQ), m)
                  \/ m = ReadMsg(c)
                  \/ ended /\ m = CloseMsg(c)
          /\ \A m, n : Before(srvQ', m, n)
               => \/ Before(Tail(srvQ), m, n)
                  \/ Pending(Tail(srvQ), m) /\ n \in {ReadMsg(c), CloseMsg(c)}
                  \/ m = ReadMsg(c)
      <3> DEFINE more == Rest(up[c], k) # <<>>
      <3>1. more \in BOOLEAN
        OBVIOUS
      <3>2. srvQ' = ReadQueue(Tail(srvQ), c, more, ended)
        BY <2>2
      <3> HIDE DEF more
      <3> QED  BY <1>2, <2>1, <3>1, <3>2, ReadQueueFacts
    <2>4. up[c] # <<>>
      <3>1. k \in 1..Len(up[c])
        BY <2>1 DEF RecvCount
      <3> QED  BY <3>1
    <2>5. ~Pending(Tail(srvQ), CloseMsg(c))
      BY <1>2, <2>1, <2>4 DEF CloseInv, CloseIsLast
    <2>6. /\ up'[c] = Rest(up[c], k)
          /\ \A d \in Clients : d # c => up'[d] = up[d]
      BY <1>1, <2>1
    <2>7. ASSUME NEW d \in Clients, Pending(srvQ', CloseMsg(d))
          PROVE  tcp'[d] = "closed" /\ up'[d] = <<>> /\ d \in fdClose'
      <3>1. Pending(Tail(srvQ), CloseMsg(d)) \/ (ended /\ d = c)
        <4>1. CloseMsg(d) # ReadMsg(c) /\ (CloseMsg(d) = CloseMsg(c) => d = c)
          BY CloseMsgFacts
        <4> QED  BY <2>3, <2>7, <4>1
      <3>2. CASE Pending(Tail(srvQ), CloseMsg(d))
        <4>1. d # c /\ Pending(srvQ, CloseMsg(d))
          BY <1>2, <2>1, <2>5, <3>2
        <4> QED  BY <2>1, <2>2, <2>6, <4>1 DEF CloseInv, CloseIsLast
      <3>3. CASE ended /\ d = c
        BY <2>1, <2>2, <2>6, <3>3
      <3> QED  BY <3>1, <3>2, <3>3
    <2>8. ASSUME NEW d \in Clients, NEW m \in EventMsg, m.sock = d
          PROVE  ~Before(srvQ', CloseMsg(d), m)
      <3>1. ~Before(Tail(srvQ), CloseMsg(d), m)
        BY <1>2, <2>1, <2>8 DEF CloseInv, CloseIsLast
      <3>2. m \in {ReadMsg(c), CloseMsg(c)} => ~Pending(Tail(srvQ), CloseMsg(d))
        BY <2>5, <2>8, MsgFacts
      <3>3. CloseMsg(d) # ReadMsg(c)
        BY CloseMsgFacts
      <3> QED  BY <2>3, <3>1, <3>2, <3>3
    <2>9. CloseIsLast'
      BY <2>7, <2>8 DEF CloseIsLast
    <2>10. UnlistedClosed'
      BY <2>1, <2>2 DEF CloseInv, UnlistedClosed
    <2>11. NoStray'
      <3>1. \A m \in {ReadMsg(c), CloseMsg(c)} : m.sock = c
        BY MsgFacts
      <3> QED  BY <1>2, <2>1, <2>3, <3>1 DEF CloseInv, NoStray
    <2> QED  BY <2>9, <2>10, <2>11 DEF CloseInv
  <1>6. CASE Skips
    <2>1. /\ Dispatching /\ ~Fatal(Head(srvQ)) /\ srvQ' = Tail(srvQ)
          /\ UNCHANGED <<tcp, up, sockets, fdClose>>
      BY <1>6 DEF Skips
    <2>2. CloseIsLast'
      BY <1>2, <2>1 DEF CloseInv, CloseIsLast
    <2>3. CASE UNCHANGED clients
      <3>1. UnlistedClosed' /\ NoStray'
        BY <1>2, <2>1, <2>3 DEF CloseInv, UnlistedClosed, NoStray
      <3> QED  BY <2>2, <3>1 DEF CloseInv
    <2>4. CASE /\ Head(srvQ).event = "FD_CLOSE"
               /\ Head(srvQ).sock \in clients
               /\ clients' = clients \ {Head(srvQ).sock}
      <3> DEFINE c == Head(srvQ).sock
      <3>1. /\ c \in Clients /\ tcp[c] = "closed" /\ up[c] = <<>>
            /\ c \in fdClose
            /\ \A m \in EventMsg : Pending(Tail(srvQ), m) => m.sock # c
        BY <1>1, <2>1, <2>4, CloseTaken
      <3>2. UnlistedClosed'
        BY <2>1, <2>4, <3>1 DEF CloseInv, UnlistedClosed
      <3>3. NoStray'
        BY <1>2, <2>1, <2>4, <3>1 DEF CloseInv, NoStray
      <3> QED  BY <2>2, <3>2, <3>3 DEF CloseInv
    <2> QED  BY <1>6, <2>3, <2>4 DEF Skips
  <1>7. CASE OnError \/ ServerGone("died") \/ ServerQuit
    BY <1>3, <1>7 DEF OnError, ServerQuit, ServerGone
  <1>8. CASE StartListening \/ ServerUser
    <2>1. UNCHANGED <<srvQ, tcp, up, fdClose, sockets, clients>>
      BY <1>8 DEF StartListening, ServerUser, netVars
    <2> QED  BY <2>1 DEF CloseInv, CloseIsLast, UnlistedClosed, NoStray
  <1> QED  BY <1>1, <1>4, <1>5, <1>6, <1>7, <1>8, ServerSteps

LEMMA CloseStep ==
  ASSUME ~EagerClose, LabInv, CloseInv, [Next]_vars
  PROVE  /\ CloseInv'
         /\ \A c \in clients \ clients' : up[c] = <<>>
  <1>1. TypeInv /\ NetTypeOK /\ ServerTypeOK
    BY DEF LabInv, TypeInv, TypeOK
  <1>2. ASSUME NEW c \in Clients, ClientStep(c) \/ WinSock(c)
        PROVE  CloseInv' /\ UNCHANGED clients
    BY <1>1, <1>2, OutsideEffect, CloseOutside DEF serverVars
  <1>3. ASSUME ServerStep
        PROVE  CloseInv' /\ \A c \in clients \ clients' : up[c] = <<>>
    <2>1. CloseInv'
      BY <1>3, CloseServer
    <2>2. Skips => \A c \in clients \ clients' : up[c] = <<>>
      BY <1>1, CloseTaken DEF Skips
    <2>3. clients \subseteq clients' \/ Skips
      BY <1>1, <1>3, ServerSteps
         DEF Accepts, Reads, OnError, ServerQuit, ServerGone, StartListening,
             ServerUser
    <2> QED  BY <2>1, <2>2, <2>3
  <1>4. CASE UNCHANGED vars
    BY <1>4 DEF vars, netVars, serverVars, CloseInv, CloseIsLast,
                UnlistedClosed, NoStray
  <1> QED  BY <1>2, <1>3, <1>4 DEF Next

LEMMA CloseInvariant == Spec => [](~EagerClose => CloseInv)
  <1>1. Init => CloseInv
    BY NoQueue
       DEF Init, NetInit, CloseInv, CloseIsLast, UnlistedClosed, NoStray
  <1>2. LabInv /\ (~EagerClose => CloseInv) /\ [Next]_vars
          => (~EagerClose => CloseInv)'
    BY CloseStep
  <1> QED  BY <1>1, <1>2, LabInvariant, PTL DEF Spec

\* If FD_CLOSE does not overtake data, no message is dispatched for a socket
\* that is not in the list: what the server's "SHOULDNT HAPPEN" says.
THEOREM NoStrays ==
  ASSUME ~EagerClose
  PROVE  Spec => []NoStrayMessages
  <1>1. LabInv /\ (~EagerClose => CloseInv) => NoStrayMessages
    <2> SUFFICES ASSUME LabInv, CloseInv, NEW i \in 1..Len(srvQ)
                 PROVE  srvQ[i].sock \in clients \cup {serverSocket}
      BY DEF NoStrayMessages
    <2>1. srvQ[i] \in EventMsg
      <3>1. srvQ \in Seq(EventMsg)
        BY DEF LabInv, TypeInv, TypeOK, NetTypeOK
      <3> QED  BY <3>1
    <2>2. Pending(srvQ, srvQ[i])
      BY DEF Pending
    <2> QED  BY <2>1, <2>2 DEF CloseInv, NoStray
  <1> QED  BY <1>1, LabInvariant, CloseInvariant, PTL

\* If FD_CLOSE does not overtake data, a client leaves the list only when all
\* that it sent has been received.
THEOREM Drained ==
  ASSUME ~EagerClose
  PROVE  Spec => LeavesDrained
  <1>1. LabInv /\ (~EagerClose => CloseInv) /\ [Next]_vars
          => [\A c \in clients \ clients' : up[c] = <<>>]_vars
    BY CloseStep
  <1> QED  BY <1>1, LabInvariant, CloseInvariant, PTL DEF Spec, LeavesDrained

-----------------------------------------------------------------------------
(* The welcome.                                                            *)

\* The server has not accepted c's connection.
NotAccepted(c) == Early(c) \/ \E i \in 1..Len(backlog) : backlog[i] = c

\* Of what the server sends to client c, n messages were put into send_buf_.
Greeted(c, n) == StreamOf(n, send_buf_[c], down[c], recv_buf[c], shown[c])

\* A client is greeted once, when its connection is accepted.
WelcomeInv ==
  \A c \in Clients :
    /\ Greeted(c, 0) \/ Greeted(c, 1)
    /\ NotAccepted(c) => Greeted(c, 0)

\* The step of tryToRead() that receives k bytes.
Shows(c, k) ==
  LET buf == recv_buf[c] \o SubSeq(down[c], 1, k)
  IN  /\ down' = [down EXCEPT ![c] = Rest(down[c], k)]
      /\ recv_buf' = [recv_buf EXCEPT ![c] = Unread(buf)]
      /\ shown' = [shown EXCEPT ![c] = Received(@, buf)]
      /\ UNCHANGED send_buf_

\* The step of doWrite() that sends k bytes.
Greets(c, k) ==
  /\ down' = [down EXCEPT ![c] = @ \o SubSeq(send_buf_[c], 1, k)]
  /\ send_buf_' = [send_buf_ EXCEPT ![c] = Unsent(@, k)]
  /\ UNCHANGED <<recv_buf, shown>>

\* What the clients and WinSock do to what the server sends.
LEMMA WelcomeOutside ==
  ASSUME NEW c \in Clients, ClientStep(c) \/ WinSock(c)
  PROVE  \/ UNCHANGED <<send_buf_, down, recv_buf, shown>>
         \/ \E k \in RecvCount(down[c], MsgSize - Len(recv_buf[c])) : Shows(c, k)
  <1>1. UNCHANGED send_buf_
    BY DEF ClientStep, WinSock, serverVars
  <1>2. Dies(c) => UNCHANGED <<down, recv_buf, shown>>
    BY DEF Dies, Disconnect
  <1>3. User(c) => Dies(c) \/ UNCHANGED <<down, recv_buf, shown>>
    BY DEF User, PressC, PressLetter, PressEscape, CloseWindow, Disconnect,
           netVars, clientVars
  <1>4. SocketMessage(c) => Dies(c) \/ UNCHANGED <<down, recv_buf, shown>>
    BY DEF SocketMessage
  <1>5. TryToWrite(c) => Dies(c) \/ UNCHANGED <<down, recv_buf, shown>>
    BY DEF TryToWrite, netVars
  <1>6. Quit(c) => UNCHANGED <<down, recv_buf, shown>>
    BY DEF Quit, Disconnect
  <1>7. TryToRead(c) =>
          \/ Dies(c)
          \/ UNCHANGED <<down, recv_buf, shown>>
          \/ \E k \in RecvCount(down[c], MsgSize - Len(recv_buf[c])) :
               Shows(c, k)
    BY <1>1 DEF TryToRead, Shows, netVars, Unread, Unprocessed, Received,
                Processed
  <1>8. WinSock(c) => UNCHANGED <<down, recv_buf, shown>>
    BY DEF WinSock, NetStep, Establish, Refuse, ResetArrives, clientVars
  <1> QED
    BY <1>1, <1>2, <1>3, <1>4, <1>5, <1>6, <1>7, <1>8
       DEF ClientStep, ClientLoop

\* What the server does to it.
LEMMA WelcomeServer ==
  ASSUME ServerTypeOK, ServerStep
  PROVE  \/ UNCHANGED <<send_buf_, down, recv_buf, shown>>
         \/ /\ backlog # <<>> /\ backlog' = Tail(backlog)
            /\ send_buf_' = [send_buf_ EXCEPT ![Head(backlog)] = Encode(1)]
            /\ UNCHANGED <<down, recv_buf, shown>>
         \/ /\ UNCHANGED backlog
            /\ \E c \in clients :
                 \E k \in SendCount(send_buf_[c], down[c]) : Greets(c, k)
  <1>1. UNCHANGED <<recv_buf, shown>>
    BY DEF ServerStep, clientVars
  <1>2. CASE ServerGone("died") \/ ServerGone("exited")
    BY <1>1, <1>2 DEF ServerGone
  <1>3. CASE OnAccept /\ ~ServerGone("died")
    BY <1>1, <1>3 DEF OnAccept, AcceptFails, Welcome
  <1>4. CASE OnWrite
    BY <1>1, <1>4 DEF OnWrite, Listed, Greets
  <1>5. CASE OnRead
    BY <1>1, <1>5 DEF OnRead
  <1>6. CASE OnClose \/ OnStray
    BY <1>1, <1>6 DEF OnClose, OnStray, serverVars
  <1>7. CASE StartListening \/ ServerUser
    BY <1>1, <1>7 DEF StartListening, ServerUser, netVars
  <1> QED
    BY <1>2, <1>3, <1>4, <1>5, <1>6, <1>7
       DEF ServerStep, ServerLoop, OnError, ServerQuit

\* Nobody comes back among those who were not accepted.
LEMMA NotAcceptedStep ==
  ASSUME LabInv, [Next]_vars
  PROVE  /\ \A c \in Clients : NotAccepted(c)' => NotAccepted(c)
         /\ \A c \in Clients :
              /\ ServerStep
              /\ backlog # <<>> /\ c = Head(backlog) /\ backlog' = Tail(backlog)
              => ~NotAccepted(c)'
  <1>1. TypeInv /\ NetTypeOK /\ ServerTypeOK /\ AcceptInv
        /\ backlog \in Seq(Clients)
    BY DEF LabInv, TypeInv, TypeOK, NetTypeOK
  <1>2. ASSUME backlog # <<>>
        PROVE  /\ Len(Tail(backlog)) = Len(backlog) - 1
               /\ Len(backlog) \in Nat \ {0} /\ Head(backlog) = backlog[1]
               /\ \A i \in 1..Len(Tail(backlog)) :
                    /\ Tail(backlog)[i] = backlog[i + 1]
                    /\ i + 1 \in 1..Len(backlog) /\ i + 1 # 1
    BY <1>1, <1>2, HeadTailProperties, EmptySeq
  <1>3. ASSUME NEW c \in Clients, ClientStep(c) \/ WinSock(c), NEW d \in Clients,
               NotAccepted(d)'
        PROVE  NotAccepted(d)
    <2>1. Ends(c) \/ Quiet(c) \/ Writes(c) \/ Establish(c)
      BY <1>1, <1>3, OutsideEffect
    <2>2. CASE UNCHANGED backlog
      <3>1. Early(d)' => Early(d)
        BY <1>1, <2>1 DEF Ends, Quiet, Writes, Establish, Early, NetTypeOK
      <3> QED  BY <1>3, <2>2, <3>1 DEF NotAccepted
    <2>3. CASE Establish(c)
      <3>1. Early(c) /\ backlog' = Append(backlog, c)
            /\ tcp' = [tcp EXCEPT ![c] = "up"]
        BY <2>3 DEF Establish, Early
      <3>2. /\ Len(backlog') = Len(backlog) + 1 /\ Len(backlog) \in Nat
            /\ \A i \in 1..Len(backlog) : backlog'[i] = backlog[i]
            /\ backlog'[Len(backlog) + 1] = c
        BY <1>1, <3>1, AppendProperties
      <3>3. Early(d)' => Early(d)
        BY <1>1, <3>1 DEF Early, NetTypeOK
      <3>4. \A i \in 1..Len(backlog') : i \in 1..Len(backlog) \/ backlog'[i] = c
        BY <3>2
      <3> QED  BY <1>3, <3>1, <3>2, <3>3, <3>4 DEF NotAccepted
    <2> QED  BY <2>1, <2>2, <2>3 DEF Ends, Quiet, Writes
  <1>4. ASSUME ServerStep
        PROVE  UNCHANGED tcp /\ (backlog' \in {backlog, <<>>}
                                 \/ (backlog # <<>> /\ backlog' = Tail(backlog)))
    BY <1>1, <1>4, ServerEffect DEF ServerStep
  <1>5. ASSUME ServerStep, NEW d \in Clients, NotAccepted(d)'
        PROVE  NotAccepted(d)
    <2>1. Early(d)' => Early(d)
      BY <1>4, <1>5 DEF Early
    <2>2. CASE backlog' \in {backlog, <<>>}
      BY <1>5, <2>1, <2>2 DEF NotAccepted
    <2>3. CASE backlog # <<>> /\ backlog' = Tail(backlog)
      BY <1>2, <1>5, <2>1, <2>3 DEF NotAccepted
    <2> QED  BY <1>4, <1>5, <2>2, <2>3
  <1>6. ASSUME NEW c \in Clients, ServerStep, backlog # <<>>,
               c = Head(backlog), backlog' = Tail(backlog)
        PROVE  ~NotAccepted(c)'
    <2>1. c = backlog[1] /\ 1 \in 1..Len(backlog)
      BY <1>1, <1>2, <1>6
    <2>2. ~Early(c)
      BY <1>1, <2>1 DEF AcceptInv
    <2>3. \A i \in 1..Len(backlog') : backlog'[i] # c
      BY <1>1, <1>2, <1>6, <2>1 DEF AcceptInv
    <2> QED  BY <1>4, <1>6, <2>2, <2>3 DEF NotAccepted, Early
  <1>7. CASE UNCHANGED vars
    BY <1>7 DEF vars, netVars, NotAccepted, Early
  <1> QED  BY <1>3, <1>5, <1>6, <1>7 DEF Next


LEMMA WelcomeStep ==
  ASSUME LabInv, WelcomeInv, [Next]_vars
  PROVE  WelcomeInv'
  <1>1. /\ NetTypeOK /\ ClientTypeOK /\ ServerTypeOK
        /\ TypeInv' /\ backlog \in Seq(Clients)
    BY TypeStep DEF LabInv, TypeInv, TypeOK, NetTypeOK
  <1>2. ASSUME NEW d \in Clients
        PROVE  /\ send_buf_[d] \in Seq(Nat) /\ down[d] \in Seq(Nat)
               /\ recv_buf[d] \in Seq(Nat) /\ shown[d] \in Seq(Seq(Nat))
    BY <1>1 DEF NetTypeOK, ClientTypeOK, ServerTypeOK
  <1>3. \A d \in Clients : NotAccepted(d)' => NotAccepted(d)
    BY NotAcceptedStep
  <1>4. ASSUME \A d \in Clients : \A n \in {0, 1} : Greeted(d, n) => Greeted(d, n)'
        PROVE  WelcomeInv'
    BY <1>3, <1>4 DEF WelcomeInv
  <1>5. CASE UNCHANGED <<send_buf_, down, recv_buf, shown>>
    <2>1. \A d \in Clients : \A n \in {0, 1} : Greeted(d, n) => Greeted(d, n)'
      BY <1>5 DEF Greeted
    <2> QED  BY <1>4, <2>1
  <1>6. ASSUME NEW c \in Clients,
               NEW k \in RecvCount(down[c], MsgSize - Len(recv_buf[c])),
               Shows(c, k)
        PROVE  WelcomeInv'
    <2> DEFINE buf == recv_buf[c] \o SubSeq(down[c], 1, k)
    <2>1. ASSUME NEW n \in {0, 1}, Greeted(c, n)
          PROVE  StreamOf(n, send_buf_[c], Rest(down[c], k), Unread(buf),
                          Received(shown[c], buf))
      <3>1. StreamOf(n, send_buf_[c], down[c], recv_buf[c], shown[c])
        BY <2>1 DEF Greeted
      <3>2. n \in Nat
        OBVIOUS
      <3> QED  BY <1>2, <3>1, <3>2, StreamRead
    <2> HIDE DEF buf
    <2>2. /\ down' = [down EXCEPT ![c] = Rest(down[c], k)]
          /\ recv_buf' = [recv_buf EXCEPT ![c] = Unread(buf)]
          /\ shown' = [shown EXCEPT ![c] = Received(@, buf)]
          /\ UNCHANGED send_buf_
      BY <1>6 DEF Shows, buf
    <2>3. ASSUME NEW d \in Clients, NEW n \in {0, 1}, Greeted(d, n)
          PROVE  Greeted(d, n)'
      <3>1. CASE d = c
        <4>1. /\ down'[c] = Rest(down[c], k)
              /\ recv_buf'[c] = Unread(buf)
              /\ shown'[c] = Received(shown[c], buf)
              /\ send_buf_'[c] = send_buf_[c]
          BY <1>1, <2>2 DEF NetTypeOK, ClientTypeOK
        <4> QED  BY <2>1, <2>3, <3>1, <4>1 DEF Greeted
      <3>2. CASE d # c
        <4>1. /\ down'[d] = down[d] /\ recv_buf'[d] = recv_buf[d]
              /\ shown'[d] = shown[d] /\ send_buf_'[d] = send_buf_[d]
          BY <1>1, <2>2, <3>2 DEF NetTypeOK, ClientTypeOK
        <4> QED  BY <2>3, <4>1 DEF Greeted
      <3> QED  BY <3>1, <3>2
    <2> QED  BY <1>4, <2>3
  <1>7. ASSUME NEW c \in Clients, NEW k \in SendCount(send_buf_[c], down[c]),
               Greets(c, k)
        PROVE  WelcomeInv'
    <2>1. k \in 1..Len(send_buf_[c])
      BY DEF SendCount
    <2>2. ASSUME NEW n \in {0, 1}, Greeted(c, n)
          PROVE  StreamOf(n, Unsent(send_buf_[c], k),
                          down[c] \o SubSeq(send_buf_[c], 1, k), recv_buf[c],
                          shown[c])
      <3>1. StreamOf(n, send_buf_[c], down[c], recv_buf[c], shown[c])
        BY <2>2 DEF Greeted
      <3>2. n \in Nat
        OBVIOUS
      <3> QED  BY <1>2, <2>1, <3>1, <3>2, StreamWrite
    <2>3. ASSUME NEW d \in Clients, NEW n \in {0, 1}, Greeted(d, n)
          PROVE  Greeted(d, n)'
      <3>1. CASE d = c
        <4>1. /\ down'[c] = down[c] \o SubSeq(send_buf_[c], 1, k)
              /\ send_buf_'[c] = Unsent(send_buf_[c], k)
              /\ recv_buf'[c] = recv_buf[c] /\ shown'[c] = shown[c]
          BY <1>1, <1>7 DEF Greets, NetTypeOK, ServerTypeOK
        <4> QED  BY <2>2, <2>3, <3>1, <4>1 DEF Greeted
      <3>2. CASE d # c
        <4>1. /\ down'[d] = down[d] /\ recv_buf'[d] = recv_buf[d]
              /\ shown'[d] = shown[d] /\ send_buf_'[d] = send_buf_[d]
          BY <1>1, <1>7, <3>2 DEF Greets, NetTypeOK, ServerTypeOK
        <4> QED  BY <2>3, <4>1 DEF Greeted
      <3> QED  BY <3>1, <3>2
    <2> QED  BY <1>4, <2>3
  <1>8. ASSUME ServerStep, backlog # <<>>, backlog' = Tail(backlog),
               send_buf_' = [send_buf_ EXCEPT ![Head(backlog)] = Encode(1)],
               UNCHANGED <<down, recv_buf, shown>>
        PROVE  WelcomeInv'
    <2>1. PICK c \in Clients : c = Head(backlog) /\ c = backlog[1]
                                /\ 1 \in 1..Len(backlog)
      BY <1>1, <1>8, HeadTailProperties, EmptySeq
    <2>2. NotAccepted(c) /\ ~NotAccepted(c)'
      BY <1>8, <2>1, NotAcceptedStep DEF NotAccepted
    <2>3. StreamOf(0, send_buf_[c], down[c], recv_buf[c], shown[c])
      BY <2>2 DEF WelcomeInv, Greeted
    <2>4. send_buf_[c] = <<>>
      <3> DEFINE sb == send_buf_[c]
                 u == down[c]
                 rb == recv_buf[c]
                 g == shown[c]
      <3>1. /\ sb \in Seq(Nat) /\ u \in Seq(Nat) /\ rb \in Seq(Nat)
            /\ g \in Seq(Seq(Nat)) /\ StreamOf(0, sb, u, rb, g)
        BY <1>2, <2>3
      <3> HIDE DEF sb, u, rb, g
      <3>2. /\ Len(sb) \in Nat /\ Len(u) \in Nat /\ Len(rb) \in Nat
            /\ Len(g) \in Nat
        BY <3>1
      <3>3. Bytes(Len(g)) \in Nat /\ Bytes(0) = 0
        BY <3>2, BytesProperties, NetAssumption DEF Bytes
      <3>4. Bytes(Len(g)) + Len(rb) + Len(u) + Len(sb) = 0
        BY <3>1, <3>3 DEF StreamOf
      <3>5. Len(sb) = 0
        BY <3>2, <3>3, <3>4
      <3>6. sb = <<>>
        BY <3>1, <3>5, EmptySeq
      <3> QED  BY <3>6 DEF sb
    <2>5. StreamOf(1, Encode(1), down[c], recv_buf[c], shown[c])
      <3>1. StreamOf(0 + 1, send_buf_[c] \o Encode(0 + 1), down[c], recv_buf[c],
                     shown[c])
        BY <1>2, <2>3, StreamSend
      <3>2. 0 + 1 = 1
        OBVIOUS
      <3>3. StreamOf(1, send_buf_[c] \o Encode(1), down[c], recv_buf[c], shown[c])
        BY <3>1, <3>2
      <3>4. Encode(1) \in Seq(Nat)
        BY EncodeProperties
      <3>5. send_buf_[c] \o Encode(1) = Encode(1)
        BY <2>4, <3>4, ConcatEmptySeq
      <3> QED  BY <3>3, <3>5
    <2>6. Greeted(c, 1)'
      <3>1. send_buf_'[c] = Encode(1)
        BY <1>1, <1>8, <2>1 DEF ServerTypeOK
      <3> QED  BY <1>8, <2>5, <3>1 DEF Greeted
    <2>7. ASSUME NEW d \in Clients, d # c, NEW n \in {0, 1}, Greeted(d, n)
          PROVE  Greeted(d, n)'
      <3>1. send_buf_'[d] = send_buf_[d]
        BY <1>1, <1>8, <2>1, <2>7 DEF ServerTypeOK
      <3> QED  BY <1>8, <2>7, <3>1 DEF Greeted
    <2> QED  BY <1>3, <2>2, <2>6, <2>7 DEF WelcomeInv
  <1>9. CASE UNCHANGED vars
    BY <1>5, <1>9 DEF vars, netVars, clientVars, serverVars
  <1>10. ASSUME NEW c \in Clients, ClientStep(c) \/ WinSock(c)
         PROVE  WelcomeInv'
    BY <1>5, <1>6, <1>10, WelcomeOutside
  <1>11. CASE ServerStep
    BY <1>1, <1>5, <1>7, <1>8, <1>11, WelcomeServer DEF ServerTypeOK
  <1> QED  BY <1>9, <1>10, <1>11 DEF Next

LEMMA WelcomeInvariant == Spec => []WelcomeInv
  <1>1. Init => WelcomeInv
    <2> SUFFICES ASSUME Init PROVE WelcomeInv
      OBVIOUS
    <2>1. Len(<<>>) = 0 /\ Bytes(0) = 0 /\ MsgSize \in Nat \ {0}
      BY NetAssumption DEF Bytes
    <2>2. StreamOf(0, <<>>, <<>>, <<>>, <<>>)
      BY <2>1 DEF StreamOf, Continues
    <2> QED
      BY <2>2 DEF Init, NetInit, ClientInit, ServerInit, WelcomeInv, Greeted
  <1>2. LabInv /\ WelcomeInv /\ [Next]_vars => WelcomeInv'
    BY WelcomeStep
  <1> QED  BY <1>1, <1>2, LabInvariant, PTL DEF Spec

\* A client shows nothing but the one welcome of its connection, whole.
THEOREM OneWelcome == Spec => []OnlyWelcome
  <1>1. LabInv /\ WelcomeInv => OnlyWelcome
    <2> SUFFICES ASSUME LabInv, WelcomeInv, NEW c \in Clients
                 PROVE  shown[c] \in {<<>>, <<Encode(1)>>}
      BY DEF OnlyWelcome
    <2> DEFINE g == shown[c]
    <2>1. PICK n \in {0, 1} : Greeted(c, n)
      BY DEF WelcomeInv
    <2>2. /\ send_buf_[c] \in Seq(Nat) /\ down[c] \in Seq(Nat)
          /\ recv_buf[c] \in Seq(Nat) /\ g \in Seq(Seq(Nat))
          /\ StreamOf(n, send_buf_[c], down[c], recv_buf[c], g)
      BY <2>1 DEF LabInv, TypeInv, TypeOK, NetTypeOK, ClientTypeOK,
                  ServerTypeOK, Greeted
    <2>3. Len(g) <= n
      <3>1. n \in Nat
        OBVIOUS
      <3> QED  BY <2>2, <3>1, NotAhead
    <2>4. \A k \in 1..Len(g) : g[k] = Encode(k)
      BY <2>2 DEF StreamOf
    <2> HIDE DEF g
    <2>5. CASE Len(g) = 0
      <3>1. g = <<>>
        BY <2>2, <2>5, EmptySeq
      <3> QED  BY <3>1 DEF g
    <2>6. CASE Len(g) = 1
      <3>1. g[1] = Encode(1) /\ Encode(1) \in Seq(Nat)
        BY <2>4, <2>6, EncodeProperties
      <3>2. /\ <<Encode(1)>> \in Seq(Seq(Nat)) /\ Len(<<Encode(1)>>) = 1
            /\ <<Encode(1)>>[1] = Encode(1)
        BY <3>1
      <3>3. g = <<Encode(1)>>
        BY <2>2, <2>6, <3>1, <3>2, SeqEqual
      <3> QED  BY <3>3 DEF g
    <2>7. Len(g) = 0 \/ Len(g) = 1
      <3>1. Len(g) \in Nat
        BY <2>2
      <3>2. n = 0 \/ n = 1
        OBVIOUS
      <3>3. n = 0 => Len(g) = 0
        BY <2>3, <3>1
      <3>4. n = 1 => Len(g) = 0 \/ Len(g) = 1
        BY <2>3, <3>1
      <3> QED  BY <3>2, <3>3, <3>4
    <2> QED  BY <2>5, <2>6, <2>7
  <1> QED  BY <1>1, LabInvariant, WelcomeInvariant, PTL

-----------------------------------------------------------------------------
(* The sizes of the buffers.                                               *)

SizesInv ==
  \A c \in Clients :
    /\ Len(send_buf[c]) <= SendSlots * MsgSize
    /\ Len(up[c]) <= Cap
    /\ Len(down[c]) <= Cap

\* What send() takes leaves less behind, and TCP has room for it.
LEMMA SendSizes ==
  ASSUME NEW buf \in Seq(Nat), NEW net \in Seq(Nat),
         NEW k \in SendCount(buf, net)
  PROVE  /\ k \in 1..Len(buf)
         /\ Len(net \o SubSeq(buf, 1, k)) <= Cap
         /\ Len(Unsent(buf, k)) <= Len(buf)
  <1>1. k \in 1..Len(buf) /\ k + Len(net) <= Cap
    BY DEF SendCount
  <1>2. /\ SubSeq(buf, 1, k) \in Seq(Nat) /\ Len(SubSeq(buf, 1, k)) = k
        /\ Len(Unsent(buf, k)) = Len(buf) - k
    BY <1>1, TakenProperties, RestProperties
  <1>3. Len(net \o SubSeq(buf, 1, k)) = Len(net) + k
    BY <1>2, ConcatProperties
  <1>4. Len(net) \in Nat /\ Len(buf) \in Nat /\ Cap \in Nat
    BY NetAssumption
  <1> QED  BY <1>1, <1>2, <1>3, <1>4

LEMMA RecvSizes ==
  ASSUME NEW net \in Seq(Nat), NEW room, NEW k \in RecvCount(net, room)
  PROVE  Len(Rest(net, k)) <= Len(net)
  <1>1. k \in 1..Len(net)
    BY DEF RecvCount
  <1>2. Len(Rest(net, k)) = Len(net) - k
    BY <1>1, RestProperties
  <1> QED  BY <1>1, <1>2

\* What a step of a client or of WinSock does to the buffers towards the server.
LEMMA SizesOutside ==
  ASSUME NEW c \in Clients, ClientStep(c) \/ WinSock(c)
  PROVE  \/ UNCHANGED <<send_buf, up>>
         \/ /\ Fits(send_buf[c])
            /\ send_buf' = [send_buf EXCEPT ![c] = @ \o Encode(sent[c] + 1)]
            /\ UNCHANGED up
         \/ \E k \in SendCount(send_buf[c], up[c]) :
              /\ up' = [up EXCEPT ![c] = @ \o SubSeq(send_buf[c], 1, k)]
              /\ send_buf' = [send_buf EXCEPT ![c] = Unsent(send_buf[c], k)]
  <1>1. Dies(c) => UNCHANGED <<send_buf, up>>
    BY DEF Dies, Disconnect
  <1>2. PressLetter(c) =>
          \/ Dies(c)
          \/ /\ Fits(send_buf[c])
             /\ send_buf' = [send_buf EXCEPT ![c] = @ \o Encode(sent[c] + 1)]
             /\ UNCHANGED up
    BY DEF PressLetter, netVars
  <1>3. PressC(c) => Dies(c) \/ UNCHANGED <<send_buf, up>>
    BY DEF PressC, clientVars
  <1>4. PressEscape(c) \/ CloseWindow(c) \/ Quit(c) => UNCHANGED <<send_buf, up>>
    BY DEF PressEscape, CloseWindow, Quit, Disconnect, netVars
  <1>5. SocketMessage(c) \/ TryToRead(c) => Dies(c) \/ UNCHANGED <<send_buf, up>>
    BY DEF SocketMessage, TryToRead, netVars
  <1>6. TryToWrite(c) =>
          \/ Dies(c)
          \/ UNCHANGED <<send_buf, up>>
          \/ \E k \in SendCount(send_buf[c], up[c]) :
               /\ up' = [up EXCEPT ![c] = @ \o SubSeq(send_buf[c], 1, k)]
               /\ send_buf' = [send_buf EXCEPT ![c] = Unsent(send_buf[c], k)]
    BY DEF TryToWrite, netVars
  <1>7. WinSock(c) => UNCHANGED <<send_buf, up>>
    BY DEF WinSock, NetStep, Establish, Refuse, ResetArrives, clientVars
  <1> QED
    BY <1>1, <1>2, <1>3, <1>4, <1>5, <1>6, <1>7
       DEF ClientStep, User, ClientLoop

LEMMA SizesStep ==
  ASSUME LabInv, SizesInv, [Next]_vars
  PROVE  SizesInv'
  <1>1. /\ NetTypeOK /\ ClientTypeOK /\ ServerTypeOK
        /\ send_buf \in [Clients -> Seq(Nat)] /\ up \in [Clients -> Seq(Nat)]
        /\ down \in [Clients -> Seq(Nat)] /\ send_buf_ \in [Clients -> Seq(Nat)]
    BY DEF LabInv, TypeInv, TypeOK, NetTypeOK, ClientTypeOK, ServerTypeOK
  <1> DEFINE Bounded(buf, net) == /\ \A d \in Clients :
                                       Len(buf[d]) <= SendSlots * MsgSize
                                  /\ \A d \in Clients : Len(net[d]) <= Cap
  <1>2. Bounded(send_buf, up)
    BY DEF SizesInv
  <1>3. ASSUME NEW c \in Clients, ClientStep(c) \/ WinSock(c)
        PROVE  Bounded(send_buf', up')
    <2>1. CASE UNCHANGED <<send_buf, up>>
      BY <1>2, <2>1
    <2>2. CASE /\ Fits(send_buf[c])
               /\ send_buf' = [send_buf EXCEPT ![c] = @ \o Encode(sent[c] + 1)]
               /\ UNCHANGED up
      <3>1. /\ Encode(sent[c] + 1) \in Seq(Nat)
            /\ Len(Encode(sent[c] + 1)) = MsgSize
        <4>1. sent[c] + 1 \in Nat \ {0}
          BY <1>1, MaxKeysAssumption DEF ClientTypeOK
        <4> QED  BY <4>1, EncodeProperties
      <3>2. Len(send_buf[c] \o Encode(sent[c] + 1)) = Len(send_buf[c]) + MsgSize
        <4> DEFINE e == Encode(sent[c] + 1)
                   b == send_buf[c]
        <4>1. e \in Seq(Nat) /\ b \in Seq(Nat) /\ Len(e) = MsgSize
          BY <1>1, <3>1
        <4> HIDE DEF e, b
        <4>2. Len(b \o e) = Len(b) + Len(e)
          BY <4>1, ConcatProperties
        <4> QED  BY <4>1, <4>2 DEF e, b
      <3>3. Len(send_buf[c]) + MsgSize <= SendSlots * MsgSize
        BY <2>2 DEF Fits
      <3> QED  BY <1>1, <1>2, <2>2, <3>2, <3>3
    <2>3. ASSUME NEW k \in SendCount(send_buf[c], up[c]),
                 up' = [up EXCEPT ![c] = @ \o SubSeq(send_buf[c], 1, k)],
                 send_buf' = [send_buf EXCEPT ![c] = Unsent(send_buf[c], k)]
          PROVE  Bounded(send_buf', up')
      <3>1. /\ k \in 1..Len(send_buf[c])
            /\ Len(up[c] \o SubSeq(send_buf[c], 1, k)) <= Cap
            /\ Len(Unsent(send_buf[c], k)) <= Len(send_buf[c])
        BY <1>1, SendSizes
      <3>2. Unsent(send_buf[c], k) \in Seq(Nat)
        BY <1>1, <3>1, RestProperties
      <3>3. Len(Unsent(send_buf[c], k)) <= SendSlots * MsgSize
        <4>1. /\ Len(send_buf[c]) \in Nat /\ Len(Unsent(send_buf[c], k)) \in Nat
              /\ SendSlots * MsgSize \in Nat
          BY <1>1, <3>2, NetAssumption
        <4> QED  BY <1>2, <3>1, <4>1
      <3> QED  BY <1>1, <1>2, <2>3, <3>1, <3>3
    <2> QED  BY <1>3, <2>1, <2>2, <2>3, SizesOutside
  <1>4. ASSUME NEW c \in Clients, NEW room, NEW k \in RecvCount(down[c], room),
               down' = [down EXCEPT ![c] = Rest(down[c], k)]
        PROVE  \A d \in Clients : Len(down'[d]) <= Cap
    <2>1. Len(Rest(down[c], k)) <= Len(down[c])
      BY <1>1, RecvSizes
    <2>2. /\ Len(down[c]) \in Nat /\ Len(Rest(down[c], k)) \in Nat
          /\ Cap \in Nat
      <3>1. k \in 1..Len(down[c])
        BY DEF RecvCount
      <3> QED  BY <1>1, <3>1, RestProperties, NetAssumption
    <2>3. Len(Rest(down[c], k)) <= Cap
      BY <2>1, <2>2 DEF SizesInv
    <2> QED  BY <1>1, <1>4, <2>3 DEF SizesInv
  <1>5. ASSUME NEW c \in Clients, ClientStep(c) \/ WinSock(c)
        PROVE  SizesInv'
    <2>1. \A d \in Clients : Len(down'[d]) <= Cap
      <3>1. CASE UNCHANGED down
        BY <3>1 DEF SizesInv
      <3>2. CASE ~UNCHANGED down
        <4>1. PICK k \in RecvCount(down[c], MsgSize - Len(recv_buf[c])) :
                Shows(c, k)
          BY <1>5, <3>2, WelcomeOutside
        <4>2. down' = [down EXCEPT ![c] = Rest(down[c], k)]
          BY <4>1 DEF Shows
        <4> QED  BY <1>4, <4>2
      <3> QED  BY <3>1, <3>2
    <2> QED  BY <1>3, <1>5, <2>1 DEF SizesInv
  <1>6. ASSUME ServerStep
        PROVE  SizesInv'
    <2>1. UNCHANGED send_buf
      BY <1>6 DEF ServerStep, clientVars
    <2>2. \A d \in Clients : Len(up'[d]) <= Cap
      <3>1. CASE UNCHANGED up
        BY <3>1 DEF SizesInv
      <3>2. CASE ~UNCHANGED up
        <4>1. PICK c \in clients :
                \E k \in RecvCount(up[c], MsgSize - Len(recv_buf_[c])) :
                  Receives(c, k)
          BY <1>1, <1>6, <3>2, ServerEffect DEF ServerStep
        <4>2. PICK k \in RecvCount(up[c], MsgSize - Len(recv_buf_[c])) :
                up' = [up EXCEPT ![c] = Rest(up[c], k)]
          BY <4>1 DEF Receives
        <4>3. c \in Clients
          BY <1>1 DEF ServerTypeOK
        <4>4. Len(Rest(up[c], k)) <= Len(up[c])
          BY <1>1, <4>3, RecvSizes
        <4>5. /\ Len(up[c]) \in Nat /\ Len(Rest(up[c], k)) \in Nat
              /\ Cap \in Nat
          <5>1. k \in 1..Len(up[c])
            BY DEF RecvCount
          <5> QED  BY <1>1, <4>3, <5>1, RestProperties, NetAssumption
        <4>6. Len(Rest(up[c], k)) <= Cap
          BY <4>3, <4>4, <4>5 DEF SizesInv
        <4> QED  BY <1>1, <4>2, <4>3, <4>6 DEF SizesInv
      <3> QED  BY <3>1, <3>2
    <2>3. \A d \in Clients : Len(down'[d]) <= Cap
      <3>1. CASE UNCHANGED down
        BY <3>1 DEF SizesInv
      <3>2. CASE ~UNCHANGED down
        <4>1. PICK c \in clients :
                \E k \in SendCount(send_buf_[c], down[c]) : Greets(c, k)
          BY <1>1, <1>6, <3>2, WelcomeServer
        <4>2. PICK k \in SendCount(send_buf_[c], down[c]) :
                down' = [down EXCEPT ![c] = @ \o SubSeq(send_buf_[c], 1, k)]
          BY <4>1 DEF Greets
        <4>3. c \in Clients
          BY <1>1 DEF ServerTypeOK
        <4>4. Len(down[c] \o SubSeq(send_buf_[c], 1, k)) <= Cap
          BY <1>1, <4>3, SendSizes
        <4> QED  BY <1>1, <4>2, <4>3, <4>4 DEF SizesInv
      <3> QED  BY <3>1, <3>2
    <2> QED  BY <2>1, <2>2, <2>3 DEF SizesInv
  <1>7. CASE UNCHANGED vars
    BY <1>7 DEF vars, netVars, clientVars, SizesInv
  <1> QED  BY <1>5, <1>6, <1>7 DEF Next

\* No receive buffer, send buffer of a client or buffer of TCP overflows, and recv()
\* is always asked for at least one byte.
THEOREM NoOverrun == Spec => []BuffersBounded
  <1>1. Init => SizesInv
    <2> SUFFICES ASSUME Init PROVE SizesInv
      OBVIOUS
    <2>1. 0 <= SendSlots * MsgSize /\ 0 <= Cap
      <3>1. SendSlots * MsgSize \in Nat /\ Cap \in Nat
        BY NetAssumption
      <3> QED  BY <3>1
    <2>2. Len(<<>>) <= SendSlots * MsgSize /\ Len(<<>>) <= Cap
      BY <2>1
    <2> QED  BY <2>2 DEF Init, NetInit, ClientInit, SizesInv
  <1>2. LabInv /\ SizesInv /\ [Next]_vars => SizesInv'
    BY SizesStep
  <1>3. LabInv /\ WelcomeInv /\ SizesInv => BuffersBounded
    BY DEF LabInv, StreamInv, StreamOf, WelcomeInv, Greeted, SizesInv,
           BuffersBounded
  <1> QED  BY <1>1, <1>2, <1>3, LabInvariant, WelcomeInvariant, PTL DEF Spec
=============================================================================
