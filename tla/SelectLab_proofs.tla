--------------------------- MODULE SelectLab_proofs --------------------------
(***************************************************************************)
(* Proofs about SelectLab, for any number of clients and lines.            *)
(***************************************************************************)
EXTENDS SelectLab, FiniteSetTheorems, SequenceTheorems, TLAPS

\* Nobody is watched, so nobody is ready, so nobody is ever read.
Idle == reading = {} /\ ready = {} /\ doubted = {}

\* What users have typed, and what they have sent, are sequences.
Streams ==
  /\ typed \in [Clients -> Seq(BOOLEAN)]
  /\ up \in [Clients -> Seq(Nat)]

ListOK == listed \subseteq Clients /\ Cardinality(listed) <= MaxClients

LabInv == Idle /\ Streams /\ ListOK

LEMMA IdleNext == Idle /\ [Next]_vars => Idle'
  <1> SUFFICES ASSUME Idle, [Next]_vars  PROVE Idle'
    OBVIOUS
  <1>1. CASE UNCHANGED <<reading, ready, doubted>>
    BY <1>1 DEF Idle
  <1>2. CASE Select
    <2>1. ready' = {}
      BY <1>2 DEF Select, Watched, Idle
    <2> QED  BY <1>2, <2>1 DEF Select, Idle
  <1>3. CASE KillServer
    BY <1>3 DEF KillServer, Idle
  <1>4. ASSUME NEW c \in Clients, ReadClient(c) \/ ReadAgain(c)  PROVE FALSE
    BY <1>4 DEF ReadClient, ReadAgain, Idle
  <1>5. ASSUME NEW c \in Clients,
               \/ StartClient(c) \/ ReadMessage(c) \/ TypeLine(c) \/ KillClient(c)
               \/ ResetArrives(c) /\ UNCHANGED labVars
        PROVE  UNCHANGED <<reading, ready, doubted>>
    BY <1>5 DEF StartClient, ReadMessage, TypeLine, KillClient, labVars
  <1>6. CASE StartServer \/ Accept \/ NextSelect \/ UNCHANGED vars
    BY <1>1, <1>6 DEF StartServer, Accept, NextSelect, vars, labVars
  <1> QED  BY <1>1, <1>2, <1>3, <1>4, <1>5, <1>6 DEF Next, ServerLoop

\* The list grows only by a client that is accepted when there is room.
LEMMA ListNext ==
  ASSUME SelectAssumption, Idle, ListOK, [Next]_vars
  PROVE  ListOK'
  <1>1. CASE UNCHANGED listed
    BY <1>1 DEF ListOK
  <1>2. CASE Accept
    <2>1. ASSUME NEW c \in Clients, Cardinality(listed) < MaxClients,
                 listed' = listed \cup {c}
          PROVE  ListOK'
      <3>1. IsFiniteSet(listed) /\ MaxClients \in Nat
        BY FS_Subset DEF ListOK, SelectAssumption
      <3>2. /\ Cardinality(listed) \in Nat
            /\ Cardinality(listed \cup {c}) = Cardinality(listed)
                 \/ Cardinality(listed \cup {c}) = Cardinality(listed) + 1
        BY <3>1, FS_AddElement, FS_CardinalityType
      <3>3. Cardinality(listed') <= MaxClients
        BY <2>1, <3>1, <3>2
      <3> QED  BY <2>1, <3>3 DEF ListOK
    <2> QED  BY <1>1, <1>2, <2>1 DEF Accept
  <1>3. CASE KillServer
    <2>1. listed' = {} /\ MaxClients \in Nat
      BY <1>3 DEF KillServer, SelectAssumption
    <2> QED  BY <2>1, FS_EmptySet DEF ListOK
  <1>4. ASSUME NEW c \in Clients, ReadClient(c) \/ ReadAgain(c)  PROVE FALSE
    BY <1>4 DEF ReadClient, ReadAgain, Idle
  <1>5. ASSUME NEW c \in Clients,
               \/ StartClient(c) \/ ReadMessage(c) \/ TypeLine(c) \/ KillClient(c)
               \/ ResetArrives(c) /\ UNCHANGED labVars
        PROVE  UNCHANGED listed
    BY <1>5 DEF StartClient, ReadMessage, TypeLine, KillClient, labVars
  <1>6. CASE StartServer \/ Select \/ NextSelect \/ UNCHANGED vars
    BY <1>1, <1>6 DEF StartServer, Select, NextSelect, vars, labVars
  <1> QED  BY <1>1, <1>2, <1>3, <1>4, <1>5, <1>6 DEF Next, ServerLoop

\* A user's line goes behind what was sent before.
LEMMA TypeLineStreams ==
  ASSUME SelectAssumption, Streams, NEW c \in Clients, TypeLine(c)
  PROVE  /\ Streams'
         /\ \A d \in Clients : Len(up'[d]) >= Len(up[d])
  <1>1. Len(typed[c]) + 1 \in Nat
    BY DEF Streams
  <1>2. Message(Len(typed[c]) + 1) \in Seq(Nat)
    <2> DEFINE lines == Len(typed[c])
    <2>1. lines \in Nat /\ MsgSize \in Nat
      BY DEF Streams, SelectAssumption
    <2> HIDE DEF lines
    <2>2. lines * MsgSize \in Nat
      BY <2>1
    <2>3. lines + 1 - 1 = lines
      BY <2>1
    <2>4. \A j \in 1..MsgSize : (lines + 1 - 1) * MsgSize + j \in Nat
      BY <2>1, <2>2, <2>3
    <2>5. Message(lines + 1) \in Seq(Nat)
      BY <2>1, <2>4 DEF Message
    <2> QED  BY <2>5 DEF lines
  <1>3. typed' \in [Clients -> Seq(BOOLEAN)]
    BY DEF TypeLine, Streams
  <1>4. CASE UNCHANGED up
    BY <1>3, <1>4 DEF Streams
  <1>5. CASE up' = [up EXCEPT ![c] = @ \o Message(Len(typed[c]) + 1)]
    <2>1. up' \in [Clients -> Seq(Nat)]
      BY <1>2, <1>5 DEF Streams
    <2>2. ASSUME NEW d \in Clients  PROVE Len(up'[d]) >= Len(up[d])
      <3>1. up[d] \in Seq(Nat) /\ Len(up[d]) \in Nat
        BY DEF Streams
      <3>2. CASE d # c
        BY <1>5, <3>1, <3>2 DEF Streams
      <3>3. CASE d = c
        <4>1. up'[d] = up[d] \o Message(Len(typed[c]) + 1)
          BY <1>5, <3>3 DEF Streams
        <4>2. Len(up'[d]) = Len(up[d]) + Len(Message(Len(typed[c]) + 1))
          BY <1>2, <3>1, <4>1, ConcatProperties
        <4>3. Len(Message(Len(typed[c]) + 1)) \in Nat
          BY <1>2
        <4>4. \A a, b, m \in Nat : a = b + m => a >= b
          OBVIOUS
        <4>5. Len(up'[d]) \in Nat
          BY <2>1
        <4> QED  BY <3>1, <4>2, <4>3, <4>4, <4>5
      <3> QED  BY <3>2, <3>3
    <2> QED  BY <1>3, <2>1, <2>2 DEF Streams
  <1> QED  BY <1>4, <1>5 DEF TypeLine, ClientEnds, ClientGone

LEMMA StreamsNext ==
  ASSUME SelectAssumption, Idle, Streams, [Next]_vars
  PROVE  /\ Streams'
         /\ \A d \in Clients : Len(up'[d]) >= Len(up[d])
  <1>1. CASE UNCHANGED <<typed, up>>
    <2>1. \A d \in Clients : Len(up[d]) \in Nat
      BY DEF Streams
    <2> QED  BY <1>1, <2>1 DEF Streams
  <1>2. ASSUME NEW c \in Clients, ReadClient(c) \/ ReadAgain(c)  PROVE FALSE
    BY <1>2 DEF ReadClient, ReadAgain, Idle
  <1>3. ASSUME NEW c \in Clients, StartClient(c) \/ ReadMessage(c) \/ KillClient(c)
        PROVE  UNCHANGED <<typed, up>>
    BY <1>3 DEF StartClient, ReadMessage, KillClient, ClientEnds, ClientGone,
                Connect, CloseClient
  <1>4. ASSUME NEW c \in Clients, ResetArrives(c) /\ UNCHANGED labVars
        PROVE  UNCHANGED <<typed, up>>
    BY <1>4 DEF ResetArrives, labVars
  <1>5. CASE StartServer \/ Select \/ Accept \/ NextSelect \/ KillServer
    <2>1. UNCHANGED <<typed, up>>
      BY <1>5 DEF StartServer, Select, Accept, NextSelect, KillServer, Listen,
                  AcceptAndSend, ServerGone, netVars
    <2> QED  BY <1>1, <2>1
  <1>6. CASE UNCHANGED vars
    <2>1. UNCHANGED <<typed, up>>
      BY <1>6 DEF vars, labVars, netVars
    <2> QED  BY <1>1, <2>1
  <1> QED
    BY <1>1, <1>2, <1>3, <1>4, <1>5, <1>6, TypeLineStreams DEF Next, ServerLoop

LEMMA LabInvariant ==
  ASSUME SelectAssumption  PROVE Spec => []LabInv
  <1>1. Init => LabInv
    <2>1. MaxClients \in Nat
      BY DEF SelectAssumption
    <2> QED
      BY <2>1, FS_EmptySet DEF Init, NetInit, LabInv, Idle, Streams, ListOK
  <1>2. LabInv /\ [Next]_vars => LabInv'
    BY IdleNext, ListNext, StreamsNext DEF LabInv
  <1> QED  BY <1>1, <1>2, PTL DEF Spec

\* However many clients come and whatever they send, no more than MaxClients are
\* in the list of the server of lab 5.
THEOREM SelectListBounded ==
  ASSUME SelectAssumption  PROVE Spec => []ListBounded
  <1>1. LabInv => ListBounded
    BY DEF LabInv, ListOK, ListBounded
  <1> QED  BY <1>1, LabInvariant, PTL

\* Whatever happens, the server of lab 5 never takes a byte that a client has sent:
\* the guard wantRead() is never true.
THEOREM SelectNeverReads ==
  ASSUME SelectAssumption  PROVE Spec => NeverReads
  <1>1. LabInv /\ [Next]_vars
          => [\A c \in Clients : Len(up'[c]) >= Len(up[c])]_vars
    BY StreamsNext DEF LabInv
  <1> QED  BY <1>1, LabInvariant, PTL DEF Spec, NeverReads
=============================================================================
