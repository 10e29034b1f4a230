-------------------------- MODULE SecureSessionProofs --------------------------
(***************************************************************************)
(* The theorems about a session between two daemons: types, agreement on   *)
(* the keys, and the refinement of ChatStream, for any texts, any queue    *)
(* and a network that loses, repeats and reorders packets.                 *)
(***************************************************************************)
EXTENDS SecureSession, TLAPS

(* The leaves are for SMT, unless they name another prover. *)
USE SMTT(30), ZenonT(20), Z3T(30)

-----------------------------------------------------------------------------
(* What the proofs use of sequences.                                       *)

(* The empty sequence. *)
LEMMA EmptyIn ==
    ASSUME NEW T
    PROVE  <<>> \in Seq(T) /\ Len(<<>>) = 0 /\ \A q \in Seq(T) : Len(q) = 0 <=> q = <<>>
OBVIOUS

(* A sequence, by its indices. *)
LEMMA SeqIn ==
    ASSUME NEW T, NEW q \in Seq(T)
    PROVE  /\ Len(q) \in Nat /\ DOMAIN q = 1 .. Len(q)
           /\ \A i \in 1 .. Len(q) : q[i] \in T
OBVIOUS

(* Sequences with the same elements. *)
LEMMA SameSeq ==
    ASSUME NEW T, NEW p \in Seq(T), NEW q \in Seq(T), Len(p) = Len(q),
           \A i \in 1 .. Len(p) : p[i] = q[i]
    PROVE  p = q
OBVIOUS

(* The rest of a sequence. *)
LEMMA TailIn ==
    ASSUME NEW T, NEW q \in Seq(T), q # <<>>
    PROVE  /\ Head(q) \in T /\ Head(q) = q[1] /\ Len(q) >= 1
           /\ Tail(q) \in Seq(T) /\ Len(Tail(q)) = Len(q) - 1
           /\ \A i \in 1 .. Len(Tail(q)) : Tail(q)[i] = q[i + 1]
OBVIOUS

(* One element more. *)
LEMMA AppendIn ==
    ASSUME NEW T, NEW q \in Seq(T), NEW m \in T
    PROVE  /\ Append(q, m) \in Seq(T) /\ Append(q, m) # <<>>
           /\ Len(Append(q, m)) = Len(q) + 1 /\ Append(q, m)[Len(q) + 1] = m
           /\ \A i \in 1 .. Len(q) : Append(q, m)[i] = q[i]
OBVIOUS

LEMMA Peers ==
    \A e \in Ends : Peer(e) \in Ends /\ Peer(e) # e /\ Peer(Peer(e)) = e
BY DEF Ends, Peer

Positions == Nat \ {0}
Packets ==
    {Handshake, StreamHeader} \cup {Message(n, t) : n \in Positions, t \in Texts}
        \cup {Close(n) : n \in Positions}

(* What the type of a packet says about it. *)
Formed(p) ==
    /\ p.type \in {"HANDSHAKE", "STREAM_HEADER", "MESSAGE", "CLOSE"}
    /\ p.type = "STREAM_HEADER" <=> p = StreamHeader
    /\ p.type = "MESSAGE" =>
          p.n \in Positions /\ p.text \in Texts /\ p = Message(p.n, p.text)
    /\ p.type = "CLOSE" => p.n \in Positions /\ p = Close(p.n)

LEMMA PacketFields == \A p \in Packets : Formed(p)
<1> TAKE p \in Packets
<1>1. CASE p = Handshake
  BY <1>1 DEF Formed, Handshake, StreamHeader
<1>2. CASE p = StreamHeader
  BY <1>2 DEF Formed, StreamHeader
<1>3. ASSUME NEW n \in Positions, NEW t \in Texts, p = Message(n, t)
      PROVE  Formed(p)
  BY <1>3 DEF Formed, Message, StreamHeader
<1>4. ASSUME NEW n \in Positions, p = Close(n) PROVE Formed(p)
  BY <1>4 DEF Formed, Close, StreamHeader
<1> QED
  BY <1>1, <1>2, <1>3, <1>4 DEF Packets

-----------------------------------------------------------------------------
(* The flags and states of an end, its streams, and the packets on their   *)
(* way to it: together they give TypeOK.                                   *)
Flags == {ready, failed, expired, handshake_sent, keys_ready, header_sent,
          header_received, cli}
FlagsOK ==
    /\ session_state \in [Ends -> States]
    /\ pc \in [Ends -> Places]
    /\ \A f \in Flags : f \in [Ends -> BOOLEAN]
    /\ outcome \in [Ends -> {"open", "closed", "finished", "aborted"}]
StreamsOK == out \in [Ends -> Seq(Texts)] /\ in \in [Ends -> Seq(Texts)]
PacketsOK ==
    /\ net \in [Ends -> SUBSET Packets]
    /\ queue \in [Ends -> Seq(Packets)]
    /\ \A e \in Ends :
          /\ Len(queue[e]) <= QueueCapacity
          /\ \A i \in 1 .. Len(queue[e]) : queue[e][i] \in net[e]
Typed == FlagsOK /\ StreamsOK /\ PacketsOK

LEMMA TypedIsTypeOK == Typed => TypeOK
<1>1. PacketsOK => \A e \in Ends : \A p \in net[e] :
        p.type \in {"MESSAGE", "CLOSE"} => p.n \in Nat \ {0}
  BY PacketFields DEF PacketsOK, Formed, Positions
<1> QED
  BY <1>1 DEF Typed, TypeOK, FlagsOK, StreamsOK, PacketsOK, Flags

LEMMA InitTyped == Init => Typed
<1> SUFFICES ASSUME Init PROVE Typed
  OBVIOUS
<1>1. FlagsOK
  BY DEF Init, FlagsOK, Flags, States, Places
<1>2. StreamsOK
  BY EmptyIn DEF Init, StreamsOK
<1>3. PacketsOK
  BY EmptyIn, SessionAssumption DEF Init, PacketsOK
<1> QED
  BY <1>1, <1>2, <1>3 DEF Typed

(* The steps of one end: the body of Next. *)
EndSteps(e) ==
    \/ OnComponentReady(e) \/ OnComponentFailed(e) \/ DeadlinePasses(e)
    \/ \E p \in net[e] : OnRecv(e, p)
    \/ Service(e)
    \/ AttachClient(e) \/ CloseChat(e) \/ ClientBreaks(e)
    \/ \E t \in Texts : SendMessage(e, t)

LEMMA ResetFlags ==
    ASSUME FlagsOK, NEW e \in Ends,
           NEW state \in States, NEW how \in {"open", "closed", "finished", "aborted"},
           Reset(e, state, how)
    PROVE  FlagsOK'
BY DEF FlagsOK, Flags, Reset, Places

LEMMA FlagsStep ==
    ASSUME FlagsOK, NEW e \in Ends, EndSteps(e)
    PROVE  FlagsOK'
<1>1. FailChatSession(e) => FlagsOK'
  BY ResetFlags DEF FailChatSession, States
<1>2. CASE OnComponentReady(e) \/ OnComponentFailed(e) \/ DeadlinePasses(e)
           \/ AttachClient(e)
  <2>1. CASE OnComponentReady(e)
    BY <2>1 DEF OnComponentReady, FlagsOK, Flags, crypto
  <2>2. CASE OnComponentFailed(e)
    BY <2>2 DEF OnComponentFailed, FlagsOK, Flags, crypto
  <2>3. CASE DeadlinePasses(e)
    BY <2>3 DEF DeadlinePasses, FlagsOK, Flags, crypto
  <2>4. CASE AttachClient(e)
    BY <2>4 DEF AttachClient, FlagsOK, Flags, crypto, setup
  <2> QED
    BY <1>2, <2>1, <2>2, <2>3, <2>4
<1>3. CASE \E p \in net[e] : OnRecv(e, p)
  BY <1>3 DEF OnRecv, FlagsOK, Flags, crypto, setup
<1>4. CASE CloseChat(e) \/ ClientBreaks(e)
  BY <1>1, <1>4, ResetFlags DEF CloseChat, ClientBreaks, States
<1>5. CASE \E t \in Texts : SendMessage(e, t)
  BY <1>5 DEF SendMessage, FlagsOK, Flags, crypto, setup
<1>6. CASE ServiceIceSession(e)
  <2>1. CASE /\ \E place \in Places : Goto(e, place)
             /\ expired' \in {expired, [expired EXCEPT ![e] =
                                  @ /\ session_state[e] # "ICE_NEGOTIATING"]}
             /\ UNCHANGED <<session_state, ready, failed, crypto, cli, outcome>>
    <3>1. expired' \in [Ends -> BOOLEAN]
      <4> DEFINE value == expired[e] /\ session_state[e] # "ICE_NEGOTIATING"
      <4>1. value \in BOOLEAN
        OBVIOUS
      <4>2. expired' \in {expired, [expired EXCEPT ![e] = value]}
        BY <2>1
      <4> QED
        BY <4>1, <4>2, ZenonT(30) DEF FlagsOK, Flags
    <3>2. pc' \in [Ends -> Places]
      BY <2>1 DEF FlagsOK, Goto
    <3> QED
      BY <2>1, <3>1, <3>2 DEF FlagsOK, Flags, crypto
  <2> QED
    BY <1>1, <1>6, <2>1 DEF ServiceIceSession, Places
<1>7. CASE StartCryptoHandshake(e)
  <2>1. CASE /\ handshake_sent' = [handshake_sent EXCEPT ![e] = TRUE]
             /\ session_state' = [session_state EXCEPT ![e] = "CRYPTO_HANDSHAKE"]
             /\ Goto(e, "first")
             /\ UNCHANGED <<setup, keys_ready, header_sent, header_received, cli, outcome>>
    BY <2>1 DEF FlagsOK, Flags, setup, Goto, Places, States
  <2>2. CASE Goto(e, "first") /\ UNCHANGED <<session_state, setup, crypto, cli, outcome>>
    BY <2>2 DEF FlagsOK, Flags, setup, crypto, Goto, Places
  <2> QED
    BY <1>1, <1>7, <2>1, <2>2 DEF StartCryptoHandshake
<1>8. CASE SendStreamHeader(e)
  <2>1. CASE /\ header_sent' = [header_sent EXCEPT ![e] = TRUE]
             /\ Goto(e, "second")
             /\ UNCHANGED <<session_state, setup, handshake_sent, keys_ready,
                            header_received, cli, outcome>>
    BY <2>1 DEF FlagsOK, Flags, setup, Goto, Places
  <2>2. CASE Goto(e, "second") /\ UNCHANGED <<session_state, setup, crypto, cli, outcome>>
    BY <2>2 DEF FlagsOK, Flags, setup, crypto, Goto, Places
  <2> QED
    BY <1>1, <1>8, <2>1, <2>2 DEF SendStreamHeader
<1>9. CASE EstablishSession(e)
  BY <1>9 DEF EstablishSession, FlagsOK, Flags, crypto, setup, Goto, Places, States
<1>10. CASE ProcessReceivedIcePacket(e)
  <2>1. pc[e] \in {"first", "second", "drain"} => After(e) \in Places
    BY DEF After, Places
  <2>2. CASE Reset(e, "CLOSED", "finished")
    BY <2>2, ResetFlags DEF States
  <2>3. CASE /\ pc[e] \in {"first", "second", "drain"}
             /\ Goto(e, IF pc[e] = "drain" THEN "idle" ELSE After(e))
             /\ UNCHANGED <<session_state, setup, crypto, cli, outcome>>
    BY <2>1, <2>3 DEF FlagsOK, Flags, crypto, setup, Goto, Places
  <2>4. CASE /\ pc[e] \in {"first", "second", "drain"}
             /\ HandleIceAppPacket(e, Head(queue[e]))
             /\ Goto(e, After(e))
             /\ UNCHANGED <<session_state, setup, handshake_sent, header_sent, cli,
                            outcome>>
    BY <2>1, <2>4 DEF FlagsOK, Flags, setup, Goto, HandleIceAppPacket
  <2> QED
    BY <1>1, <1>10, <2>2, <2>3, <2>4 DEF ProcessReceivedIcePacket
<1> QED
  BY <1>2, <1>3, <1>4, <1>5, <1>6, <1>7, <1>8, <1>9, <1>10 DEF Service, EndSteps

(* What a step of an end does to the packets.  Only on_recv puts one into  *)
(* a queue; a pass takes the first one, and a reset drops all.             *)
Sends(e) ==
    \/ net' = net
    \/ \E p \in Packets : SendIcePacket(e, p)
Queues(e) ==
    \/ queue' = queue
    \/ queue' = [queue EXCEPT ![e] = <<>>]
    \/ queue[e] # <<>> /\ queue' = [queue EXCEPT ![e] = Tail(@)]
    \/ \E p \in net[e] : OnRecv(e, p)

LEMMA PacketSteps ==
    ASSUME Typed, NEW e \in Ends, EndSteps(e)
    PROVE  Sends(e) /\ Queues(e)
<1> USE DEF Sends, Queues
<1>0. Len(out[e]) + 1 \in Positions
  BY SeqIn DEF Typed, StreamsOK, Positions
<1>1. FailChatSession(e) => net' = net /\ queue' = [queue EXCEPT ![e] = <<>>]
  BY DEF FailChatSession, Reset
<1>2. CASE \/ OnComponentReady(e) \/ OnComponentFailed(e) \/ DeadlinePasses(e)
           \/ AttachClient(e) \/ EstablishSession(e)
  BY <1>2 DEF OnComponentReady, OnComponentFailed, DeadlinePasses, AttachClient,
              EstablishSession
<1>3. CASE \E p \in net[e] : OnRecv(e, p)
  BY <1>3, ZenonT(30) DEF OnRecv
<1>4. CASE CloseChat(e) \/ ClientBreaks(e)
  <2>1. Close(Len(out[e]) + 1) \in Packets
    BY <1>0 DEF Packets
  <2> QED
    BY <1>1, <1>4, <2>1 DEF CloseChat, ClientBreaks, Reset
<1>5. ASSUME NEW t \in Texts, SendMessage(e, t) PROVE Sends(e) /\ Queues(e)
  <2>1. Message(Len(out[e]) + 1, t) \in Packets
    BY <1>0 DEF Packets
  <2> QED
    BY <1>5, <2>1 DEF SendMessage
<1>6. CASE ServiceIceSession(e)
  BY <1>1, <1>6 DEF ServiceIceSession
<1>7. CASE StartCryptoHandshake(e) \/ SendStreamHeader(e)
  <2>1. Handshake \in Packets /\ StreamHeader \in Packets
    BY DEF Packets
  <2> QED
    BY <1>1, <1>7, <2>1 DEF StartCryptoHandshake, SendStreamHeader
<1>8. CASE ProcessReceivedIcePacket(e)
  BY <1>1, <1>8 DEF ProcessReceivedIcePacket, Reset
<1> QED
  BY <1>2, <1>3, <1>4, <1>5, <1>6, <1>7, <1>8 DEF Service, EndSteps

(* A queue holds packets that were sent, and no more than its capacity. *)
QueueOK(q, sent) ==
    /\ q \in Seq(Packets) /\ Len(q) <= QueueCapacity
    /\ \A i \in 1 .. Len(q) : q[i] \in sent

LEMMA QueueTail ==
    ASSUME NEW q, NEW sent, QueueOK(q, sent), q # <<>>
    PROVE  QueueOK(Tail(q), sent) /\ Len(Tail(q)) < Len(q)
<1>1. /\ Tail(q) \in Seq(Packets) /\ Len(Tail(q)) = Len(q) - 1
      /\ \A i \in 1 .. Len(Tail(q)) : Tail(q)[i] = q[i + 1]
  BY TailIn DEF QueueOK
<1>2. Len(q) \in Nat /\ QueueCapacity \in Nat
  BY SeqIn, SessionAssumption DEF QueueOK
<1> QED
  BY <1>1, <1>2 DEF QueueOK

LEMMA QueueAppend ==
    ASSUME NEW q, NEW sent \in SUBSET Packets, QueueOK(q, sent), NEW p \in sent
    PROVE  QueueOK(Append(IF Len(q) >= QueueCapacity THEN Tail(q) ELSE q, p), sent)
<1> DEFINE r == IF Len(q) >= QueueCapacity THEN Tail(q) ELSE q
<1>1. Len(q) \in Nat /\ QueueCapacity \in Nat \ {0}
  BY SeqIn, SessionAssumption DEF QueueOK
<1>2. QueueOK(r, sent) /\ Len(r) < QueueCapacity
  <2>1. CASE Len(q) >= QueueCapacity
    <3>1. q # <<>>
      BY <1>1, <2>1, EmptyIn
    <3> QED
      BY <1>1, <2>1, <3>1, QueueTail DEF QueueOK
  <2>2. CASE Len(q) < QueueCapacity
    BY <1>1, <2>2
  <2> QED
    BY <1>1, <2>1, <2>2
<1> HIDE DEF r
<1>3. /\ Append(r, p) \in Seq(Packets)
      /\ Len(Append(r, p)) = Len(r) + 1
      /\ \A i \in 1 .. Len(r) : Append(r, p)[i] = r[i]
      /\ Append(r, p)[Len(r) + 1] = p
  BY <1>2, AppendIn DEF QueueOK
<1>4. Len(r) \in Nat
  BY <1>2, SeqIn DEF QueueOK
<1>5. QueueOK(Append(r, p), sent)
  BY <1>1, <1>2, <1>3, <1>4 DEF QueueOK
<1> QED
  BY <1>5 DEF r

LEMMA PacketsStep ==
    ASSUME Typed, NEW e \in Ends, EndSteps(e)
    PROVE  PacketsOK'
<1> USE DEF Typed, PacketsOK
<1>0. \A d \in Ends : QueueOK(queue[d], net[d])
  BY DEF QueueOK
<1>1. net' \in [Ends -> SUBSET Packets] /\ \A d \in Ends : net[d] \subseteq net'[d]
  <2>1. ASSUME NEW p \in Packets, net' = [net EXCEPT ![Peer(e)] = @ \cup {p}]
        PROVE  net' \in [Ends -> SUBSET Packets] /\ \A d \in Ends : net[d] \subseteq net'[d]
    BY <2>1, Peers
  <2> QED
    BY <2>1, PacketSteps, ZenonT(30) DEF Sends, SendIcePacket
<1>2. \A d \in Ends : QueueOK(queue'[d], net[d])
  <2>1. CASE queue' = queue
    BY <1>0, <2>1
  <2>2. CASE queue' = [queue EXCEPT ![e] = <<>>]
    <3>1. QueueOK(<<>>, net[e])
      BY EmptyIn, SessionAssumption DEF QueueOK
    <3> QED
      BY <1>0, <2>2, <3>1
  <2>3. CASE queue[e] # <<>> /\ queue' = [queue EXCEPT ![e] = Tail(@)]
    BY <1>0, <2>3, QueueTail
  <2>4. ASSUME NEW p \in net[e], OnRecv(e, p)
        PROVE  \A d \in Ends : QueueOK(queue'[d], net[d])
    <3> DEFINE q == Append(IF Len(queue[e]) >= QueueCapacity THEN Tail(queue[e])
                           ELSE queue[e], p)
    <3>1. QueueOK(q, net[e])
      BY <1>0, QueueAppend
    <3>2. queue' = [queue EXCEPT ![e] = q]
      BY <2>4 DEF OnRecv
    <3> HIDE DEF q
    <3> QED
      BY <1>0, <3>1, <3>2
  <2> QED
    BY <2>1, <2>2, <2>3, <2>4, PacketSteps DEF Queues
<1>3. queue' \in [Ends -> Seq(Packets)]
  <2>1. \E q : queue' = [queue EXCEPT ![e] = q] \/ queue' = queue
    BY PacketSteps DEF Queues, OnRecv
  <2> QED
    BY <1>2, <2>1 DEF QueueOK
<1> QED
  BY <1>1, <1>2, <1>3 DEF QueueOK

LEMMA StreamsStep ==
    ASSUME Typed, NEW e \in Ends, EndSteps(e)
    PROVE  StreamsOK'
<1> USE DEF StreamsOK
<1>0. out \in [Ends -> Seq(Texts)] /\ in \in [Ends -> Seq(Texts)]
  BY DEF Typed
<1>1. FailChatSession(e) => UNCHANGED <<out, in>>
  BY DEF FailChatSession, streams
<1>2. CASE UNCHANGED <<out, in>>
  BY <1>0, <1>2
<1>3. ASSUME NEW t \in Texts, SendMessage(e, t) PROVE StreamsOK'
  <2>1. Append(out[e], t) \in Seq(Texts)
    BY <1>0, AppendIn
  <2> QED
    BY <1>0, <1>3, <2>1 DEF SendMessage
<1>4. CASE ProcessReceivedIcePacket(e)
  <2>1. CASE UNCHANGED out /\ queue[e] # <<>> /\ HandleIceAppPacket(e, Head(queue[e]))
    <3>1. Formed(Head(queue[e]))
      BY <2>1, TailIn, PacketFields DEF Typed, PacketsOK
    <3>2. Head(queue[e]).type = "MESSAGE" =>
            Append(in[e], Head(queue[e]).text) \in Seq(Texts)
      BY <1>0, <3>1, AppendIn DEF Formed
    <3> QED
      BY <1>0, <2>1, <3>2 DEF HandleIceAppPacket
  <2> QED
    BY <1>1, <1>2, <1>4, <2>1 DEF ProcessReceivedIcePacket, streams
<1> QED
  BY <1>1, <1>2, <1>3, <1>4, ZenonT(30)
     DEF EndSteps, OnComponentReady, OnComponentFailed, DeadlinePasses, OnRecv,
         AttachClient, CloseChat, ClientBreaks, Service, ServiceIceSession,
         StartCryptoHandshake, SendStreamHeader, EstablishSession, streams

LEMMA TypedStep == Typed /\ [Next]_vars => Typed'
<1> SUFFICES ASSUME Typed, [Next]_vars PROVE Typed'
  OBVIOUS
<1>1. ASSUME NEW e \in Ends, EndSteps(e) PROVE Typed'
  BY <1>1, FlagsStep, StreamsStep, PacketsStep DEF Typed
<1>2. CASE UNCHANGED vars
  BY <1>2 DEF vars, setup, crypto, streams, Typed, FlagsOK, Flags, StreamsOK, PacketsOK
<1> QED
  BY <1>1, <1>2 DEF Next, EndSteps

LEMMA AlwaysTyped == Spec => []Typed
BY InitTyped, TypedStep, PTL DEF Spec

(* The session's fields keep their types and the queue its bound, whatever *)
(* arrives.                                                                *)
THEOREM TypeCorrect == Spec => []TypeOK
BY AlwaysTyped, TypedIsTypeOK, PTL

-----------------------------------------------------------------------------
(* An end that is in service_crypto_session has a session, and the history *)
(* variable says so.                                                       *)
Alive ==
    \A e \in Ends :
        /\ pc[e] # "idle" => ice_active(e)
        /\ outcome[e] = "open" <=> ice_active(e)

LEMMA AliveStep == Typed /\ Alive /\ [Next]_vars => Alive'
<1> SUFFICES ASSUME Typed, Alive, [Next]_vars PROVE Alive'
  OBVIOUS
<1> USE DEF Alive, ice_active
<1>0. FlagsOK
  BY DEF Typed
<1>1. ASSUME NEW e \in Ends, EndSteps(e) PROVE Alive'
  <2>1. ASSUME NEW state \in {"CLOSED", "FAILED"},
               NEW how \in {"closed", "finished", "aborted"}, Reset(e, state, how)
        PROVE  Alive'
    BY <1>0, <2>1 DEF Reset, FlagsOK
  <2>2. FailChatSession(e) => Alive'
    BY <2>1 DEF FailChatSession
  <2>3. CASE \/ OnComponentReady(e) \/ OnComponentFailed(e) \/ DeadlinePasses(e)
             \/ AttachClient(e) \/ (\E p \in net[e] : OnRecv(e, p))
             \/ (\E t \in Texts : SendMessage(e, t))
    BY <2>3 DEF OnComponentReady, OnComponentFailed, DeadlinePasses, AttachClient,
                OnRecv, SendMessage
  <2>4. CASE CloseChat(e) \/ ClientBreaks(e)
    BY <2>1, <2>2, <2>4 DEF CloseChat, ClientBreaks
  <2>5. CASE ServiceIceSession(e)
    BY <1>0, <2>2, <2>5 DEF ServiceIceSession, Goto, FlagsOK
  <2>6. CASE StartCryptoHandshake(e)
    BY <1>0, <2>2, <2>6 DEF StartCryptoHandshake, Goto, FlagsOK
  <2>7. CASE SendStreamHeader(e)
    BY <1>0, <2>2, <2>7 DEF SendStreamHeader, Goto, FlagsOK
  <2>8. CASE EstablishSession(e)
    BY <1>0, <2>8 DEF EstablishSession, Goto, FlagsOK
  <2>9. CASE ProcessReceivedIcePacket(e)
    BY <1>0, <2>1, <2>2, <2>9 DEF ProcessReceivedIcePacket, Goto, FlagsOK
  <2> QED
    BY <1>1, <2>3, <2>4, <2>5, <2>6, <2>7, <2>8, <2>9 DEF EndSteps, Service
<1>2. CASE UNCHANGED vars
  BY <1>2 DEF vars
<1> QED
  BY <1>1, <1>2 DEF Next, EndSteps

-----------------------------------------------------------------------------
(* Agreement.  A stream header that was sent stays on the network, and the *)
(* end that sent it has its keys as long as it is there: an end only loses *)
(* its flags by a reset, which it does not come back from.                 *)
Agreement ==
    \A e \in Ends :
        /\ header_sent[e] => StreamHeader \in net[Peer(e)]
        /\ header_received[e] => StreamHeader \in net[e]
        /\ StreamHeader \in net[Peer(e)] /\ ice_active(e) =>
              keys_ready[e] /\ header_sent[e]
        /\ encrypted_session_ready(e) => Establishes(e)

LEMMA AgreementStep == Typed /\ Alive /\ Agreement /\ [Next]_vars => Agreement'
<1> SUFFICES ASSUME Typed, Alive, Agreement, [Next]_vars PROVE Agreement'
  OBVIOUS
<1> USE DEF Agreement, ice_active, encrypted_session_ready, Establishes
<1>0. FlagsOK /\ net \in [Ends -> SUBSET Packets]
  BY DEF Typed, PacketsOK
<1>1. ASSUME NEW e \in Ends, EndSteps(e) PROVE Agreement'
  <2>0. \A d \in Ends : d = e \/ d = Peer(e)
    BY DEF Ends, Peer
  <2>1. ASSUME NEW state \in {"CLOSED", "FAILED"}, NEW how, Reset(e, state, how),
               \/ net' = net
               \/ \E n \in Positions : SendIcePacket(e, Close(n))
        PROVE  Agreement'
    <3>1. \A n : Close(n) # StreamHeader
      BY DEF Close, StreamHeader
    <3>2. /\ session_state' = [session_state EXCEPT ![e] = state]
          /\ keys_ready' = [keys_ready EXCEPT ![e] = FALSE]
          /\ header_sent' = [header_sent EXCEPT ![e] = FALSE]
          /\ header_received' = [header_received EXCEPT ![e] = FALSE]
      BY <2>1, ZenonT(30) DEF Reset
    <3>3. \A d \in Ends : StreamHeader \in net'[d] <=> StreamHeader \in net[d]
      BY <1>0, <2>1, <3>1, Peers DEF SendIcePacket
    <3>4. /\ session_state \in [Ends -> States]
          /\ \A f \in {keys_ready, header_sent, header_received} : f \in [Ends -> BOOLEAN]
      BY <1>0 DEF FlagsOK, Flags
    <3> QED
      BY <2>1, <3>2, <3>3, <3>4, Peers
  <2>2. FailChatSession(e) => Agreement'
    BY <2>1, ZenonT(30) DEF FailChatSession
  <2>3. CASE \/ OnComponentReady(e) \/ OnComponentFailed(e) \/ DeadlinePasses(e)
             \/ AttachClient(e) \/ \E p \in net[e] : OnRecv(e, p)
    BY <2>3 DEF OnComponentReady, OnComponentFailed, DeadlinePasses, AttachClient,
                OnRecv, crypto
  <2>4. CASE CloseChat(e) \/ ClientBreaks(e)
    <3>1. Len(out[e]) + 1 \in Positions
      BY SeqIn DEF Typed, StreamsOK, Positions
    <3> QED
      BY <2>1, <2>2, <2>4, <3>1 DEF CloseChat, ClientBreaks
  <2>5. ASSUME NEW t \in Texts, SendMessage(e, t) PROVE Agreement'
    <3>1. \A n : Message(n, t) # StreamHeader
      BY DEF Message, StreamHeader
    <3> QED
      BY <1>0, <2>5, <3>1, Peers DEF SendMessage, SendIcePacket, crypto
  <2>6. CASE ServiceIceSession(e)
    BY <2>2, <2>6 DEF ServiceIceSession, crypto
  <2>7. CASE StartCryptoHandshake(e)
    <3>1. Handshake # StreamHeader
      BY DEF Handshake, StreamHeader
    <3>2. CASE /\ SendIcePacket(e, Handshake)
               /\ session_state' = [session_state EXCEPT ![e] = "CRYPTO_HANDSHAKE"]
               /\ UNCHANGED <<keys_ready, header_sent, header_received>>
               /\ ice_active(e)
      BY <1>0, <3>1, <3>2, Peers DEF SendIcePacket, FlagsOK
    <3> QED
      BY <2>2, <2>7, <3>2 DEF StartCryptoHandshake, crypto, Alive
  <2>8. CASE SendStreamHeader(e)
    BY <1>0, <2>2, <2>8, Peers DEF SendStreamHeader, SendIcePacket, crypto, FlagsOK, Flags
  <2>9. CASE EstablishSession(e)
    BY <1>0, <2>9, Peers DEF EstablishSession, FlagsOK, Flags, crypto
  <2>10. CASE ProcessReceivedIcePacket(e)
    <3>1. CASE /\ queue[e] # <<>>
               /\ HandleIceAppPacket(e, Head(queue[e]))
               /\ UNCHANGED <<session_state, header_sent, net>>
      <4>1. Formed(Head(queue[e])) /\ Head(queue[e]) \in net[e]
        BY <3>1, TailIn, EmptyIn, PacketFields DEF Typed, PacketsOK
      <4> QED
        BY <1>0, <3>1, <4>1, Peers DEF HandleIceAppPacket, Formed, FlagsOK, Flags
    <3> QED
      BY <2>1, <2>2, <2>10, <3>1, ZenonT(30) DEF ProcessReceivedIcePacket, crypto
  <2> QED
    BY <1>1, <2>3, <2>4, <2>5, <2>6, <2>7, <2>8, <2>9, <2>10, ZenonT(30) DEF EndSteps, Service
<1>2. CASE UNCHANGED vars
  BY <1>2 DEF vars, crypto
<1> QED
  BY <1>1, <1>2 DEF Next, EndSteps

(* What the two theorems below rest on, for every state of the session. *)
Inductive == Typed /\ Alive /\ Agreement

LEMMA AlwaysInductive == Spec => []Inductive
<1>1. Init => Inductive
  <2>1. Init => Alive
    BY DEF Init, Alive, ice_active
  <2>2. Init => Agreement
    BY Peers DEF Init, Agreement, encrypted_session_ready
  <2> QED
    BY <2>1, <2>2, InitTyped DEF Inductive
<1>2. Inductive /\ [Next]_vars => Inductive'
  BY TypedStep, AliveStep, AgreementStep DEF Inductive
<1> QED
  BY <1>1, <1>2, PTL DEF Spec

(* service_crypto_session: when an end is SECURE both stream headers have  *)
(* been sent, and its peer, if it has not given up, holds the keys.        *)
THEOREM SecureEndsAgree == Spec => []SecureAgreement
<1>1. Inductive => SecureAgreement
  BY Peers DEF Inductive, Agreement, SecureAgreement, Establishes
<1> QED
  BY <1>1, AlwaysInductive, PTL

-----------------------------------------------------------------------------
(* The stream.  What a step does to the streams, their outcomes and the    *)
(* network: nothing but a packet of the handshake, a text encrypted, a     *)
(* text decrypted, or the end of the session for one of three reasons.     *)
Quiet(e) ==
    /\ UNCHANGED <<out, in, outcome>>
    /\ \/ net' = net
       \/ SendIcePacket(e, Handshake) \/ SendIcePacket(e, StreamHeader)

Encrypts(e, t) ==
    /\ outcome[e] = "open"
    /\ out' = [out EXCEPT ![e] = Append(@, t)]
    /\ net' = net \/ SendIcePacket(e, Message(Len(out[e]) + 1, t))
    /\ UNCHANGED <<in, outcome>>

Decrypts(e, p) ==
    /\ outcome[e] = "open" /\ p.type = "MESSAGE" /\ p.n = Len(in[e]) + 1
    /\ in' = [in EXCEPT ![e] = Append(@, p.text)]
    /\ UNCHANGED <<out, net, outcome>>

EndsBy(e, how) ==
    /\ outcome[e] = "open"
    /\ outcome' = [outcome EXCEPT ![e] = how]
    /\ UNCHANGED <<out, in>>
    /\ \/ net' = net
       \/ how = "closed" /\ SendIcePacket(e, Close(Len(out[e]) + 1))
    /\ how = "finished" =>
          \E p \in net[e] : p.type = "CLOSE" /\ p.n = Len(in[e]) + 1

Moves(e) ==
    \/ Quiet(e)
    \/ \E t \in Texts : Encrypts(e, t)
    \/ \E p \in net[e] : Decrypts(e, p)
    \/ \E how \in {"closed", "finished", "aborted"} : EndsBy(e, how)

LEMMA StreamMoves ==
    ASSUME Typed, Alive, NEW e \in Ends, EndSteps(e)
    PROVE  Moves(e)
<1>1. FailChatSession(e) /\ outcome[e] = "open" => EndsBy(e, "aborted")
  BY DEF FailChatSession, Reset, EndsBy, streams
<1>2. pc[e] # "idle" \/ ice_active(e) => outcome[e] = "open"
  BY DEF Alive
<1>3. CASE \/ OnComponentReady(e) \/ OnComponentFailed(e) \/ DeadlinePasses(e)
           \/ AttachClient(e) \/ (\E p \in net[e] : OnRecv(e, p))
  BY <1>3 DEF OnComponentReady, OnComponentFailed, DeadlinePasses, AttachClient,
              OnRecv, streams, Moves, Quiet
<1>4. ClientServed(e) => ice_active(e)
  BY DEF ClientServed, encrypted_session_ready, ice_active
<1>5. CASE CloseChat(e)
  BY <1>2, <1>4, <1>5, ZenonT(30) DEF CloseChat, Reset, streams, Moves, EndsBy
<1>6. CASE ClientBreaks(e)
  BY <1>1, <1>2, <1>4, <1>6 DEF ClientBreaks, Moves
<1>7. ASSUME NEW t \in Texts, SendMessage(e, t) PROVE Moves(e)
  BY <1>2, <1>4, <1>7, ZenonT(30) DEF SendMessage, Moves, Encrypts
<1>8. CASE ServiceIceSession(e)
  BY <1>1, <1>2, <1>8 DEF ServiceIceSession, streams, Moves, Quiet
<1>9. CASE StartCryptoHandshake(e)
  BY <1>1, <1>2, <1>9, ZenonT(30) DEF StartCryptoHandshake, streams, Moves, Quiet
<1>10. CASE SendStreamHeader(e)
  BY <1>1, <1>2, <1>10, ZenonT(30) DEF SendStreamHeader, streams, Moves, Quiet
<1>11. CASE EstablishSession(e)
  BY <1>11 DEF EstablishSession, streams, Moves, Quiet
<1>12. CASE ProcessReceivedIcePacket(e)
  <2> DEFINE p == Head(queue[e])
  <2>1. outcome[e] = "open"
    BY <1>2, <1>12 DEF ProcessReceivedIcePacket
  <2>2. queue[e] # <<>> => p \in net[e] /\ Formed(p)
    BY TailIn, EmptyIn, PacketFields DEF Typed, PacketsOK
  <2>3. CASE queue[e] = <<>> /\ UNCHANGED <<net, streams, outcome>>
    BY <2>3 DEF streams, Moves, Quiet
  <2>4. CASE FailChatSession(e)
    BY <1>1, <2>1, <2>4 DEF Moves
  <2>5. CASE /\ queue[e] # <<>> /\ ~Refused(e, p) /\ p.type = "CLOSE"
             /\ Reset(e, "CLOSED", "finished") /\ UNCHANGED <<net, streams>>
    BY <2>1, <2>2, <2>5 DEF Refused, Reset, streams, Moves, EndsBy
  <2>6. CASE /\ queue[e] # <<>> /\ ~Refused(e, p) /\ p.type # "CLOSE"
             /\ HandleIceAppPacket(e, p) /\ UNCHANGED <<net, out, outcome>>
    <3>1. CASE p.type = "MESSAGE"
      <4>1. p.n = Len(in[e]) + 1
        BY <2>6, <3>1 DEF Refused
      <4>2. in' = [in EXCEPT ![e] = Append(@, p.text)]
        BY <2>6, <3>1 DEF HandleIceAppPacket
      <4> QED
        BY <2>1, <2>2, <2>6, <3>1, <4>1, <4>2, ZenonT(30) DEF Moves, Decrypts
    <3>2. CASE p.type # "MESSAGE"
      <4>1. in' = in
        BY <2>6, <3>2 DEF HandleIceAppPacket, Typed, StreamsOK
      <4> QED
        BY <2>6, <4>1 DEF Moves, Quiet
    <3> QED
      BY <3>1, <3>2
  <2> QED
    BY <1>12, <2>3, <2>4, <2>5, <2>6 DEF ProcessReceivedIcePacket
<1> QED
  BY <1>3, <1>5, <1>6, <1>7, <1>8, <1>9, <1>10, <1>11, <1>12 DEF EndSteps, Service

(* The packets of a stream are where its sender wrote them, a CLOSE comes  *)
(* after the last of them, and what was read is a prefix of what was       *)
(* written.                                                                *)
Written(e, p) ==
    /\ p.type = "MESSAGE" =>
          p.n <= Len(out[Peer(e)]) /\ out[Peer(e)][p.n] = p.text
    /\ p.type = "CLOSE" =>
          outcome[Peer(e)] = "closed" /\ p.n = Len(out[Peer(e)]) + 1
Extends(longer, shorter) ==
    /\ Len(shorter) <= Len(longer)
    /\ \A i \in 1 .. Len(shorter) : shorter[i] = longer[i]
InOrder ==
    \A e \in Ends : Extends(out[Peer(e)], in[e]) /\ \A p \in net[e] : Written(e, p)

LEMMA Sent ==
    ASSUME net \in [Ends -> SUBSET Packets], NEW e \in Ends, NEW p, SendIcePacket(e, p)
    PROVE  \A d \in Ends : \A q \in net'[d] : q \in net[d] \/ (d = Peer(e) /\ q = p)
BY Peers DEF SendIcePacket

LEMMA InOrderMove ==
    ASSUME Typed, InOrder, NEW e \in Ends, Moves(e)
    PROVE  InOrder'
<1>0. /\ out \in [Ends -> Seq(Texts)] /\ in \in [Ends -> Seq(Texts)]
      /\ net \in [Ends -> SUBSET Packets]
      /\ outcome \in [Ends -> {"open", "closed", "finished", "aborted"}]
      /\ \A d \in Ends : Len(out[d]) \in Nat /\ Len(in[d]) \in Nat
  BY SeqIn DEF Typed, FlagsOK, StreamsOK, PacketsOK
<1>1. CASE Quiet(e)
  <2>1. \A d : Written(d, Handshake) /\ Written(d, StreamHeader)
    BY DEF Written, Handshake, StreamHeader
  <2>2. \A d, p : Written(d, p)' <=> Written(d, p)
    BY <1>1 DEF Quiet, Written
  <2>3. \A d \in Ends : \A p \in net'[d] : p \in net[d] \/ p \in {Handshake, StreamHeader}
    BY <1>0, <1>1, Sent DEF Quiet
  <2> QED
    BY <1>1, <2>1, <2>2, <2>3 DEF InOrder, Quiet
<1>2. ASSUME NEW t \in Texts, Encrypts(e, t) PROVE InOrder'
  <2>0. PICK n \in Nat : n = Len(out[e]) + 1
    BY <1>0
  <2>1. /\ out'[e] = Append(out[e], t) /\ Len(out'[e]) = n /\ out'[e][n] = t
        /\ \A i \in 1 .. Len(out[e]) : out'[e][i] = out[e][i]
        /\ \A d \in Ends : d # e => out'[d] = out[d]
    BY <1>0, <1>2, <2>0, AppendIn DEF Encrypts
  <2>2. \A d \in Ends : Extends(out'[Peer(d)], in'[d])
    BY <1>0, <1>2, <2>1, Peers DEF InOrder, Encrypts, Extends
  <2>3. ASSUME NEW d \in Ends, NEW p \in net[d] PROVE Written(d, p)'
    <3>1. Formed(p) /\ Written(d, p)
      BY <1>0, PacketFields DEF InOrder
    <3>2. CASE Peer(d) = e
      BY <1>0, <1>2, <2>1, <3>1, <3>2 DEF Written, Encrypts, Formed, Positions
    <3>3. CASE Peer(d) # e
      BY <1>2, <2>1, <3>1, <3>3, Peers DEF Written, Encrypts
    <3> QED
      BY <3>2, <3>3
  <2>4. Written(Peer(e), Message(n, t))'
    <3>1. /\ Message(n, t).n = n /\ Message(n, t).text = t
          /\ Message(n, t).type = "MESSAGE" /\ Peer(Peer(e)) = e
      BY Peers DEF Message
    <3> QED
      BY <2>1, <3>1 DEF Written
  <2>5. \A d \in Ends : \A p \in net'[d] :
          p \in net[d] \/ (d = Peer(e) /\ p = Message(n, t))
    BY <1>0, <1>2, <2>0, Sent DEF Encrypts
  <2> QED
    BY <2>2, <2>3, <2>4, <2>5 DEF InOrder
<1>3. ASSUME NEW p \in net[e], Decrypts(e, p) PROVE InOrder'
  <2>1. /\ Len(in[e]) + 1 <= Len(out[Peer(e)])
        /\ out[Peer(e)][Len(in[e]) + 1] = p.text
    BY <1>3 DEF InOrder, Written, Decrypts
  <2>2. p.text \in Texts
    BY <1>0, <1>3, PacketFields DEF Decrypts, Formed
  <2>3. /\ in'[e] = Append(in[e], p.text) /\ Len(in'[e]) = Len(in[e]) + 1
        /\ in'[e][Len(in[e]) + 1] = p.text
        /\ \A i \in 1 .. Len(in[e]) : in'[e][i] = in[e][i]
        /\ \A d \in Ends : d # e => in'[d] = in[d]
    BY <1>0, <1>3, <2>2, AppendIn DEF Decrypts
  <2>4. Extends(out'[Peer(e)], in'[e])
    BY <1>0, <1>3, <2>1, <2>3 DEF InOrder, Decrypts, Extends
  <2>5. \A d \in Ends : Extends(out'[Peer(d)], in'[d])
    BY <1>3, <2>3, <2>4 DEF InOrder, Decrypts
  <2>6. \A d \in Ends : \A q \in net'[d] : Written(d, q)'
    BY <1>3 DEF InOrder, Decrypts, Written
  <2> QED
    BY <2>5, <2>6 DEF InOrder
<1>4. ASSUME NEW how \in {"closed", "finished", "aborted"}, EndsBy(e, how)
      PROVE  InOrder'
  <2>1. \A d \in Ends : Extends(out'[Peer(d)], in'[d])
    BY <1>4 DEF InOrder, EndsBy
  <2>2. ASSUME NEW d \in Ends, NEW p \in net[d] PROVE Written(d, p)'
    BY <1>0, <1>4, Peers DEF InOrder, Written, EndsBy
  <2>3. how = "closed" => Written(Peer(e), Close(Len(out[e]) + 1))'
    BY <1>0, <1>4, Peers DEF Written, EndsBy, Close
  <2>4. \A d \in Ends : \A p \in net'[d] :
          \/ p \in net[d]
          \/ d = Peer(e) /\ p = Close(Len(out[e]) + 1) /\ how = "closed"
    BY <1>0, <1>4, Peers DEF EndsBy, SendIcePacket
  <2> QED
    BY <1>4, <2>1, <2>2, <2>3, <2>4 DEF InOrder, EndsBy
<1> QED
  BY <1>1, <1>2, <1>3, <1>4 DEF Moves

(* A move of an end is a step of the abstract stream, or none. *)
LEMMA MoveRefines ==
    ASSUME Typed, InOrder, NEW e \in Ends, Moves(e)
    PROVE  [Stream!Next]_(Stream!svars)
<1>0. /\ out \in [Ends -> Seq(Texts)] /\ in \in [Ends -> Seq(Texts)]
      /\ \A d \in Ends : Len(out[d]) \in Nat /\ Len(in[d]) \in Nat
      /\ e \in Stream!Ends /\ Stream!Peer(e) = Peer(e) /\ Peer(e) \in Ends
  BY SeqIn, Peers DEF Typed, StreamsOK, Stream!Ends, Ends, Stream!Peer, Peer
<1>1. CASE Quiet(e)
  BY <1>1 DEF Quiet, Stream!svars
<1>2. ASSUME NEW t \in Texts, Encrypts(e, t) PROVE Stream!Next
  <2>1. Stream!Write(e, t)
    BY <1>2 DEF Encrypts, Stream!Write
  <2> QED
    BY <1>0, <2>1 DEF Stream!Next
<1>3. ASSUME NEW p \in net[e], Decrypts(e, p) PROVE Stream!Next
  <2>1. /\ Len(in[e]) + 1 <= Len(out[Peer(e)])
        /\ out[Peer(e)][Len(in[e]) + 1] = p.text
    BY <1>3 DEF InOrder, Written, Decrypts
  <2>2. Stream!Read(e)
    BY <1>0, <1>3, <2>1 DEF Decrypts, Stream!Read
  <2> QED
    BY <1>0, <2>2 DEF Stream!Next
<1>4. CASE EndsBy(e, "closed") \/ EndsBy(e, "aborted")
  BY <1>0, <1>4 DEF EndsBy, Stream!Next, Stream!Close, Stream!Abort, Stream!End
<1>5. CASE EndsBy(e, "finished")
  <2>1. PICK p \in net[e] : p.type = "CLOSE" /\ p.n = Len(in[e]) + 1
    BY <1>5 DEF EndsBy
  <2>2. /\ outcome[Peer(e)] = "closed" /\ Len(in[e]) = Len(out[Peer(e)])
        /\ \A i \in 1 .. Len(in[e]) : in[e][i] = out[Peer(e)][i]
    <3>1. Extends(out[Peer(e)], in[e]) /\ Written(e, p)
      BY <2>1 DEF InOrder
    <3>2. /\ outcome[Peer(e)] = "closed" /\ p.n = Len(out[Peer(e)]) + 1
          /\ \A i \in 1 .. Len(in[e]) : in[e][i] = out[Peer(e)][i]
      BY <2>1, <3>1 DEF Written, Extends
    <3>3. Len(in[e]) \in Nat /\ Len(out[Peer(e)]) \in Nat
      BY <1>0
    <3> QED
      BY <2>1, <3>2, <3>3
  <2>3. in[e] = out[Peer(e)]
    BY <1>0, <2>2, SameSeq, ZenonT(30)
  <2>4. Stream!Finish(e)
    BY <1>0, <1>5, <2>2, <2>3 DEF EndsBy, Stream!Finish, Stream!End
  <2> QED
    BY <1>0, <2>4 DEF Stream!Next
<1> QED
  BY <1>1, <1>2, <1>3, <1>4, <1>5 DEF Moves

(* ChatStream is what the two daemons give their users over a network that *)
(* loses, repeats and reorders packets: each reads a prefix of what the    *)
(* other wrote, and is told of a clean close only after all of it.         *)
THEOREM SessionIsAStream == Spec => StreamRefined
<1>1. Init => InOrder /\ Stream!Init
  <2>1. Init => Stream!Init
    BY DEF Init, Stream!Init, Stream!Ends, Ends
  <2>2. Init => InOrder
    BY EmptyIn, Peers DEF Init, InOrder, Extends
  <2> QED
    BY <2>1, <2>2
<1>2. Inductive /\ InOrder /\ [Next]_vars =>
        InOrder' /\ [Stream!Next]_(Stream!svars)
  <2> SUFFICES ASSUME Inductive, InOrder, [Next]_vars
               PROVE  InOrder' /\ [Stream!Next]_(Stream!svars)
    OBVIOUS
  <2>1. ASSUME NEW e \in Ends, EndSteps(e)
        PROVE  InOrder' /\ [Stream!Next]_(Stream!svars)
    BY <2>1, StreamMoves, InOrderMove, MoveRefines DEF Inductive
  <2>2. CASE UNCHANGED vars
    BY <2>2 DEF vars, streams, InOrder, Extends, Written, Stream!svars
  <2> QED
    BY <2>1, <2>2 DEF Next, EndSteps
<1>3. Spec => []InOrder
  BY <1>1, <1>2, AlwaysInductive, PTL DEF Spec
<1> QED
  BY <1>1, <1>2, <1>3, AlwaysInductive, PTL DEF Spec, StreamRefined, Stream!Spec

================================================================================
