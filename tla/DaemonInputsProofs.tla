-------------------------- MODULE DaemonInputsProofs --------------------------
(***************************************************************************)
(* The theorems about what comes into chatd past the control connection:   *)
(* the clients of its IPC socket (IpcServer), for any clients, commands    *)
(* and length of the backlog; the texts and packets (Framing), for every   *)
(* length and every header; and the settings (IceConfig), for every        *)
(* config.toml.                                                            *)
(***************************************************************************)
EXTENDS IpcServer, MCInputs, TLAPS

(* The leaves are for SMT, unless they name another prover. *)
USE SMTT(30), ZenonT(20), Z3T(30)

-----------------------------------------------------------------------------
(* What the proofs use of sequences.                                       *)

(* The empty sequence. *)
LEMMA EmptyIn ==
    ASSUME NEW T
    PROVE  <<>> \in Seq(T) /\ Len(<<>>) = 0 /\ \A q \in Seq(T) : Len(q) = 0 <=> q = <<>>
OBVIOUS

(* A sequence, by its indices. *)
LEMMA SeqIn ==
    ASSUME NEW T, NEW q \in Seq(T)
    PROVE  /\ Len(q) \in Nat /\ DOMAIN q = 1 .. Len(q)
           /\ \A i \in 1 .. Len(q) : q[i] \in T
OBVIOUS

(* The rest of a sequence. *)
LEMMA TailIn ==
    ASSUME NEW T, NEW q \in Seq(T), q # <<>>
    PROVE  /\ Head(q) \in T /\ Head(q) = q[1] /\ Len(q) >= 1
           /\ Tail(q) \in Seq(T) /\ Len(Tail(q)) = Len(q) - 1
           /\ \A i \in 1 .. Len(Tail(q)) : Tail(q)[i] = q[i + 1]
OBVIOUS

(* One element more. *)
LEMMA AppendIn ==
    ASSUME NEW T, NEW q \in Seq(T), NEW m \in T
    PROVE  /\ Append(q, m) \in Seq(T) /\ Append(q, m) # <<>>
           /\ Len(Append(q, m)) = Len(q) + 1 /\ Append(q, m)[Len(q) + 1] = m
           /\ \A i \in 1 .. Len(q) : Append(q, m)[i] = q[i]
OBVIOUS

(* Two sequences after each other. *)
LEMMA ConcatIn ==
    ASSUME NEW T, NEW p \in Seq(T), NEW q \in Seq(T)
    PROVE  p \o q \in Seq(T) /\ Len(p \o q) = Len(p) + Len(q)
OBVIOUS

-----------------------------------------------------------------------------
(* The IPC socket.                                                         *)

Lines == {"status", "unknown_command", "invalid_username", "daemon_not_online",
          "USER_ONLINE", "busy", "ENCRYPTED_SESSION", "over"}

(* What handle_ipc_client decides: lines for the client, and to keep a     *)
(* connection only if no other one is kept.                                *)
LEMMA Decisions ==
    ASSUME NEW c \in Clients, NEW env \in Environments
    PROVE  /\ HandleIpcClient(c, env).answer \in Seq(Lines)
           /\ HandleIpcClient(c, env).keep \in BOOLEAN
           /\ HandleIpcClient(c, env).keep => lookup = None
<1>1. \A line \in Lines : <<line>> \in Seq(Lines)
  OBVIOUS
<1>2. <<>> \in Seq(Lines)
  OBVIOUS
<1>3. \A line \in Lines : Drop(line).answer \in Seq(Lines) /\ Drop(line).keep = FALSE
  BY <1>1 DEF Drop
<1>4. \A lines \in Seq(Lines) : Keep(lines).answer \in Seq(Lines) /\ Keep(lines).keep
  BY DEF Keep
<1>5. /\ HandleOpenChat(env).answer \in Seq(Lines)
      /\ HandleOpenChat(env).keep \in BOOLEAN
      /\ HandleOpenChat(env).keep => lookup = None
  <2>1. env.name \in {"invalid", "self", "peer", "other"} /\ env.online \in BOOLEAN
    BY DEF Environments
  <2>2. CASE env.name = "invalid" \/ ~env.online \/ env.name = "self"
    <3>1. HandleOpenChat(env) \in
            {Drop("invalid_username"), Drop("daemon_not_online"), Drop("USER_ONLINE")}
      BY <2>1, <2>2 DEF HandleOpenChat
    <3> QED
      BY <3>1, <1>3, ZenonT(30) DEF Lines
  <2>3. CASE env.name \in {"peer", "other"} /\ env.online
    <3>1. HandleOpenChat(env) =
            IF Joins(env) THEN Keep(<<"ENCRYPTED_SESSION">>)
            ELSE IF Busy(env) THEN Drop("busy") ELSE Keep(<<>>)
      BY <2>3 DEF HandleOpenChat
    <3> QED
      BY <3>1, <1>1, <1>2, <1>3, <1>4, ZenonT(30) DEF Joins, Busy, Lines
  <2> QED
    BY <2>1, <2>2, <2>3
<1>6. Command[c] \in Commands
  BY IpcServerAssumption
<1> QED
  BY <1>3, <1>5, <1>6, ZenonT(30) DEF HandleIpcClient, Commands, Lines

(* The client service_ipc looks at, and the backlog it leaves. *)
LEMMA Accepted ==
    ASSUME TypeOK, Candidate # None, AcceptIfNone
    PROVE  /\ Candidate \in Clients
           /\ backlog' \in Seq(Clients) /\ Len(backlog') <= Backlog
           /\ pending # None => Candidate = pending /\ backlog' = backlog
           /\ pending = None =>
                 /\ backlog # <<>> /\ Candidate = backlog[1]
                 /\ Len(backlog') = Len(backlog) - 1
                 /\ \A i \in 1 .. Len(backlog') : backlog'[i] = backlog[i + 1]
<1>1. CASE pending # None
  BY <1>1 DEF Candidate, AcceptIfNone, TypeOK
<1>2. CASE pending = None
  <2>1. backlog # <<>> /\ Candidate = Head(backlog) /\ backlog' = Tail(backlog)
    BY <1>2 DEF Candidate, AcceptIfNone
  <2>2. backlog \in Seq(Clients) /\ Len(backlog) <= Backlog /\ Backlog \in Nat
    BY IpcServerAssumption DEF TypeOK
  <2> QED
    BY <1>2, <2>1, <2>2, TailIn
<1> QED
  BY <1>1, <1>2

-----------------------------------------------------------------------------
(* The clients, the sockets and the descriptors keep their types. *)
LEMMA ClientType ==
    ASSUME TypeOK, NEW c \in Clients,
           Connects(c) \/ Asks(c) \/ ReadsReply(c) \/ ReadsEndOfFile(c) \/ Leaves(c)
    PROVE  TypeOK'
<1> USE DEF TypeOK
<1>0. <<>> \in Seq(Lines)
  OBVIOUS
<1>1. CASE Connects(c)
  <2>1. backlog' \in Seq(Clients) /\ Len(backlog') = Len(backlog) + 1
    BY <1>1, AppendIn DEF Connects
  <2>2. Len(backlog') <= Backlog
    BY <1>1, <2>1, IpcServerAssumption DEF Connects, HasRoom
  <2> QED
    BY <1>1, <2>1, <2>2 DEF Connects
<1>2. ASSUME Ends(c), UNCHANGED <<backlog, fds, pending, lookup, secure>>
      PROVE  TypeOK'
  BY <1>0, <1>2 DEF Ends, Lines
<1>3. CASE Asks(c)
  BY <1>2, <1>3, ZenonT(30) DEF Asks
<1>4. CASE ReadsReply(c)
  BY <1>0, <1>2, <1>4, ZenonT(30) DEF ReadsReply, Lines
<1> QED
  BY <1>1, <1>2, <1>3, <1>4 DEF ReadsEndOfFile, Leaves

LEMMA ServiceType ==
    ASSUME TypeOK, NEW expired \in BOOLEAN, ServiceIpc(expired)
    PROVE  TypeOK'
<1> DEFINE c == Candidate
<1>1. c \in Clients /\ backlog' \in Seq(Clients) /\ Len(backlog') <= Backlog
  BY Accepted DEF ServiceIpc
<1>2. reply' \in [Clients -> Seq(Lines)] /\ fds' \subseteq Clients
      /\ lookup' \in Clients \cup {None}
  <2>1. CASE reply' = reply /\ lookup' = lookup
             /\ (fds' = fds \ {c} \/ fds' = fds \cup {c})
    BY <1>1, <2>1 DEF TypeOK, Lines
  <2>2. ASSUME NEW env \in Environments,
               fds' = IF HandleIpcClient(c, env).keep THEN fds \cup {c} ELSE fds \ {c},
               lookup' = IF HandleIpcClient(c, env).keep THEN c ELSE lookup,
               reply' = [reply EXCEPT ![c] = @ \o HandleIpcClient(c, env).answer]
        PROVE  reply' \in [Clients -> Seq(Lines)] /\ fds' \subseteq Clients
               /\ lookup' \in Clients \cup {None}
    <3> HIDE DEF c
    <3>1. reply \in [Clients -> Seq(Lines)]
      BY DEF TypeOK, Lines
    <3>2. reply[c] \o HandleIpcClient(c, env).answer \in Seq(Lines)
      BY <1>1, <3>1, Decisions, ConcatIn
    <3> QED
      BY <1>1, <2>2, <3>1, <3>2 DEF TypeOK
  <2> QED
    BY <2>1, <2>2, ZenonT(30) DEF ServiceIpc
<1>3. command' \subseteq Clients /\ pending' \in Clients \cup {None}
  BY <1>1 DEF TypeOK, ServiceIpc
<1> QED
  BY <1>1, <1>2, <1>3 DEF TypeOK, ServiceIpc, Lines

LEMMA ChatType ==
    ASSUME TypeOK, SessionReady \/ ChatEnds \/ ChatClientGone \/ Restarts
    PROVE  TypeOK'
<1>1. ASSUME NEW line \in Lines, Answer(line)
      PROVE  reply' \in [Clients -> Seq(Lines)]
  <2>1. \A c \in Clients : Append(reply[c], line) \in Seq(Lines)
    BY AppendIn DEF TypeOK, Lines
  <2> QED
    BY <1>1, <2>1 DEF Answer, TypeOK, Lines
<1>2. SessionReady \/ ChatEnds => reply' \in [Clients -> Seq(Lines)]
  BY <1>1 DEF SessionReady, ChatEnds, Lines
<1>3. ChatClientGone \/ Restarts => reply' = reply
  BY DEF ChatClientGone, Restarts
<1>4. backlog' \in Seq(Clients) /\ Len(backlog') <= Backlog
  <2>1. <<>> \in Seq(Clients) /\ Len(<<>>) = 0 /\ 0 <= Backlog
    BY EmptyIn, IpcServerAssumption
  <2>2. backlog' \in {backlog, <<>>}
    BY DEF SessionReady, ChatEnds, ChatClientGone, Restarts
  <2> QED
    BY <2>1, <2>2, ZenonT(30) DEF TypeOK
<1> QED
  BY <1>2, <1>3, <1>4, ZenonT(30)
     DEF TypeOK, Lines, SessionReady, ChatEnds, ChatClientGone, Restarts,
         CloseLookupClient, clients

LEMMA TypeStep == TypeOK /\ [Next]_vars => TypeOK'
<1> SUFFICES ASSUME TypeOK, [Next]_vars PROVE TypeOK'
  OBVIOUS
<1>1. CASE UNCHANGED vars
  BY <1>1 DEF TypeOK, vars, clients
<1> QED
  BY <1>1, ClientType, ServiceType, ChatType DEF Next

(* The clients, the sockets and chatd's descriptors keep their types. *)
THEOREM TypeCorrect == Spec => []TypeOK
<1>1. Init => TypeOK
  <2>1. /\ <<>> \in Seq(Lines) /\ <<>> \in Seq(Clients)
        /\ Len(<<>>) = 0 /\ 0 <= Backlog
    BY EmptyIn, IpcServerAssumption
  <2> QED
    BY <2>1, ZenonT(30) DEF Init, TypeOK, Lines
<1> QED
  BY <1>1, TypeStep, PTL DEF Spec

-----------------------------------------------------------------------------
(* A client is in one place: it waits in the backlog, once, or it is the   *)
(* pending one, or lookup_client_fd.  One that has not connected yet is in *)
(* none, so that a new connection is not one chatd already has.            *)
OnePlace ==
    /\ \A i, j \in 1 .. Len(backlog) : backlog[i] = backlog[j] => i = j
    /\ \A i \in 1 .. Len(backlog) :
          backlog[i] \notin {pending, lookup} /\ cli[backlog[i]] # "idle"
    /\ \A c \in Clients : cli[c] = "idle" => c \notin {pending, lookup}
    /\ NoLeak

LEMMA ClientPlace ==
    ASSUME TypeOK, OnePlace, NEW c \in Clients,
           Connects(c) \/ Asks(c) \/ ReadsReply(c) \/ ReadsEndOfFile(c) \/ Leaves(c)
    PROVE  OnePlace'
<1>0. /\ cli \in [Clients -> {"idle", "connected", "asked", "chatting", "done"}]
      /\ \A i \in 1 .. Len(backlog) : backlog[i] \in Clients
  BY SeqIn DEF TypeOK
<1>1. CASE Connects(c)
  <2>1. /\ Len(backlog') = Len(backlog) + 1
        /\ \A i \in 1 .. Len(backlog) : backlog'[i] = backlog[i]
        /\ backlog'[Len(backlog) + 1] = c
    BY <1>1, AppendIn DEF Connects, TypeOK
  <2>2. Len(backlog) \in Nat
    BY SeqIn DEF TypeOK
  <2>3. /\ \A i \in 1 .. Len(backlog) : backlog[i] # c
        /\ c \notin {pending, lookup}
    BY <1>1 DEF Connects, OnePlace
  <2>4. \A i \in 1 .. Len(backlog') :
           IF i = Len(backlog) + 1 THEN backlog'[i] = c
           ELSE i \in 1 .. Len(backlog) /\ backlog'[i] = backlog[i]
    BY <2>1, <2>2
  <2>5. UNCHANGED <<pending, lookup, fds>> /\ cli' = [cli EXCEPT ![c] = "connected"]
    BY <1>1 DEF Connects
  <2>6. \A i, j \in 1 .. Len(backlog') : backlog'[i] = backlog'[j] => i = j
    BY <2>3, <2>4 DEF OnePlace
  <2>7. \A i \in 1 .. Len(backlog') :
           backlog'[i] \notin {pending, lookup} /\ cli'[backlog'[i]] # "idle"
    BY <1>0, <2>3, <2>4, <2>5 DEF OnePlace
  <2>8. \A d \in Clients : cli'[d] = "idle" => d \notin {pending, lookup}
    BY <1>0, <2>5 DEF OnePlace
  <2> QED
    BY <2>5, <2>6, <2>7, <2>8 DEF OnePlace, NoLeak
<1>2. CASE /\ \E to \in {"asked", "chatting", "done"} : cli' = [cli EXCEPT ![c] = to]
           /\ UNCHANGED <<backlog, fds, pending, lookup>>
  BY <1>0, <1>2 DEF OnePlace, NoLeak
<1> QED
  BY <1>1, <1>2 DEF Asks, ReadsReply, ReadsEndOfFile, Leaves, Ends

LEMMA ServicePlace ==
    ASSUME TypeOK, OnePlace, NEW expired \in BOOLEAN, ServiceIpc(expired)
    PROVE  OnePlace'
<1>0. PICK c \in Clients : c = Candidate
  BY Accepted DEF ServiceIpc
<1>1. /\ UNCHANGED cli
      /\ \/ fds' = fds \ {c} /\ pending' = None /\ lookup' = lookup
         \/ fds' = fds \cup {c} /\ pending' = c /\ lookup' = lookup
         \/ fds' = fds \cup {c} /\ pending' = None /\ lookup = None /\ lookup' = c
  BY <1>0, Decisions, ZenonT(30) DEF ServiceIpc
<1>2. /\ c # None /\ (pending = None \/ c = pending)
      /\ c # lookup /\ cli[c] # "idle"
      /\ \A i \in 1 .. Len(backlog') :
            /\ backlog'[i] # c
            /\ backlog'[i] \notin {pending, lookup} /\ cli[backlog'[i]] # "idle"
      /\ \A i, j \in 1 .. Len(backlog') : backlog'[i] = backlog'[j] => i = j
  <2>0. c # None /\ Len(backlog) \in Nat
    BY IpcServerAssumption, SeqIn DEF TypeOK
  <2>1. CASE pending # None
    <3>1. c = pending /\ backlog' = backlog
      BY <1>0, <2>1, Accepted DEF ServiceIpc
    <3> QED
      BY <2>0, <3>1, <2>1 DEF OnePlace, NoLeak
  <2>2. CASE pending = None
    <3>1. /\ backlog # <<>> /\ c = backlog[1]
          /\ Len(backlog') = Len(backlog) - 1
          /\ \A i \in 1 .. Len(backlog') : backlog'[i] = backlog[i + 1]
      BY <1>0, <2>2, Accepted DEF ServiceIpc
    <3>2. 1 \in 1 .. Len(backlog)
      BY <3>1, <2>0, EmptyIn DEF TypeOK
    <3>3. \A i \in 1 .. Len(backlog') :
             i + 1 \in 1 .. Len(backlog) /\ i + 1 # 1 /\ backlog'[i] = backlog[i + 1]
      BY <2>0, <3>1
    <3>4. \A i, j \in 1 .. Len(backlog') : backlog'[i] = backlog'[j] => i = j
      <4> SUFFICES ASSUME NEW i \in 1 .. Len(backlog'), NEW j \in 1 .. Len(backlog'),
                          backlog'[i] = backlog'[j]
                   PROVE  i = j
        OBVIOUS
      <4>1. /\ i + 1 \in 1 .. Len(backlog) /\ j + 1 \in 1 .. Len(backlog)
            /\ backlog[i + 1] = backlog[j + 1]
        BY <3>3
      <4>2. i + 1 = j + 1
        BY <4>1 DEF OnePlace
      <4> QED
        BY <2>0, <3>1, <4>2
    <3> QED
      BY <2>0, <2>2, <3>1, <3>2, <3>3, <3>4 DEF OnePlace
  <2> QED
    BY <2>1, <2>2
<1>3. NoLeak'
  BY <1>1, <1>2 DEF OnePlace, NoLeak
<1>4. /\ \A i \in 1 .. Len(backlog') :
            backlog'[i] \notin {pending', lookup'} /\ cli'[backlog'[i]] # "idle"
      /\ \A d \in Clients : cli'[d] = "idle" => d \notin {pending', lookup'}
  <2>1. pending' \in {c, None} /\ lookup' \in {c, lookup}
    BY <1>1
  <2>2. \A i \in 1 .. Len(backlog') : backlog'[i] # None
    BY IpcServerAssumption, Accepted, SeqIn DEF ServiceIpc
  <2>3. None \notin Clients
    BY IpcServerAssumption
  <2> QED
    BY <1>1, <1>2, <2>1, <2>2, <2>3 DEF OnePlace
<1> QED
  BY <1>2, <1>3, <1>4 DEF OnePlace

LEMMA ChatPlace ==
    ASSUME TypeOK, OnePlace, SessionReady \/ ChatEnds \/ ChatClientGone \/ Restarts
    PROVE  OnePlace'
<1>0. /\ None \notin Clients
      /\ \A i \in 1 .. Len(backlog) : backlog[i] # None
  BY IpcServerAssumption, SeqIn DEF TypeOK
<1>1. CASE SessionReady
  BY <1>1 DEF SessionReady, clients, OnePlace, NoLeak
<1>2. CASE ChatEnds \/ ChatClientGone
  BY <1>0, <1>2 DEF ChatEnds, ChatClientGone, CloseLookupClient, clients, OnePlace, NoLeak
<1>3. CASE Restarts
  <2>1. backlog' = <<>> /\ Len(<<>>) = 0
    BY <1>3, EmptyIn DEF Restarts
  <2> QED
    BY <1>0, <1>3, <2>1 DEF Restarts, OnePlace, NoLeak
<1> QED
  BY <1>1, <1>2, <1>3

LEMMA PlaceStep == TypeOK /\ OnePlace /\ [Next]_vars => OnePlace'
<1> SUFFICES ASSUME TypeOK, OnePlace, [Next]_vars PROVE OnePlace'
  OBVIOUS
<1>1. CASE UNCHANGED vars
  BY <1>1 DEF OnePlace, NoLeak, vars, clients
<1> QED
  BY <1>1, ClientPlace, ServicePlace, ChatPlace DEF Next

(* chatd loses no descriptor, closes none that is in use, and does not     *)
(* displace a CLI that waits or chats.                                     *)
THEOREM NoDescriptorLeaks == Spec => []NoLeak
<1>1. Init => OnePlace
  <2>1. Len(<<>>) = 0
    BY EmptyIn
  <2> QED
    BY <2>1, IpcServerAssumption DEF Init, OnePlace, NoLeak
<1>2. OnePlace => NoLeak
  BY DEF OnePlace
<1> QED
  BY <1>1, <1>2, PlaceStep, TypeCorrect, PTL DEF Spec

-----------------------------------------------------------------------------
(* Texts, packets and settings.                                            *)

(* The length field of a header is read back as chat_write_u32_be wrote    *)
(* it.                                                                     *)
LEMMA LengthReadBack ==
    ASSUME NEW n \in Nat, n < 65536, NEW type
    PROVE  /\ Sizing!ReadU32(SubSeq(Sizing!EncodeHeader(type, n), 3, 6)) = n
           /\ Sizing!EncodeHeader(type, n)[1] = 1
           /\ Sizing!EncodeHeader(type, n)[2] = type
<1>1. (n \div 16777216) % 256 = 0 /\ (n \div 65536) % 256 = 0
  BY SMT
<1>2. /\ ((n \div 256) % 256) * 256 + (n % 256) = n
      /\ (n \div 256) % 256 \in Nat /\ n % 256 \in Nat
  <2>1. n = 256 * (n \div 256) + (n % 256)
    BY SMT
  <2>2. n % 256 \in Nat
    BY SMT
  <2>3. n \div 256 \in Nat /\ n \div 256 < 256
    BY SMT
  <2>4. ASSUME NEW q \in Nat, q < 256 PROVE q % 256 = q
    BY <2>4, SMT
  <2> QED
    BY <2>1, <2>2, <2>3, <2>4
<1>3. ASSUME NEW a, NEW b, NEW c, NEW d
      PROVE  LET h == <<1, type>> \o <<a, b, c, d>>
                 s == SubSeq(h, 3, 6)
             IN  h[1] = 1 /\ h[2] = type /\ s[1] = a /\ s[2] = b /\ s[3] = c /\ s[4] = d
  OBVIOUS
<1> QED
  BY <1>1, <1>2, <1>3 DEF Sizing!EncodeHeader, Sizing!WriteU32, Sizing!Byte, Sizing!ReadU32

-----------------------------------------------------------------------------
(* How far a text has come says which limits it has passed, and a text     *)
(* that was sent is followed by its own packet; a text that fails at the   *)
(* receiver is one whose MESSAGE line is too long.                         *)
Announced == Sizing!ReadU32(SubSeq(packet.header, 3, 6))
Sized ==
    /\ text \in Nat /\ name \in Nat
    /\ stage = "too_long" => 14 + text >= 4096
    /\ stage = "command" => text > 0
    /\ stage = "send_failed" => ~Sizing!Sendable(text)
    /\ stage \in {"sent", "received"} /\ text > 0 =>
          /\ Sizing!Sendable(text)
          /\ packet = [header |-> Sizing!EncodeHeader(Sizing!Message, text + 17),
                       size |-> 6 + text + 17]
    /\ stage = "failed" /\ text > 0 => ~Sizing!Shown(text)
    /\ stage = "typed" => text > 0
    /\ stage # "idle" /\ text = 0 => packet.header \in [1 .. 6 -> Nat]
    /\ stage = "foreign" => text = 0
    /\ HandledIsWhole

LEMMA SizedInit == InputsInit => Sized
<1>1. Sizing!Init => Sized
  <2>1. \A n \in Lengths : n \in Nat /\ n > 0
    BY InputsAssumption DEF Sizing!IpcMax
  <2>2. \A n \in Names : n \in Nat
    BY InputsAssumption
  <2>3. Sizing!Init => /\ text \in Nat /\ name \in Nat
                       /\ \/ stage = "typed" /\ text > 0
                          \/ /\ stage = "foreign" /\ text = 0
                             /\ packet.header \in [1 .. 6 -> Nat]
    <3>1. \A b \in Bytes : b \in Nat
      BY InputsAssumption
    <3> QED
      BY <2>1, <2>2, <3>1 DEF Sizing!Init, Sizing!HeaderSize
  <2> QED
    BY <2>3 DEF Sized, HandledIsWhole, Sizing!HandledIsWhole
<1>2. NoText => Sized
  BY DEF NoText, Sized, HandledIsWhole, Sizing!HandledIsWhole
<1> QED
  BY <1>1, <1>2 DEF InputsInit

LEMMA SizedStep == Sized /\ [InputsNext]_<<sizing, settings>> => Sized'
<1> SUFFICES ASSUME Sized, [InputsNext]_<<sizing, settings>> PROVE Sized'
  OBVIOUS
<1> USE DEF Sized, HandledIsWhole, Sizing!HandledIsWhole
<1>1. CASE Sizing!Typed
  BY <1>1 DEF Sizing!Typed, Sizing!IpcMax
<1>2. CASE Sizing!SendsMessage
  BY <1>2 DEF Sizing!SendsMessage, Sizing!HeaderSize, Sizing!ABytes
<1>3. CASE Sizing!Received
  <2>1. text > 0 /\ stage = "sent" => Sizing!Fits(packet.size)
    BY DEF Sizing!Fits, Sizing!Sendable, Sizing!HeaderSize, Sizing!ABytes,
           Sizing!PacketMax
  <2>2. /\ UNCHANGED <<text, name, packet>> /\ stage' \in {"received", "failed"}
        /\ stage \in {"sent", "foreign"}
    BY <1>3 DEF Sizing!Received
  <2>3. text > 0 => stage = "sent" /\ stage' = "received"
    BY <1>3, <2>1 DEF Sizing!Received
  <2> QED
    BY <2>2, <2>3
<1>4. CASE Sizing!HandlePacket
  <2>1. CASE text = 0
    <3>1. stage' \in {"failed", "accepted"} /\ UNCHANGED <<text, name, packet>>
      BY <1>4, <2>1 DEF Sizing!HandlePacket
    <3>2. stage' = "accepted" => Sizing!Accepts(packet)
      BY <1>4, <2>1 DEF Sizing!HandlePacket
    <3>3. Sizing!Accepts(packet) => packet.size = 6 + Announced
      BY DEF Sizing!Accepts, Sizing!Whole, Sizing!HeaderSize, Announced
    <3>4. Announced \in Nat
      <4>1. packet.header \in [1 .. 6 -> Nat]
        BY <1>4, <2>1 DEF Sizing!HandlePacket
      <4>2. ASSUME NEW h \in [1 .. 6 -> Nat]
            PROVE  LET s == SubSeq(h, 3, 6) IN
                   s[1] = h[3] /\ s[2] = h[4] /\ s[3] = h[5] /\ s[4] = h[6]
        BY <4>2
      <4> QED
        BY <4>1, <4>2 DEF Announced, Sizing!ReadU32
    <3> QED
      BY <1>4, <2>1, <3>1, <3>2, <3>3, <3>4 DEF Sizing!HeaderSize, Announced, Sizing!HandlePacket
  <2>2. CASE text > 0
    <3>1. /\ text <= 4081 /\ text + 17 < 65536 /\ text + 17 \in Nat
          /\ packet.size = 6 + text + 17
          /\ packet.header = Sizing!EncodeHeader(3, text + 17)
      BY <1>4, <2>2 DEF Sizing!HandlePacket, Sizing!Sendable, Sizing!TextMax,
                        Sizing!IpcMax, Sizing!Message
    <3>2. /\ Announced = text + 17
          /\ packet.header[1] = 1 /\ packet.header[2] = 3
      <4>1. PICK n \in Nat : n = text + 17
        BY <3>1
      <4>2. n < 65536 /\ packet.header = Sizing!EncodeHeader(3, n)
        BY <3>1, <4>1
      <4> HIDE DEF Sized, HandledIsWhole, Sizing!HandledIsWhole
      <4>3. /\ Sizing!ReadU32(SubSeq(Sizing!EncodeHeader(3, n), 3, 6)) = n
            /\ Sizing!EncodeHeader(3, n)[1] = 1
            /\ Sizing!EncodeHeader(3, n)[2] = 3
        BY <4>2, LengthReadBack
      <4> QED
        BY <4>1, <4>2, <4>3 DEF Announced
    <3>3. Sizing!Accepts(packet)
      BY <3>1, <3>2 DEF Sizing!Accepts, Sizing!DecodesHeader, Sizing!WellFormed,
         Sizing!Whole, Sizing!LengthOfType, Sizing!Message, Sizing!Handshake,
         Sizing!StreamHeader, Sizing!Close, Sizing!ABytes, Sizing!HeaderSize,
         Sizing!PacketTypes, Sizing!MaxMessage, Announced
    <3>4. stage' = IF Sizing!Shown(text) THEN "shown" ELSE "failed"
      <4> HIDE DEF Sized, HandledIsWhole, Sizing!HandledIsWhole
      <4>1. stage' = IF ~Sizing!Accepts(packet) THEN "failed"
                     ELSE IF text = 0 THEN "accepted"
                     ELSE IF Sizing!Shown(Announced - 17) THEN "shown" ELSE "failed"
        BY <1>4 DEF Sizing!HandlePacket, Sizing!ABytes, Announced
      <4>2. text \in Nat
        BY DEF Sized
      <4>3. Announced - 17 = text /\ text # 0
        BY <2>2, <3>2, <4>2
      <4> QED
        BY <3>3, <4>1, <4>3
    <3>5. UNCHANGED <<text, name, packet>>
      BY <1>4 DEF Sizing!HandlePacket
    <3> QED
      BY <2>2, <3>1, <3>2, <3>4, <3>5 DEF Sizing!HeaderSize, Announced, Sizing!Shown
  <2> QED
    BY <2>1, <2>2
<1>5. CASE UNCHANGED sizing
  BY <1>5 DEF sizing, Sizing!Shown
<1> QED
  BY <1>1, <1>2, <1>3, <1>4, <1>5 DEF InputsNext, Sizing!Next

(* chatd and chat: a text within the limits of the command line, of the    *)
(* packet and of the MESSAGE line is refused nowhere, for every length.    *)
THEOREM FittingTextsAreShown == InputsSpec => []FittingIsShown
<1>1. Sized => FittingIsShown
  BY DEF Sized, FittingIsShown, Sizing!FittingIsShown, Sizing!Sendable, Sizing!Shown,
         Sizing!TextMax, Sizing!IpcMax, Sizing!PacketMax, Sizing!ABytes,
         Sizing!HeaderSize
<1> QED
  BY <1>1, SizedInit, SizedStep, PTL DEF InputsSpec

(* handle_ice_app_packet handles no packet whose size differs from what    *)
(* its header says, whatever the header and the size.                      *)
THEOREM HandledPacketsAreWhole == InputsSpec => []HandledIsWhole
<1>1. Sized => HandledIsWhole
  BY DEF Sized
<1> QED
  BY <1>1, SizedInit, SizedStep, PTL DEF InputsSpec

-----------------------------------------------------------------------------
(* What a daemon that runs has read: a file that load_ice_config accepts,  *)
(* and every part of its configuration from that file.                     *)
Configured ==
    /\ phase \in {"start", "loaded", "session"} => file \in Settings!Files
    /\ phase \in {"loaded", "session"} =>
          /\ ~Settings!Refused
          /\ config = [local |-> Settings!Has("local_address"),
                       stun |-> \A key \in Settings!Stun : Settings!Has(key),
                       turn |-> Settings!HasTurn,
                       force |-> file.force_relay = "true"]
    /\ \/ agent = Settings!NoAgent
       \/ /\ phase = "session"
          /\ agent = [force |-> config.force, relay |-> config.turn,
                      stun |-> config.stun]

LEMMA ConfiguredInit == InputsInit => Configured
<1>1. Settings!Init => phase = "start" /\ file \in Settings!Files /\ agent = Settings!NoAgent
  BY DEF Settings!Init
<1>2. NoFile => phase = "idle" /\ agent = Settings!NoAgent
  BY DEF NoFile
<1> QED
  BY <1>1, <1>2 DEF InputsInit, Configured

LEMMA ConfiguredStep == Configured /\ [InputsNext]_<<sizing, settings>> => Configured'
<1> SUFFICES ASSUME Configured, [InputsNext]_<<sizing, settings>> PROVE Configured'
  OBVIOUS
<1> USE DEF Configured, Settings!HasTurn, Settings!Has, Settings!Refused,
            Settings!LocalRefused, Settings!StunRefused, Settings!TurnRefused,
            Settings!ForceRefused, Settings!IsPort
<1>1. CASE Settings!LoadIceConfig
  BY <1>1, ZenonT(30) DEF Settings!LoadIceConfig
<1>2. ASSUME NEW relayed \in BOOLEAN, Settings!SessionStart(relayed) PROVE Configured'
  BY <1>2 DEF Settings!SessionStart
<1>3. CASE Settings!SessionClose
  BY <1>3 DEF Settings!SessionClose
<1>4. CASE UNCHANGED settings
  BY <1>4 DEF settings
<1> QED
  BY <1>1, <1>2, <1>3, <1>4, ZenonT(30) DEF InputsNext, Settings!Next

LEMMA ConfigFields ==
    ASSUME Configured, phase \in {"loaded", "session"}
    PROVE  /\ config.stun <=> \A key \in Settings!Stun : Settings!Has(key)
           /\ config.turn <=> Settings!HasTurn
           /\ config.force <=> file.force_relay = "true"
<1>1. config = [local |-> Settings!Has("local_address"),
                stun |-> \A key \in Settings!Stun : Settings!Has(key),
                turn |-> Settings!HasTurn, force |-> file.force_relay = "true"]
  BY DEF Configured
<1> QED
  BY <1>1, ZenonT(30) DEF Settings!HasTurn, Settings!Has

LEMMA AlwaysConfigured == InputsSpec => []Configured
BY ConfiguredInit, ConfiguredStep, PTL DEF InputsSpec

(* chat_ice_session_start: whatever is in config.toml, an agent that may   *)
(* use relayed candidates only has a relay.                                *)
THEOREM ForcedAgentsHaveRelay == InputsSpec => []ForcedHasRelay
<1>1. Configured => ForcedHasRelay
  <2> SUFFICES ASSUME Configured, agent.force PROVE agent.relay
    BY DEF ForcedHasRelay, Settings!ForcedHasRelay
  <2>1. agent # Settings!NoAgent
    BY DEF Settings!NoAgent
  <2>2. phase = "session" /\ config.force /\ agent.relay = config.turn
    BY <2>1 DEF Configured
  <2>3. Settings!HasTurn
    <3>1. file.force_relay = "true"
      BY <2>2, ConfigFields
    <3> QED
      BY <2>2, <3>1 DEF Configured, Settings!Refused, Settings!ForceRefused
  <2> QED
    BY <2>2, <2>3, ConfigFields
<1> QED
  BY <1>1, AlwaysConfigured, PTL

(* load_ice_config: a daemon that runs uses every setting it was given,    *)
(* and the ports among them are ports.                                     *)
THEOREM SettingsAreUsed == InputsSpec => []NothingIgnored
<1>1. Configured => NothingIgnored
  <2> SUFFICES ASSUME Configured, phase \in {"loaded", "session"}
               PROVE  NothingIgnored
    BY DEF NothingIgnored, Settings!NothingIgnored
  <2>1. ~Settings!StunRefused /\ ~Settings!TurnRefused
    BY DEF Configured, Settings!Refused
  <2>2. /\ \A key \in Settings!Stun : Settings!Has(key) => config.stun
        /\ \A key \in Settings!Turn : Settings!Has(key) => config.turn
        /\ file.force_relay = "true" => config.force
    BY <2>1, ConfigFields DEF Settings!StunRefused, Settings!TurnRefused, Settings!HasTurn
  <2>3. ASSUME NEW key, Settings!IsPort(key) PROVE file[key] \in {"least", "most"}
    <3>1. /\ DOMAIN Settings!Strtoul = {"zero", "least", "most", "beyond"}
          /\ Settings!Strtoul["zero"] = 0 /\ Settings!Strtoul["beyond"] = 65536
      BY DEF Settings!Strtoul
    <3>2. Settings!MaxPort \in Nat /\ Settings!MaxPort < 65536
      BY DEF Settings!MaxPort
    <3>3. /\ file[key] \in {"zero", "least", "most", "beyond"}
          /\ Settings!Strtoul[file[key]] \in 1 .. Settings!MaxPort
      BY <2>3, <3>1 DEF Settings!IsPort
    <3> QED
      BY <3>1, <3>2, <3>3
  <2>4. /\ config.stun => Settings!IsPort("stun_port")
        /\ config.turn => Settings!IsPort("turn_port")
    BY <2>1 DEF Configured, Settings!StunRefused, Settings!TurnRefused,
                Settings!HasTurn, Settings!Stun, Settings!Turn
  <2> QED
    BY <2>2, <2>3, <2>4 DEF NothingIgnored, Settings!NothingIgnored
<1> QED
  BY <1>1, AlwaysConfigured, PTL
===============================================================================
