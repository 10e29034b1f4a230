---------------------------- MODULE SecureSession ----------------------------
(***************************************************************************)
(* One chat session between two chatd processes, from the start of ICE to  *)
(* its end: service_ice_session, service_crypto_session, the packet        *)
(* handlers and the CLI's commands (daemon/main.c), the receive queue      *)
(* (daemon/ice.c) and the secretstreams (common/crypto.c).                 *)
(*                                                                         *)
(* Packets travel over UDP: net[e] holds every packet ever sent to e, and  *)
(* each may arrive any number of times, in any order, or never.  chatd is  *)
(* one thread.  Its pass through service_crypto_session is cut into steps  *)
(* at every packet it takes or sends, in program order (pc); what arrives  *)
(* is queued by chat_ice_poll, before a pass begins.                       *)
(*                                                                         *)
(* A failed attempt may be followed by another one, with a new session id  *)
(* and a new ICE agent; that is a new instance of this module.  What the   *)
(* control connection does to a session in progress (chat_cancel, another  *)
(* chat_request) is not part of it.                                        *)
(***************************************************************************)
EXTENDS Naturals, Sequences

CONSTANTS
    Texts,          \* texts chat_text_is_valid accepts
    TooLong,        \* those whose packet exceeds CHATD_ICE_PACKET_MAX
    TooWide,        \* those whose MESSAGE line exceeds CHAT_IPC_MAX_RESPONSE
    QueueCapacity,  \* CHAT_ICE_RECV_QUEUE_CAPACITY
    MaxTexts        \* bound: texts an end writes in a behaviour

ASSUME SessionAssumption ==
    /\ TooLong \subseteq Texts /\ TooWide \subseteq Texts
    /\ QueueCapacity \in Nat \ {0}
    /\ MaxTexts \in [{"initiator", "responder"} -> Nat]

(* chat_crypto_role_t *)
Ends == {"initiator", "responder"}
Peer(e) == IF e = "initiator" THEN "responder" ELSE "initiator"

VARIABLES
    session_state,    \* chatd_session_state_t, from ICE_NEGOTIATING on
    pc,               \* where in service_crypto_session an end is
    ready, failed,    \* the flags libnice's callbacks set
    expired,          \* ice_deadline_at or crypto_deadline_at has passed
    handshake_sent, keys_ready, header_sent, header_received,
    queue,            \* recv_queue
    cli,              \* lookup_client_fd >= 0
    net,              \* packets sent to an end
    out, in,          \* texts encrypted, and texts decrypted: their lengths
                      \* are the positions of the push and the pull stream
    outcome           \* history: why the session ended

setup == <<ready, failed, expired>>
crypto == <<handshake_sent, keys_ready, header_sent, header_received>>
streams == <<out, in>>
vars == <<session_state, pc, setup, crypto, queue, cli, net, streams, outcome>>

States ==
    {"ICE_NEGOTIATING", "CRYPTO_HANDSHAKE", "SECURE", "CLOSED", "FAILED"}
Places == {"idle", "handshake", "first", "header", "second", "secure", "drain"}

Handshake == [type |-> "HANDSHAKE"]
StreamHeader == [type |-> "STREAM_HEADER"]
Message(n, t) == [type |-> "MESSAGE", n |-> n, text |-> t]
Close(n) == [type |-> "CLOSE", n |-> n]

ice_active(e) == session_state[e] \notin {"CLOSED", "FAILED"}
encrypted_session_ready(e) == session_state[e] = "SECURE"

-----------------------------------------------------------------------------
(* reset_ice_session with close_lookup_client: both ways a session ends.   *)
Reset(e, state, how) ==
    /\ session_state' = [session_state EXCEPT ![e] = state]
    /\ outcome' = [outcome EXCEPT ![e] = how]
    /\ pc' = [pc EXCEPT ![e] = "idle"]
    /\ ready' = [ready EXCEPT ![e] = FALSE]
    /\ failed' = [failed EXCEPT ![e] = FALSE]
    /\ expired' = [expired EXCEPT ![e] = FALSE]
    /\ handshake_sent' = [handshake_sent EXCEPT ![e] = FALSE]
    /\ keys_ready' = [keys_ready EXCEPT ![e] = FALSE]
    /\ header_sent' = [header_sent EXCEPT ![e] = FALSE]
    /\ header_received' = [header_received EXCEPT ![e] = FALSE]
    /\ queue' = [queue EXCEPT ![e] = <<>>]
    /\ cli' = [cli EXCEPT ![e] = FALSE]

(* fail_chat_session; retry_outgoing_chat_session ends this attempt too.   *)
FailChatSession(e) ==
    Reset(e, "FAILED", "aborted") /\ UNCHANGED <<net, streams>>

Goto(e, place) == pc' = [pc EXCEPT ![e] = place]

SendIcePacket(e, p) == net' = [net EXCEPT ![Peer(e)] = @ \cup {p}]

-----------------------------------------------------------------------------
(* libnice: on_component_state_changed and on_recv.                        *)
OnComponentReady(e) ==
    /\ ice_active(e) /\ pc[e] = "idle" /\ ~ready[e]
    /\ ready' = [ready EXCEPT ![e] = TRUE]
    /\ UNCHANGED <<session_state, pc, failed, expired, crypto, queue, cli, net,
                   streams, outcome>>

OnComponentFailed(e) ==
    /\ ice_active(e) /\ pc[e] = "idle" /\ ~failed[e]
    /\ failed' = [failed EXCEPT ![e] = TRUE]
    /\ UNCHANGED <<session_state, pc, ready, expired, crypto, queue, cli, net,
                   streams, outcome>>

(* A full queue gives up its oldest packet. *)
OnRecv_Unbounded(e, p) ==
    /\ ice_active(e) /\ pc[e] = "idle"
    /\ queue' = [queue EXCEPT ![e] = Append(@, p)]
    /\ UNCHANGED <<session_state, pc, setup, crypto, cli, net, streams, outcome>>
OnRecv(e, p) ==
    /\ ice_active(e) /\ pc[e] = "idle"
    /\ queue' = [queue EXCEPT ![e] =
            Append(IF Len(@) >= QueueCapacity THEN Tail(@) ELSE @, p)]
    /\ UNCHANGED <<session_state, pc, setup, crypto, cli, net, streams, outcome>>

(* time(NULL) reaches the deadline of the phase the session is in.         *)
DeadlinePasses(e) ==
    /\ ice_active(e) /\ ~encrypted_session_ready(e) /\ ~expired[e]
    /\ expired' = [expired EXCEPT ![e] = TRUE]
    /\ UNCHANGED <<session_state, pc, ready, failed, crypto, queue, cli, net,
                   streams, outcome>>

-----------------------------------------------------------------------------
(* service_ice_session up to the call of service_crypto_session.           *)
TimedOut(e) ==
    /\ expired[e]
    /\ \/ session_state[e] = "CRYPTO_HANDSHAKE"
       \/ session_state[e] = "ICE_NEGOTIATING" /\ ~ready[e]

ServiceIceSession(e) ==
    /\ ice_active(e) /\ pc[e] = "idle"
    /\ \/ /\ TimedOut(e) \/ failed[e]
          /\ FailChatSession(e)
       \/ /\ ~TimedOut(e) /\ ~failed[e] /\ ready[e]
          /\ IF encrypted_session_ready(e)
             THEN Goto(e, "drain") /\ UNCHANGED expired
             ELSE /\ Goto(e, "handshake")
                  /\ expired' = [expired EXCEPT ![e] =
                        @ /\ session_state[e] # "ICE_NEGOTIATING"]
          /\ UNCHANGED <<session_state, ready, failed, crypto, queue, cli, net,
                         streams, outcome>>

(* service_crypto_session looks at the deadline once more, then calls      *)
(* start_crypto_handshake, the first time or when its second has passed;   *)
(* nice_agent_send may refuse the packet.                                  *)
StartCryptoHandshake(e) ==
    /\ pc[e] = "handshake"
    /\ \/ /\ ~expired[e] /\ ~header_received[e]
          /\ SendIcePacket(e, Handshake)
          /\ handshake_sent' = [handshake_sent EXCEPT ![e] = TRUE]
          /\ session_state' = [session_state EXCEPT ![e] = "CRYPTO_HANDSHAKE"]
          /\ Goto(e, "first")
          /\ UNCHANGED <<setup, keys_ready, header_sent, header_received, queue,
                         cli, streams, outcome>>
       \/ /\ ~expired[e] /\ handshake_sent[e]
          /\ Goto(e, "first")
          /\ UNCHANGED <<session_state, setup, crypto, queue, cli, net, streams,
                         outcome>>
       \/ /\ expired[e] \/ ~header_received[e]
          /\ FailChatSession(e)

(* send_stream_header, likewise. *)
SendStreamHeader(e) ==
    /\ pc[e] = "header"
    /\ \/ /\ keys_ready[e]
          /\ SendIcePacket(e, StreamHeader)
          /\ header_sent' = [header_sent EXCEPT ![e] = TRUE]
          /\ Goto(e, "second")
          /\ UNCHANGED <<session_state, setup, handshake_sent, keys_ready,
                         header_received, queue, cli, streams, outcome>>
       \/ /\ keys_ready[e] => header_sent[e]
          /\ Goto(e, "second")
          /\ UNCHANGED <<session_state, setup, crypto, queue, cli, net, streams,
                         outcome>>
       \/ /\ keys_ready[e]
          /\ FailChatSession(e)

(* The end of service_crypto_session; ENCRYPTED_SESSION goes to the CLI.   *)
Establishes_NoHeader(e) == keys_ready[e] /\ header_sent[e]
Establishes(e) == keys_ready[e] /\ header_sent[e] /\ header_received[e]
EstablishSession(e) ==
    /\ pc[e] = "secure"
    /\ Goto(e, "idle")
    /\ session_state' = [session_state EXCEPT ![e] =
            IF Establishes(e) THEN "SECURE" ELSE @]
    /\ UNCHANGED <<setup, crypto, queue, cli, net, streams, outcome>>

-----------------------------------------------------------------------------
(* handle_ice_app_packet: a packet is refused, has an effect, or is        *)
(* ignored.  A packet of the stream decrypts only at the position it was   *)
(* encrypted at.                                                           *)
Refused_Skips(e, p) ==
    /\ p.type \in {"MESSAGE", "CLOSE"}
    /\ \/ ~encrypted_session_ready(e)
       \/ p.n <= Len(in[e])
       \/ p.type = "MESSAGE" /\ cli[e] /\ p.text \in TooWide
Refused(e, p) ==
    /\ p.type \in {"MESSAGE", "CLOSE"}
    /\ \/ ~encrypted_session_ready(e)
       \/ p.n # Len(in[e]) + 1
       \/ p.type = "MESSAGE" /\ cli[e] /\ p.text \in TooWide

(* write_ipc_line fails when the CLI is gone; that fails the session too.  *)
MayNotDeliver(e, p) == p.type = "MESSAGE" /\ cli[e]

HandleIceAppPacket(e, p) ==
    /\ keys_ready' = [keys_ready EXCEPT ![e] = @ \/ p.type = "HANDSHAKE"]
    /\ header_received' = [header_received EXCEPT ![e] =
            @ \/ (p.type = "STREAM_HEADER" /\ keys_ready[e])]
    /\ in' = [in EXCEPT ![e] =
            IF p.type = "MESSAGE" THEN Append(@, p.text) ELSE @]

(* Where service_crypto_session goes on after it has taken a packet. *)
After(e) == CASE pc[e] = "first" -> "header"
              [] pc[e] = "second" -> "secure"
              [] pc[e] = "drain" -> "drain"

ProcessReceivedIcePacket(e) ==
    /\ pc[e] \in {"first", "second", "drain"}
    /\ \/ /\ queue[e] = <<>>
          /\ Goto(e, IF pc[e] = "drain" THEN "idle" ELSE After(e))
          /\ UNCHANGED <<session_state, setup, crypto, queue, cli, net, streams,
                         outcome>>
       \/ /\ queue[e] # <<>>
          /\ Refused(e, Head(queue[e])) \/ MayNotDeliver(e, Head(queue[e]))
          /\ FailChatSession(e)
       \/ /\ queue[e] # <<>> /\ ~Refused(e, Head(queue[e]))
          /\ Head(queue[e]).type = "CLOSE"
          /\ Reset(e, "CLOSED", "finished")
          /\ UNCHANGED <<net, streams>>
       \/ /\ queue[e] # <<>> /\ ~Refused(e, Head(queue[e]))
          /\ Head(queue[e]).type # "CLOSE"
          /\ HandleIceAppPacket(e, Head(queue[e]))
          /\ queue' = [queue EXCEPT ![e] = Tail(@)]
          /\ Goto(e, After(e))
          /\ UNCHANGED <<session_state, setup, handshake_sent, header_sent, cli,
                         net, out, outcome>>

-----------------------------------------------------------------------------
(* The CLI: handle_open_chat_command on a session that is already secure,  *)
(* and service_active_chat_client.                                         *)
AttachClient(e) ==
    /\ encrypted_session_ready(e) /\ pc[e] = "idle" /\ ~cli[e]
    /\ cli' = [cli EXCEPT ![e] = TRUE]
    /\ UNCHANGED <<session_state, pc, setup, crypto, queue, net, streams, outcome>>

ClientServed(e) == encrypted_session_ready(e) /\ pc[e] = "idle" /\ cli[e]

(* send_encrypted_chat_payload encrypts first, which moves the stream on,  *)
(* and then hands the packet to ICE, which may refuse it.                  *)
SendMessage(e, t) ==
    /\ ClientServed(e) /\ Len(out[e]) < MaxTexts[e]
    /\ out' = [out EXCEPT ![e] = Append(@, t)]
    /\ \/ t \notin TooLong /\ SendIcePacket(e, Message(Len(out[e]) + 1, t))
       \/ UNCHANGED net
    /\ UNCHANGED <<session_state, pc, setup, crypto, queue, cli, in, outcome>>

(* CLOSE_CHAT or end of file: one CLOSE packet, and the session is over    *)
(* whether it could be sent or not.                                        *)
CloseChat(e) ==
    /\ ClientServed(e)
    /\ Reset(e, "CLOSED", "closed")
    /\ \/ SendIcePacket(e, Close(Len(out[e]) + 1))
       \/ UNCHANGED net
    /\ UNCHANGED streams

(* read() fails. *)
ClientBreaks(e) == ClientServed(e) /\ FailChatSession(e)

-----------------------------------------------------------------------------
Init ==
    /\ session_state = [e \in Ends |-> "ICE_NEGOTIATING"]
    /\ pc = [e \in Ends |-> "idle"]
    /\ ready = [e \in Ends |-> FALSE]
    /\ failed = [e \in Ends |-> FALSE]
    /\ expired = [e \in Ends |-> FALSE]
    /\ handshake_sent = [e \in Ends |-> FALSE]
    /\ keys_ready = [e \in Ends |-> FALSE]
    /\ header_sent = [e \in Ends |-> FALSE]
    /\ header_received = [e \in Ends |-> FALSE]
    /\ queue = [e \in Ends |-> <<>>]
    /\ cli = [e \in Ends |-> e = "initiator"]
    /\ net = [e \in Ends |-> {}]
    /\ out = [e \in Ends |-> <<>>]
    /\ in = [e \in Ends |-> <<>>]
    /\ outcome = [e \in Ends |-> "open"]

Service(e) ==
    \/ ServiceIceSession(e)
    \/ StartCryptoHandshake(e)
    \/ ProcessReceivedIcePacket(e)
    \/ SendStreamHeader(e)
    \/ EstablishSession(e)

Next ==
    \E e \in Ends :
        \/ OnComponentReady(e) \/ OnComponentFailed(e) \/ DeadlinePasses(e)
        \/ \E p \in net[e] : OnRecv(e, p)
        \/ Service(e)
        \/ AttachClient(e) \/ CloseChat(e) \/ ClientBreaks(e)
        \/ \E t \in Texts : SendMessage(e, t)

Spec == Init /\ [][Next]_vars

(* chatd's main loop never stops calling service_ice_session, and time     *)
(* passes.  Nothing is assumed of the network, of ICE or of the users.     *)
FairSpec ==
    /\ Spec
    /\ \A e \in Ends : WF_vars(Service(e)) /\ WF_vars(DeadlinePasses(e))

-----------------------------------------------------------------------------
(* Types of the session's fields; the receive queue keeps its bound.       *)
TypeOK ==
    /\ session_state \in [Ends -> States]
    /\ pc \in [Ends -> Places]
    /\ \A f \in {ready, failed, expired, handshake_sent, keys_ready,
                 header_sent, header_received, cli} : f \in [Ends -> BOOLEAN]
    /\ \A e \in Ends :
          /\ Len(queue[e]) <= QueueCapacity
          /\ \A i \in 1 .. Len(queue[e]) : queue[e][i] \in net[e]
          /\ \A p \in net[e] : p.type \in {"MESSAGE", "CLOSE"} => p.n \in Nat \ {0}
    /\ out \in [Ends -> Seq(Texts)] /\ in \in [Ends -> Seq(Texts)]
    /\ outcome \in [Ends -> {"open", "closed", "finished", "aborted"}]

(* service_crypto_session: an end is SECURE only after its peer has        *)
(* derived the keys and sent its stream header; a peer that is still there *)
(* can be late by no more than the header it has yet to receive.           *)
SecureAgreement ==
    \A e \in Ends : encrypted_session_ready(e) =>
        /\ StreamHeader \in net[e] /\ StreamHeader \in net[Peer(e)]
        /\ ice_active(Peer(e)) => keys_ready[Peer(e)] /\ header_sent[Peer(e)]

(* The end that is SECURE never sends another stream header, so an end     *)
(* still waiting for one has it in flight or lost: a session that stays    *)
(* half established is ended by the deadline (protocol.md, deadlines).     *)
SetupEnds ==
    \A e \in Ends : <>(session_state[e] \in {"SECURE", "CLOSED", "FAILED"})

(* The secretstream over UDP: what an end reads is a prefix of what its    *)
(* peer encrypted, and CHAT_CLOSED is reported only after all of it was    *)
(* read; see ChatStream.                                                   *)
Stream == INSTANCE ChatStream WITH
    Texts <- Texts, out <- out, in <- in, outcome <- outcome
StreamRefined == Stream!Spec

(* CHAT_PKT_CLOSE "closes the session on both sides" (protocol.md).        *)
CloseReachesPeer ==
    \A e \in Ends : outcome[e] = "closed" ~> ~encrypted_session_ready(Peer(e))
===============================================================================
