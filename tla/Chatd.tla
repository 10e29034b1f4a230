-------------------------------- MODULE Chatd --------------------------------
(***************************************************************************)
(* chatd (daemon/main.c): the control connection, the chat session and the *)
(* CLI that waits for it.  chatd is one thread, so a callback or a pass    *)
(* through service_ice_session is one step.  Each of the C functions that  *)
(* changes chatd_state_t is an operator from a state to the next; where    *)
(* the code returns -1 to libwebsockets, which then closes the connection  *)
(* and calls CLIENT_CLOSED at once, the operator ends in ClientClosed.     *)
(* When phase becomes FAILED the main loop ends and the process exits.     *)
(*                                                                         *)
(* A session id is the daemon that drew it with a number.  An ICE agent,   *)
(* and its SDP, is known by the session it was started for.  Times are     *)
(* left out: a deadline that is armed may have passed.  The messages of a  *)
(* secure session are in SecureSession.                                    *)
(***************************************************************************)
EXTENDS Naturals, FiniteSets

CONSTANTS
    Daemons,    \* user names, each with its daemon and its identity key
    Conns,      \* addresses of the server's connections
    RetryMax,   \* CHATD_ICE_RETRY_MAX
    Faults,     \* what may go wrong outside, see FaultKinds
    MaxOpens,   \* bound: chats a user opens
    MaxChallenges,  \* bound: challenges the server draws
    NoConn, NoUser, BadKey, Empty, None

(* "contact": chat_contacts_verify_or_pin does not answer OK; "ice": the   *)
(* agent does not start, refuses or lacks an SDP, or fails; "write":       *)
(* lws_write is short; "connect": lws_client_connect_via_info returns      *)
(* NULL; "unsent": a connection is lost while the slot holds a message;    *)
(* "late": the server reads what was sent on a connection after the daemon *)
(* has left it.                                                            *)
FaultKinds == {"contact", "ice", "write", "connect", "unsent", "late"}

(* The session ids that are drawn: RetryMax more for each chat. *)
MaxDrawn == MaxOpens * (1 + RetryMax)
Ids == Daemons \X (1 .. MaxDrawn)

ASSUME ChatdAssumption ==
    /\ RetryMax \in Nat /\ MaxOpens \in Nat /\ MaxChallenges \in Nat
    /\ Faults \subseteq FaultKinds
    /\ None \notin Daemons \cup Ids /\ NoConn \notin Conns

VARIABLE chatd    \* chatd_state_t of each daemon

-----------------------------------------------------------------------------
(* What reset_ice_session leaves: chat_ice_session_t and the fields of the *)
(* session.  agent is the id the agent was started with, remote the agent  *)
(* whose SDP was applied, signed the id the handshake was made with; inbox *)
(* holds the packets that were sent to this agent.                         *)
NoSession ==
    [active |-> FALSE, peer |-> None, session_id |-> None, agent |-> None,
     controlling |-> FALSE, gathering_done |-> FALSE, sdp_sent |-> FALSE,
     pending_sdp |-> None, remote |-> None, ready |-> FALSE, failed |-> FALSE,
     notified |-> FALSE, signed |-> None, keys_ready |-> FALSE,
     header_received |-> FALSE, secure |-> FALSE, inbox |-> {}]

(* wsi is control_wsi with connected; connecting says that libwebsockets   *)
(* has an attempt under way; client is the CLI on lookup_client_fd, "gone" *)
(* when it has closed its end; asked is whom that CLI named; drawn counts  *)
(* session ids; joined is a history of the sessions begun.                 *)
NewDaemon(d) ==
    [username |-> d, phase |-> "REGISTER", wsi |-> NoConn, connecting |-> TRUE,
     should_reconnect |-> FALSE, pending |-> Empty, session_state |-> "IDLE",
     client |-> "none", asked |-> None, lookup_peer |-> None, retries |-> 0,
     ice |-> NoSession, outbox |-> {}, drawn |-> 0, joined |-> {}]

Register(s) == [type |-> "register", username |-> s.username, key |-> s.username]
Hello(s) == [type |-> "hello", username |-> s.username]
AuthResponse(s, n) ==
    [type |-> "auth_response",
     signature |-> [key |-> s.username, challenge |-> n]]
Signal(s, type, to, id, sdp) ==
    [type |-> type, from |-> s.username, to |-> to, key |-> s.username,
     body |-> [session_id |-> id, sdp |-> sdp]]

-----------------------------------------------------------------------------
CloseLookupClient(s) ==
    [s EXCEPT !.client = "none", !.asked = None, !.lookup_peer = None,
              !.retries = 0]

WriteLookupResponse(s) ==
    IF s.client = "none" THEN s ELSE CloseLookupClient(s)

(* CLIENT_CLOSED, and CONNECTION_ERROR, which differs in the text for the  *)
(* CLI.  Neither phase nor the slot is touched.                            *)
ClientClosed_EndsSession(s) ==
    LET t == [s EXCEPT !.wsi = NoConn, !.connecting = FALSE,
                       !.should_reconnect = TRUE, !.ice = NoSession]
    IN  WriteLookupResponse(t)
ClientClosed_NoReconnect(s) ==
    LET t == [s EXCEPT !.wsi = NoConn, !.connecting = FALSE]
    IN  IF s.ice.secure THEN t ELSE WriteLookupResponse(t)
ClientClosed(s) ==
    LET t == [s EXCEPT !.wsi = NoConn, !.connecting = FALSE,
                       !.should_reconnect = TRUE]
    IN  IF s.ice.secure THEN t ELSE WriteLookupResponse(t)

(* The end of main, and the exit of the process. *)
Exit(s) ==
    [NewDaemon(s.username) EXCEPT !.phase = "FAILED", !.connecting = FALSE,
                                  !.drawn = s.drawn, !.joined = s.joined]

(* queue_json, for a caller that passes its -1 on to libwebsockets. *)
QueueJson(s, m) ==
    IF s.pending = Empty THEN [s EXCEPT !.pending = m] ELSE ClientClosed(s)

ResetIceSession(s) == [s EXCEPT !.ice = NoSession]

(* The new id is written to ice_session_id before the slot is looked at.   *)
QueueChatRequest(s, peer) ==
    LET id == <<s.username, s.drawn + 1>>
        t == [s EXCEPT !.drawn = @ + 1, !.ice.session_id = id]
    IN  IF s.pending = Empty
        THEN [t EXCEPT !.pending = Signal(s, "chat_request", peer, id, None)]
        ELSE WriteLookupResponse(t)

MayRetry_ForEver(s) ==
    /\ s.client # "none" /\ s.lookup_peer # None
    /\ s.wsi # NoConn /\ ~s.ice.secure
MayRetry(s) ==
    /\ s.client # "none" /\ s.lookup_peer # None
    /\ s.wsi # NoConn /\ ~s.ice.secure
    /\ s.retries < RetryMax

RetryOutgoingChatSession(s) ==
    QueueChatRequest([ResetIceSession(s) EXCEPT !.retries = @ + 1,
                                                !.session_state = "REQUESTING"],
                     s.lookup_peer)

FailChatSession_KeepsClient(s) ==
    IF MayRetry(s) THEN RetryOutgoingChatSession(s)
    ELSE ResetIceSession([s EXCEPT !.session_state = "FAILED"])
FailChatSession(s) ==
    IF MayRetry(s) THEN RetryOutgoingChatSession(s)
    ELSE ResetIceSession(WriteLookupResponse([s EXCEPT !.session_state = "FAILED"]))

(* started is the result of chat_ice_session_start. *)
BeginIceSession(s, peer, id, controlling, started) ==
    LET t == [s EXCEPT !.session_state = "ICE_NEGOTIATING",
                       !.ice = [NoSession EXCEPT !.peer = peer,
                                                 !.session_id = id,
                                                 !.controlling = controlling],
                       !.joined = @ \cup {[session_id |-> id, peer |-> peer,
                                           controlling |-> controlling]}]
    IN  IF started THEN [t EXCEPT !.ice.active = TRUE, !.ice.agent = id]
        ELSE FailChatSession(t)

-----------------------------------------------------------------------------
(* handle_receive and the handlers it calls.                               *)

HandleError(s, code) ==
    IF s.phase = "REGISTER" /\ code = "user already exists"
    THEN QueueJson([s EXCEPT !.phase = "HELLO"], Hello(s))
    ELSE IF s.client # "none" /\ code = "peer_offline" THEN WriteLookupResponse(s)
    ELSE Exit(s)

HandleAuthChallenge(s, n) ==
    QueueJson([s EXCEPT !.phase = "AUTH_RESPONSE"], AuthResponse(s, n))

HandleChatRequest_Controls(s, m, contact, started) ==
    LET t == [s EXCEPT !.session_state = "REQUESTING"]
        id == m.body.session_id
    IN  IF contact # "ok" THEN s
        ELSE IF s.pending # Empty THEN ClientClosed(t)
        ELSE BeginIceSession(
                QueueJson(t, Signal(s, "chat_accept", m.from, id, None)),
                m.from, id, TRUE, started)

(* A request is accepted whatever the session in progress.  A contact that *)
(* is not accepted is not answered either.                                 *)
HandleChatRequest(s, m, contact, started) ==
    LET t == [s EXCEPT !.session_state = "REQUESTING"]
        id == m.body.session_id
    IN  IF contact # "ok" THEN s
        ELSE IF s.pending # Empty THEN ClientClosed(t)
        ELSE BeginIceSession(
                QueueJson(t, Signal(s, "chat_accept", m.from, id, None)),
                m.from, id, FALSE, started)

AcceptExpected(s, m) ==
    /\ s.client # "none"
    /\ m.from = s.lookup_peer
    /\ m.body.session_id = s.ice.session_id

(* After a failed start the CLI is answered, although fail_chat_session    *)
(* may have queued another request on its behalf.                          *)
HandleChatAccept(s, m, contact, started) ==
    LET id == m.body.session_id
        cancel == Signal(s, "chat_cancel", m.from, id, None)
        begun == BeginIceSession(s, m.from, id, TRUE, started)
    IN  CASE ~AcceptExpected(s, m) -> s
          [] AcceptExpected(s, m) /\ contact = "mismatch" ->
                WriteLookupResponse([s EXCEPT !.pending =
                                        IF @ = Empty THEN cancel ELSE @])
          [] AcceptExpected(s, m) /\ contact = "error" -> WriteLookupResponse(s)
          [] AcceptExpected(s, m) /\ contact = "ok" ->
                IF started THEN begun ELSE WriteLookupResponse(begun)

(* The test that handle_ice_credentials and chat_cancel share. *)
OfThisSession(s, m) ==
    /\ s.ice.active
    /\ m.from = s.ice.peer
    /\ m.body.session_id = s.ice.session_id

(* parsed is the result of chat_ice_session_set_remote_sdp. *)
HandleIceCredentials(s, m, parsed) ==
    IF ~OfThisSession(s, m) THEN s
    ELSE IF ~s.ice.gathering_done
         THEN [s EXCEPT !.ice.pending_sdp = m.body.sdp]
    ELSE IF parsed THEN [s EXCEPT !.ice.remote = m.body.sdp]
    ELSE ClientClosed([s EXCEPT !.ice.failed = TRUE])

HandleChatCancel(s, m) ==
    IF OfThisSession(s, m)
    THEN [ResetIceSession(s) EXCEPT !.session_state = "CLOSED"] ELSE s

(* env is what the calls out of chatd return.  m.to is always this user,   *)
(* and user_status is never asked for.                                     *)
HandleReceive_HelloAgain(s, m, env) ==
    CASE m.type = "error" -> HandleError(s, m.code)
      [] m.type = "register_ok" /\ s.phase = "REGISTER" ->
            QueueJson(s, Hello(s))
      [] m.type = "auth_challenge" ->
            QueueJson(s, Hello(s))
      [] OTHER -> s
HandleReceive(s, m, env) ==
    CASE m.type = "error" -> HandleError(s, m.code)
      [] m.type = "register_ok" /\ s.phase = "REGISTER" ->
            QueueJson([s EXCEPT !.phase = "HELLO"], Hello(s))
      [] m.type = "auth_challenge" /\ s.phase = "HELLO" ->
            HandleAuthChallenge(s, m.challenge)
      [] m.type = "auth_ok" /\ s.phase = "AUTH_RESPONSE" ->
            [s EXCEPT !.phase = "ONLINE"]
      [] m.type = "chat_request" ->
            HandleChatRequest(s, m, env.contact, env.ice)
      [] m.type = "chat_accept" ->
            HandleChatAccept(s, m, env.contact, env.ice)
      [] m.type = "ice_credentials" -> HandleIceCredentials(s, m, env.ice)
      [] m.type = "chat_cancel" -> HandleChatCancel(s, m)
      [] OTHER -> s

Environments ==
    [contact : {"ok"} \cup {r \in {"mismatch", "error"} : "contact" \in Faults},
     ice : {TRUE} \cup {r \in {FALSE} : "ice" \in Faults}]

-----------------------------------------------------------------------------
(* The crypto handshake, over the pair of agents.  A packet is refused, or *)
(* has an effect, or is ignored.                                           *)

HandshakePacket(s) ==
    [type |-> "HANDSHAKE", session_id |-> s.ice.signed,
     controlling |-> s.ice.controlling]
HeaderPacket == [type |-> "STREAM_HEADER"]
ClosePacket == [type |-> "CLOSE"]

SendIcePacket(s, p) ==
    [s EXCEPT !.outbox = @ \cup {[to |-> s.ice.peer, agent |-> s.ice.remote,
                                  packet |-> p]}]

StartCryptoHandshake(s) ==
    LET t == [s EXCEPT !.session_state = "CRYPTO_HANDSHAKE",
                       !.ice.signed = IF @ = None THEN s.ice.session_id ELSE @]
    IN  SendIcePacket(t, HandshakePacket(t))

(* chat_crypto_handshake_finish: the signature covers the session id and   *)
(* the roles.                                                              *)
HandshakeVerifies_AnySession(s, p) == p.controlling # s.ice.controlling
HandshakeVerifies(s, p) ==
    /\ p.session_id = s.ice.signed
    /\ p.controlling # s.ice.controlling

Refused(s, p) ==
    \/ /\ p.type = "HANDSHAKE"
       /\ \/ /\ s.session_state \notin {"ICE_CONNECTED", "CRYPTO_HANDSHAKE"}
             /\ ~(s.session_state = "SECURE" /\ s.ice.keys_ready)
          \/ ~s.ice.keys_ready /\ ~HandshakeVerifies(s, p)
    \/ /\ p.type = "STREAM_HEADER"
       /\ s.session_state # "CRYPTO_HANDSHAKE"
       /\ ~(s.session_state = "SECURE" /\ s.ice.header_received)
    \/ /\ p.type = "CLOSE"
       /\ ~(s.session_state = "SECURE" /\ s.ice.secure)

NoPacket == [type |-> "none"]

HandleIceAppPacket(s, p) ==
    CASE p.type = "HANDSHAKE" -> [s EXCEPT !.ice.keys_ready = TRUE]
      [] p.type = "STREAM_HEADER" ->
            [s EXCEPT !.ice.header_received = @ \/ s.ice.keys_ready]
      [] p.type = "CLOSE" ->
            [ResetIceSession(WriteLookupResponse(s)) EXCEPT !.session_state = "CLOSED"]
      [] p.type = "none" -> s

Establish(s) ==
    IF s.ice.keys_ready /\ s.ice.header_received
    THEN [s EXCEPT !.ice.secure = TRUE, !.session_state = "SECURE",
                   !.client = IF @ = "waiting" THEN "chatting" ELSE @]
    ELSE s

(* A secure session reads what has arrived; before that, a pass reads at   *)
(* most two packets, p and q, and again says that a second has passed      *)
(* since the last handshake.                                               *)
ServiceCryptoSession(s, again, p, q) ==
    LET a == IF s.ice.signed = None \/ (again /\ ~s.ice.header_received)
             THEN StartCryptoHandshake(s) ELSE s
        b == HandleIceAppPacket(a, p)
        c == IF b.ice.keys_ready THEN SendIcePacket(b, HeaderPacket) ELSE b
    IN  IF s.ice.secure
        THEN IF Refused(s, p) THEN FailChatSession(s)
             ELSE HandleIceAppPacket(s, p)
        ELSE IF Refused(a, p) THEN FailChatSession(a)
        ELSE IF Refused(c, q) THEN FailChatSession(c)
        ELSE Establish(HandleIceAppPacket(c, q))

-----------------------------------------------------------------------------
(* service_ice_session.  pass says what this pass meets: the callback that *)
(* chat_ice_poll ran, whether libnice parses and generates an SDP, whether *)
(* an armed deadline has passed, and what ServiceCryptoSession needs.      *)

Polled(s, callback) ==
    [s EXCEPT !.ice.gathering_done = @ \/ callback = "gathering_done",
              !.ice.ready = @ \/ callback = "ready",
              !.ice.failed = @ \/ callback = "failed"]

HasPendingSdp(s) == s.ice.gathering_done /\ s.ice.pending_sdp # None
ApplyPendingSdp(s) ==
    IF HasPendingSdp(s)
    THEN [s EXCEPT !.ice.remote = s.ice.pending_sdp, !.ice.pending_sdp = None]
    ELSE s

MayQueueSdp(s) ==
    /\ s.ice.gathering_done /\ ~s.ice.sdp_sent
    /\ s.wsi # NoConn /\ s.pending = Empty
QueueLocalIceSdp(s) ==
    IF MayQueueSdp(s)
    THEN [s EXCEPT !.ice.sdp_sent = TRUE,
                   !.pending = Signal(s, "ice_credentials", s.ice.peer,
                                      s.ice.session_id, s.ice.agent)]
    ELSE s

Notified(s) ==
    IF s.ice.notified THEN s
    ELSE [s EXCEPT !.ice.notified = TRUE, !.session_state = "ICE_CONNECTED"]

CryptoTimedOut_Never(s, expired) == FALSE
CryptoTimedOut(s, expired) == s.ice.notified /\ ~s.ice.secure /\ expired

ServiceIceSession(s, pass) ==
    LET polled == Polled(s, pass.callback)
        applied == ApplyPendingSdp(polled)
        queued == QueueLocalIceSdp(applied)
    IN  IF CryptoTimedOut(polled, pass.expired) THEN FailChatSession(polled)
        ELSE IF HasPendingSdp(polled) /\ ~pass.parsed
             THEN FailChatSession(polled)
        ELSE IF MayQueueSdp(applied) /\ ~pass.generated
             THEN FailChatSession(applied)
        ELSE IF queued.ice.failed THEN FailChatSession(queued)
        ELSE IF queued.ice.ready
             THEN ServiceCryptoSession(Notified(queued), pass.again, pass.p, pass.q)
        ELSE IF pass.expired THEN FailChatSession(queued)
        ELSE queued

(* libnice can connect this agent to the one whose SDP it was given, if    *)
(* that one is still there.                                                *)
PairAlive(s) ==
    /\ s.ice.remote # None
    /\ LET peer == chatd[s.ice.peer].ice IN
          /\ peer.active /\ peer.gathering_done
          /\ peer.agent = s.ice.remote /\ peer.peer = s.username

Passes(s) ==
    LET faulty == "ice" \in Faults
        setup == ~s.ice.secure
    IN  [callback :
            {"none"} \cup {c \in {"gathering_done"} : ~s.ice.gathering_done}
                     \cup {c \in {"ready"} : ~s.ice.ready /\ PairAlive(s)}
                     \cup {c \in {"failed"} : faulty},
         parsed : {TRUE} \cup {r \in {FALSE} : faulty /\ s.ice.pending_sdp # None},
         generated : {TRUE} \cup {r \in {FALSE} : faulty /\ ~s.ice.sdp_sent},
         expired : {FALSE} \cup {r \in {TRUE} : setup},
         again : {FALSE} \cup {r \in {TRUE} : setup},
         p : s.ice.inbox \cup {NoPacket},
         q : {x \in s.ice.inbox : setup} \cup {NoPacket}]

(* nice_agent_send: what was sent to an agent that is still there waits    *)
(* for it; it may arrive at any time, again and again, or never.           *)
Arrive(s, sent) ==
    [s EXCEPT !.ice.inbox = @ \cup
        {x.packet : x \in {y \in sent : /\ s.ice.active
                                        /\ y.to = s.username
                                        /\ y.agent = s.ice.agent}}]

Become(d, s) ==
    chatd' = [x \in Daemons |->
                Arrive(IF x = d THEN [s EXCEPT !.outbox = {}] ELSE chatd[x],
                       s.outbox)]

-----------------------------------------------------------------------------
(* The actions of one daemon.                                              *)

Running(d) == chatd[d].phase # "FAILED"

(* connect_control_server clears should_reconnect before it calls          *)
(* libwebsockets, which may return NULL without any callback.              *)
Connect(d) ==
    LET s == chatd[d] IN
    /\ Running(d) /\ s.should_reconnect /\ s.wsi = NoConn
    /\ \/ Become(d, [s EXCEPT !.should_reconnect = FALSE, !.connecting = TRUE])
       \/ /\ "connect" \in Faults
          /\ Become(d, [s EXCEPT !.should_reconnect = FALSE])

Established_KeepsPhase(d, c) ==
    /\ chatd[d].connecting
    /\ Become(d, QueueJson([chatd[d] EXCEPT !.wsi = c, !.connecting = FALSE],
                           Register(chatd[d])))
Established(d, c) ==
    /\ chatd[d].connecting
    /\ Become(d, QueueJson([chatd[d] EXCEPT !.wsi = c, !.connecting = FALSE,
                                            !.phase = "REGISTER"],
                           Register(chatd[d])))

ConnectionError(d) ==
    /\ chatd[d].connecting
    /\ Become(d, ClientClosed(chatd[d]))

Receive(d, m) ==
    /\ chatd[d].wsi # NoConn
    /\ \E env \in Environments : Become(d, HandleReceive(chatd[d], m, env))

Writeable(d) ==
    /\ chatd[d].wsi # NoConn /\ chatd[d].pending # Empty
    /\ \/ Become(d, [chatd[d] EXCEPT !.pending = Empty])
       \/ "write" \in Faults /\ Become(d, Exit(chatd[d]))

Closed(d) ==
    /\ chatd[d].wsi # NoConn
    /\ chatd[d].pending = Empty \/ "unsent" \in Faults
    /\ Become(d, ClientClosed(chatd[d]))

(* The process is killed; systemd starts it again (Restart=on-failure). *)
Kill(d) == Running(d) /\ Become(d, Exit(chatd[d]))
Restart(d) ==
    /\ ~Running(d)
    /\ Become(d, [NewDaemon(d) EXCEPT !.drawn = chatd[d].drawn,
                                      !.joined = chatd[d].joined])

(* handle_open_chat_command, when it does more than answer: the CLI joins  *)
(* the secure session with that peer, or a request goes out.               *)
OpenChat(d, peer) ==
    LET s == chatd[d] IN
    /\ s.phase = "ONLINE" /\ s.wsi # NoConn /\ peer # d
    /\ s.client = "none"
    /\ \/ /\ s.ice.secure /\ peer = s.ice.peer
          /\ Become(d, [s EXCEPT !.client = "chatting", !.asked = peer])
       \/ /\ ~(s.ice.secure /\ peer = s.ice.peer)
          /\ s.pending = Empty
          /\ Become(d, QueueChatRequest(
                [s EXCEPT !.client = "waiting", !.asked = peer,
                          !.lookup_peer = peer, !.retries = 0,
                          !.session_state = "REQUESTING"], peer))

(* The CLI gives up waiting (CHAT_CLI_CHAT_TIMEOUT_MS), or ends while it   *)
(* chats; lookup_client_fd stays open.                                     *)
GiveUp(d) ==
    /\ chatd[d].client \in {"waiting", "chatting"}
    /\ Become(d, [chatd[d] EXCEPT !.client = "gone"])

(* service_active_chat_client: CLOSE_CHAT, or end of file; or the read     *)
(* fails (the CLI left answers unread), and the peer is not told.          *)
ServiceActiveChatClient(d) ==
    LET s == chatd[d]
        Over(t, state) ==
            [ResetIceSession(CloseLookupClient(t)) EXCEPT !.session_state = state]
    IN  /\ s.client \in {"chatting", "gone"} /\ s.ice.secure
        /\ \/ Become(d, Over(SendIcePacket(s, ClosePacket), "CLOSED"))
           \/ s.client = "gone" /\ Become(d, Over(s, "FAILED"))

Service(d) ==
    /\ chatd[d].ice.active
    /\ \E pass \in Passes(chatd[d]) :
          Become(d, ServiceIceSession(chatd[d], pass))

(* A pass that finds a deadline passed. *)
Deadline(d) ==
    /\ chatd[d].ice.active /\ ~chatd[d].ice.secure
    /\ Become(d, ServiceIceSession(chatd[d],
            [callback |-> "none", parsed |-> TRUE, generated |-> TRUE,
             expired |-> TRUE, again |-> FALSE, p |-> NoPacket, q |-> NoPacket]))

(* write_ipc_status *)
Status(s) ==
    IF s.phase = "ONLINE" THEN "ONLINE"
    ELSE IF s.wsi # NoConn THEN "CONNECTING" ELSE "OFFLINE"

-----------------------------------------------------------------------------
Phases == {"REGISTER", "HELLO", "AUTH_RESPONSE", "ONLINE", "FAILED"}
SessionStates ==
    {"IDLE", "REQUESTING", "ICE_NEGOTIATING", "ICE_CONNECTED",
     "CRYPTO_HANDSHAKE", "SECURE", "CLOSED", "FAILED"}
=============================================================================
