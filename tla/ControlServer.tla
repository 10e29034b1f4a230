---------------------------- MODULE ControlServer ----------------------------
(***************************************************************************)
(* chat-server: the user registry (server/users.c) and the WebSocket       *)
(* control protocol (server/main.c).                                       *)
(*                                                                         *)
(* The server is one libwebsockets event loop, so every callback is one    *)
(* atomic step.  A connection is identified by its wsi; closing frees the  *)
(* wsi and its session, and a later connection may get the same address,   *)
(* so Conns is a set of addresses that are opened and closed repeatedly.   *)
(*                                                                         *)
(* Names, keys, signatures and challenges are abstract values.  BadName    *)
(* and BadKey stand for a field that is missing, or that fails             *)
(* chat_username_is_valid or hex_to_bin; an empty session_id is treated as *)
(* BadName is.                                                             *)
(***************************************************************************)
EXTENDS Naturals, FiniteSets

CONSTANTS
    Users,          \* valid user names
    Keys,           \* Ed25519 key pairs
    Conns,          \* addresses of libwebsockets connections
    Types,          \* the signalling types clients use
    Bodies,         \* what else a signalling message holds: session_id, sdp
    MaxUsers,       \* CHAT_SERVER_MAX_USERS
    MaxChallenges,  \* bound: challenges drawn in a behaviour
    HelloOnce,      \* TRUE: clients send hello once a connection, as chatd does
    Malformed,      \* TRUE: clients also send frames the server cannot parse
    NoUser, NoKey, NoConn, BadName, BadKey, BadSignature, Empty

(* signaling_type_is_supported *)
SignalingTypes ==
    {"chat_request", "chat_accept", "chat_reject", "ice_credentials",
     "ice_candidate", "ice_done", "ice_gathering_done", "chat_end",
     "chat_cancel"}

(* The types whose public_key field is compared with the registered key. *)
KeyedTypes == {"chat_request", "chat_accept"}

ASSUME ConstantsAssumption ==
    /\ Types \subseteq SignalingTypes
    /\ MaxUsers \in Nat
    /\ MaxChallenges \in Nat
    /\ HelloOnce \in BOOLEAN /\ Malformed \in BOOLEAN
    /\ NoUser \notin Users /\ BadName \notin Users
    /\ NoKey \notin Keys /\ BadKey \notin Keys
    /\ NoConn \notin Conns
    /\ IsFiniteSet(Users)

VARIABLES
    identity_pk,  \* the key a user is registered with, or NoKey
    online,       \* the users whose registry entry has online = 1
    wsi,          \* the connection a registry entry points to, or NoConn
    open,         \* connections between ESTABLISHED and CLOSED
    session,      \* chat_server_session_t of each connection
    client,       \* the far end: its key and the last challenge it received
    nonce         \* challenges drawn so far; the latest is the number itself

registry == <<identity_pk, online, wsi>>
vars == <<identity_pk, online, wsi, open, session, client, nonce>>

Names == Users \cup {n \in {BadName} : Malformed}
KeyFields == Keys \cup {k \in {BadKey} : Malformed}
Registered == {u \in Users : identity_pk[u] # NoKey}

-----------------------------------------------------------------------------
(* Messages the server writes. *)

(* chatd's handle_receive acts on the first two codes and gives up on      *)
(* every other one; the next two are kept apart for the properties.        *)
CodesToldApart ==
    {"user already exists", "peer_offline", "user registry full", "peer_busy"}
ErrorCodes == CodesToldApart \cup {"other"}
Error(code) ==
    [type |-> "error", code |-> IF code \in CodesToldApart THEN code ELSE "other"]

Challenge(n) == [type |-> "auth_challenge", challenge |-> n]
RegisterOk == [type |-> "register_ok"]
AuthOk == [type |-> "auth_ok"]
UserStatus(u) ==
    [type |-> "user_status", username |-> u,
     known |-> u \in Registered, online |-> u \in online,
     public_key |-> identity_pk[u]]

(* A relayed message is the sender's JSON, byte for byte.  origin is a     *)
(* history field: the key that the client it was received from holds.      *)
Relay(c, type, from, to, pk, body) ==
    [type |-> type, from |-> from, to |-> to, public_key |-> pk,
     body |-> body, origin |-> client[c].key]

RelayMessages ==
    [type : Types, from : Users, to : Users,
     public_key : Keys \cup {BadKey}, body : Bodies, origin : Keys]

Messages ==
    [type : {"error"}, code : ErrorCodes]
    \cup [type : {"auth_challenge"}, challenge : 1 .. MaxChallenges]
    \cup {RegisterOk, AuthOk}
    \cup [type : {"user_status"}, username : Users, known : BOOLEAN,
          online : BOOLEAN, public_key : Keys \cup {NoKey}]
    \cup RelayMessages

(* chat_server_session_t; challenge = 0 is has_challenge = 0. *)
Sessions ==
    [username : Users \cup {NoUser}, challenge : 0 .. MaxChallenges,
     authenticated : BOOLEAN, pending : Messages \cup {Empty}]

NewSession ==
    [username |-> NoUser, challenge |-> 0, authenticated |-> FALSE,
     pending |-> Empty]

NoClient == [key |-> NoKey, heard |-> 0]

-----------------------------------------------------------------------------
(* send_json: one slot per connection, overwritten without a look at what  *)
(* it holds.                                                               *)
SendJson(c, m) == session' = [session EXCEPT ![c].pending = m]

SendError(c, code) ==
    SendJson(c, Error(code)) /\ UNCHANGED <<registry, open, client, nonce>>

(* chat_server_users_find / _find_mut succeed. *)
Find(u) == u \in Registered

(* chat_server_users_register: the registry's verdict, in the order of its *)
(* tests; with it, two faulty variants.                                    *)
RegisterResult_OffByOne(u) ==
    IF Cardinality(Registered) > MaxUsers THEN "user registry full"
    ELSE IF Find(u) THEN "user already exists"
    ELSE "ok"
RegisterResult_NoExists(u) ==
    IF Cardinality(Registered) >= MaxUsers THEN "user registry full" ELSE "ok"

RegisterResult(u) ==
    IF Cardinality(Registered) >= MaxUsers THEN "user registry full"
    ELSE IF Find(u) THEN "user already exists"
    ELSE "ok"

RegisterFieldsValid_NameOnly(u, pk) == u \in Users
RegisterFieldsValid(u, pk) == u \in Users /\ pk \in Keys

HandleRegister(c, u, pk) ==
    \/ /\ ~RegisterFieldsValid(u, pk)
       /\ SendError(c, "bad_register")
    \/ /\ RegisterFieldsValid(u, pk)
       /\ RegisterResult(u) # "ok"
       /\ SendError(c, RegisterResult(u))
    \/ /\ RegisterFieldsValid(u, pk)
       /\ RegisterResult(u) = "ok"
       /\ identity_pk' = [identity_pk EXCEPT ![u] = pk]
       /\ wsi' = [wsi EXCEPT ![u] = NoConn]
       /\ online' = online \ {u}
       /\ SendJson(c, RegisterOk)
       /\ UNCHANGED <<open, client, nonce>>

(* Starting over on the same connection clears authenticated but leaves    *)
(* the registry entry of the user who was online through it.               *)
HandleHello(c, u) ==
    \/ /\ u = BadName
       /\ SendError(c, "bad_hello")
    \/ /\ u \in Users /\ ~Find(u)
       /\ SendError(c, "unknown_user")
    \/ /\ u \in Users /\ Find(u)
       /\ nonce < MaxChallenges
       /\ nonce' = nonce + 1
       /\ session' = [session EXCEPT ![c] =
            [username |-> u, challenge |-> nonce + 1,
             authenticated |-> FALSE, pending |-> Challenge(nonce + 1)]]
       /\ UNCHANGED <<registry, open, client>>

(* crypto_sign_verify_detached *)
SignatureVerifies_AnyKey(signature, challenge, pk) ==
    signature.challenge = challenge
SignatureVerifies(signature, challenge, pk) ==
    signature = [key |-> pk, challenge |-> challenge]

(* What stops an auth_response, or "ok". *)
AuthResult(c, signature) ==
    LET s == session[c] IN
    IF s.challenge = 0 \/ s.username = NoUser THEN "auth_not_started"
    ELSE IF signature = BadSignature THEN "bad_auth_response"
    ELSE IF ~Find(s.username) THEN "unknown_user"
    ELSE IF ~SignatureVerifies(signature, s.challenge, identity_pk[s.username])
         THEN "authentication_failed"
    ELSE "ok"

(* chat_server_users_set_online, called with a user that was just found.   *)
SetOnline(u, c) ==
    /\ online' = online \cup {u}
    /\ wsi' = [wsi EXCEPT ![u] = c]

HandleAuthResponse(c, signature) ==
    \/ /\ AuthResult(c, signature) # "ok"
       /\ SendError(c, AuthResult(c, signature))
    \/ /\ AuthResult(c, signature) = "ok"
       /\ session' = [session EXCEPT ![c] =
            [username |-> @.username, challenge |-> 0,
             authenticated |-> TRUE, pending |-> AuthOk]]
       /\ SetOnline(session[c].username, c)
       /\ UNCHANGED <<identity_pk, open, client, nonce>>

-----------------------------------------------------------------------------
(* handle_signaling_forward up to the look at the target's slot: what      *)
(* stops the message, or "ok".                                             *)
ForwardResult_AnyFrom(c, type, from, to, pk) ==
    IF ~session[c].authenticated THEN "authentication_required"
    ELSE IF BadName \in {from, to} THEN "bad_signaling_message"
    ELSE IF ~Find(from) THEN "unknown_user"
    ELSE IF type \in KeyedTypes /\ pk # identity_pk[from]
         THEN "public_key_mismatch"
    ELSE IF to \notin online THEN "peer_offline"
    ELSE "ok"

ForwardResult(c, type, from, to, pk) ==
    IF ~session[c].authenticated THEN "authentication_required"
    ELSE IF BadName \in {from, to} THEN "bad_signaling_message"
    ELSE IF from # session[c].username THEN "from_mismatch"
    ELSE IF ~Find(from) THEN "unknown_user"
    ELSE IF type \in KeyedTypes /\ pk = BadKey THEN "bad_public_key"
    ELSE IF type \in KeyedTypes /\ pk # identity_pk[from]
         THEN "public_key_mismatch"
    ELSE IF ~Find(to) \/ to \notin online \/ wsi[to] = NoConn
         THEN "peer_offline"
    ELSE "ok"

(* The connection a message is put on: target->wsi. *)
Target_Sender(c, to) == c
Target(c, to) == wsi[to]

(* The target's pending_len is read through the registry's pointer.  Once  *)
(* that connection is closed the pointer dangles: the read may yield       *)
(* anything, and what is then written there reaches nobody.                *)
HandleSignalingForward(c, type, from, to, pk, body) ==
    LET result == ForwardResult(c, type, from, to, pk)
        target == Target(c, to)
    IN  \/ /\ result # "ok"
           /\ SendError(c, result)
        \/ /\ result = "ok"
           /\ target \in open => session[target].pending # Empty
           /\ SendError(c, "peer_busy")
        \/ /\ result = "ok"
           /\ target \in open /\ session[target].pending = Empty
           /\ SendJson(target, Relay(c, type, from, to, pk, body))
           /\ UNCHANGED <<registry, open, client, nonce>>
        \/ /\ result = "ok"
           /\ target \notin open
           /\ UNCHANGED <<registry, open, session, client, nonce>>

HandleUserLookup(c, u) ==
    \/ /\ ~session[c].authenticated
       /\ SendError(c, "authentication_required")
    \/ /\ session[c].authenticated /\ u = BadName
       /\ SendError(c, "bad_lookup")
    \/ /\ session[c].authenticated /\ u \in Users
       /\ SendJson(c, UserStatus(u))
       /\ UNCHANGED <<registry, open, client, nonce>>

(* A frame that never reaches a handler: too large, fragmented, without a  *)
(* type or of an unknown type.                                             *)
FrameErrors == {"message_too_large_or_fragmented", "missing_type", "unknown_type"}
RejectFrame(c, code) == SendError(c, code)

-----------------------------------------------------------------------------
(* callback_chat_control *)

Established(c, k) ==
    /\ c \notin open
    /\ open' = open \cup {c}
    /\ session' = [session EXCEPT ![c] = NewSession]
    /\ client' = [client EXCEPT ![c] = [key |-> k, heard |-> 0]]
    /\ UNCHANGED <<registry, nonce>>

(* chatd queues hello once a connection (phase REGISTER -> HELLO). *)
MayHello(c) == HelloOnce => session[c].username = NoUser

(* A client signs, with the one key it holds, the last challenge it got.   *)
Signatures(c) ==
    {[key |-> client[c].key, challenge |-> client[c].heard]}
    \cup {s \in {BadSignature} : Malformed}

Receive(c) ==
    /\ c \in open
    /\ \/ \E u \in Names, pk \in KeyFields : HandleRegister(c, u, pk)
       \/ MayHello(c) /\ \E u \in Names : HandleHello(c, u)
       \/ \E signature \in Signatures(c) : HandleAuthResponse(c, signature)
       \/ \E u \in Names : HandleUserLookup(c, u)
       \/ \E type \in Types, from, to \in Names, pk \in KeyFields, body \in Bodies :
             HandleSignalingForward(c, type, from, to, pk, body)
       \/ Malformed /\ \E code \in FrameErrors : RejectFrame(c, code)

Writeable(c) ==
    /\ c \in open
    /\ session[c].pending # Empty
    /\ session' = [session EXCEPT ![c].pending = Empty]
    /\ client' = [client EXCEPT ![c].heard =
                    IF session[c].pending.type = "auth_challenge"
                    THEN session[c].pending.challenge ELSE @]
    /\ UNCHANGED <<registry, open, nonce>>

(* chat_server_users_set_offline_by_wsi *)
SetOfflineByWsi_ByName(c) ==
    /\ online' = online \ {session[c].username}
    /\ wsi' = [wsi EXCEPT ![session[c].username] = NoConn]
SetOfflineByWsi_KeepsOnline(c) == UNCHANGED <<online, wsi>>

SetOfflineByWsi(c) ==
    /\ online' = online \ {u \in Users : wsi[u] = c}
    /\ wsi' = [u \in Users |-> IF wsi[u] = c THEN NoConn ELSE wsi[u]]

(* The far end leaves, the network fails, or a short lws_write made        *)
(* WRITEABLE return -1; what the slot held is lost.  The session is freed, *)
(* and its content is not kept: a dangling read yields anything anyway.    *)
Closed(c) ==
    /\ c \in open
    /\ open' = open \ {c}
    /\ \/ session[c].authenticated /\ SetOfflineByWsi(c)
       \/ ~session[c].authenticated /\ UNCHANGED <<online, wsi>>
    /\ session' = [session EXCEPT ![c] = NewSession]
    /\ client' = [client EXCEPT ![c] = NoClient]
    /\ UNCHANGED <<identity_pk, nonce>>

(* main: registrations are only in memory.                                 *)
Restart ==
    /\ open # {}
    /\ open' = {}
    /\ identity_pk' = [u \in Users |-> NoKey]
    /\ online' = {}
    /\ wsi' = [u \in Users |-> NoConn]
    /\ session' = [c \in Conns |-> NewSession]
    /\ client' = [c \in Conns |-> NoClient]
    /\ UNCHANGED nonce

Init ==
    /\ identity_pk = [u \in Users |-> NoKey]
    /\ online = {}
    /\ wsi = [u \in Users |-> NoConn]
    /\ open = {}
    /\ session = [c \in Conns |-> NewSession]
    /\ client = [c \in Conns |-> NoClient]
    /\ nonce = 0

Next ==
    \/ \E c \in Conns, k \in Keys : Established(c, k)
    \/ \E c \in Conns : Receive(c) \/ Writeable(c) \/ Closed(c)
    \/ Restart

Spec == Init /\ [][Next]_vars

-----------------------------------------------------------------------------
(* Type correctness of the registry and of every chat_server_session_t.    *)
TypeOK ==
    /\ identity_pk \in [Users -> Keys \cup {NoKey}]
    /\ online \subseteq Users
    /\ wsi \in [Users -> Conns \cup {NoConn}]
    /\ open \subseteq Conns
    /\ session \in [Conns -> Sessions]
    /\ client \in [Conns -> [key : Keys \cup {NoKey},
                             heard : 0 .. MaxChallenges]]
    /\ \A c \in open : client[c].key \in Keys
    /\ nonce \in 0 .. MaxChallenges

(* chat_server_users_register never writes past users[MaxUsers - 1].       *)
RegistryBounded == Cardinality(Registered) <= MaxUsers

(* handle_auth_response: whoever is authenticated as a user holds the key  *)
(* that user is registered with, whatever registrations, hellos, closes    *)
(* and restarts came in between.                                           *)
AuthSound ==
    \A c \in open : session[c].authenticated =>
        /\ session[c].username \in Registered
        /\ identity_pk[session[c].username] = client[c].key

(* The registry's presence is that of a live connection: an online entry   *)
(* points to an open connection that is authenticated as that very user.   *)
PresenceSound ==
    \A u \in online :
        /\ wsi[u] \in open
        /\ session[wsi[u]].authenticated
        /\ session[wsi[u]].username = u

(* An online entry points to a connection that is still open: the status   *)
(* "corresponds to a control connection that is active" (spec.md).         *)
OnlineIsConnected == \A u \in online : wsi[u] \in open

IsRelay(m) == m # Empty /\ m.type \in SignalingTypes

(* handle_signaling_forward: a relayed message waiting for a client was    *)
(* sent by the holder of the key its from is registered with, and a        *)
(* request or an accept carries that key.                                  *)
RelayOrigin ==
    \A c \in open : LET m == session[c].pending IN
        IsRelay(m) =>
            /\ m.from \in Registered
            /\ m.origin = identity_pk[m.from]
            /\ m.type \in KeyedTypes => m.public_key = identity_pk[m.from]

(* handle_signaling_forward: a relayed message waits only on a connection  *)
(* authenticated as the user it is addressed to, also when connections     *)
(* close and their addresses are reused.                                   *)
RelayAddressee ==
    \A c \in open : IsRelay(session[c].pending) =>
        /\ session[c].authenticated
        /\ session[c].username = session[c].pending.to

(* chat_server_users_register: the first registration of a name binds it   *)
(* to its key until the server restarts.                                   *)
FirstRegistrationWins ==
    [][\/ \A u \in Registered : identity_pk'[u] = identity_pk[u]
       \/ Restart]_vars

(* callback_chat_control, CLOSED: a user goes offline only when the        *)
(* connection its entry points to closes; the late close of a connection   *)
(* that a newer login has replaced leaves the user online.                 *)
OfflineOnlyByOwnClose ==
    [][\A u \in online \ online' : wsi[u] \in open \ open']_vars

(* send_json: a relayed message leaves its slot by being written or with   *)
(* its connection, never by being overwritten.                             *)
RelayNotOverwritten ==
    [][\A c \in open \cap open' : IsRelay(session[c].pending) =>
          session'[c].pending \in {session[c].pending, Empty}]_vars
=============================================================================
