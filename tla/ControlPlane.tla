----------------------------- MODULE ControlPlane -----------------------------
(***************************************************************************)
(* The daemons and the control server together: Chatd and ControlServer    *)
(* joined by WebSocket connections.  A connection carries messages in      *)
(* order both ways.  Either side may be the first to see it close; what    *)
(* was on its way may still arrive at the side that has not.  Connections  *)
(* are lost, and processes die, a bounded number of times.                 *)
(***************************************************************************)
EXTENDS Chatd, Sequences

CONSTANTS
    MaxUsers,       \* CHAT_SERVER_MAX_USERS
    Peers,          \* [Daemons -> SUBSET Daemons]: whom a user may ask for
    MaxDrops,       \* bound: connections, attempts and writes that fail
    MaxCrashes,     \* bound: processes killed
    WireCapacity,   \* messages a connection holds in one direction
    NoKey, BadName, BadSignature

VARIABLES
    identity_pk, online, wsi, open, session, client, nonce,  \* the server
    up, down,                   \* messages on a connection
    opens, drops, crashes       \* how much of the bounds is used

server == <<identity_pk, online, wsi, open, session, client, nonce>>
budget == <<opens, drops, crashes>>
vars == <<chatd, server, up, down, budget>>

ASSUME PlaneAssumption ==
    /\ MaxUsers \in Nat /\ MaxDrops \in Nat /\ MaxCrashes \in Nat
    /\ WireCapacity \in Nat
    /\ IsFiniteSet(Daemons) /\ Peers \in [Daemons -> SUBSET Daemons]
    /\ {NoUser, NoKey, BadName, BadKey} \cap Daemons = {}

S == INSTANCE ControlServer WITH
        Users <- Daemons, Keys <- Daemons,
        Types <- {"chat_request", "chat_accept", "ice_credentials", "chat_cancel"},
        Bodies <- [session_id : Ids, sdp : Ids \cup {None}],
        HelloOnce <- TRUE, Malformed <- FALSE

Holders(c) == {d \in Daemons : chatd[d].wsi = c}
Has(d, c) == c \in open /\ chatd[d].wsi = c

-----------------------------------------------------------------------------
(* The daemons' side.                                                      *)

DaemonConnects(d) == Connect(d) /\ UNCHANGED <<server, up, down, budget>>

(* Both sides' ESTABLISHED, the server's first. *)
Accept(d, c) ==
    /\ Holders(c) = {}
    /\ S!Established(c, d)
    /\ Established(d, c)
    /\ up' = [up EXCEPT ![c] = <<>>]
    /\ down' = [down EXCEPT ![c] = <<>>]
    /\ UNCHANGED budget

AttemptFails(d) ==
    /\ drops < MaxDrops /\ drops' = drops + 1
    /\ ConnectionError(d)
    /\ UNCHANGED <<server, up, down, opens, crashes>>

DaemonReceives(d) ==
    \E c \in Conns :
        /\ chatd[d].wsi = c /\ down[c] # <<>>
        /\ Receive(d, Head(down[c]))
        /\ down' = [down EXCEPT ![c] = Tail(@)]
        /\ UNCHANGED <<server, up, budget>>

(* What is written to a connection the server has closed is lost.          *)
DaemonWrites(d) ==
    \E c \in Conns :
        /\ chatd[d].wsi = c /\ Len(up[c]) < WireCapacity
        /\ Writeable(d)
        /\ up' = [up EXCEPT ![c] = IF c \in open /\ chatd'[d].phase # "FAILED"
                                   THEN Append(@, chatd[d].pending) ELSE @]
        /\ drops' = IF chatd'[d].phase = "FAILED" THEN drops + 1 ELSE drops
        /\ drops' <= MaxDrops
        /\ UNCHANGED <<server, down, opens, crashes>>

DaemonSeesClose(d) ==
    /\ chatd[d].wsi \in Conns \ open
    /\ Closed(d)
    /\ UNCHANGED <<server, up, down, budget>>

DaemonLosesConnection(d) ==
    /\ chatd[d].wsi \in open
    /\ drops < MaxDrops /\ drops' = drops + 1
    /\ Closed(d)
    /\ UNCHANGED <<server, up, down, opens, crashes>>

DaemonKilled(d) ==
    /\ crashes < MaxCrashes /\ crashes' = crashes + 1
    /\ Kill(d)
    /\ UNCHANGED <<server, up, down, opens, drops>>

DaemonRestarts(d) == Restart(d) /\ UNCHANGED <<server, up, down, budget>>

UserOpensChat(d) ==
    /\ opens[d] < MaxOpens
    /\ opens' = [opens EXCEPT ![d] = @ + 1]
    /\ \E peer \in Peers[d] : OpenChat(d, peer)
    /\ UNCHANGED <<server, up, down, drops, crashes>>

UserLeaves(d) == GiveUp(d) /\ UNCHANGED <<server, up, down, budget>>
ChatCloses(d) ==
    ServiceActiveChatClient(d) /\ UNCHANGED <<server, up, down, budget>>

DaemonServes(d) == Service(d) /\ UNCHANGED <<server, up, down, budget>>
DeadlinePasses(d) == Deadline(d) /\ UNCHANGED <<server, up, down, budget>>

-----------------------------------------------------------------------------
(* The server's side.                                                      *)

(* handle_message on what chatd sends. *)
ServerHandles(c, m) ==
    \/ m.type = "register" /\ S!HandleRegister(c, m.username, m.key)
    \/ m.type = "hello" /\ S!HandleHello(c, m.username)
    \/ m.type = "auth_response" /\ S!HandleAuthResponse(c, m.signature)
    \/ /\ m.type \in S!SignalingTypes
       /\ S!HandleSignalingForward(c, m.type, m.from, m.to, m.key, m.body)

ServerReceives(c) ==
    /\ c \in open /\ up[c] # <<>>
    /\ Holders(c) # {} \/ "late" \in Faults
    /\ ServerHandles(c, Head(up[c]))
    /\ up' = [up EXCEPT ![c] = Tail(@)]
    /\ UNCHANGED <<chatd, down, budget>>

ServerWrites(c) ==
    /\ Len(down[c]) < WireCapacity
    /\ S!Writeable(c)
    /\ down' = [down EXCEPT ![c] =
            IF Holders(c) # {} THEN Append(@, session[c].pending) ELSE @]
    /\ UNCHANGED <<chatd, up, budget>>

ServerSeesClose(c) ==
    /\ Holders(c) = {}
    /\ S!Closed(c)
    /\ UNCHANGED <<chatd, up, down, budget>>

ServerLosesConnection(c) ==
    /\ Holders(c) # {}
    /\ drops < MaxDrops /\ drops' = drops + 1
    /\ S!Closed(c)
    /\ UNCHANGED <<chatd, up, down, opens, crashes>>

ServerRestarts ==
    /\ crashes < MaxCrashes /\ crashes' = crashes + 1
    /\ S!Restart
    /\ UNCHANGED <<chatd, up, down, opens, drops>>

-----------------------------------------------------------------------------
NothingUsed ==
    /\ opens = [d \in Daemons |-> 0]
    /\ drops = 0 /\ crashes = 0
    /\ up = [c \in Conns |-> <<>>]
    /\ down = [c \in Conns |-> <<>>]

Init ==
    /\ S!Init
    /\ chatd = [d \in Daemons |-> NewDaemon(d)]
    /\ NothingUsed

(* Everybody has logged in, each on a connection of its own: a state that  *)
(* Init leads to, from which the runs about chats begin.                   *)
Online(d, c) ==
    [NewDaemon(d) EXCEPT !.phase = "ONLINE", !.wsi = c, !.connecting = FALSE]
InitOnline ==
    \E conn \in [Daemons -> Conns] :
        /\ \A d, e \in Daemons : conn[d] = conn[e] => d = e
        /\ identity_pk = [d \in Daemons |-> d]
        /\ online = Daemons
        /\ wsi = conn
        /\ open = {conn[d] : d \in Daemons}
        /\ session = [c \in Conns |->
              IF c \in open
              THEN [username |-> CHOOSE d \in Daemons : conn[d] = c,
                    challenge |-> 0, authenticated |-> TRUE, pending |-> Empty]
              ELSE S!NewSession]
        /\ client = [c \in Conns |->
              IF c \in open
              THEN [key |-> CHOOSE d \in Daemons : conn[d] = c, heard |-> 1]
              ELSE S!NoClient]
        /\ nonce = Cardinality(Daemons)
        /\ chatd = [d \in Daemons |-> Online(d, conn[d])]
        /\ NothingUsed

DaemonNext(d) ==
    \/ DaemonConnects(d) \/ (\E c \in Conns : Accept(d, c)) \/ AttemptFails(d)
    \/ DaemonReceives(d) \/ DaemonWrites(d)
    \/ DaemonSeesClose(d) \/ DaemonLosesConnection(d)
    \/ DaemonKilled(d) \/ DaemonRestarts(d)
    \/ UserOpensChat(d) \/ UserLeaves(d) \/ ChatCloses(d)
    \/ DaemonServes(d)

ServerNext(c) ==
    \/ ServerReceives(c) \/ ServerWrites(c)
    \/ ServerSeesClose(c) \/ ServerLosesConnection(c)

Next ==
    \/ \E d \in Daemons : DaemonNext(d)
    \/ \E c \in Conns : ServerNext(c)
    \/ ServerRestarts

Spec == Init /\ [][Next]_vars
ChatSpec == InitOnline /\ [][Next]_vars

(* The two event loops run, connections deliver what they carry and their  *)
(* loss is noticed, systemd restarts a daemon that failed, time passes.    *)
(* Nothing is assumed of ICE, of UDP or of the users, but that a CLI does  *)
(* not wait longer than its timeout.                                       *)
Fairness ==
    /\ \A d \in Daemons :
          /\ WF_vars(DaemonConnects(d)) /\ WF_vars(\E c \in Conns : Accept(d, c))
          /\ WF_vars(DaemonReceives(d)) /\ WF_vars(DaemonWrites(d))
          /\ WF_vars(DaemonSeesClose(d)) /\ WF_vars(DaemonRestarts(d))
          /\ WF_vars(DeadlinePasses(d))
          /\ WF_vars(chatd[d].client = "waiting" /\ UserLeaves(d))
          /\ WF_vars(chatd[d].client = "gone" /\ ChatCloses(d))
    /\ \A c \in Conns :
          /\ WF_vars(ServerReceives(c)) /\ WF_vars(ServerWrites(c))
          /\ WF_vars(ServerSeesClose(c))

FairSpec == Spec /\ Fairness
FairChatSpec == ChatSpec /\ Fairness

-----------------------------------------------------------------------------
(* Type correctness of the daemons' state and of the wires.                *)
TypeOK ==
    /\ \A d \in Daemons : LET s == chatd[d] IN
          /\ s.username = d /\ s.phase \in Phases
          /\ s.session_state \in SessionStates
          /\ s.wsi \in Conns \cup {NoConn}
          /\ s.wsi # NoConn => ~s.connecting /\ ~s.should_reconnect
          /\ s.client \in {"none", "waiting", "chatting", "gone"}
          /\ s.retries \in 0 .. RetryMax /\ s.drawn \in 0 .. MaxDrawn
          /\ s.client = "none" <=> s.asked = None
          /\ s.ice.active => s.ice.peer \in Daemons \ {d}
    /\ \A c \in Conns : Len(up[c]) <= WireCapacity /\ Len(down[c]) <= WireCapacity

(* handle_receive and callback_chatd_control: a daemon in phase ONLINE     *)
(* whose connection the server still has is the one the server knows as    *)
(* that user, and the registry sends relays for the user to it.            *)
OnlineAuthenticated ==
    \A d \in Daemons :
        chatd[d].phase = "ONLINE" /\ chatd[d].wsi \in open =>
            /\ session[chatd[d].wsi].authenticated
            /\ session[chatd[d].wsi].username = d
            /\ d \in online /\ wsi[d] = chatd[d].wsi

(* What the server sees of daemons is what ControlServer assumes of its    *)
(* clients: one hello a connection, and signatures of the challenge that   *)
(* was sent on it.                                                         *)
ServerRefined == S!Spec

(* Once connections stay up and nobody is killed, every daemon is online   *)
(* and the server knows it: "Le daemon doit se reconnecter                 *)
(* automatiquement avec backoff." (spec.md)                                *)
BackOnline ==
    <>[](\A d \in Daemons :
            /\ chatd[d].phase = "ONLINE"
            /\ chatd[d].wsi \in open /\ d \in online /\ wsi[d] = chatd[d].wsi)

(* handle_receive: "`chatd` accepts `user already exists` during the       *)
(* register phase and continues to authentication." (protocol.md)          *)
KnownUserContinues ==
    \A d \in Daemons :
        chatd[d].phase = "REGISTER" /\ identity_pk[d] = d
            ~> chatd[d].phase \in {"HELLO", "AUTH_RESPONSE", "ONLINE"}

(* write_ipc_status: "Le statut en ligne correspond a une connexion de     *)
(* controle authentifiee actuellement active." (spec.md)                   *)
StatusIsLive ==
    \A d \in Daemons : Status(chatd[d]) = "ONLINE" => chatd[d].wsi # NoConn

(* handle_receive: the daemon's task is to keep its user present           *)
(* ("maintenir la presence", spec.md), so it ends only when it is killed.  *)
StaysUp ==
    [][\A d \in Daemons : chatd[d].phase # "FAILED" /\ chatd'[d].phase = "FAILED"
          => crashes' # crashes]_vars

(* Two daemons that speak have joined the same conversation, as host and   *)
(* guest, and each knows the other as its peer: chat_request, chat_accept, *)
(* the retries and the signed session id implement Conversation, also when *)
(* both ask at once or another request arrives half way.                   *)
Talk == INSTANCE Conversation WITH
            joined <- [d \in Daemons |-> chatd[d].joined],
            speaking <- [d \in Daemons |->
                IF chatd[d].ice.secure THEN chatd[d].ice.signed ELSE None]
ConversationRefined == Talk!Spec

(* callback_chatd_control: "losing the control connection does not close   *)
(* the local IPC client or ICE transport" of a secure session              *)
(* (protocol.md), nor does it change the state its packets are judged by,  *)
(* unless what lost it is a message that could not be answered.            *)
SecureOutlivesControl ==
    [][\A d \in Daemons :
          /\ chatd[d].ice.secure
          /\ chatd[d].wsi # NoConn /\ chatd'[d].wsi = NoConn
          /\ chatd'[d].phase # "FAILED"
          => /\ chatd'[d].ice.secure /\ chatd'[d].client = chatd[d].client
             /\ \/ /\ chatd'[d].ice = chatd[d].ice
                   /\ chatd'[d].session_state = chatd[d].session_state
                \/ DaemonReceives(d)]_vars

(* service_ice_session: a session that is being set up is secure or gone   *)
(* in the end, whoever cancels, replaces or leaves it (protocol.md,        *)
(* deadlines).                                                             *)
NegotiationEnds ==
    \A d \in Daemons :
        chatd[d].ice.active /\ ~chatd[d].ice.secure
            ~> ~chatd[d].ice.active \/ chatd[d].ice.secure

(* fail_chat_session: no CLI is left behind by a session that has failed   *)
(* for good, however many retries came before and whoever asked.           *)
FailedFreesClient ==
    \A d \in Daemons : chatd[d].session_state = "FAILED" => chatd[d].client = "none"

(* A CLI that has given up does not hold lookup_client_fd for ever, which  *)
(* would answer ERROR busy to every later one: "Ne jamais attendre         *)
(* indefiniment." (spec.md)                                                *)
ClientFreed ==
    \A d \in Daemons : chatd[d].client = "gone" ~> chatd[d].client # "gone"

(* handle_open_chat_command: a CLI that is told of an encrypted session    *)
(* speaks with the user it asked for (protocol.md, OPEN_CHAT).             *)
SpeaksWithAsked ==
    \A d \in Daemons : chatd[d].client = "chatting" /\ chatd[d].ice.secure
        => chatd[d].ice.peer = chatd[d].asked
===============================================================================
