------------------------------- MODULE ChatdInv -------------------------------
(***************************************************************************)
(* What is true of the state of one daemon at any time, and of the login   *)
(* on one connection.                                                      *)
(***************************************************************************)
EXTENDS Chatd, Integers

-----------------------------------------------------------------------------
(* The state of one daemon.                                                *)

Others(d) == Daemons \ {d}

Packets ==
    [type : {"HANDSHAKE"}, session_id : Ids \cup {None}, controlling : BOOLEAN]
        \cup {HeaderPacket, ClosePacket}
Outgoing ==
    [to : Daemons \cup {None}, agent : Ids \cup {None}, packet : Packets]
IceStates(d) ==
    [active : BOOLEAN, peer : Others(d) \cup {None}, session_id : Ids \cup {None},
     agent : Ids \cup {None}, controlling : BOOLEAN, gathering_done : BOOLEAN,
     sdp_sent : BOOLEAN, pending_sdp : Ids \cup {None}, remote : Ids \cup {None},
     ready : BOOLEAN, failed : BOOLEAN, notified : BOOLEAN,
     signed : Ids \cup {None}, keys_ready : BOOLEAN, header_received : BOOLEAN,
     secure : BOOLEAN, inbox : SUBSET Packets]

Bodies == [session_id : Ids, sdp : Ids \cup {None}]
SignalTypes == {"chat_request", "chat_accept", "ice_credentials", "chat_cancel"}
SignalsOf(d) ==
    [type : SignalTypes, from : {d}, to : Others(d), key : {d}, body : Bodies]
Logins(d) ==
    {[type |-> "register", username |-> d, key |-> d],
     [type |-> "hello", username |-> d]}
    \cup [type : {"auth_response"},
          signature : [key : {d}, challenge : 0 .. MaxChallenges]]

Retries == 0 .. RetryMax
Draws == 0 .. MaxDrawn
Joins == [session_id : Ids, peer : Daemons, controlling : BOOLEAN]
DaemonStates(d) ==
    [username : {d}, phase : Phases, wsi : Conns \cup {NoConn},
     connecting : BOOLEAN, should_reconnect : BOOLEAN,
     pending : Logins(d) \cup SignalsOf(d) \cup {Empty},
     session_state : SessionStates,
     client : {"none", "waiting", "chatting", "gone"},
     asked : Daemons \cup {None}, lookup_peer : Others(d) \cup {None},
     retries : Retries, ice : IceStates(d), outbox : SUBSET Outgoing,
     drawn : Draws, joined : SUBSET Joins]

(* How the fields of a daemon go together. *)
Coherent(s) ==
    /\ s.wsi # NoConn => ~s.connecting /\ ~s.should_reconnect
    /\ s.connecting => ~s.should_reconnect
    /\ s.client = "none" <=> s.asked = None
    /\ s.ice.active => /\ s.ice.peer # None /\ s.ice.agent # None
                       /\ s.ice.session_id # None
    /\ s.ice.secure => s.session_state # "FAILED"
    /\ s.session_state = "FAILED" => s.client = "none"

(* The session ids a daemon has drawn, with those it may still draw for    *)
(* the CLI that waits.                                                     *)
Committed(s) ==
    s.drawn + (IF s.lookup_peer = None THEN 0 ELSE RetryMax - s.retries)

Well(d, s, n) == s \in DaemonStates(d) /\ Coherent(s) /\ Committed(s) <= n

(* All the daemons between two steps; N is how many ids each may have drawn. *)
ChatdOK(f, N) ==
    /\ f = [d \in Daemons |-> f[d]]
    /\ \A d \in Daemons : Well(d, f[d], N[d]) /\ f[d].outbox = {}

-----------------------------------------------------------------------------
(* The login on one connection: key is whose it is, ses the server's       *)
(* session, heard the last challenge the server wrote, u and v what is on  *)
(* the wire to and from the server, and H what the daemon that still has   *)
(* the connection knows.                                                   *)

Is(m, type) == m # Empty /\ m.type = type
Carries(q, type) == \E i \in DOMAIN q : q[i].type = type
Side(s) == [phase |-> s.phase, pending |-> s.pending]

(* Sent and not yet read by the server. *)
Sent(u, H, type) == Carries(u, type) \/ \E x \in H : Is(x.pending, type)
(* Put into the slot and not yet read by the daemon. *)
Coming(ses, v, type) == Is(ses.pending, type) \/ Carries(v, type)

(* hello is sent at most once, from phase REGISTER on. *)
HelloOk(ses, u, H) ==
    /\ \A i, j \in DOMAIN u : u[i].type = "hello" /\ u[j].type = "hello" => i = j
    /\ Sent(u, H, "hello") => ses.username = NoUser
    /\ Carries(u, "hello") => \A x \in H : ~Is(x.pending, "hello")
    /\ \A x \in H : x.phase = "REGISTER" =>
          ~Sent(u, H, "hello") /\ ses.username = NoUser

(* Before the server has read it, nothing of what follows has happened. *)
FreshOk(ses, u, v, H) ==
    ses.username = NoUser =>
        /\ ~ses.authenticated
        /\ ~Coming(ses, v, "auth_challenge") /\ ~Coming(ses, v, "auth_ok")
        /\ ~Sent(u, H, "auth_response")
        /\ \A x \in H : x.phase \in {"REGISTER", "HELLO"}

(* The one challenge is in one place, and is signed when it has arrived. *)
ChallengeOk(ses, heard, u, v, H) ==
    /\ Coming(ses, v, "auth_challenge") =>
          ~Sent(u, H, "auth_response") /\ \A x \in H : x.phase = "HELLO"
    /\ Is(ses.pending, "auth_challenge") => ~Carries(v, "auth_challenge")
    /\ \A i, j \in DOMAIN v :
          v[i].type = "auth_challenge" /\ v[j].type = "auth_challenge" => i = j
    /\ \A i \in DOMAIN v : v[i].type = "auth_challenge" => v[i].challenge = heard

AnswerOk(key, heard, u, H) ==
    /\ \A i \in DOMAIN u : u[i].type = "auth_response" =>
          u[i].signature = [key |-> key, challenge |-> heard]
    /\ \A x \in H : Is(x.pending, "auth_response") =>
          x.pending.signature = [key |-> key, challenge |-> heard]

(* A daemon that is online, or about to be, is so with reason. *)
DoneOk(ses, v, H) ==
    /\ Coming(ses, v, "auth_ok") => ses.authenticated
    /\ \A x \in H : x.phase = "ONLINE" => ses.authenticated

Login(key, ses, heard, u, v, H) ==
    /\ ses.username \in {NoUser, key}
    /\ HelloOk(ses, u, H)
    /\ FreshOk(ses, u, v, H)
    /\ ChallengeOk(ses, heard, u, v, H)
    /\ AnswerOk(key, heard, u, H)
    /\ DoneOk(ses, v, H)

(* Nothing of the login in the slot. *)
Plain(m) == ~Is(m, "auth_challenge") /\ ~Is(m, "auth_ok")
===============================================================================
