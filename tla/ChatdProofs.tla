----------------------------- MODULE ChatdProofs ------------------------------
(***************************************************************************)
(* The operators of chatd, one by one: each keeps the state of a daemon in *)
(* its type and coherent, draws no more session ids than were allowed for, *)
(* and does no more to the phase, the connection and the slot than its     *)
(* lemma says; and what they do to a login.  DaemonStepProofs rests on     *)
(* these.                                                                  *)
(***************************************************************************)
EXTENDS ChatdInv, Sequences, TLAPS

(* The leaves are for SMT, unless they name another prover. *)
USE SMTT(30), ZenonT(20), Z3T(30)

-----------------------------------------------------------------------------
(* The login, as the daemon sees it.                                       *)

(* Sequences: what is on a wire. *)
LEMMA EmptyIn ==
    ASSUME NEW T
    PROVE  <<>> \in Seq(T) /\ Len(<<>>) = 0 /\ DOMAIN <<>> = {}
OBVIOUS

(* A sequence, by its indices. *)
LEMMA SeqIn ==
    ASSUME NEW T, NEW q \in Seq(T)
    PROVE  /\ Len(q) \in Nat /\ DOMAIN q = 1 .. Len(q)
           /\ \A i \in 1 .. Len(q) : q[i] \in T
           /\ q # <<>> => Len(q) # 0
OBVIOUS

(* A message is taken from a wire. *)
LEMMA TailIn ==
    ASSUME NEW T, NEW q \in Seq(T), q # <<>>
    PROVE  /\ 1 \in DOMAIN q /\ Head(q) = q[1]
           /\ Tail(q) \in Seq(T) /\ Len(Tail(q)) = Len(q) - 1
           /\ \A i \in DOMAIN Tail(q) :
                 /\ i + 1 \in DOMAIN q /\ i + 1 # 1 /\ i \in Nat
                 /\ Tail(q)[i] = q[i + 1]
OBVIOUS

(* A message is put on a wire. *)
LEMMA AppendIn ==
    ASSUME NEW T, NEW q \in Seq(T), NEW m \in T
    PROVE  /\ Append(q, m) \in Seq(T) /\ Len(Append(q, m)) = Len(q) + 1
           /\ \A i \in DOMAIN Append(q, m) :
                 \/ i \in DOMAIN q /\ Append(q, m)[i] = q[i]
                 \/ i = Len(q) + 1 /\ Append(q, m)[i] = m
OBVIOUS

(* The daemon leaves, writes its slot elsewhere, or queues signalling. *)
Fewer(H, G) ==
    \A x \in G : \E y \in H :
        /\ x.phase = y.phase
        /\ x.pending # Empty =>
              x.pending = y.pending \/ x.pending.type \in SignalTypes

(* The daemon has left, or has put a signalling message into its slot. *)
LEMMA LoginFewer ==
    ASSUME NEW key, NEW ses, NEW heard, NEW u, NEW v, NEW H, NEW G,
           Login(key, ses, heard, u, v, H), Fewer(H, G)
    PROVE  Login(key, ses, heard, u, v, G)
<1> USE DEF Login, Fewer, Sent, Is, SignalTypes
<1>1. \A type \in {"hello", "auth_response"} : Sent(u, G, type) => Sent(u, H, type)
  OBVIOUS
<1>2. HelloOk(ses, u, G)
  BY <1>1 DEF HelloOk
<1>3. FreshOk(ses, u, v, G)
  BY <1>1 DEF FreshOk
<1>4. ChallengeOk(ses, heard, u, v, G)
  BY <1>1 DEF ChallengeOk
<1>5. AnswerOk(key, heard, u, G)
  BY DEF AnswerOk
<1>6. DoneOk(ses, v, G)
  BY DEF DoneOk
<1> QED
  BY <1>2, <1>3, <1>4, <1>5, <1>6

(* The daemon has read a message. *)
LEMMA LoginPopDown ==
    ASSUME NEW key, NEW ses, NEW heard, NEW u, NEW T, NEW v \in Seq(T), v # <<>>, NEW H,
           Login(key, ses, heard, u, v, H)
    PROVE  Login(key, ses, heard, u, Tail(v), H)
<1> DEFINE w == Tail(v)
<1>1. \A i \in DOMAIN w : i + 1 \in DOMAIN v /\ w[i] = v[i + 1] /\ i \in Nat
  BY TailIn
<1> HIDE DEF w
<1> USE DEF Login
<1>2. \A type : Carries(w, type) => Carries(v, type)
  BY <1>1 DEF Carries
<1>3. \A type : Coming(ses, w, type) => Coming(ses, v, type)
  BY <1>2 DEF Coming
<1>4. FreshOk(ses, u, w, H)
  BY <1>3 DEF FreshOk
<1>5. ChallengeOk(ses, heard, u, w, H)
  <2>1. ASSUME NEW i \in DOMAIN w, NEW j \in DOMAIN w,
               w[i].type = "auth_challenge", w[j].type = "auth_challenge"
        PROVE  i = j
    <3>1. i + 1 = j + 1
      BY <1>1, <2>1 DEF ChallengeOk
    <3> QED
      BY <1>1, <3>1
  <2>2. \A i \in DOMAIN w : w[i].type = "auth_challenge" => w[i].challenge = heard
    BY <1>1 DEF ChallengeOk
  <2> QED
    BY <1>2, <1>3, <2>1, <2>2 DEF ChallengeOk
<1>6. DoneOk(ses, w, H)
  BY <1>3 DEF DoneOk
<1> QED
  BY <1>4, <1>5, <1>6 DEF w

(* handle_receive queues hello. *)
LEMMA LoginGreet ==
    ASSUME NEW key, NEW ses, NEW heard, NEW u, NEW v, NEW x, NEW y,
           Login(key, ses, heard, u, v, {x}), x.phase = "REGISTER",
           y.phase = "HELLO", y.pending.type = "hello"
    PROVE  Login(key, ses, heard, u, v, {y})
<1> USE DEF Login, Sent, Is
<1>1. HelloOk(ses, u, {y})
  BY DEF HelloOk
<1>2. FreshOk(ses, u, v, {y})
  BY DEF FreshOk
<1>3. ChallengeOk(ses, heard, u, v, {y})
  BY DEF ChallengeOk
<1>4. AnswerOk(key, heard, u, {y})
  BY DEF AnswerOk
<1>5. DoneOk(ses, v, {y})
  BY DEF DoneOk
<1> QED
  BY <1>1, <1>2, <1>3, <1>4, <1>5

(* handle_receive signs the challenge it has read. *)
LEMMA LoginAnswer ==
    ASSUME NEW key, NEW ses, NEW heard, NEW u, NEW T, NEW v \in Seq(T), v # <<>>,
           NEW x, NEW y, Login(key, ses, heard, u, v, {x}),
           Head(v).type = "auth_challenge", x.phase = "HELLO",
           y.phase = "AUTH_RESPONSE", y.pending.type = "auth_response",
           y.pending.signature = [key |-> key, challenge |-> Head(v).challenge]
    PROVE  Login(key, ses, heard, u, Tail(v), {y})
<1> DEFINE w == Tail(v)
<1>1. 1 \in DOMAIN v /\ v[1].type = "auth_challenge" /\ Head(v) = v[1]
  BY TailIn
<1>2. v[1].challenge = heard /\ Coming(ses, v, "auth_challenge")
      /\ ses.username # NoUser /\ Carries(v, "auth_challenge")
  BY <1>1 DEF Login, ChallengeOk, FreshOk, Coming, Carries
<1>3. ~Carries(w, "auth_challenge")
  BY <1>1, TailIn DEF Login, ChallengeOk, Carries
<1>4. ~Is(ses.pending, "auth_challenge") /\ ~Carries(u, "auth_response")
  BY <1>2 DEF Login, ChallengeOk, Sent
<1>5. Login(key, ses, heard, u, w, {x})
  BY LoginPopDown
<1> HIDE DEF w
<1> USE DEF Login, Sent, Is
<1>6. HelloOk(ses, u, {y})
  BY <1>5 DEF HelloOk
<1>7. FreshOk(ses, u, w, {y})
  BY <1>2, ZenonT(30) DEF FreshOk
<1>8. ChallengeOk(ses, heard, u, w, {y})
  BY <1>3, <1>4, <1>5 DEF ChallengeOk, Coming
<1>9. AnswerOk(key, heard, u, {y})
  BY <1>1, <1>2, <1>5 DEF AnswerOk
<1>10. DoneOk(ses, w, {y})
  BY <1>5 DEF DoneOk
<1> QED
  BY <1>5, <1>6, <1>7, <1>8, <1>9, <1>10 DEF w

(* handle_receive reads auth_ok. *)
LEMMA LoginFinish ==
    ASSUME NEW key, NEW ses, NEW heard, NEW u, NEW T, NEW v \in Seq(T), v # <<>>,
           NEW x, NEW y, Login(key, ses, heard, u, v, {x}),
           Head(v).type = "auth_ok", x.phase = "AUTH_RESPONSE",
           y.phase = "ONLINE", y.pending = x.pending
    PROVE  Login(key, ses, heard, u, Tail(v), {y})
<1> DEFINE w == Tail(v)
<1>1. 1 \in DOMAIN v /\ Head(v) = v[1]
  BY TailIn
<1>2. Coming(ses, v, "auth_ok")
  BY <1>1 DEF Coming, Carries
<1>3. ses.username # NoUser /\ ses.authenticated
  BY <1>2 DEF Login, FreshOk, DoneOk
<1>4. Login(key, ses, heard, u, w, {x})
  BY LoginPopDown
<1> HIDE DEF w
<1> USE DEF Login, Sent
<1>5. HelloOk(ses, u, {y})
  BY <1>4 DEF HelloOk
<1>6. FreshOk(ses, u, w, {y})
  BY <1>3, ZenonT(30) DEF FreshOk
<1>7. ChallengeOk(ses, heard, u, w, {y})
  BY <1>4 DEF ChallengeOk
<1>8. AnswerOk(key, heard, u, {y})
  BY <1>4 DEF AnswerOk
<1>9. DoneOk(ses, w, {y})
  BY <1>3, <1>4 DEF DoneOk
<1> QED
  BY <1>4, <1>5, <1>6, <1>7, <1>8, <1>9 DEF w

(* The daemon writes what is in its slot. *)
LEMMA LoginPush ==
    ASSUME NEW key, NEW ses, NEW heard, NEW T, NEW u \in Seq(T), NEW v, NEW x, NEW y,
           Login(key, ses, heard, u, v, {x}), x.pending \in T, x.pending # Empty,
           y.phase = x.phase, y.pending = Empty
    PROVE  Login(key, ses, heard, Append(u, x.pending), v, {y})
<1> DEFINE w == Append(u, x.pending)
<1>1. \A i \in DOMAIN w : \/ i \in DOMAIN u /\ w[i] = u[i]
                          \/ i = Len(u) + 1 /\ w[i] = x.pending
  BY AppendIn
<1> HIDE DEF w
<1>2. \A type : Carries(w, type) => Carries(u, type) \/ Is(x.pending, type)
  BY <1>1 DEF Carries, Is
<1>3. \A type : Sent(w, {y}, type) => Sent(u, {x}, type)
  BY <1>2 DEF Sent, Is
<1> USE DEF Login
<1>4. HelloOk(ses, w, {y})
  <2>1. ASSUME NEW i \in DOMAIN w, NEW j \in DOMAIN w,
               w[i].type = "hello", w[j].type = "hello"
        PROVE  i = j
    BY <1>1, <2>1 DEF HelloOk, Carries, Is
  <2>2. \A z \in {y} : ~Is(z.pending, "hello")
    BY DEF Is
  <2> QED
    BY <1>3, <2>1, <2>2, ZenonT(30) DEF HelloOk
<1>5. FreshOk(ses, w, v, {y})
  BY <1>3, ZenonT(30) DEF FreshOk
<1>6. ChallengeOk(ses, heard, w, v, {y})
  BY <1>3, ZenonT(30) DEF ChallengeOk
<1>7. AnswerOk(key, heard, w, {y})
  BY <1>1 DEF AnswerOk, Is
<1>8. DoneOk(ses, v, {y})
  BY DEF DoneOk
<1> QED
  BY <1>4, <1>5, <1>6, <1>7, <1>8 DEF w

-----------------------------------------------------------------------------
(* What chatd leaves alone.                                                *)

(* The bounds of the model are natural numbers. *)
LEMMA Bounds == RetryMax \in Nat /\ MaxOpens \in Nat /\ MaxDrawn \in Nat
BY ChatdAssumption DEF MaxDrawn

(* What most of chatd leaves alone: the phase, the connection, and the     *)
(* slot unless a signalling message is put into it.                        *)
Keeps(d, s, t) ==
    /\ t.phase = s.phase
    /\ t.wsi = s.wsi
    /\ t.pending = s.pending \/ t.pending \in SignalsOf(d)

(* What happens when the connection is closed. *)
Leaves(s, t) ==
    /\ t.wsi = NoConn
    /\ t.phase = s.phase
    /\ t.pending = s.pending
    /\ s.ice.secure => t.ice.secure /\ t.client = s.client

(* Two calls that each leave these alone leave them alone together. *)
LEMMA KeepsTwice ==
    ASSUME NEW d, NEW r, NEW s, NEW t, Keeps(d, r, s), Keeps(d, s, t)
    PROVE  Keeps(d, r, t)
BY DEF Keeps

(* A daemon may have no ICE session. *)
LEMMA NoSessionType == \A d : NoSession \in IceStates(d)
BY DEF NoSession, IceStates

(* The counters start in their range. *)
LEMMA Zero == 0 \in Retries /\ 0 \in Draws
BY Bounds DEF Retries, Draws

(* close_lookup_client frees the CLI and leaves the ICE session. *)
LEMMA CloseLookupClientWell ==
    ASSUME NEW d \in Daemons, NEW n \in Nat, NEW s, Well(d, s, n)
    PROVE  LET t == CloseLookupClient(s) IN
           Well(d, t, n) /\ Keeps(d, s, t) /\ t.client = "none" /\ t.ice = s.ice
<1> DEFINE t == CloseLookupClient(s)
<1> USE DEF CloseLookupClient, DaemonStates, Well
<1>1. t \in DaemonStates(d)
  BY Zero, ZenonT(30)
<1>2. Coherent(t)
  BY DEF Coherent
<1>3. Committed(t) <= n
  BY Bounds DEF Committed, Draws, Retries
<1>4. Keeps(d, s, t) /\ t.client = "none" /\ t.ice = s.ice
  BY DEF Keeps
<1> QED
  BY <1>1, <1>2, <1>3, <1>4

(* write_lookup_response answers the CLI and frees it. *)
LEMMA WriteLookupResponseWell ==
    ASSUME NEW d \in Daemons, NEW n \in Nat, NEW s, Well(d, s, n)
    PROVE  LET t == WriteLookupResponse(s) IN
           Well(d, t, n) /\ Keeps(d, s, t) /\ t.client = "none" /\ t.ice = s.ice
BY CloseLookupClientWell DEF WriteLookupResponse, Keeps

(* CLIENT_CLOSED loses the connection, and only that where a session is secure. *)
LEMMA ClientClosedWell ==
    ASSUME NEW d \in Daemons, NEW n \in Nat, NEW s, Well(d, s, n)
    PROVE  LET t == ClientClosed(s) IN
           /\ Well(d, t, n) /\ t.phase = s.phase /\ t.wsi = NoConn
           /\ t.pending = s.pending
           /\ t.ice = s.ice
           /\ s.ice.secure => t.client = s.client
<1> DEFINE r == [s EXCEPT !.wsi = NoConn, !.connecting = FALSE,
                          !.should_reconnect = TRUE]
<1>1. r \in DaemonStates(d)
  BY ZenonT(30) DEF DaemonStates, Well
<1>2. /\ Well(d, r, n) /\ r.phase = s.phase /\ r.wsi = NoConn
      /\ r.pending = s.pending /\ r.ice = s.ice /\ r.client = s.client
  BY <1>1 DEF DaemonStates, Well, Coherent, Committed
<1> HIDE DEF r
<1>3. LET t == WriteLookupResponse(r) IN
      /\ Well(d, t, n) /\ t.phase = r.phase /\ t.wsi = NoConn
      /\ t.pending = r.pending /\ t.ice = r.ice
  <2>1. WriteLookupResponse(r).pending = r.pending
    BY <1>2 DEF WriteLookupResponse, CloseLookupClient, Well, DaemonStates
  <2> QED
    BY <1>2, <2>1, WriteLookupResponseWell DEF Keeps
<1> QED
  BY <1>2, <1>3 DEF ClientClosed, r

(* queue_json fills an empty slot, or closes the connection. *)
LEMMA QueueJsonWell ==
    ASSUME NEW d \in Daemons, NEW n \in Nat, NEW s, Well(d, s, n),
           NEW m \in Logins(d) \cup SignalsOf(d)
    PROVE  LET t == QueueJson(s, m) IN
           /\ Well(d, t, n) /\ t.phase = s.phase
           /\ \/ t.wsi = s.wsi /\ s.pending = Empty /\ t = [s EXCEPT !.pending = m]
              \/ t.wsi = NoConn /\ s.pending # Empty /\ t = ClientClosed(s)
           /\ t.ice = s.ice
<1>1. [s EXCEPT !.pending = m] \in DaemonStates(d)
  BY DEF Well, DaemonStates
<1>2. Well(d, [s EXCEPT !.pending = m], n)
  BY <1>1 DEF Well, DaemonStates, Coherent, Committed
<1> QED
  BY <1>2, ClientClosedWell DEF QueueJson, Well, DaemonStates

(* reset_ice_session forgets the session and leaves the CLI. *)
LEMMA ResetIceSessionWell ==
    ASSUME NEW d \in Daemons, NEW n \in Nat, NEW s, Well(d, s, n)
    PROVE  LET t == ResetIceSession(s) IN
           /\ Well(d, t, n) /\ Keeps(d, s, t)
           /\ t.ice = NoSession /\ t.client = s.client
           /\ t.session_state = s.session_state
<1> DEFINE t == ResetIceSession(s)
<1>1. t \in DaemonStates(d)
  BY NoSessionType DEF Well, DaemonStates, ResetIceSession
<1>2. Coherent(t) /\ Committed(t) = Committed(s)
  BY DEF Well, DaemonStates, Coherent, Committed, ResetIceSession, NoSession
<1> QED
  BY <1>1, <1>2 DEF Well, DaemonStates, ResetIceSession, Keeps

(* chatd_set_session_state, with a state that is not FAILED. *)
LEMMA SetStateWell ==
    ASSUME NEW d \in Daemons, NEW n \in Nat, NEW s, Well(d, s, n),
           NEW state \in SessionStates \ {"FAILED"}
    PROVE  LET t == [s EXCEPT !.session_state = state] IN
           Well(d, t, n) /\ Keeps(d, s, t) /\ t.ice = s.ice /\ t.client = s.client
<1> DEFINE t == [s EXCEPT !.session_state = state]
<1>1. t \in DaemonStates(d)
  BY DEF Well, DaemonStates
<1>2. Coherent(t) /\ Committed(t) = Committed(s)
  BY DEF Well, DaemonStates, Coherent, Committed
<1> QED
  BY <1>1, <1>2 DEF Well, DaemonStates, Keeps

(* queue_chat_request draws one session id more than were allowed before   *)
(* it.                                                                     *)
LEMMA QueueChatRequestWell ==
    ASSUME NEW d \in Daemons, NEW n \in Nat, n <= MaxDrawn, NEW s,
           s \in DaemonStates(d), Coherent(s), Committed(s) + 1 <= n,
           NEW peer \in Others(d)
    PROVE  LET t == QueueChatRequest(s, peer) IN
           Well(d, t, n) /\ Keeps(d, s, t) /\ (s.pending = Empty => t.client = s.client)
<1> DEFINE id == <<s.username, s.drawn + 1>>
           r == [s EXCEPT !.drawn = @ + 1, !.ice.session_id = id]
           m == Signal(s, "chat_request", peer, id, None)
<1>1. s.drawn \in Nat /\ s.drawn + 1 <= n /\ s.username = d
  BY Bounds DEF DaemonStates, Committed, Draws, Retries
<1>2. s.drawn + 1 \in Draws /\ id \in Ids
  BY <1>1, Bounds DEF Draws, Ids
<1>3. id # None
  BY <1>2, ChatdAssumption
<1> HIDE DEF id
<1>4. [s.ice EXCEPT !.session_id = id] \in IceStates(d)
  BY <1>2 DEF DaemonStates, IceStates
<1>5. r \in DaemonStates(d)
  BY <1>2, <1>4, ZenonT(30) DEF DaemonStates
<1>6. Coherent(r) /\ r.lookup_peer = s.lookup_peer /\ r.retries = s.retries
      /\ r.drawn = s.drawn + 1
  BY <1>3 DEF DaemonStates, IceStates, Coherent
<1>7. Committed(r) <= n
  BY <1>1, <1>6, Bounds DEF DaemonStates, Committed, Retries
<1>8. Well(d, r, n)
  BY <1>5, <1>6, <1>7 DEF Well
<1>9. r.pending = s.pending /\ r.phase = s.phase /\ r.wsi = s.wsi /\ r.client = s.client
  BY DEF DaemonStates
<1>10. m \in SignalsOf(d)
  BY <1>1, <1>2 DEF Signal, SignalsOf, SignalTypes, Bodies
<1> HIDE DEF m, r
<1>11. CASE s.pending = Empty
  <2>1. QueueChatRequest(s, peer) = [r EXCEPT !.pending = m]
    BY <1>11 DEF QueueChatRequest, id, r, m
  <2>2. QueueJson(r, m) = [r EXCEPT !.pending = m]
    BY <1>9, <1>11 DEF QueueJson
  <2>3. Well(d, [r EXCEPT !.pending = m], n)
    BY <1>8, <1>10, <2>2, QueueJsonWell
  <2> QED
    BY <1>5, <1>9, <1>10, <2>1, <2>3 DEF Keeps, DaemonStates
<1>12. CASE s.pending # Empty
  <2>1. QueueChatRequest(s, peer) = WriteLookupResponse(r)
    BY <1>12 DEF QueueChatRequest, id, r
  <2> QED
    BY <1>8, <1>9, <1>12, <2>1, WriteLookupResponseWell DEF Keeps
<1> QED
  BY <1>11, <1>12

(* fail_chat_session, which may ask again: an id it draws was committed. *)
LEMMA FailChatSessionWell ==
    ASSUME NEW d \in Daemons, NEW n \in Nat, n <= MaxDrawn, NEW s, Well(d, s, n)
    PROVE  LET t == FailChatSession(s) IN Well(d, t, n) /\ Keeps(d, s, t)
<1>1. CASE MayRetry(s)
  <2> DEFINE r == [ResetIceSession(s) EXCEPT !.retries = @ + 1,
                                             !.session_state = "REQUESTING"]
  <2>1. s.retries \in Nat /\ s.retries + 1 \in Retries /\ s.lookup_peer \in Others(d)
    BY <1>1, Bounds DEF MayRetry, Well, DaemonStates, Retries
  <2>2. r \in DaemonStates(d)
    BY <2>1, NoSessionType, ZenonT(30) DEF ResetIceSession, Well, DaemonStates, SessionStates
  <2>3. Coherent(r) /\ r.lookup_peer = s.lookup_peer /\ r.drawn = s.drawn
        /\ r.retries = s.retries + 1
    BY DEF ResetIceSession, Well, DaemonStates, Coherent, NoSession
  <2>4. Committed(r) + 1 <= n
    BY <1>1, <2>1, <2>3, Bounds
       DEF MayRetry, Well, DaemonStates, Committed, Draws, Retries
  <2>5. r.phase = s.phase /\ r.wsi = s.wsi /\ r.pending = s.pending
    BY DEF ResetIceSession, Well, DaemonStates
  <2>6. FailChatSession(s) = QueueChatRequest(r, s.lookup_peer)
    BY <1>1 DEF FailChatSession, RetryOutgoingChatSession
  <2> HIDE DEF r
  <2> QED
    BY <2>1, <2>2, <2>3, <2>4, <2>5, <2>6, QueueChatRequestWell DEF Keeps
<1>2. CASE ~MayRetry(s)
  <2> DEFINE r == [s EXCEPT !.session_state = "FAILED"]
             t == ResetIceSession(WriteLookupResponse(r))
  <2>1. FailChatSession(s) = t
    BY <1>2 DEF FailChatSession
  <2>2. t \in DaemonStates(d)
    <3>1. r \in DaemonStates(d)
      BY DEF Well, DaemonStates, SessionStates
    <3>2. CloseLookupClient(r) \in DaemonStates(d)
      BY <3>1, Zero, ZenonT(30) DEF CloseLookupClient, DaemonStates
    <3>3. WriteLookupResponse(r) \in DaemonStates(d)
      BY <3>1, <3>2 DEF WriteLookupResponse
    <3> QED
      BY <3>3, NoSessionType DEF ResetIceSession, DaemonStates
  <2>3. Coherent(t) /\ t.client = "none"
    BY DEF ResetIceSession, WriteLookupResponse, CloseLookupClient, Well,
        DaemonStates, Coherent, NoSession
  <2>4. Committed(t) <= n /\ Keeps(d, s, t)
    BY Bounds DEF ResetIceSession, WriteLookupResponse, CloseLookupClient, Well,
        DaemonStates, Committed, Draws, Retries, Keeps
  <2> QED
    BY <2>1, <2>2, <2>3, <2>4 DEF Well
<1> QED
  BY <1>1, <1>2

(* begin_ice_session, whether its agent starts or not. *)
LEMMA BeginIceSessionWell ==
    ASSUME NEW d \in Daemons, NEW n \in Nat, n <= MaxDrawn, NEW s, Well(d, s, n),
           NEW peer \in Others(d), NEW id \in Ids, NEW controlling \in BOOLEAN,
           NEW started \in BOOLEAN
    PROVE  LET t == BeginIceSession(s, peer, id, controlling, started) IN
           Well(d, t, n) /\ Keeps(d, s, t)
<1> DEFINE ice == [NoSession EXCEPT !.peer = peer, !.session_id = id,
                                    !.controlling = controlling]
           join == [session_id |-> id, peer |-> peer, controlling |-> controlling]
           r == [s EXCEPT !.session_state = "ICE_NEGOTIATING", !.ice = ice,
                          !.joined = @ \cup {join}]
           a == [r EXCEPT !.ice.active = TRUE, !.ice.agent = id]
<1>1. ice \in IceStates(d) /\ ~ice.active /\ ~ice.secure /\ ice.peer = peer
      /\ ice.session_id = id
  BY ZenonT(30) DEF NoSession, IceStates, Others
<1>2. join \in Joins /\ id # None /\ peer # None
  BY ChatdAssumption DEF Joins, Others
<1>3. LET x == [[ice EXCEPT !.active = TRUE] EXCEPT !.agent = id] IN
      x \in IceStates(d) /\ ~x.secure /\ x.peer = peer /\ x.session_id = id /\ x.agent = id
  BY <1>1, ZenonT(30) DEF IceStates
<1> HIDE DEF ice, join
<1>4. r \in DaemonStates(d)
  BY <1>1, <1>2, ZenonT(30) DEF Well, DaemonStates, SessionStates
<1>5. /\ Coherent(r) /\ Committed(r) = Committed(s) /\ Keeps(d, s, r) /\ r.ice = ice
      /\ r.session_state = "ICE_NEGOTIATING"
  BY <1>1 DEF Well, DaemonStates, Coherent, Committed, Keeps
<1>6. Well(d, r, n)
  BY <1>4, <1>5 DEF Well
<1> HIDE DEF r
<1>7. a \in DaemonStates(d)
  BY <1>3, <1>4, <1>5, ZenonT(30) DEF DaemonStates
<1>8. /\ Coherent(a) /\ Committed(a) = Committed(r) /\ Keeps(d, r, a)
  BY <1>2, <1>3, <1>4, <1>5, ZenonT(30) DEF DaemonStates, Coherent, Committed, Keeps
<1>9. Well(d, a, n) /\ Keeps(d, s, a)
  BY <1>5, <1>6, <1>7, <1>8, KeepsTwice DEF Well
<1>10. Well(d, FailChatSession(r), n) /\ Keeps(d, s, FailChatSession(r))
  BY <1>5, <1>6, FailChatSessionWell, KeepsTwice
<1>11. BeginIceSession(s, peer, id, controlling, started) =
         IF started THEN a ELSE FailChatSession(r)
  BY DEF BeginIceSession, a, r, ice, join
<1> QED
  BY <1>9, <1>10, <1>11

(* A change inside ice that keeps the session. *)
LEMMA IceWell ==
    ASSUME NEW d \in Daemons, NEW n \in Nat, NEW s, Well(d, s, n),
           NEW i \in IceStates(d),
           i.active => /\ i.peer # None /\ i.agent # None /\ i.session_id # None,
           i.secure => s.session_state # "FAILED"
    PROVE  LET t == [s EXCEPT !.ice = i] IN
           /\ Well(d, t, n) /\ Keeps(d, s, t) /\ t.ice = i /\ t.client = s.client
           /\ t.session_state = s.session_state
<1> DEFINE t == [s EXCEPT !.ice = i]
<1>1. t \in DaemonStates(d)
  BY DEF Well, DaemonStates
<1>2. Coherent(t) /\ Committed(t) = Committed(s)
  BY DEF Well, DaemonStates, Coherent, Committed
<1> QED
  BY <1>1, <1>2 DEF Well, DaemonStates, Keeps

-----------------------------------------------------------------------------
(* handle_receive.                                                         *)

Relays(d) ==
    [type : SignalTypes, from : Others(d), to : Daemons,
     public_key : Daemons \cup {BadKey}, body : Bodies, origin : Daemons]

(* handle_chat_request, whatever the contact file says and whether an      *)
(* agent starts: it keeps the connection or closes it.                     *)
LEMMA HandleChatRequestWell ==
    ASSUME NEW d \in Daemons, NEW n \in Nat, n <= MaxDrawn, NEW s, Well(d, s, n),
           NEW m \in Relays(d), NEW contact, NEW started \in BOOLEAN
    PROVE  LET t == HandleChatRequest(s, m, contact, started) IN
           Well(d, t, n) /\ (Keeps(d, s, t) \/ Leaves(s, t))
<1> DEFINE r == [s EXCEPT !.session_state = "REQUESTING"]
           id == m.body.session_id
           sig == Signal(s, "chat_accept", m.from, id, None)
           q == QueueJson(r, sig)
<1>1. id \in Ids /\ m.from \in Others(d)
  BY DEF Relays, Bodies
<1>2. sig \in SignalsOf(d)
  BY <1>1 DEF Signal, SignalsOf, SignalTypes, Bodies, Well, DaemonStates
<1> HIDE DEF id, sig
<1>3. Well(d, r, n) /\ Keeps(d, s, r) /\ r.ice = s.ice /\ r.client = s.client
  BY SetStateWell DEF SessionStates
<1>4. r.pending = s.pending
  BY DEF Well, DaemonStates
<1> HIDE DEF r
<1>5. CASE contact # "ok"
  <2>1. HandleChatRequest(s, m, contact, started) = s
    BY <1>5 DEF HandleChatRequest
  <2> QED
    BY <2>1 DEF Keeps
<1>6. CASE contact = "ok" /\ s.pending # Empty
  <2>1. HandleChatRequest(s, m, contact, started) = ClientClosed(r)
    BY <1>6 DEF HandleChatRequest, r
  <2> QED
    BY <1>3, <1>4, <2>1, ClientClosedWell DEF Leaves, Keeps
<1>7. CASE contact = "ok" /\ s.pending = Empty
  <2>1. HandleChatRequest(s, m, contact, started) =
            BeginIceSession(q, m.from, id, FALSE, started)
    BY <1>7 DEF HandleChatRequest, r, q, id, sig
  <2>2. Well(d, q, n) /\ q.phase = r.phase /\ q = [r EXCEPT !.pending = sig]
    BY <1>2, <1>3, <1>4, <1>7, QueueJsonWell
  <2>3. Keeps(d, r, q)
    BY <1>2, <1>3, <2>2 DEF Keeps, Well, DaemonStates
  <2> HIDE DEF q
  <2>4. LET u == BeginIceSession(q, m.from, id, FALSE, started) IN
        Well(d, u, n) /\ Keeps(d, q, u)
    BY <1>1, <2>2, BeginIceSessionWell, ZenonT(30)
  <2>5. LET u == BeginIceSession(q, m.from, id, FALSE, started) IN Keeps(d, s, u)
    BY <1>3, <2>3, <2>4, KeepsTwice, ZenonT(30)
  <2> QED
    BY <2>1, <2>4, <2>5, ZenonT(30)
<1> QED
  BY <1>5, <1>6, <1>7

(* chat_accept never closes the connection. *)
LEMMA HandleChatAcceptWell ==
    ASSUME NEW d \in Daemons, NEW n \in Nat, n <= MaxDrawn, NEW s, Well(d, s, n),
           NEW m \in Relays(d), NEW contact \in {"ok", "mismatch", "error"},
           NEW started \in BOOLEAN
    PROVE  LET t == HandleChatAccept(s, m, contact, started) IN
           Well(d, t, n) /\ Keeps(d, s, t)
<1> DEFINE id == m.body.session_id
           cancel == Signal(s, "chat_cancel", m.from, id, None)
           begun == BeginIceSession(s, m.from, id, TRUE, started)
<1>1. id \in Ids /\ m.from \in Others(d)
  BY DEF Relays, Bodies
<1>2. cancel \in SignalsOf(d)
  BY <1>1 DEF Signal, SignalsOf, SignalTypes, Bodies, Well, DaemonStates
<1> HIDE DEF id, cancel
<1>3. CASE ~AcceptExpected(s, m)
  <2>1. HandleChatAccept(s, m, contact, started) = s
    BY <1>3 DEF HandleChatAccept
  <2> QED
    BY <2>1 DEF Keeps
<1>4. CASE AcceptExpected(s, m) /\ contact = "mismatch"
  <2> DEFINE r == [s EXCEPT !.pending = IF @ = Empty THEN cancel ELSE @]
  <2>1. HandleChatAccept(s, m, contact, started) = WriteLookupResponse(r)
    BY <1>4 DEF HandleChatAccept, cancel, id
  <2>2. r \in DaemonStates(d)
    BY <1>2 DEF Well, DaemonStates
  <2>3. Well(d, r, n) /\ Keeps(d, s, r)
    BY <1>2, <2>2 DEF Well, DaemonStates, Coherent, Committed, Keeps
  <2> HIDE DEF r
  <2> QED
    BY <2>1, <2>3, WriteLookupResponseWell, KeepsTwice
<1>5. CASE AcceptExpected(s, m) /\ contact = "error"
  <2>1. HandleChatAccept(s, m, contact, started) = WriteLookupResponse(s)
    BY <1>5 DEF HandleChatAccept
  <2> QED
    BY <2>1, WriteLookupResponseWell
<1>6. CASE AcceptExpected(s, m) /\ contact = "ok"
  <2>1. HandleChatAccept(s, m, contact, started) =
            IF started THEN begun ELSE WriteLookupResponse(begun)
    BY <1>6 DEF HandleChatAccept, id
  <2>2. Well(d, begun, n) /\ Keeps(d, s, begun)
    BY <1>1, BeginIceSessionWell, ZenonT(30)
  <2> HIDE DEF begun
  <2> QED
    BY <2>1, <2>2, WriteLookupResponseWell, KeepsTwice
<1> QED
  BY <1>3, <1>4, <1>5, <1>6

(* handle_ice_credentials, with an SDP that parses or does not. *)
LEMMA HandleIceCredentialsWell ==
    ASSUME NEW d \in Daemons, NEW n \in Nat, NEW s, Well(d, s, n),
           NEW m \in Relays(d), NEW parsed \in BOOLEAN
    PROVE  LET t == HandleIceCredentials(s, m, parsed) IN
           Well(d, t, n) /\ (Keeps(d, s, t) \/ Leaves(s, t))
<1> DEFINE i == [s.ice EXCEPT !.pending_sdp = m.body.sdp]
           j == [s.ice EXCEPT !.remote = m.body.sdp]
           k == [s.ice EXCEPT !.failed = TRUE]
           Same(x) == /\ x.active = s.ice.active /\ x.peer = s.ice.peer
                      /\ x.agent = s.ice.agent /\ x.session_id = s.ice.session_id
                      /\ x.secure = s.ice.secure
<1>1. s.ice \in IceStates(d) /\ m.body.sdp \in Ids \cup {None}
  BY DEF Well, DaemonStates, Relays, Bodies
<1>2. \A x \in {i, j, k} : x \in IceStates(d) /\ Same(x)
  <2>1. i \in IceStates(d) /\ Same(i)
    BY <1>1 DEF IceStates
  <2>2. j \in IceStates(d) /\ Same(j)
    BY <1>1 DEF IceStates
  <2>3. k \in IceStates(d) /\ Same(k)
    BY <1>1, ZenonT(30) DEF IceStates
  <2> QED
    BY <2>1, <2>2, <2>3, ZenonT(30)
<1>3. \A x \in {i, j, k} :
        /\ x.active => x.peer # None /\ x.agent # None /\ x.session_id # None
        /\ x.secure => s.session_state # "FAILED"
  BY <1>2, ZenonT(30) DEF Well, Coherent
<1> HIDE DEF i, j, k
<1>4. \A x \in {i, j, k} : LET t == [s EXCEPT !.ice = x] IN
      Well(d, t, n) /\ Keeps(d, s, t) /\ t.ice = x /\ t.client = s.client
  BY <1>2, <1>3, IceWell
<1>5. HandleIceCredentials(s, m, parsed) \in
        {s, [s EXCEPT !.ice = i], [s EXCEPT !.ice = j],
         ClientClosed([s EXCEPT !.ice = k])}
  BY DEF HandleIceCredentials, i, j, k
<1> DEFINE r == [s EXCEPT !.ice = k]
<1>6. /\ Well(d, r, n) /\ r.pending = s.pending /\ r.phase = s.phase
      /\ r.client = s.client /\ r.ice.secure = s.ice.secure
  BY <1>2, <1>4 DEF Well, DaemonStates, Keeps
<1> HIDE DEF r
<1>7. LET t == ClientClosed(r) IN Well(d, t, n) /\ Leaves(s, t)
  BY <1>6, ClientClosedWell DEF Leaves
<1>8. Keeps(d, s, s)
  BY DEF Keeps
<1> QED
  BY <1>4, <1>5, <1>7, <1>8 DEF r

(* chat_cancel leaves the connection and the phase. *)
LEMMA HandleChatCancelWell ==
    ASSUME NEW d \in Daemons, NEW n \in Nat, NEW s, Well(d, s, n), NEW m
    PROVE  LET t == HandleChatCancel(s, m) IN Well(d, t, n) /\ Keeps(d, s, t)
<1> DEFINE r == ResetIceSession(s)
<1>1. Well(d, r, n) /\ Keeps(d, s, r)
  BY ResetIceSessionWell
<1> HIDE DEF r
<1>2. LET t == [r EXCEPT !.session_state = "CLOSED"] IN Well(d, t, n) /\ Keeps(d, r, t)
  BY <1>1, SetStateWell DEF SessionStates
<1>3. HandleChatCancel(s, m) \in {s, [r EXCEPT !.session_state = "CLOSED"]}
  BY DEF HandleChatCancel, r
<1> QED
  BY <1>1, <1>2, <1>3, KeepsTwice, ZenonT(30) DEF Keeps

(* A daemon that has not begun anything. *)
Fresh(d, phase, connecting, drawn, joined) ==
    [NewDaemon(d) EXCEPT !.phase = phase, !.connecting = connecting,
                         !.drawn = drawn, !.joined = joined]

(* The state a chatd starts in, with what its predecessors have drawn and  *)
(* joined.                                                                 *)
LEMMA FreshWell ==
    ASSUME NEW d \in Daemons, NEW n \in Nat, NEW phase \in Phases,
           NEW connecting \in BOOLEAN, NEW drawn \in Draws, drawn <= n,
           NEW joined \in SUBSET Joins
    PROVE  LET t == Fresh(d, phase, connecting, drawn, joined) IN
           /\ Well(d, t, n) /\ t.phase = phase /\ t.wsi = NoConn /\ t.pending = Empty
           /\ t.ice = NoSession /\ t.outbox = {}
<1> DEFINE t == Fresh(d, phase, connecting, drawn, joined)
<1>1. t \in DaemonStates(d)
  BY NoSessionType, Zero, ZenonT(30) DEF Fresh, NewDaemon, DaemonStates, SessionStates
<1>2. Coherent(t) /\ Committed(t) <= n
  BY Bounds DEF Fresh, NewDaemon, NoSession, Coherent, Committed, Draws
<1> QED
  BY <1>1, <1>2 DEF Well, Fresh, NewDaemon

(* The state of a chatd that has ended. *)
LEMMA ExitWell ==
    ASSUME NEW d \in Daemons, NEW n \in Nat, NEW s, Well(d, s, n)
    PROVE  LET t == Exit(s) IN
           /\ Well(d, t, n) /\ t.phase = "FAILED" /\ t.wsi = NoConn
           /\ t.pending = Empty /\ t.outbox = {}
<1>1. s.drawn \in Draws /\ s.joined \in SUBSET Joins /\ s.username = d
  BY DEF Well, DaemonStates
<1>2. s.drawn <= n
  BY Bounds DEF Well, DaemonStates, Committed, Draws, Retries
<1>. PICK off \in BOOLEAN : off = FALSE
  BY ZenonT(30)
<1>3. Exit(s) = Fresh(d, "FAILED", off, s.drawn, s.joined)
  BY <1>1, ZenonT(30) DEF Exit, Fresh
<1>4. "FAILED" \in Phases
  BY DEF Phases
<1> QED
  BY <1>1, <1>2, <1>3, <1>4, FreshWell

(* What handle_receive does: the three steps of the login, the end of the  *)
(* process, or something that does not touch the login.                    *)
Greets(d, s, t) ==
    /\ s.phase = "REGISTER" /\ t.phase = "HELLO"
    /\ \/ /\ s.pending = Empty /\ t.wsi = s.wsi
          /\ t.pending = [type |-> "hello", username |-> d]
       \/ t.wsi = NoConn /\ t.pending = s.pending
Answers(d, s, t, c) ==
    /\ s.phase = "HELLO" /\ t.phase = "AUTH_RESPONSE"
    /\ \/ /\ s.pending = Empty /\ t.wsi = s.wsi
          /\ t.pending = [type |-> "auth_response",
                          signature |-> [key |-> d, challenge |-> c]]
       \/ t.wsi = NoConn /\ t.pending = s.pending
Finishes(s, t) ==
    /\ s.phase = "AUTH_RESPONSE" /\ t.phase = "ONLINE"
    /\ t.wsi = s.wsi /\ t.pending = s.pending
Outlives(s, t) ==
    s.ice.secure /\ s.wsi # NoConn /\ t.wsi = NoConn => t.ice.secure /\ t.client = s.client
Ends(t) == t.phase = "FAILED" /\ t.wsi = NoConn /\ t.pending = Empty

(* The phase is changed, and a message of the login queued. *)
LEMMA PhaseWell ==
    ASSUME NEW d \in Daemons, NEW n \in Nat, NEW s, Well(d, s, n),
           NEW phase \in Phases, NEW m \in Logins(d)
    PROVE  LET t == QueueJson([s EXCEPT !.phase = phase], m) IN
           /\ Well(d, t, n) /\ t.phase = phase
           /\ \/ s.pending = Empty /\ t.wsi = s.wsi /\ t.pending = m
              \/ t.wsi = NoConn /\ t.pending = s.pending
           /\ Outlives(s, t)
<1> DEFINE r == [s EXCEPT !.phase = phase]
<1>1. r \in DaemonStates(d)
  BY DEF Well, DaemonStates
<1>2. Well(d, r, n)
  BY <1>1 DEF Well, DaemonStates, Coherent, Committed
<1>3. /\ r.phase = phase /\ r.wsi = s.wsi /\ r.pending = s.pending /\ r.ice = s.ice
      /\ r.client = s.client
  BY DEF Well, DaemonStates
<1> HIDE DEF r
<1> DEFINE t == QueueJson(r, m)
           Goal == /\ Well(d, t, n) /\ t.phase = phase
                   /\ \/ s.pending = Empty /\ t.wsi = s.wsi /\ t.pending = m
                      \/ t.wsi = NoConn /\ t.pending = s.pending
                   /\ Outlives(s, t)
<1>4. ASSUME r.pending = Empty PROVE Goal
  <2>1. t.pending = m /\ t.wsi = r.wsi
    BY <1>1, <1>4 DEF QueueJson, DaemonStates, r
  <2>2. Well(d, t, n) /\ t.phase = r.phase
    BY <1>2, QueueJsonWell
  <2> HIDE DEF t
  <2> QED
    BY <1>3, <1>4, <2>1, <2>2 DEF Outlives
<1>5. ASSUME r.pending # Empty PROVE Goal
  <2>1. t = ClientClosed(r)
    BY <1>5 DEF QueueJson
  <2> HIDE DEF t
  <2>2. /\ Well(d, t, n) /\ t.phase = r.phase /\ t.wsi = NoConn
        /\ t.pending = r.pending /\ t.ice = r.ice
        /\ r.ice.secure => t.client = r.client
    BY <1>2, <2>1, ClientClosedWell
  <2> QED
    BY <1>3, <2>2 DEF Outlives
<1> QED
  BY <1>4, <1>5 DEF r

(* An error from the server: the daemon says hello after all, fails its    *)
(* chat, or ends.                                                          *)
LEMMA HandleErrorWell ==
    ASSUME NEW d \in Daemons, NEW n \in Nat, NEW s, Well(d, s, n), NEW code
    PROVE  LET t == HandleError(s, code) IN
           /\ Well(d, t, n)
           /\ \/ Greets(d, s, t) /\ Outlives(s, t)
              \/ Keeps(d, s, t)
              \/ Ends(t)
<1> DEFINE t == HandleError(s, code)
<1>1. CASE s.phase = "REGISTER" /\ code = "user already exists"
  <2>1. t = QueueJson([s EXCEPT !.phase = "HELLO"], Hello(s))
    BY <1>1, ZenonT(30) DEF HandleError
  <2>2. Hello(s) = [type |-> "hello", username |-> d] /\ Hello(s) \in Logins(d)
        /\ "HELLO" \in Phases
    BY DEF Hello, Logins, Well, DaemonStates, Phases
  <2> HIDE DEF t
  <2>3. /\ Well(d, t, n) /\ t.phase = "HELLO"
        /\ \/ s.pending = Empty /\ t.wsi = s.wsi /\ t.pending = Hello(s)
           \/ t.wsi = NoConn /\ t.pending = s.pending
        /\ Outlives(s, t)
    BY <2>1, <2>2, PhaseWell
  <2>4. Greets(d, s, t)
    BY <1>1, <2>2, <2>3, ZenonT(30) DEF Greets
  <2> QED
    BY <2>3, <2>4 DEF t
<1>2. CASE /\ ~(s.phase = "REGISTER" /\ code = "user already exists")
           /\ s.client # "none" /\ code = "peer_offline"
  <2>1. HandleError(s, code) = WriteLookupResponse(s)
    BY <1>2 DEF HandleError
  <2> QED
    BY <2>1, WriteLookupResponseWell
<1>3. CASE /\ ~(s.phase = "REGISTER" /\ code = "user already exists")
           /\ ~(s.client # "none" /\ code = "peer_offline")
  <2>1. HandleError(s, code) = Exit(s)
    BY <1>3, ZenonT(30) DEF HandleError
  <2> QED
    BY <2>1, ExitWell DEF Ends
<1> QED
  BY <1>1, <1>2, <1>3, ZenonT(30)

(* What handle_receive makes of a message. *)
Handled(d, s, m, t) ==
    \/ Keeps(d, s, t)
    \/ Leaves(s, t)
    \/ Ends(t)
    \/ Greets(d, s, t) /\ Outlives(s, t) /\ m.type \in {"error", "register_ok"}
    \/ /\ m.type = "auth_challenge" /\ Answers(d, s, t, m.challenge)
       /\ Outlives(s, t)
    \/ m.type = "auth_ok" /\ Finishes(s, t)

(* handle_receive, for every message the server may send. *)
LEMMA HandleReceiveWell ==
    ASSUME NEW d \in Daemons, NEW n \in Nat, n <= MaxDrawn, NEW s, Well(d, s, n),
           NEW m, m.type \in SignalTypes => m \in Relays(d),
           m.type = "auth_challenge" => m.challenge \in 0 .. MaxChallenges,
           NEW env \in Environments
    PROVE  LET t == HandleReceive(s, m, env) IN Well(d, t, n) /\ Handled(d, s, m, t)
<1> DEFINE t == HandleReceive(s, m, env)
           Goal == Well(d, t, n) /\ Handled(d, s, m, t)
<1>1. env.contact \in {"ok", "mismatch", "error"} /\ env.ice \in BOOLEAN
  BY ZenonT(30) DEF Environments
<1>2. ASSUME m.type = "error" PROVE Goal
  <2>1. t = HandleError(s, m.code)
    BY <1>2 DEF HandleReceive
  <2> HIDE DEF t
  <2> QED
    BY <1>2, <2>1, HandleErrorWell DEF Handled
<1>3. ASSUME m.type = "register_ok", s.phase = "REGISTER" PROVE Goal
  <2>1. t = QueueJson([s EXCEPT !.phase = "HELLO"], Hello(s))
    BY <1>3 DEF HandleReceive
  <2> HIDE DEF t
  <2>2. Hello(s) = [type |-> "hello", username |-> d] /\ Hello(s) \in Logins(d)
        /\ "HELLO" \in Phases
    BY DEF Hello, Logins, Well, DaemonStates, Phases
  <2> QED
    BY <1>3, <2>1, <2>2, PhaseWell DEF Greets, Handled
<1>4. ASSUME m.type = "auth_challenge", s.phase = "HELLO" PROVE Goal
  <2> DEFINE answer == AuthResponse(s, m.challenge)
  <2>1. t = QueueJson([s EXCEPT !.phase = "AUTH_RESPONSE"], answer)
    BY <1>4 DEF HandleReceive, HandleAuthChallenge
  <2> HIDE DEF t
  <2>2. /\ answer = [type |-> "auth_response",
                     signature |-> [key |-> d, challenge |-> m.challenge]]
        /\ answer \in Logins(d) /\ "AUTH_RESPONSE" \in Phases
    BY <1>4 DEF AuthResponse, Logins, Well, DaemonStates, Phases
  <2> QED
    BY <1>4, <2>1, <2>2, PhaseWell DEF Answers, Handled
<1>5. ASSUME m.type = "auth_ok", s.phase = "AUTH_RESPONSE" PROVE Goal
  <2>1. t = [s EXCEPT !.phase = "ONLINE"]
    BY <1>5 DEF HandleReceive
  <2> HIDE DEF t
  <2>2. t \in DaemonStates(d)
    BY <2>1 DEF Well, DaemonStates, Phases
  <2>3. Coherent(t) /\ Committed(t) <= n /\ Finishes(s, t)
    BY <1>5, <2>1 DEF Well, DaemonStates, Coherent, Committed, Finishes
  <2> QED
    BY <1>5, <2>2, <2>3 DEF Well, Handled
<1>6. ASSUME m.type = "chat_request" PROVE Goal
  <2>1. t = HandleChatRequest(s, m, env.contact, env.ice)
    BY <1>6 DEF HandleReceive
  <2> HIDE DEF t
  <2>2. m \in Relays(d)
    BY <1>6 DEF SignalTypes
  <2> QED
    BY <1>1, <2>1, <2>2, HandleChatRequestWell DEF Handled
<1>7. ASSUME m.type = "chat_accept" PROVE Goal
  <2>1. t = HandleChatAccept(s, m, env.contact, env.ice)
    BY <1>7 DEF HandleReceive
  <2> HIDE DEF t
  <2>2. m \in Relays(d)
    BY <1>7 DEF SignalTypes
  <2> QED
    BY <1>1, <2>1, <2>2, HandleChatAcceptWell DEF Handled
<1>8. ASSUME m.type = "ice_credentials" PROVE Goal
  <2>1. t = HandleIceCredentials(s, m, env.ice)
    BY <1>8 DEF HandleReceive
  <2> HIDE DEF t
  <2>2. m \in Relays(d)
    BY <1>8 DEF SignalTypes
  <2> QED
    BY <1>1, <2>1, <2>2, HandleIceCredentialsWell DEF Handled
<1>9. ASSUME m.type = "chat_cancel" PROVE Goal
  <2>1. t = HandleChatCancel(s, m)
    BY <1>9 DEF HandleReceive
  <2> HIDE DEF t
  <2> QED
    BY <2>1, HandleChatCancelWell DEF Handled
<1>10. ASSUME /\ m.type \notin {"error", "chat_request", "chat_accept",
                                "ice_credentials", "chat_cancel"}
              /\ ~(m.type = "register_ok" /\ s.phase = "REGISTER")
              /\ ~(m.type = "auth_challenge" /\ s.phase = "HELLO")
              /\ ~(m.type = "auth_ok" /\ s.phase = "AUTH_RESPONSE")
       PROVE Goal
  <2>1. t = s
    BY <1>10 DEF HandleReceive
  <2> HIDE DEF t
  <2> QED
    BY <2>1 DEF Handled, Keeps
<1> QED
  BY <1>2, <1>3, <1>4, <1>5, <1>6, <1>7, <1>8, <1>9, <1>10

-----------------------------------------------------------------------------
(* service_ice_session.                                                    *)

(* A packet handed to the ICE agent leaves the rest alone. *)
LEMMA SendIcePacketWell ==
    ASSUME NEW d \in Daemons, NEW n \in Nat, NEW s, Well(d, s, n), NEW p \in Packets
    PROVE  LET t == SendIcePacket(s, p) IN Well(d, t, n) /\ Keeps(d, s, t)
<1> DEFINE x == [to |-> s.ice.peer, agent |-> s.ice.remote, packet |-> p]
           t == [s EXCEPT !.outbox = @ \cup {x}]
<1>1. x \in Outgoing
  BY DEF Well, DaemonStates, IceStates, Outgoing, Others
<1> HIDE DEF x
<1>2. t \in DaemonStates(d)
  BY <1>1 DEF Well, DaemonStates
<1>3. Coherent(t) /\ Committed(t) = Committed(s) /\ Keeps(d, s, t)
  BY DEF Well, DaemonStates, Coherent, Committed, Keeps
<1> QED
  BY <1>2, <1>3 DEF Well, SendIcePacket, x

(* start_crypto_handshake leaves the connection and the phase. *)
LEMMA StartCryptoHandshakeWell ==
    ASSUME NEW d \in Daemons, NEW n \in Nat, NEW s, Well(d, s, n)
    PROVE  LET t == StartCryptoHandshake(s) IN Well(d, t, n) /\ Keeps(d, s, t)
<1> DEFINE i == [s.ice EXCEPT !.signed = IF @ = None THEN s.ice.session_id ELSE @]
           a == [s EXCEPT !.session_state = "CRYPTO_HANDSHAKE"]
           b == [a EXCEPT !.ice = i]
           c == [s EXCEPT !.session_state = "CRYPTO_HANDSHAKE",
                          !.ice.signed = IF @ = None THEN s.ice.session_id ELSE @]
<1>1. Well(d, a, n) /\ Keeps(d, s, a) /\ a.ice = s.ice
  BY SetStateWell DEF SessionStates
<1>2. a.session_state = "CRYPTO_HANDSHAKE"
  BY DEF Well, DaemonStates
<1>3. i \in IceStates(d)
  BY DEF Well, DaemonStates, IceStates
<1>4. i.active => i.peer # None /\ i.agent # None /\ i.session_id # None
  BY DEF Well, DaemonStates, IceStates, Coherent
<1>5. c = b
  BY DEF Well, DaemonStates
<1> HIDE DEF a, i, c
<1>6. Well(d, b, n) /\ Keeps(d, a, b)
  BY <1>1, <1>2, <1>3, <1>4, IceWell
<1> HIDE DEF b
<1>7. HandshakePacket(b) \in Packets
  BY <1>6 DEF HandshakePacket, Packets, Well, DaemonStates, IceStates
<1>8. LET t == SendIcePacket(b, HandshakePacket(b)) IN
      Well(d, t, n) /\ Keeps(d, b, t)
  BY <1>6, <1>7, SendIcePacketWell
<1>9. StartCryptoHandshake(s) = SendIcePacket(b, HandshakePacket(b))
  BY <1>5 DEF StartCryptoHandshake, c
<1> QED
  BY <1>1, <1>6, <1>8, <1>9, KeepsTwice

(* handle_ice_app_packet, for every packet of a peer. *)
LEMMA HandleIceAppPacketWell ==
    ASSUME NEW d \in Daemons, NEW n \in Nat, NEW s, Well(d, s, n),
           NEW p \in Packets \cup {NoPacket}
    PROVE  LET t == HandleIceAppPacket(s, p) IN Well(d, t, n) /\ Keeps(d, s, t)
<1> DEFINE i == [s.ice EXCEPT !.keys_ready = TRUE]
           j == [s.ice EXCEPT !.header_received = @ \/ s.ice.keys_ready]
           w == WriteLookupResponse(s)
           r == ResetIceSession(w)
           t == HandleIceAppPacket(s, p)
<1>1. p.type \in {"HANDSHAKE", "STREAM_HEADER", "CLOSE", "none"}
  BY DEF Packets, HeaderPacket, ClosePacket, NoPacket
<1>2. CASE p.type = "HANDSHAKE"
  <2>1. t = [s EXCEPT !.ice = i]
    BY <1>2 DEF HandleIceAppPacket
  <2>2. /\ i \in IceStates(d)
        /\ i.active => i.peer # None /\ i.agent # None /\ i.session_id # None
        /\ i.secure => s.session_state # "FAILED"
    BY ZenonT(30) DEF Well, DaemonStates, IceStates, Coherent
  <2> HIDE DEF i, t
  <2>3. Well(d, t, n) /\ Keeps(d, s, t)
    BY <2>1, <2>2, IceWell
  <2> QED
    BY <2>3 DEF t
<1>3. CASE p.type = "STREAM_HEADER"
  <2>1. t = [s EXCEPT !.ice = j]
    BY <1>3 DEF HandleIceAppPacket
  <2>2. /\ j \in IceStates(d)
        /\ j.active => j.peer # None /\ j.agent # None /\ j.session_id # None
        /\ j.secure => s.session_state # "FAILED"
    BY DEF Well, DaemonStates, IceStates, Coherent
  <2> HIDE DEF j, t
  <2>3. Well(d, t, n) /\ Keeps(d, s, t)
    BY <2>1, <2>2, IceWell
  <2> QED
    BY <2>3 DEF t
<1>4. CASE p.type = "CLOSE"
  <2>1. t = [r EXCEPT !.session_state = "CLOSED"]
    BY <1>4 DEF HandleIceAppPacket
  <2>2. Well(d, w, n) /\ Keeps(d, s, w)
    BY WriteLookupResponseWell
  <2> HIDE DEF w
  <2>3. Well(d, r, n) /\ Keeps(d, w, r)
    BY <2>2, ResetIceSessionWell
  <2> HIDE DEF r, t
  <2>4. Well(d, t, n) /\ Keeps(d, r, t)
    BY <2>1, <2>3, SetStateWell DEF SessionStates
  <2> QED
    BY <2>2, <2>3, <2>4, KeepsTwice DEF t
<1>5. CASE p.type = "none"
  <2>1. t = s
    BY <1>5 DEF HandleIceAppPacket
  <2> QED
    BY <2>1 DEF Keeps
<1> QED
  BY <1>1, <1>2, <1>3, <1>4, <1>5

(* The session becomes secure, and is not FAILED then. *)
LEMMA EstablishWell ==
    ASSUME NEW d \in Daemons, NEW n \in Nat, NEW s, Well(d, s, n)
    PROVE  LET t == Establish(s) IN Well(d, t, n) /\ Keeps(d, s, t)
<1> DEFINE i == [s.ice EXCEPT !.secure = TRUE]
           r == [s EXCEPT !.ice.secure = TRUE, !.session_state = "SECURE",
                          !.client = IF @ = "waiting" THEN "chatting" ELSE @]
           u == [s EXCEPT !.ice = i, !.session_state = "SECURE",
                          !.client = IF @ = "waiting" THEN "chatting" ELSE @]
<1>1. i \in IceStates(d)
  BY ZenonT(30) DEF Well, DaemonStates, IceStates
<1>2. i.active => i.peer # None /\ i.agent # None /\ i.session_id # None
  BY DEF Well, DaemonStates, IceStates, Coherent
<1>3. r = u
  BY DEF Well, DaemonStates
<1> HIDE DEF i, r
<1>4. u \in DaemonStates(d)
  BY <1>1, ZenonT(30) DEF Well, DaemonStates, SessionStates
<1>5. Coherent(u) /\ Committed(u) = Committed(s) /\ Keeps(d, s, u)
  BY <1>2 DEF Well, DaemonStates, Coherent, Committed, Keeps
<1>6. Well(d, u, n)
  BY <1>4, <1>5 DEF Well
<1>7. Establish(s) \in {s, u}
  BY <1>3 DEF Establish, r
<1> HIDE DEF u
<1> QED
  BY <1>5, <1>6, <1>7 DEF Keeps

(* service_crypto_session, for every two packets that it reads. *)
LEMMA ServiceCryptoSessionWell ==
    ASSUME NEW d \in Daemons, NEW n \in Nat, n <= MaxDrawn, NEW s, Well(d, s, n),
           NEW again, NEW p \in Packets \cup {NoPacket}, NEW q \in Packets \cup {NoPacket}
    PROVE  LET t == ServiceCryptoSession(s, again, p, q) IN
           Well(d, t, n) /\ Keeps(d, s, t)
<1> DEFINE a == IF s.ice.signed = None \/ (again /\ ~s.ice.header_received)
                THEN StartCryptoHandshake(s) ELSE s
           b == HandleIceAppPacket(a, p)
           c == IF b.ice.keys_ready THEN SendIcePacket(b, HeaderPacket) ELSE b
           e == HandleIceAppPacket(c, q)
           Fine(t) == Well(d, t, n) /\ Keeps(d, s, t)
<1>1. Fine(s)
  BY DEF Keeps
<1>2. Fine(a)
  BY <1>1, StartCryptoHandshakeWell
<1>3. HeaderPacket \in Packets
  BY DEF Packets
<1> HIDE DEF a
<1>4. Fine(b)
  BY <1>2, HandleIceAppPacketWell, KeepsTwice
<1> HIDE DEF b
<1>5. Fine(c)
  BY <1>3, <1>4, SendIcePacketWell, KeepsTwice
<1> HIDE DEF c
<1>6. Fine(e)
  BY <1>5, HandleIceAppPacketWell, KeepsTwice
<1>7. Fine(FailChatSession(s)) /\ Fine(FailChatSession(a)) /\ Fine(FailChatSession(c))
  BY <1>1, <1>2, <1>5, FailChatSessionWell, KeepsTwice
<1>8. Fine(HandleIceAppPacket(s, p))
  BY <1>1, HandleIceAppPacketWell
<1> HIDE DEF e
<1>9. Fine(Establish(e))
  BY <1>6, EstablishWell, KeepsTwice
<1>10. ServiceCryptoSession(s, again, p, q) \in
         {FailChatSession(s), HandleIceAppPacket(s, p), FailChatSession(a),
          FailChatSession(c), Establish(e)}
  BY DEF ServiceCryptoSession, a, b, c, e
<1> QED
  BY <1>7, <1>8, <1>9, <1>10

(* What the passes do to ice before the session is served. *)
Tended(d, s, n, t) ==
    /\ Well(d, t, n) /\ Keeps(d, s, t)
    /\ t.ice.active = s.ice.active

(* Two parts of service_ice_session in a row. *)
LEMMA TendedTwice ==
    ASSUME NEW d, NEW n, NEW r, NEW s, NEW t, Tended(d, r, n, s), Tended(d, s, n, t)
    PROVE  Tended(d, r, n, t)
BY KeepsTwice DEF Tended

(* The callbacks of libnice set flags. *)
LEMMA FlagsIn ==
    ASSUME NEW d, NEW i \in IceStates(d),
           NEW done \in BOOLEAN, NEW ready \in BOOLEAN, NEW failed \in BOOLEAN
    PROVE  [i EXCEPT !.gathering_done = done, !.ready = ready, !.failed = failed]
                \in IceStates(d)
BY ZenonT(30) DEF IceStates

(* The callbacks that run while the agent is polled. *)
LEMMA PolledWell ==
    ASSUME NEW d \in Daemons, NEW n \in Nat, NEW s, Well(d, s, n), NEW callback
    PROVE  Tended(d, s, n, Polled(s, callback))
<1>1. s.ice \in IceStates(d)
  BY DEF Well, DaemonStates
<1>a. PICK done \in BOOLEAN : done = (s.ice.gathering_done \/ callback = "gathering_done")
  BY Zenon
<1>b. PICK ready \in BOOLEAN : ready = (s.ice.ready \/ callback = "ready")
  BY Zenon
<1>c. PICK failed \in BOOLEAN : failed = (s.ice.failed \/ callback = "failed")
  BY Zenon
<1> DEFINE i == [s.ice EXCEPT !.gathering_done = done, !.ready = ready,
                              !.failed = failed]
<1>2. i \in IceStates(d)
  BY <1>1, FlagsIn, ZenonT(30)
<1>3. /\ i.active = s.ice.active /\ i.secure = s.ice.secure /\ i.peer = s.ice.peer
      /\ i.agent = s.ice.agent /\ i.session_id = s.ice.session_id
  BY <1>1 DEF IceStates
<1>4. /\ i.active => i.peer # None /\ i.agent # None /\ i.session_id # None
      /\ i.secure => s.session_state # "FAILED"
  BY <1>3 DEF Well, Coherent
<1>5. Polled(s, callback) = [s EXCEPT !.ice = i]
  BY <1>a, <1>b, <1>c, Zenon DEF Polled
<1> HIDE DEF i
<1> QED
  BY <1>2, <1>3, <1>4, <1>5, IceWell DEF Tended

(* apply_remote_ice_sdp hands the peer's description to the agent. *)
LEMMA ApplyPendingSdpWell ==
    ASSUME NEW d \in Daemons, NEW n \in Nat, NEW s, Well(d, s, n)
    PROVE  Tended(d, s, n, ApplyPendingSdp(s))
<1> DEFINE i == [s.ice EXCEPT !.remote = s.ice.pending_sdp, !.pending_sdp = None]
<1>1. s.ice \in IceStates(d)
  BY DEF Well, DaemonStates
<1>2. i \in IceStates(d)
  BY <1>1, ZenonT(30) DEF IceStates
<1>3. /\ i.active = s.ice.active /\ i.secure = s.ice.secure /\ i.peer = s.ice.peer
      /\ i.agent = s.ice.agent /\ i.session_id = s.ice.session_id
  BY <1>1 DEF IceStates
<1>4. /\ i.active => i.peer # None /\ i.agent # None /\ i.session_id # None
      /\ i.secure => s.session_state # "FAILED"
  BY <1>3 DEF Well, Coherent
<1>5. ApplyPendingSdp(s) \in {s, [s EXCEPT !.ice = i]}
  BY ZenonT(30) DEF ApplyPendingSdp, Well, DaemonStates, IceStates
<1> HIDE DEF i
<1>6. Tended(d, s, n, [s EXCEPT !.ice = i])
  BY <1>2, <1>3, <1>4, IceWell DEF Tended
<1>7. Tended(d, s, n, s)
  BY DEF Tended, Keeps
<1> QED
  BY <1>5, <1>6, <1>7

(* queue_local_ice_sdp sends this side's description. *)
LEMMA QueueLocalIceSdpWell ==
    ASSUME NEW d \in Daemons, NEW n \in Nat, NEW s, Well(d, s, n), s.ice.active
    PROVE  Tended(d, s, n, QueueLocalIceSdp(s))
<1> DEFINE i == [s.ice EXCEPT !.sdp_sent = TRUE]
           m == Signal(s, "ice_credentials", s.ice.peer, s.ice.session_id, s.ice.agent)
           r == [s EXCEPT !.ice = i]
           t == [r EXCEPT !.pending = m]
<1>1. s.ice \in IceStates(d) /\ s.username = d
  BY DEF Well, DaemonStates
<1>2. i \in IceStates(d)
  BY <1>1, ZenonT(30) DEF IceStates
<1>3. /\ i.active = s.ice.active /\ i.secure = s.ice.secure /\ i.peer = s.ice.peer
      /\ i.agent = s.ice.agent /\ i.session_id = s.ice.session_id
  BY <1>1, ZenonT(30) DEF IceStates
<1>4. /\ i.active => i.peer # None /\ i.agent # None /\ i.session_id # None
      /\ i.secure => s.session_state # "FAILED"
  BY <1>3 DEF Well, Coherent
<1>5. m \in SignalsOf(d)
  <2>1. s.ice.peer \in Others(d) /\ s.ice.session_id \in Ids /\ s.ice.agent \in Ids
    BY <1>1 DEF IceStates, Well, Coherent
  <2> QED
    BY <1>1, <2>1 DEF Signal, SignalsOf, SignalTypes, Bodies
<1>6. QueueLocalIceSdp(s) \in {s, t}
  BY DEF QueueLocalIceSdp, Well, DaemonStates, IceStates
<1> HIDE DEF i, m
<1>7. Well(d, r, n) /\ Keeps(d, s, r) /\ r.ice = i
  BY <1>2, <1>3, <1>4, IceWell
<1> HIDE DEF r
<1>8. t \in DaemonStates(d)
  BY <1>5, <1>7 DEF Well, DaemonStates
<1>9. Tended(d, r, n, t)
  BY <1>5, <1>7, <1>8 DEF Tended, Well, DaemonStates, Coherent, Committed, Keeps
<1>10. Tended(d, s, n, r) /\ Tended(d, s, n, s)
  BY <1>3, <1>7, ZenonT(30) DEF Tended, Keeps
<1> HIDE DEF t
<1> QED
  BY <1>6, <1>9, <1>10, TendedTwice

(* The CLI is told that the session is ready. *)
LEMMA NotifiedWell ==
    ASSUME NEW d \in Daemons, NEW n \in Nat, NEW s, Well(d, s, n)
    PROVE  Well(d, Notified(s), n) /\ Keeps(d, s, Notified(s))
<1> DEFINE i == [s.ice EXCEPT !.notified = TRUE]
           r == [s EXCEPT !.ice = i]
           t == [r EXCEPT !.session_state = "ICE_CONNECTED"]
<1>1. s.ice \in IceStates(d)
  BY DEF Well, DaemonStates
<1>2. i \in IceStates(d)
  BY <1>1, ZenonT(30) DEF IceStates
<1>3. /\ i.active => i.peer # None /\ i.agent # None /\ i.session_id # None
      /\ i.secure => s.session_state # "FAILED"
  BY <1>1 DEF Well, Coherent, IceStates
<1>4. Notified(s) \in {s, t}
  BY DEF Notified, Well, DaemonStates, IceStates
<1> HIDE DEF i
<1>5. Well(d, r, n) /\ Keeps(d, s, r)
  BY <1>2, <1>3, IceWell
<1> HIDE DEF r
<1>6. Well(d, t, n) /\ Keeps(d, r, t)
  BY <1>5, SetStateWell DEF SessionStates
<1>7. Keeps(d, s, s)
  BY DEF Keeps
<1> HIDE DEF t
<1> QED
  BY <1>4, <1>5, <1>6, <1>7, KeepsTwice

(* service_ice_session, one pass of the daemon's loop. *)
LEMMA ServiceIceSessionWell ==
    ASSUME NEW d \in Daemons, NEW n \in Nat, n <= MaxDrawn, NEW s, Well(d, s, n),
           s.ice.active, NEW pass,
           pass.p \in Packets \cup {NoPacket}, pass.q \in Packets \cup {NoPacket}
    PROVE  LET t == ServiceIceSession(s, pass) IN Well(d, t, n) /\ Keeps(d, s, t)
<1> DEFINE polled == Polled(s, pass.callback)
           applied == ApplyPendingSdp(polled)
           queued == QueueLocalIceSdp(applied)
           served == ServiceCryptoSession(Notified(queued), pass.again, pass.p, pass.q)
           Fine(t) == Well(d, t, n) /\ Keeps(d, s, t)
<1>1. Tended(d, s, n, polled)
  BY PolledWell
<1> HIDE DEF polled
<1>2. Tended(d, s, n, applied)
  BY <1>1, ApplyPendingSdpWell, TendedTwice, ZenonT(30) DEF Tended
<1> HIDE DEF applied
<1>3. applied.ice.active /\ Well(d, applied, n)
  BY <1>2 DEF Tended
<1>4. Tended(d, s, n, queued)
  BY <1>2, <1>3, QueueLocalIceSdpWell, TendedTwice
<1> HIDE DEF queued
<1>5. Fine(polled) /\ Fine(applied) /\ Fine(queued)
  BY <1>1, <1>2, <1>4 DEF Tended
<1>6. Fine(FailChatSession(polled)) /\ Fine(FailChatSession(applied))
      /\ Fine(FailChatSession(queued))
  BY <1>5, FailChatSessionWell, KeepsTwice
<1>7. Fine(Notified(queued))
  BY <1>5, NotifiedWell, KeepsTwice
<1>8. Fine(served)
  BY <1>7, ServiceCryptoSessionWell, KeepsTwice
<1>9. ServiceIceSession(s, pass) \in
        {FailChatSession(polled), FailChatSession(applied), FailChatSession(queued),
         served, queued}
  BY DEF ServiceIceSession, polled, applied, queued
<1> QED
  BY <1>5, <1>6, <1>8, <1>9

-----------------------------------------------------------------------------
(* The actions of one daemon.  Packets may arrive at any of them.          *)

(* What the arrival of packets leaves alone. *)
Alike(s, t) ==
    /\ t.phase = s.phase /\ t.wsi = s.wsi /\ t.pending = s.pending
    /\ t.connecting = s.connecting
    /\ t.session_state = s.session_state /\ t.client = s.client
    /\ t.ice.secure = s.ice.secure

(* Packets that arrive change the inbox of an ICE session at most. *)
LEMMA ArriveWell ==
    ASSUME NEW d \in Daemons, NEW n \in Nat, NEW s, Well(d, s, n),
           NEW sent \in SUBSET Outgoing
    PROVE  LET t == Arrive(s, sent) IN
           /\ Well(d, t, n) /\ Alike(s, t) /\ t.outbox = s.outbox
           /\ sent = {} => t = s
<1> DEFINE in == {x.packet : x \in {y \in sent : /\ s.ice.active
                                                 /\ y.to = s.username
                                                 /\ y.agent = s.ice.agent}}
           box == s.ice.inbox \cup in
           i == [s.ice EXCEPT !.inbox = box]
           t == [s EXCEPT !.ice = i]
<1>1. s.ice \in IceStates(d) /\ s.ice.inbox \in SUBSET Packets
  BY DEF Well, DaemonStates, IceStates
<1>2. in \in SUBSET Packets
  BY DEF Outgoing
<1>3. Arrive(s, sent) = t
  BY DEF Arrive
<1>4. sent = {} => in = {}
  OBVIOUS
<1> HIDE DEF in
<1>5. box \in SUBSET Packets /\ (sent = {} => box = s.ice.inbox)
  BY <1>1, <1>2, <1>4
<1> HIDE DEF box
<1>6. i \in IceStates(d)
  BY <1>1, <1>5 DEF IceStates
<1>7. /\ i.active => i.peer # None /\ i.agent # None /\ i.session_id # None
      /\ i.secure = s.ice.secure
      /\ i.secure => s.session_state # "FAILED"
  BY <1>1 DEF Well, Coherent, IceStates
<1>8. sent = {} => i = s.ice
  BY <1>1, <1>5 DEF IceStates
<1> HIDE DEF i
<1>9. Well(d, t, n) /\ Keeps(d, s, t) /\ t.ice = i
  BY <1>6, <1>7, IceWell
<1>10. t.outbox = s.outbox /\ Alike(s, t)
  BY <1>7, <1>9 DEF Well, DaemonStates, Alike
<1>11. sent = {} => t = s
  BY <1>8 DEF Well, DaemonStates
<1> QED
  BY <1>3, <1>9, <1>10, <1>11

(* The outbox is emptied at the end of a step. *)
LEMMA EmptyOutbox ==
    ASSUME NEW d \in Daemons, NEW n \in Nat, NEW s, Well(d, s, n)
    PROVE  LET t == [s EXCEPT !.outbox = {}] IN
           /\ Well(d, t, n) /\ Alike(s, t) /\ t.outbox = {} /\ (s.outbox = {} => t = s)
<1> DEFINE t == [s EXCEPT !.outbox = {}]
<1>1. t \in DaemonStates(d)
  BY DEF Well, DaemonStates
<1>2. Coherent(t) /\ Committed(t) = Committed(s) /\ Alike(s, t) /\ t.outbox = {}
  BY DEF Well, DaemonStates, Coherent, Committed, Alike
<1>3. s.outbox = {} => t = s
  BY DEF Well, DaemonStates
<1> QED
  BY <1>1, <1>2, <1>3 DEF Well

(* A daemon takes its step, and its packets arrive at the others. *)
LEMMA BecomeWell ==
    ASSUME NEW N, NEW M, ChatdOK(chatd, N), NEW d \in Daemons, NEW s,
           \A x \in Daemons : N[x] \in Nat /\ M[x] \in Nat /\ N[x] <= M[x],
           Well(d, s, M[d]), Become(d, s)
    PROVE  /\ ChatdOK(chatd', M)
           /\ Alike(s, chatd'[d])
           /\ \A x \in Daemons \ {d} : Alike(chatd[x], chatd'[x])
           /\ s.outbox = {} => chatd'[d] = s
<1> DEFINE u == [s EXCEPT !.outbox = {}]
           sent == s.outbox
           new(x) == Arrive(IF x = d THEN u ELSE chatd[x], sent)
<1>1. sent \in SUBSET Outgoing
  BY DEF Well, DaemonStates
<1>2. chatd' = [x \in Daemons |-> new(x)]
  BY DEF Become
<1>3. /\ Well(d, u, M[d]) /\ Alike(s, u) /\ u.outbox = {} /\ (s.outbox = {} => u = s)
  BY EmptyOutbox
<1> HIDE DEF u, sent
<1>4. /\ Well(d, new(d), M[d]) /\ Alike(u, new(d)) /\ new(d).outbox = {}
      /\ s.outbox = {} => new(d) = s
  BY <1>1, <1>3, ArriveWell DEF sent
<1>5. ASSUME NEW x \in Daemons, x # d
      PROVE  /\ Well(x, new(x), M[x]) /\ Alike(chatd[x], new(x))
             /\ new(x).outbox = {}
  <2>1. Well(x, chatd[x], N[x]) /\ chatd[x].outbox = {}
    BY DEF ChatdOK
  <2>2. Well(x, chatd[x], M[x])
    <3>1. Committed(chatd[x]) \in Int
      BY <2>1, Bounds DEF Well, DaemonStates, Committed, Draws, Retries
    <3> QED
      BY <2>1, <3>1 DEF Well
  <2>3. new(x) = Arrive(chatd[x], sent)
    BY <1>5
  <2> HIDE DEF new
  <2> QED
    BY <1>1, <2>1, <2>2, <2>3, ArriveWell
<1> HIDE DEF new
<1>6. \A x \in Daemons : chatd'[x] = new(x)
  BY <1>2
<1>7. ChatdOK(chatd', M)
  <2>1. chatd' = [x \in Daemons |-> chatd'[x]]
    BY <1>2
  <2>2. \A x \in Daemons : Well(x, chatd'[x], M[x]) /\ chatd'[x].outbox = {}
    BY <1>4, <1>5, <1>6
  <2> QED
    BY <2>1, <2>2 DEF ChatdOK
<1>8. Alike(s, chatd'[d])
  BY <1>3, <1>4, <1>6 DEF Alike
<1> QED
  BY <1>4, <1>5, <1>6, <1>7, <1>8

Allowed(N) == \A d \in Daemons : N[d] \in 0 .. MaxDrawn

(* A step of d alone. *)
Alone(d) == \A x \in Daemons \ {d} : Alike(chatd[x], chatd'[x])

(* The state s that d goes to, but for the packets that arrive. *)
LEMMA StepWell ==
    ASSUME NEW N, ChatdOK(chatd, N), Allowed(N), NEW d \in Daemons, NEW s,
           Well(d, s, N[d]), Become(d, s)
    PROVE  /\ ChatdOK(chatd', N) /\ Alone(d) /\ Alike(s, chatd'[d])
           /\ s.outbox = {} => chatd'[d] = s
<1>1. \A x \in Daemons : N[x] \in Nat /\ N[x] <= N[x]
  BY Bounds DEF Allowed
<1> QED
  BY <1>1, BecomeWell DEF Alone

(* A step that keeps the connection keeps it, whatever packets arrive. *)
LEMMA AlikeKeeps ==
    ASSUME NEW d, NEW r, NEW s, NEW t, Keeps(d, r, s), Alike(s, t)
    PROVE  Keeps(d, r, t)
BY ZenonT(30) DEF Keeps, Alike

LEMMA StepKeeps ==
    ASSUME NEW N, ChatdOK(chatd, N), Allowed(N), NEW d \in Daemons, NEW s,
           Well(d, s, N[d]), Become(d, s), Keeps(d, chatd[d], s)
    PROVE  ChatdOK(chatd', N) /\ Alone(d) /\ Keeps(d, chatd[d], chatd'[d])
BY StepWell, AlikeKeeps, ZenonT(30)

(* What is known of one daemon. *)
LEMMA Own ==
    ASSUME NEW N, ChatdOK(chatd, N), Allowed(N), NEW d \in Daemons
    PROVE  /\ Well(d, chatd[d], N[d]) /\ N[d] \in Nat /\ N[d] <= MaxDrawn
           /\ chatd[d] \in DaemonStates(d) /\ chatd[d].outbox = {}
BY Bounds DEF ChatdOK, Allowed, Well

(* connect_control_server *)
LEMMA ConnectStep ==
    ASSUME NEW N, ChatdOK(chatd, N), Allowed(N), NEW d \in Daemons, Connect(d)
    PROVE  /\ ChatdOK(chatd', N) /\ Alone(d) /\ Keeps(d, chatd[d], chatd'[d])
<1> DEFINE s == chatd[d]
           a == [s EXCEPT !.should_reconnect = FALSE, !.connecting = TRUE]
           b == [s EXCEPT !.should_reconnect = FALSE]
<1>1. Well(d, s, N[d]) /\ s.wsi = NoConn /\ (Become(d, a) \/ Become(d, b))
  BY Own DEF Connect
<1>2. a \in DaemonStates(d) /\ b \in DaemonStates(d)
  BY <1>1, ZenonT(30) DEF Well, DaemonStates
<1>3. /\ Coherent(a) /\ Committed(a) = Committed(s) /\ Keeps(d, s, a)
      /\ Coherent(b) /\ Committed(b) = Committed(s) /\ Keeps(d, s, b)
  BY <1>1 DEF Well, DaemonStates, Coherent, Committed, Keeps
<1>4. Well(d, a, N[d]) /\ Well(d, b, N[d])
  BY <1>1, <1>2, <1>3 DEF Well
<1> HIDE DEF s, a, b
<1> QED
  BY <1>1, <1>3, <1>4, StepKeeps, ZenonT(30) DEF s

(* CLIENT_ESTABLISHED: the daemon queues register, or has lost the         *)
(* connection again.                                                       *)
LEMMA EstablishedStep ==
    ASSUME NEW N, ChatdOK(chatd, N), Allowed(N), NEW d \in Daemons, NEW c \in Conns,
           Established(d, c)
    PROVE  /\ ChatdOK(chatd', N) /\ Alone(d)
           /\ chatd[d].wsi = NoConn /\ chatd'[d].phase = "REGISTER"
           /\ \/ /\ chatd'[d].wsi = c
                 /\ chatd'[d].pending = [type |-> "register", username |-> d, key |-> d]
              \/ chatd'[d].wsi = NoConn
<1> DEFINE s == chatd[d]
           a == [s EXCEPT !.wsi = c, !.connecting = FALSE, !.phase = "REGISTER"]
           m == Register(s)
           q == QueueJson(a, m)
<1>1. Well(d, s, N[d]) /\ N[d] \in Nat /\ s.connecting /\ Become(d, q)
  BY Own DEF Established
<1>2. s.wsi = NoConn
  BY <1>1 DEF Well, Coherent
<1>3. m = [type |-> "register", username |-> d, key |-> d] /\ m \in Logins(d)
  BY <1>1 DEF Well, DaemonStates, Register, Logins
<1>4. a \in DaemonStates(d)
  BY <1>1, ZenonT(30) DEF Well, DaemonStates, Phases
<1>5. /\ Coherent(a) /\ Committed(a) = Committed(s) /\ a.phase = "REGISTER"
      /\ a.wsi = c
  BY <1>1, <1>4 DEF Well, DaemonStates, Coherent, Committed
<1>6. Well(d, a, N[d])
  BY <1>1, <1>4, <1>5 DEF Well
<1> HIDE DEF s, a, m
<1>7. /\ Well(d, q, N[d]) /\ q.phase = "REGISTER"
      /\ \/ q.wsi = c /\ q = [a EXCEPT !.pending = m]
         \/ q.wsi = NoConn
  BY <1>1, <1>3, <1>5, <1>6, QueueJsonWell
<1>8. q = [a EXCEPT !.pending = m] => q.pending = m
  BY <1>4 DEF DaemonStates
<1> HIDE DEF q
<1> QED
  BY <1>1, <1>2, <1>3, <1>7, <1>8, StepWell DEF Alike, s

(* CLIENT_CONNECTION_ERROR *)
LEMMA ConnectionErrorStep ==
    ASSUME NEW N, ChatdOK(chatd, N), Allowed(N), NEW d \in Daemons, ConnectionError(d)
    PROVE  ChatdOK(chatd', N) /\ Alone(d) /\ Keeps(d, chatd[d], chatd'[d])
<1> DEFINE s == chatd[d]
           q == ClientClosed(s)
<1>1. Well(d, s, N[d]) /\ N[d] \in Nat /\ s.connecting /\ Become(d, q)
  BY Own DEF ConnectionError
<1>2. s.wsi = NoConn
  BY <1>1 DEF Well, Coherent
<1>3. /\ Well(d, q, N[d]) /\ q.phase = s.phase /\ q.wsi = NoConn
      /\ q.pending = s.pending
  BY <1>1, ClientClosedWell
<1> HIDE DEF s, q
<1> QED
  BY <1>1, <1>2, <1>3, StepKeeps, ZenonT(30) DEF s, Keeps

(* Packets that arrive meanwhile do not change what a message has done. *)
LEMMA HandledAlike ==
    ASSUME NEW d, NEW s, NEW m, NEW q, NEW t, Handled(d, s, m, q), Alike(q, t)
    PROVE  Handled(d, s, m, t)
BY DEF Handled, Alike, Keeps, Leaves, Ends, Greets, Answers, Finishes, Outlives

(* CLIENT_RECEIVE *)
LEMMA ReceiveStep ==
    ASSUME NEW N, ChatdOK(chatd, N), Allowed(N), NEW d \in Daemons,
           NEW m, m.type \in SignalTypes => m \in Relays(d),
           m.type = "auth_challenge" => m.challenge \in 0 .. MaxChallenges,
           Receive(d, m)
    PROVE  ChatdOK(chatd', N) /\ Alone(d) /\ Handled(d, chatd[d], m, chatd'[d])
<1> DEFINE s == chatd[d]
<1>1. PICK env \in Environments : Become(d, HandleReceive(s, m, env))
  BY DEF Receive
<1> DEFINE q == HandleReceive(s, m, env)
<1>2. Well(d, s, N[d]) /\ N[d] \in Nat /\ N[d] <= MaxDrawn
  BY Own
<1>3. Well(d, q, N[d]) /\ Handled(d, s, m, q)
  BY <1>2, HandleReceiveWell
<1> HIDE DEF s, q
<1>4. ChatdOK(chatd', N) /\ Alone(d) /\ Alike(q, chatd'[d])
  BY <1>1, <1>3, StepWell DEF q
<1> QED
  BY <1>3, <1>4, HandledAlike DEF s

(* CLIENT_WRITEABLE: the slot is written out, or the daemon ends. *)
LEMMA WriteableStep ==
    ASSUME NEW N, ChatdOK(chatd, N), Allowed(N), NEW d \in Daemons, Writeable(d)
    PROVE  /\ ChatdOK(chatd', N) /\ Alone(d)
           /\ \/ /\ chatd'[d].phase = chatd[d].phase /\ chatd'[d].wsi = chatd[d].wsi
                 /\ chatd'[d].pending = Empty
              \/ Ends(chatd'[d])
<1> DEFINE s == chatd[d]
           a == [s EXCEPT !.pending = Empty]
           b == Exit(s)
<1>1. Well(d, s, N[d]) /\ N[d] \in Nat /\ (Become(d, a) \/ Become(d, b))
  BY Own DEF Writeable
<1>2. a \in DaemonStates(d)
  BY <1>1 DEF Well, DaemonStates
<1>3. /\ Well(d, a, N[d]) /\ a.phase = s.phase /\ a.wsi = s.wsi /\ a.pending = Empty
  BY <1>1, <1>2 DEF Well, DaemonStates, Coherent, Committed
<1>4. Well(d, b, N[d]) /\ Ends(b)
  BY <1>1, ExitWell DEF Ends
<1> HIDE DEF s, a, b
<1> QED
  BY <1>1, <1>3, <1>4, StepWell DEF Alike, Ends, s

(* CLIENT_CLOSED leaves the ICE session and the session state alone. *)
LEMMA ClosedStep ==
    ASSUME NEW N, ChatdOK(chatd, N), Allowed(N), NEW d \in Daemons, Closed(d)
    PROVE  /\ ChatdOK(chatd', N) /\ Alone(d) /\ Leaves(chatd[d], chatd'[d])
           /\ chatd'[d].ice = chatd[d].ice
           /\ chatd'[d].session_state = chatd[d].session_state
<1> DEFINE s == chatd[d]
           q == ClientClosed(s)
<1>1. /\ Well(d, s, N[d]) /\ N[d] \in Nat /\ s.outbox = {} /\ Become(d, q)
      /\ s \in DaemonStates(d)
  BY Own DEF Closed
<1>2. /\ Well(d, q, N[d]) /\ Leaves(s, q) /\ q.ice = s.ice
  BY <1>1, ClientClosedWell DEF Leaves
<1>3. q.outbox = {} /\ q.session_state = s.session_state
  BY <1>1 DEF ClientClosed, WriteLookupResponse, CloseLookupClient, DaemonStates
<1> HIDE DEF s, q
<1> QED
  BY <1>1, <1>2, <1>3, StepWell DEF s

(* The daemon is killed. *)
LEMMA KillStep ==
    ASSUME NEW N, ChatdOK(chatd, N), Allowed(N), NEW d \in Daemons, Kill(d)
    PROVE  ChatdOK(chatd', N) /\ Alone(d) /\ Ends(chatd'[d])
<1> DEFINE s == chatd[d]
           q == Exit(s)
<1>1. Well(d, s, N[d]) /\ N[d] \in Nat /\ Become(d, q)
  BY Own DEF Kill
<1>2. Well(d, q, N[d]) /\ Ends(q) /\ q.outbox = {}
  BY <1>1, ExitWell DEF Ends
<1> HIDE DEF s, q
<1> QED
  BY <1>1, <1>2, StepWell

(* The daemon is started again. *)
LEMMA RestartStep ==
    ASSUME NEW N, ChatdOK(chatd, N), Allowed(N), NEW d \in Daemons, Restart(d)
    PROVE  /\ ChatdOK(chatd', N) /\ Alone(d)
           /\ chatd'[d].phase = "REGISTER" /\ chatd'[d].wsi = NoConn
           /\ chatd'[d].pending = Empty
           /\ chatd[d].phase = "FAILED"
<1> DEFINE s == chatd[d]
           q == [NewDaemon(d) EXCEPT !.drawn = s.drawn, !.joined = s.joined]
<1>1. /\ Well(d, s, N[d]) /\ N[d] \in Nat /\ s.phase = "FAILED" /\ Become(d, q)
      /\ s \in DaemonStates(d)
  BY Own DEF Restart, Running
<1>2. s.drawn \in Draws /\ s.joined \in SUBSET Joins
  BY <1>1 DEF DaemonStates
<1>3. s.drawn <= N[d]
  BY <1>1, Bounds DEF Well, DaemonStates, Committed, Draws, Retries
<1> HIDE DEF s
<1>4. q \in DaemonStates(d)
  BY <1>2, NoSessionType, Zero, ZenonT(30) DEF NewDaemon, DaemonStates, SessionStates, Phases
<1>5. Coherent(q) /\ Committed(q) <= N[d]
  BY <1>1, <1>2, <1>3, Bounds DEF NewDaemon, NoSession, Coherent, Committed, Draws
<1>6. /\ Well(d, q, N[d]) /\ q.phase = "REGISTER" /\ q.wsi = NoConn
      /\ q.pending = Empty /\ q.outbox = {}
  BY <1>4, <1>5 DEF Well, NewDaemon
<1> HIDE DEF q
<1> QED
  BY <1>1, <1>6, StepWell DEF s

(* The CLI that waited leaves. *)
LEMMA GiveUpStep ==
    ASSUME NEW N, ChatdOK(chatd, N), Allowed(N), NEW d \in Daemons, GiveUp(d)
    PROVE  ChatdOK(chatd', N) /\ Alone(d) /\ Keeps(d, chatd[d], chatd'[d])
<1> DEFINE s == chatd[d]
           q == [s EXCEPT !.client = "gone"]
<1>1. /\ Well(d, s, N[d]) /\ s.client \in {"waiting", "chatting"} /\ Become(d, q)
  BY Own DEF GiveUp
<1>2. q \in DaemonStates(d)
  BY <1>1 DEF Well, DaemonStates
<1>3. Coherent(q) /\ Committed(q) = Committed(s) /\ Keeps(d, s, q)
  BY <1>1 DEF Well, DaemonStates, Coherent, Committed, Keeps
<1>4. Well(d, q, N[d])
  BY <1>1, <1>2, <1>3 DEF Well
<1> HIDE DEF s, q
<1> QED
  BY <1>1, <1>3, <1>4, StepKeeps, ZenonT(30) DEF s

(* One pass over the ICE session. *)
LEMMA ServiceStep ==
    ASSUME NEW N, ChatdOK(chatd, N), Allowed(N), NEW d \in Daemons, Service(d)
    PROVE  ChatdOK(chatd', N) /\ Alone(d) /\ Keeps(d, chatd[d], chatd'[d])
<1> DEFINE s == chatd[d]
<1>1. PICK pass \in Passes(s) : Become(d, ServiceIceSession(s, pass))
  BY DEF Service
<1> DEFINE q == ServiceIceSession(s, pass)
<1>2. Well(d, s, N[d]) /\ N[d] \in Nat /\ N[d] <= MaxDrawn /\ s.ice.active
  BY Own DEF Service
<1>3. s.ice.inbox \in SUBSET Packets
  BY <1>2 DEF Well, DaemonStates, IceStates
<1>4. pass.p \in Packets \cup {NoPacket} /\ pass.q \in Packets \cup {NoPacket}
  BY <1>3 DEF Passes
<1>5. Well(d, q, N[d]) /\ Keeps(d, s, q)
  BY <1>2, <1>4, ServiceIceSessionWell
<1> HIDE DEF s, q
<1> QED
  BY <1>1, <1>5, StepKeeps, ZenonT(30) DEF s, q

(* service_active_chat_client: the CLI's chat ends. *)
LEMMA ServiceActiveChatClientStep ==
    ASSUME NEW N, ChatdOK(chatd, N), Allowed(N), NEW d \in Daemons,
           ServiceActiveChatClient(d)
    PROVE  ChatdOK(chatd', N) /\ Alone(d) /\ Keeps(d, chatd[d], chatd'[d])
<1> DEFINE s == chatd[d]
           Closes(r) == CloseLookupClient(r)
           Over(r, state) == [ResetIceSession(Closes(r)) EXCEPT !.session_state = state]
           p == SendIcePacket(s, ClosePacket)
<1>1. /\ Well(d, s, N[d]) /\ N[d] \in Nat
      /\ Become(d, Over(p, "CLOSED")) \/ Become(d, Over(s, "FAILED"))
  BY Own DEF ServiceActiveChatClient
<1>2. ClosePacket \in Packets
  BY DEF Packets
<1>3. Well(d, p, N[d]) /\ Keeps(d, s, p)
  BY <1>1, <1>2, SendIcePacketWell
<1> HIDE DEF p, s
<1>4. ASSUME NEW r, Well(d, r, N[d]), Keeps(d, s, r), NEW state \in SessionStates
      PROVE  Well(d, Over(r, state), N[d]) /\ Keeps(d, s, Over(r, state))
  <2> DEFINE a == CloseLookupClient(r)
             b == ResetIceSession(a)
             e == [b EXCEPT !.session_state = state]
  <2>1. Well(d, a, N[d]) /\ Keeps(d, r, a) /\ a.client = "none"
    BY <1>1, <1>4, CloseLookupClientWell
  <2> HIDE DEF a
  <2>2. /\ Well(d, b, N[d]) /\ Keeps(d, a, b) /\ b.client = "none"
        /\ b.ice = NoSession
    BY <1>1, <2>1, ResetIceSessionWell
  <2> HIDE DEF b
  <2>3. e \in DaemonStates(d)
    BY <2>2 DEF Well, DaemonStates
  <2>4. Coherent(e) /\ Committed(e) = Committed(b) /\ Keeps(d, b, e)
    BY <2>2 DEF Well, DaemonStates, Coherent, Committed, Keeps, NoSession
  <2>5. Well(d, e, N[d]) /\ Keeps(d, s, e)
    BY <1>4, <2>1, <2>2, <2>3, <2>4, KeepsTwice DEF Well
  <2> QED
    BY <2>5 DEF b, a
<1>5. s = s /\ Keeps(d, s, s) /\ "CLOSED" \in SessionStates /\ "FAILED" \in SessionStates
  BY DEF Keeps, SessionStates
<1>6. /\ Well(d, Over(p, "CLOSED"), N[d]) /\ Keeps(d, s, Over(p, "CLOSED"))
      /\ Well(d, Over(s, "FAILED"), N[d]) /\ Keeps(d, s, Over(s, "FAILED"))
  BY <1>1, <1>3, <1>4, <1>5
<1> HIDE DEF Over
<1> QED
  BY <1>1, <1>6, StepKeeps, ZenonT(30) DEF s

(* A CLI asks for a chat, for which 1 + RetryMax ids may be drawn. *)
LEMMA OpenChatStep ==
    ASSUME NEW N, NEW M, ChatdOK(chatd, N), Allowed(N), Allowed(M),
           NEW d \in Daemons, NEW peer \in Daemons, OpenChat(d, peer),
           M[d] = N[d] + 1 + RetryMax, \A x \in Daemons \ {d} : M[x] = N[x]
    PROVE  ChatdOK(chatd', M) /\ Alone(d) /\ Keeps(d, chatd[d], chatd'[d])
<1> DEFINE s == chatd[d]
           a == [s EXCEPT !.client = "chatting", !.asked = peer]
           b == [s EXCEPT !.client = "waiting", !.asked = peer, !.lookup_peer = peer,
                          !.retries = 0, !.session_state = "REQUESTING"]
           q == QueueChatRequest(b, peer)
<1>1. /\ Well(d, s, N[d]) /\ N[d] \in Nat /\ M[d] \in Nat /\ M[d] <= MaxDrawn
      /\ s \in DaemonStates(d)
  BY Own, Bounds DEF Allowed
<1>2. /\ s.client = "none" /\ peer \in Others(d) /\ peer # None
      /\ (s.ice.secure /\ Become(d, a)) \/ Become(d, q)
  BY ChatdAssumption DEF OpenChat, Others
<1>3. a \in DaemonStates(d)
  BY <1>1, ZenonT(30) DEF Well, DaemonStates
<1>4. s.ice.secure => Coherent(a) /\ Committed(a) = Committed(s) /\ Keeps(d, s, a)
  BY <1>1, <1>2 DEF Well, DaemonStates, Coherent, Committed, Keeps
<1>5. Committed(s) \in Int /\ s.drawn \in Nat /\ s.drawn <= Committed(s)
      /\ Committed(s) <= N[d]
  <2>1. s.drawn \in Draws /\ s.retries \in Retries
    BY <1>1, ZenonT(30) DEF DaemonStates
  <2>2. s.drawn \in Nat /\ RetryMax - s.retries \in Nat
    BY <2>1, Bounds DEF Draws, Retries
  <2>3. Committed(s) \in Int /\ s.drawn <= Committed(s)
    BY <2>2 DEF Committed
  <2>4. Committed(s) <= N[d]
    BY <1>1 DEF Well
  <2> QED
    BY <2>2, <2>3, <2>4
<1>6. s.ice.secure => Well(d, a, M[d])
  BY <1>1, <1>3, <1>4, <1>5, Bounds DEF Well
<1>7. b \in DaemonStates(d)
  BY <1>1, <1>2, Zero, ZenonT(30) DEF Well, DaemonStates, SessionStates
<1>8. /\ Coherent(b) /\ Keeps(d, s, b) /\ b.drawn = s.drawn
      /\ b.lookup_peer = peer /\ b.retries = 0
  BY <1>1, <1>2 DEF Well, DaemonStates, Coherent, Keeps
<1>9. Committed(b) + 1 <= M[d]
  BY <1>1, <1>2, <1>5, <1>8, Bounds DEF Committed
<1> HIDE DEF s, a, b
<1>10. Well(d, q, M[d]) /\ Keeps(d, b, q)
  BY <1>1, <1>2, <1>7, <1>8, <1>9, QueueChatRequestWell
<1> HIDE DEF q
<1>11. Keeps(d, s, q)
  BY <1>8, <1>10, KeepsTwice
<1>12. \A x \in Daemons : N[x] \in Nat /\ M[x] \in Nat /\ N[x] <= M[x]
  <2>1. N[d] <= M[d]
    BY <1>1, Bounds
  <2>2. \A x \in Daemons : N[x] \in Nat /\ M[x] \in Nat
    BY Bounds DEF Allowed
  <2> QED
    BY <2>1, <2>2
<1>13. CASE s.ice.secure /\ Become(d, a)
  BY <1>4, <1>6, <1>12, <1>13, BecomeWell, AlikeKeeps, ZenonT(30) DEF Alone, s
<1>14. CASE Become(d, q)
  BY <1>10, <1>11, <1>12, <1>14, BecomeWell, AlikeKeeps, ZenonT(30) DEF Alone, s
<1> QED
  BY <1>2, <1>13, <1>14
===============================================================================
