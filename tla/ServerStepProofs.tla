--------------------------- MODULE ServerStepProofs ---------------------------
(***************************************************************************)
(* The steps of the control server among the daemons: every message it     *)
(* reads, every message it writes and every connection it loses preserves  *)
(* the invariant, and is a step that ControlServer allows.                 *)
(***************************************************************************)
EXTENDS ControlPlaneInv, TLAPS

(* The leaves are for SMT, unless they name another prover. *)
USE SMTT(30), ZenonT(20), Z3T(30)

-----------------------------------------------------------------------------
(* The login, as the server sees it.                                       *)

(* What is on a wire, by its indices. *)
LEMMA WireIn ==
    ASSUME NEW T, NEW q \in Seq(T)
    PROVE  /\ Len(q) \in Nat /\ DOMAIN q = 1 .. Len(q)
           /\ \A i \in 1 .. Len(q) : q[i] \in T
           /\ q # <<>> => Len(q) # 0
OBVIOUS

(* A message is read from a wire. *)
LEMMA ReadIn ==
    ASSUME NEW T, NEW q \in Seq(T), q # <<>>
    PROVE  /\ 1 \in DOMAIN q /\ Head(q) = q[1]
           /\ Tail(q) \in Seq(T) /\ Len(Tail(q)) = Len(q) - 1
           /\ \A i \in DOMAIN Tail(q) :
                 /\ i + 1 \in DOMAIN q /\ i + 1 # 1 /\ i \in Nat
                 /\ Tail(q)[i] = q[i + 1]
OBVIOUS

(* A message is written to a wire. *)
LEMMA WrittenIn ==
    ASSUME NEW T, NEW q \in Seq(T), NEW m \in T
    PROVE  /\ Append(q, m) \in Seq(T) /\ Len(Append(q, m)) = Len(q) + 1
           /\ \A i \in DOMAIN Append(q, m) :
                 \/ i \in DOMAIN q /\ Append(q, m)[i] = q[i]
                 \/ i = Len(q) + 1 /\ Append(q, m)[i] = m
OBVIOUS

(* Something else is put into the server's slot, or it is written out. *)
LEMMA LoginSlot ==
    ASSUME NEW key, NEW ses, NEW t, NEW heard, NEW u, NEW v, NEW H,
           Login(key, ses, heard, u, v, H),
           t.username = ses.username, t.authenticated = ses.authenticated,
           Plain(t.pending)
    PROVE  Login(key, t, heard, u, v, H)
<1> USE DEF Login, Plain, Coming
<1>1. HelloOk(t, u, H)
  BY DEF HelloOk
<1>2. FreshOk(t, u, v, H)
  BY DEF FreshOk
<1>3. ChallengeOk(t, heard, u, v, H)
  BY DEF ChallengeOk
<1>4. DoneOk(t, v, H)
  BY DEF DoneOk
<1> QED
  BY <1>1, <1>2, <1>3, <1>4

(* The server has read a message that is not hello. *)
LEMMA LoginPopUp ==
    ASSUME NEW key, NEW ses, NEW heard, NEW T, NEW u \in Seq(T), u # <<>>, NEW v, NEW H,
           Login(key, ses, heard, u, v, H)
    PROVE  Login(key, ses, heard, Tail(u), v, H)
<1> DEFINE w == Tail(u)
<1>1. \A i \in DOMAIN w : i + 1 \in DOMAIN u /\ w[i] = u[i + 1] /\ i \in Nat
  BY ReadIn
<1> HIDE DEF w
<1> USE DEF Login
<1>2. \A type : Carries(w, type) => Carries(u, type)
  BY <1>1 DEF Carries
<1>3. \A type : Sent(w, H, type) => Sent(u, H, type)
  BY <1>2 DEF Sent
<1>4. HelloOk(ses, w, H)
  <2>1. ASSUME NEW i \in DOMAIN w, NEW j \in DOMAIN w,
               w[i].type = "hello", w[j].type = "hello"
        PROVE  i = j
    <3>1. i + 1 = j + 1
      BY <1>1, <2>1 DEF HelloOk
    <3> QED
      BY <1>1, <3>1
  <2> QED
    BY <1>2, <1>3, <2>1 DEF HelloOk
<1>5. FreshOk(ses, w, v, H)
  BY <1>3 DEF FreshOk
<1>6. ChallengeOk(ses, heard, w, v, H)
  BY <1>3 DEF ChallengeOk
<1>7. AnswerOk(key, heard, w, H)
  BY <1>1 DEF AnswerOk
<1> QED
  BY <1>4, <1>5, <1>6, <1>7 DEF w

(* The server writes what is in its slot, to somebody or to nobody. *)
LEMMA LoginWritten ==
    ASSUME NEW key, NEW ses, NEW t, NEW heard, NEW h, NEW T, NEW u, NEW v \in Seq(T),
           NEW w \in {v, Append(v, ses.pending)}, NEW H,
           Login(key, ses, heard, u, v, H), ses.pending \in T, ses.pending # Empty,
           t.username = ses.username, t.authenticated = ses.authenticated,
           t.pending = Empty,
           h = IF ses.pending.type = "auth_challenge" THEN ses.pending.challenge
               ELSE heard
    PROVE  Login(key, t, h, u, w, H)
<1>1. \A i \in DOMAIN w : \/ i \in DOMAIN v /\ w[i] = v[i]
                          \/ i = Len(v) + 1 /\ w[i] = ses.pending
  BY WrittenIn
<1>2. \A type : Carries(w, type) => Carries(v, type) \/ Is(ses.pending, type)
  BY <1>1 DEF Carries, Is
<1>3. \A type : Coming(t, w, type) => Coming(ses, v, type)
  BY <1>2 DEF Coming, Is
<1> USE DEF Login
<1>4. HelloOk(t, u, H)
  BY DEF HelloOk
<1>5. FreshOk(t, u, w, H)
  BY <1>3 DEF FreshOk
<1>6. ChallengeOk(t, h, u, w, H)
  <2>1. ~Is(t.pending, "auth_challenge")
    BY DEF Is
  <2>2. ASSUME NEW i \in DOMAIN w, NEW j \in DOMAIN w,
               w[i].type = "auth_challenge", w[j].type = "auth_challenge"
        PROVE  i = j
    BY <1>1, <2>2 DEF ChallengeOk, Carries, Is
  <2>3. ASSUME NEW i \in DOMAIN w, w[i].type = "auth_challenge"
        PROVE  w[i].challenge = h
    BY <1>1, <2>3 DEF ChallengeOk, Carries, Is
  <2> QED
    BY <1>3, <2>1, <2>2, <2>3 DEF ChallengeOk
<1>7. AnswerOk(key, h, u, H)
  <2>1. CASE ses.pending.type = "auth_challenge"
    <3>1. ~Sent(u, H, "auth_response")
      BY <2>1 DEF ChallengeOk, Coming, Is
    <3> QED
      BY <3>1 DEF AnswerOk, Sent, Carries
  <2>2. CASE ses.pending.type # "auth_challenge"
    BY <2>2
  <2> QED
    BY <2>1, <2>2
<1>8. DoneOk(t, w, H)
  BY <1>3 DEF DoneOk
<1> QED
  BY <1>4, <1>5, <1>6, <1>7, <1>8

(* handle_hello draws a challenge. *)
LEMMA LoginHello ==
    ASSUME NEW key, NEW ses, NEW t, NEW heard, NEW T, NEW u \in Seq(T), u # <<>>,
           NEW v, NEW H, Login(key, ses, heard, u, v, H), Head(u).type = "hello",
           t.username = key, key # NoUser, t.pending.type = "auth_challenge"
    PROVE  Login(key, t, heard, Tail(u), v, H)
<1> DEFINE w == Tail(u)
<1>1. 1 \in DOMAIN u /\ u[1].type = "hello"
  BY ReadIn
<1>2. Carries(u, "hello") /\ Sent(u, H, "hello") /\ ses.username = NoUser
  BY <1>1 DEF Login, HelloOk, Carries, Sent
<1>3. ~Carries(w, "hello") /\ \A x \in H : ~Is(x.pending, "hello")
  BY <1>1, <1>2, ReadIn DEF Login, HelloOk, Carries
<1>4. \A x \in H : x.phase = "HELLO"
  BY <1>2 DEF Login, HelloOk, FreshOk
<1>5. /\ ~Carries(v, "auth_challenge") /\ ~Carries(v, "auth_ok")
      /\ ~Sent(u, H, "auth_response")
  BY <1>2 DEF Login, FreshOk, Coming
<1>6. Login(key, ses, heard, w, v, H)
  BY LoginPopUp
<1>7. ~Sent(w, H, "auth_response")
  BY <1>2, <1>6 DEF Login, FreshOk
<1> HIDE DEF w
<1> USE DEF Login
<1>8. HelloOk(t, w, H)
  BY <1>3, <1>4, <1>6 DEF HelloOk, Sent
<1>9. FreshOk(t, w, v, H)
  BY DEF FreshOk
<1>10. ChallengeOk(t, heard, w, v, H)
  BY <1>4, <1>5, <1>6, <1>7 DEF ChallengeOk
<1>11. AnswerOk(key, heard, w, H)
  BY <1>6
<1>12. DoneOk(t, v, H)
  BY <1>4, <1>5 DEF DoneOk, Coming, Is
<1> QED
  BY <1>8, <1>9, <1>10, <1>11, <1>12 DEF w

(* handle_auth_response accepts. *)
LEMMA LoginAccepted ==
    ASSUME NEW key, NEW ses, NEW t, NEW heard, NEW u, NEW v, NEW H,
           Login(key, ses, heard, u, v, H), ses.username # NoUser,
           t.username = ses.username, t.authenticated = TRUE,
           t.pending.type = "auth_ok"
    PROVE  Login(key, t, heard, u, v, H)
<1> USE DEF Login
<1>1. HelloOk(t, u, H)
  BY DEF HelloOk
<1>2. FreshOk(t, u, v, H)
  BY DEF FreshOk
<1>3. ChallengeOk(t, heard, u, v, H)
  BY DEF ChallengeOk, Coming, Is
<1>4. DoneOk(t, v, H)
  BY DEF DoneOk
<1> QED
  BY <1>1, <1>2, <1>3, <1>4

-----------------------------------------------------------------------------
(* The server's steps.                                                     *)

(* The far end of an open connection is a user. *)
LEMMA ClientIn ==
    ASSUME S!TypeOK, NEW c \in open
    PROVE  /\ c \in Conns /\ client[c].key \in Daemons
           /\ session[c] \in S!Sessions /\ client[c].key # NoUser
BY PlaneAssumption DEF S!TypeOK

(* The daemons do not notice a step of the server. *)
LEMMA DaemonsAlone ==
    ASSUME Inv, UNCHANGED <<chatd, opens>>
    PROVE  /\ ChatdOK(chatd', Allowance') /\ opens' \in [Daemons -> 0 .. MaxOpens]
           /\ \A c : Held(c)' = Held(c)
<1>1. \A c : Held(c)' = Held(c)
  BY DEF Held, Holders
<1> QED
  BY <1>1 DEF Inv, Typed, Allowance

(* What is left to show of a step of the server. *)
LEMMA ServerFrame ==
    ASSUME Inv, UNCHANGED <<chatd, opens, open>>, S!TypeOK', Apart', Present',
           \A e \in open : client'[e].key = client[e].key,
           up' \in [Conns -> Seq(UpMessages)], down' \in [Conns -> Seq(S!Messages)],
           \A e \in Conns : Len(up'[e]) <= WireCapacity /\ Len(down'[e]) <= WireCapacity,
           \A e \in open : \A i \in DOMAIN up'[e] : up'[e][i] \in FromDaemon(client[e].key),
           \A e \in open : Login(client[e].key, session'[e], client'[e].heard,
                                 up'[e], down'[e], Held(e))
    PROVE  Inv'
<1>1. Typed'
  BY DaemonsAlone DEF Typed
<1>2. Owned'
  BY DEF Inv, Owned
<1>3. LoggingIn'
  BY DaemonsAlone DEF LoggingIn
<1> QED
  BY <1>1, <1>2, <1>3 DEF Inv

(* What the server reads. *)
LEMMA ReadHead ==
    ASSUME Inv, NEW c \in open, up[c] # <<>>
    PROVE  /\ up[c] \in Seq(UpMessages)
           /\ Head(up[c]) \in FromDaemon(client[c].key)
           /\ Login(client[c].key, session[c], client[c].heard, up[c], down[c], Held(c))
           /\ Login(client[c].key, session[c], client[c].heard, Tail(up[c]), down[c], Held(c))
<1>1. up[c] \in Seq(UpMessages)
  BY ClientIn DEF Inv, Typed
<1>2. Login(client[c].key, session[c], client[c].heard, up[c], down[c], Held(c))
  BY DEF Inv, LoggingIn
<1>3. Head(up[c]) \in FromDaemon(client[c].key)
  BY <1>1, ReadIn, ZenonT(30) DEF Inv, Owned
<1> QED
  BY <1>1, <1>2, <1>3, LoginPopUp

(* Reading, whatever the handler does to the sessions. *)
LEMMA ReadFrame ==
    ASSUME Inv, NEW c \in open, up[c] # <<>>, up' = [up EXCEPT ![c] = Tail(@)],
           UNCHANGED <<chatd, down, opens, open, client>>, S!TypeOK', Present',
           \A e \in open : session'[e].pending # Empty
               /\ session'[e].pending.type \in SignalTypes
               => session'[e].pending.from # client[e].key,
           \A e \in open \ {c} :
               Login(client[e].key, session'[e], client[e].heard, up[e], down[e], Held(e)),
           Login(client[c].key, session'[c], client[c].heard, Tail(up[c]), down[c], Held(c))
    PROVE  Inv'
<1>1. /\ up \in [Conns -> Seq(UpMessages)] /\ down \in [Conns -> Seq(S!Messages)]
      /\ \A e \in Conns : Len(up[e]) <= WireCapacity /\ Len(down[e]) <= WireCapacity
      /\ open \subseteq Conns /\ c \in Conns
  BY ClientIn DEF Inv, Typed
<1>2. /\ Tail(up[c]) \in Seq(UpMessages) /\ Len(Tail(up[c])) <= WireCapacity
      /\ \A i \in DOMAIN Tail(up[c]) : \E j \in DOMAIN up[c] : Tail(up[c])[i] = up[c][j]
  <2>1. up[c] \in Seq(UpMessages) /\ Len(up[c]) \in Nat /\ Len(up[c]) <= WireCapacity
    BY <1>1, WireIn
  <2> QED
    BY <2>1, ReadIn, PlaneAssumption
<1>3. up'[c] = Tail(up[c]) /\ \A e \in Conns \ {c} : up'[e] = up[e]
  BY <1>1
<1>4. /\ up' \in [Conns -> Seq(UpMessages)] /\ down' \in [Conns -> Seq(S!Messages)]
      /\ \A e \in Conns : Len(up'[e]) <= WireCapacity /\ Len(down'[e]) <= WireCapacity
  <2>1. up' \in [Conns -> Seq(UpMessages)] /\ down' \in [Conns -> Seq(S!Messages)]
    BY <1>1, <1>2
  <2> QED
    BY <1>1, <1>2, <1>3, <2>1, ZenonT(30)
<1>5. \A e \in open : \A i \in DOMAIN up'[e] : up'[e][i] \in FromDaemon(client[e].key)
  <2>1. \A i \in DOMAIN up'[c] : up'[c][i] \in FromDaemon(client[c].key)
    BY <1>2, <1>3 DEF Inv, Owned
  <2>2. \A e \in open \ {c} : \A i \in DOMAIN up'[e] : up'[e][i] \in FromDaemon(client[e].key)
    BY <1>1, <1>3, ZenonT(30) DEF Inv, Owned
  <2> QED
    BY <2>1, <2>2, ZenonT(30)
<1>6. Apart'
  BY DEF Inv, Apart
<1>7. \A e \in open : Login(client[e].key, session'[e], client'[e].heard,
                            up'[e], down'[e], Held(e))
  BY <1>1, <1>3
<1> QED
  BY <1>4, <1>5, <1>6, <1>7, ServerFrame, ZenonT(30)

(* Reading, when the handler does no more than put something into slots. *)
LEMMA SlotsInv ==
    ASSUME Inv, NEW c \in open, up[c] # <<>>, up' = [up EXCEPT ![c] = Tail(@)],
           UNCHANGED <<chatd, down, opens, open, client>>, S!TypeOK', Present',
           \A e \in open : \/ session'[e] = session[e]
                           \/ /\ session'[e].username = session[e].username
                              /\ session'[e].authenticated = session[e].authenticated
                              /\ Plain(session'[e].pending)
                              /\ session'[e].pending.type \in SignalTypes
                                 => session'[e].pending.from # client[e].key
    PROVE  Inv'
<1>1. \A e \in open : session'[e].pending # Empty
          /\ session'[e].pending.type \in SignalTypes
          => session'[e].pending.from # client[e].key
  BY DEF Inv, Apart
<1>2. \A e \in open \ {c} :
          Login(client[e].key, session'[e], client[e].heard, up[e], down[e], Held(e))
  <2> TAKE e \in open \ {c}
  <2>1. Login(client[e].key, session[e], client[e].heard, up[e], down[e], Held(e))
    BY DEF Inv, LoggingIn
  <2> QED
    BY <2>1, LoginSlot
<1>3. Login(client[c].key, session'[c], client[c].heard, Tail(up[c]), down[c], Held(c))
  BY ReadHead, LoginSlot
<1> QED
  BY <1>1, <1>2, <1>3, ReadFrame, ZenonT(30)

(* send_error *)
LEMMA SendErrorInv ==
    ASSUME Inv, NEW c \in open, up[c] # <<>>, up' = [up EXCEPT ![c] = Tail(@)],
           UNCHANGED <<chatd, down, opens>>, NEW code, S!SendError(c, code)
    PROVE  Inv'
<1> DEFINE m == S!Error(code)
<1>1. m \in [type : {"error"}, code : S!ErrorCodes] /\ m.type = "error"
  BY DEF S!Error, S!ErrorCodes
<1>2. m \in S!Messages
  BY <1>1 DEF S!Messages
<1>3. /\ session' = [session EXCEPT ![c].pending = m]
      /\ UNCHANGED <<identity_pk, online, wsi, open, client, nonce>>
  BY DEF S!SendError, S!SendJson, S!registry
<1> HIDE DEF m
<1>4. S!TypeOK /\ session \in [Conns -> S!Sessions] /\ open \subseteq Conns
  BY DEF Inv, Typed, S!TypeOK
<1>5. /\ session' \in [Conns -> S!Sessions]
      /\ \A e \in Conns \ {c} : session'[e] = session[e]
      /\ session'[c].username = session[c].username
      /\ session'[c].authenticated = session[c].authenticated
      /\ session'[c].pending = m
  BY <1>2, <1>3, <1>4 DEF S!Sessions
<1>6. S!TypeOK'
  BY <1>3, <1>4, <1>5 DEF S!TypeOK
<1>7. Present'
  BY <1>3, <1>4, <1>5 DEF Inv, Present, S!TypeOK
<1>8. Plain(m) /\ m.type \notin SignalTypes
  BY <1>1 DEF Plain, Is, SignalTypes
<1> QED
  BY <1>3, <1>4, <1>5, <1>6, <1>7, <1>8, SlotsInv, ZenonT(30)

(* What a message a daemon sends is made of. *)
LEMMA SentFields ==
    ASSUME NEW k \in Daemons, NEW m \in FromDaemon(k)
    PROVE  /\ m.type = "register" => m.username = k /\ m.key = k
           /\ m.type = "hello" => m.username = k
           /\ m.type \in S!SignalingTypes =>
                 /\ m.type \in SignalTypes /\ m.from = k /\ m.to \in Daemons /\ m.to # k
                 /\ m.key = k /\ m.body \in Bodies
BY DEF FromDaemon, Logins, SignalsOf, SignalTypes, Others, S!SignalingTypes

(* handle_register preserves Inv. *)
LEMMA HandleRegisterInv ==
    ASSUME Inv, NEW c \in open, up[c] # <<>>, up' = [up EXCEPT ![c] = Tail(@)],
           UNCHANGED <<chatd, down, opens>>,
           S!HandleRegister(c, client[c].key, client[c].key)
    PROVE  Inv'
<1> DEFINE k == client[c].key
<1>1. CASE \E code : S!SendError(c, code)
  BY <1>1, SendErrorInv, ZenonT(30)
<1>2. ASSUME /\ S!RegisterResult(k) = "ok"
             /\ identity_pk' = [identity_pk EXCEPT ![k] = k]
             /\ wsi' = [wsi EXCEPT ![k] = NoConn]
             /\ online' = online \ {k}
             /\ S!SendJson(c, S!RegisterOk)
             /\ UNCHANGED <<open, client, nonce>>
      PROVE  Inv'
  <2> DEFINE m == S!RegisterOk
  <2>1. m \in S!Messages /\ m.type = "register_ok"
    BY DEF S!RegisterOk, S!Messages
  <2>2. session' = [session EXCEPT ![c].pending = m]
    BY <1>2 DEF S!SendJson
  <2>3. k \in Daemons /\ c \in Conns /\ NoKey \notin Daemons
    BY ClientIn, PlaneAssumption DEF Inv, Typed
  <2> HIDE DEF m, k
  <2>4. S!TypeOK /\ session \in [Conns -> S!Sessions] /\ open \subseteq Conns
    BY DEF Inv, Typed, S!TypeOK
  <2>5. /\ session' \in [Conns -> S!Sessions]
        /\ \A e \in Conns \ {c} : session'[e] = session[e]
        /\ session'[c].username = session[c].username
        /\ session'[c].authenticated = session[c].authenticated
        /\ session'[c].pending = m
    BY <2>1, <2>2, <2>3, <2>4, ZenonT(30) DEF S!Sessions
  <2>6. /\ identity_pk' \in [Daemons -> Daemons \cup {NoKey}]
        /\ identity_pk'[k] = k /\ \A u \in Daemons \ {k} : identity_pk'[u] = identity_pk[u]
        /\ wsi' \in [Daemons -> Conns \cup {NoConn}]
        /\ wsi'[k] = NoConn /\ \A u \in Daemons \ {k} : wsi'[u] = wsi[u]
    BY <1>2, <2>3, <2>4, ZenonT(30) DEF S!TypeOK
  <2>7. S!TypeOK'
    BY <1>2, <2>3, <2>4, <2>5, <2>6, ZenonT(30) DEF S!TypeOK
  <2>8. Present'
    <3>1. \A e \in open : session[e].username \in Daemons \cup {NoUser}
      BY <2>4, ZenonT(30) DEF S!Sessions
    <3>2. \A e \in open' : session'[e].authenticated =>
            session'[e].username # NoUser /\ identity_pk'[session'[e].username] # NoKey
      BY <1>2, <2>3, <2>4, <2>5, <2>6, <3>1 DEF Inv, Present
    <3>3. \A u \in Daemons : u \in online' <=> wsi'[u] # NoConn
      BY <1>2, <2>6, ZenonT(30) DEF Inv, Present
    <3>4. \A u \in Daemons : wsi'[u] # NoConn =>
            /\ wsi'[u] \in open' /\ session'[wsi'[u]].authenticated
            /\ client'[wsi'[u]].key = u
      BY <1>2, <2>4, <2>5, <2>6, ZenonT(30) DEF Inv, Present
    <3> QED
      BY <3>2, <3>3, <3>4, ZenonT(30) DEF Present
  <2>9. Plain(m) /\ m.type \notin SignalTypes
    BY <2>1, ZenonT(30) DEF Plain, Is, SignalTypes
  <2> QED
    BY <1>2, <2>4, <2>5, <2>7, <2>8, <2>9, SlotsInv, ZenonT(30)
<1> QED
  BY <1>1, <1>2 DEF S!HandleRegister

(* handle_hello preserves Inv. *)
LEMMA HandleHelloInv ==
    ASSUME Inv, NEW c \in open, up[c] # <<>>, up' = [up EXCEPT ![c] = Tail(@)],
           UNCHANGED <<chatd, down, opens>>, Head(up[c]).type = "hello",
           S!HandleHello(c, client[c].key)
    PROVE  Inv'
<1> DEFINE k == client[c].key
           t == [username |-> k, challenge |-> nonce + 1,
                 authenticated |-> FALSE, pending |-> S!Challenge(nonce + 1)]
<1>1. CASE \E code : S!SendError(c, code)
  BY <1>1, SendErrorInv, ZenonT(30)
<1>2. ASSUME /\ nonce < MaxChallenges /\ nonce' = nonce + 1
             /\ session' = [session EXCEPT ![c] = t]
             /\ UNCHANGED <<identity_pk, online, wsi, open, client>>
      PROVE  Inv'
  <2>1. k \in Daemons /\ c \in Conns /\ NoUser \notin Daemons
    BY ClientIn, PlaneAssumption, ZenonT(30) DEF Inv, Typed
  <2>2. S!TypeOK /\ session \in [Conns -> S!Sessions] /\ open \subseteq Conns
        /\ nonce \in 0 .. MaxChallenges /\ MaxChallenges \in Nat
    BY ChatdAssumption, ZenonT(30) DEF Inv, Typed, S!TypeOK
  <2>3. /\ nonce + 1 \in 1 .. MaxChallenges /\ nonce + 1 \in 0 .. MaxChallenges
    BY <1>2, <2>2
  <2>4. /\ t.username = k /\ t.authenticated = FALSE
        /\ t.pending = S!Challenge(nonce + 1) /\ t.challenge = nonce + 1
        /\ t \in [username : {k}, challenge : {nonce + 1}, authenticated : {FALSE},
                  pending : {S!Challenge(nonce + 1)}]
    OBVIOUS
  <2> HIDE DEF k, t
  <2>5. S!Challenge(nonce + 1) \in S!Messages /\ S!Challenge(nonce + 1).type = "auth_challenge"
    BY <2>3 DEF S!Challenge, S!Messages
  <2>6. t \in S!Sessions
    BY <2>1, <2>3, <2>4, <2>5, ZenonT(30) DEF S!Sessions
  <2>7. /\ session' \in [Conns -> S!Sessions] /\ session'[c] = t
        /\ \A e \in Conns \ {c} : session'[e] = session[e]
    BY <1>2, <2>1, <2>2, <2>6, ZenonT(30)
  <2>8. S!TypeOK'
    BY <1>2, <2>2, <2>3, <2>7, ZenonT(30) DEF S!TypeOK
  <2>9. ~session[c].authenticated
    <3>1. 1 \in DOMAIN up[c] /\ up[c][1].type = "hello"
      BY ReadHead, ReadIn, ZenonT(30)
    <3>2. session[c].username = NoUser
      BY <3>1, ReadHead, ZenonT(30) DEF Login, HelloOk, Sent, Carries
    <3> QED
      BY <3>2, ReadHead, ZenonT(30) DEF Login, FreshOk
  <2>10. Present'
    <3>1. \A u \in Daemons : wsi[u] # c
      BY <2>1, <2>9, ChatdAssumption, PlaneAssumption, ZenonT(30) DEF Inv, Present
    <3>2. \A e \in open : session'[e].authenticated => e # c
      BY <2>4, <2>7, ZenonT(30)
    <3>3. \A e \in open' : session'[e].authenticated =>
            session'[e].username # NoUser /\ identity_pk'[session'[e].username] # NoKey
      BY <1>2, <2>2, <2>7, <3>2, ZenonT(30) DEF Inv, Present
    <3>4. \A u \in Daemons : wsi'[u] # NoConn =>
            /\ wsi'[u] \in open' /\ session'[wsi'[u]].authenticated
            /\ client'[wsi'[u]].key = u
      BY <1>2, <2>2, <2>7, <3>1, ZenonT(30) DEF Inv, Present
    <3> QED
      BY <1>2, <3>3, <3>4, ZenonT(30) DEF Inv, Present
  <2>11. \A e \in open : session'[e].pending # Empty
          /\ session'[e].pending.type \in SignalTypes
          => session'[e].pending.from # client[e].key
    <3>1. session'[c].pending.type \notin SignalTypes
      BY <2>4, <2>5, <2>7, ZenonT(30) DEF SignalTypes
    <3> QED
      BY <2>2, <2>7, <3>1, ZenonT(30) DEF Inv, Apart
  <2>12. \A e \in open \ {c} :
          Login(client[e].key, session'[e], client[e].heard, up[e], down[e], Held(e))
    BY <2>2, <2>7, ZenonT(30) DEF Inv, LoggingIn
  <2>13. Login(client[c].key, session'[c], client[c].heard, Tail(up[c]), down[c], Held(c))
    BY <2>1, <2>4, <2>5, <2>7, ReadHead, LoginHello, ZenonT(30) DEF k
  <2> QED
    BY <1>2, <2>8, <2>10, <2>11, <2>12, <2>13, ReadFrame, ZenonT(30)
<1> QED
  BY <1>1, <1>2 DEF S!HandleHello, S!registry

(* handle_auth_response preserves Inv. *)
LEMMA HandleAuthResponseInv ==
    ASSUME Inv, NEW c \in open, up[c] # <<>>, up' = [up EXCEPT ![c] = Tail(@)],
           UNCHANGED <<chatd, down, opens>>, NEW signature,
           S!HandleAuthResponse(c, signature)
    PROVE  Inv'
<1> DEFINE k == client[c].key
           n == session[c].username
           t == [username |-> n, challenge |-> 0,
                 authenticated |-> TRUE, pending |-> S!AuthOk]
<1>1. CASE \E code : S!SendError(c, code)
  BY <1>1, SendErrorInv, ZenonT(30)
<1>2. ASSUME /\ S!AuthResult(c, signature) = "ok"
             /\ session' = [session EXCEPT ![c] = t]
             /\ S!SetOnline(n, c)
             /\ UNCHANGED <<identity_pk, open, client, nonce>>
      PROVE  Inv'
  <2>1. k \in Daemons /\ c \in Conns /\ NoUser \notin Daemons /\ NoConn \notin Conns
    BY ClientIn, ChatdAssumption, PlaneAssumption, ZenonT(30) DEF Inv, Typed
  <2>2. n # NoUser /\ S!Find(n)
    BY <1>2, ZenonT(30) DEF S!AuthResult
  <2>3. n = k /\ identity_pk[k] # NoKey
    BY <2>2, ReadHead, ZenonT(30) DEF Login, S!Find, S!Registered
  <2>4. S!TypeOK /\ session \in [Conns -> S!Sessions] /\ open \subseteq Conns
        /\ MaxChallenges \in Nat
    BY ChatdAssumption, ZenonT(30) DEF Inv, Typed, S!TypeOK
  <2>5. /\ t.username = k /\ t.authenticated = TRUE
        /\ t.pending = S!AuthOk /\ t.challenge = 0
        /\ t \in [username : {k}, challenge : {0}, authenticated : BOOLEAN,
                  pending : {S!AuthOk}]
    BY <2>3, ZenonT(30)
  <2>6. S!AuthOk \in S!Messages /\ S!AuthOk.type = "auth_ok"
    BY DEF S!AuthOk, S!Messages
  <2>7. /\ online' = online \cup {k}
        /\ wsi' = [wsi EXCEPT ![k] = c]
    BY <1>2, <2>3 DEF S!SetOnline
  <2> HIDE DEF k, t, n
  <2>8. t \in S!Sessions
    BY <2>1, <2>4, <2>5, <2>6 DEF S!Sessions
  <2>9. /\ session' \in [Conns -> S!Sessions] /\ session'[c] = t
        /\ \A e \in Conns \ {c} : session'[e] = session[e]
    BY <1>2, <2>1, <2>4, <2>8, ZenonT(30)
  <2>10. /\ wsi' \in [Daemons -> Conns \cup {NoConn}]
         /\ wsi'[k] = c /\ \A u \in Daemons \ {k} : wsi'[u] = wsi[u]
    BY <2>1, <2>4, <2>7, ZenonT(30) DEF S!TypeOK
  <2>11. S!TypeOK'
    BY <1>2, <2>1, <2>4, <2>7, <2>9, <2>10, ZenonT(30) DEF S!TypeOK
  <2>12. Present'
    <3>1. \A e \in open' : session'[e].authenticated =>
            session'[e].username # NoUser /\ identity_pk'[session'[e].username] # NoKey
      BY <1>2, <2>1, <2>3, <2>4, <2>5, <2>9, ZenonT(30) DEF Inv, Present
    <3>2. \A u \in Daemons : u \in online' <=> wsi'[u] # NoConn
      BY <2>1, <2>7, <2>10, ZenonT(30) DEF Inv, Present
    <3>3. \A u \in Daemons \ {k} : wsi[u] # NoConn =>
            /\ wsi[u] \in open /\ session'[wsi[u]].authenticated
            /\ client[wsi[u]].key = u
      BY <2>4, <2>9 DEF Inv, Present, k
    <3>4. session'[c].authenticated /\ client[c].key = k
      BY <2>5, <2>9, ZenonT(30) DEF k
    <3>5. \A u \in Daemons : wsi'[u] # NoConn =>
            /\ wsi'[u] \in open' /\ session'[wsi'[u]].authenticated
            /\ client'[wsi'[u]].key = u
      BY <1>2, <2>10, <3>3, <3>4, ZenonT(30)
    <3> QED
      BY <3>1, <3>2, <3>5, ZenonT(30) DEF Present
  <2>13. \A e \in open : session'[e].pending # Empty
          /\ session'[e].pending.type \in SignalTypes
          => session'[e].pending.from # client[e].key
    <3>1. session'[c].pending.type \notin SignalTypes
      BY <2>5, <2>6, <2>9, ZenonT(30) DEF SignalTypes
    <3> QED
      BY <2>4, <2>9, <3>1 DEF Inv, Apart
  <2>14. \A e \in open \ {c} :
          Login(client[e].key, session'[e], client[e].heard, up[e], down[e], Held(e))
    BY <2>4, <2>9 DEF Inv, LoggingIn
  <2>15. Login(client[c].key, session'[c], client[c].heard, Tail(up[c]), down[c], Held(c))
    <3>1. /\ session'[c].username = session[c].username
          /\ session'[c].authenticated = TRUE
          /\ session'[c].pending.type = "auth_ok"
          /\ session[c].username # NoUser
      BY <2>2, <2>3, <2>5, <2>6, <2>9, ZenonT(30) DEF n
    <3>2. Login(client[c].key, session[c], client[c].heard, Tail(up[c]), down[c], Held(c))
      BY ReadHead, ZenonT(30)
    <3> QED
      BY <3>1, <3>2, LoginAccepted, ZenonT(30)
  <2> QED
    BY <1>2, <2>11, <2>12, <2>13, <2>14, <2>15, ReadFrame, ZenonT(30)
<1> QED
  BY <1>1, <1>2 DEF S!HandleAuthResponse

(* handle_signaling_forward preserves Inv. *)
LEMMA HandleSignalingForwardInv ==
    ASSUME Inv, NEW c \in open, up[c] # <<>>, up' = [up EXCEPT ![c] = Tail(@)],
           UNCHANGED <<chatd, down, opens>>,
           NEW type \in SignalTypes, NEW to \in Daemons, to # client[c].key,
           NEW body \in Bodies,
           S!HandleSignalingForward(c, type, client[c].key, to, client[c].key, body)
    PROVE  Inv'
<1> DEFINE k == client[c].key
           e == wsi[to]
           m == S!Relay(c, type, k, to, k, body)
<1>1. CASE \E code : S!SendError(c, code)
  BY <1>1, SendErrorInv, ZenonT(30)
<1>2. ASSUME UNCHANGED <<identity_pk, online, wsi, open, session, client, nonce>>
      PROVE  Inv'
  <2>1. S!TypeOK' /\ Present'
    BY <1>2, ZenonT(30) DEF Inv, Typed, S!TypeOK, Present, S!Registered
  <2> QED
    BY <1>2, <2>1, SlotsInv, ZenonT(30)
<1>3. ASSUME /\ e \in open
             /\ S!SendJson(e, m)
             /\ UNCHANGED <<identity_pk, online, wsi, open, client, nonce>>
      PROVE  Inv'
  <2>1. k \in Daemons /\ e \in Conns /\ NoConn \notin Conns
    BY <1>3, ClientIn, ChatdAssumption, ZenonT(30) DEF Inv, Typed
  <2>2. m = [type |-> type, from |-> k, to |-> to, public_key |-> k,
             body |-> body, origin |-> k]
    BY DEF S!Relay
  <2>3. session' = [session EXCEPT ![e].pending = m]
    BY <1>3, ZenonT(30) DEF S!SendJson
  <2>4. client[e].key = to
    BY <1>3, <2>1, ZenonT(30) DEF Inv, Present
  <2> HIDE DEF k, e, m
  <2>5. m.type \in SignalTypes /\ m.from = k /\ k # to
    BY <2>2 DEF k
  <2>6. m \in S!Messages
    <3>1. m \in S!RelayMessages
      BY <2>1, <2>2, ZenonT(30) DEF S!RelayMessages, SignalTypes, Bodies
    <3> QED
      BY <3>1, ZenonT(30) DEF S!Messages
  <2>7. S!TypeOK /\ session \in [Conns -> S!Sessions] /\ open \subseteq Conns
    BY DEF Inv, Typed, S!TypeOK
  <2>8. /\ session' \in [Conns -> S!Sessions]
        /\ \A x \in Conns \ {e} : session'[x] = session[x]
        /\ session'[e].username = session[e].username
        /\ session'[e].authenticated = session[e].authenticated
        /\ session'[e].pending = m
    BY <2>1, <2>3, <2>6, <2>7, ZenonT(30) DEF S!Sessions
  <2>9. S!TypeOK'
    BY <1>3, <2>7, <2>8, ZenonT(30) DEF S!TypeOK
  <2>10. Present'
    <3>1. \A x \in open : /\ session'[x].username = session[x].username
                          /\ session'[x].authenticated = session[x].authenticated
      BY <2>7, <2>8, ZenonT(30)
    <3> QED
      BY <1>3, <3>1, ZenonT(30) DEF Inv, Present
  <2>11. Plain(m)
    BY <2>5 DEF Plain, Is, SignalTypes
  <2> QED
    BY <1>3, <2>4, <2>5, <2>7, <2>8, <2>9, <2>10, <2>11, SlotsInv, ZenonT(30)
<1> QED
  BY <1>1, <1>2, <1>3, ZenonT(30) DEF S!HandleSignalingForward, S!Target, S!registry

(* A message the server reads preserves Inv. *)
LEMMA ServerReceivesInv ==
    ASSUME Inv, NEW c \in Conns, ServerReceives(c)
    PROVE  Inv'
<1> DEFINE m == Head(up[c])
           k == client[c].key
<1>1. /\ c \in open /\ up[c] # <<>> /\ up' = [up EXCEPT ![c] = Tail(@)]
      /\ ServerHandles(c, m)
      /\ UNCHANGED <<chatd, down, opens>>
  BY ZenonT(30) DEF ServerReceives, budget
<1>2. k \in Daemons /\ m \in FromDaemon(k)
  BY <1>1, ReadHead, ClientIn, ZenonT(30) DEF Inv, Typed
<1> HIDE DEF m, k
<1>3. CASE m.type = "register" /\ S!HandleRegister(c, m.username, m.key)
  <2>1. m.username = k /\ m.key = k
    BY <1>2, <1>3, SentFields
  <2>2. S!HandleRegister(c, k, k)
    BY <1>3, <2>1
  <2> QED
    BY <1>1, <2>2, HandleRegisterInv, ZenonT(30) DEF k
<1>4. CASE m.type = "hello" /\ S!HandleHello(c, m.username)
  <2>1. m.username = k
    BY <1>2, <1>4, SentFields
  <2>2. S!HandleHello(c, k)
    BY <1>4, <2>1
  <2> QED
    BY <1>1, <1>4, <2>2, HandleHelloInv, ZenonT(30) DEF k, m
<1>5. CASE m.type = "auth_response" /\ S!HandleAuthResponse(c, m.signature)
  BY <1>1, <1>5, HandleAuthResponseInv, ZenonT(30)
<1>6. CASE /\ m.type \in S!SignalingTypes
           /\ S!HandleSignalingForward(c, m.type, m.from, m.to, m.key, m.body)
  <2>1. /\ m.type \in SignalTypes /\ m.from = k /\ m.to \in Daemons /\ m.to # k
        /\ m.key = k /\ m.body \in Bodies
    BY <1>2, <1>6, SentFields, ZenonT(30)
  <2>2. S!HandleSignalingForward(c, m.type, k, m.to, k, m.body)
    BY <1>6, <2>1
  <2> QED
    BY <1>1, <2>1, <2>2, HandleSignalingForwardInv, ZenonT(30) DEF k
<1> QED
  BY <1>1, <1>3, <1>4, <1>5, <1>6, ZenonT(30) DEF ServerHandles

(* A slot the server writes to the wire preserves Inv. *)
LEMMA ServerWritesInv ==
    ASSUME Inv, NEW c \in Conns, ServerWrites(c)
    PROVE  Inv'
<1> DEFINE m == session[c].pending
           h == IF m.type = "auth_challenge" THEN m.challenge ELSE client[c].heard
           v == IF Holders(c) # {} THEN Append(down[c], m) ELSE down[c]
<1>1. /\ Len(down[c]) < WireCapacity
      /\ c \in open /\ m # Empty
      /\ session' = [session EXCEPT ![c].pending = Empty]
      /\ client' = [client EXCEPT ![c].heard = h]
      /\ UNCHANGED <<identity_pk, online, wsi, open, nonce, chatd, up, opens>>
      /\ down' = [down EXCEPT ![c] = v]
  BY DEF ServerWrites, S!Writeable, S!registry, budget
<1>2. /\ S!TypeOK /\ session \in [Conns -> S!Sessions] /\ open \subseteq Conns
      /\ client \in [Conns -> [key : Daemons \cup {NoKey}, heard : 0 .. MaxChallenges]]
      /\ up \in [Conns -> Seq(UpMessages)] /\ down \in [Conns -> Seq(S!Messages)]
      /\ \A e \in Conns : Len(up[e]) <= WireCapacity /\ Len(down[e]) <= WireCapacity
  BY ZenonT(30) DEF Inv, Typed, S!TypeOK
<1>3. m \in S!Messages
  BY <1>1, <1>2 DEF S!Sessions
<1>4. h \in 0 .. MaxChallenges
  <2>1. client[c].heard \in 0 .. MaxChallenges
    BY <1>2, ZenonT(30)
  <2>2. m.type = "auth_challenge" => m.challenge \in 0 .. MaxChallenges
    BY <1>3, ChatdAssumption
    DEF S!Messages, S!RegisterOk, S!AuthOk, S!RelayMessages
  <2> QED
    BY <2>1, <2>2
<1>5. /\ v \in Seq(S!Messages) /\ Len(v) <= WireCapacity
      /\ v \in {down[c], Append(down[c], m)}
      /\ \A i \in DOMAIN v : \/ i \in DOMAIN down[c] /\ v[i] = down[c][i]
                             \/ v[i] = m
  <2>1. down[c] \in Seq(S!Messages) /\ Len(down[c]) \in Nat
    BY <1>2, WireIn
  <2> HIDE DEF m
  <2> QED
    BY <1>1, <1>3, <2>1, WrittenIn, PlaneAssumption
<1>6. session[c].pending = m
  OBVIOUS
<1>7. h = IF session[c].pending.type = "auth_challenge" THEN session[c].pending.challenge
          ELSE client[c].heard
  OBVIOUS
<1> HIDE DEF h, v, m
<1>8. /\ session' \in [Conns -> S!Sessions]
      /\ \A e \in Conns \ {c} : session'[e] = session[e]
      /\ session'[c].username = session[c].username
      /\ session'[c].authenticated = session[c].authenticated
      /\ session'[c].pending = Empty
  BY <1>1, <1>2, ZenonT(30) DEF S!Sessions
<1>9. /\ client' \in [Conns -> [key : Daemons \cup {NoKey}, heard : 0 .. MaxChallenges]]
      /\ \A e \in Conns \ {c} : client'[e] = client[e]
      /\ client'[c].key = client[c].key /\ client'[c].heard = h
  BY <1>1, <1>2, <1>4, ZenonT(30)
<1>10. /\ down' \in [Conns -> Seq(S!Messages)]
       /\ down'[c] = v /\ \A e \in Conns \ {c} : down'[e] = down[e]
  BY <1>1, <1>2, <1>5
<1>11. \A e \in Conns : Len(up'[e]) <= WireCapacity /\ Len(down'[e]) <= WireCapacity
  BY <1>1, <1>2, <1>5, <1>10
<1>12. \A e \in open : client'[e].key = client[e].key
  BY <1>2, <1>9, ZenonT(30)
<1>13. S!TypeOK'
  BY <1>1, <1>2, <1>8, <1>9, ZenonT(30) DEF S!TypeOK
<1>14. Present'
  <2>1. \A e \in open' : session'[e].authenticated =>
          session'[e].username # NoUser /\ identity_pk'[session'[e].username] # NoKey
    BY <1>1, <1>2, <1>8 DEF Inv, Present
  <2>2. \A u \in Daemons : wsi'[u] # NoConn =>
          /\ wsi'[u] \in open' /\ session'[wsi'[u]].authenticated
          /\ client'[wsi'[u]].key = u
    BY <1>1, <1>2, <1>8, <1>12 DEF Inv, Present
  <2> QED
    BY <1>1, <2>1, <2>2 DEF Inv, Present
<1>15. Apart'
  <2>1. \A e \in open' : session'[e].pending # Empty
          /\ session'[e].pending.type \in SignalTypes
          => session'[e].pending.from # client'[e].key
    BY <1>1, <1>2, <1>8, <1>12, ZenonT(30) DEF Inv, Apart
  <2>2. ASSUME NEW d \in Daemons, chatd[d].wsi \in Conns,
               NEW i \in DOMAIN down'[chatd[d].wsi],
               down'[chatd[d].wsi][i].type \in SignalTypes
        PROVE  down'[chatd[d].wsi][i].from # d
    <3>1. CASE chatd[d].wsi = c
      <4>1. client[c].key = d
        BY <1>1, <3>1 DEF Inv, Owned
      <4>2. m.type \in SignalTypes => m.from # d
        BY <1>1, <1>6, <4>1, ZenonT(30) DEF Inv, Apart
      <4>3. i \in DOMAIN v /\ v[i].type \in SignalTypes /\ down'[chatd[d].wsi][i] = v[i]
        BY <1>10, <2>2, <3>1, ZenonT(30)
      <4>4. \A j \in DOMAIN down[c] : down[c][j].type \in SignalTypes => down[c][j].from # d
        BY <3>1, ZenonT(30) DEF Inv, Apart
      <4> QED
        BY <1>5, <4>2, <4>3, <4>4
    <3>2. CASE chatd[d].wsi # c
      <4>1. down'[chatd[d].wsi] = down[chatd[d].wsi]
        BY <1>10, <2>2, <3>2
      <4> QED
        BY <2>2, <4>1, ZenonT(30) DEF Inv, Apart
    <3> QED
      BY <3>1, <3>2, ZenonT(30)
  <2> QED
    BY <1>1, <2>1, <2>2, ZenonT(30) DEF Apart
<1>16. \A e \in open : Login(client[e].key, session'[e], client'[e].heard,
                             up'[e], down'[e], Held(e))
  <2>1. \A e \in open : Login(client[e].key, session[e], client[e].heard,
                              up[e], down[e], Held(e))
    BY DEF Inv, LoggingIn
  <2>2. \A e \in open \ {c} : Login(client[e].key, session'[e], client'[e].heard,
                                    up'[e], down'[e], Held(e))
    BY <1>1, <1>2, <1>8, <1>9, <1>10, <2>1
  <2>3. Login(client[c].key, session'[c], h, up[c], v, Held(c))
    <3>1. Login(client[c].key, session[c], client[c].heard, up[c], down[c], Held(c))
      BY <1>1, <2>1
    <3>2. v \in {down[c], Append(down[c], session[c].pending)}
          /\ session[c].pending \in S!Messages /\ session[c].pending # Empty
          /\ down[c] \in Seq(S!Messages)
      BY <1>1, <1>2, <1>3, <1>5, <1>6, ZenonT(30)
    <3>3. /\ session'[c].username = session[c].username
          /\ session'[c].authenticated = session[c].authenticated
          /\ session'[c].pending = Empty
      BY <1>8
    <3> QED
      BY <1>7, <3>1, <3>2, <3>3, LoginWritten, ZenonT(30)
  <2> QED
    BY <1>1, <1>9, <1>10, <2>2, <2>3, ZenonT(30)
<1>17. \A e \in open : \A i \in DOMAIN up'[e] : up'[e][i] \in FromDaemon(client[e].key)
  BY <1>1 DEF Inv, Owned
<1>18. up' \in [Conns -> Seq(UpMessages)]
  BY <1>1, <1>2
<1> QED
  BY <1>1, <1>10, <1>11, <1>12, <1>13, <1>14, <1>15, <1>16, <1>17, <1>18, ServerFrame, ZenonT(30)

(* callback_chat_control, CLOSED *)
LEMMA ClosedInv ==
    ASSUME Inv, NEW c \in Conns, S!Closed(c), UNCHANGED <<chatd, up, down, opens>>
    PROVE  Inv'
<1>1. /\ c \in open /\ open' = open \ {c}
      /\ session' = [session EXCEPT ![c] = S!NewSession]
      /\ client' = [client EXCEPT ![c] = S!NoClient]
      /\ identity_pk' = identity_pk /\ nonce' = nonce
      /\ \/ session[c].authenticated /\ S!SetOfflineByWsi(c)
         \/ ~session[c].authenticated /\ UNCHANGED <<online, wsi>>
  BY ZenonT(30) DEF S!Closed
<1>2. S!TypeOK /\ open \subseteq Conns /\ NoConn \notin Conns
  BY ChatdAssumption DEF Inv, Typed, S!TypeOK
<1>3. /\ session' \in [Conns -> S!Sessions]
      /\ \A e \in Conns \ {c} : session'[e] = session[e]
  <2>1. S!NewSession \in S!Sessions
    BY ChatdAssumption DEF S!NewSession, S!Sessions
  <2> QED
    BY <1>1, <1>2, <2>1, ZenonT(30) DEF S!TypeOK
<1>4. /\ client' \in [Conns -> [key : Daemons \cup {NoKey}, heard : 0 .. MaxChallenges]]
      /\ \A e \in Conns \ {c} : client'[e] = client[e]
  <2>1. S!NoClient \in [key : Daemons \cup {NoKey}, heard : 0 .. MaxChallenges]
    BY ChatdAssumption DEF S!NoClient
  <2> QED
    BY <1>1, <1>2, <2>1 DEF S!TypeOK
<1>5. /\ online' \subseteq Daemons /\ wsi' \in [Daemons -> Conns \cup {NoConn}]
      /\ \A u \in Daemons : /\ wsi'[u] = IF wsi[u] = c THEN NoConn ELSE wsi[u]
                            /\ u \in online' <=> u \in online /\ wsi[u] # c
  <2>1. CASE session[c].authenticated /\ S!SetOfflineByWsi(c)
    BY <1>2, <2>1 DEF S!SetOfflineByWsi, S!TypeOK
  <2>2. CASE ~session[c].authenticated /\ UNCHANGED <<online, wsi>>
    <3>1. \A u \in Daemons : wsi[u] # c
      BY <1>2, <2>2, ZenonT(30) DEF Inv, Present
    <3> QED
      BY <1>2, <2>2, <3>1, ZenonT(30) DEF S!TypeOK
  <2> QED
    BY <1>1, <2>1, <2>2, ZenonT(30)
<1>6. S!TypeOK'
  <2>1. \A e \in open' : client'[e].key \in Daemons
    BY <1>1, <1>2, <1>4, ZenonT(30) DEF S!TypeOK
  <2> QED
    BY <1>1, <1>2, <1>3, <1>4, <1>5, <2>1, ZenonT(30) DEF S!TypeOK
<1>7. Present'
  <2>1. \A e \in open' : session'[e].authenticated =>
          session'[e].username # NoUser /\ identity_pk'[session'[e].username] # NoKey
    BY <1>1, <1>2, <1>3, ZenonT(30) DEF Inv, Present
  <2>2. \A u \in Daemons : u \in online' <=> wsi'[u] # NoConn
    BY <1>2, <1>5, ZenonT(30) DEF Inv, Present
  <2>3. \A u \in Daemons : wsi'[u] # NoConn =>
          /\ wsi'[u] \in open' /\ session'[wsi'[u]].authenticated
          /\ client'[wsi'[u]].key = u
    BY <1>1, <1>2, <1>3, <1>4, <1>5 DEF Inv, Present
  <2> QED
    BY <2>1, <2>2, <2>3, ZenonT(30) DEF Present
<1>8. Typed'
  BY <1>6, DaemonsAlone, ZenonT(30) DEF Inv, Typed
<1>9. Owned'
  BY <1>1, <1>2, <1>4, ZenonT(30) DEF Inv, Owned
<1>10. Apart'
  BY <1>1, <1>2, <1>3, <1>4, ZenonT(30) DEF Inv, Apart
<1>11. LoggingIn'
  <2>1. \A e \in open' : session'[e] = session[e] /\ client'[e] = client[e] /\ e \in open
    BY <1>1, <1>2, <1>3, <1>4
  <2>2. \A e : Held(e)' = Held(e)
    BY DaemonsAlone
  <2> QED
    BY <2>1, <2>2 DEF Inv, LoggingIn
<1> QED
  BY <1>7, <1>8, <1>9, <1>10, <1>11, ZenonT(30) DEF Inv

(* The server is killed and starts again with an empty registry. *)
LEMMA ServerRestartsInv ==
    ASSUME Inv, ServerRestarts
    PROVE  Inv'
<1>1. /\ open' = {} /\ online' = {}
      /\ identity_pk' = [u \in Daemons |-> NoKey]
      /\ wsi' = [u \in Daemons |-> NoConn]
      /\ session' = [c \in Conns |-> S!NewSession]
      /\ client' = [c \in Conns |-> S!NoClient]
      /\ nonce' = nonce
      /\ UNCHANGED <<chatd, up, down, opens>>
  BY ZenonT(30) DEF ServerRestarts, S!Restart
<1>2. S!NewSession \in S!Sessions
      /\ S!NoClient \in [key : Daemons \cup {NoKey}, heard : 0 .. MaxChallenges]
  BY ChatdAssumption DEF S!NewSession, S!Sessions, S!NoClient
<1>3. S!TypeOK'
  BY <1>1, <1>2, ZenonT(30) DEF Inv, Typed, S!TypeOK
<1>4. Typed'
  BY <1>1, <1>3, DaemonsAlone, ZenonT(30) DEF Inv, Typed
<1>5. Owned' /\ Present' /\ LoggingIn'
  BY <1>1, ZenonT(30) DEF Owned, Present, LoggingIn
<1>6. Apart'
  BY <1>1, ZenonT(30) DEF Inv, Apart
<1> QED
  BY <1>4, <1>5, <1>6, ZenonT(30) DEF Inv

-----------------------------------------------------------------------------
(* The daemons are clients such as ControlServer assumes.                  *)

(* The server reads what any client might send it. *)
LEMMA ServerReceivesRefined ==
    ASSUME Inv, NEW c \in Conns, ServerReceives(c)
    PROVE  S!Receive(c)
<1> DEFINE m == Head(up[c])
           k == client[c].key
<1>1. c \in open /\ up[c] # <<>> /\ ServerHandles(c, m)
  BY ZenonT(30) DEF ServerReceives
<1>2. /\ k \in Daemons /\ m \in FromDaemon(k)
      /\ 1 \in DOMAIN up[c] /\ up[c][1] = m
      /\ Login(k, session[c], client[c].heard, up[c], down[c], Held(c))
  BY <1>1, ReadHead, ClientIn, ReadIn, ZenonT(30) DEF Inv, Typed
<1>3. \A u \in Daemons : u \in S!Names /\ u \in S!KeyFields
  BY ZenonT(30) DEF S!Names, S!KeyFields
<1> HIDE DEF m, k
<1>4. CASE m.type = "register" /\ S!HandleRegister(c, m.username, m.key)
  <2>1. m.username \in S!Names /\ m.key \in S!KeyFields
    BY <1>2, <1>3, <1>4, SentFields, ZenonT(30)
  <2>2. \E u \in S!Names, pk \in S!KeyFields : S!HandleRegister(c, u, pk)
    BY <1>4, <2>1, ZenonT(30)
  <2> QED
    BY <1>1, <2>2, ZenonT(30) DEF S!Receive
<1>5. CASE m.type = "hello" /\ S!HandleHello(c, m.username)
  <2>1. session[c].username = NoUser
    BY <1>2, <1>5, ZenonT(30) DEF Login, HelloOk, Sent, Carries
  <2> QED
    BY <1>1, <1>2, <1>3, <1>5, <2>1, SentFields, ZenonT(30) DEF S!Receive, S!MayHello
<1>6. CASE m.type = "auth_response" /\ S!HandleAuthResponse(c, m.signature)
  <2>1. m.signature = [key |-> k, challenge |-> client[c].heard]
    BY <1>2, <1>6, ZenonT(30) DEF Login, AnswerOk
  <2>2. m.signature \in S!Signatures(c)
    BY <2>1, ZenonT(30) DEF S!Signatures, k
  <2> QED
    BY <1>1, <1>6, <2>2, ZenonT(30) DEF S!Receive
<1>7. CASE /\ m.type \in S!SignalingTypes
           /\ S!HandleSignalingForward(c, m.type, m.from, m.to, m.key, m.body)
  <2>1. /\ m.type \in SignalTypes /\ m.from = k /\ m.to \in Daemons
        /\ m.key = k /\ m.body \in Bodies
    BY <1>2, <1>7, SentFields, ZenonT(30)
  <2>2. \E type \in SignalTypes, from, to \in S!Names, pk \in S!KeyFields, body \in Bodies :
            S!HandleSignalingForward(c, type, from, to, pk, body)
    BY <1>2, <1>3, <1>7, <2>1, ZenonT(30)
  <2> QED
    BY <1>1, <2>2, ZenonT(30) DEF S!Receive, SignalTypes, Bodies
<1> QED
  BY <1>1, <1>4, <1>5, <1>6, <1>7 DEF ServerHandles

-----------------------------------------------------------------------------
(* The registry follows the connection a daemon has.                       *)

(* Who an authenticated connection is. *)
LEMMA AuthenticatedAs ==
    ASSUME Inv, NEW c \in open, session[c].authenticated
    PROVE  session[c].username = client[c].key /\ identity_pk[client[c].key] # NoKey
<1>1. Login(client[c].key, session[c], client[c].heard, up[c], down[c], Held(c))
  BY ZenonT(30) DEF Inv, LoggingIn
<1>2. session[c].username \in {NoUser, client[c].key}
  BY <1>1, ZenonT(30) DEF Login
<1> QED
  BY <1>2, ZenonT(30) DEF Inv, Present

(* A holder of an open connection is the daemon whose key it has. *)
LEMMA HolderIs ==
    ASSUME Inv, NEW c \in open, Holders(c) # {}
    PROVE  chatd[client[c].key].wsi = c
BY ZenonT(30) DEF Inv, Owned, Holders

(* A step that registers nobody and authenticates nobody. *)
LEMMA PointedQuiet ==
    ASSUME Inv, Pointed, wsi' = wsi, open' = open,
           \A c \in open : /\ client'[c].key = client[c].key
                           /\ session'[c].authenticated => session[c].authenticated
                           /\ Holders(c)' # {} => Holders(c) # {}
    PROVE  Pointed'
BY ZenonT(30) DEF Pointed

(* A message the server reads preserves Pointed: nobody else has the       *)
(* connection of a user that logs in.                                      *)
LEMMA ServerReceivesPointed ==
    ASSUME Inv, Pointed, "late" \notin Faults, NEW c \in Conns, ServerReceives(c)
    PROVE  Pointed'
<1> DEFINE m == Head(up[c])
           k == client[c].key
<1>1. /\ c \in open /\ up[c] # <<>> /\ Holders(c) # {}
      /\ ServerHandles(c, m) /\ chatd' = chatd
  BY ZenonT(30) DEF ServerReceives
<1>2. k \in Daemons /\ m \in FromDaemon(k) /\ k # NoUser
  BY <1>1, ReadHead, ClientIn, ZenonT(30) DEF Inv, Typed
<1>3. /\ session \in [Conns -> S!Sessions] /\ wsi \in [Daemons -> Conns \cup {NoConn}]
      /\ open \subseteq Conns /\ \A e \in open : client[e].key \in Daemons
  BY DEF Inv, Typed, S!TypeOK
<1>4. \A e : Holders(e)' = Holders(e)
  BY <1>1, ZenonT(30) DEF Holders
<1> HIDE DEF m, k
<1>5. ASSUME wsi' = wsi, open' = open, client' = client,
             \A e \in open : session'[e].authenticated => session[e].authenticated
      PROVE  Pointed'
  BY <1>4, <1>5, PointedQuiet
<1>6. ASSUME NEW e \in Conns, NEW x, S!SendJson(e, x),
             UNCHANGED <<wsi, open, client>>
      PROVE  Pointed'
  <2>1. \A y \in open : session'[y].authenticated = session[y].authenticated
    BY <1>3, <1>6 DEF S!SendJson, S!Sessions
  <2> QED
    BY <1>5, <1>6, <2>1
<1>7. ASSUME NEW code, S!SendError(c, code)
      PROVE  Pointed'
  BY <1>6, <1>7 DEF S!SendError, S!registry
<1>8. CASE m.type = "register" /\ S!HandleRegister(c, m.username, m.key)
  <2>1. S!HandleRegister(c, k, k)
    BY <1>2, <1>8, SentFields, ZenonT(30)
  <2>2. ASSUME /\ S!RegisterResult(k) = "ok"
               /\ wsi' = [wsi EXCEPT ![k] = NoConn]
               /\ S!SendJson(c, S!RegisterOk)
               /\ UNCHANGED <<open, client, nonce>>
        PROVE  Pointed'
    <3>1. identity_pk[k] = NoKey
      BY <1>2, <2>2 DEF S!RegisterResult, S!Find, S!Registered
    <3>2. \A y \in open : session'[y].authenticated = session[y].authenticated
      BY <1>3, <2>2, ZenonT(30) DEF S!SendJson, S!Sessions
    <3>3. \A y \in open : session[y].authenticated => client[y].key # k
      BY <3>1, AuthenticatedAs, ZenonT(30)
    <3>4. \A u \in Daemons \ {k} : wsi'[u] = wsi[u]
      BY <1>3, <2>2, ZenonT(30)
    <3> QED
      BY <1>3, <1>4, <2>2, <3>2, <3>3, <3>4, ZenonT(30) DEF Pointed
  <2> QED
    BY <1>7, <2>1, <2>2, ZenonT(30) DEF S!HandleRegister
<1>9. CASE m.type = "hello" /\ S!HandleHello(c, m.username)
  <2>1. ASSUME session' = [session EXCEPT ![c] =
                  [username |-> m.username, challenge |-> nonce + 1,
                   authenticated |-> FALSE, pending |-> S!Challenge(nonce + 1)]],
               UNCHANGED <<wsi, open, client>>
        PROVE  Pointed'
    <3>1. \A e \in open : session'[e].authenticated => session[e].authenticated
      BY <1>3, <2>1, ZenonT(30)
    <3> QED
      BY <1>5, <2>1, <3>1, ZenonT(30)
  <2> QED
    BY <1>7, <1>9, <2>1, ZenonT(30) DEF S!HandleHello, S!registry
<1>10. CASE m.type = "auth_response" /\ S!HandleAuthResponse(c, m.signature)
  <2>1. ASSUME /\ S!AuthResult(c, m.signature) = "ok"
               /\ session' = [session EXCEPT ![c] =
                    [username |-> session[c].username, challenge |-> 0,
                     authenticated |-> TRUE, pending |-> S!AuthOk]]
               /\ S!SetOnline(session[c].username, c)
               /\ UNCHANGED <<open, client>>
        PROVE  Pointed'
    <3>1. session[c].username = k
      <4>1. session[c].username # NoUser
        BY <2>1, ZenonT(30) DEF S!AuthResult
      <4> QED
        BY <1>1, <4>1, ReadHead, ZenonT(30) DEF Login, k
    <3>2. /\ wsi'[k] = c /\ \A u \in Daemons \ {k} : wsi'[u] = wsi[u]
          /\ \A e \in open \ {c} : session'[e] = session[e]
      BY <1>2, <1>3, <2>1, <3>1, ZenonT(30) DEF S!SetOnline
    <3>3. ASSUME NEW e \in open, Holders(e) # {}, client[e].key = k
          PROVE  e = c
      BY <1>1, <3>3, HolderIs, ZenonT(30) DEF k
    <3>4. client[c].key = k
      BY ZenonT(30) DEF k
    <3>5. SUFFICES ASSUME NEW e \in open, Holders(e) # {}, session'[e].authenticated
                   PROVE  wsi'[client[e].key] = e
      BY <1>4, <2>1, ZenonT(30) DEF Pointed, Holders
    <3>6. CASE e = c
      BY <3>2, <3>4, <3>6, ZenonT(30)
    <3>7. CASE e # c
      <4>1. client[e].key # k /\ client[e].key \in Daemons
        BY <1>3, <3>3, <3>5, <3>7, ZenonT(30)
      <4>2. wsi[client[e].key] = e
        BY <1>4, <3>2, <3>5, <3>7, ZenonT(30) DEF Pointed
      <4> QED
        BY <3>2, <4>1, <4>2, ZenonT(30)
    <3> QED
      BY <3>6, <3>7, ZenonT(30)
  <2> QED
    BY <1>7, <1>10, <2>1, ZenonT(30) DEF S!HandleAuthResponse
<1>11. CASE /\ m.type \in S!SignalingTypes
            /\ S!HandleSignalingForward(c, m.type, m.from, m.to, m.key, m.body)
  <2>1. CASE UNCHANGED <<identity_pk, online, wsi, open, session, client, nonce>>
    BY <1>5, <2>1, ZenonT(30)
  <2>2. ASSUME NEW e \in open, NEW x, S!SendJson(e, x),
               UNCHANGED <<identity_pk, online, wsi, open, client, nonce>>
        PROVE  Pointed'
    BY <1>3, <1>6, <2>2
  <2> QED
    BY <1>7, <1>11, <2>1, <2>2, ZenonT(30) DEF S!HandleSignalingForward, S!registry
<1> QED
  BY <1>1, <1>8, <1>9, <1>10, <1>11, ZenonT(30) DEF ServerHandles

(* A step of the server preserves Pointed. *)
LEMMA ServerPointed ==
    ASSUME Inv, Pointed, "late" \notin Faults, NEW c \in Conns, ServerNext(c)
    PROVE  Pointed'
<1>0. /\ session \in [Conns -> S!Sessions] /\ open \subseteq Conns
      /\ client \in [Conns -> [key : Daemons \cup {NoKey}, heard : 0 .. MaxChallenges]]
      /\ \A e \in open : client[e].key \in Daemons
  BY DEF Inv, Typed, S!TypeOK
<1>1. CASE ServerReceives(c)
  BY <1>1, ServerReceivesPointed
<1>2. CASE ServerWrites(c)
  <2>1. /\ wsi' = wsi /\ open' = open /\ chatd' = chatd
        /\ session' = [session EXCEPT ![c].pending = Empty]
        /\ client' = [client EXCEPT ![c].heard =
              IF session[c].pending.type = "auth_challenge"
              THEN session[c].pending.challenge ELSE @]
    BY <1>2 DEF ServerWrites, S!Writeable, S!registry
  <2>2. \A e \in open : /\ client'[e].key = client[e].key
                        /\ session'[e].authenticated = session[e].authenticated
    BY <1>0, <2>1 DEF S!Sessions
  <2>3. \A e : Holders(e)' = Holders(e)
    BY <2>1, ZenonT(30) DEF Holders
  <2> QED
    BY <2>1, <2>2, <2>3, PointedQuiet
<1>3. CASE ServerSeesClose(c) \/ ServerLosesConnection(c)
  <2>1. S!Closed(c) /\ chatd' = chatd
    BY <1>3, ZenonT(30) DEF ServerSeesClose, ServerLosesConnection
  <2>2. /\ open' = open \ {c}
        /\ \A e \in open \ {c} : session'[e] = session[e] /\ client'[e] = client[e]
    BY <1>0, <2>1, ZenonT(30) DEF S!Closed
  <2>3. \A u \in Daemons : wsi'[u] \in {wsi[u], NoConn} /\ (wsi[u] # c => wsi'[u] = wsi[u])
    BY <2>1 DEF S!Closed, S!SetOfflineByWsi
  <2>4. \A e : Holders(e)' = Holders(e)
    BY <2>1 DEF Holders
  <2> QED
    BY <1>0, <2>2, <2>3, <2>4 DEF Pointed
<1> QED
  BY <1>1, <1>2, <1>3, ZenonT(30) DEF ServerNext
===============================================================================
