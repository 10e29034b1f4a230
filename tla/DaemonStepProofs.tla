--------------------------- MODULE DaemonStepProofs ---------------------------
(***************************************************************************)
(* The steps of one daemon: every event of the control connection, of its  *)
(* user and of service_ice_session preserves the invariant, whatever the   *)
(* other daemons and the server are doing.                                 *)
(***************************************************************************)
EXTENDS ControlPlaneInv, ChatdProofs

(* The leaves are for SMT, unless they name another prover. *)
USE SMTT(30), ZenonT(20), Z3T(30)

-----------------------------------------------------------------------------
(* What the lemmas on the steps of chatd ask for.                          *)

(* The session ids allowed for are in bounds. *)
LEMMA AllowanceIn ==
    ASSUME NEW o \in [Daemons -> 0 .. MaxOpens]
    PROVE  Allowed([d \in Daemons |-> o[d] * (1 + RetryMax)])
<1>1. ASSUME NEW n \in 0 .. MaxOpens
      PROVE  n * (1 + RetryMax) \in 0 .. MaxDrawn
  <2>1. n \in Nat /\ n <= MaxOpens /\ 1 + RetryMax \in Nat
    BY Bounds
  <2>2. n * (1 + RetryMax) \in Nat
    BY <2>1
  <2>3. n * (1 + RetryMax) <= MaxOpens * (1 + RetryMax)
    BY <2>1, Bounds
  <2> QED
    BY <2>2, <2>3, Bounds DEF MaxDrawn
<1> QED
  BY <1>1 DEF Allowed

(* A step that asks for no chat allows for no more ids. *)
LEMMA AllowanceSame ==
    ASSUME opens' = opens
    PROVE  Allowance' = Allowance
BY DEF Allowance

(* What the lemmas on the steps of chatd ask for. *)
LEMMA Ready ==
    ASSUME Inv
    PROVE  /\ ChatdOK(chatd, Allowance) /\ Allowed(Allowance)
           /\ opens \in [Daemons -> 0 .. MaxOpens]
BY AllowanceIn, ZenonT(30) DEF Inv, Typed, Allowance

-----------------------------------------------------------------------------
(* A step of one daemon that leaves the server alone.                      *)

(* A new connection. *)
LEMMA LoginNew ==
    ASSUME NEW key, NEW H,
           \A x \in H : x.phase = "REGISTER" /\ x.pending.type = "register"
    PROVE  Login(key, S!NewSession, 0, <<>>, <<>>, H)
<1> USE DEF Sent, Coming, Carries, Is, S!NewSession
<1>1. DOMAIN <<>> = {}
  OBVIOUS
<1>2. HelloOk(S!NewSession, <<>>, H)
  BY <1>1 DEF HelloOk
<1>3. FreshOk(S!NewSession, <<>>, <<>>, H)
  BY <1>1 DEF FreshOk
<1>4. ChallengeOk(S!NewSession, 0, <<>>, <<>>, H)
  BY <1>1 DEF ChallengeOk
<1>5. AnswerOk(key, 0, <<>>, H)
  BY <1>1 DEF AnswerOk
<1>6. DoneOk(S!NewSession, <<>>, H)
  BY <1>1 DEF DoneOk
<1> QED
  BY <1>2, <1>3, <1>4, <1>5, <1>6 DEF Login

(* An open connection belongs to a user. *)
LEMMA KeyIn ==
    ASSUME S!TypeOK, NEW c \in open
    PROVE  /\ c \in Conns /\ client[c].key \in Daemons
           /\ session[c] \in S!Sessions /\ client[c].key # NoUser
BY PlaneAssumption, ZenonT(30) DEF S!TypeOK

(* The parts of the invariant that speak of the server alone. *)
LEMMA ServerAlone ==
    ASSUME Inv, UNCHANGED server
    PROVE  /\ S!TypeOK' /\ Present'
           /\ open' = open /\ client' = client /\ session' = session
BY DEF Inv, Typed, S!TypeOK, Present, server, S!Registered

(* Only the daemon whose key a connection has can have it. *)
LEMMA HeldBy ==
    ASSUME Inv, NEW c \in open
    PROVE  Held(c) = IF chatd[client[c].key].wsi = c
                     THEN {Side(chatd[client[c].key])} ELSE {}
<1>1. client[c].key \in Daemons
  BY KeyIn DEF Inv, Typed
<1>2. Holders(c) = IF chatd[client[c].key].wsi = c THEN {client[c].key} ELSE {}
  BY <1>1 DEF Inv, Owned, Holders
<1> QED
  BY <1>2 DEF Held

(* A step of d changes what d's own connection is held by. *)
LEMMA HeldNext ==
    ASSUME Inv, NEW d \in Daemons, Alone(d), open' = open, client' = client,
           chatd'[d].wsi \in {chatd[d].wsi, NoConn}, NEW c \in open
    PROVE  Held(c)' = IF client[c].key # d THEN Held(c)
                      ELSE IF chatd'[d].wsi = c THEN {Side(chatd'[d])} ELSE {}
<1>1. client[c].key \in Daemons /\ c \in Conns /\ c # NoConn
  BY KeyIn, ChatdAssumption, ZenonT(30) DEF Inv, Typed
<1>2. \A x \in Daemons \ {d} : Side(chatd'[x]) = Side(chatd[x]) /\ chatd'[x].wsi = chatd[x].wsi
  BY DEF Alone, Alike, Side
<1>3. \A x \in Daemons : chatd[x].wsi = c => x = client[c].key
  BY DEF Inv, Owned
<1>4. \A x \in Daemons : chatd'[x].wsi = c => x = client[c].key
  BY <1>1, <1>2, <1>3, ZenonT(30)
<1>5. Held(c)' = {Side(chatd'[x]) : x \in {y \in Daemons : chatd'[y].wsi = c}}
  BY DEF Held, Holders
<1>6. CASE client[c].key # d
  <2>1. {y \in Daemons : chatd'[y].wsi = c} = {y \in Daemons : chatd[y].wsi = c}
    BY <1>2, <1>3, <1>4, <1>6, ZenonT(30)
  <2>2. \A y \in Daemons : chatd[y].wsi = c => Side(chatd'[y]) = Side(chatd[y])
    BY <1>2, <1>3, <1>6, ZenonT(30)
  <2>3. Held(c)' = Held(c)
    BY <1>5, <2>1, <2>2, ZenonT(30) DEF Held, Holders
  <2> QED
    BY <1>6, <2>3, ZenonT(30)
<1>7. CASE client[c].key = d
  <2>1. {y \in Daemons : chatd'[y].wsi = c} = IF chatd'[d].wsi = c THEN {d} ELSE {}
    BY <1>4, <1>7, ZenonT(30)
  <2> QED
    BY <1>5, <1>7, <2>1, ZenonT(30)
<1> QED
  BY <1>6, <1>7, ZenonT(30)

(* A step of d does not change whose the connections are. *)
LEMMA OwnedNext ==
    ASSUME Inv, NEW d \in Daemons, Alone(d), open' = open, client' = client, up' = up,
           chatd'[d].wsi \in {chatd[d].wsi, NoConn}
    PROVE  Owned'
<1>1. NoConn \notin open
  BY ChatdAssumption, ZenonT(30) DEF Inv, Typed, S!TypeOK
<1> QED
  BY <1>1 DEF Inv, Owned, Alone, Alike

(* A step of d that reads nothing leaves the relayed messages as they are. *)
LEMMA ApartNext ==
    ASSUME Inv, NEW d \in Daemons, Alone(d), open' = open, client' = client,
           session' = session, down' = down,
           chatd'[d].wsi \in {chatd[d].wsi, NoConn}
    PROVE  Apart'
<1>1. NoConn \notin Conns
  BY ChatdAssumption
<1> QED
  BY <1>1 DEF Inv, Apart, Alone, Alike

(* A step of d that neither reads nor writes the connection. *)
LEMMA DaemonQuiet ==
    ASSUME Inv, NEW d \in Daemons, Alone(d), UNCHANGED <<server, up, down>>,
           opens' \in [Daemons -> 0 .. MaxOpens],
           ChatdOK(chatd', Allowance'),
           chatd'[d].wsi \in {chatd[d].wsi, NoConn},
           chatd'[d].wsi # NoConn =>
               /\ chatd'[d].phase = chatd[d].phase
               /\ \/ chatd'[d].pending \in {chatd[d].pending, Empty}
                  \/ chatd'[d].pending \in SignalsOf(d)
    PROVE  Inv'
<1>1. /\ S!TypeOK' /\ Present'
      /\ open' = open /\ client' = client /\ session' = session
  BY ServerAlone
<1>2. Typed'
  BY <1>1, ZenonT(30) DEF Inv, Typed
<1>3. Owned' /\ Apart'
  BY <1>1, OwnedNext, ApartNext, ZenonT(30)
<1>4. LoggingIn'
  <2> SUFFICES ASSUME NEW c \in open
               PROVE  Login(client[c].key, session[c], client[c].heard, up[c], down[c],
                            Held(c)')
    BY <1>1, ZenonT(30) DEF LoggingIn
  <2>1. Login(client[c].key, session[c], client[c].heard, up[c], down[c], Held(c))
    BY ZenonT(30) DEF Inv, LoggingIn
  <2>2. Held(c)' = IF client[c].key # d THEN Held(c)
                   ELSE IF chatd'[d].wsi = c THEN {Side(chatd'[d])} ELSE {}
    BY <1>1, HeldNext, ZenonT(30)
  <2>3. CASE client[c].key # d
    BY <2>1, <2>2, <2>3, ZenonT(30)
  <2>4. CASE client[c].key = d /\ chatd'[d].wsi # c
    <3>1. Fewer(Held(c), Held(c)')
      BY <2>2, <2>4, ZenonT(30) DEF Fewer
    <3> QED
      BY <2>1, <3>1, LoginFewer, ZenonT(30)
  <2>5. CASE client[c].key = d /\ chatd'[d].wsi = c
    <3>1. c # NoConn
      BY KeyIn, ChatdAssumption, ZenonT(30) DEF Inv, Typed
    <3>2. chatd[d].wsi = c
      BY <2>5, <3>1, ZenonT(30)
    <3>3. Held(c) = {Side(chatd[d])} /\ Held(c)' = {Side(chatd'[d])}
      BY <2>2, <2>5, <3>2, HeldBy, ZenonT(30)
    <3>4. \A m \in SignalsOf(d) : m.type \in SignalTypes
      BY ZenonT(30) DEF SignalsOf
    <3>5. Fewer(Held(c), Held(c)')
      BY <2>5, <3>1, <3>3, <3>4 DEF Fewer, Side
    <3> QED
      BY <2>1, <3>5, LoginFewer
  <2> QED
    BY <2>3, <2>4, <2>5, ZenonT(30)
<1> QED
  BY <1>1, <1>2, <1>3, <1>4, ZenonT(30) DEF Inv

(* connect_control_server preserves Inv. *)
LEMMA DaemonConnectsInv ==
    ASSUME Inv, NEW d \in Daemons, DaemonConnects(d)
    PROVE  Inv'
<1>1. ChatdOK(chatd', Allowance) /\ Alone(d) /\ Keeps(d, chatd[d], chatd'[d])
  BY Ready, ConnectStep, ZenonT(30) DEF DaemonConnects
<1> QED
  BY <1>1, Ready, AllowanceSame, DaemonQuiet, ZenonT(30) DEF DaemonConnects, budget, Keeps

(* A connection attempt that fails preserves Inv. *)
LEMMA AttemptFailsInv ==
    ASSUME Inv, NEW d \in Daemons, AttemptFails(d)
    PROVE  Inv'
<1>1. ChatdOK(chatd', Allowance) /\ Alone(d) /\ Keeps(d, chatd[d], chatd'[d])
  BY Ready, ConnectionErrorStep, ZenonT(30) DEF AttemptFails
<1> QED
  BY <1>1, Ready, AllowanceSame, DaemonQuiet, ZenonT(30) DEF AttemptFails, Keeps

(* A connection the daemon loses preserves Inv. *)
LEMMA DaemonClosedInv ==
    ASSUME Inv, NEW d \in Daemons, DaemonSeesClose(d) \/ DaemonLosesConnection(d)
    PROVE  Inv'
<1>1. Closed(d) /\ UNCHANGED <<server, up, down, opens>>
  BY DEF DaemonSeesClose, DaemonLosesConnection, budget
<1>2. ChatdOK(chatd', Allowance) /\ Alone(d) /\ Leaves(chatd[d], chatd'[d])
  BY <1>1, Ready, ClosedStep, ZenonT(30)
<1> QED
  BY <1>1, <1>2, Ready, AllowanceSame, DaemonQuiet, ZenonT(30) DEF Leaves

(* A daemon that is killed preserves Inv. *)
LEMMA DaemonKilledInv ==
    ASSUME Inv, NEW d \in Daemons, DaemonKilled(d)
    PROVE  Inv'
<1>1. ChatdOK(chatd', Allowance) /\ Alone(d) /\ Ends(chatd'[d])
  BY Ready, KillStep DEF DaemonKilled
<1> QED
  BY <1>1, Ready, AllowanceSame, DaemonQuiet, ZenonT(30) DEF DaemonKilled, Ends

(* A daemon that starts again preserves Inv. *)
LEMMA DaemonRestartsInv ==
    ASSUME Inv, NEW d \in Daemons, DaemonRestarts(d)
    PROVE  Inv'
<1>1. ChatdOK(chatd', Allowance) /\ Alone(d) /\ chatd'[d].wsi = NoConn
  BY Ready, RestartStep, ZenonT(30) DEF DaemonRestarts
<1> QED
  BY <1>1, Ready, AllowanceSame, DaemonQuiet, ZenonT(30) DEF DaemonRestarts, budget

(* A CLI that stops waiting preserves Inv. *)
LEMMA UserLeavesInv ==
    ASSUME Inv, NEW d \in Daemons, UserLeaves(d)
    PROVE  Inv'
<1>1. ChatdOK(chatd', Allowance) /\ Alone(d) /\ Keeps(d, chatd[d], chatd'[d])
  BY Ready, GiveUpStep, ZenonT(30) DEF UserLeaves
<1> QED
  BY <1>1, Ready, AllowanceSame, DaemonQuiet, ZenonT(30) DEF UserLeaves, budget, Keeps

(* A chat that its CLI ends preserves Inv. *)
LEMMA ChatClosesInv ==
    ASSUME Inv, NEW d \in Daemons, ChatCloses(d)
    PROVE  Inv'
<1>1. ChatdOK(chatd', Allowance) /\ Alone(d) /\ Keeps(d, chatd[d], chatd'[d])
  BY Ready, ServiceActiveChatClientStep, ZenonT(30) DEF ChatCloses
<1> QED
  BY <1>1, Ready, AllowanceSame, DaemonQuiet DEF ChatCloses, budget, Keeps

(* A pass over the ICE session preserves Inv. *)
LEMMA DaemonServesInv ==
    ASSUME Inv, NEW d \in Daemons, DaemonServes(d)
    PROVE  Inv'
<1>1. ChatdOK(chatd', Allowance) /\ Alone(d) /\ Keeps(d, chatd[d], chatd'[d])
  BY Ready, ServiceStep DEF DaemonServes
<1> QED
  BY <1>1, Ready, AllowanceSame, DaemonQuiet DEF DaemonServes, budget, Keeps

(* What one more chat adds to the allowance. *)
LEMMA OneMore ==
    ASSUME NEW n \in Nat, NEW k \in Nat
    PROVE  (n + 1) * (1 + k) = n * (1 + k) + 1 + k
OBVIOUS

(* A CLI asks for a chat: the daemon may draw the ids that are allowed for *)
(* it.                                                                     *)
LEMMA UserOpensChatStep ==
    ASSUME Inv, NEW d \in Daemons, UserOpensChat(d)
    PROVE  /\ opens' \in [Daemons -> 0 .. MaxOpens]
           /\ ChatdOK(chatd', Allowance') /\ Alone(d) /\ Keeps(d, chatd[d], chatd'[d])
<1>1. PICK peer \in Daemons : OpenChat(d, peer)
  BY PlaneAssumption DEF UserOpensChat
<1>2. /\ opens \in [Daemons -> 0 .. MaxOpens] /\ opens[d] < MaxOpens
      /\ opens' = [opens EXCEPT ![d] = @ + 1]
  BY Ready DEF UserOpensChat
<1>3. opens' \in [Daemons -> 0 .. MaxOpens]
  BY <1>2, Bounds
<1>4. Allowed(Allowance')
  BY <1>3, AllowanceIn DEF Allowance
<1>5. /\ Allowance'[d] = Allowance[d] + 1 + RetryMax
      /\ \A x \in Daemons \ {d} : Allowance'[x] = Allowance[x]
  <2>1. opens[d] \in Nat /\ opens'[d] = opens[d] + 1
    BY <1>2, Bounds
  <2>2. (opens[d] + 1) * (1 + RetryMax) = opens[d] * (1 + RetryMax) + 1 + RetryMax
    BY <2>1, Bounds, OneMore, ZenonT(30)
  <2>3. /\ Allowance'[d] = opens'[d] * (1 + RetryMax)
        /\ Allowance[d] = opens[d] * (1 + RetryMax)
    BY DEF Allowance
  <2>4. \A x \in Daemons \ {d} : opens'[x] = opens[x]
    BY <1>2
  <2>5. \A x \in Daemons \ {d} : Allowance'[x] = Allowance[x]
    BY <2>4 DEF Allowance
  <2> QED
    BY <2>1, <2>2, <2>3, <2>5, ZenonT(30)
<1>6. ChatdOK(chatd, Allowance) /\ Allowed(Allowance)
  BY Ready
<1> HIDE DEF Allowance
<1>7. ChatdOK(chatd', Allowance') /\ Alone(d) /\ Keeps(d, chatd[d], chatd'[d])
  BY <1>1, <1>4, <1>5, <1>6, OpenChatStep, ZenonT(30)
<1> QED
  BY <1>3, <1>7, ZenonT(30)

(* A CLI that asks for a chat preserves Inv. *)
LEMMA UserOpensChatInv ==
    ASSUME Inv, NEW d \in Daemons, UserOpensChat(d)
    PROVE  Inv'
<1>1. UNCHANGED <<server, up, down>>
  BY DEF UserOpensChat
<1> QED
  BY <1>1, UserOpensChatStep, DaemonQuiet, ZenonT(30) DEF Keeps

-----------------------------------------------------------------------------
(* The daemon reads, writes and connects.                                  *)

(* The server's messages, by their type. *)
LEMMA MessageKinds ==
    ASSUME NEW m \in S!Messages
    PROVE  /\ m.type \in SignalTypes => m \in S!RelayMessages
           /\ m.type = "auth_challenge" => m.challenge \in 0 .. MaxChallenges
<1>1. CASE m \in [type : {"auth_challenge"}, challenge : 1 .. MaxChallenges]
  BY <1>1, ChatdAssumption DEF SignalTypes
<1>2. CASE m \in S!RelayMessages
  BY <1>2 DEF S!RelayMessages
<1>3. CASE /\ m \notin S!RelayMessages
           /\ m \notin [type : {"auth_challenge"}, challenge : 1 .. MaxChallenges]
  BY <1>3 DEF S!Messages, S!RegisterOk, S!AuthOk, SignalTypes
<1> QED
  BY <1>1, <1>2, <1>3, ZenonT(30)

(* A message relayed to d is one that d's handlers take. *)
LEMMA RelayKinds ==
    ASSUME NEW d \in Daemons, NEW m \in S!RelayMessages, m.from # d
    PROVE  m \in Relays(d)
BY DEF S!RelayMessages, Relays, Others, SignalTypes, Bodies

(* handle_receive, given the head of the wire. *)
LEMMA DaemonReceivesStep ==
    ASSUME Inv, NEW d \in Daemons, NEW c \in Conns, chatd[d].wsi = c, down[c] # <<>>,
           Receive(d, Head(down[c])), opens' = opens
    PROVE  /\ ChatdOK(chatd', Allowance') /\ Alone(d)
           /\ Handled(d, chatd[d], Head(down[c]), chatd'[d])
<1> DEFINE m == Head(down[c])
<1>1. down[c] \in Seq(S!Messages)
  BY DEF Inv, Typed
<1>2. 1 \in DOMAIN down[c] /\ m = down[c][1] /\ m \in S!Messages
  BY <1>1, TailIn, SeqIn
<1>3. m.type \in SignalTypes => m.from # d
  BY <1>2 DEF Inv, Apart
<1> HIDE DEF m
<1>4. /\ m.type \in SignalTypes => m \in Relays(d)
      /\ m.type = "auth_challenge" => m.challenge \in 0 .. MaxChallenges
  BY <1>2, <1>3, MessageKinds, RelayKinds, ZenonT(30)
<1>5. ChatdOK(chatd', Allowance) /\ Alone(d) /\ Handled(d, chatd[d], m, chatd'[d])
  BY <1>4, Ready, ReceiveStep, ZenonT(30) DEF m
<1> QED
  BY <1>5, AllowanceSame, ZenonT(30) DEF m

(* handle_receive preserves Inv: the login goes one step on with every     *)
(* message of it that the daemon reads.                                    *)
LEMMA DaemonReceivesInv ==
    ASSUME Inv, NEW d \in Daemons, DaemonReceives(d)
    PROVE  Inv'
<1>1. PICK c \in Conns :
        /\ chatd[d].wsi = c /\ down[c] # <<>> /\ Receive(d, Head(down[c]))
        /\ down' = [down EXCEPT ![c] = Tail(@)]
        /\ UNCHANGED <<server, up, opens>>
  BY ZenonT(30) DEF DaemonReceives, budget
<1> DEFINE s == chatd[d]
           t == chatd'[d]
           m == Head(down[c])
<1>2. ChatdOK(chatd', Allowance') /\ Alone(d) /\ Handled(d, s, m, t)
  BY <1>1, DaemonReceivesStep, ZenonT(30)
<1>3. t.wsi \in {s.wsi, NoConn}
  BY <1>2 DEF Handled, Keeps, Leaves, Ends, Greets, Answers, Finishes
<1>4. /\ S!TypeOK' /\ Present'
      /\ open' = open /\ client' = client /\ session' = session
  BY <1>1, ServerAlone
<1>5. /\ down \in [Conns -> Seq(S!Messages)] /\ down[c] \in Seq(S!Messages)
      /\ Len(down[c]) <= WireCapacity
      /\ down' = [down EXCEPT ![c] = Tail(down[c])]
  BY <1>1 DEF Inv, Typed
<1>6. Typed'
  <2>1. Tail(down[c]) \in Seq(S!Messages) /\ Len(Tail(down[c])) <= WireCapacity
    BY <1>1, <1>5, TailIn, SeqIn, PlaneAssumption
  <2>2. down' \in [Conns -> Seq(S!Messages)]
        /\ \A x \in Conns : Len(down'[x]) <= WireCapacity
    BY <1>5, <2>1, ZenonT(30) DEF Inv, Typed
  <2>3. opens' \in [Daemons -> 0 .. MaxOpens]
    BY <1>1, Ready, ZenonT(30)
  <2>4. up' \in [Conns -> Seq(UpMessages)]
        /\ \A x \in Conns : Len(up'[x]) <= WireCapacity
    BY <1>1, ZenonT(30) DEF Inv, Typed
  <2> QED
    BY <1>2, <1>4, <2>2, <2>3, <2>4, ZenonT(30) DEF Typed
<1>7. Owned'
  BY <1>1, <1>2, <1>3, <1>4, OwnedNext, ZenonT(30)
<1>8. Apart'
  <2>1. \A x \in Conns : \A i \in DOMAIN down'[x] :
            \E j \in DOMAIN down[x] : down'[x][i] = down[x][j]
    BY <1>1, <1>5, TailIn
  <2>2. \A x \in Daemons : chatd'[x].wsi \in Conns => chatd'[x].wsi = chatd[x].wsi
    BY <1>2, <1>3, ChatdAssumption, ZenonT(30) DEF Alone, Alike
  <2>3. ASSUME NEW x \in Daemons, chatd'[x].wsi \in Conns,
               NEW i \in DOMAIN down'[chatd'[x].wsi],
               down'[chatd'[x].wsi][i].type \in SignalTypes
        PROVE  down'[chatd'[x].wsi][i].from # x
    <3>1. PICK j \in DOMAIN down[chatd[x].wsi] :
            down'[chatd'[x].wsi][i] = down[chatd[x].wsi][j]
      BY <2>1, <2>2, <2>3
    <3> QED
      BY <2>2, <2>3, <3>1, ZenonT(30) DEF Inv, Apart
  <2>4. \A x \in open' : session'[x].pending # Empty
            /\ session'[x].pending.type \in SignalTypes
            => session'[x].pending.from # client'[x].key
    BY <1>4, ZenonT(30) DEF Inv, Apart
  <2> QED
    BY <2>3, <2>4, ZenonT(30) DEF Apart
<1>9. LoggingIn'
  <2> SUFFICES ASSUME NEW e \in open
               PROVE  Login(client[e].key, session[e], client[e].heard, up[e], down'[e],
                            Held(e)')
    BY <1>1, <1>4, ZenonT(30) DEF LoggingIn
  <2> DEFINE H == Held(e)
             G == Held(e)'
             Ok(v, K) == Login(client[e].key, session[e], client[e].heard, up[e], v, K)
  <2>1. Ok(down[e], H)
    BY ZenonT(30) DEF Inv, LoggingIn
  <2>2. G = IF client[e].key # d THEN H
            ELSE IF t.wsi = e THEN {Side(t)} ELSE {}
    BY <1>2, <1>3, <1>4, HeldNext, ZenonT(30)
  <2>3. H = IF chatd[client[e].key].wsi = e THEN {Side(chatd[client[e].key])} ELSE {}
    BY HeldBy, ZenonT(30)
  <2>4. e \in Conns /\ e # NoConn
    BY KeyIn, ChatdAssumption, ZenonT(30) DEF Inv, Typed
  <2> HIDE DEF H, G, s, t
  <2>5. CASE e # c
    <3>1. down'[e] = down[e]
      BY <1>5, <2>4, <2>5, ZenonT(30)
    <3>2. client[e].key = d => t.wsi # e
      BY <1>1, <1>3, <2>4, <2>5, ZenonT(30) DEF s
    <3>3. Fewer(H, G)
      BY <2>2, <3>2, ZenonT(30) DEF Fewer
    <3>4. Ok(down[e], G)
      BY <2>1, <3>3, LoginFewer, ZenonT(30)
    <3> QED
      BY <3>1, <3>4, ZenonT(30) DEF G
  <2>6. CASE e = c
    <3>1. client[e].key = d /\ H = {Side(s)} /\ down'[e] = Tail(down[e])
      BY <1>1, <1>5, <2>3, <2>4, <2>6, ZenonT(30) DEF Inv, Owned, s
    <3>2. G = IF t.wsi = e THEN {Side(t)} ELSE {}
      BY <2>2, <3>1, ZenonT(30)
    <3>3. Ok(Tail(down[e]), H)
      BY <1>1, <1>5, <2>1, <2>6, LoginPopDown, ZenonT(30)
    <3>4. s.wsi = e
      BY <1>1, <2>6, ZenonT(30) DEF s
    <3>5. CASE t.wsi # e
      <4>1. Fewer(H, G)
        BY <3>2, <3>5, ZenonT(30) DEF Fewer
      <4>2. Ok(Tail(down[e]), G)
        BY <3>3, <4>1, LoginFewer, ZenonT(30)
      <4> QED
        BY <3>1, <4>2, ZenonT(30) DEF G
    <3>6. CASE t.wsi = e
      <4>1. G = {Side(t)} /\ t.wsi # NoConn
        BY <2>4, <3>2, <3>6, ZenonT(30)
      <4>2. CASE Keeps(d, s, t)
        <5>1. \A x \in SignalsOf(d) : x.type \in SignalTypes
          BY ZenonT(30) DEF SignalsOf
        <5>2. Fewer(H, G)
          BY <3>1, <4>1, <4>2, <5>1 DEF Fewer, Side, Keeps
        <5>3. Ok(Tail(down[e]), G)
          BY <3>3, <5>2, LoginFewer, ZenonT(30)
        <5> QED
          BY <3>1, <5>3 DEF G
      <4>3. CASE Greets(d, s, t)
        <5>1. Side(s).phase = "REGISTER" /\ Side(t).phase = "HELLO"
              /\ Side(t).pending.type = "hello"
          BY <4>1, <4>3 DEF Greets, Side
        <5>2. Ok(Tail(down[e]), G)
          BY <3>1, <3>3, <4>1, <5>1, LoginGreet, ZenonT(30)
        <5> QED
          BY <3>1, <5>2 DEF G
      <4>4. CASE m.type = "auth_challenge" /\ Answers(d, s, t, m.challenge)
        <5>1. /\ Side(s).phase = "HELLO" /\ Side(t).phase = "AUTH_RESPONSE"
              /\ Side(t).pending.type = "auth_response"
              /\ Side(t).pending.signature = [key |-> client[e].key, challenge |-> m.challenge]
          BY <3>1, <4>1, <4>4 DEF Answers, Side
        <5>2. Ok(Tail(down[e]), G)
          BY <1>1, <1>5, <2>1, <2>6, <3>1, <4>1, <4>4, <5>1, LoginAnswer, ZenonT(30)
        <5> QED
          BY <3>1, <5>2 DEF G
      <4>5. CASE m.type = "auth_ok" /\ Finishes(s, t)
        <5>1. /\ Side(s).phase = "AUTH_RESPONSE" /\ Side(t).phase = "ONLINE"
              /\ Side(t).pending = Side(s).pending
          BY <4>5 DEF Finishes, Side
        <5>2. Ok(Tail(down[e]), G)
          BY <1>1, <1>5, <2>1, <2>6, <3>1, <4>1, <4>5, <5>1, LoginFinish, ZenonT(30)
        <5> QED
          BY <3>1, <5>2 DEF G
      <4> QED
        BY <1>2, <4>1, <4>2, <4>3, <4>4, <4>5, ZenonT(30) DEF Handled, Leaves, Ends
    <3> QED
      BY <3>5, <3>6, ZenonT(30)
  <2> QED
    BY <2>5, <2>6, ZenonT(30)
<1> QED
  BY <1>4, <1>6, <1>7, <1>8, <1>9, ZenonT(30) DEF Inv

(* A slot the daemon writes to the wire preserves Inv. *)
LEMMA DaemonWritesInv ==
    ASSUME Inv, NEW d \in Daemons, DaemonWrites(d)
    PROVE  Inv'
<1>1. PICK c \in Conns :
        /\ chatd[d].wsi = c /\ Len(up[c]) < WireCapacity
        /\ Writeable(d)
        /\ up' = [up EXCEPT ![c] = IF c \in open /\ chatd'[d].phase # "FAILED"
                                   THEN Append(@, chatd[d].pending) ELSE @]
        /\ UNCHANGED <<server, down, opens>>
  BY ZenonT(30) DEF DaemonWrites
<1> DEFINE s == chatd[d]
           t == chatd'[d]
<1>2. /\ ChatdOK(chatd', Allowance) /\ Alone(d)
      /\ \/ t.phase = s.phase /\ t.wsi = s.wsi /\ t.pending = Empty
         \/ Ends(t)
  BY <1>1, Ready, WriteableStep, ZenonT(30)
<1>3. ChatdOK(chatd', Allowance') /\ t.wsi \in {s.wsi, NoConn}
      /\ opens' \in [Daemons -> 0 .. MaxOpens]
  BY <1>1, <1>2, AllowanceSame, Ready, ZenonT(30) DEF Ends
<1>4. up \in [Conns -> Seq(UpMessages)]
  BY ZenonT(30) DEF Inv, Typed
<1>5. CASE ~(c \in open /\ t.phase # "FAILED") \/ Ends(t)
  <2>1. up' = up
    BY <1>1, <1>4, <1>5, ZenonT(30) DEF Ends
  <2> QED
    BY <1>1, <1>2, <1>3, <2>1, DaemonQuiet, ZenonT(30) DEF Ends
<1>6. CASE c \in open /\ t.phase # "FAILED" /\ ~Ends(t)
  <2>1. /\ S!TypeOK' /\ Present'
        /\ open' = open /\ client' = client /\ session' = session
    BY <1>1, ServerAlone, ZenonT(30)
  <2>2. t.phase = s.phase /\ t.wsi = c /\ t.pending = Empty
    BY <1>1, <1>2, <1>6, ZenonT(30)
  <2>3. up' = [up EXCEPT ![c] = Append(up[c], s.pending)]
    BY <1>1, <1>6, ZenonT(30)
  <2>4. s.pending \in FromDaemon(d) /\ s.pending # Empty
    BY <1>1, Ready, Own, ZenonT(30) DEF Writeable, DaemonStates, FromDaemon
  <2>5. s.pending \in UpMessages /\ up[c] \in Seq(UpMessages)
    BY <1>4, <2>4, ZenonT(30) DEF UpMessages
  <2>6. client[c].key = d
    BY <1>1, <1>6, ZenonT(30) DEF Inv, Owned
  <2> HIDE DEF s, t
  <2>7. Typed'
    <3>1. /\ Append(up[c], s.pending) \in Seq(UpMessages)
          /\ Len(Append(up[c], s.pending)) <= WireCapacity
      BY <1>1, <2>5, AppendIn, SeqIn, PlaneAssumption
    <3>2. up' \in [Conns -> Seq(UpMessages)]
          /\ \A x \in Conns : Len(up'[x]) <= WireCapacity
      BY <1>4, <2>3, <3>1, ZenonT(30) DEF Inv, Typed
    <3>3. down' \in [Conns -> Seq(S!Messages)]
          /\ \A x \in Conns : Len(down'[x]) <= WireCapacity
      BY <1>1, ZenonT(30) DEF Inv, Typed
    <3> QED
      BY <1>3, <2>1, <3>2, <3>3, ZenonT(30) DEF Typed
  <2>8. Owned'
    <3>1. \A x \in Daemons : chatd'[x].wsi \in open' => client'[chatd'[x].wsi].key = x
      <4>1. \A x \in Daemons : chatd'[x].wsi = chatd[x].wsi
        BY <1>1, <1>2, <2>2, ZenonT(30) DEF Alone, Alike, t
      <4> QED
        BY <2>1, <4>1, ZenonT(30) DEF Inv, Owned
    <3>2. \A i \in DOMAIN up'[c] : up'[c][i] \in FromDaemon(d)
      <4>1. up'[c] = Append(up[c], s.pending)
        BY <1>4, <2>3, ZenonT(30)
      <4> QED
        <5>1. \A i \in DOMAIN up[c] : up[c][i] \in FromDaemon(d)
          BY <1>6, <2>6, ZenonT(30) DEF Inv, Owned
        <5> QED
          BY <2>4, <2>5, <4>1, <5>1, AppendIn
    <3>3. \A x \in Conns \ {c} : up'[x] = up[x]
      BY <1>4, <2>3, ZenonT(30)
    <3>4. ASSUME NEW e \in open, NEW i \in DOMAIN up'[e]
          PROVE  up'[e][i] \in FromDaemon(client[e].key)
      <4>1. e \in Conns
        BY KeyIn, ZenonT(30) DEF Inv, Typed
      <4> QED
        BY <2>6, <3>2, <3>3, <3>4, <4>1, ZenonT(30) DEF Inv, Owned
    <3> QED
      BY <2>1, <3>1, <3>4, ZenonT(30) DEF Owned
  <2>9. Apart'
    BY <1>1, <1>2, <1>3, <2>1, ApartNext, ZenonT(30) DEF s, t
  <2>10. LoggingIn'
    <3> SUFFICES ASSUME NEW e \in open
                 PROVE  Login(client[e].key, session[e], client[e].heard, up'[e], down[e],
                              Held(e)')
      BY <1>1, <2>1, ZenonT(30) DEF LoggingIn
    <3> DEFINE H == Held(e)
               G == Held(e)'
               Ok(u, K) == Login(client[e].key, session[e], client[e].heard, u, down[e], K)
    <3>1. Ok(up[e], H)
      BY ZenonT(30) DEF Inv, LoggingIn
    <3>2. G = IF client[e].key # d THEN H
              ELSE IF t.wsi = e THEN {Side(t)} ELSE {}
      BY <1>2, <1>3, <2>1, HeldNext, ZenonT(30) DEF s, t
    <3>3. H = IF chatd[client[e].key].wsi = e THEN {Side(chatd[client[e].key])} ELSE {}
      BY HeldBy
    <3>4. e \in Conns
      BY KeyIn, ZenonT(30) DEF Inv, Typed
    <3> HIDE DEF H, G
    <3>5. CASE e # c
      <4>1. up'[e] = up[e]
        BY <1>4, <2>3, <3>4, <3>5, ZenonT(30)
      <4>2. Fewer(H, G)
        BY <2>2, <3>2, <3>5, ZenonT(30) DEF Fewer
      <4>3. Ok(up[e], G)
        BY <3>1, <4>2, LoginFewer, ZenonT(30)
      <4> QED
        BY <4>1, <4>3, ZenonT(30) DEF G
    <3>6. CASE e = c
      <4>1. H = {Side(s)} /\ G = {Side(t)}
        BY <1>1, <2>2, <2>6, <3>2, <3>3, <3>6, ZenonT(30) DEF s
      <4>2. /\ Side(s).pending = s.pending /\ Side(t).pending = Empty
            /\ Side(t).phase = Side(s).phase
        BY <2>2, ZenonT(30) DEF Side
      <4>3. Ok(Append(up[e], s.pending), G)
        BY <2>4, <2>5, <3>1, <3>6, <4>1, <4>2, LoginPush, ZenonT(30)
      <4>4. up'[e] = Append(up[e], s.pending)
        BY <1>4, <2>3, <3>6, ZenonT(30)
      <4> QED
        BY <4>3, <4>4, ZenonT(30) DEF G
    <3> QED
      BY <3>5, <3>6, ZenonT(30)
  <2> QED
    BY <2>1, <2>7, <2>8, <2>9, <2>10, ZenonT(30) DEF Inv
<1> QED
  BY <1>5, <1>6, ZenonT(30)

(* A new connection, on both sides, preserves Inv. *)
LEMMA AcceptInv ==
    ASSUME Inv, NEW d \in Daemons, NEW c \in Conns, Accept(d, c)
    PROVE  Inv'
<1> DEFINE t == chatd'[d]
<1>1. /\ Holders(c) = {} /\ c \notin open
      /\ open' = open \cup {c}
      /\ session' = [session EXCEPT ![c] = S!NewSession]
      /\ client' = [client EXCEPT ![c] = [key |-> d, heard |-> 0]]
      /\ UNCHANGED <<identity_pk, online, wsi, nonce, opens>>
      /\ up' = [up EXCEPT ![c] = <<>>] /\ down' = [down EXCEPT ![c] = <<>>]
      /\ Established(d, c)
  BY DEF Accept, S!Established, S!registry, budget
<1>2. /\ ChatdOK(chatd', Allowance) /\ Alone(d)
      /\ chatd[d].wsi = NoConn /\ t.phase = "REGISTER"
      /\ \/ /\ t.wsi = c
            /\ t.pending = [type |-> "register", username |-> d, key |-> d]
         \/ t.wsi = NoConn
  BY <1>1, Ready, EstablishedStep, ZenonT(30)
<1>3. S!TypeOK
  BY DEF Inv, Typed
<1>4. open \subseteq Conns /\ c # NoConn /\ NoConn \notin open
  BY <1>3, ChatdAssumption, ZenonT(30) DEF S!TypeOK
<1>5. /\ session' \in [Conns -> S!Sessions]
      /\ session'[c] = S!NewSession
      /\ \A e \in Conns \ {c} : session'[e] = session[e]
  <2>1. S!NewSession \in S!Sessions
    BY ChatdAssumption DEF S!NewSession, S!Sessions
  <2> QED
    BY <1>1, <1>3, <2>1, ZenonT(30) DEF S!TypeOK
<1>6. /\ client' \in [Conns -> [key : Daemons \cup {NoKey}, heard : 0 .. MaxChallenges]]
      /\ client'[c].key = d /\ client'[c].heard = 0
      /\ \A e \in Conns \ {c} : client'[e] = client[e]
  <2>1. [key |-> d, heard |-> 0] \in [key : Daemons \cup {NoKey}, heard : 0 .. MaxChallenges]
    BY ChatdAssumption
  <2> QED
    BY <1>1, <1>3, <2>1, ZenonT(30) DEF S!TypeOK
<1>7. /\ up' \in [Conns -> Seq(UpMessages)] /\ down' \in [Conns -> Seq(S!Messages)]
      /\ up'[c] = <<>> /\ down'[c] = <<>>
      /\ \A e \in Conns \ {c} : up'[e] = up[e] /\ down'[e] = down[e]
  <2>1. <<>> \in Seq(UpMessages) /\ <<>> \in Seq(S!Messages)
    BY EmptyIn, ZenonT(30)
  <2> QED
    BY <1>1, <2>1, ZenonT(30) DEF Inv, Typed
<1>8. Typed'
  <2>1. S!TypeOK'
    BY <1>1, <1>3, <1>4, <1>5, <1>6, ZenonT(30) DEF S!TypeOK
  <2>2. \A x \in Conns : Len(up'[x]) <= WireCapacity /\ Len(down'[x]) <= WireCapacity
    <3>1. Len(up'[c]) = 0 /\ Len(down'[c]) = 0 /\ 0 <= WireCapacity
      BY <1>7, PlaneAssumption
    <3>2. \A x \in Conns : Len(up[x]) <= WireCapacity /\ Len(down[x]) <= WireCapacity
      BY ZenonT(30) DEF Inv, Typed
    <3> QED
      BY <1>7, <3>1, <3>2, ZenonT(30)
  <2>3. ChatdOK(chatd', Allowance') /\ opens' \in [Daemons -> 0 .. MaxOpens]
    BY <1>1, <1>2, AllowanceSame, Ready, ZenonT(30)
  <2> QED
    BY <1>7, <2>1, <2>2, <2>3, ZenonT(30) DEF Typed
<1>9. \A x \in Daemons \ {d} : chatd'[x].wsi = chatd[x].wsi /\ chatd'[x].wsi # c
  BY <1>1, <1>2, ZenonT(30) DEF Alone, Alike, Holders
<1>10. Owned'
  <2>1. \A x \in Daemons : chatd'[x].wsi \in open' => client'[chatd'[x].wsi].key = x
    <3>1. ASSUME NEW x \in Daemons \ {d}, chatd'[x].wsi \in open'
          PROVE  client'[chatd'[x].wsi].key = x
      BY <1>1, <1>4, <1>6, <1>9, <3>1, ZenonT(30) DEF Inv, Owned
    <3>2. t.wsi \in open' => client'[t.wsi].key = d
      BY <1>1, <1>2, <1>4, <1>6, ZenonT(30)
    <3> QED
      BY <3>1, <3>2, ZenonT(30)
  <2>2. \A e \in open' : \A i \in DOMAIN up'[e] : up'[e][i] \in FromDaemon(client'[e].key)
    BY <1>1, <1>4, <1>6, <1>7 DEF Inv, Owned
  <2> QED
    BY <2>1, <2>2, ZenonT(30) DEF Owned
<1>11. Apart'
  <2>1. \A e \in open' : session'[e].pending # Empty
            /\ session'[e].pending.type \in SignalTypes
            => session'[e].pending.from # client'[e].key
    BY <1>1, <1>4, <1>5, <1>6, ZenonT(30) DEF Inv, Apart, S!NewSession
  <2>2. \A x \in Daemons \ {d} : chatd'[x].wsi \in Conns =>
            \A i \in DOMAIN down'[chatd'[x].wsi] :
                down'[chatd'[x].wsi][i].type \in SignalTypes
                => down'[chatd'[x].wsi][i].from # x
    <3> SUFFICES ASSUME NEW x \in Daemons \ {d}, chatd'[x].wsi \in Conns,
                        NEW i \in DOMAIN down'[chatd'[x].wsi],
                        down'[chatd'[x].wsi][i].type \in SignalTypes
                 PROVE  down'[chatd'[x].wsi][i].from # x
      BY ZenonT(30)
    <3>1. chatd'[x].wsi = chatd[x].wsi /\ down'[chatd[x].wsi] = down[chatd[x].wsi]
      BY <1>7, <1>9, ZenonT(30)
    <3> QED
      BY <3>1, ZenonT(30) DEF Inv, Apart
  <2>3. t.wsi \in Conns => DOMAIN down'[t.wsi] = {}
    BY <1>2, <1>7, ChatdAssumption, EmptyIn, ZenonT(30)
  <2> HIDE DEF t
  <2>4. \A x \in Daemons : chatd'[x].wsi \in Conns =>
            \A i \in DOMAIN down'[chatd'[x].wsi] :
                down'[chatd'[x].wsi][i].type \in SignalTypes
                => down'[chatd'[x].wsi][i].from # x
    <3>1. CASE TRUE
      <4> TAKE x \in Daemons
      <4>1. CASE x = d
        BY <2>3, <4>1, ZenonT(30) DEF t
      <4>2. CASE x # d
        BY <2>2, <4>2, ZenonT(30)
      <4> QED
        BY <4>1, <4>2, ZenonT(30)
    <3> QED
      BY <3>1, ZenonT(30)
  <2> QED
    BY <2>1, <2>4, Zenon DEF Apart
<1>12. Present'
  BY <1>1, <1>3, <1>4, <1>5, <1>6 DEF Inv, Present, S!TypeOK, S!NewSession
<1>13. LoggingIn'
  <2>1. ASSUME NEW e \in open
        PROVE  Held(e)' = Held(e)
    <3>1. Held(e)' = {Side(chatd'[x]) : x \in {y \in Daemons : chatd'[y].wsi = e}}
      BY ZenonT(30) DEF Held, Holders
    <3>2. \A x \in Daemons : chatd'[x].wsi = e <=> chatd[x].wsi = e
      BY <1>1, <1>2, <1>4, <1>9, ZenonT(30)
    <3>3. \A x \in Daemons : chatd[x].wsi = e => Side(chatd'[x]) = Side(chatd[x])
      BY <1>2, <1>4, ZenonT(30) DEF Alone, Alike, Side
    <3> QED
      BY <3>1, <3>2, <3>3, ZenonT(30) DEF Held, Holders
  <2>2. \A x \in Held(c)' : x.phase = "REGISTER" /\ x.pending.type = "register"
    <3>1. Held(c)' = {Side(chatd'[x]) : x \in {y \in Daemons : chatd'[y].wsi = c}}
      BY DEF Held, Holders
    <3>2. \A x \in Daemons : chatd'[x].wsi = c => x = d
      BY <1>9, ZenonT(30)
    <3>3. t.wsi = c => Side(t).phase = "REGISTER" /\ Side(t).pending.type = "register"
      BY <1>2, <1>4 DEF Side
    <3> QED
      BY <3>1, <3>2, <3>3, ZenonT(30)
  <2>3. Login(client'[c].key, session'[c], client'[c].heard, up'[c], down'[c], Held(c)')
    BY <1>5, <1>6, <1>7, <2>2, LoginNew
  <2>4. \A e \in open :
          Login(client'[e].key, session'[e], client'[e].heard, up'[e], down'[e], Held(e)')
    BY <1>1, <1>4, <1>5, <1>6, <1>7, <2>1 DEF Inv, LoggingIn
  <2> QED
    BY <1>1, <2>3, <2>4, ZenonT(30) DEF LoggingIn
<1> QED
  BY <1>8, <1>10, <1>11, <1>12, <1>13, ZenonT(30) DEF Inv

-----------------------------------------------------------------------------
(* What a daemon's step does to its phase and connection.                  *)

Moves(s, t) ==
    \/ t.wsi = s.wsi /\ t.phase = s.phase
    \/ s.wsi = NoConn /\ t.phase = "REGISTER"
    \/ Ends(t)
    \/ Leaves(s, t) /\ t.ice = s.ice /\ t.session_state = s.session_state

(* What any step of a daemon does to it, and to the server. *)
LEMMA DaemonMoves ==
    ASSUME Inv, Down, NEW d \in Daemons, DaemonNext(d)
    PROVE  /\ Alone(d)
           /\ \/ UNCHANGED server /\ chatd'[d].wsi \in {chatd[d].wsi, NoConn}
              \/ \E c \in Conns : Accept(d, c)
           /\ \/ Moves(chatd[d], chatd'[d])
              \/ DaemonReceives(d) /\ \E m : Handled(d, chatd[d], m, chatd'[d])
<1> DEFINE s == chatd[d]
           t == chatd'[d]
           Goal == /\ Alone(d)
                   /\ \/ UNCHANGED server /\ t.wsi \in {s.wsi, NoConn}
                      \/ \E c \in Conns : Accept(d, c)
                   /\ \/ Moves(s, t)
                      \/ DaemonReceives(d) /\ \E m : Handled(d, s, m, t)
<1>1. ASSUME Alone(d), Keeps(d, s, t), UNCHANGED server
      PROVE  Goal
  BY <1>1, ZenonT(30) DEF Keeps, Moves
<1>2. CASE DaemonConnects(d)
  BY <1>1, <1>2, Ready, ConnectStep, ZenonT(30) DEF DaemonConnects
<1>3. CASE \E c \in Conns : Accept(d, c)
  <2>1. PICK c \in Conns : Accept(d, c)
    BY <1>3, ZenonT(30)
  <2>2. Alone(d) /\ s.wsi = NoConn /\ t.phase = "REGISTER"
    BY <2>1, Ready, EstablishedStep, ZenonT(30) DEF Accept
  <2> QED
    BY <1>3, <2>2, ZenonT(30) DEF Moves
<1>4. CASE AttemptFails(d)
  BY <1>1, <1>4, Ready, ConnectionErrorStep, ZenonT(30) DEF AttemptFails
<1>5. CASE DaemonReceives(d)
  <2>1. Alone(d) /\ \E m : Handled(d, s, m, t)
    <3>1. PICK c \in Conns : /\ chatd[d].wsi = c /\ down[c] # <<>>
                             /\ Receive(d, Head(down[c])) /\ opens' = opens
      BY <1>5, ZenonT(30) DEF DaemonReceives, budget
    <3>2. Alone(d) /\ Handled(d, chatd[d], Head(down[c]), chatd'[d])
      BY <3>1, DaemonReceivesStep, ZenonT(30)
    <3> QED
      BY <3>2
  <2>2. UNCHANGED server
    BY <1>5 DEF DaemonReceives
  <2>3. t.wsi \in {s.wsi, NoConn}
    BY <2>1, ZenonT(30) DEF Handled, Keeps, Leaves, Ends, Greets, Answers, Finishes
  <2> QED
    BY <1>5, <2>1, <2>2, <2>3, ZenonT(30)
<1>6. CASE DaemonWrites(d)
  <2>1. Writeable(d) /\ UNCHANGED server
    BY <1>6, ZenonT(30) DEF DaemonWrites
  <2> QED
    BY <2>1, Ready, WriteableStep, ZenonT(30) DEF Moves, Ends
<1>7. CASE DaemonSeesClose(d) \/ DaemonLosesConnection(d)
  <2>1. Closed(d) /\ UNCHANGED server
    BY <1>7, ZenonT(30) DEF DaemonSeesClose, DaemonLosesConnection
  <2> QED
    BY <2>1, Ready, ClosedStep, ZenonT(30) DEF Moves, Leaves
<1>8. CASE DaemonKilled(d)
  BY <1>8, Ready, KillStep, ZenonT(30) DEF DaemonKilled, Moves, Ends
<1>9. CASE DaemonRestarts(d)
  BY <1>9, Ready, RestartStep, ZenonT(30) DEF DaemonRestarts, Moves, Down
<1>10. CASE UserOpensChat(d)
  <2>1. Alone(d) /\ Keeps(d, s, t) /\ UNCHANGED server
    BY <1>10, UserOpensChatStep, ZenonT(30) DEF UserOpensChat
  <2> QED
    BY <1>1, <2>1, ZenonT(30)
<1>11. CASE UserLeaves(d)
  BY <1>1, <1>11, Ready, GiveUpStep, ZenonT(30) DEF UserLeaves
<1>12. CASE ChatCloses(d)
  BY <1>1, <1>12, Ready, ServiceActiveChatClientStep, ZenonT(30) DEF ChatCloses
<1>13. CASE DaemonServes(d)
  BY <1>1, <1>13, Ready, ServiceStep, ZenonT(30) DEF DaemonServes
<1> QED
  BY <1>2, <1>3, <1>4, <1>5, <1>6, <1>7, <1>8, <1>9, <1>10, <1>11, <1>12, <1>13, ZenonT(30)
  DEF DaemonNext
===============================================================================
