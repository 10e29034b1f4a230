-------------------------- MODULE ControlPlaneProofs --------------------------
(***************************************************************************)
(* The theorems about the daemons and the control server together, for any *)
(* number of users and connections.                                        *)
(***************************************************************************)
EXTENDS ServerStepProofs, DaemonStepProofs

(* The leaves are for SMT, unless they name another prover. *)
USE SMTT(30), ZenonT(20), Z3T(30)

-----------------------------------------------------------------------------
(* Where the behaviours begin.                                             *)

(* A daemon that has just been started. *)
LEMMA NewDaemonWell ==
    ASSUME NEW d \in Daemons
    PROVE  /\ NewDaemon(d) \in DaemonStates(d)
           /\ Coherent(NewDaemon(d)) /\ Committed(NewDaemon(d)) = 0
           /\ NewDaemon(d).outbox = {} /\ NewDaemon(d).wsi = NoConn
<1>1. NewDaemon(d) \in DaemonStates(d)
  BY NoSessionType, Zero, ZenonT(30) DEF NewDaemon, DaemonStates, SessionStates, Phases
<1>2. Coherent(NewDaemon(d)) /\ Committed(NewDaemon(d)) = 0
  BY DEF NewDaemon, NoSession, Coherent, Committed
<1> QED
  BY <1>1, <1>2, ZenonT(30) DEF NewDaemon

(* The counters and the wires at the start. *)
LEMMA NothingUsedTyped ==
    ASSUME NothingUsed
    PROVE  /\ opens \in [Daemons -> 0 .. MaxOpens]
           /\ \A d \in Daemons : Allowance[d] = 0
           /\ up \in [Conns -> Seq(UpMessages)] /\ down \in [Conns -> Seq(S!Messages)]
           /\ \A c \in Conns : /\ up[c] = <<>> /\ down[c] = <<>>
                               /\ Len(up[c]) <= WireCapacity
                               /\ Len(down[c]) <= WireCapacity
<1>1. opens \in [Daemons -> 0 .. MaxOpens] /\ \A d \in Daemons : opens[d] = 0
  BY ChatdAssumption DEF NothingUsed
<1>2. \A d \in Daemons : Allowance[d] = 0
  BY <1>1, Bounds DEF Allowance
<1>3. <<>> \in Seq(UpMessages) /\ <<>> \in Seq(S!Messages) /\ Len(<<>>) <= WireCapacity
  BY EmptyIn, PlaneAssumption
<1> QED
  BY <1>1, <1>2, <1>3, ZenonT(30) DEF NothingUsed

(* Inv holds at the start. *)
LEMMA InitInv == ASSUME Init PROVE Inv
<1>1. /\ identity_pk = [u \in Daemons |-> NoKey] /\ online = {}
      /\ wsi = [u \in Daemons |-> NoConn] /\ open = {}
      /\ session = [c \in Conns |-> S!NewSession]
      /\ client = [c \in Conns |-> S!NoClient]
      /\ nonce = 0
      /\ chatd = [d \in Daemons |-> NewDaemon(d)]
      /\ NothingUsed
  BY DEF Init, S!Init
<1>2. S!NewSession \in S!Sessions
      /\ S!NoClient \in [key : Daemons \cup {NoKey}, heard : 0 .. MaxChallenges]
  BY ChatdAssumption DEF S!NewSession, S!Sessions, S!NoClient
<1>3. S!TypeOK
  BY <1>1, <1>2, ChatdAssumption, PlaneAssumption DEF S!TypeOK
<1>4. ChatdOK(chatd, Allowance)
  <2>1. \A d \in Daemons : Well(d, chatd[d], Allowance[d]) /\ chatd[d].outbox = {}
    BY <1>1, NewDaemonWell, NothingUsedTyped DEF Well
  <2> QED
    BY <1>1, <2>1, ZenonT(30) DEF ChatdOK
<1>5. \A d \in Daemons : chatd[d].wsi = NoConn
  BY <1>1, NewDaemonWell, ZenonT(30)
<1>6. Typed
  BY <1>1, <1>3, <1>4, NothingUsedTyped, ZenonT(30) DEF Typed
<1>7. Owned /\ Present /\ LoggingIn
  BY <1>1, <1>5, ZenonT(30) DEF Owned, Present, LoggingIn
<1>8. Apart
  BY <1>1, <1>5, ChatdAssumption, ZenonT(30) DEF Apart
<1> QED
  BY <1>6, <1>7, <1>8, ZenonT(30) DEF Inv

(* A connection that everything of the login is done on. *)
LEMMA LoginOnline ==
    ASSUME NEW key, NEW ses, NEW heard, NEW H, key # NoUser,
           ses.username = key, ses.authenticated, ses.pending = Empty,
           \A x \in H : x.phase = "ONLINE" /\ x.pending = Empty
    PROVE  Login(key, ses, heard, <<>>, <<>>, H)
<1> USE DEF Sent, Coming, Carries, Is
<1>1. DOMAIN <<>> = {}
  BY EmptyIn, ZenonT(30)
<1>2. HelloOk(ses, <<>>, H)
  BY <1>1, ZenonT(30) DEF HelloOk
<1>3. FreshOk(ses, <<>>, <<>>, H)
  BY <1>1, ZenonT(30) DEF FreshOk
<1>4. ChallengeOk(ses, heard, <<>>, <<>>, H)
  BY <1>1, ZenonT(30) DEF ChallengeOk
<1>5. AnswerOk(key, heard, <<>>, H)
  BY <1>1, ZenonT(30) DEF AnswerOk
<1>6. DoneOk(ses, <<>>, H)
  BY <1>1, ZenonT(30) DEF DoneOk
<1> QED
  BY <1>2, <1>3, <1>4, <1>5, <1>6, ZenonT(30) DEF Login

(* A daemon that has logged in and done nothing else. *)
LEMMA OnlineWell ==
    ASSUME NEW d \in Daemons, NEW c \in Conns
    PROVE  /\ Well(d, Online(d, c), 0) /\ Online(d, c).outbox = {}
           /\ Online(d, c).phase = "ONLINE" /\ Online(d, c).wsi = c
           /\ Online(d, c).pending = Empty
<1>1. Online(d, c) \in DaemonStates(d)
  BY NoSessionType, Zero, ZenonT(30) DEF Online, NewDaemon, DaemonStates, SessionStates, Phases
<1>2. Coherent(Online(d, c)) /\ Committed(Online(d, c)) = 0
  BY DEF Online, NewDaemon, NoSession, Coherent, Committed
<1> QED
  BY <1>1, <1>2 DEF Well, Online, NewDaemon

(* The session of a user who has logged in. *)
Known(d) ==
    [username |-> d, challenge |-> 0, authenticated |-> TRUE, pending |-> Empty]

(* Inv holds when everybody has logged in, as the chat runs start. *)
LEMMA InitOnlineInv ==
    ASSUME InitOnline, Cardinality(Daemons) \in 1 .. MaxChallenges
    PROVE  Inv
<1>1. PICK conn \in [Daemons -> Conns] :
        /\ \A d, e \in Daemons : conn[d] = conn[e] => d = e
        /\ identity_pk = [d \in Daemons |-> d]
        /\ online = Daemons
        /\ wsi = conn
        /\ open = {conn[d] : d \in Daemons}
        /\ session = [c \in Conns |->
              IF c \in open THEN Known(CHOOSE d \in Daemons : conn[d] = c)
              ELSE S!NewSession]
        /\ client = [c \in Conns |->
              IF c \in open THEN [key |-> CHOOSE d \in Daemons : conn[d] = c, heard |-> 1]
              ELSE S!NoClient]
        /\ nonce = Cardinality(Daemons)
        /\ chatd = [d \in Daemons |-> Online(d, conn[d])]
        /\ NothingUsed
  BY ZenonT(30) DEF InitOnline, Known
<1>2. PICK yes \in BOOLEAN : yes = TRUE
  BY Zenon
<1>3. /\ 1 \in 0 .. MaxChallenges /\ 0 \in 0 .. MaxChallenges
      /\ Cardinality(Daemons) \in 0 .. MaxChallenges
  BY ChatdAssumption
<1>4. ASSUME NEW d \in Daemons
      PROVE  /\ Known(d).username = d /\ Known(d).authenticated /\ Known(d).pending = Empty
             /\ Known(d) \in S!Sessions
  <2>1. Known(d) = [username |-> d, challenge |-> 0, authenticated |-> yes, pending |-> Empty]
    BY <1>2 DEF Known
  <2>2. Known(d) \in S!Sessions
    BY <1>3, <2>1 DEF S!Sessions
  <2> QED
    BY <2>2 DEF Known
<1>5. \A d \in Daemons : (CHOOSE x \in Daemons : conn[x] = conn[d]) = d
  BY <1>1, ZenonT(30)
<1>6. \A c \in open : \E d \in Daemons : conn[d] = c
  BY <1>1, ZenonT(30)
<1>7. \A d \in Daemons : conn[d] \in open /\ conn[d] \in Conns
  BY <1>1, ZenonT(30)
<1>8. \A d \in Daemons : session[conn[d]] = Known(d)
  BY <1>1, <1>5, <1>7, ZenonT(30)
<1>9. \A d \in Daemons :
        /\ client[conn[d]].key = d
        /\ client[conn[d]] \in [key : Daemons \cup {NoKey}, heard : 0 .. MaxChallenges]
  <2> TAKE d \in Daemons
  <2>1. client[conn[d]] = [key |-> d, heard |-> 1]
    BY <1>1, <1>5, <1>7, ZenonT(30)
  <2> QED
    BY <1>3, <2>1
<1>10. \A d \in Daemons : chatd[d] = Online(d, conn[d])
  BY <1>1, ZenonT(30)
<1>11. open \subseteq Conns
  BY <1>1, ZenonT(30)
<1>12. \A c \in Conns \ open : session[c] = S!NewSession /\ client[c] = S!NoClient
  BY <1>1, ZenonT(30)
<1>13. S!TypeOK
  <2>1. S!NewSession \in S!Sessions
        /\ S!NoClient \in [key : Daemons \cup {NoKey}, heard : 0 .. MaxChallenges]
    BY ChatdAssumption DEF S!NewSession, S!Sessions, S!NoClient
  <2>2. \A c \in Conns : session[c] \in S!Sessions
    BY <1>4, <1>6, <1>12, <1>8, <2>1
  <2>3. \A c \in Conns : client[c] \in [key : Daemons \cup {NoKey}, heard : 0 .. MaxChallenges]
    BY <1>6, <1>12, <1>9, <2>1, ZenonT(30)
  <2>4. session = [c \in Conns |-> session[c]] /\ client = [c \in Conns |-> client[c]]
    BY <1>1
  <2>5. session \in [Conns -> S!Sessions]
    BY <2>2, <2>4, ZenonT(30)
  <2>6. client \in [Conns -> [key : Daemons \cup {NoKey}, heard : 0 .. MaxChallenges]]
    BY <2>3, <2>4, ZenonT(30)
  <2>7. \A c \in open : client[c].key \in Daemons
    BY <1>6, <1>9
  <2>8. /\ identity_pk \in [Daemons -> Daemons \cup {NoKey}] /\ online \subseteq Daemons
        /\ wsi \in [Daemons -> Conns \cup {NoConn}] /\ nonce \in 0 .. MaxChallenges
    BY <1>1, <1>3, ZenonT(30)
  <2> QED
    BY <1>11, <2>5, <2>6, <2>7, <2>8, ZenonT(30) DEF S!TypeOK
<1>14. \A d \in Daemons : /\ Well(d, chatd[d], 0) /\ chatd[d].outbox = {}
                          /\ chatd[d].phase = "ONLINE" /\ chatd[d].wsi = conn[d]
                          /\ chatd[d].pending = Empty
  BY <1>7, <1>10, OnlineWell
<1>15. NothingUsed
  BY <1>1, ZenonT(30)
<1>16. Typed
  <2>1. chatd = [d \in Daemons |-> chatd[d]]
    BY <1>1, ZenonT(30)
  <2>2. ChatdOK(chatd, Allowance)
    BY <1>14, <1>15, <2>1, NothingUsedTyped, ZenonT(30) DEF ChatdOK
  <2> QED
    BY <1>13, <1>15, <2>2, NothingUsedTyped, ZenonT(30) DEF Typed
<1>17. Owned
  <2>1. \A c \in open : DOMAIN up[c] = {}
    BY <1>11, <1>15, NothingUsedTyped, EmptyIn, ZenonT(30)
  <2> QED
    BY <1>14, <1>9, <2>1, ZenonT(30) DEF Owned
<1>18. Apart
  <2>1. \A c \in Conns : DOMAIN down[c] = {}
    BY <1>15, NothingUsedTyped, EmptyIn, ZenonT(30)
  <2>2. \A c \in open : session[c].pending = Empty
    BY <1>4, <1>6, <1>8
  <2> QED
    BY <2>1, <2>2, ZenonT(30) DEF Apart
<1>19. Present
  <2>1. \A d \in Daemons : wsi[d] = conn[d] /\ identity_pk[d] = d /\ d \in online
    BY <1>1, ZenonT(30)
  <2>2. NoUser \notin Daemons /\ NoKey \notin Daemons /\ NoConn \notin Conns
    BY ChatdAssumption, PlaneAssumption, ZenonT(30)
  <2>3. \A d \in Daemons : session[conn[d]].username = d /\ session[conn[d]].authenticated
                           /\ client[conn[d]].key = d
    BY <1>4, <1>8, <1>9, ZenonT(30)
  <2> QED
    BY <1>6, <1>7, <2>1, <2>2, <2>3 DEF Present
<1>20. LoggingIn
  <2> SUFFICES ASSUME NEW c \in open
               PROVE  Login(client[c].key, session[c], client[c].heard, up[c], down[c], Held(c))
    BY ZenonT(30) DEF LoggingIn
  <2>1. PICK d \in Daemons : conn[d] = c
    BY <1>6, ZenonT(30)
  <2>2. client[c].key = d /\ d # NoUser /\ session[c] = Known(d)
        /\ up[c] = <<>> /\ down[c] = <<>>
    BY <1>11, <1>15, <1>8, <1>9, <2>1, NothingUsedTyped, PlaneAssumption, ZenonT(30)
  <2>3. session[c].username = d /\ session[c].authenticated /\ session[c].pending = Empty
    BY <1>4, <2>2, ZenonT(30)
  <2>4. \A x \in Held(c) : x.phase = "ONLINE" /\ x.pending = Empty
    BY <1>14 DEF Held, Holders, Side
  <2>5. Login(d, session[c], client[c].heard, <<>>, <<>>, Held(c))
    BY <2>2, <2>3, <2>4, LoginOnline, ZenonT(30)
  <2> QED
    BY <2>2, <2>5, ZenonT(30)
<1> QED
  BY <1>16, <1>17, <1>18, <1>19, <1>20 DEF Inv

-----------------------------------------------------------------------------

(* Nothing happens. *)
LEMMA StutterInv ==
    ASSUME Inv, UNCHANGED vars
    PROVE  Inv'
<1>1. /\ chatd' = chatd /\ UNCHANGED server /\ up' = up /\ down' = down
      /\ opens' = opens
  BY DEF vars, budget
<1>2. /\ S!TypeOK' /\ Present'
      /\ open' = open /\ client' = client /\ session' = session
  BY <1>1, ServerAlone
<1>3. Typed'
  BY <1>1, <1>2, DaemonsAlone DEF Inv, Typed
<1>4. Owned' /\ Apart'
  BY <1>1, <1>2, ZenonT(30) DEF Inv, Owned, Apart
<1>5. LoggingIn'
  BY <1>1, <1>2, DaemonsAlone, ZenonT(30) DEF Inv, LoggingIn
<1> QED
  BY <1>2, <1>3, <1>4, <1>5 DEF Inv

(* Every step of a daemon, of its user and of the server preserves Inv. *)
LEMMA NextInv ==
    ASSUME Inv, [Next]_vars
    PROVE  Inv'
<1>1. ASSUME NEW d \in Daemons, DaemonNext(d) PROVE Inv'
  <2>1. CASE DaemonConnects(d)
    BY <2>1, DaemonConnectsInv, ZenonT(30)
  <2>2. CASE \E c \in Conns : Accept(d, c)
    BY <2>2, AcceptInv, ZenonT(30)
  <2>3. CASE AttemptFails(d)
    BY <2>3, AttemptFailsInv
  <2>4. CASE DaemonReceives(d)
    BY <2>4, DaemonReceivesInv
  <2>5. CASE DaemonWrites(d)
    BY <2>5, DaemonWritesInv
  <2>6. CASE DaemonSeesClose(d) \/ DaemonLosesConnection(d)
    BY <2>6, DaemonClosedInv, ZenonT(30)
  <2>7. CASE DaemonKilled(d)
    BY <2>7, DaemonKilledInv
  <2>8. CASE DaemonRestarts(d)
    BY <2>8, DaemonRestartsInv
  <2>9. CASE UserOpensChat(d)
    BY <2>9, UserOpensChatInv
  <2>10. CASE UserLeaves(d)
    BY <2>10, UserLeavesInv
  <2>11. CASE ChatCloses(d)
    BY <2>11, ChatClosesInv
  <2>12. CASE DaemonServes(d)
    BY <2>12, DaemonServesInv
  <2> QED
    BY <1>1, <2>1, <2>2, <2>3, <2>4, <2>5, <2>6, <2>7, <2>8, <2>9, <2>10, <2>11, <2>12, ZenonT(30)
    DEF DaemonNext
<1>2. ASSUME NEW c \in Conns, ServerNext(c) PROVE Inv'
  <2>1. CASE ServerReceives(c)
    BY <2>1, ServerReceivesInv
  <2>2. CASE ServerWrites(c)
    BY <2>2, ServerWritesInv
  <2>3. CASE ServerSeesClose(c) \/ ServerLosesConnection(c)
    BY <2>3, ClosedInv, ZenonT(30) DEF ServerSeesClose, ServerLosesConnection, budget
  <2> QED
    BY <1>2, <2>1, <2>2, <2>3, ZenonT(30) DEF ServerNext
<1>3. CASE ServerRestarts
  BY <1>3, ServerRestartsInv, ZenonT(30)
<1>4. CASE UNCHANGED vars
  BY <1>4, StutterInv, ZenonT(30)
<1> QED
  BY <1>1, <1>2, <1>3, <1>4, ZenonT(30) DEF Next

-----------------------------------------------------------------------------
(* A daemon that is not running has no connection.                         *)

(* The server and the wires do not change a daemon. *)
LEMMA ServerMoves ==
    ASSUME (\E c \in Conns : ServerNext(c)) \/ ServerRestarts \/ UNCHANGED vars
    PROVE  UNCHANGED chatd
BY DEF ServerNext, ServerReceives, ServerWrites, ServerSeesClose,
       ServerLosesConnection, ServerRestarts, vars

(* Down holds at the start. *)
LEMMA InitDown == ASSUME Init PROVE Down
BY NewDaemonWell, ZenonT(30) DEF Init, Down

(* Down holds when everybody has logged in. *)
LEMMA InitOnlineDown == ASSUME InitOnline PROVE Down
<1>1. PICK conn \in [Daemons -> Conns] : chatd = [d \in Daemons |-> Online(d, conn[d])]
  BY ZenonT(30) DEF InitOnline
<1> QED
  BY <1>1, OnlineWell, ZenonT(30) DEF Down

(* Every step preserves Down. *)
LEMMA NextDown ==
    ASSUME Inv, Down, [Next]_vars
    PROVE  Down'
<1>1. ASSUME NEW d \in Daemons, DaemonNext(d)
      PROVE  Down'
  <2>1. \A x \in Daemons \ {d} : /\ chatd'[x].phase = chatd[x].phase
                                 /\ chatd'[x].wsi = chatd[x].wsi
    BY <1>1, DaemonMoves, ZenonT(30) DEF Alone, Alike
  <2>2. chatd'[d].phase = "FAILED" => chatd'[d].wsi = NoConn
    <3>1. CASE Moves(chatd[d], chatd'[d])
      BY <3>1, ZenonT(30) DEF Moves, Ends, Leaves, Down
    <3>2. CASE \E m : Handled(d, chatd[d], m, chatd'[d])
      BY <3>2, ZenonT(30) DEF Handled, Keeps, Leaves, Ends, Greets, Answers, Finishes, Down
    <3> QED
      BY <1>1, <3>1, <3>2, DaemonMoves, ZenonT(30)
  <2> QED
    BY <2>1, <2>2, ZenonT(30) DEF Down
<1>2. CASE (\E c \in Conns : ServerNext(c)) \/ ServerRestarts \/ UNCHANGED vars
  BY <1>2, ServerMoves, ZenonT(30) DEF Down
<1> QED
  BY <1>1, <1>2, ZenonT(30) DEF Next

-----------------------------------------------------------------------------

(* The inductive invariant holds at the start. *)
LEMMA InductiveInit == Init => Inv /\ Down
BY InitInv, InitDown, ZenonT(30)

(* Every step preserves the inductive invariant. *)
LEMMA InductiveNext == Inv /\ Down /\ [Next]_vars => Inv' /\ Down'
BY NextInv, NextDown, ZenonT(30)

(* handle_receive, callback_chatd_control, handle_open_chat_command and    *)
(* service_ice_session keep a daemon's fields and both wires within their  *)
(* types, for any number of daemons, connections and retries.              *)
THEOREM TypeCorrect == Spec => []TypeOK
<1>1. Inv => TypeOK
  <2> SUFFICES ASSUME Inv PROVE TypeOK
    BY ZenonT(30)
  <2>1. ASSUME NEW d \in Daemons
        PROVE  LET s == chatd[d] IN
          /\ s.username = d /\ s.phase \in Phases
          /\ s.session_state \in SessionStates
          /\ s.wsi \in Conns \cup {NoConn}
          /\ s.wsi # NoConn => ~s.connecting /\ ~s.should_reconnect
          /\ s.client \in {"none", "waiting", "chatting", "gone"}
          /\ s.retries \in 0 .. RetryMax /\ s.drawn \in 0 .. MaxDrawn
          /\ s.client = "none" <=> s.asked = None
          /\ s.ice.active => s.ice.peer \in Daemons \ {d}
    <3>1. chatd[d] \in DaemonStates(d) /\ Coherent(chatd[d])
      BY Ready, Own, ZenonT(30) DEF Well
    <3>2. chatd[d].ice \in IceStates(d)
      BY <3>1, ZenonT(30) DEF DaemonStates
    <3>3. chatd[d].ice.active => chatd[d].ice.peer \in Daemons \ {d}
      BY <3>1, <3>2, ZenonT(30) DEF IceStates, Coherent, Others
    <3> QED
      BY <3>1, <3>3, ZenonT(30) DEF DaemonStates, Coherent, Retries, Draws
  <2>2. \A c \in Conns : Len(up[c]) <= WireCapacity /\ Len(down[c]) <= WireCapacity
    BY ZenonT(30) DEF Inv, Typed
  <2> QED
    BY <2>1, <2>2, ZenonT(30) DEF TypeOK
<1> QED
  BY <1>1, InductiveInit, InductiveNext, PTL DEF Spec

(* The inductive invariant contains FailedFreesClient. *)
LEMMA InvFrees == Inv => FailedFreesClient
<1> SUFFICES ASSUME Inv, NEW d \in Daemons, chatd[d].session_state = "FAILED"
             PROVE  chatd[d].client = "none"
  BY DEF FailedFreesClient
<1> QED
  BY Ready, Own, ZenonT(30) DEF Well, Coherent

(* fail_chat_session, reached from every handler: a session that has       *)
(* failed for good leaves no CLI behind.                                   *)
THEOREM FailedSessionsFreeTheirClient == Spec => []FailedFreesClient
BY InductiveInit, InductiveNext, InvFrees, PTL DEF Spec

(* The same for the chats of users who are online, the specification the   *)
(* runs about chats use.                                                   *)
THEOREM FailedChatsFreeTheirClient ==
    ASSUME Cardinality(Daemons) \in 1 .. MaxChallenges
    PROVE  ChatSpec => []FailedFreesClient
<1>1. InitOnline => Inv /\ Down
  BY InitOnlineInv, InitOnlineDown, ZenonT(30)
<1> QED
  BY <1>1, InductiveNext, InvFrees, PTL DEF ChatSpec

-----------------------------------------------------------------------------
(* callback_chatd_control, CLOSED and CONNECTION_ERROR, and the handlers   *)
(* that close the connection themselves: the session the control           *)
(* connection set up outlives it.                                          *)
THEOREM SecureSessionsOutliveControl == Spec => SecureOutlivesControl
<1> DEFINE Kept(d) ==
        /\ chatd[d].ice.secure
        /\ chatd[d].wsi # NoConn /\ chatd'[d].wsi = NoConn
        /\ chatd'[d].phase # "FAILED"
        => /\ chatd'[d].ice.secure /\ chatd'[d].client = chatd[d].client
           /\ \/ /\ chatd'[d].ice = chatd[d].ice
                 /\ chatd'[d].session_state = chatd[d].session_state
              \/ DaemonReceives(d)
<1>1. ASSUME Inv, Down, [Next]_vars
      PROVE  \A d \in Daemons : Kept(d)
  <2>1. ASSUME NEW d \in Daemons, DaemonNext(d), NEW x \in Daemons
        PROVE  Kept(x)
    <3>1. CASE x # d
      BY <1>1, <2>1, <3>1, DaemonMoves, ZenonT(30) DEF Alone, Alike
    <3>2. CASE x = d /\ Moves(chatd[d], chatd'[d])
      BY <3>2, ZenonT(30) DEF Moves, Ends, Leaves
    <3>3. ASSUME x = d, DaemonReceives(d), NEW m, Handled(d, chatd[d], m, chatd'[d])
          PROVE  Kept(x)
      BY <3>3, ZenonT(30) DEF Handled, Keeps, Leaves, Ends, Finishes, Outlives
    <3> QED
      BY <1>1, <2>1, <3>1, <3>2, <3>3, DaemonMoves, ZenonT(30)
  <2>2. CASE (\E c \in Conns : ServerNext(c)) \/ ServerRestarts \/ UNCHANGED vars
    BY <2>2, ServerMoves, ZenonT(30)
  <2> QED
    BY <1>1, <2>1, <2>2, ZenonT(30) DEF Next
<1>2. Inv /\ Down /\ [Next]_vars => [\A d \in Daemons : Kept(d)]_vars
  BY <1>1, ZenonT(30)
<1>3. SecureOutlivesControl <=> [][\A d \in Daemons : Kept(d)]_vars
  BY DEF SecureOutlivesControl
<1> QED
  BY <1>2, <1>3, InductiveInit, InductiveNext, PTL DEF Spec

-----------------------------------------------------------------------------
(* The daemons are clients such as ControlServer assumes.                  *)

(* What chat-server sees of the daemons is what ControlServer assumes of   *)
(* its clients (one hello a connection, the signature of the challenge     *)
(* that was sent on it, signalling in the sender's name): the theorems     *)
(* about ControlServer hold of the server among daemons.                   *)
THEOREM ServerIsRefined == Spec => ServerRefined
<1>1. Init => S!Init
  BY ZenonT(30) DEF Init
<1>2. ASSUME Inv, Down, [Next]_vars
      PROVE  [S!Next]_(S!vars)
  <2>1. ASSUME NEW d \in Daemons, DaemonNext(d)
        PROVE  [S!Next]_(S!vars)
    <3>1. CASE UNCHANGED server
      BY <3>1, ZenonT(30) DEF server, S!vars
    <3>2. ASSUME NEW c \in Conns, Accept(d, c)
          PROVE  S!Next
      BY <3>2, ZenonT(30) DEF Accept, S!Next
    <3> QED
      BY <1>2, <2>1, <3>1, <3>2, DaemonMoves, ZenonT(30)
  <2>2. ASSUME NEW c \in Conns, ServerNext(c)
        PROVE  S!Next
    <3>1. CASE ServerReceives(c)
      BY <1>2, <3>1, ServerReceivesRefined, ZenonT(30) DEF S!Next
    <3>2. CASE ServerWrites(c)
      BY <3>2, ZenonT(30) DEF ServerWrites, S!Next
    <3>3. CASE ServerSeesClose(c) \/ ServerLosesConnection(c)
      BY <3>3, ZenonT(30) DEF ServerSeesClose, ServerLosesConnection, S!Next
    <3> QED
      BY <2>2, <3>1, <3>2, <3>3, ZenonT(30) DEF ServerNext
  <2>3. CASE ServerRestarts
    BY <2>3, ZenonT(30) DEF ServerRestarts, S!Next
  <2>4. CASE UNCHANGED vars
    BY <2>4, ZenonT(30) DEF vars, server, S!vars
  <2> QED
    BY <1>2, <2>1, <2>2, <2>3, <2>4, ZenonT(30) DEF Next
<1> QED
  BY <1>1, <1>2, InductiveInit, InductiveNext, PTL DEF Spec, ServerRefined, S!Spec

-----------------------------------------------------------------------------
(* The registry follows the connection a daemon has.                       *)

(* A step of a daemon preserves Pointed. *)
LEMMA DaemonPointed ==
    ASSUME Inv, Down, Pointed, NEW d \in Daemons, DaemonNext(d)
    PROVE  Pointed'
<1>1. open \subseteq Conns /\ NoConn \notin Conns
  BY ChatdAssumption, ZenonT(30) DEF Inv, Typed, S!TypeOK
<1>2. CASE UNCHANGED server /\ chatd'[d].wsi \in {chatd[d].wsi, NoConn}
  <2>1. \A c \in open : Holders(c)' # {} => Holders(c) # {}
    <3>1. \A x \in Daemons : chatd'[x].wsi \in {chatd[x].wsi, NoConn}
      BY <1>2, DaemonMoves, ZenonT(30) DEF Alone, Alike
    <3> QED
      BY <1>1, <3>1, ZenonT(30) DEF Holders
  <2> QED
    BY <1>2, <2>1, PointedQuiet, ZenonT(30) DEF server
<1>3. ASSUME NEW c \in Conns, Accept(d, c)
      PROVE  Pointed'
  <2>1. /\ c \notin open /\ open' = open \cup {c} /\ wsi' = wsi
        /\ session' = [session EXCEPT ![c] = S!NewSession]
        /\ client' = [client EXCEPT ![c] = [key |-> d, heard |-> 0]]
        /\ Established(d, c)
    BY <1>3, ZenonT(30) DEF Accept, S!Established, S!registry
  <2>2. /\ session'[c] = S!NewSession
        /\ \A e \in open : session'[e] = session[e] /\ client'[e] = client[e]
    BY <1>1, <2>1, ZenonT(30) DEF Inv, Typed, S!TypeOK
  <2>3. ~session'[c].authenticated
    BY <2>2 DEF S!NewSession
  <2>4. \A e \in open : Holders(e)' # {} => Holders(e) # {}
    <3>1. chatd'[d].wsi \in {c, NoConn} /\ Alone(d)
      BY <2>1, Ready, EstablishedStep, ZenonT(30)
    <3>2. \A x \in Daemons \ {d} : chatd'[x].wsi = chatd[x].wsi
      BY <3>1 DEF Alone, Alike
    <3> QED
      BY <1>1, <2>1, <3>1, <3>2, ZenonT(30) DEF Holders
  <2> QED
    BY <2>1, <2>2, <2>3, <2>4 DEF Pointed
<1> QED
  BY <1>2, <1>3, DaemonMoves, ZenonT(30)

(* Every step preserves Pointed. *)
LEMMA NextPointed ==
    ASSUME Inv, Down, Pointed, "late" \notin Faults, [Next]_vars
    PROVE  Pointed'
<1>1. ASSUME NEW d \in Daemons, DaemonNext(d) PROVE Pointed'
  BY <1>1, DaemonPointed
<1>2. ASSUME NEW c \in Conns, ServerNext(c) PROVE Pointed'
  BY <1>2, ServerPointed
<1>3. CASE ServerRestarts
  BY <1>3 DEF ServerRestarts, S!Restart, Pointed
<1>4. CASE UNCHANGED vars
  BY <1>4 DEF vars, server, Pointed, Holders
<1> QED
  BY <1>1, <1>2, <1>3, <1>4 DEF Next

(* handle_receive, AUTH_OK, against handle_auth_response and the registry: *)
(* as long as the server reads nothing of a connection that its daemon has *)
(* left, a daemon in phase ONLINE is the one the registry knows, under its *)
(* own name and on that connection.                                        *)
THEOREM OnlineIsAuthenticated ==
    ASSUME "late" \notin Faults
    PROVE  Spec => []OnlineAuthenticated
<1>1. Init => Pointed
  BY ZenonT(30) DEF Init, S!Init, Pointed
<1>2. Inv /\ Pointed => OnlineAuthenticated
  <2> SUFFICES ASSUME Inv, Pointed, NEW d \in Daemons,
                      chatd[d].phase = "ONLINE", chatd[d].wsi \in open
               PROVE  LET c == chatd[d].wsi IN
                      /\ session[c].authenticated /\ session[c].username = d
                      /\ d \in online /\ wsi[d] = c
    BY ZenonT(30) DEF OnlineAuthenticated
  <2> DEFINE c == chatd[d].wsi
  <2>1. client[c].key = d /\ c # NoConn /\ d \in Holders(c)
    BY ChatdAssumption, ZenonT(30) DEF Inv, Owned, Typed, S!TypeOK, Holders
  <2>2. Side(chatd[d]) \in Held(c) /\ Side(chatd[d]).phase = "ONLINE"
    BY <2>1, ZenonT(30) DEF Held, Side
  <2> HIDE DEF c
  <2>3. session[c].authenticated
    BY <2>2, ZenonT(30) DEF Inv, LoggingIn, Login, DoneOk, c
  <2>4. session[c].username = d
    BY <2>1, <2>3, AuthenticatedAs, ZenonT(30) DEF c
  <2>5. wsi[d] = c
    BY <2>1, <2>3, ZenonT(30) DEF Pointed, c
  <2>6. d \in online
    BY <2>1, <2>5, ZenonT(30) DEF Inv, Present
  <2> QED
    BY <2>3, <2>4, <2>5, <2>6, ZenonT(30) DEF c
<1>3. Inv /\ Down /\ Pointed /\ [Next]_vars => Pointed'
  BY NextPointed
<1> QED
  BY <1>1, <1>2, <1>3, InductiveInit, InductiveNext, PTL DEF Spec
===============================================================================
