------------------------- MODULE ControlServerProofs -------------------------
(***************************************************************************)
(* Proofs about ControlServer, for any users, keys and connections.        *)
(***************************************************************************)
EXTENDS ControlServer, FiniteSetTheorems, TLAPS

(* The leaves are for SMT, unless they name another prover. *)
USE SMTT(30), ZenonT(20), Z3T(30)

(* Every message a handler builds is one of Messages. *)
LEMMA RepliesAreMessages ==
    /\ \A code : Error(code) \in Messages
    /\ \A n \in 1 .. MaxChallenges : Challenge(n) \in Messages
    /\ RegisterOk \in Messages
    /\ AuthOk \in Messages
BY ZenonT(30) DEF Messages, Error, ErrorCodes, CodesToldApart, Challenge, RegisterOk, AuthOk

LEMMA StatusIsMessage ==
    ASSUME TypeOK, NEW u \in Users
    PROVE  UserStatus(u) \in Messages
BY DEF TypeOK, Messages, UserStatus, Registered

LEMMA RelayIsMessage ==
    ASSUME TypeOK, NEW c \in open, NEW type \in Types,
           NEW from \in Users, NEW to \in Users, NEW pk \in KeyFields, NEW body \in Bodies
    PROVE  Relay(c, type, from, to, pk, body) \in Messages
<1>1. client[c].key \in Keys
  BY DEF TypeOK
<1>2. pk \in Keys \cup {BadKey}
  BY DEF KeyFields
<1> QED
  BY <1>1, <1>2 DEF Messages, Relay, RelayMessages

(* What an error reply leaves alone, and the session it leaves. *)
LEMMA SendErrorType ==
    ASSUME TypeOK, NEW c \in Conns, NEW code, SendError(c, code)
    PROVE  TypeOK'
BY RepliesAreMessages DEF TypeOK, Sessions, SendError, SendJson, registry

LEMMA InitType == Init => TypeOK
BY ConstantsAssumption DEF Init, TypeOK, Sessions, NewSession, NoClient

LEMMA RegisterType ==
    ASSUME TypeOK, NEW c \in Conns, NEW u, NEW pk, HandleRegister(c, u, pk)
    PROVE  TypeOK'
<1>1. ASSUME NEW code, SendError(c, code) PROVE TypeOK'
  BY <1>1, SendErrorType
<1>2. CASE /\ RegisterFieldsValid(u, pk)
           /\ identity_pk' = [identity_pk EXCEPT ![u] = pk]
           /\ wsi' = [wsi EXCEPT ![u] = NoConn]
           /\ online' = online \ {u}
           /\ SendJson(c, RegisterOk)
           /\ UNCHANGED <<open, client, nonce>>
  BY <1>2, RepliesAreMessages, ZenonT(30) DEF TypeOK, Sessions, SendJson, RegisterFieldsValid
<1> QED
  BY <1>1, <1>2 DEF HandleRegister

LEMMA HelloType ==
    ASSUME TypeOK, NEW c \in Conns, NEW u, HandleHello(c, u)
    PROVE  TypeOK'
<1>1. ASSUME NEW code, SendError(c, code) PROVE TypeOK'
  BY <1>1, SendErrorType
<1>2. CASE /\ u \in Users /\ nonce < MaxChallenges
           /\ nonce' = nonce + 1
           /\ session' = [session EXCEPT ![c] =
                [username |-> u, challenge |-> nonce + 1,
                 authenticated |-> FALSE, pending |-> Challenge(nonce + 1)]]
           /\ UNCHANGED <<registry, open, client>>
  <2>1. nonce + 1 \in 1 .. MaxChallenges
    BY <1>2, ConstantsAssumption DEF TypeOK
  <2>2. Challenge(nonce + 1) \in Messages
    BY <2>1, RepliesAreMessages
  <2> QED
    BY <1>2, <2>1, <2>2 DEF TypeOK, Sessions, registry
<1> QED
  BY <1>1, <1>2 DEF HandleHello

LEMMA AuthResponseType ==
    ASSUME TypeOK, NEW c \in Conns, NEW signature,
           HandleAuthResponse(c, signature)
    PROVE  TypeOK'
<1>1. ASSUME NEW code, SendError(c, code) PROVE TypeOK'
  BY <1>1, SendErrorType
<1>2. CASE AuthResult(c, signature) = "ok"
  <2>1. session[c].username \in Users
    BY <1>2 DEF AuthResult, TypeOK, Sessions
  <2>2. /\ session' = [session EXCEPT ![c] =
             [username |-> session[c].username, challenge |-> 0,
              authenticated |-> TRUE, pending |-> AuthOk]]
        /\ online' = online \cup {session[c].username}
        /\ wsi' = [wsi EXCEPT ![session[c].username] = c]
        /\ UNCHANGED <<identity_pk, open, client, nonce>>
    BY <1>2 DEF HandleAuthResponse, SetOnline, TypeOK
  <2>3. 0 \in 0 .. MaxChallenges
    BY ConstantsAssumption
  <2>4. session' \in [Conns -> Sessions]
    BY <2>1, <2>2, <2>3, RepliesAreMessages DEF TypeOK, Sessions
  <2> QED
    BY <2>1, <2>2, <2>4 DEF TypeOK
<1> QED
  BY <1>1, <1>2 DEF HandleAuthResponse

LEMMA ForwardOk ==
    ASSUME TypeOK, NEW c \in Conns, NEW type \in Types, NEW from \in Names,
           NEW to \in Names, NEW pk \in KeyFields, NEW body \in Bodies,
           ForwardResult(c, type, from, to, pk) = "ok"
    PROVE  /\ session[c].authenticated /\ from = session[c].username
           /\ from \in Registered
           /\ type \in KeyedTypes => pk = identity_pk[from]
           /\ to \in Users /\ to \in online /\ wsi[to] \in Conns
BY DEF ForwardResult, TypeOK, Sessions, Find, Registered, Names

LEMMA ForwardType ==
    ASSUME TypeOK, NEW c \in open, NEW type \in Types, NEW from \in Names,
           NEW to \in Names, NEW pk \in KeyFields, NEW body \in Bodies,
           HandleSignalingForward(c, type, from, to, pk, body)
    PROVE  TypeOK'
<1>0. c \in Conns
  BY DEF TypeOK
<1>1. ASSUME NEW code, SendError(c, code) PROVE TypeOK'
  BY <1>0, <1>1, SendErrorType
<1>2. CASE /\ ForwardResult(c, type, from, to, pk) = "ok"
           /\ SendJson(wsi[to], Relay(c, type, from, to, pk, body))
           /\ UNCHANGED <<registry, open, client, nonce>>
  <2>1. from \in Users /\ to \in Users /\ wsi[to] \in Conns
    BY <1>0, <1>2, ForwardOk DEF Registered
  <2>2. Relay(c, type, from, to, pk, body) \in Messages
    BY <2>1, RelayIsMessage
  <2> QED
    BY <1>2, <2>1, <2>2 DEF TypeOK, Sessions, SendJson, registry
<1>3. CASE UNCHANGED <<registry, open, session, client, nonce>>
  BY <1>3 DEF TypeOK, registry
<1> QED
  BY <1>1, <1>2, <1>3 DEF HandleSignalingForward, Target

LEMMA LookupType ==
    ASSUME TypeOK, NEW c \in Conns, NEW u, HandleUserLookup(c, u)
    PROVE  TypeOK'
<1>1. ASSUME NEW code, SendError(c, code) PROVE TypeOK'
  BY <1>1, SendErrorType
<1>2. CASE /\ u \in Users /\ SendJson(c, UserStatus(u))
           /\ UNCHANGED <<registry, open, client, nonce>>
  BY <1>2, StatusIsMessage DEF TypeOK, Sessions, SendJson, registry
<1> QED
  BY <1>1, <1>2 DEF HandleUserLookup

LEMMA EstablishedType ==
    ASSUME TypeOK, NEW c \in Conns, NEW k \in Keys, Established(c, k)
    PROVE  TypeOK'
<1>1. NewSession \in Sessions
  BY ConstantsAssumption DEF NewSession, Sessions
<1> QED
  BY <1>1, ConstantsAssumption DEF TypeOK, Established, registry

LEMMA WriteableType ==
    ASSUME TypeOK, NEW c \in Conns, Writeable(c)
    PROVE  TypeOK'
<1>1. ASSUME session[c].pending.type = "auth_challenge"
      PROVE  session[c].pending.challenge \in 0 .. MaxChallenges
  <2>1. session[c].pending \in Messages
    BY DEF TypeOK, Sessions, Writeable
  <2> QED
    BY <1>1, <2>1, ConstantsAssumption
    DEF Messages, RelayMessages, SignalingTypes, RegisterOk, AuthOk
<1>2. client' \in [Conns -> [key : Keys \cup {NoKey},
                            heard : 0 .. MaxChallenges]]
  BY <1>1 DEF TypeOK, Writeable
<1>3. \A d \in open' : client'[d].key \in Keys
  BY DEF TypeOK, Writeable
<1>4. session' \in [Conns -> Sessions]
  BY DEF TypeOK, Writeable, Sessions
<1> QED
  BY <1>2, <1>3, <1>4 DEF TypeOK, Writeable, registry

LEMMA ClosedType ==
    ASSUME TypeOK, NEW c \in Conns, Closed(c)
    PROVE  TypeOK'
BY ConstantsAssumption
DEF TypeOK, Sessions, Closed, SetOfflineByWsi, NewSession, NoClient

LEMMA RestartType ==
    ASSUME TypeOK, Restart
    PROVE  TypeOK'
BY ConstantsAssumption DEF TypeOK, Sessions, Restart, NewSession, NoClient

(* The registry and every session keep their types (chat-server). *)
THEOREM TypeCorrect == Spec => []TypeOK
<1>1. TypeOK /\ [Next]_vars => TypeOK'
  <2> SUFFICES ASSUME TypeOK, [Next]_vars PROVE TypeOK'
    OBVIOUS
  <2>1. ASSUME NEW c \in Conns, Receive(c) PROVE TypeOK'
    BY <2>1, RegisterType, HelloType, AuthResponseType, LookupType,
       ForwardType, SendErrorType DEF Receive, RejectFrame
  <2>2. CASE UNCHANGED vars
    BY <2>2 DEF TypeOK, vars
  <2> QED
    BY <2>1, <2>2, EstablishedType, WriteableType, ClosedType, RestartType
    DEF Next
<1> QED
  BY <1>1, InitType, PTL DEF Spec

-----------------------------------------------------------------------------
(* Only a restart takes a registered key away or replaces it. *)
LEMMA KeysKept ==
    ASSUME TypeOK, [Next]_vars
    PROVE  \/ Restart
           \/ \A u \in Registered : /\ u \in Registered'
                                    /\ identity_pk'[u] = identity_pk[u]
<1> DEFINE Kept == \A u \in Registered : /\ u \in Registered'
                                         /\ identity_pk'[u] = identity_pk[u]
<1>1. ASSUME UNCHANGED identity_pk PROVE Kept
  BY <1>1 DEF Registered
<1>2. ASSUME NEW c \in Conns, NEW u, NEW pk, HandleRegister(c, u, pk)
      PROVE  Kept
  <2>1. CASE \E code : SendError(c, code)
    BY <2>1, <1>1 DEF SendError, registry
  <2>2. CASE /\ RegisterFieldsValid(u, pk)
             /\ RegisterResult(u) = "ok"
             /\ identity_pk' = [identity_pk EXCEPT ![u] = pk]
    <3>1. u \notin Registered
      BY <2>2 DEF RegisterResult, Find
    <3> QED
      BY <2>2, <3>1 DEF TypeOK, Registered
  <2> QED
    BY <1>2, <2>1, <2>2 DEF HandleRegister
<1>3. ASSUME NEW c \in Conns, Receive(c) PROVE Kept
  <2>1. ASSUME NEW u, NEW pk, HandleRegister(c, u, pk) PROVE Kept
    BY <2>1, <1>2
  <2>2. ASSUME NEW u, HandleHello(c, u) PROVE UNCHANGED identity_pk
    BY <2>2 DEF HandleHello, SendError, registry
  <2>3. ASSUME NEW sig, HandleAuthResponse(c, sig) PROVE UNCHANGED identity_pk
    BY <2>3 DEF HandleAuthResponse, SendError, registry
  <2>4. ASSUME NEW u, HandleUserLookup(c, u) PROVE UNCHANGED identity_pk
    BY <2>4 DEF HandleUserLookup, SendError, registry
  <2>5. ASSUME NEW type, NEW from, NEW to, NEW pk, NEW body,
               HandleSignalingForward(c, type, from, to, pk, body)
        PROVE  UNCHANGED identity_pk
    BY <2>5 DEF HandleSignalingForward, Target, SendError, registry
  <2>6. ASSUME NEW code, RejectFrame(c, code) PROVE UNCHANGED identity_pk
    BY <2>6 DEF RejectFrame, SendError, registry
  <2> HIDE DEF Kept
  <2> QED
    BY <1>1, <1>3, <2>1, <2>2, <2>3, <2>4, <2>5, <2>6 DEF Receive
<1>4. ASSUME NEW c \in Conns, NEW k \in Keys, Established(c, k)
      PROVE  Kept
  BY <1>1, <1>4 DEF Established, registry
<1>5. ASSUME NEW c \in Conns, Writeable(c) \/ Closed(c)
      PROVE  Kept
  BY <1>1, <1>5 DEF Writeable, Closed, registry
<1>6. ASSUME UNCHANGED vars PROVE Kept
  BY <1>6, <1>1 DEF vars
<1> HIDE DEF Kept
<1>7. Kept \/ Restart
  BY <1>3, <1>4, <1>5, <1>6 DEF Next
<1> QED
  BY <1>7 DEF Kept

(* The first registration of a name binds it to its key until the server   *)
(* restarts (chat_server_users_register), for any number of users.         *)
THEOREM RegistrationBinds == Spec => FirstRegistrationWins
<1>1. TypeOK /\ [Next]_vars =>
        [\/ \A u \in Registered : identity_pk'[u] = identity_pk[u]
         \/ Restart]_vars
  BY KeysKept
<1> QED
  BY <1>1, TypeCorrect, PTL DEF Spec, FirstRegistrationWins

-----------------------------------------------------------------------------
(* AuthSound looks at nothing but the fields named here. *)
LEMMA AuthFrame ==
    ASSUME TypeOK, TypeOK', AuthSound,
           \A u \in Registered : u \in Registered' /\ identity_pk'[u] = identity_pk[u],
           \A c \in open' : session'[c].authenticated =>
               /\ c \in open /\ session[c].authenticated
               /\ session'[c].username = session[c].username
               /\ client'[c].key = client[c].key
    PROVE  AuthSound'
BY DEF AuthSound

(* handle_auth_response lets in only the holder of the registered key. *)
LEMMA AuthResponseSound ==
    ASSUME TypeOK, TypeOK', AuthSound, NEW c \in open,
           NEW signature \in Signatures(c), HandleAuthResponse(c, signature),
           \A u \in Registered : u \in Registered' /\ identity_pk'[u] = identity_pk[u]
    PROVE  AuthSound'
<1>1. CASE \E code : SendError(c, code)
  BY <1>1, AuthFrame DEF SendError, SendJson, TypeOK, Sessions
<1>2. CASE AuthResult(c, signature) = "ok"
  <2>1. /\ session[c].username \in Registered
        /\ signature = [key |-> identity_pk[session[c].username],
                       challenge |-> session[c].challenge]
        /\ signature # BadSignature
    BY <1>2 DEF AuthResult, SignatureVerifies, Find
  <2>2. signature = [key |-> client[c].key, challenge |-> client[c].heard]
    BY <2>1 DEF Signatures
  <2>3. identity_pk[session[c].username] = client[c].key
    <3>1. signature.key = identity_pk[session[c].username]
      BY <2>1
    <3>2. signature.key = client[c].key
      BY <2>2
    <3> QED
      BY <3>1, <3>2
  <2>4. /\ session' = [session EXCEPT ![c] =
             [username |-> session[c].username, challenge |-> 0,
              authenticated |-> TRUE, pending |-> AuthOk]]
        /\ UNCHANGED <<identity_pk, open, client>>
    BY <1>2 DEF HandleAuthResponse, TypeOK
  <2> QED
    BY <2>1, <2>3, <2>4 DEF AuthSound, TypeOK, Registered
<1> QED
  BY <1>1, <1>2 DEF HandleAuthResponse

LEMMA AuthStep ==
    ASSUME TypeOK, TypeOK', AuthSound, [Next]_vars
    PROVE  AuthSound'
<1>1. CASE Restart
  BY <1>1 DEF Restart, AuthSound
<1>2. CASE ~Restart
  <2>1. \A u \in Registered : u \in Registered' /\ identity_pk'[u] = identity_pk[u]
    BY <1>2, KeysKept
  <2>2. ASSUME NEW c \in Conns, NEW k \in Keys, Established(c, k)
        PROVE  AuthSound'
    BY <2>1, <2>2, AuthFrame DEF Established, NewSession, TypeOK
  <2>3. ASSUME NEW c \in open, NEW u, NEW pk, HandleRegister(c, u, pk)
        PROVE  AuthSound'
    <3>1. /\ \E m : session' = [session EXCEPT ![c].pending = m]
          /\ UNCHANGED <<open, client>>
      BY <2>3 DEF HandleRegister, SendError, SendJson
    <3> QED
      BY <2>1, <3>1, AuthFrame DEF TypeOK, Sessions
  <2>4. ASSUME NEW c \in open, NEW u, HandleHello(c, u)
        PROVE  AuthSound'
    <3>1. CASE \E code : SendError(c, code)
      BY <2>1, <3>1, AuthFrame DEF SendError, SendJson, TypeOK, Sessions
    <3>2. CASE /\ session' = [session EXCEPT ![c] =
                    [username |-> u, challenge |-> nonce + 1,
                     authenticated |-> FALSE, pending |-> Challenge(nonce + 1)]]
               /\ UNCHANGED <<open, client>>
      BY <2>1, <3>2, AuthFrame DEF TypeOK, Sessions
    <3> QED
      BY <2>4, <3>1, <3>2 DEF HandleHello
  <2>5. ASSUME NEW c \in open, NEW u, HandleUserLookup(c, u)
        PROVE  AuthSound'
    <3>1. /\ \E m : session' = [session EXCEPT ![c].pending = m]
          /\ UNCHANGED <<open, client>>
      BY <2>5 DEF HandleUserLookup, SendError, SendJson
    <3> QED
      BY <2>1, <3>1, AuthFrame DEF TypeOK, Sessions
  <2>6. ASSUME NEW c \in open, NEW type \in Types, NEW from, NEW to, NEW pk, NEW body,
               HandleSignalingForward(c, type, from, to, pk, body)
        PROVE  AuthSound'
    <3>1. /\ \/ \E d \in open : \E m : session' = [session EXCEPT ![d].pending = m]
             \/ UNCHANGED session
          /\ UNCHANGED <<open, client>>
      BY <2>6 DEF HandleSignalingForward, Target, SendError, SendJson
    <3>2. CASE \E d \in open : \E m : session' = [session EXCEPT ![d].pending = m]
      BY <2>1, <3>1, <3>2, AuthFrame DEF TypeOK, Sessions
    <3>3. CASE UNCHANGED session
      BY <2>1, <3>1, <3>3, AuthFrame
    <3> QED
      BY <3>1, <3>2, <3>3
  <2>7. ASSUME NEW c \in open, NEW code, RejectFrame(c, code)
        PROVE  AuthSound'
    BY <2>1, <2>7, AuthFrame DEF RejectFrame, SendError, SendJson, TypeOK, Sessions
  <2>8. ASSUME NEW c \in Conns, Receive(c)
        PROVE  AuthSound'
    BY <2>1, <2>3, <2>4, <2>5, <2>6, <2>7, <2>8, AuthResponseSound DEF Receive
  <2>9. ASSUME NEW c \in Conns, Writeable(c)
        PROVE  AuthSound'
    BY <2>1, <2>9, AuthFrame DEF Writeable, TypeOK, Sessions
  <2>10. ASSUME NEW c \in Conns, Closed(c)
         PROVE  AuthSound'
    BY <2>1, <2>10, AuthFrame DEF Closed, TypeOK, Sessions
  <2>11. CASE UNCHANGED vars
    BY <2>11 DEF vars, AuthSound, Registered
  <2> QED
    BY <1>2, <2>2, <2>8, <2>9, <2>10, <2>11 DEF Next
<1> QED
  BY <1>1, <1>2

(* Whoever is authenticated as a user holds the key that user is           *)
(* registered with (handle_auth_response).                                 *)
THEOREM AuthenticationSound == Spec => []AuthSound
<1>1. Init => AuthSound
  BY DEF Init, AuthSound
<1> QED
  BY <1>1, AuthStep, TypeCorrect, PTL DEF Spec

-----------------------------------------------------------------------------
(* What send_json does to the sessions. *)
LEMMA SlotWrite ==
    ASSUME TypeOK, NEW d \in Conns, NEW m,
           session' = [session EXCEPT ![d].pending = m]
    PROVE  /\ session'[d].pending = m
           /\ \A c \in Conns :
                /\ session'[c].authenticated = session[c].authenticated
                /\ session'[c].username = session[c].username
                /\ c # d => session'[c].pending = session[c].pending
BY DEF TypeOK, Sessions

(* The server's own replies are not relayed messages. *)
LEMMA RepliesAreNoRelays ==
    /\ \A code : ~IsRelay(Error(code))
    /\ \A n : ~IsRelay(Challenge(n))
    /\ \A u : ~IsRelay(UserStatus(u))
    /\ ~IsRelay(RegisterOk)
    /\ ~IsRelay(AuthOk)
    /\ ~IsRelay(Empty)
BY DEF IsRelay, SignalingTypes, Error, Challenge, UserStatus, RegisterOk, AuthOk

(* Of all steps only a forward to an open, empty slot adds a relay. *)
LEMMA RelaysAdded ==
    ASSUME TypeOK, [Next]_vars, NEW d \in open', IsRelay(session'[d].pending)
    PROVE  \/ /\ d \in open
              /\ session'[d].pending = session[d].pending
              /\ session'[d].authenticated = session[d].authenticated
              /\ session'[d].username = session[d].username
           \/ \E c \in open, type \in Types, from, to \in Users,
                 pk \in KeyFields, body \in Bodies :
                /\ ForwardResult(c, type, from, to, pk) = "ok"
                /\ d = wsi[to] /\ d \in open
                /\ session' = [session EXCEPT ![d].pending = Relay(c, type, from, to, pk, body)]
                /\ UNCHANGED <<registry, open, client, nonce>>
<1> DEFINE Old == /\ d \in open
                  /\ session'[d].pending = session[d].pending
                  /\ session'[d].authenticated = session[d].authenticated
                  /\ session'[d].username = session[d].username
           New == \E c \in open, type \in Types, from, to \in Users,
                     pk \in KeyFields, body \in Bodies :
                    /\ ForwardResult(c, type, from, to, pk) = "ok"
                    /\ d = wsi[to] /\ d \in open
                    /\ session' = [session EXCEPT ![d].pending = Relay(c, type, from, to, pk, body)]
                    /\ UNCHANGED <<registry, open, client, nonce>>
<1>1. ASSUME NEW c \in Conns, NEW m, ~IsRelay(m), SendJson(c, m),
             UNCHANGED open
      PROVE  Old
  BY <1>1, SlotWrite DEF SendJson, TypeOK
<1>2. ASSUME NEW c \in Conns, NEW code, SendError(c, code)
      PROVE  Old
  BY <1>1, <1>2, RepliesAreNoRelays DEF SendError
<1>3. ASSUME NEW c \in open, NEW u, NEW pk, HandleRegister(c, u, pk)
      PROVE  Old
  BY <1>1, <1>2, <1>3, RepliesAreNoRelays DEF HandleRegister, TypeOK
<1>4. ASSUME NEW c \in open, NEW u, HandleHello(c, u)
      PROVE  Old
  <2>1. CASE \E code : SendError(c, code)
    BY <2>1, <1>2 DEF TypeOK
  <2>2. CASE /\ session' = [session EXCEPT ![c] =
                  [username |-> u, challenge |-> nonce + 1,
                   authenticated |-> FALSE, pending |-> Challenge(nonce + 1)]]
             /\ UNCHANGED open
    BY <2>2, RepliesAreNoRelays, ZenonT(30) DEF TypeOK
  <2> QED
    BY <1>4, <2>1, <2>2 DEF HandleHello
<1>5. ASSUME NEW c \in open, NEW signature, HandleAuthResponse(c, signature)
      PROVE  Old
  <2>1. CASE \E code : SendError(c, code)
    BY <2>1, <1>2 DEF TypeOK
  <2>2. CASE /\ session' = [session EXCEPT ![c] =
                  [username |-> session[c].username, challenge |-> 0,
                   authenticated |-> TRUE, pending |-> AuthOk]]
             /\ UNCHANGED open
    BY <2>2, RepliesAreNoRelays, ZenonT(30) DEF TypeOK
  <2> QED
    BY <1>5, <2>1, <2>2 DEF HandleAuthResponse, TypeOK
<1>6. ASSUME NEW c \in open, NEW u, HandleUserLookup(c, u)
      PROVE  Old
  BY <1>1, <1>2, <1>6, RepliesAreNoRelays DEF HandleUserLookup, TypeOK
<1>7. ASSUME NEW c \in open, NEW type \in Types, NEW from \in Names,
             NEW to \in Names, NEW pk \in KeyFields, NEW body \in Bodies,
             HandleSignalingForward(c, type, from, to, pk, body)
      PROVE  Old \/ New
  <2>1. CASE \E code : SendError(c, code)
    BY <2>1, <1>2 DEF TypeOK
  <2>2. CASE UNCHANGED <<open, session>>
    BY <2>2
  <2>3. CASE /\ ForwardResult(c, type, from, to, pk) = "ok"
             /\ wsi[to] \in open
             /\ SendJson(wsi[to], Relay(c, type, from, to, pk, body))
             /\ UNCHANGED <<registry, open, client, nonce>>
    <3>1. from \in Users /\ to \in Users
      BY <2>3, ForwardOk DEF Registered, TypeOK
    <3>2. CASE d = wsi[to]
      BY <2>3, <3>1, <3>2, ZenonT(30) DEF SendJson
    <3>3. CASE d # wsi[to]
      BY <2>3, <3>3, SlotWrite DEF SendJson, TypeOK
    <3> QED
      BY <3>2, <3>3
  <2> QED
    BY <1>7, <2>1, <2>2, <2>3 DEF HandleSignalingForward, Target
<1>8. ASSUME NEW c \in open, NEW code, RejectFrame(c, code)
      PROVE  Old
  BY <1>2, <1>8 DEF RejectFrame, TypeOK
<1>9. ASSUME NEW c \in Conns, NEW k \in Keys, Established(c, k)
      PROVE  Old
  BY <1>9, RepliesAreNoRelays, ZenonT(30) DEF Established, NewSession, TypeOK
<1>10. ASSUME NEW c \in Conns, Writeable(c)
       PROVE  Old
  BY <1>10, SlotWrite, RepliesAreNoRelays DEF Writeable, TypeOK
<1>11. ASSUME NEW c \in Conns, Closed(c)
       PROVE  Old
  BY <1>11, RepliesAreNoRelays DEF Closed, NewSession, TypeOK
<1>12. ASSUME Restart PROVE Old
  BY <1>12 DEF Restart
<1>13. ASSUME UNCHANGED vars PROVE Old
  BY <1>13 DEF vars
<1> HIDE DEF Old, New
<1>14. ASSUME NEW c \in Conns, Receive(c) PROVE Old \/ New
  BY <1>3, <1>4, <1>5, <1>6, <1>7, <1>8, <1>14 DEF Receive
<1>15. Old \/ New
  BY <1>9, <1>10, <1>11, <1>12, <1>13, <1>14 DEF Next
<1> QED
  BY <1>15 DEF Old, New

LEMMA RelayOriginStep ==
    ASSUME TypeOK, TypeOK', AuthSound, RelayOrigin, [Next]_vars
    PROVE  RelayOrigin'
<1>1. CASE Restart
  BY <1>1 DEF Restart, RelayOrigin
<1>2. CASE ~Restart
  <2>1. \A u \in Registered : u \in Registered' /\ identity_pk'[u] = identity_pk[u]
    BY <1>2, KeysKept
  <2>2. SUFFICES ASSUME NEW d \in open', IsRelay(session'[d].pending)
                 PROVE  LET m == session'[d].pending IN
                        /\ m.from \in Registered'
                        /\ m.origin = identity_pk'[m.from]
                        /\ m.type \in KeyedTypes => m.public_key = identity_pk'[m.from]
    BY DEF RelayOrigin, IsRelay
  <2>3. CASE d \in open /\ session'[d].pending = session[d].pending
    BY <2>1, <2>2, <2>3 DEF RelayOrigin
  <2>4. CASE \E c \in open, type \in Types, from, to \in Users,
                pk \in KeyFields, body \in Bodies :
                /\ ForwardResult(c, type, from, to, pk) = "ok"
                /\ d = wsi[to] /\ d \in open
                /\ session' = [session EXCEPT ![d].pending = Relay(c, type, from, to, pk, body)]
    <3>1. PICK c \in open, type \in Types, from \in Users, to \in Users,
               pk \in KeyFields, body \in Bodies :
                /\ ForwardResult(c, type, from, to, pk) = "ok"
                /\ session' = [session EXCEPT ![d].pending = Relay(c, type, from, to, pk, body)]
      BY <2>4, ZenonT(30)
    <3>2. session'[d].pending = Relay(c, type, from, to, pk, body)
      BY <3>1, SlotWrite DEF TypeOK
    <3>3. /\ session[c].authenticated /\ from = session[c].username
          /\ type \in KeyedTypes => pk = identity_pk[from]
      BY <3>1 DEF ForwardResult
    <3>4. from \in Registered /\ identity_pk[from] = client[c].key
      BY <3>3 DEF AuthSound
    <3> QED
      BY <2>1, <3>2, <3>3, <3>4 DEF Relay
  <2> QED
    BY <2>2, <2>3, <2>4, RelaysAdded
<1> QED
  BY <1>1, <1>2

(* A relayed message comes from the holder of the key its from field is    *)
(* registered with, whatever clients send (handle_signaling_forward).      *)
THEOREM RelaysComeFromSender == Spec => []RelayOrigin
<1>1. Init => RelayOrigin
  BY DEF Init, RelayOrigin
<1> QED
  BY <1>1, RelayOriginStep, AuthenticationSound, TypeCorrect, PTL DEF Spec

-----------------------------------------------------------------------------
(* PresenceSound looks at nothing but the fields named here. *)
LEMMA PresenceFrame ==
    ASSUME PresenceSound,
           \A u \in online' : /\ u \in online
                              /\ wsi'[u] = wsi[u]
                              /\ wsi[u] \in open'
                              /\ session'[wsi[u]].authenticated = session[wsi[u]].authenticated
                              /\ session'[wsi[u]].username = session[wsi[u]].username
    PROVE  PresenceSound'
BY DEF PresenceSound

(* A write to a slot leaves presence alone. *)
LEMMA PresenceSlot ==
    ASSUME TypeOK, PresenceSound, NEW d \in Conns, NEW m, SendJson(d, m),
           UNCHANGED <<registry, open>>
    PROVE  PresenceSound'
BY PresenceFrame, SlotWrite DEF SendJson, registry, PresenceSound, TypeOK

LEMMA PresenceStep ==
    ASSUME HelloOnce, TypeOK, TypeOK', PresenceSound, [Next]_vars
    PROVE  PresenceSound'
<1>1. ASSUME NEW c \in Conns, NEW code, SendError(c, code)
      PROVE  PresenceSound'
  BY <1>1, PresenceSlot DEF SendError
<1>2. ASSUME NEW c \in open, NEW u, NEW pk, HandleRegister(c, u, pk)
      PROVE  PresenceSound'
  <2>1. CASE \E code : SendError(c, code)
    BY <2>1, <1>1 DEF TypeOK
  <2>2. CASE /\ wsi' = [wsi EXCEPT ![u] = NoConn]
             /\ online' = online \ {u}
             /\ SendJson(c, RegisterOk)
             /\ UNCHANGED open
    <3>1. \A v \in online' : v \in online /\ wsi'[v] = wsi[v] /\ wsi[v] \in open
      BY <2>2 DEF TypeOK, PresenceSound
    <3> QED
      BY <2>2, <3>1, SlotWrite, PresenceFrame DEF SendJson, TypeOK
  <2> QED
    BY <1>2, <2>1, <2>2 DEF HandleRegister
<1>3. ASSUME NEW c \in open, NEW u, MayHello(c), HandleHello(c, u)
      PROVE  PresenceSound'
  <2>1. CASE \E code : SendError(c, code)
    BY <2>1, <1>1 DEF TypeOK
  <2>2. CASE /\ session' = [session EXCEPT ![c] =
                  [username |-> u, challenge |-> nonce + 1,
                   authenticated |-> FALSE, pending |-> Challenge(nonce + 1)]]
             /\ UNCHANGED <<registry, open>>
    <3>1. \A v \in online : wsi[v] # c
      BY <1>3, ConstantsAssumption DEF MayHello, PresenceSound, TypeOK
    <3> QED
      BY <2>2, <3>1, PresenceFrame DEF registry, PresenceSound, TypeOK
  <2> QED
    BY <1>3, <2>1, <2>2 DEF HandleHello
<1>4. ASSUME NEW c \in open, NEW signature, HandleAuthResponse(c, signature)
      PROVE  PresenceSound'
  <2>1. CASE \E code : SendError(c, code)
    BY <2>1, <1>1 DEF TypeOK
  <2>2. CASE AuthResult(c, signature) = "ok"
    <3>1. /\ session' = [session EXCEPT ![c] =
                 [username |-> session[c].username, challenge |-> 0,
                  authenticated |-> TRUE, pending |-> AuthOk]]
          /\ online' = online \cup {session[c].username}
          /\ wsi' = [wsi EXCEPT ![session[c].username] = c]
          /\ UNCHANGED open
      BY <1>4, <2>2 DEF HandleAuthResponse, SetOnline, TypeOK
    <3>2. session[c].username \in Users
      BY <2>2 DEF AuthResult, Find, Registered
    <3> QED
      BY <3>1, <3>2 DEF PresenceSound, TypeOK
  <2> QED
    BY <1>4, <2>1, <2>2 DEF HandleAuthResponse
<1>5. ASSUME NEW c \in open, NEW u, HandleUserLookup(c, u)
      PROVE  PresenceSound'
  BY <1>5, <1>1, PresenceSlot DEF HandleUserLookup, TypeOK
<1>6. ASSUME NEW c \in open, NEW type, NEW from, NEW to, NEW pk, NEW body,
             HandleSignalingForward(c, type, from, to, pk, body)
      PROVE  PresenceSound'
  <2>1. CASE \E code : SendError(c, code)
    BY <2>1, <1>1 DEF TypeOK
  <2>2. CASE /\ wsi[to] \in open
             /\ SendJson(wsi[to], Relay(c, type, from, to, pk, body))
             /\ UNCHANGED <<registry, open>>
    BY <2>2, PresenceSlot DEF TypeOK
  <2>3. CASE UNCHANGED <<registry, open, session>>
    BY <2>3 DEF registry, PresenceSound
  <2> QED
    BY <1>6, <2>1, <2>2, <2>3 DEF HandleSignalingForward, Target
<1>7. ASSUME NEW c \in open, NEW code, RejectFrame(c, code)
      PROVE  PresenceSound'
  BY <1>7, <1>1 DEF RejectFrame, TypeOK
<1>8. ASSUME NEW c \in Conns, Receive(c)
      PROVE  PresenceSound'
  BY <1>2, <1>3, <1>4, <1>5, <1>6, <1>7, <1>8 DEF Receive
<1>9. ASSUME NEW c \in Conns, NEW k \in Keys, Established(c, k)
      PROVE  PresenceSound'
  BY <1>9, PresenceFrame DEF Established, registry, PresenceSound, TypeOK
<1>10. ASSUME NEW c \in Conns, Writeable(c)
       PROVE  PresenceSound'
  BY <1>10, PresenceSlot, ZenonT(30) DEF Writeable, SendJson
<1>11. ASSUME NEW c \in Conns, Closed(c)
       PROVE  PresenceSound'
  <2>1. \A u \in online' : u \in online /\ wsi'[u] = wsi[u] /\ wsi[u] # c
    BY <1>11 DEF Closed, SetOfflineByWsi, PresenceSound, TypeOK
  <2> QED
    BY <1>11, <2>1, PresenceFrame DEF Closed, PresenceSound, TypeOK
<1>12. CASE Restart
  BY <1>12 DEF Restart, PresenceSound
<1>13. CASE UNCHANGED vars
  BY <1>13 DEF vars, PresenceSound
<1> QED
  BY <1>8, <1>9, <1>10, <1>11, <1>12, <1>13 DEF Next

(* With clients that say hello once a connection, as chatd does, an online *)
(* entry always points to an open connection authenticated as that user.   *)
THEOREM PresenceIsLive == HelloOnce /\ Spec => []PresenceSound
<1> SUFFICES ASSUME HelloOnce PROVE Spec => []PresenceSound
  OBVIOUS
<1>1. Init => PresenceSound
  BY DEF Init, PresenceSound
<1>2. TypeOK /\ TypeOK' /\ PresenceSound /\ [Next]_vars => PresenceSound'
  BY PresenceStep
<1> QED
  BY <1>1, <1>2, TypeCorrect, PTL DEF Spec

LEMMA AddresseeStep ==
    ASSUME TypeOK, PresenceSound, RelayAddressee, [Next]_vars
    PROVE  RelayAddressee'
<1>1. SUFFICES ASSUME NEW d \in open', IsRelay(session'[d].pending)
               PROVE  /\ session'[d].authenticated
                      /\ session'[d].username = session'[d].pending.to
  BY DEF RelayAddressee, IsRelay
<1>2. CASE /\ d \in open
           /\ session'[d].pending = session[d].pending
           /\ session'[d].authenticated = session[d].authenticated
           /\ session'[d].username = session[d].username
  BY <1>1, <1>2 DEF RelayAddressee
<1>3. CASE \E c \in open, type \in Types, from, to \in Users,
              pk \in KeyFields, body \in Bodies :
              /\ ForwardResult(c, type, from, to, pk) = "ok"
              /\ d = wsi[to] /\ d \in open
              /\ session' = [session EXCEPT ![d].pending = Relay(c, type, from, to, pk, body)]
  <2>1. PICK c \in open, type \in Types, from \in Users, to \in Users,
             pk \in KeyFields, body \in Bodies :
              /\ ForwardResult(c, type, from, to, pk) = "ok"
              /\ d = wsi[to] /\ d \in open
              /\ session' = [session EXCEPT ![d].pending = Relay(c, type, from, to, pk, body)]
    BY <1>3, ZenonT(30)
  <2>2. to \in online
    BY <2>1 DEF ForwardResult
  <2>3. /\ session'[d].pending = Relay(c, type, from, to, pk, body)
        /\ session'[d].authenticated = session[d].authenticated
        /\ session'[d].username = session[d].username
    BY <2>1, SlotWrite DEF TypeOK
  <2> QED
    BY <2>1, <2>2, <2>3 DEF PresenceSound, Relay
<1> QED
  BY <1>1, <1>2, <1>3, RelaysAdded

(* A relayed message waits only on a connection authenticated as the user  *)
(* it is addressed to (handle_signaling_forward).                          *)
THEOREM RelaysReachAddressee == HelloOnce /\ Spec => []RelayAddressee
<1>1. Init => RelayAddressee
  BY DEF Init, RelayAddressee
<1> QED
  BY <1>1, AddresseeStep, PresenceIsLive, TypeCorrect, PTL DEF Spec

-----------------------------------------------------------------------------
LEMMA OfflineStep ==
    ASSUME TypeOK, AuthSound, PresenceSound, [Next]_vars,
           NEW u \in online, u \notin online'
    PROVE  wsi[u] \in open \ open'
<1>1. /\ wsi[u] \in open
      /\ u \in Registered
  BY DEF PresenceSound, AuthSound
<1>2. CASE Restart
  BY <1>1, <1>2 DEF Restart
<1>3. ASSUME NEW c \in Conns, Closed(c) PROVE wsi[u] = c /\ c \notin open'
  BY <1>3 DEF Closed, SetOfflineByWsi
<1>4. ASSUME NEW c \in Conns, Receive(c) PROVE FALSE
  <2>1. ASSUME NEW v, NEW pk, HandleRegister(c, v, pk) PROVE FALSE
    <3>1. RegisterResult(v) = "ok" /\ v = u
      BY <2>1 DEF HandleRegister, SendError, registry
    <3> QED
      BY <1>1, <3>1 DEF RegisterResult, Find
  <2>2. ASSUME NEW v, HandleHello(c, v) PROVE FALSE
    BY <2>2 DEF HandleHello, SendError, registry
  <2>3. ASSUME NEW sig, HandleAuthResponse(c, sig) PROVE FALSE
    BY <2>3 DEF HandleAuthResponse, SetOnline, SendError, registry
  <2>4. ASSUME NEW v, HandleUserLookup(c, v) PROVE FALSE
    BY <2>4 DEF HandleUserLookup, SendError, registry
  <2>5. ASSUME NEW type, NEW from, NEW to, NEW pk, NEW body,
               HandleSignalingForward(c, type, from, to, pk, body)
        PROVE  FALSE
    BY <2>5 DEF HandleSignalingForward, Target, SendError, registry
  <2>6. ASSUME NEW code, RejectFrame(c, code) PROVE FALSE
    BY <2>6 DEF RejectFrame, SendError, registry
  <2> QED
    BY <1>4, <2>1, <2>2, <2>3, <2>4, <2>5, <2>6 DEF Receive
<1>5. ASSUME NEW c \in Conns, NEW k \in Keys, Established(c, k) PROVE FALSE
  BY <1>5 DEF Established, registry
<1>6. ASSUME NEW c \in Conns, Writeable(c) PROVE FALSE
  BY <1>6 DEF Writeable, registry
<1>7. ~UNCHANGED vars
  BY DEF vars
<1> QED
  BY <1>1, <1>2, <1>3, <1>4, <1>5, <1>6, <1>7 DEF Next

(* A user goes offline only with the connection its entry points to        *)
(* (callback_chat_control, CLOSED, and set_offline_by_wsi).                *)
THEOREM OfflineByOwnClose == HelloOnce /\ Spec => OfflineOnlyByOwnClose
<1>1. TypeOK /\ AuthSound /\ PresenceSound /\ [Next]_vars =>
        [\A u \in online \ online' : wsi[u] \in open \ open']_vars
  BY OfflineStep
<1> QED
  BY <1>1, TypeCorrect, AuthenticationSound, PresenceIsLive, PTL
     DEF Spec, OfflineOnlyByOwnClose

LEMMA BoundedStep ==
    ASSUME TypeOK, RegistryBounded, [Next]_vars
    PROVE  RegistryBounded'
<1>1. IsFiniteSet(Registered) /\ Cardinality(Registered) \in Nat
  BY ConstantsAssumption, FS_Subset, FS_CardinalityType DEF Registered
<1>2. ASSUME UNCHANGED identity_pk PROVE RegistryBounded'
  BY <1>2 DEF RegistryBounded, Registered
<1>3. ASSUME NEW c \in Conns, NEW u, NEW pk, HandleRegister(c, u, pk)
      PROVE  RegistryBounded'
  <2>1. CASE \E code : SendError(c, code)
    BY <2>1, <1>2 DEF SendError, registry
  <2>2. CASE /\ RegisterFieldsValid(u, pk)
             /\ RegisterResult(u) = "ok"
             /\ identity_pk' = [identity_pk EXCEPT ![u] = pk]
    <3>1. u \in Users /\ pk # NoKey
      BY <2>2, ConstantsAssumption DEF RegisterFieldsValid
    <3>2. ~(Cardinality(Registered) >= MaxUsers) /\ u \notin Registered
      BY <2>2 DEF RegisterResult, Find
    <3>3. Registered' = Registered \cup {u}
      BY <2>2, <3>1 DEF Registered, TypeOK
    <3>4. Cardinality(Registered') = Cardinality(Registered) + 1
      BY <1>1, <3>2, <3>3, FS_AddElement
    <3> QED
      BY <1>1, <3>2, <3>4, ConstantsAssumption DEF RegistryBounded
  <2> QED
    BY <1>3, <2>1, <2>2 DEF HandleRegister
<1>4. ASSUME NEW c \in Conns, Receive(c) PROVE RegistryBounded'
  <2>1. ASSUME NEW u, HandleHello(c, u) PROVE UNCHANGED identity_pk
    BY <2>1 DEF HandleHello, SendError, registry
  <2>2. ASSUME NEW sig, HandleAuthResponse(c, sig) PROVE UNCHANGED identity_pk
    BY <2>2 DEF HandleAuthResponse, SendError, registry
  <2>3. ASSUME NEW u, HandleUserLookup(c, u) PROVE UNCHANGED identity_pk
    BY <2>3 DEF HandleUserLookup, SendError, registry
  <2>4. ASSUME NEW type, NEW from, NEW to, NEW pk, NEW body,
               HandleSignalingForward(c, type, from, to, pk, body)
        PROVE  UNCHANGED identity_pk
    BY <2>4 DEF HandleSignalingForward, Target, SendError, registry
  <2>5. ASSUME NEW code, RejectFrame(c, code) PROVE UNCHANGED identity_pk
    BY <2>5 DEF RejectFrame, SendError, registry
  <2> QED
    BY <1>2, <1>3, <1>4, <2>1, <2>2, <2>3, <2>4, <2>5 DEF Receive
<1>5. CASE Restart
  <2>1. Registered' = {}
    BY <1>5 DEF Restart, Registered
  <2> QED
    BY <2>1, FS_EmptySet, ConstantsAssumption DEF RegistryBounded
<1>6. ASSUME NEW c \in Conns, NEW k \in Keys, Established(c, k)
      PROVE  RegistryBounded'
  BY <1>2, <1>6 DEF Established, registry
<1>7. ASSUME NEW c \in Conns, Writeable(c) \/ Closed(c)
      PROVE  RegistryBounded'
  BY <1>2, <1>7 DEF Writeable, Closed, registry
<1>8. CASE UNCHANGED vars
  BY <1>2, <1>8 DEF vars
<1> QED
  BY <1>4, <1>5, <1>6, <1>7, <1>8 DEF Next

(* The registry array is never written past its end                        *)
(* (chat_server_users_register), for any capacity.                         *)
THEOREM RegistryNeverOverflows == Spec => []RegistryBounded
<1>1. Init => RegistryBounded
  <2>1. Init => Registered = {}
    BY DEF Init, Registered
  <2> QED
    BY <2>1, FS_EmptySet, ConstantsAssumption DEF RegistryBounded
<1> QED
  BY <1>1, BoundedStep, TypeCorrect, PTL DEF Spec
=============================================================================
