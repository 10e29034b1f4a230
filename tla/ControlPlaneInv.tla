--------------------------- MODULE ControlPlaneInv ----------------------------
(***************************************************************************)
(* The inductive invariant of the daemons and the control server together: *)
(* what is true of every daemon, of every connection, of the registry and  *)
(* of every login at any time.  ServerStepProofs and DaemonStepProofs show *)
(* that every step preserves it, ControlPlaneProofs what follows from it.  *)
(***************************************************************************)
EXTENDS ControlPlane, ChatdInv

(* What the daemon that has a connection knows. *)
Held(c) == {Side(chatd[d]) : d \in Holders(c)}

Allowance == [d \in Daemons |-> opens[d] * (1 + RetryMax)]
FromDaemon(d) == Logins(d) \cup SignalsOf(d)
UpMessages == UNION {FromDaemon(d) : d \in Daemons}

Typed ==
    /\ S!TypeOK
    /\ opens \in [Daemons -> 0 .. MaxOpens]
    /\ ChatdOK(chatd, Allowance)
    /\ up \in [Conns -> Seq(UpMessages)] /\ down \in [Conns -> Seq(S!Messages)]
    /\ \A c \in Conns : Len(up[c]) <= WireCapacity /\ Len(down[c]) <= WireCapacity

(* Whose a connection is, and what may be on it. *)
Owned ==
    /\ \A d \in Daemons : chatd[d].wsi \in open => client[chatd[d].wsi].key = d
    /\ \A c \in open : \A i \in DOMAIN up[c] : up[c][i] \in FromDaemon(client[c].key)

(* A relayed message does not come from the user it goes to. *)
Apart ==
    /\ \A c \in open : LET m == session[c].pending IN
          m # Empty /\ m.type \in SignalTypes => m.from # client[c].key
    /\ \A d \in Daemons : chatd[d].wsi \in Conns =>
          \A i \in DOMAIN down[chatd[d].wsi] : LET m == down[chatd[d].wsi][i] IN
              m.type \in SignalTypes => m.from # d

(* The registry and the sessions. *)
Present ==
    /\ \A c \in open : session[c].authenticated =>
          session[c].username # NoUser /\ identity_pk[session[c].username] # NoKey
    /\ \A u \in Daemons : u \in online <=> wsi[u] # NoConn
    /\ \A u \in Daemons : wsi[u] # NoConn =>
          /\ wsi[u] \in open /\ session[wsi[u]].authenticated
          /\ client[wsi[u]].key = u

LoggingIn ==
    \A c \in open :
        Login(client[c].key, session[c], client[c].heard, up[c], down[c], Held(c))

Inv == Typed /\ Owned /\ Apart /\ Present /\ LoggingIn

(* A daemon that is not running has no connection. *)
Down == \A d \in Daemons : chatd[d].phase = "FAILED" => chatd[d].wsi = NoConn

(* Without late reads, the registry follows the connection a daemon has. *)
Pointed ==
    \A c \in open : Holders(c) # {} /\ session[c].authenticated =>
        wsi[client[c].key] = c
===============================================================================
