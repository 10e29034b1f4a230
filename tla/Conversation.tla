----------------------------- MODULE Conversation -----------------------------
(***************************************************************************)
(* What the daemons promise about conversations.  A conversation has an    *)
(* id, drawn by the daemon that asks for it, its host.  The guest joins    *)
(* first, when it accepts; then the host joins.  A daemon is in at most    *)
(* one conversation, may leave it at any time and never comes back to it;  *)
(* it may speak only in a conversation that both have joined, with each    *)
(* other.                                                                  *)
(***************************************************************************)
EXTENDS Naturals

CONSTANTS Daemons, MaxDrawn, None

VARIABLES
    joined,    \* the conversations a daemon has ever joined, with the peer
    speaking   \* the conversation a daemon speaks in, or None

cvars == <<joined, speaking>>

Ids == Daemons \X (1 .. MaxDrawn)
Host(id) == id[1]
Ever(d, id) == \E j \in joined[d] : j.session_id = id
With(d, peer, id) ==
    \E j \in joined[d] : j.session_id = id /\ j.peer = peer

Init ==
    /\ joined = [d \in Daemons |-> {}]
    /\ speaking = [d \in Daemons |-> None]

(* Joining a conversation leaves the one before. *)
Join(d, peer, id) ==
    /\ ~Ever(d, id)
    /\ Host(id) \in {d, peer}
    /\ Host(id) = d => With(peer, d, id)
    /\ joined' = [joined EXCEPT ![d] = @ \cup
            {[session_id |-> id, peer |-> peer, controlling |-> Host(id) = d]}]
    /\ speaking' = [speaking EXCEPT ![d] = None]

Speak(d, peer, id) ==
    /\ speaking[d] = None
    /\ With(d, peer, id) /\ With(peer, d, id)
    /\ speaking' = [speaking EXCEPT ![d] = id]
    /\ UNCHANGED joined

Leave(d) ==
    /\ speaking[d] # None
    /\ speaking' = [speaking EXCEPT ![d] = None]
    /\ UNCHANGED joined

Next ==
    \E d \in Daemons :
        \/ \E peer \in Daemons \ {d}, id \in Ids :
              Join(d, peer, id) \/ Speak(d, peer, id)
        \/ Leave(d)

Spec == Init /\ [][Next]_cvars
===============================================================================
