------------------------------ MODULE ChatStream ------------------------------
(***************************************************************************)
(* What an encrypted chat session promises its two ends: each reads a      *)
(* prefix of what the other wrote, and learns of a clean close only after  *)
(* it has read everything.  Either end may give up at any time.            *)
(***************************************************************************)
EXTENDS Naturals, Sequences

CONSTANT Texts

Ends == {"initiator", "responder"}
Peer(e) == IF e = "initiator" THEN "responder" ELSE "initiator"

VARIABLES
    out,      \* the texts an end has written to its stream
    in,       \* the texts an end has read from its peer's stream
    outcome   \* how the session stands for an end

svars == <<out, in, outcome>>

Outcomes == {"open", "closed", "finished", "aborted"}

Init ==
    /\ out = [e \in Ends |-> <<>>]
    /\ in = [e \in Ends |-> <<>>]
    /\ outcome = [e \in Ends |-> "open"]

Write(e, t) ==
    /\ outcome[e] = "open"
    /\ out' = [out EXCEPT ![e] = Append(@, t)]
    /\ UNCHANGED <<in, outcome>>

Read(e) ==
    /\ outcome[e] = "open"
    /\ Len(in[e]) < Len(out[Peer(e)])
    /\ in' = [in EXCEPT ![e] = Append(@, out[Peer(e)][Len(@) + 1])]
    /\ UNCHANGED <<out, outcome>>

End(e, how) ==
    /\ outcome[e] = "open"
    /\ outcome' = [outcome EXCEPT ![e] = how]
    /\ UNCHANGED <<out, in>>

Close(e) == End(e, "closed")
Abort(e) == End(e, "aborted")
Finish(e) ==
    /\ outcome[Peer(e)] = "closed"
    /\ in[e] = out[Peer(e)]
    /\ End(e, "finished")

Next ==
    \E e \in Ends :
        \/ \E t \in Texts : Write(e, t)
        \/ Read(e) \/ Close(e) \/ Abort(e) \/ Finish(e)

Spec == Init /\ [][Next]_svars
===============================================================================
