---------------------------- MODULE MCControlPlane ----------------------------
(* Instances of ControlPlane for TLC. *)
EXTENDS ControlPlane, TLC

Anybody == [d \in Daemons |-> Daemons \ {d}]
Nobody == [d \in Daemons |-> {}]

Symmetry == Permutations(Conns) \cup Permutations(Daemons)
ConnSymmetry == Permutations(Conns)

(* The first daemon, in TLC's order, opens chats with the others. *)
First == CHOOSE d \in Daemons : TRUE
FirstOnly == [d \in Daemons |-> IF d = First THEN Daemons \ {d} ELSE {}]

(* A second daemon asks for the first, which has asked for a third. *)
Second == CHOOSE d \in Daemons : d # First
Crossing ==
    [d \in Daemons |-> CASE d = First -> Daemons \ {First, Second}
                         [] d = Second -> {First}
                         [] OTHER -> {}]
===============================================================================
