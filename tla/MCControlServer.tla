--------------------------- MODULE MCControlServer ---------------------------
(* Instances of ControlServer for TLC.  Connections, and users with keys,  *)
(* are interchangeable: nothing in the specification tells them apart.     *)
EXTENDS ControlServer, TLC

Symmetry ==
    Permutations(Conns) \cup Permutations(Users) \cup Permutations(Keys)
=============================================================================
