---------------------------- MODULE MCSecureSession ---------------------------
(* Instances of SecureSession for TLC. *)
EXTENDS SecureSession

CONSTANTS short, long, wide

(* The initiator's CLI writes, the responder's only reads. *)
OneWay == [initiator |-> 2, responder |-> 0]
(* Both write. *)
BothWays == [initiator |-> 1, responder |-> 1]
(* The session is only set up and closed. *)
NoTexts == [initiator |-> 0, responder |-> 0]
===============================================================================
