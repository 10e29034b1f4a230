----------------------------- MODULE MCIpcServer -----------------------------
(* Instances of IpcServer for TLC. *)
EXTENDS IpcServer, TLC

CONSTANTS status, chat1, chat2, other

MCCommand ==
    (status :> "STATUS") @@ (chat1 :> "OPEN_CHAT") @@ (chat2 :> "OPEN_CHAT")
        @@ (other :> "OTHER")
==============================================================================
