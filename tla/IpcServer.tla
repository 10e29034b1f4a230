------------------------------- MODULE IpcServer -------------------------------
(***************************************************************************)
(* The IPC socket of chatd (service_ipc in daemon/main.c) and the commands *)
(* chat status and chat <peer> that connect to it (client/main.c).  chatd  *)
(* looks at one new client at a time, pending_ipc_client_fd, for at most   *)
(* five seconds; the others wait in the backlog of the socket.  A CLI that *)
(* asked for a chat is kept on lookup_client_fd.                           *)
(*                                                                         *)
(* Chatd models what a request for a chat leads to.  Here the session ends *)
(* and begins, and a request is answered, at any time.                     *)
(***************************************************************************)
EXTENDS Naturals, Sequences, FiniteSets

CONSTANTS
    Clients,   \* processes that connect to the socket
    Command,   \* what each of them has to say, see Commands
    Backlog,   \* connections that wait to be accepted (16 in the code)
    None

Commands == {"STATUS", "OPEN_CHAT", "OTHER"}

ASSUME IpcServerAssumption ==
    /\ Command \in [Clients -> Commands]
    /\ Backlog \in Nat \ {0}
    /\ None \notin Clients

VARIABLES
    cli,        \* what each client is doing
    command,    \* clients whose command is in the socket, unread
    reply,      \* the answers in each socket, unread
    backlog,    \* clients that wait to be accepted
    fds,        \* clients whose connection chatd has open
    pending,    \* pending_ipc_client_fd
    lookup,     \* lookup_client_fd
    secure      \* a secure session with the peer that is asked for

clients == <<cli, command>>
vars == <<clients, reply, backlog, fds, pending, lookup, secure>>

-----------------------------------------------------------------------------
(* The clients: open_ipc_socket, write_all, read_ipc_response.             *)

InBacklog(c) == \E i \in 1 .. Len(backlog) : backlog[i] = c
(* chatd, or its kernel, has closed its end. *)
Closed(c) == c \notin fds /\ ~InBacklog(c)

(* A process that ends leaves nothing chatd can read: POLLHUP comes first. *)
Ends(c) ==
    /\ cli' = [cli EXCEPT ![c] = "done"]
    /\ command' = command \ {c}
    /\ reply' = [reply EXCEPT ![c] = <<>>]

HasRoom == Len(backlog) < Backlog
Connects(c) ==
    /\ cli[c] = "idle" /\ HasRoom
    /\ cli' = [cli EXCEPT ![c] = "connected"]
    /\ backlog' = Append(backlog, c)
    /\ UNCHANGED <<command, reply, fds, pending, lookup, secure>>

Asks(c) ==
    /\ cli[c] = "connected"
    /\ IF Closed(c)
       THEN Ends(c)
       ELSE /\ cli' = [cli EXCEPT ![c] = "asked"]
            /\ command' = command \cup {c}
            /\ UNCHANGED reply
    /\ UNCHANGED <<backlog, fds, pending, lookup, secure>>

(* One read takes all that is there and looks at its beginning only:       *)
(* ENCRYPTED_SESSION begins the chat loop, any other answer ends the CLI.  *)
ReadsReply(c) ==
    /\ cli[c] \in {"asked", "chatting"} /\ reply[c] # <<>>
    /\ IF Head(reply[c]) = "ENCRYPTED_SESSION"
       THEN /\ cli' = [cli EXCEPT ![c] = "chatting"]
            /\ reply' = [reply EXCEPT ![c] = <<>>]
            /\ UNCHANGED command
       ELSE Ends(c)
    /\ UNCHANGED <<backlog, fds, pending, lookup, secure>>

ReadsEndOfFile(c) ==
    /\ cli[c] \in {"asked", "chatting"} /\ reply[c] = <<>> /\ Closed(c)
    /\ Ends(c)
    /\ UNCHANGED <<backlog, fds, pending, lookup, secure>>

(* The timeout of poll, Ctrl+C, or a client that is killed. *)
Leaves(c) ==
    /\ cli[c] \in {"connected", "asked", "chatting"}
    /\ Ends(c)
    /\ UNCHANGED <<backlog, fds, pending, lookup, secure>>

-----------------------------------------------------------------------------
(* handle_ipc_client.  What it does with the connection: the answer, and   *)
(* whether it is kept as lookup_client_fd.  env tells whether chatd is     *)
(* online, whom the client asks for ("peer": the one of the session), and  *)
(* whether the message slot is taken.                                      *)
Drop(answer) == [answer |-> <<answer>>, keep |-> FALSE]
Keep(answers) == [answer |-> answers, keep |-> TRUE]

Environments ==
    [online : BOOLEAN, name : {"invalid", "self", "peer", "other"},
     slot_taken : BOOLEAN]

Joins(env) == secure /\ env.name = "peer" /\ lookup = None
Busy_SlotOnly(env) == env.slot_taken
Busy(env) == lookup # None \/ env.slot_taken

HandleOpenChat(env) ==
    CASE env.name = "invalid" -> Drop("invalid_username")
      [] env.name # "invalid" /\ ~env.online -> Drop("daemon_not_online")
      [] env.name = "self" /\ env.online -> Drop("USER_ONLINE")
      [] env.name \in {"peer", "other"} /\ env.online ->
            IF Joins(env) THEN Keep(<<"ENCRYPTED_SESSION">>)
            ELSE IF Busy(env) THEN Drop("busy")
            ELSE Keep(<<>>)

HandleIpcClient(c, env) ==
    CASE Command[c] = "STATUS" -> Drop("status")
      [] Command[c] = "OPEN_CHAT" -> HandleOpenChat(env)
      [] Command[c] = "OTHER" -> Drop("unknown_command")

(* The client service_ipc looks at: the pending one, or the next. *)
Candidate ==
    IF pending # None THEN pending ELSE IF backlog # <<>> THEN Head(backlog) ELSE None
AcceptIfNone == backlog' = IF pending # None THEN backlog ELSE Tail(backlog)

(* A client that hung up, or whose time has passed, is closed, also when   *)
(* its command has arrived.                                                *)
GivesUp_Never(c, expired) == cli[c] = "done"
GivesUp(c, expired) == cli[c] = "done" \/ expired

ServiceIpc(expired) ==
    LET c == Candidate IN
    /\ c # None
    /\ expired => pending # None
    /\ AcceptIfNone
    /\ \/ /\ GivesUp(c, expired)
          /\ fds' = fds \ {c} /\ pending' = None
          /\ command' = command \ {c}
          /\ UNCHANGED <<reply, lookup>>
       \/ /\ ~GivesUp(c, expired) /\ c \notin command
          /\ fds' = fds \cup {c} /\ pending' = c
          /\ UNCHANGED <<command, reply, lookup>>
       \/ /\ ~GivesUp(c, expired) /\ c \in command
          /\ pending' = None
          /\ command' = command \ {c}
          /\ \E env \in Environments : LET do == HandleIpcClient(c, env) IN
                /\ fds' = IF do.keep THEN fds \cup {c} ELSE fds \ {c}
                /\ lookup' = IF do.keep THEN c ELSE lookup
                /\ reply' = [reply EXCEPT ![c] = @ \o do.answer]
    /\ UNCHANGED <<cli, secure>>

-----------------------------------------------------------------------------
(* The rest of chatd.                                                      *)

(* close_lookup_client *)
CloseLookupClient ==
    /\ lookup' = None
    /\ fds' = fds \ {lookup}

(* A line for lookup_client_fd; nobody reads one to a CLI that has left. *)
Answer(line) ==
    reply' = [c \in Clients |->
        IF c = lookup /\ cli[c] # "done" THEN Append(reply[c], line) ELSE reply[c]]

SessionReady ==
    /\ ~secure /\ secure' = TRUE
    /\ Answer("ENCRYPTED_SESSION")
    /\ UNCHANGED <<clients, backlog, fds, pending, lookup>>

(* write_lookup_response, fail_chat_session, CLOSE: the CLI, if any, is    *)
(* told and dropped.                                                       *)
ChatEnds ==
    /\ secure \/ lookup # None
    /\ secure' = FALSE
    /\ Answer("over")
    /\ CloseLookupClient
    /\ UNCHANGED <<clients, backlog, pending>>

(* service_active_chat_client reads the end of file of a CLI that left.    *)
ChatClientGone ==
    /\ secure /\ lookup # None /\ cli[lookup] = "done"
    /\ secure' = FALSE
    /\ CloseLookupClient
    /\ UNCHANGED <<clients, reply, backlog, pending>>

(* The end of main, or a crash, and the next start: start_ipc_server. *)
Restarts ==
    /\ backlog' = <<>> /\ fds' = {} /\ command' = {}
    /\ pending' = None /\ lookup' = None /\ secure' = FALSE
    /\ UNCHANGED <<cli, reply>>

-----------------------------------------------------------------------------
Init ==
    /\ cli = [c \in Clients |-> "idle"]
    /\ command = {} /\ reply = [c \in Clients |-> <<>>]
    /\ backlog = <<>> /\ fds = {}
    /\ pending = None /\ lookup = None /\ secure = FALSE

Next ==
    \/ \E c \in Clients :
          \/ Connects(c) \/ Asks(c) \/ ReadsReply(c) \/ ReadsEndOfFile(c)
          \/ Leaves(c)
    \/ \E expired \in BOOLEAN : ServiceIpc(expired)
    \/ SessionReady \/ ChatEnds \/ ChatClientGone \/ Restarts

Spec == Init /\ [][Next]_vars

(* The main loop runs and five seconds pass; clients read what is there.   *)
(* A client need not send a command, give up or leave.                     *)
Fairness ==
    /\ WF_vars(ServiceIpc(FALSE)) /\ WF_vars(ServiceIpc(TRUE))
    /\ WF_vars(ChatClientGone)
    /\ \A c \in Clients : WF_vars(ReadsReply(c)) /\ WF_vars(ReadsEndOfFile(c))

FairSpec == Spec /\ Fairness

-----------------------------------------------------------------------------
(* Type correctness.                                                       *)
TypeOK ==
    /\ cli \in [Clients -> {"idle", "connected", "asked", "chatting", "done"}]
    /\ command \subseteq Clients /\ fds \subseteq Clients
    /\ reply \in [Clients -> Seq({"status", "unknown_command", "invalid_username",
                                 "daemon_not_online", "USER_ONLINE", "busy",
                                 "ENCRYPTED_SESSION", "over"})]
    /\ backlog \in Seq(Clients) /\ Len(backlog) <= Backlog
    /\ pending \in Clients \cup {None} /\ lookup \in Clients \cup {None}
    /\ secure \in BOOLEAN

(* service_ipc, handle_ipc_client and close_lookup_client: whatever comes  *)
(* of a client, its connection is closed, or is the pending one, or is     *)
(* lookup_client_fd, and only one of them: chatd loses no descriptor, and  *)
(* a CLI that waits or chats is not displaced by another one that asks.    *)
NoLeak ==
    /\ fds = {pending, lookup} \ {None}
    /\ pending # None => pending # lookup

(* service_ipc: a client that asked is answered, or its connection is      *)
(* closed, or chatd keeps it for its chat, however many clients connect    *)
(* before it and say nothing, and although they may wait for ever.         *)
Served ==
    \A c \in Clients : cli[c] = "asked" ~> cli[c] # "asked" \/ lookup = c
================================================================================
