------------------------------- MODULE ChatLoop -------------------------------
(***************************************************************************)
(* The two ends of the IPC socket during a chat: run_chat_loop in the CLI  *)
(* (client/main.c) and service_active_chat_client with write_ipc_line in   *)
(* chatd (daemon/main.c).  Each end is one thread that reads and writes.   *)
(*                                                                         *)
(* The socket is a stream: a write puts a line into it as a whole, or      *)
(* waits until there is room; a read takes what is there, at most a        *)
(* buffer.  A line is two units, its beginning and the rest with the       *)
(* newline, so a buffer of an odd number of units may cut a line and one   *)
(* of an even number does not.  Lines of the user, and messages of the     *)
(* peer, are known by their number.                                        *)
(* A cut just before the newline, which loses nothing, is left out, and so *)
(* are texts whose rest would itself read as a command.                    *)
(***************************************************************************)
EXTENDS Naturals, SequencesExt

CONSTANTS
    SocketSize,   \* units the socket holds in one direction
    BufferSize,   \* units a read takes (CHAT_IPC_MAX_COMMAND, _RESPONSE)
    Piped,        \* stdin is a pipe, which is read in blocks; else a terminal
    MaxTyped,     \* bound: lines the user types
    MaxPeer,      \* bound: messages the peer sends
    Empty

ASSUME ChatLoopAssumption ==
    /\ SocketSize \in Nat /\ SocketSize >= 2
    /\ BufferSize \in Nat \ {0}
    /\ Piped \in BOOLEAN
    /\ MaxTyped \in Nat /\ MaxPeer \in Nat

VARIABLES
    typed,     \* what kind of line the user has typed, in order
    stdin,     \* numbers of the lines in the terminal or pipe
    stdio,     \* numbers of the lines in the buffer of the FILE stdin
    eof,       \* the other end of stdin is closed
    cli,       \* where run_chat_loop is
    line,      \* what the CLI is writing
    to_chatd, to_cli,   \* units in the socket
    commands,  \* what is left of the buffer chatd has read
    answer,    \* what chatd is writing
    session,   \* open, or what ended it: CLOSE_CHAT, a CLI that left, chatd
    sent,      \* what chatd made of each SEND_MESSAGE: sent it "whole", sent
               \* what it had of it ("cut"), or "refused" it
    peer_sent, \* how many messages the peer has sent
    shown      \* messages the CLI has printed

input == <<typed, stdin, stdio, eof>>
socket == <<to_chatd, to_cli>>
daemon == <<commands, answer, session, sent, peer_sent>>
vars == <<input, cli, line, socket, daemon, shown>>

-----------------------------------------------------------------------------
Line(kind, n) == [kind |-> kind, n |-> n]
Units(l) == <<[of |-> l, part |-> 1], [of |-> l, part |-> 2]>>

HasRoom(s) == Len(s) + 2 <= SocketSize

UpTo(s, k) == SubSeq(s, 1, Min({k, Len(s)}))
Taken(s) == UpTo(s, BufferSize)
Left(s) == SubSeq(s, BufferSize + 1, Len(s))

(* The lines of a buffer, as strpbrk finds them: the first may be the rest *)
(* of a line that was cut, the last may be cut.                            *)
Pieces(buffer) ==
    LET starts == {i \in 1 .. Len(buffer) : i = 1 \/ buffer[i].part = 1}
        Form(i) == CASE buffer[i].part = 2 -> "rest"
                     [] buffer[i].part = 1 /\ i = Len(buffer) -> "cut"
                     [] OTHER -> "whole"
        At(i) == [of |-> buffer[i].of, form |-> Form(i)]
        order == SetToSortSeq(starts, <)
    IN  [k \in 1 .. Len(order) |-> At(order[k])]

-----------------------------------------------------------------------------
(* The user.                                                               *)

Types(kind) ==
    /\ Len(typed) < MaxTyped /\ ~eof
    /\ typed' = Append(typed, kind)
    /\ stdin' = Append(stdin, Len(typed) + 1)
    /\ UNCHANGED <<stdio, eof, cli, line, socket, daemon, shown>>

EndsInput ==
    /\ ~eof /\ eof' = TRUE
    /\ UNCHANGED <<typed, stdin, stdio, cli, line, socket, daemon, shown>>

-----------------------------------------------------------------------------
(* The CLI: one turn of run_chat_loop, up to the write it may end with.    *)

(* Only the first line of what was read is looked at. *)
ReadsAnswer ==
    /\ cli = "loop" /\ to_cli # <<>>
    /\ LET first == Head(Pieces(Taken(to_cli))) IN
          /\ shown' = IF first.of.kind = "MESSAGE" /\ first.form # "rest"
                      THEN Append(shown, first.of.n) ELSE shown
          /\ cli' = IF first.of.kind # "MESSAGE" /\ first.form # "rest"
                    THEN "done" ELSE "loop"
    /\ to_cli' = Left(to_cli)
    /\ UNCHANGED <<input, line, to_chatd, daemon>>

ReadsEndOfFile ==
    /\ cli = "loop" /\ to_cli = <<>> /\ session # "open"
    /\ cli' = "done"
    /\ UNCHANGED <<input, line, socket, daemon, shown>>

(* poll looks at the descriptor, not at the buffer of the FILE. *)
StdinReady == stdin # <<>> \/ eof

(* What fgets finds: a terminal gives a line a read, a pipe a block. *)
Fgets_Block == IF stdio # <<>> THEN stdio ELSE stdin
Fgets ==
    IF stdio # <<>> THEN stdio
    ELSE IF Piped THEN stdin ELSE UpTo(stdin, 1)

(* A line that does not fit the command ends the CLI, an empty one is      *)
(* skipped, the end of the file becomes CLOSE_CHAT.                        *)
ReadsLine ==
    /\ cli = "loop" /\ StdinReady
    /\ LET found == Fgets IN
       IF found = <<>>
       THEN /\ cli' = "closing" /\ line' = Line("CLOSE_CHAT", 0)
            /\ UNCHANGED <<stdin, stdio>>
       ELSE /\ stdio' = Tail(found)
            /\ stdin' = IF stdio # <<>> THEN stdin
                        ELSE SubSeq(stdin, Len(found) + 1, Len(stdin))
            /\ \/ /\ typed[Head(found)] = "text"
                  /\ cli' = "sending"
                  /\ line' = Line("SEND_MESSAGE", Head(found))
               \/ typed[Head(found)] = "blank" /\ UNCHANGED <<cli, line>>
               \/ typed[Head(found)] = "long" /\ cli' = "done" /\ UNCHANGED line
    /\ UNCHANGED <<typed, eof, socket, daemon, shown>>

(* SIGINT; a write that waits is restarted, so it counts only here. *)
Interrupted ==
    /\ cli = "loop"
    /\ cli' = "closing" /\ line' = Line("CLOSE_CHAT", 0)
    /\ UNCHANGED <<input, socket, daemon, shown>>

(* write_all; it fails when chatd has closed its end. *)
WritesLine ==
    /\ cli \in {"sending", "closing"}
    /\ line' = Empty
    /\ \/ /\ session = "open" /\ HasRoom(to_chatd)
          /\ to_chatd' = to_chatd \o Units(line)
          /\ cli' = IF cli = "sending" THEN "loop" ELSE "done"
       \/ /\ session # "open"
          /\ cli' = "done" /\ UNCHANGED to_chatd
    /\ UNCHANGED <<input, to_cli, daemon, shown>>

-----------------------------------------------------------------------------
(* chatd.  It does nothing else while it writes an answer or has commands  *)
(* left in its buffer.                                                     *)

Free == session = "open" /\ commands = <<>> /\ answer = Empty

CommandLines_Twice(buffer) == Pieces(buffer) \o Pieces(buffer)
CommandLines_CloseFirst(buffer) ==
    LET close == SelectSeq(Pieces(buffer), LAMBDA c : c.of.kind = "CLOSE_CHAT")
    IN  IF close # <<>> THEN close ELSE Pieces(buffer)
CommandLines(buffer) == Pieces(buffer)

ReadsCommands ==
    /\ Free /\ to_chatd # <<>>
    /\ commands' = CommandLines(Taken(to_chatd))
    /\ to_chatd' = Left(to_chatd)
    /\ UNCHANGED <<input, cli, line, to_cli, answer, session, sent, peer_sent, shown>>

Refused(c) ==
    IF c.of.kind = "SEND_MESSAGE" /\ c.form # "rest"
    THEN Append(sent, [n |-> c.of.n, form |-> "refused"]) ELSE sent

Obeys_Silent(c) ==
    \/ /\ c.of.kind = "SEND_MESSAGE" /\ c.form \in {"whole", "cut"}
       /\ sent' = Append(sent, [n |-> c.of.n, form |-> c.form])
       /\ UNCHANGED <<answer, session>>
    \/ /\ c.of.kind = "CLOSE_CHAT" /\ c.form = "whole"
       /\ session' = "closed" /\ UNCHANGED <<answer, sent>>
    \/ c.form # "whole" /\ sent' = Refused(c) /\ UNCHANGED <<answer, session>>

(* A SEND_MESSAGE that was cut in its text is sent as it is; one cut       *)
(* before that, and the rest of any line, is an unknown command.  Sending  *)
(* may fail.                                                               *)
Obeys(c) ==
    \/ /\ c.of.kind = "SEND_MESSAGE" /\ c.form \in {"whole", "cut"}
       /\ sent' = Append(sent, [n |-> c.of.n, form |-> c.form])
       /\ UNCHANGED <<answer, session>>
    \/ /\ c.of.kind = "CLOSE_CHAT" /\ c.form = "whole"
       /\ session' = "closed" /\ UNCHANGED <<answer, sent>>
    \/ /\ c.form # "whole" \/ c.of.kind = "SEND_MESSAGE"
       /\ answer' = Line("ERROR", 0) /\ sent' = Refused(c)
       /\ UNCHANGED session

ObeysCommand ==
    /\ session = "open" /\ commands # <<>> /\ answer = Empty
    /\ Obeys(Head(commands))
    /\ commands' = Tail(commands)
    /\ UNCHANGED <<input, cli, line, socket, peer_sent, shown>>

SeesCliGone_OnlyIdle ==
    /\ Free /\ to_chatd = <<>> /\ cli = "done" /\ to_cli = <<>>
    /\ session' = "left"
    /\ UNCHANGED <<input, cli, line, socket, commands, answer, sent, peer_sent, shown>>
SeesCliGone ==
    /\ Free /\ to_chatd = <<>> /\ cli = "done"
    /\ session' = "left"
    /\ UNCHANGED <<input, cli, line, socket, commands, answer, sent, peer_sent, shown>>

(* decrypt_chat_payload: a message. *)
PeerSpeaks ==
    /\ Free /\ peer_sent < MaxPeer
    /\ peer_sent' = peer_sent + 1
    /\ answer' = Line("MESSAGE", peer_sent + 1)
    /\ UNCHANGED <<input, cli, line, socket, commands, session, sent, shown>>

(* The peer's close, or fail_chat_session ("ERROR session_failed"). *)
LastLines == {"CHAT_CLOSED", "SESSION_FAILED"}
SessionEnds(kind) ==
    /\ Free
    /\ answer' = Line(kind, 0)
    /\ UNCHANGED <<input, cli, line, socket, commands, session, sent, peer_sent, shown>>

(* write_ipc_line.  EPIPE ends the session if a message was to be written. *)
WritesAnswer ==
    /\ answer # Empty
    /\ \/ /\ cli # "done" /\ HasRoom(to_cli)
          /\ to_cli' = to_cli \o Units(answer)
          /\ session' = IF answer.kind \in LastLines THEN "ended" ELSE session
       \/ /\ cli = "done"
          /\ session' = IF answer.kind = "ERROR" THEN session ELSE "ended"
          /\ UNCHANGED to_cli
    /\ answer' = Empty
    /\ UNCHANGED <<input, cli, line, to_chatd, commands, sent, peer_sent, shown>>

-----------------------------------------------------------------------------
Init ==
    /\ typed = <<>> /\ stdin = <<>> /\ stdio = <<>> /\ eof = FALSE
    /\ cli = "loop" /\ line = Empty
    /\ to_chatd = <<>> /\ to_cli = <<>>
    /\ commands = <<>> /\ answer = Empty /\ session = "open"
    /\ sent = <<>> /\ peer_sent = 0 /\ shown = <<>>

Next ==
    \/ \E kind \in {"text", "blank", "long"} : Types(kind)
    \/ EndsInput
    \/ ReadsAnswer \/ ReadsEndOfFile \/ ReadsLine \/ Interrupted \/ WritesLine
    \/ ReadsCommands \/ ObeysCommand \/ SeesCliGone
    \/ PeerSpeaks \/ (\E kind \in LastLines : SessionEnds(kind)) \/ WritesAnswer

Spec == Init /\ [][Next]_vars

(* Both loops run.  poll serves stdin again and again although messages    *)
(* keep coming, because the socket is found empty in between.              *)
Fairness ==
    /\ WF_vars(ReadsAnswer) /\ WF_vars(ReadsEndOfFile)
    /\ WF_vars(ReadsLine) /\ WF_vars(WritesLine)
    /\ WF_vars(ReadsCommands) /\ WF_vars(ObeysCommand)
    /\ WF_vars(SeesCliGone) /\ WF_vars(WritesAnswer)

FairSpec == Spec /\ Fairness

-----------------------------------------------------------------------------
(* Type correctness, and no direction holds more than the socket takes.    *)
TypeOK ==
    /\ typed \in Seq({"text", "blank", "long"}) /\ Len(typed) <= MaxTyped
    /\ ToSet(stdin) \cup ToSet(stdio) \subseteq 1 .. Len(typed)
    /\ eof \in BOOLEAN
    /\ cli \in {"loop", "sending", "closing", "done"}
    /\ session \in {"open", "closed", "left", "ended"}
    /\ Len(to_chatd) <= SocketSize /\ Len(to_cli) <= SocketSize
    /\ peer_sent \in 0 .. MaxPeer

Texts == SelectSeq([i \in 1 .. Len(typed) |-> i], LAMBDA i : typed[i] = "text")
Obeyed == [k \in 1 .. Len(sent) |-> sent[k].n]

(* service_active_chat_client: what goes to the peer is the line that the  *)
(* user typed and not a piece of it, however many commands a read returns: *)
(* "Ne jamais supposer qu'un appel reseau correspond exactement a un       *)
(* message." (spec.md)                                                     *)
SentIsTyped == \A c \in ToSet(sent) : c.form # "cut"

(* service_active_chat_client: however the commands are joined and cut by  *)
(* the reads, chatd obeys or refuses every line that was typed once, in    *)
(* the order of typing, and leaves none out.                               *)
ObeyedInOrder == IsPrefix(Obeyed, Texts)

(* service_active_chat_client: a CLOSE_CHAT is obeyed after all that the   *)
(* CLI wrote before it, also when one read returns it with the messages.   *)
ClosedAfterAll ==
    session = "closed" /\ stdin = <<>> /\ stdio = <<>> => Obeyed = Texts

(* service_active_chat_client: a CLI that has ended, at whatever point,    *)
(* also while chatd waits to write to it, ends the session.                *)
LeavingEnds == cli = "done" ~> session # "open"

(* run_chat_loop: a line that was typed gets to chatd, unless the chat     *)
(* ends: "Le CLI doit surveiller simultanement : - stdin ; - socket IPC    *)
(* vers `chatd`." (spec.md)                                                *)
TypedIsSent ==
    \A n \in 1 .. MaxTyped :
        n \in ToSet(Texts)
            ~> n \in ToSet(Obeyed) \/ cli = "done" \/ session # "open"

(* service_active_chat_client: when a read ended inside a line, the rest   *)
(* of it is answered with ERROR unknown_command, which reaches the socket  *)
(* of the CLI unless the chat ends first.                                  *)
CutIsTold ==
    to_chatd # <<>> /\ Head(to_chatd).part = 2
        ~> \/ \E u \in ToSet(to_cli) : u.of.kind = "ERROR"
           \/ cli = "done" \/ session # "open"

(* run_chat_loop: a CLI that has read all that chatd wrote has shown all   *)
(* the messages, however they were read: "Ne jamais supposer qu'un appel   *)
(* reseau correspond exactement a un message." (spec.md)                   *)
AllShown ==
    cli = "loop" /\ to_cli = <<>> /\ answer = Empty => Len(shown) = peer_sent

(* write_all and write_ipc_line: the two programs do not wait for each     *)
(* other's reads for ever: "Ne jamais attendre indefiniment." (spec.md)    *)
NoMutualWait ==
    ~ (/\ cli \in {"sending", "closing"} /\ ~HasRoom(to_chatd)
       /\ session = "open" /\ answer # Empty /\ ~HasRoom(to_cli))
===============================================================================
