------------------------------- MODULE Contacts -------------------------------
(***************************************************************************)
(* The pinned contacts of chatd (common/contacts.c): contacts.db, a text   *)
(* file of lines "username hex_key" that only grows.                       *)
(*                                                                         *)
(* chatd is the only writer and a call of chat_contacts_verify_or_pin is   *)
(* one step.  The write of a line may stop short (disk full, chatd killed) *)
(* and leave a line without its end; the next line then continues it.      *)
(* fgets and sscanf make of such a line: a contact, when only the newline  *)
(* is missing; otherwise, and whenever more text follows the 64 digits, a  *)
(* line that parse_contact_line refuses.                                   *)
(***************************************************************************)
EXTENDS Naturals, Sequences

CONSTANTS Users, Keys, NoUser, NoKey

ASSUME ContactsAssumption == NoUser \notin Users /\ NoKey \notin Keys

VARIABLES
    file,        \* the lines of contacts.db
    terminated,  \* the last line ends with a newline
    accepted     \* history: the pairs verify_or_pin has answered OK for

contacts == <<file, terminated, accepted>>

Contact(u, k) == [user |-> u, key |-> k]
Bad == Contact(NoUser, NoKey)
Lines == [user : Users, key : Keys] \cup {Bad}

(* find_contact reads up to the first line of that user, and gives up at a *)
(* line it cannot parse.                                                   *)
Reaches(u, i) == \A j \in 1 .. i - 1 : file[j] # Bad /\ file[j].user # u

Pinned(u, k) == \E i \in 1 .. Len(file) : file[i] = Contact(u, k) /\ Reaches(u, i)
BadFile(u) == \E i \in 1 .. Len(file) : file[i] = Bad /\ Reaches(u, i)
NotFound(u) == Reaches(u, Len(file) + 1)

(* append_contact, with what write_all leaves behind: the whole line, the  *)
(* line without its newline, a part of it, or nothing.                     *)
Written == {"line", "unterminated", "part", "nothing"}

AppendLine_Truncates(u, k, written) == file' = <<Contact(u, k)>>
AppendLine(u, k, written) ==
    file' = IF terminated
            THEN Append(file, IF written = "part" THEN Bad ELSE Contact(u, k))
            ELSE [file EXCEPT ![Len(file)] = Bad]

AppendContact(u, k, written) ==
    \/ /\ written = "nothing"
       /\ UNCHANGED contacts
    \/ /\ written # "nothing"
       /\ AppendLine(u, k, written)
       /\ terminated' = (written = "line")
       /\ \/ written = "line" /\ accepted' = accepted \cup {<<u, k>>}
          \/ accepted' = accepted            \* write or close has failed

(* chat_contacts_verify_or_pin *)
MayPin_Unreadable(u) == NotFound(u) \/ BadFile(u)
MayPin_Again(u) == ~BadFile(u)
MayPin(u) == NotFound(u)

VerifyOrPin(u, k) ==
    \/ /\ Pinned(u, k)                       \* CHAT_CONTACTS_OK
       /\ accepted' = accepted \cup {<<u, k>>}
       /\ UNCHANGED <<file, terminated>>
    \/ /\ MayPin(u)
       /\ \E written \in Written : AppendContact(u, k, written)
    \/ /\ ~Pinned(u, k) /\ ~MayPin(u)        \* ERR_MISMATCH, ERR_BAD_FILE
       /\ UNCHANGED contacts

ContactsInit ==
    /\ file = <<>>
    /\ terminated = TRUE
    /\ accepted = {}

ContactsNext == \E u \in Users, k \in Keys : VerifyOrPin(u, k)

ContactsSpec == ContactsInit /\ [][ContactsNext]_contacts

-----------------------------------------------------------------------------
(* Types of the file; only a file with a line can lack its last newline.   *)
ContactsTypeOK ==
    /\ file \in Seq(Lines)
    /\ terminated \in BOOLEAN
    /\ file = <<>> => terminated
    /\ accepted \subseteq Users \X Keys

(* chat_contacts_verify_or_pin: in the life of a contacts.db no two keys   *)
(* are accepted for one user, also after writes that stopped short.        *)
OneKeyPerContact ==
    \A u \in Users, k1, k2 \in Keys :
        <<u, k1>> \in accepted /\ <<u, k2>> \in accepted => k1 = k2

(* A key that was accepted is the one on file, or the file cannot be read  *)
(* as far as that user: what makes OneKeyPerContact inductive.             *)
AcceptedIsPinned ==
    \A u \in Users, k \in Keys :
        <<u, k>> \in accepted => Pinned(u, k) \/ BadFile(u)

(* append_contact: a pin is never replaced by another one (protocol.md);   *)
(* at worst it can no longer be read.                                      *)
PinNeverReplaced ==
    [][\A u \in Users, k \in Keys : Pinned(u, k) => Pinned(u, k)' \/ BadFile(u)']_contacts
===============================================================================
