----------------------------- MODULE IdentityStore -----------------------------
(***************************************************************************)
(* The files of the account identity (common/identity.c): identity.key,    *)
(* identity.pub and config.toml, written by runs of "chat init" and        *)
(* "chat config server" that may overlap, fail or be killed.               *)
(*                                                                         *)
(* An element of Inits is one run of chat init and stands for the user     *)
(* name it was given and the key pair it draws; an element of Setters is   *)
(* one run of chat config server and stands for its URL.  A step is one    *)
(* access to the files.  Each file is opened once and read whole, and the  *)
(* files only ever appear in the order key, pub, config, so the three      *)
(* tests of access() are one step and so is a load.                        *)
(***************************************************************************)

CONSTANTS Inits, Setters, Absent, Partial, NoName, NoUrl, DefaultUrl

ASSUME StoreAssumption ==
    /\ Absent \notin Inits /\ Partial \notin Inits /\ Absent # Partial
    /\ NoName \notin Inits /\ Inits \cap Setters = {}
    /\ NoUrl \notin Setters /\ DefaultUrl \notin Setters

VARIABLES
    key, pub,   \* the run whose key the file holds, Partial, or Absent
    config,     \* Absent, or what its text yields and the run that made the file
    pc,         \* where each chat init stands
    setter,     \* where each chat config server stands
    copy        \* the text each chat config server has read

files == <<key, pub, config>>
vars == <<key, pub, config, pc, setter, copy>>

(* The user name in a config.toml that was cut short: its first letters,   *)
(* which sscanf takes for a name, or no name.                              *)
Cut(i) == [cut |-> i]
NamesOf(i) == {i, Cut(i)}
Names == Inits \cup {Cut(i) : i \in Inits} \cup {NoName}
Urls == Setters \cup {DefaultUrl, NoUrl}

Config(user, url, by) == [user |-> user, url |-> url, by |-> by]
Configs == [user : Names, url : Urls, by : Inits \cup Setters]
NoConfig == Config(NoName, NoUrl, NoName)

(* A name that was cut short is told from a whole one, a text from no file. *)
ASSUME TextAssumption ==
    (\A i \in Inits : Cut(i) \notin Inits) /\ Absent \notin Configs

(* chat_write_config_file: the whole text, or a beginning of it. *)
WholeConfig(i) == Config(i, DefaultUrl, i)
CutConfigs(i) == {Config(user, NoUrl, i) : user \in NamesOf(i) \cup {NoName}}

-----------------------------------------------------------------------------
(* chat_identity_create *)
Goto(i, place) == pc' = [pc EXCEPT ![i] = place]

(* access() finds none of the three files. *)
CheckAbsent(i) ==
    /\ pc[i] = "access"
    /\ Goto(i, IF {key, pub, config} = {Absent} THEN "key" ELSE "exists")
    /\ UNCHANGED <<files, setter, copy>>

(* chat_write_new_file: open with O_EXCL, which may also fail ... *)
MayCreate_Truncates(current) == TRUE
MayCreate(current) == current = Absent

Opened_Resumes(i, place, current) ==
    Goto(i, CASE MayCreate(current) -> place
              [] ~MayCreate(current) /\ place = "key_write" -> "pub"
              [] OTHER -> "exists")
Opened(i, place, current) ==
    \/ /\ MayCreate(current)
       /\ Goto(i, place)
    \/ /\ ~MayCreate(current)
       /\ Goto(i, "exists")

OpenKey(i) ==
    /\ pc[i] = "key"
    /\ Opened(i, "key_write", key)
    /\ key' = IF MayCreate(key) THEN Partial ELSE key
    /\ UNCHANGED <<pub, config, setter, copy>>

OpenPub(i) ==
    /\ pc[i] = "pub"
    /\ Opened(i, "pub_write", pub)
    /\ pub' = IF MayCreate(pub) THEN Partial ELSE pub
    /\ UNCHANGED <<key, config, setter, copy>>

OpenConfig(i) ==
    /\ pc[i] = "config"
    /\ Opened(i, "config_write", config)
    /\ config' = IF MayCreate(config) THEN Config(NoName, NoUrl, i) ELSE config
    /\ UNCHANGED <<key, pub, setter, copy>>

(* ... then chat_write_all, fsync and close: all of it is written and all  *)
(* succeed, all of it is written and one of them fails, or the text is cut *)
(* short.                                                                  *)
Continues_Ignored(whole, ok) == TRUE
Continues(whole, ok) == whole /\ ok

WriteKey(i) ==
    /\ pc[i] = "key_write"
    /\ \E whole, ok \in BOOLEAN :
        /\ key' = IF whole THEN i ELSE Partial
        /\ Goto(i, IF Continues(whole, ok) THEN "pub" ELSE "failed")
    /\ UNCHANGED <<pub, config, setter, copy>>

WritePub(i) ==
    /\ pc[i] = "pub_write"
    /\ \E whole, ok \in BOOLEAN :
        /\ pub' = IF whole THEN i ELSE Partial
        /\ Goto(i, IF Continues(whole, ok) THEN "config" ELSE "failed")
    /\ UNCHANGED <<key, config, setter, copy>>

(* The text goes to the file that was opened, which a rename may have put  *)
(* out of sight.                                                           *)
WriteConfig(i) ==
    /\ pc[i] = "config_write"
    /\ \E whole, ok \in BOOLEAN :
        /\ config' \in IF config.by # i THEN {config}
                       ELSE IF whole THEN {WholeConfig(i)} ELSE CutConfigs(i)
        /\ Goto(i, IF Continues(whole, ok) THEN "done" ELSE "failed")
    /\ UNCHANGED <<key, pub, setter, copy>>

Running == {"access", "key", "key_write", "pub", "pub_write", "config", "config_write"}

(* chat init is killed, or an open fails for want of space or rights. *)
Stops(i) ==
    /\ pc[i] \in Running
    /\ Goto(i, "failed")
    /\ UNCHANGED <<files, setter, copy>>

-----------------------------------------------------------------------------
(* chat_identity_set_server_url: the lines are copied to a temporary file, *)
(* with the server_url line replaced or added, ...                         *)
ReadConfig_Unchecked(s) ==
    /\ setter[s] = "start"
    /\ setter' = [setter EXCEPT ![s] = "rename"]
    /\ copy' = [copy EXCEPT ![s] = config]
    /\ UNCHANGED <<files, pc>>
ReadConfig(s) ==
    /\ setter[s] = "start"
    /\ \/ /\ config = Absent
          /\ setter' = [setter EXCEPT ![s] = "not_found"]
          /\ UNCHANGED copy
       \/ /\ config # Absent
          /\ setter' = [setter EXCEPT ![s] = "rename"]
          /\ copy' = [copy EXCEPT ![s] = config]
    /\ UNCHANGED <<files, pc>>

(* ... which then takes the place of config.toml. *)
Replacement_InPlace(s) == Config(copy[s].user, s, config.by)
Replacement(s) == Config(copy[s].user, s, s)

RenameConfig(s) ==
    /\ setter[s] = "rename"
    /\ config' = Replacement(s)
    /\ setter' = [setter EXCEPT ![s] = "done"]
    /\ UNCHANGED <<key, pub, pc, copy>>

(* An error, after which the temporary file is removed, or a kill. *)
SetterStops(s) ==
    /\ setter[s] \in {"start", "rename"}
    /\ setter' = [setter EXCEPT ![s] = "failed"]
    /\ UNCHANGED <<files, pc, copy>>

-----------------------------------------------------------------------------
(* chat_identity_load and chat_load_username *)
LoadOk == /\ config # Absent
          /\ config.user # NoName
          /\ key \in Inits /\ pub \in Inits

Init ==
    /\ key = Absent /\ pub = Absent /\ config = Absent
    /\ pc = [i \in Inits |-> "access"]
    /\ setter = [s \in Setters |-> "start"]
    /\ copy = [s \in Setters |-> NoConfig]

InitStep(i) ==
    \/ CheckAbsent(i)
    \/ OpenKey(i) \/ WriteKey(i)
    \/ OpenPub(i) \/ WritePub(i)
    \/ OpenConfig(i) \/ WriteConfig(i)
    \/ Stops(i)

SetterStep(s) == ReadConfig(s) \/ RenameConfig(s) \/ SetterStops(s)

Next == (\E i \in Inits : InitStep(i)) \/ (\E s \in Setters : SetterStep(s))

Spec == Init /\ [][Next]_vars

-----------------------------------------------------------------------------
(* Types of the files and of the runs of the two commands. *)
TypeOK ==
    /\ key \in Inits \cup {Absent, Partial}
    /\ pub \in Inits \cup {Absent, Partial}
    /\ config \in Configs \cup {Absent}
    /\ pc \in [Inits -> Running \cup {"done", "exists", "failed"}]
    /\ setter \in [Setters -> {"start", "not_found", "rename", "done", "failed"}]
    /\ copy \in [Setters -> Configs \cup {NoConfig}]

(* chat_identity_load: an identity that loads comes from one chat init:    *)
(* its secret key, its public key and its name, at worst cut short.        *)
LoadConsistent == LoadOk => key = pub /\ config.user \in NamesOf(key)

(* chat_write_new_file: a key that was written is never lost to a later or *)
(* an overlapping chat init.                                               *)
KeyNeverOverwritten ==
    [][/\ key \in Inits => key' = key
       /\ pub \in Inits => pub' = pub]_vars

(* chat_identity_set_server_url: a URL that the user has set is only ever  *)
(* replaced by another one that the user has set, never by the default of  *)
(* a chat init that is still writing.                                      *)
ServerUrlKept ==
    [][config # Absent /\ config.url \in Setters => config'.url \in Setters]_vars

(* chat_identity_create: an identity it reports as created loads, with the *)
(* name and the keys it was created with (tests/test_identity.c).          *)
CreatedIdentityLoads ==
    \A i \in Inits : pc[i] = "done" => LoadOk /\ key = i /\ config.user = i

(* chat_identity_create and chat_identity_set_server_url: it also loads    *)
(* after chat config server, if that read the name in full.                *)
CreatedLoads ==
    (\A s \in Setters : setter[s] = "done" => copy[s].user \in Inits)
        => CreatedIdentityLoads

(* command_config_server: where chat config server would say that the      *)
(* identity is not initialized and that chat init is to be run, chat init  *)
(* does not answer that the identity exists.                               *)
NotInitializedMeansInit ==
    (\A i \in Inits : pc[i] \in {"access", "done", "exists", "failed"})
        => (config = Absent => {key, pub} = {Absent})
===============================================================================
