----------------------------- MODULE StoresProofs -----------------------------
(***************************************************************************)
(* The theorems about the files in a user's directory: the identity that   *)
(* chat init creates and its settings (IdentityStore), for any number of   *)
(* runs of chat init and chat config server, and contacts.db (Contacts),   *)
(* for any users and keys.                                                 *)
(***************************************************************************)
EXTENDS Contacts, IdentityStore, TLAPS

(* The leaves are for SMT, unless they name another prover. *)
USE SMTT(30), ZenonT(20), Z3T(30)

-----------------------------------------------------------------------------
(* The identity.                                                           *)

(* The records that chat init and chat config server write. *)
LEMMA ConfigTypes ==
    ASSUME NEW user \in Names, NEW url \in Urls, NEW by \in Inits \cup Setters
    PROVE  Config(user, url, by) \in Configs
BY DEF Config, Configs

LEMMA TypeStep == TypeOK /\ [Next]_vars => TypeOK'
<1> SUFFICES ASSUME TypeOK, [Next]_vars PROVE TypeOK'
  OBVIOUS
<1> USE DEF TypeOK, Goto
<1>1. ASSUME NEW i \in Inits, CheckAbsent(i) \/ Stops(i) PROVE TypeOK'
  BY <1>1 DEF CheckAbsent, Stops, Running, files
<1>2. ASSUME NEW i \in Inits, OpenKey(i) PROVE TypeOK'
  BY <1>2 DEF OpenKey, Opened, Running
<1>3. ASSUME NEW i \in Inits, WriteKey(i) PROVE TypeOK'
  BY <1>3 DEF WriteKey, Running
<1>4. ASSUME NEW i \in Inits, OpenPub(i) PROVE TypeOK'
  BY <1>4 DEF OpenPub, Opened, Running
<1>5. ASSUME NEW i \in Inits, WritePub(i) PROVE TypeOK'
  BY <1>5 DEF WritePub, Running
<1>6. ASSUME NEW i \in Inits, OpenConfig(i) PROVE TypeOK'
  <2>1. Config(NoName, NoUrl, i) \in Configs
    BY ConfigTypes, ZenonT(30) DEF Names, Urls
  <2> QED
    BY <1>6, <2>1 DEF OpenConfig, Opened, Running
<1>7. ASSUME NEW i \in Inits, WriteConfig(i) PROVE TypeOK'
  <2>1. WholeConfig(i) \in Configs /\ CutConfigs(i) \subseteq Configs
    <3>1. NamesOf(i) \cup {NoName} \subseteq Names
      BY DEF Names, NamesOf
    <3>2. \A user \in NamesOf(i) \cup {NoName} :
            /\ Config(user, NoUrl, i) \in Configs
            /\ Config(user, DefaultUrl, i) \in Configs
      BY <3>1, ConfigTypes, ZenonT(30) DEF Urls
    <3> QED
      BY <3>2 DEF WholeConfig, CutConfigs, NamesOf
  <2>2. config' \in Configs \cup {Absent}
    BY <1>7, <2>1 DEF WriteConfig
  <2>3. pc' \in [Inits -> Running \cup {"done", "exists", "failed"}]
    BY <1>7 DEF WriteConfig, Running
  <2> QED
    BY <1>7, <2>2, <2>3 DEF WriteConfig
<1>8. ASSUME NEW s \in Setters, ReadConfig(s) PROVE TypeOK'
  BY <1>8 DEF ReadConfig, files
<1>9. ASSUME NEW s \in Setters, RenameConfig(s) PROVE TypeOK'
  <2>1. copy[s].user \in Names
    BY DEF Configs, NoConfig, Config, Names
  <2>2. Replacement(s) \in Configs
    BY <2>1, ConfigTypes DEF Replacement, Urls
  <2> QED
    BY <1>9, <2>2 DEF RenameConfig
<1>10. ASSUME NEW s \in Setters, SetterStops(s) PROVE TypeOK'
  BY <1>10 DEF SetterStops, files
<1>11. CASE UNCHANGED vars
  BY <1>11 DEF vars
<1> QED
  BY <1>1, <1>2, <1>3, <1>4, <1>5, <1>6, <1>7, <1>8, <1>9, <1>10, <1>11
     DEF Next, InitStep, SetterStep

(* The files and the runs keep their types. *)
THEOREM TypeCorrect == Spec => []TypeOK
<1>1. Init => TypeOK
  BY DEF Init, TypeOK, Running
<1> QED
  BY <1>1, TypeStep, PTL DEF Spec

-----------------------------------------------------------------------------
(* Who creates identity.key is the only one to go on, and what the other   *)
(* files hold is theirs: what makes LoadConsistent and the action          *)
(* properties inductive.                                                   *)
HoldsKey == {"pub", "pub_write", "config", "config_write", "done"}
HoldsPub == {"config", "config_write", "done"}
OneCreator ==
    /\ key = Absent => pub = Absent /\ config = Absent
    /\ pub # Absent => key \in Inits
    /\ pub \in Inits => pub = key
    /\ config # Absent => /\ pub \in Inits
                          /\ config.user \in NamesOf(key) \cup {NoName}
                          /\ config.by \in Inits => config.url \notin Setters
    /\ \A i \in Inits :
          /\ pc[i] = "key_write" =>
                key = Partial /\ \A j \in Inits : pc[j] = "key_write" => j = i
          /\ pc[i] \in HoldsKey => key = i
          /\ pc[i] = "pub_write" => pub = Partial
          /\ pc[i] \in HoldsPub => pub = i
    /\ \A s \in Setters : setter[s] = "rename" =>
          pub \in Inits /\ copy[s].user \in NamesOf(key) \cup {NoName}

LEMMA CreatorStep == TypeOK /\ OneCreator /\ [Next]_vars => OneCreator'
<1> SUFFICES ASSUME TypeOK, OneCreator, [Next]_vars PROVE OneCreator'
  OBVIOUS
<1> USE StoreAssumption DEF Goto, HoldsKey, HoldsPub
<1>0. pc \in [Inits -> Running \cup {"done", "exists", "failed"}]
  BY DEF TypeOK
<1>1. ASSUME NEW i \in Inits, CheckAbsent(i) \/ Stops(i) PROVE OneCreator'
  BY <1>0, <1>1 DEF CheckAbsent, Stops, Running, files, OneCreator
<1>2. ASSUME NEW i \in Inits, OpenKey(i) PROVE OneCreator'
  BY <1>0, <1>2 DEF OpenKey, Opened, MayCreate, OneCreator
<1>3. ASSUME NEW i \in Inits, WriteKey(i) PROVE OneCreator'
  BY <1>0, <1>3 DEF WriteKey, Continues, OneCreator
<1>4. ASSUME NEW i \in Inits, OpenPub(i) PROVE OneCreator'
  BY <1>0, <1>4 DEF OpenPub, Opened, MayCreate, OneCreator
<1>5. ASSUME NEW i \in Inits, WritePub(i) PROVE OneCreator'
  BY <1>0, <1>5 DEF WritePub, Continues, OneCreator
<1>6. ASSUME NEW i \in Inits, OpenConfig(i) PROVE OneCreator'
  BY <1>0, <1>6 DEF OpenConfig, Opened, MayCreate, OneCreator, Config
<1>7. ASSUME NEW i \in Inits, WriteConfig(i) PROVE OneCreator'
  <2>1. key = i /\ pub = i
    BY <1>7 DEF WriteConfig, OneCreator
  <2>2. \/ config' = config
        \/ /\ config'.user \in NamesOf(i) \cup {NoName}
           /\ config'.url \notin Setters
    BY <1>7 DEF WriteConfig, WholeConfig, CutConfigs, Config, NamesOf
  <2> QED
    BY <1>0, <1>7, <2>1, <2>2 DEF WriteConfig, OneCreator
<1>8. ASSUME NEW s \in Setters, ReadConfig(s) PROVE OneCreator'
  BY <1>8 DEF ReadConfig, files, OneCreator, TypeOK
<1>9. ASSUME NEW s \in Setters, RenameConfig(s) PROVE OneCreator'
  BY <1>9 DEF RenameConfig, Replacement, Config, OneCreator, TypeOK
<1>10. ASSUME NEW s \in Setters, SetterStops(s) PROVE OneCreator'
  BY <1>10 DEF SetterStops, files, OneCreator, TypeOK
<1>11. CASE UNCHANGED vars
  BY <1>11 DEF vars, OneCreator
<1> QED
  BY <1>1, <1>2, <1>3, <1>4, <1>5, <1>6, <1>7, <1>8, <1>9, <1>10, <1>11
     DEF Next, InitStep, SetterStep

(* The run that creates identity.key is the only one to write an identity. *)
THEOREM SingleCreator == Spec => []OneCreator
<1>1. Init => OneCreator
  BY StoreAssumption DEF Init, OneCreator, HoldsKey, HoldsPub
<1> QED
  BY <1>1, CreatorStep, TypeCorrect, PTL DEF Spec

(* An identity that loads comes from one chat init. *)
THEOREM LoadedIdentityIsOne == Spec => []LoadConsistent
<1>1. OneCreator => LoadConsistent
  BY DEF OneCreator, LoadConsistent, LoadOk
<1> QED
  BY <1>1, SingleCreator, PTL

(* A key that was written is never lost to another chat init. *)
THEOREM KeysAreKept == Spec => KeyNeverOverwritten
<1>1. OneCreator /\ [Next]_vars =>
        [/\ key \in Inits => key' = key
         /\ pub \in Inits => pub' = pub]_vars
  BY StoreAssumption
     DEF OneCreator, Next, InitStep, SetterStep, CheckAbsent, Stops, OpenKey,
         WriteKey, OpenPub, WritePub, OpenConfig, WriteConfig, ReadConfig,
         RenameConfig, SetterStops, MayCreate, files, vars
<1> QED
  BY <1>1, SingleCreator, PTL DEF Spec, KeyNeverOverwritten

(* A URL the user has set is only replaced by another the user has set. *)
THEOREM UrlIsKept == Spec => ServerUrlKept
<1>1. OneCreator /\ [Next]_vars =>
        [config # Absent /\ config.url \in Setters => config'.url \in Setters]_vars
  <2> SUFFICES ASSUME OneCreator, [Next]_vars, config # Absent,
                      config.url \in Setters, config' # config
               PROVE  config'.url \in Setters
    BY DEF vars
  <2>1. ASSUME NEW s \in Setters, RenameConfig(s) PROVE config'.url \in Setters
    BY <2>1 DEF RenameConfig, Replacement, Config
  <2>2. ASSUME NEW i \in Inits, OpenConfig(i) PROVE FALSE
    BY <2>2 DEF OpenConfig, MayCreate
  <2>3. ASSUME NEW i \in Inits, WriteConfig(i) PROVE FALSE
    BY <2>3 DEF WriteConfig, OneCreator
  <2> QED
    BY <2>1, <2>2, <2>3
       DEF Next, InitStep, SetterStep, CheckAbsent, Stops, OpenKey, WriteKey,
           OpenPub, WritePub, ReadConfig, SetterStops, files, vars
<1> QED
  BY <1>1, SingleCreator, PTL DEF Spec, ServerUrlKept

-----------------------------------------------------------------------------
(* Where the name in config.toml comes from: a chat config server that has *)
(* renamed its copy into place, or the creator itself, which has written   *)
(* it in full when it is done.                                             *)
NameOrigin ==
    /\ \A i \in Inits : pc[i] \in {"config_write", "done"} => config # Absent
    /\ config # Absent =>
          \/ /\ config.by \in Setters /\ setter[config.by] = "done"
             /\ config.user = copy[config.by].user
          \/ /\ config.by \in Inits /\ config.by = key
             /\ pc[config.by] = "done" => config.user = config.by

LEMMA OriginStep ==
    TypeOK /\ OneCreator /\ NameOrigin /\ [Next]_vars => NameOrigin'
<1> SUFFICES ASSUME TypeOK, OneCreator, NameOrigin, [Next]_vars
             PROVE  NameOrigin'
  OBVIOUS
<1> USE StoreAssumption DEF Goto
<1>0. /\ pc \in [Inits -> Running \cup {"done", "exists", "failed"}]
      /\ setter \in [Setters -> {"start", "not_found", "rename", "done", "failed"}]
      /\ DOMAIN copy = Setters
  BY DEF TypeOK
<1>1. ASSUME NEW i \in Inits, CheckAbsent(i) \/ Stops(i) PROVE NameOrigin'
  BY <1>0, <1>1 DEF CheckAbsent, Stops, Running, files, NameOrigin
<1>2. ASSUME NEW i \in Inits, OpenKey(i) PROVE NameOrigin'
  BY <1>0, <1>2 DEF OpenKey, Opened, MayCreate, NameOrigin, OneCreator
<1>3. ASSUME NEW i \in Inits, WriteKey(i) PROVE NameOrigin'
  BY <1>0, <1>3 DEF WriteKey, Continues, NameOrigin, OneCreator
<1>4. ASSUME NEW i \in Inits, OpenPub(i) \/ WritePub(i) PROVE NameOrigin'
  BY <1>0, <1>4 DEF OpenPub, WritePub, Opened, MayCreate, Continues, NameOrigin
<1>5. ASSUME NEW i \in Inits, OpenConfig(i) PROVE NameOrigin'
  <2>1. key = i
    BY <1>5 DEF OpenConfig, OneCreator, HoldsKey
  <2>2. Config(NoName, NoUrl, i) # Absent
    BY ConfigTypes, TextAssumption DEF Names, Urls
  <2> QED
    BY <1>0, <1>5, <2>1, <2>2 DEF OpenConfig, Opened, MayCreate, NameOrigin, Config
<1>6. ASSUME NEW i \in Inits, WriteConfig(i) PROVE NameOrigin'
  <2>1. key = i /\ config # Absent
    BY <1>6 DEF WriteConfig, OneCreator, HoldsKey, NameOrigin
  <2>2. config' # Absent /\ config'.by = config.by
    <3>1. \A user \in NamesOf(i) \cup {NoName}, url \in {NoUrl, DefaultUrl} :
            Config(user, url, i) # Absent
      BY ConfigTypes, TextAssumption DEF Names, NamesOf, Urls
    <3>2. config' # Absent
      BY <1>6, <2>1, <3>1 DEF WriteConfig, WholeConfig, CutConfigs, NamesOf
    <3> QED
      BY <3>2, <1>6 DEF WriteConfig, WholeConfig, CutConfigs, Config
  <2>3. CASE config.by # i
    BY <1>0, <1>6, <2>1, <2>3 DEF WriteConfig, NameOrigin
  <2>4. CASE config.by = i
    <3>1. pc'[i] = "done" => config'.user = i
      BY <1>0, <1>6, <2>4 DEF WriteConfig, Continues, WholeConfig, Config
    <3> QED
      BY <1>0, <1>6, <2>1, <2>2, <2>4, <3>1 DEF WriteConfig, NameOrigin
  <2> QED
    BY <2>3, <2>4
<1>7. ASSUME NEW s \in Setters, ReadConfig(s) \/ SetterStops(s) PROVE NameOrigin'
  BY <1>0, <1>7 DEF ReadConfig, SetterStops, files, NameOrigin
<1>8. ASSUME NEW s \in Setters, RenameConfig(s) PROVE NameOrigin'
  <2>1. config' = [user |-> copy[s].user, url |-> s, by |-> s]
    BY <1>8 DEF RenameConfig, Replacement, Config
  <2>2. config' # Absent
    <3>1. copy[s].user \in Names
      BY DEF TypeOK, Configs, NoConfig, Config, Names
    <3> QED
      BY <1>8, <3>1, ConfigTypes, TextAssumption DEF RenameConfig, Replacement, Urls
  <2> QED
    BY <1>0, <1>8, <2>1, <2>2 DEF RenameConfig, NameOrigin
<1>9. CASE UNCHANGED vars
  BY <1>9 DEF vars, NameOrigin
<1> QED
  BY <1>1, <1>2, <1>3, <1>4, <1>5, <1>6, <1>7, <1>8, <1>9
     DEF Next, InitStep, SetterStep

(* An identity that chat init reports as created loads, with its own name  *)
(* and keys, after any chat config server that read the name in full.      *)
THEOREM CreatedIdentitiesLoad == Spec => []CreatedLoads
<1>1. Init => NameOrigin
  BY DEF Init, NameOrigin
<1>2. OneCreator /\ NameOrigin => CreatedLoads
  <2> SUFFICES ASSUME OneCreator, NameOrigin,
                      \A s \in Setters : setter[s] = "done" => copy[s].user \in Inits,
                      NEW i \in Inits, pc[i] = "done"
               PROVE  LoadOk /\ key = i /\ config.user = i
    BY DEF CreatedLoads, CreatedIdentityLoads
  <2>1. key = i /\ pub = i /\ config # Absent
    BY DEF OneCreator, HoldsKey, HoldsPub, NameOrigin
  <2>2. config.user \in Inits
    BY <2>1 DEF NameOrigin
  <2>3. config.user = i
    BY <2>1, <2>2, StoreAssumption, TextAssumption DEF OneCreator, NamesOf
  <2> QED
    BY <2>1, <2>3, StoreAssumption DEF LoadOk
<1> QED
  BY <1>1, <1>2, OriginStep, SingleCreator, TypeCorrect, PTL DEF Spec

-----------------------------------------------------------------------------
(* The contacts.                                                           *)

(* What append_contact does to the lines. *)
LEMMA AppendedLines ==
    ASSUME ContactsTypeOK, NEW u \in Users, NEW k \in Keys, NEW written,
           AppendLine(u, k, written)
    PROVE  /\ file' \in Seq(Lines)
           /\ file' # <<>>
           /\ \/ /\ Len(file') = Len(file) + 1
                 /\ \A i \in 1 .. Len(file) : file'[i] = file[i]
                 /\ file'[Len(file) + 1] = IF written = "part" THEN Bad ELSE Contact(u, k)
              \/ /\ file # <<>>
                 /\ Len(file') = Len(file)
                 /\ \A i \in 1 .. Len(file) - 1 : file'[i] = file[i]
                 /\ file'[Len(file)] = Bad
<1>1. Contact(u, k) \in Lines /\ Bad \in Lines
  BY DEF Lines, Contact
<1>2. CASE terminated
  BY <1>1, <1>2 DEF AppendLine, ContactsTypeOK
<1>3. CASE ~terminated
  <2>1. file # <<>> /\ file \in Seq(Lines)
    BY <1>3 DEF ContactsTypeOK
  <2>2. Len(file) \in Nat /\ Len(file) >= 1 /\ DOMAIN file = 1 .. Len(file)
    BY <2>1
  <2>3. file' = [file EXCEPT ![Len(file)] = Bad]
    BY <1>3 DEF AppendLine
  <2>4. file' \in Seq(Lines) /\ Len(file') = Len(file)
    BY <1>1, <2>1, <2>2, <2>3
  <2>5. file' # <<>>
    <3>1. Len(file') # Len(<<>>)
      BY <2>2, <2>4
    <3> QED
      BY <3>1
  <2>6. file'[Len(file)] = Bad
    BY <2>1, <2>2, <2>3
  <2>7. ASSUME NEW i \in 1 .. Len(file) - 1 PROVE file'[i] = file[i]
    <3>1. \A n \in Nat : \A m \in 1 .. n - 1 : m \in 1 .. n /\ m # n
      OBVIOUS
    <3>2. i \in DOMAIN file /\ i # Len(file)
      BY <2>2, <3>1, ZenonT(30)
    <3> QED
      BY <2>1, <2>3, <3>2
  <2> QED
    BY <2>1, <2>4, <2>5, <2>6, <2>7
<1> QED
  BY <1>2, <1>3

LEMMA ContactsTypeStep == ContactsTypeOK /\ [ContactsNext]_contacts => ContactsTypeOK'
<1> SUFFICES ASSUME ContactsTypeOK, [ContactsNext]_contacts PROVE ContactsTypeOK'
  OBVIOUS
<1>1. CASE UNCHANGED contacts
  BY <1>1 DEF ContactsTypeOK, contacts
<1>2. ASSUME NEW u \in Users, NEW k \in Keys, VerifyOrPin(u, k)
      PROVE  ContactsTypeOK'
  <2>1. CASE /\ accepted' = accepted \cup {<<u, k>>}
             /\ UNCHANGED <<file, terminated>>
    BY <2>1 DEF ContactsTypeOK
  <2>2. ASSUME NEW written, AppendLine(u, k, written),
               terminated' = (written = "line"),
               accepted' \in {accepted, accepted \cup {<<u, k>>}}
        PROVE  ContactsTypeOK'
    <3>1. file' \in Seq(Lines) /\ file' # <<>>
      BY <2>2, AppendedLines
    <3>2. terminated' \in BOOLEAN
      BY <2>2
    <3>3. accepted' \subseteq Users \X Keys
      BY <2>2 DEF ContactsTypeOK
    <3> QED
      BY <3>1, <3>2, <3>3 DEF ContactsTypeOK
  <2> QED
    BY <1>1, <1>2, <2>1, <2>2 DEF VerifyOrPin, AppendContact
<1> QED
  BY <1>1, <1>2 DEF ContactsNext

(* The lines of contacts.db keep their form. *)
THEOREM ContactsTypeCorrect == ContactsSpec => []ContactsTypeOK
<1>1. ContactsInit => ContactsTypeOK
  BY DEF ContactsInit, ContactsTypeOK
<1> QED
  BY <1>1, ContactsTypeStep, PTL DEF ContactsSpec

-----------------------------------------------------------------------------
(* Readers see what they saw before, or a line they cannot parse. *)
LEMMA AppendKeepsPins ==
    ASSUME ContactsTypeOK, NEW u \in Users, NEW k \in Keys, NEW written,
           AppendLine(u, k, written), NEW v \in Users, NEW l \in Keys
    PROVE  /\ Pinned(v, l) => Pinned(v, l)' \/ BadFile(v)'
           /\ BadFile(v) => BadFile(v)'
<1>0. Len(file) \in Nat
  BY DEF ContactsTypeOK
<1>1. ASSUME NEW i \in 1 .. Len(file), Reaches(v, i)
      PROVE  i \in 1 .. Len(file') /\ Reaches(v, i)'
  BY <1>0, <1>1, AppendedLines DEF Reaches
<1>2. \A i \in 1 .. Len(file) : file'[i] \in {file[i], Bad}
  BY <1>0, AppendedLines
<1>3. ASSUME Pinned(v, l) PROVE Pinned(v, l)' \/ BadFile(v)'
  <2>1. PICK i \in 1 .. Len(file) : file[i] = Contact(v, l) /\ Reaches(v, i)
    BY <1>3 DEF Pinned
  <2> QED
    BY <1>1, <1>2, <2>1 DEF Pinned, BadFile
<1>4. ASSUME BadFile(v) PROVE BadFile(v)'
  <2>1. PICK i \in 1 .. Len(file) : file[i] = Bad /\ Reaches(v, i)
    BY <1>4 DEF BadFile
  <2> QED
    BY <1>1, <1>2, <2>1 DEF BadFile
<1> QED
  BY <1>3, <1>4

LEMMA PinStep ==
    ASSUME ContactsTypeOK, [ContactsNext]_contacts, NEW v \in Users, NEW l \in Keys
    PROVE  /\ Pinned(v, l) => Pinned(v, l)' \/ BadFile(v)'
           /\ BadFile(v) => BadFile(v)'
<1>1. CASE UNCHANGED file
  BY <1>1 DEF Pinned, BadFile, Reaches
<1>2. CASE \E u \in Users, k \in Keys, written \in Written : AppendLine(u, k, written)
  BY <1>2, AppendKeepsPins
<1> QED
  BY <1>1, <1>2 DEF ContactsNext, contacts, VerifyOrPin, AppendContact

(* A pin is never replaced by another one; at worst it can no longer be    *)
(* read (append_contact, find_contact).                                    *)
THEOREM PinsAreNeverReplaced == ContactsSpec => PinNeverReplaced
<1>1. ContactsTypeOK /\ [ContactsNext]_contacts =>
        [\A u \in Users, k \in Keys : Pinned(u, k) => Pinned(u, k)' \/ BadFile(u)']_contacts
  BY PinStep
<1> QED
  BY <1>1, ContactsTypeCorrect, PTL DEF ContactsSpec, PinNeverReplaced

(* A user's first line decides: two keys are never pinned at once, and     *)
(* neither is pinned past a line that cannot be parsed.                    *)
LEMMA FirstLineDecides ==
    ASSUME ContactsTypeOK, NEW u \in Users, NEW k1 \in Keys, NEW k2 \in Keys, Pinned(u, k1)
    PROVE  /\ ~BadFile(u)
           /\ Pinned(u, k2) => k1 = k2
<1>0. Len(file) \in Nat
  BY DEF ContactsTypeOK
<1>1. PICK i \in 1 .. Len(file) : file[i] = Contact(u, k1) /\ Reaches(u, i)
  BY DEF Pinned
<1>2. file[i] # Bad /\ file[i].user = u /\ file[i].key = k1
  BY <1>1, ContactsAssumption DEF Contact, Bad
<1>3. ASSUME NEW j \in 1 .. Len(file), file[j] = Bad \/ file[j].user = u,
             Reaches(u, j)
      PROVE  j = i
  <2>1. ~(j < i)
    BY <1>0, <1>1, <1>3 DEF Reaches
  <2>2. ~(i < j)
    BY <1>0, <1>2, <1>3 DEF Reaches
  <2> QED
    BY <1>0, <2>1, <2>2
<1>4. ~BadFile(u)
  BY <1>2, <1>3 DEF BadFile
<1>5. Pinned(u, k2) => k1 = k2
  BY <1>2, <1>3 DEF Pinned, Contact
<1> QED
  BY <1>4, <1>5

(* Where a new line may be written, nothing was pinned or unreadable. *)
LEMMA NotFoundMeans ==
    ASSUME ContactsTypeOK, NEW u \in Users, NEW k \in Keys, NotFound(u)
    PROVE  ~BadFile(u) /\ ~Pinned(u, k)
BY ContactsAssumption DEF ContactsTypeOK, NotFound, BadFile, Pinned, Reaches, Contact, Bad

LEMMA AcceptedStep ==
    ASSUME ContactsTypeOK, ContactsTypeOK', AcceptedIsPinned, [ContactsNext]_contacts
    PROVE  AcceptedIsPinned'
<1>1. SUFFICES ASSUME NEW u \in Users, NEW k \in Keys, <<u, k>> \in accepted'
               PROVE  Pinned(u, k)' \/ BadFile(u)'
  BY DEF AcceptedIsPinned
<1>2. CASE <<u, k>> \in accepted
  BY <1>2, PinStep DEF AcceptedIsPinned
<1>3. CASE <<u, k>> \notin accepted
  <2>1. PICK v \in Users, l \in Keys : VerifyOrPin(v, l)
    BY <1>1, <1>3 DEF ContactsNext, contacts
  <2>2. u = v /\ k = l
    BY <1>1, <1>3, <2>1 DEF VerifyOrPin, AppendContact, contacts
  <2>3. CASE Pinned(u, k) /\ UNCHANGED file
    BY <2>3, PinStep
  <2>4. CASE NotFound(u) /\ AppendLine(u, k, "line")
    <3>0. Len(file) \in Nat
      BY DEF ContactsTypeOK
    <3>1. CASE /\ Len(file') = Len(file) + 1
               /\ \A i \in 1 .. Len(file) : file'[i] = file[i]
               /\ file'[Len(file) + 1] = Contact(u, k)
      BY <2>4, <3>0, <3>1 DEF NotFound, Reaches, Pinned
    <3>2. CASE /\ file # <<>>
               /\ Len(file') = Len(file)
               /\ \A i \in 1 .. Len(file) - 1 : file'[i] = file[i]
               /\ file'[Len(file)] = Bad
      <4>1. Len(file) >= 1
        BY <3>2 DEF ContactsTypeOK
      <4> QED
        BY <2>4, <3>0, <3>2, <4>1 DEF NotFound, Reaches, BadFile
    <3> QED
      BY <2>4, <3>1, <3>2, AppendedLines
  <2> QED
    BY <1>1, <1>3, <2>1, <2>2, <2>3, <2>4
       DEF VerifyOrPin, MayPin, AppendContact, contacts
<1> QED
  BY <1>2, <1>3

(* An accepted key is on file, or the file is unreadable for that user.    *)
THEOREM AcceptedKeysArePinned == ContactsSpec => []AcceptedIsPinned
<1>1. ContactsInit => AcceptedIsPinned
  BY DEF ContactsInit, AcceptedIsPinned
<1> QED
  BY <1>1, AcceptedStep, ContactsTypeCorrect, PTL DEF ContactsSpec

LEMMA OneKeyStep ==
    ASSUME ContactsTypeOK, AcceptedIsPinned, OneKeyPerContact, [ContactsNext]_contacts
    PROVE  OneKeyPerContact'
<1>1. CASE accepted' = accepted
  BY <1>1 DEF OneKeyPerContact
<1>2. ASSUME NEW u \in Users, NEW k \in Keys,
             Pinned(u, k) \/ NotFound(u), accepted' = accepted \cup {<<u, k>>}
      PROVE  OneKeyPerContact'
  <2>1. ASSUME NEW l \in Keys, <<u, l>> \in accepted
        PROVE  l = k
    <3>1. Pinned(u, l) \/ BadFile(u)
      BY <2>1 DEF AcceptedIsPinned
    <3>2. CASE Pinned(u, k)
      BY <3>1, <3>2, FirstLineDecides
    <3>3. CASE NotFound(u)
      BY <3>1, <3>3, NotFoundMeans
    <3> QED
      BY <1>2, <3>2, <3>3
  <2> QED
    BY <1>2, <2>1 DEF OneKeyPerContact
<1> QED
  BY <1>1, <1>2 DEF ContactsNext, contacts, VerifyOrPin, MayPin, AppendContact

(* No two keys are ever accepted for one user (chat_contacts_verify_or_pin).*)
THEOREM TrustOnFirstUse == ContactsSpec => []OneKeyPerContact
<1>1. ContactsInit => OneKeyPerContact
  BY DEF ContactsInit, OneKeyPerContact
<1> QED
  BY <1>1, OneKeyStep, AcceptedKeysArePinned, ContactsTypeCorrect, PTL DEF ContactsSpec
===============================================================================
