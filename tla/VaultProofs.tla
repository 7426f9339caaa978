---------------------------- MODULE VaultProofs ----------------------------
(***************************************************************************)
(* What Vault promises, for every set of services, accounts and keys: no   *)
(* acknowledged secret is lost, every reference is backed, and the key id  *)
(* of the file is that of its secrets.                                     *)
(*                                                                         *)
(* The first is inductive by itself.  The second is not, for a restart may *)
(* put a restored database of references in place: it needs that only a    *)
(* restore leaves one waiting.  The third must hold of the staged and of   *)
(* the archived file too, which become the file, and that a file which     *)
(* does not parse has no entry, for the next write stamps it.              *)
(*                                                                         *)
(* And what 201 and 204 promise about a credential in the keychain, for    *)
(* any number of overlapping calls and crashes.  AcknowledgedHolds speaks  *)
(* of moments when no call is under way; CallsInv says what holds in       *)
(* between: a call that is still alone is the only one under way and the   *)
(* keychain is as it left it, and secret and reference agree with the last *)
(* acknowledged call until the next one has acted.                         *)
(*                                                                         *)
(* And what a restore answers, for any list of services.  ArchivesHold     *)
(* speaks of answered restores and finished archives; BackupInv says the   *)
(* same of a restore under way (StagedIsHeld), which takes that no other   *)
(* runs beside one that is alone (RestoresKnown), and of a dump under way  *)
(* (DumpsMatch).                                                           *)
(***************************************************************************)
EXTENDS Vault, CredentialCalls, Backup, SequenceTheorems, TLAPS

DbOK(d) == d = NoDb \/ d.refs \subseteq Secrets

(* Types, those of the archived database included.                         *)
Typed == TypeOK /\ DbOK(pendingDb) /\ DbOK(backup.db)

(* Only a restore leaves references waiting for the next start.            *)
PendingIsRestored == "restore" \notin incidents => pendingDb = NoDb

(* The key id of a file is the key of its entries; without one it has none.*)
HonestFile(f) ==
  /\ f.format = "v1" =>
       \A s \in Secrets : f.entries[s] # NoKey => f.entries[s] = f.key
  /\ f.format \in {"absent", "torn"} => \A s \in Secrets : f.entries[s] = NoKey

Honest == "stamped" \notin incidents =>
            HonestFile(file) /\ HonestFile(staged) /\ HonestFile(backup.file)

-----------------------------------------------------------------------------
(* The files the vault makes.                                              *)
LEMMA AbsentFile == Absent \in Files /\ Held(Absent) = {} /\ HonestFile(Absent)
  BY DEF Absent, NoEntries, Files, Held, HonestFile

LEMMA TornFile == Torn \in Files /\ HonestFile(Torn)
  BY DEF Torn, Absent, NoEntries, Files, HonestFile

(* loadStore keeps every entry, and drops none by writing back.            *)
LEMMA OpenedKeeps ==
  ASSUME file \in Files, env \in Keys
  PROVE  /\ Opened \in Files /\ Opened.entries = file.entries
         /\ Migrated \in Files /\ Migrated.entries = file.entries
         /\ Held(Opened) = Held(file) /\ Held(Migrated) = Held(file)
  BY DEF Opened, Migrated, Versioned, Files, Held

(* set adds its secret to those held.                                      *)
LEMMA WithSecretHolds ==
  ASSUME file \in Files, env \in Keys, NEW s \in Secrets
  PROVE  /\ WithSecret(s) \in Files
         /\ Held(WithSecret(s)) = Held(file) \cup {s}
         /\ WithSecret(s).format = Opened.format
         /\ WithSecret(s).key = Opened.key
         /\ WithSecret(s).entries = [file.entries EXCEPT ![s] = env]
<1>1. /\ Opened \in Files /\ Opened.entries = file.entries
      /\ file.entries \in [Secrets -> Keys \cup {NoKey}]
  BY OpenedKeeps DEF Files
<1>2. /\ WithSecret(s).format = Opened.format
      /\ WithSecret(s).key = Opened.key
      /\ WithSecret(s).entries = [file.entries EXCEPT ![s] = env]
      /\ WithSecret(s) \in Files
  BY <1>1 DEF WithSecret, Files
<1>3. env # NoKey
  BY VaultAssumption
<1>4. Held(WithSecret(s)) = Held(file) \cup {s}
  BY <1>1, <1>2, <1>3 DEF Held
<1> QED  BY <1>2, <1>4

(* delete takes its secret, and only it, from those held.                  *)
LEMMA WithoutSecretHolds ==
  ASSUME file \in Files, env \in Keys, NEW s \in Secrets
  PROVE  /\ WithoutSecret(s) \in Files
         /\ Held(WithoutSecret(s)) = Held(file) \ {s}
<1>1. /\ Opened \in Files /\ Opened.entries = file.entries
      /\ Migrated \in Files /\ Held(Migrated) = Held(file)
      /\ Held(Opened) = Held(file)
      /\ file.entries \in [Secrets -> Keys \cup {NoKey}]
  BY OpenedKeeps DEF Files
<1>2. CASE s \in Held(Opened)
  <2>1. WithoutSecret(s) = [Opened EXCEPT !.entries[s] = NoKey]
    BY <1>2 DEF WithoutSecret
  <2>2. /\ WithoutSecret(s) \in Files
        /\ WithoutSecret(s).entries = [file.entries EXCEPT ![s] = NoKey]
    BY <1>1, <2>1 DEF Files
  <2> QED  BY <1>1, <2>2 DEF Held
<1>3. CASE s \notin Held(Opened)
  BY <1>1, <1>3 DEF WithoutSecret
<1> QED  BY <1>2, <1>3

(* A rotation keeps all that is held, under the new key.                   *)
LEMMA RotatedHolds ==
  ASSUME file \in Files, NEW new \in Keys
  PROVE  LET f == Versioned(new, [s \in Secrets |->
                                    IF s \in Held(file) THEN new ELSE NoKey])
         IN f \in Files /\ Held(f) = Held(file) /\ HonestFile(f)
  BY VaultAssumption DEF Versioned, Files, Held, HonestFile

-----------------------------------------------------------------------------
(* Types, action by action: each file written is one of the files above.   *)
LEMMA AlwaysTyped == Spec => []Typed
<1>1. Init => Typed
  <2>1. ASSUME Init PROVE file \in Files /\ Held(file) \subseteq Secrets
    BY <2>1, AbsentFile, VaultAssumption DEF Init, Flat, NoEntries, Files, Held
  <2> QED  BY <2>1, AbsentFile DEF Init, Typed, TypeOK, DbOK, NoBackup, NoDb
<1>2. Typed /\ [Next]_vars => Typed'
  <2> SUFFICES ASSUME Typed, [Next]_vars PROVE Typed'
    OBVIOUS
  <2>0. /\ TypeOK /\ file \in Files /\ env \in Keys /\ Stamped \subseteq {"stamped"}
        /\ DbOK(pendingDb) /\ DbOK(backup.db)
    BY DEF Typed, TypeOK, Stamped
  <2>1. ASSUME NEW s \in Secrets, SetSecret(s) PROVE Typed'
    BY <2>0, <2>1, WithSecretHolds DEF SetSecret, Typed, TypeOK, DbOK
  <2>2. ASSUME NEW s \in Secrets, DeleteSecret(s) PROVE Typed'
    BY <2>0, <2>2, WithoutSecretHolds DEF DeleteSecret, Typed, TypeOK, DbOK
  <2>3. ASSUME NEW s \in Secrets, CrashInSet(s) PROVE Typed'
    BY <2>0, <2>3, WithSecretHolds, TornFile
       DEF CrashInSet, CrashInWrite, Typed, TypeOK, DbOK
  <2>4. ASSUME NEW s \in Secrets, CrashInDelete(s) PROVE Typed'
    BY <2>0, <2>4, WithoutSecretHolds, TornFile
       DEF CrashInDelete, CrashInWrite, Typed, TypeOK, DbOK
  <2>5. ASSUME NEW s \in Secrets, NEW S \in SUBSET Secrets, InjectCredential(s, S)
        PROVE  Typed'
    <3>1. given' \subseteq Secrets \X Secrets
      BY <2>5 DEF InjectCredential, Source, Secrets
    <3> QED  BY <2>0, <2>5, <3>1, OpenedKeeps DEF InjectCredential, Typed, TypeOK, DbOK
  <2>6. ASSUME NEW old \in Keys, NEW new \in Keys, RotateKey(old, new) PROVE Typed'
    BY <2>0, <2>6, RotatedHolds DEF RotateKey, Typed, TypeOK, DbOK, history
  <2>7. CASE DumpState
    BY <2>0, <2>7 DEF DumpState, Typed, TypeOK, DbOK, Db, disk, history
  <2>8. CASE RestoreState
    BY <2>0, <2>8, AbsentFile
       DEF RestoreState, Swapped, ToSwap, Typed, TypeOK, DbOK
  <2>9. CASE Crash
    BY <2>0, <2>9 DEF Crash, Typed, TypeOK, DbOK, disk, history
  <2>10. CASE CrashInRestore
    BY <2>0, <2>10, AbsentFile
       DEF CrashInRestore, Swapped, ToSwap, Typed, TypeOK, DbOK
  <2>11. ASSUME NEW key \in Keys, Restart(key) PROVE Typed'
    BY <2>0, <2>11 DEF Restart, Typed, TypeOK, DbOK, history
  <2>12. CASE UNCHANGED vars
    BY <2>0, <2>12 DEF vars, disk, history, Typed, TypeOK, DbOK
  <2> QED
    BY <2>1, <2>2, <2>3, <2>4, <2>5, <2>6, <2>7, <2>8, <2>9, <2>10, <2>11, <2>12 DEF Next
<1> QED  BY <1>1, <1>2, PTL DEF Spec

(* Every variable of the vault keeps its type, whatever is stored, rotated *)
(* restored or cut short (TypeOK).                                         *)
THEOREM TypeCorrect == Spec => []TypeOK
<1>1. Typed => TypeOK
  BY DEF Typed
<1> QED  BY <1>1, AlwaysTyped, PTL

-----------------------------------------------------------------------------
(* NoSecretLost: whatever is done short of restoring a backup or tearing   *)
(* the file in a crash, each acknowledged secret is still in the file.     *)
THEOREM NothingLost == Spec => []NoSecretLost
<1>1. Init => NoSecretLost
  BY DEF Init, NoSecretLost
<1>2. Typed /\ NoSecretLost /\ [Next]_vars => NoSecretLost'
  <2> SUFFICES ASSUME Typed, NoSecretLost, [Next]_vars,
                      incidents' \cap {"torn", "restore"} = {}
               PROVE  stored' \subseteq Held(file')
    BY DEF NoSecretLost, Held
  <2>0. file \in Files /\ env \in Keys
    BY DEF Typed, TypeOK
  <2>1. ASSUME incidents \subseteq incidents' PROVE stored \subseteq Held(file)
    BY <2>1 DEF NoSecretLost
  <2>2. ASSUME NEW s \in Secrets, SetSecret(s) PROVE stored' \subseteq Held(file')
    BY <2>0, <2>1, <2>2, WithSecretHolds DEF SetSecret
  <2>3. ASSUME NEW s \in Secrets, DeleteSecret(s)
        PROVE  stored' \subseteq Held(file')
    BY <2>0, <2>1, <2>3, WithoutSecretHolds DEF DeleteSecret
  <2>4. ASSUME NEW s \in Secrets, CrashInSet(s) PROVE stored' \subseteq Held(file')
    BY <2>0, <2>1, <2>4, WithSecretHolds DEF CrashInSet, CrashInWrite
  <2>5. ASSUME NEW s \in Secrets, CrashInDelete(s)
        PROVE  stored' \subseteq Held(file')
    BY <2>0, <2>1, <2>5, WithoutSecretHolds DEF CrashInDelete, CrashInWrite
  <2>6. ASSUME NEW s \in Secrets, NEW S \in SUBSET Secrets, InjectCredential(s, S)
        PROVE  stored' \subseteq Held(file')
    BY <2>0, <2>1, <2>6, OpenedKeeps DEF InjectCredential
  <2>7. ASSUME NEW old \in Keys, NEW new \in Keys, RotateKey(old, new)
        PROVE  stored' \subseteq Held(file')
    BY <2>0, <2>1, <2>7, RotatedHolds DEF RotateKey, history
  <2>8. CASE RestoreState \/ CrashInRestore
    BY <2>8 DEF RestoreState, CrashInRestore
  <2>9. CASE DumpState \/ Crash \/ (\E key \in Keys : Restart(key)) \/ UNCHANGED vars
    BY <2>1, <2>9 DEF DumpState, Crash, Restart, vars, disk, history
  <2> QED  BY <2>2, <2>3, <2>4, <2>5, <2>6, <2>7, <2>8, <2>9 DEF Next
<1> QED  BY <1>1, <1>2, AlwaysTyped, PTL DEF Spec

-----------------------------------------------------------------------------
(* RefsBacked: the secret is written before its reference and the          *)
(* reference removed after it, so only a cut delete, a torn write or a     *)
(* restore leaves a reference without its secret.                          *)
THEOREM EveryRefBacked == Spec => []RefsBacked
<1>1. Init => PendingIsRestored /\ RefsBacked
  BY DEF Init, RefsBacked, PendingIsRestored
<1>2. PendingIsRestored /\ [Next]_vars => PendingIsRestored'
  BY DEF PendingIsRestored, Next, SetSecret, DeleteSecret, CrashInSet,
         CrashInDelete, CrashInWrite, InjectCredential, RotateKey, DumpState,
         RestoreState, Crash, CrashInRestore, Restart, vars, disk, history
<1>3. Typed /\ PendingIsRestored /\ RefsBacked /\ [Next]_vars => RefsBacked'
  <2> SUFFICES ASSUME Typed, PendingIsRestored, RefsBacked, [Next]_vars,
                      incidents' \cap {"delete", "torn", "restore"} = {}
               PROVE  refs' \subseteq Held(file')
    BY DEF RefsBacked, Held
  <2>0. file \in Files /\ env \in Keys
    BY DEF Typed, TypeOK
  <2>1. ASSUME incidents \subseteq incidents'
        PROVE  refs \subseteq Held(file) /\ pendingDb = NoDb
    BY <2>1 DEF RefsBacked, PendingIsRestored
  <2>2. ASSUME NEW s \in Secrets, SetSecret(s) PROVE refs' \subseteq Held(file')
    BY <2>0, <2>1, <2>2, WithSecretHolds DEF SetSecret
  <2>3. ASSUME NEW s \in Secrets, DeleteSecret(s) PROVE refs' \subseteq Held(file')
    BY <2>0, <2>1, <2>3, WithoutSecretHolds DEF DeleteSecret
  <2>4. ASSUME NEW s \in Secrets, CrashInSet(s) PROVE refs' \subseteq Held(file')
    BY <2>0, <2>1, <2>4, WithSecretHolds DEF CrashInSet, CrashInWrite
  <2>5. ASSUME NEW s \in Secrets, CrashInDelete(s) PROVE FALSE
    BY <2>5 DEF CrashInDelete, CrashInWrite
  <2>6. ASSUME NEW s \in Secrets, NEW S \in SUBSET Secrets, InjectCredential(s, S)
        PROVE  refs' \subseteq Held(file')
    BY <2>0, <2>1, <2>6, OpenedKeeps DEF InjectCredential
  <2>7. ASSUME NEW old \in Keys, NEW new \in Keys, RotateKey(old, new)
        PROVE  refs' \subseteq Held(file')
    BY <2>0, <2>1, <2>7, RotatedHolds DEF RotateKey, history
  <2>8. CASE RestoreState \/ CrashInRestore
    BY <2>8 DEF RestoreState, CrashInRestore
  <2>9. CASE DumpState \/ Crash \/ (\E key \in Keys : Restart(key)) \/ UNCHANGED vars
    BY <2>1, <2>9 DEF DumpState, Crash, Restart, vars, disk, history
  <2> QED  BY <2>2, <2>3, <2>4, <2>5, <2>6, <2>7, <2>8, <2>9 DEF Next
<1> QED  BY <1>1, <1>2, <1>3, AlwaysTyped, PTL DEF Spec

-----------------------------------------------------------------------------
(* What loadStore makes of an honest file is honest, unless it stamps a    *)
(* flat file that has an entry under another key.                          *)
LEMMA OpenedHonest ==
  ASSUME file \in Files, env \in Keys, HonestFile(file), Stamped = {}
  PROVE  HonestFile(Opened) /\ HonestFile(Migrated) /\ Opened.format = "v1"
<1>1. Opened.format = "v1"
  BY DEF Opened, Versioned
<1>2. CASE file.format = "v1"
  BY <1>2 DEF Opened, Migrated
<1>3. CASE file.format = "flat"
  <2>1. \A s \in Secrets : file.entries[s] # NoKey => file.entries[s] = env
    BY <1>3 DEF Stamped, Held
  <2> QED  BY <1>1, <1>3, <2>1 DEF Opened, Migrated, Versioned, HonestFile
<1>4. CASE file.format \in {"absent", "torn"}
  BY <1>1, <1>4 DEF Opened, Migrated, Versioned, HonestFile
<1> QED  BY <1>1, <1>2, <1>3, <1>4 DEF Files

(* So is what set and delete make of it: set writes under the key that     *)
(* loadStore has required, or stamped.                                     *)
LEMMA WrittenHonest ==
  ASSUME file \in Files, env \in Keys, HonestFile(file), Stamped = {}, Opens,
         NEW s \in Secrets
  PROVE  HonestFile(WithSecret(s)) /\ HonestFile(WithoutSecret(s))
<1>1. /\ Opened \in Files /\ Opened.format = "v1" /\ Opened.key = env
      /\ \A t \in Secrets : Opened.entries[t] # NoKey => Opened.entries[t] = env
      /\ HonestFile(Migrated) /\ Opened.entries \in [Secrets -> Keys \cup {NoKey}]
  BY OpenedKeeps, OpenedHonest DEF Opens, Opened, Versioned, HonestFile, Files
<1>2. HonestFile(WithSecret(s))
  <2>1. /\ WithSecret(s).format = "v1" /\ WithSecret(s).key = env
        /\ WithSecret(s).entries = [Opened.entries EXCEPT ![s] = env]
    BY <1>1 DEF WithSecret, Files
  <2> QED  BY <1>1, <2>1 DEF HonestFile
<1>3. HonestFile(WithoutSecret(s))
  <2>1. CASE s \in Held(Opened)
    <3>1. LET f == [Opened EXCEPT !.entries[s] = NoKey]
          IN /\ WithoutSecret(s) = f /\ f.format = "v1" /\ f.key = env
             /\ f.entries = [Opened.entries EXCEPT ![s] = NoKey]
      BY <1>1, <2>1 DEF WithoutSecret, Files
    <3> QED  BY <1>1, <3>1 DEF HonestFile
  <2>2. CASE s \notin Held(Opened)
    BY <1>1, <2>2 DEF WithoutSecret
  <2> QED  BY <2>1, <2>2
<1> QED  BY <1>2, <1>3

(* KeyIdHonest: the key id of the file is the key of every secret in it,   *)
(* across rotations, crashes, restores and restarts under any key.         *)
THEOREM KeyIdAlwaysHonest == Spec => []KeyIdHonest
<1>1. Init => Honest
  <2> SUFFICES ASSUME Init PROVE Honest
    OBVIOUS
  <2>1. HonestFile(file)
    BY AbsentFile DEF Init, Flat, HonestFile
  <2>2. staged = Absent /\ backup.file = Absent
    BY DEF Init, NoBackup
  <2> QED  BY <2>1, <2>2, AbsentFile DEF Honest
<1>2. Typed /\ Honest /\ [Next]_vars => Honest'
  <2> SUFFICES ASSUME Typed, Honest, [Next]_vars, "stamped" \notin incidents'
               PROVE  /\ HonestFile(file') /\ HonestFile(staged')
                      /\ HonestFile(backup'.file)
    BY DEF Honest, HonestFile
  <2>0. file \in Files /\ env \in Keys
    BY DEF Typed, TypeOK
  <2>1. ASSUME incidents \subseteq incidents'
        PROVE  HonestFile(file) /\ HonestFile(staged) /\ HonestFile(backup.file)
    BY <2>1 DEF Honest
  <2>2. ASSUME incidents \cup Stamped \subseteq incidents' PROVE Stamped = {}
    BY <2>2 DEF Stamped
  <2>3. ASSUME NEW s \in Secrets, SetSecret(s) \/ DeleteSecret(s)
        PROVE  HonestFile(file') /\ HonestFile(staged') /\ HonestFile(backup'.file)
    BY <2>0, <2>1, <2>2, <2>3, WrittenHonest DEF SetSecret, DeleteSecret
  <2>4. ASSUME NEW s \in Secrets, CrashInSet(s) \/ CrashInDelete(s)
        PROVE  HonestFile(file') /\ HonestFile(staged') /\ HonestFile(backup'.file)
    <3>1. PICK written \in {WithSecret(s), WithoutSecret(s)},
               incident \in {"set", "delete"} : CrashInWrite(written, incident)
      BY <2>4 DEF CrashInSet, CrashInDelete
    <3>2. CASE file' = written /\ incidents' = incidents \cup Stamped \cup {incident}
      <4>1. Stamped = {} /\ HonestFile(file) /\ Opens
        BY <2>1, <2>2, <3>1, <3>2 DEF CrashInWrite
      <4>2. HonestFile(written)
        BY <2>0, <4>1, WrittenHonest
      <4> QED  BY <2>1, <3>1, <3>2, <4>2 DEF CrashInWrite
    <3>3. CASE file' = Torn /\ incidents' = incidents \cup {"torn"}
      BY <2>1, <3>1, <3>3, TornFile DEF CrashInWrite
    <3> QED  BY <3>1, <3>2, <3>3 DEF CrashInWrite
  <2>5. ASSUME NEW s \in Secrets, NEW S \in SUBSET Secrets, InjectCredential(s, S)
        PROVE  HonestFile(file') /\ HonestFile(staged') /\ HonestFile(backup'.file)
    BY <2>0, <2>1, <2>2, <2>5, OpenedHonest DEF InjectCredential
  <2>6. ASSUME NEW old \in Keys, NEW new \in Keys, RotateKey(old, new)
        PROVE  HonestFile(file') /\ HonestFile(staged') /\ HonestFile(backup'.file)
    BY <2>0, <2>1, <2>6, RotatedHolds DEF RotateKey, history
  <2>7. CASE DumpState
    BY <2>1, <2>7 DEF DumpState, disk, history
  <2>8. CASE RestoreState
    BY <2>1, <2>8, AbsentFile DEF RestoreState, Swapped, ToSwap
  <2>9. CASE CrashInRestore
    BY <2>1, <2>9, AbsentFile DEF CrashInRestore, Swapped, ToSwap
  <2>10. CASE Crash \/ (\E key \in Keys : Restart(key)) \/ UNCHANGED vars
    BY <2>1, <2>10 DEF Crash, Restart, vars, disk, history
  <2> QED  BY <2>3, <2>4, <2>5, <2>6, <2>7, <2>8, <2>9, <2>10 DEF Next
<1>3. Typed /\ Honest => KeyIdHonest
  BY DEF Honest, HonestFile, KeyIdHonest, Held
<1> QED  BY <1>1, <1>2, <1>3, AlwaysTyped, PTL DEF Spec

-----------------------------------------------------------------------------
(* The keychain after a call of the kind op.                               *)
Left(c) == IF calls[c].op = "set" THEN c ELSE NoCall

Agrees == /\ ref <=> secret # NoCall
          /\ secret = IF latest = NoCall THEN NoCall ELSE Left(latest)

Sent(c) == calls[c].at # "none" <=> calls[c].op # "none"

Alone(c) == c \in InFlight /\ calls[c].alone =>
              /\ InFlight = {c}
              /\ calls[c].at = "acted" => secret = Left(c)

Undisturbed == ~blurred /\ (\A c \in Calls : calls[c].at # "acted") => Agrees

CallsInv == /\ CallsTypeOK
            /\ \A c \in Calls : Sent(c) /\ Alone(c)
            /\ latest # NoCall => calls[latest].at = "done"
            /\ Undisturbed

(* NoCall stands for no call.                                              *)
Distinct == NoCall \notin Calls

LEMMA CallsInitTypes == CallsInit => CallsTypeOK
<1>1. Unsent \in [op : {"none", "set", "delete"}, alone : BOOLEAN,
                  at : {"none", "sent", "acted", "done", "failed"}]
  BY DEF Unsent
<1>2. ASSUME CallsInit
      PROVE  calls \in [Calls -> [op : {"none", "set", "delete"}, alone : BOOLEAN,
                                 at : {"none", "sent", "acted", "done", "failed"}]]
  <2>1. calls = [c \in Calls |-> Unsent]
    BY <1>2 DEF CallsInit
  <2> QED  BY <1>1, <2>1
<1>3. ASSUME CallsInit
      PROVE  /\ secret \in Calls \cup {NoCall} /\ latest \in Calls \cup {NoCall}
             /\ ref \in BOOLEAN /\ blurred \in BOOLEAN /\ crashes \in Nat
  BY <1>3 DEF CallsInit
<1> QED  BY <1>2, <1>3 DEF CallsTypeOK

LEMMA CallsTypeStep ==
  ASSUME CallsTypeOK, [CallsNext]_callVars PROVE CallsTypeOK'
<1> USE DEF CallsTypeOK
<1>1. ASSUME NEW c \in Calls, NEW op \in {"set", "delete"}, Send(c, op) PROVE CallsTypeOK'
  <2> DEFINE Fields == [op : {"none", "set", "delete"}, alone : BOOLEAN,
                        at : {"none", "sent", "acted", "done", "failed"}]
  <2>1. \A d \in Calls : calls[d] \in Fields
    OBVIOUS
  <2>2. [op |-> op, at |-> "sent", alone |-> InFlight = {}] \in Fields
    BY Zenon
  <2>3. \A d \in Calls :
          [calls[d] EXCEPT !.alone = calls[d].alone /\ d \notin InFlight] \in Fields
    BY <2>1
  <2>4. calls' = [d \in Calls |->
          IF d = c THEN [op |-> op, at |-> "sent", alone |-> InFlight = {}]
          ELSE [calls[d] EXCEPT !.alone = calls[d].alone /\ d \notin InFlight]]
    BY <1>1, Zenon DEF Send
  <2> HIDE DEF Fields
  <2>5. calls' \in [Calls -> Fields]
    BY <2>2, <2>3, <2>4
  <2>6. UNCHANGED <<secret, ref, latest, blurred, crashes>>
    BY <1>1 DEF Send
  <2> QED  BY <2>5, <2>6 DEF Fields
<1>2. ASSUME NEW c \in Calls, SetPassword(c) \/ DeletePassword(c) \/ KeychainFails(c)
      PROVE  CallsTypeOK'
  BY <1>2 DEF SetPassword, DeletePassword, KeychainFails, Moves
<1>3. ASSUME NEW c \in Calls, UpsertRef(c) \/ DeleteRef(c) PROVE CallsTypeOK'
  <2>1. /\ calls' = [calls EXCEPT ![c].at = "done"]
        /\ latest' = c /\ UNCHANGED <<secret, crashes>>
    BY <1>3 DEF UpsertRef, DeleteRef, Acknowledged, Moves
  <2>2. blurred' \in BOOLEAN /\ ref' \in BOOLEAN
    BY <1>3, Zenon DEF UpsertRef, DeleteRef, Acknowledged
  <2>3. calls' \in [Calls -> [op : {"none", "set", "delete"}, alone : BOOLEAN,
                             at : {"none", "sent", "acted", "done", "failed"}]]
    BY <2>1
  <2> QED  BY <2>1, <2>2, <2>3
<1>4. ASSUME CrashInCall PROVE CallsTypeOK'
  <2>1. secret' \in Calls \cup {NoCall}
    BY <1>4 DEF CrashInCall, InFlight
  <2>2. crashes' \in Nat /\ latest' \in Calls \cup {NoCall} /\ ref' \in BOOLEAN
    BY <1>4 DEF CrashInCall
  <2>3. blurred' \in BOOLEAN
    BY <1>4, Zenon DEF CrashInCall
  <2>4. calls' \in [Calls -> [op : {"none", "set", "delete"}, alone : BOOLEAN,
                             at : {"none", "sent", "acted", "done", "failed"}]]
    BY <1>4 DEF CrashInCall, InFlight
  <2> QED  BY <2>1, <2>2, <2>3, <2>4
<1>5. CASE UNCHANGED callVars
  BY <1>5 DEF callVars
<1> QED  BY <1>1, <1>2, <1>3, <1>4, <1>5 DEF CallsNext

(* A call that moves from one place to another leaves the others.          *)
LEMMA MoveEffect ==
  ASSUME CallsTypeOK, NEW c \in Calls, NEW place, Moves(c, place)
  PROVE  /\ calls'[c].at = place /\ calls'[c].op = calls[c].op
         /\ calls'[c].alone = calls[c].alone
         /\ \A d \in Calls : d # c => calls'[d] = calls[d]
  BY DEF CallsTypeOK, Moves

LEMMA CallsInvStep ==
  ASSUME Distinct, CallsInv, [CallsNext]_callVars PROVE CallsInv'
<1> USE DEF CallsInv
<1>t. CallsTypeOK'
  BY CallsTypeStep
<1> DEFINE Fields == [op : {"none", "set", "delete"}, alone : BOOLEAN,
                      at : {"none", "sent", "acted", "done", "failed"}]
<1>f. \A c \in Calls : calls[c] \in Fields
  BY DEF CallsTypeOK
<1>1. ASSUME NEW c \in Calls, NEW op \in {"set", "delete"}, Send(c, op) PROVE CallsInv'
  <2>0. calls' = [d \in Calls |->
           IF d = c THEN [op |-> op, at |-> "sent", alone |-> InFlight = {}]
           ELSE [calls[d] EXCEPT !.alone = @ /\ d \notin InFlight]]
    BY <1>1 DEF Send
  <2>a. /\ calls'[c].op = op /\ calls'[c].at = "sent"
        /\ calls'[c].alone <=> InFlight = {}
    BY <2>0
  <2>b. \A d \in Calls : d # c =>
          /\ calls'[d].op = calls[d].op /\ calls'[d].at = calls[d].at
          /\ calls'[d].alone <=> (calls[d].alone /\ d \notin InFlight)
    BY <2>0, <1>f
  <2>1. op # "none"
    BY <1>1
  <2>2. calls[c].at = "none" /\ c # latest
    BY <1>1 DEF Send, Sent, Distinct, CallsTypeOK
  <2>3. InFlight' = InFlight \cup {c}
    BY <2>a, <2>b, <2>1 DEF InFlight
  <2>4. \A d \in Calls : Sent(d)'
    BY <2>a, <2>b, <2>1 DEF Sent
  <2>5. ASSUME NEW d \in Calls PROVE Alone(d)'
    BY <2>a, <2>b, <2>1, <2>2, <2>3, <2>5 DEF Alone, InFlight
  <2>6. latest' # NoCall => calls'[latest'].at = "done"
    BY <1>1, <2>a, <2>b, <2>1, <2>2 DEF Send, CallsTypeOK
  <2>7. Undisturbed'
    BY <1>1, <2>a, <2>b, <2>1, <2>2 DEF Send, Undisturbed, Agrees, Left, CallsTypeOK
  <2> QED  BY <1>t, <2>4, <2>5, <2>6, <2>7
<1>2. ASSUME NEW c \in Calls, SetPassword(c) \/ DeletePassword(c) PROVE CallsInv'
  <2>1. calls[c].at = "sent" /\ Moves(c, "acted") /\ secret' = Left(c)
    BY <1>2 DEF SetPassword, DeletePassword, At, Left
  <2>2. /\ calls'[c].at = "acted" /\ calls'[c].op = calls[c].op
        /\ calls'[c].alone = calls[c].alone
        /\ \A d \in Calls : d # c => calls'[d] = calls[d]
    BY <2>1, MoveEffect
  <2>3. InFlight' = InFlight
    BY <2>1, <2>2 DEF InFlight
  <2>4. \A d \in Calls : Sent(d)'
    BY <2>1, <2>2 DEF Sent
  <2>5. ASSUME NEW d \in Calls PROVE Alone(d)'
    BY <2>1, <2>2, <2>3 DEF Alone, InFlight, Left
  <2>6. latest' # NoCall => calls'[latest'].at = "done"
    BY <1>2, <2>1, <2>2 DEF SetPassword, DeletePassword, CallsTypeOK
  <2>7. Undisturbed'
    BY <2>2 DEF Undisturbed
  <2> QED  BY <1>t, <2>4, <2>5, <2>6, <2>7
<1>3. ASSUME NEW c \in Calls, KeychainFails(c) PROVE CallsInv'
  <2>1. calls[c].at = "sent" /\ Moves(c, "failed")
    BY <1>3 DEF KeychainFails
  <2>2. /\ calls'[c].at = "failed" /\ calls'[c].op = calls[c].op
        /\ calls'[c].alone = calls[c].alone
        /\ \A d \in Calls : d # c => calls'[d] = calls[d]
    BY <2>1, MoveEffect
  <2>3. InFlight' = InFlight \ {c}
    BY <2>1, <2>2 DEF InFlight
  <2>4. \A d \in Calls : Sent(d)'
    BY <2>1, <2>2 DEF Sent
  <2>5. ASSUME NEW d \in Calls PROVE Alone(d)'
    BY <1>3, <2>1, <2>2, <2>3 DEF Alone, InFlight, Left, KeychainFails
  <2>6. latest' # NoCall => calls'[latest'].at = "done"
    BY <1>3, <2>1, <2>2 DEF KeychainFails, CallsTypeOK
  <2>7. Undisturbed'
    BY <1>3, <2>1, <2>2 DEF Undisturbed, Agrees, Left, KeychainFails, CallsTypeOK
  <2> QED  BY <1>t, <2>4, <2>5, <2>6, <2>7
<1>4. ASSUME NEW c \in Calls, UpsertRef(c) \/ DeleteRef(c) PROVE CallsInv'
  <2>1. /\ calls[c].at = "acted" /\ Moves(c, "done") /\ latest' = c
        /\ secret' = secret /\ blurred' = ~calls[c].alone
        /\ ref' = (calls[c].op = "set") /\ calls[c].op \in {"set", "delete"}
    BY <1>4 DEF UpsertRef, DeleteRef, Acknowledged, At
  <2>2. /\ calls'[c].at = "done" /\ calls'[c].op = calls[c].op
        /\ calls'[c].alone = calls[c].alone
        /\ \A d \in Calls : d # c => calls'[d] = calls[d]
    BY <2>1, MoveEffect
  <2>3. InFlight' = InFlight \ {c}
    BY <2>1, <2>2 DEF InFlight
  <2>4. \A d \in Calls : Sent(d)'
    BY <2>1, <2>2 DEF Sent
  <2>5. ASSUME NEW d \in Calls PROVE Alone(d)'
    BY <2>1, <2>2, <2>3 DEF Alone, InFlight, Left
  <2>6. latest' # NoCall => calls'[latest'].at = "done"
    BY <2>1, <2>2
  <2>7. Undisturbed'
    <3>1. CASE calls[c].alone
      <4>1. secret = Left(c)
        BY <3>1, <2>1 DEF Alone, InFlight
      <4> QED  BY <4>1, <2>1, <2>2 DEF Undisturbed, Agrees, Left, Distinct
    <3>2. CASE ~calls[c].alone
      BY <3>2, <2>1 DEF Undisturbed
    <3> QED  BY <3>1, <3>2
  <2> QED  BY <1>t, <2>4, <2>5, <2>6, <2>7
<1>5. ASSUME CrashInCall PROVE CallsInv'
  <2>1. \A d \in Calls :
          /\ calls'[d].op = calls[d].op
          /\ calls'[d].at = IF d \in InFlight THEN "failed" ELSE calls[d].at
    BY <1>5, <1>f DEF CrashInCall
  <2>2. InFlight' = {}
    BY <2>1 DEF InFlight
  <2>3. \A d \in Calls : Sent(d)'
    BY <2>1 DEF Sent, InFlight
  <2>4. \A d \in Calls : Alone(d)'
    BY <2>2 DEF Alone
  <2>5. latest' = latest /\ (latest # NoCall => latest \notin InFlight)
    BY <1>5 DEF CrashInCall, InFlight
  <2>6. latest' # NoCall => calls'[latest'].at = "done"
    BY <2>1, <2>5 DEF CallsTypeOK
  <2>7. Undisturbed'
    <3>1. CASE InFlight = {}
      <4>1. secret' = secret /\ ref' = ref /\ blurred' = blurred
        BY <3>1, <1>5 DEF CrashInCall, CallsTypeOK
      <4> QED  BY <3>1, <4>1, <2>1, <2>5 DEF Undisturbed, Agrees, Left, CallsTypeOK
    <3>2. CASE InFlight # {}
      BY <3>2, <1>5 DEF CrashInCall, Undisturbed
    <3> QED  BY <3>1, <3>2
  <2> QED  BY <1>t, <2>3, <2>4, <2>6, <2>7
<1>6. CASE UNCHANGED callVars
  BY <1>6, <1>t DEF callVars, Sent, Alone, Undisturbed, Agrees, Left, InFlight
<1> QED  BY <1>1, <1>2, <1>3, <1>4, <1>5, <1>6 DEF CallsNext

(* Type correctness of the model of one credential's calls.                *)
THEOREM CallsTypeCorrect == CallsSpec => []CallsTypeOK
<1>1. CallsInit => CallsTypeOK
  BY CallsInitTypes
<1>2. CallsTypeOK /\ [CallsNext]_callVars => CallsTypeOK'
  BY CallsTypeStep
<1> QED  BY <1>1, <1>2, PTL DEF CallsSpec

(* AcknowledgedHolds for any number of calls and crashes: once no call is  *)
(* under way, a call that was alone has left the secret and the reference  *)
(* as setSecret and deleteSecret answered.                                 *)
THEOREM AcknowledgedAlwaysHolds == Distinct => (CallsSpec => []AcknowledgedHolds)
<1> SUFFICES ASSUME Distinct PROVE CallsSpec => []AcknowledgedHolds
  OBVIOUS
<1>1. CallsInit => CallsInv
  <2> SUFFICES ASSUME CallsInit PROVE CallsInv
    OBVIOUS
  <2>1. CallsTypeOK
    BY CallsInitTypes
  <2> QED  BY <2>1 DEF CallsInit, CallsInv, Unsent, Sent, Alone, InFlight, Undisturbed, Agrees
<1>2. CallsInv /\ [CallsNext]_callVars => CallsInv'
  BY CallsInvStep
<1>3. CallsInv => AcknowledgedHolds
  <2> SUFFICES ASSUME CallsInv, ~blurred, InFlight = {}
               PROVE  /\ ref <=> secret # NoCall
                      /\ secret = IF latest = NoCall \/ calls[latest].op = "delete"
                                  THEN NoCall ELSE latest
    BY DEF AcknowledgedHolds
  <2>1. Agrees
    BY DEF CallsInv, Undisturbed, InFlight
  <2>2. latest # NoCall => calls[latest].op \in {"set", "delete"}
    BY DEF CallsInv, CallsTypeOK, Sent
  <2> QED  BY <2>1, <2>2 DEF Agrees, Left
<1> QED  BY <1>1, <1>2, <1>3, PTL DEF CallsSpec

-----------------------------------------------------------------------------
(* The backup's list names the vault and the audit log; "keys" marks a     *)
(* change of the vault's key file and is no service; requests are numbered.*)
BackupBounds == /\ "vault" \in Backed /\ "audit" \in Backed /\ "keys" \notin Backed
                /\ Requests \subseteq Nat

Phases == {"none", "creating", "answered", "restoring"}
Archives == [keys : Nat, live : [Backed -> Nat]]
RequestRecords == [phase : Phases, dumps : [Backed -> Nat \cup {None}],
                   dumpedKeys : Nat \cup {None}, archive : Nat, at : Nat,
                   succeeded : SUBSET Backed, alone : BOOLEAN, answer : Nat]

BackupTypes ==
  /\ edits \in Nat /\ keys \in Nat
  /\ live \in [Backed -> Nat] /\ waiting \in [Backed -> Nat \cup {None}]
  /\ archives \in Seq(Archives) /\ requests \in [Requests -> RequestRecords]
  /\ last \in Requests \cup {None} /\ parted \subseteq {"edited", "journal", "dumped", "halfway"}
  /\ disturbed \subseteq Backed \cup {"keys"}

(* The last restore to begin is the only one under way, if it began and    *)
(* stayed alone, and its archive is there.                                 *)
RestoresKnown ==
  /\ \A r \in Requests : Is(r, "none") => requests[r] = NoRequest
  /\ \A r \in Requests : Is(r, "restoring") \/ r = last => requests[r].archive \in DOMAIN archives
  /\ last # None => Is(last, "restoring") \/ Is(last, "answered")
  /\ last # None /\ requests[last].alone =>
       \A r \in Requests : Is(r, "restoring") => r = last

(* What it staged so far is held, in use or waiting.                       *)
StagedIsHeld ==
  last # None /\ requests[last].alone =>
    LET a == archives[requests[last].archive] IN
    /\ \A s \in requests[last].succeeded \ disturbed : ToHold(s) = a.live[s]
    /\ "vault" \in requests[last].succeeded /\ "keys" \notin disturbed => keys = a.keys

(* Nor does a dump under way part the vault's two files.                   *)
DumpsMatch ==
  \A r \in Requests :
    Is(r, "creating") /\ requests[r].dumps["vault"] # None =>
      /\ requests[r].dumpedKeys # None
      /\ parted = {} => requests[r].dumpedKeys = requests[r].dumps["vault"]

BackupInv == BackupTypes /\ RestoresKnown /\ StagedIsHeld /\ VaultPairMatches /\ DumpsMatch

LEMMA BackupInvInit == ASSUME BackupBounds, BackupInit PROVE BackupInv
<1>1. /\ NoRequest \in RequestRecords /\ NoStamps \in [Backed -> Nat \cup {None}]
      /\ NoRequest.phase = "none"
  BY DEF NoRequest, RequestRecords, NoStamps, Phases
<1>2. /\ edits = 0 /\ keys = 0 /\ live = [s \in Backed |-> 0] /\ waiting = NoStamps
      /\ archives = <<>> /\ requests = [r \in Requests |-> NoRequest]
      /\ last = None /\ disturbed = {} /\ parted = {}
  BY DEF BackupInit
<1>3. BackupTypes
  BY <1>1, <1>2 DEF BackupTypes
<1>4. RestoresKnown /\ StagedIsHeld /\ DumpsMatch
  BY <1>1, <1>2 DEF BackupBounds, RestoresKnown, StagedIsHeld, DumpsMatch, Is, None
<1>5. VaultPairMatches
  BY <1>2 DEF BackupBounds, VaultPairMatches, ToHold, NoStamps
<1> QED  BY <1>3, <1>4, <1>5 DEF BackupInv

(* What else happens, to the services and to the processes.                *)
LEMMA ServicesStay ==
  ASSUME BackupInv, UNCHANGED <<edits, keys, live, waiting, archives, requests, since>>
  PROVE  BackupInv'
  BY DEF since, BackupInv, BackupTypes, RestoresKnown, StagedIsHeld, VaultPairMatches,
         DumpsMatch, ToHold, Is

LEMMA ChangeStep ==
  ASSUME BackupBounds, BackupInv, NEW s \in Backed, Change(s),
         UNCHANGED <<waiting, archives, requests>>
  PROVE  BackupInv'
<1>1. /\ edits' = edits + 1 /\ live' = [live EXCEPT ![s] = edits']
      /\ keys' = IF s = "vault" THEN edits' ELSE keys
      /\ disturbed' = disturbed \cup (IF waiting[s] = None THEN {s} ELSE {})
                                 \cup (IF s = "vault" THEN {"keys"} ELSE {})
      /\ last' = last
      /\ parted' = IF s = "vault" /\ waiting[s] # None THEN parted \cup {"edited"} ELSE parted
  BY DEF Change
<1>2. BackupTypes'
  BY <1>1 DEF BackupInv, BackupTypes
<1>3. RestoresKnown'
  BY <1>1 DEF BackupInv, RestoresKnown, Is
<1>4. \A t \in Backed : t \notin disturbed' => t \notin disturbed /\ ToHold(t)' = ToHold(t)
  BY <1>1 DEF BackupInv, BackupTypes, ToHold
<1>5. "keys" \notin disturbed' => "keys" \notin disturbed /\ keys' = keys
  BY <1>1
<1>6. StagedIsHeld'
  BY <1>1, <1>4, <1>5 DEF BackupInv, BackupTypes, RequestRecords, StagedIsHeld
<1>7. VaultPairMatches'
  <2> SUFFICES ASSUME parted' = {} PROVE (keys = ToHold("vault"))'
    BY <1>1 DEF BackupInv, VaultPairMatches
  <2>1. parted = {} /\ keys = ToHold("vault")
    BY <1>1 DEF BackupInv, VaultPairMatches
  <2>2. CASE s = "vault"
    BY <1>1, <2>2 DEF BackupInv, BackupTypes, ToHold
  <2>3. CASE s # "vault"
    BY <1>1, <2>1, <2>3 DEF BackupBounds, BackupInv, BackupTypes, ToHold
  <2> QED  BY <2>2, <2>3
<1>8. DumpsMatch'
  BY <1>1 DEF BackupInv, DumpsMatch, Is
<1> QED  BY <1>2, <1>3, <1>6, <1>7, <1>8 DEF BackupInv

LEMMA StartStep ==
  ASSUME BackupBounds, BackupInv, NEW s \in Backed, Start(s) PROVE BackupInv'
<1>1. /\ waiting' = [waiting EXCEPT ![s] = None]
      /\ UNCHANGED <<edits, keys, archives, requests, last>>
      /\ \/ /\ live' = IF waiting[s] = None THEN live ELSE [live EXCEPT ![s] = waiting[s]]
            /\ UNCHANGED <<disturbed, parted>>
         \/ /\ disturbed' = disturbed \cup {s}
            /\ parted' = parted \cup (IF s = "vault" THEN {"journal"} ELSE {})
            /\ UNCHANGED live
  BY DEF Start
<1>2. BackupTypes'
  BY <1>1 DEF BackupInv, BackupTypes
<1>3. RestoresKnown' /\ DumpsMatch'
  BY <1>1 DEF BackupInv, RestoresKnown, DumpsMatch, Is
<1>4. \A t \in Backed :
        t # s \/ live' = (IF waiting[s] = None THEN live ELSE [live EXCEPT ![s] = waiting[s]])
          => ToHold(t)' = ToHold(t)
  <2> SUFFICES ASSUME NEW t \in Backed,
                      \/ t # s
                      \/ live' = IF waiting[s] = None THEN live
                                 ELSE [live EXCEPT ![s] = waiting[s]]
               PROVE  ToHold(t)' = ToHold(t)
    OBVIOUS
  <2>1. waiting'[t] = IF t = s THEN None ELSE waiting[t]
    BY <1>1 DEF BackupInv, BackupTypes
  <2>2. t # s => live'[t] = live[t]
    BY <1>1 DEF BackupInv, BackupTypes
  <2>3. t = s => live'[t] = IF waiting[t] = None THEN live[t] ELSE waiting[t]
    BY DEF BackupInv, BackupTypes
  <2> QED  BY <2>1, <2>2, <2>3 DEF ToHold
<1>5. \A t \in Backed : t \notin disturbed' => t \notin disturbed /\ ToHold(t)' = ToHold(t)
  <2>1. disturbed \subseteq disturbed'
    BY <1>1
  <2>2. s \in disturbed' \/ live' = IF waiting[s] = None THEN live
                                    ELSE [live EXCEPT ![s] = waiting[s]]
    BY <1>1
  <2> QED  BY <1>4, <2>1, <2>2
<1>6. StagedIsHeld'
  BY <1>1, <1>5 DEF BackupInv, BackupTypes, RequestRecords, StagedIsHeld
<1>7. parted' = {} => parted = {} /\ ToHold("vault")' = ToHold("vault")
  <2>1. parted \subseteq parted'
    BY <1>1
  <2>2. \/ s = "vault" /\ parted' # {}
        \/ s # "vault"
        \/ live' = IF waiting[s] = None THEN live ELSE [live EXCEPT ![s] = waiting[s]]
    BY <1>1
  <2> QED  BY <1>4, <2>1, <2>2 DEF BackupBounds
<1>8. VaultPairMatches'
  BY <1>1, <1>7 DEF BackupInv, VaultPairMatches
<1> QED  BY <1>2, <1>3, <1>6, <1>8 DEF BackupInv

-----------------------------------------------------------------------------
(* A backup is no restore: what it does to its request leaves what is said *)
(* of restores alone.                                                      *)
LEMMA BackupRequestStep ==
  ASSUME BackupInv, NEW r \in Requests, r # last, NEW rec \in RequestRecords,
         rec.phase \in {"creating", "answered"}, requests' = [requests EXCEPT ![r] = rec],
         archives' \in Seq(Archives), Len(archives) <= Len(archives'),
         \A a \in DOMAIN archives : archives'[a] = archives[a],
         UNCHANGED <<edits, keys, live, waiting, last, disturbed>>,
         parted' \subseteq {"edited", "journal", "dumped", "halfway"}
  PROVE  BackupTypes' /\ RestoresKnown' /\ StagedIsHeld'
<1>1. BackupTypes'
  BY DEF BackupInv, BackupTypes
<1>2. /\ requests'[r] = rec /\ \A q \in Requests : q # r => requests'[q] = requests[q]
      /\ DOMAIN archives \subseteq DOMAIN archives'
      /\ last # None => last \in Requests /\ requests'[last] = requests[last]
  BY DEF BackupInv, BackupTypes
<1>3. RestoresKnown'
  <2>1. \A q \in Requests : (Is(q, "none") => requests[q] = NoRequest)'
    BY <1>2 DEF BackupInv, RestoresKnown, Is
  <2>2. \A q \in Requests : (Is(q, "restoring") \/ q = last => requests[q].archive \in DOMAIN archives)'
    BY <1>2 DEF BackupInv, RestoresKnown, Is
  <2>3. (last # None => Is(last, "restoring") \/ Is(last, "answered"))'
    BY <1>2 DEF BackupInv, RestoresKnown, Is
  <2>4. (last # None /\ requests[last].alone =>
           \A q \in Requests : Is(q, "restoring") => q = last)'
    BY <1>2 DEF BackupInv, RestoresKnown, Is
  <2> QED  BY <2>1, <2>2, <2>3, <2>4 DEF RestoresKnown
<1>4. StagedIsHeld'
  BY <1>2 DEF BackupInv, RestoresKnown, StagedIsHeld, ToHold
<1> QED  BY <1>1, <1>3, <1>4

LEMMA AnsweredRecord ==
  ASSUME NEW old \in RequestRecords, NEW n \in Nat
  PROVE  LET rec == [old EXCEPT !.phase = "answered", !.answer = n] IN
         /\ rec \in RequestRecords /\ rec.phase = "answered" /\ rec.dumps = old.dumps
         /\ rec.alone = old.alone /\ rec.archive = old.archive /\ rec.succeeded = old.succeeded
  BY DEF RequestRecords, Phases

Begun(old, a, others) ==
  [old EXCEPT !.phase = "restoring", !.archive = a, !.at = 1, !.alone = others = {}]

LEMMA BegunRecord ==
  ASSUME NEW old \in RequestRecords, NEW a \in Nat, NEW others
  PROVE  /\ Begun(old, a, others) \in RequestRecords
         /\ Begun(old, a, others).phase = "restoring" /\ Begun(old, a, others).archive = a
         /\ Begun(old, a, others).succeeded = old.succeeded
         /\ Begun(old, a, others).alone = (others = {})
  BY DEF Begun, RequestRecords, Phases

LEMMA CreateSteps ==
  ASSUME BackupBounds, BackupInv, NEW r \in Requests,
         Create(r) \/ DumpFails(r) \/ Refuse(r)
  PROVE  BackupInv'
<1>1. /\ UNCHANGED <<edits, keys, live, waiting, archives, last, disturbed, parted>>
      /\ requests[r].phase \in {"none", "creating"}
  BY DEF Create, DumpFails, Refuse, services, since, Comes, Is
<1>2. r # last
  BY <1>1 DEF BackupInv, BackupTypes, RestoresKnown, Is, BackupBounds, None
<1>3. requests[r] \in RequestRecords /\ requests \in [Requests -> RequestRecords]
  BY DEF BackupInv, BackupTypes
<1>4. NoRequest \in RequestRecords /\ NoRequest = [phase |-> "none", dumps |-> NoStamps,
        dumpedKeys |-> None, archive |-> 0, at |-> 0, succeeded |-> {}, alone |-> TRUE,
        answer |-> 0] /\ NoStamps["vault"] = None
  BY DEF BackupBounds, NoRequest, RequestRecords, NoStamps, Phases
<1>5. PICK rec \in RequestRecords :
        /\ requests' = [requests EXCEPT ![r] = rec]
        /\ rec.phase \in {"creating", "answered"} /\ rec.dumps["vault"] = None
  <2>1. CASE Create(r)
    <3>1. requests[r] = NoRequest
      BY <2>1 DEF Create, Comes, BackupInv, RestoresKnown
    <3>2. /\ [NoRequest EXCEPT !.phase = "creating"] \in RequestRecords
          /\ [NoRequest EXCEPT !.phase = "creating"].phase = "creating"
          /\ [NoRequest EXCEPT !.phase = "creating"].dumps = NoStamps
      BY <1>4 DEF RequestRecords, Phases
    <3>3. requests' = [requests EXCEPT ![r] = [NoRequest EXCEPT !.phase = "creating"]]
      BY <1>3, <2>1, <3>1 DEF Create
    <3> QED  BY <1>4, <3>2, <3>3
  <2>2. CASE DumpFails(r) \/ Refuse(r)
    <3>1. PICK code \in Nat : requests' =
            [requests EXCEPT ![r] = [NoRequest EXCEPT !.phase = "answered", !.answer = code]]
      <4>1. CASE DumpFails(r)
        <5>1. PICK c \in Nat : c = 502
          OBVIOUS
        <5>2. requests' = [requests EXCEPT ![r] = [NoRequest EXCEPT !.phase = "answered",
                                                                    !.answer = c]]
          BY <4>1, <5>1, Zenon DEF DumpFails
        <5> QED  BY <5>2
      <4>2. CASE Refuse(r)
        <5>1. requests[r] = NoRequest
          BY <4>2 DEF Refuse, Comes, BackupInv, RestoresKnown
        <5>2. PICK c \in Nat : c = 400
          OBVIOUS
        <5>3. requests' = [requests EXCEPT ![r] = [requests[r] EXCEPT !.phase = "answered",
                                                                      !.answer = c]]
          BY <1>3, <4>2, <5>2 DEF Refuse
        <5> QED  BY <5>1, <5>3
      <4> QED  BY <2>2, <4>1, <4>2
    <3>2. LET rec == [NoRequest EXCEPT !.phase = "answered", !.answer = code] IN
          /\ rec \in RequestRecords /\ rec.phase = "answered" /\ rec.dumps = NoRequest.dumps
      BY <1>4, AnsweredRecord
    <3>3. NoRequest.dumps["vault"] = None
      BY <1>4
    <3> QED  BY <3>1, <3>2, <3>3
  <2> QED  BY <2>1, <2>2
<1>6. BackupTypes' /\ RestoresKnown' /\ StagedIsHeld'
  <2>1. archives' \in Seq(Archives) /\ archives' = archives /\ parted' = parted
    BY <1>1 DEF BackupInv, BackupTypes
  <2>2. parted' \subseteq {"edited", "journal", "dumped", "halfway"}
    BY <2>1 DEF BackupInv, BackupTypes
  <2>3. /\ Len(archives) <= Len(archives')
        /\ \A a \in DOMAIN archives : archives'[a] = archives[a]
    BY <2>1 DEF BackupInv, BackupTypes
  <2> QED  BY <1>1, <1>2, <1>5, <2>1, <2>2, <2>3, BackupRequestStep
<1>7. VaultPairMatches'
  BY <1>1 DEF BackupInv, VaultPairMatches, ToHold
<1>8. DumpsMatch'
  BY <1>1, <1>3, <1>5 DEF BackupInv, DumpsMatch, Is
<1> QED  BY <1>6, <1>7, <1>8 DEF BackupInv

LEMMA DumpStep ==
  ASSUME BackupBounds, BackupInv, NEW r \in Requests, NEW s \in Backed, Dump(r, s)
  PROVE  BackupInv'
<1>1. /\ UNCHANGED <<edits, keys, live, waiting, archives, last, disturbed>>
      /\ parted' = IF s = "vault" /\ waiting[s] # None THEN parted \cup {"dumped"} ELSE parted
      /\ requests[r].phase = "creating"
      /\ requests' = [requests EXCEPT ![r].dumps[s] = live[s],
                                      ![r].dumpedKeys = IF s = "vault" THEN keys ELSE @]
  BY DEF Dump, services, Is
<1>2. r # last
  BY <1>1 DEF BackupInv, BackupTypes, RestoresKnown, Is, BackupBounds, None
<1>3. /\ requests[r] \in RequestRecords /\ requests \in [Requests -> RequestRecords]
      /\ live[s] \in Nat /\ keys \in Nat
  BY DEF BackupInv, BackupTypes
<1>4. PICK rec \in RequestRecords :
        /\ requests' = [requests EXCEPT ![r] = rec]
        /\ rec.phase = "creating"
        /\ rec.dumps = [requests[r].dumps EXCEPT ![s] = live[s]]
        /\ rec.dumpedKeys = IF s = "vault" THEN keys ELSE requests[r].dumpedKeys
  <2>1. PICK old \in RequestRecords : old = requests[r]
    BY <1>3
  <2>2. PICK ks \in Nat \cup {None} : ks = IF s = "vault" THEN keys ELSE old.dumpedKeys
    BY <1>3 DEF RequestRecords
  <2>3. PICK ds \in [Backed -> Nat \cup {None}] : ds = [old.dumps EXCEPT ![s] = live[s]]
    BY <1>3 DEF RequestRecords
  <2>4. LET rec == [old EXCEPT !.dumps = ds, !.dumpedKeys = ks] IN
        /\ rec \in RequestRecords /\ rec.phase = old.phase
        /\ rec.dumps = ds /\ rec.dumpedKeys = ks
    BY DEF RequestRecords
  <2>5. requests' = [requests EXCEPT ![r] = [old EXCEPT !.dumps = ds, !.dumpedKeys = ks]]
    BY <1>1, <1>3, <2>1, <2>2, <2>3
  <2> QED  BY <1>1, <2>1, <2>2, <2>3, <2>4, <2>5
<1>5. BackupTypes' /\ RestoresKnown' /\ StagedIsHeld'
  <2>1. archives' \in Seq(Archives) /\ archives' = archives
    BY <1>1 DEF BackupInv, BackupTypes
  <2>2. parted' \subseteq {"edited", "journal", "dumped", "halfway"}
    BY <1>1 DEF BackupInv, BackupTypes
  <2>3. /\ Len(archives) <= Len(archives')
        /\ \A a \in DOMAIN archives : archives'[a] = archives[a]
    BY <2>1 DEF BackupInv, BackupTypes
  <2> QED  BY <1>1, <1>2, <1>4, <2>1, <2>2, <2>3, BackupRequestStep
<1>6. VaultPairMatches'
  BY <1>1 DEF BackupInv, VaultPairMatches, ToHold
<1>7. DumpsMatch'
  <2> SUFFICES ASSUME NEW q \in Requests, requests'[q].phase = "creating",
                      requests'[q].dumps["vault"] # None
               PROVE  /\ requests'[q].dumpedKeys # None
                      /\ parted' = {} => requests'[q].dumpedKeys = requests'[q].dumps["vault"]
    BY DEF DumpsMatch, Is
  <2>1. parted' = {} => parted = {}
    BY <1>1
  <2>2. CASE q # r
    BY <1>3, <1>4, <2>1, <2>2 DEF BackupInv, DumpsMatch, Is
  <2>3. CASE q = r /\ s # "vault"
    <3>1. rec.dumps["vault"] = requests[r].dumps["vault"] /\ requests'[r] = rec
      BY <1>3, <1>4, <2>3 DEF RequestRecords, BackupBounds
    <3> QED  BY <1>1, <1>4, <2>1, <2>3, <3>1 DEF BackupInv, DumpsMatch, Is
  <2>4. CASE q = r /\ s = "vault"
    <3>1. /\ rec.dumps["vault"] = live["vault"] /\ rec.dumpedKeys = keys /\ requests'[r] = rec
          /\ None \notin Nat
      BY <1>3, <1>4, <2>4 DEF RequestRecords, BackupBounds, None
    <3>2. parted' = {} => keys = live["vault"]
      BY <1>1, <2>1, <2>4 DEF BackupInv, VaultPairMatches, ToHold
    <3> QED  BY <1>3, <2>4, <3>1, <3>2
  <2> QED  BY <2>2, <2>3, <2>4
<1> QED  BY <1>5, <1>6, <1>7 DEF BackupInv

LEMMA CreatedStep ==
  ASSUME BackupBounds, BackupInv, NEW r \in Requests, Created(r) PROVE BackupInv'
<1>1. PICK new : /\ new = [keys |-> requests[r].dumpedKeys, live |-> requests[r].dumps]
                 /\ archives' = Append(archives, new)
  BY DEF Created
<1>2. /\ UNCHANGED <<edits, keys, live, waiting, last, disturbed, parted>>
      /\ requests[r].phase = "creating"
      /\ \A s \in Backed : requests[r].dumps[s] # None
  BY DEF Created, services, since, Is
<1>3. r # last
  BY <1>2 DEF BackupInv, BackupTypes, RestoresKnown, Is, BackupBounds, None
<1>4. /\ requests[r] \in RequestRecords /\ archives \in Seq(Archives)
      /\ parted \subseteq {"edited", "journal", "dumped", "halfway"}
  BY DEF BackupInv, BackupTypes
<1>5. /\ new \in Archives
      /\ parted = {} => new.keys = new.live["vault"]
  <2>1. requests[r].dumps \in [Backed -> Nat]
    BY <1>2, <1>4 DEF RequestRecords
  <2>2. /\ requests[r].dumpedKeys \in Nat
        /\ parted = {} => requests[r].dumpedKeys = requests[r].dumps["vault"]
    BY <1>2, <1>4 DEF BackupInv, DumpsMatch, Is, RequestRecords, BackupBounds
  <2> QED  BY <1>1, <2>1, <2>2 DEF Archives
<1>6. /\ archives' \in Seq(Archives) /\ Len(archives') = Len(archives) + 1
      /\ Len(archives) \in Nat
      /\ \A a \in DOMAIN archives : archives'[a] = archives[a]
      /\ \A a \in DOMAIN archives' : a \in DOMAIN archives \/ archives'[a] = new
  BY <1>1, <1>4, <1>5, AppendProperties
<1>7. PICK code \in Nat : code = 200
  OBVIOUS
<1>8. requests' = [requests EXCEPT ![r] = [NoRequest EXCEPT !.phase = "answered", !.answer = code]]
  BY <1>7, Zenon DEF Created
<1>9. PICK rec \in RequestRecords : /\ requests' = [requests EXCEPT ![r] = rec]
                                    /\ rec.phase = "answered"
  <2>1. NoRequest \in RequestRecords
    BY DEF NoRequest, RequestRecords, NoStamps, Phases
  <2>2. LET rec == [NoRequest EXCEPT !.phase = "answered", !.answer = code] IN
        rec \in RequestRecords /\ rec.phase = "answered"
    BY <2>1, AnsweredRecord
  <2> QED  BY <1>8, <2>2
<1>10. BackupTypes' /\ RestoresKnown' /\ StagedIsHeld'
  <2>1. Len(archives) <= Len(archives')
    BY <1>6
  <2> QED  BY <1>2, <1>3, <1>4, <1>6, <1>9, <2>1, BackupRequestStep
<1>11. VaultPairMatches'
  BY <1>2, <1>5, <1>6 DEF BackupInv, VaultPairMatches, ToHold
<1>12. DumpsMatch'
  BY <1>2, <1>9 DEF BackupInv, BackupTypes, DumpsMatch, Is
<1> QED  BY <1>10, <1>11, <1>12 DEF BackupInv

-----------------------------------------------------------------------------
(* A restore begins, alone or not: the last one, with nothing staged yet.  *)
LEMMA RestoreStep ==
  ASSUME BackupBounds, BackupInv, NEW r \in Requests, NEW a \in DOMAIN archives, Restore(r, a)
  PROVE  BackupInv'
<1>1. /\ UNCHANGED <<edits, keys, live, waiting, archives, parted>>
      /\ last' = r /\ disturbed' = {}
      /\ archives \in Seq(Archives) /\ requests \in [Requests -> RequestRecords]
      /\ last \in Requests \cup {None} /\ None \notin Requests
  <2>1. UNCHANGED <<edits, keys, live, waiting, archives, parted>> /\ last' = r /\ disturbed' = {}
    BY DEF Restore, services
  <2>2. /\ archives \in Seq(Archives) /\ requests \in [Requests -> RequestRecords]
        /\ last \in Requests \cup {None}
    BY DEF BackupInv, BackupTypes
  <2>3. None \notin Requests
    BY DEF BackupBounds, None
  <2> QED  BY <2>1, <2>2, <2>3
<1>2. PICK first \in RequestRecords :
        /\ requests' = [q \in Requests |-> IF q = r THEN first
                                           ELSE IF q \in Restoring
                                                THEN [requests[q] EXCEPT !.alone = FALSE]
                                                ELSE requests[q]]
        /\ first.phase = "restoring" /\ first.archive = a /\ first.succeeded = {}
        /\ first.alone = (Restoring = {})
  <2>1. NoRequest \in RequestRecords /\ NoRequest.succeeded = {}
    BY DEF NoRequest, RequestRecords, NoStamps, Phases
  <2>2. a \in Nat
    BY <1>1
  <2>3. PICK rec : rec = Begun(NoRequest, a, Restoring)
    OBVIOUS
  <2>4. /\ rec \in RequestRecords /\ rec.phase = "restoring" /\ rec.archive = a
        /\ rec.succeeded = NoRequest.succeeded /\ rec.alone = (Restoring = {})
    BY <2>1, <2>2, <2>3, BegunRecord
  <2>5. requests' = [q \in Requests |->
          IF q = r THEN rec
          ELSE IF q \in Restoring THEN [requests[q] EXCEPT !.alone = FALSE]
          ELSE requests[q]]
    BY <2>3, Zenon DEF Restore, Begun
  <2> QED  BY <2>1, <2>4, <2>5
<1>3. \A q \in Restoring :
        /\ [requests[q] EXCEPT !.alone = FALSE] \in RequestRecords
        /\ [requests[q] EXCEPT !.alone = FALSE].phase = "restoring"
        /\ [requests[q] EXCEPT !.alone = FALSE].archive = requests[q].archive
  BY <1>1 DEF Restoring, Is, RequestRecords, Phases
<1>4. /\ requests'[r] = first
      /\ \A q \in Requests : q # r /\ q \notin Restoring => requests'[q] = requests[q]
      /\ \A q \in Requests : q # r /\ q \in Restoring =>
           requests'[q].phase = "restoring" /\ requests'[q].archive = requests[q].archive
  BY <1>2, <1>3
<1>5. BackupTypes'
  <2>1. requests' \in [Requests -> RequestRecords]
    BY <1>1, <1>2, <1>3 DEF Restoring
  <2> QED  BY <1>1, <2>1 DEF BackupInv, BackupTypes
<1>6. RestoresKnown'
  <2>1. \A q \in Requests : (Is(q, "none") => requests[q] = NoRequest)'
    BY <1>2, <1>4 DEF BackupInv, RestoresKnown, Is
  <2>2. \A q \in Requests : (Is(q, "restoring") \/ q = last => requests[q].archive \in DOMAIN archives)'
    BY <1>1, <1>2, <1>4 DEF BackupInv, RestoresKnown, Is, Restoring
  <2>3. Is(last, "restoring")'
    BY <1>1, <1>2, <1>4 DEF Is
  <2>4. (requests[last].alone => \A q \in Requests : Is(q, "restoring") => q = last)'
    BY <1>1, <1>2, <1>4 DEF Is, Restoring
  <2> QED  BY <2>1, <2>2, <2>3, <2>4 DEF RestoresKnown
<1>7. StagedIsHeld'
  BY <1>1, <1>2, <1>4 DEF StagedIsHeld
<1>8. VaultPairMatches'
  BY <1>1 DEF BackupInv, VaultPairMatches, ToHold
<1>9. DumpsMatch'
  BY <1>1, <1>2, <1>4 DEF BackupInv, DumpsMatch, Is
<1> QED  BY <1>5, <1>6, <1>7, <1>8, <1>9 DEF BackupInv

(* A restore goes on, or is answered: its archive stays, and it is no more *)
(* or less alone.                                                          *)
LEMMA RestoringStep ==
  ASSUME BackupInv, NEW r \in Requests, requests[r].phase = "restoring",
         NEW rec \in RequestRecords, requests' = [requests EXCEPT ![r] = rec],
         rec.phase \in {"restoring", "answered"}, rec.archive = requests[r].archive,
         rec.alone = requests[r].alone, UNCHANGED <<archives, last>>,
         parted \subseteq parted'
  PROVE  requests' \in [Requests -> RequestRecords] /\ RestoresKnown' /\ DumpsMatch'
<1>1. /\ requests'[r] = rec /\ \A q \in Requests : q # r => requests'[q] = requests[q]
      /\ requests' \in [Requests -> RequestRecords]
  BY DEF BackupInv, BackupTypes
<1>2. RestoresKnown'
  <2>1. \A q \in Requests : (Is(q, "none") => requests[q] = NoRequest)'
    BY <1>1 DEF BackupInv, RestoresKnown, Is
  <2>2. \A q \in Requests : (Is(q, "restoring") \/ q = last => requests[q].archive \in DOMAIN archives)'
    BY <1>1 DEF BackupInv, RestoresKnown, Is
  <2>3. (last # None => Is(last, "restoring") \/ Is(last, "answered"))'
    BY <1>1 DEF BackupInv, BackupTypes, RestoresKnown, Is
  <2>4. (last # None /\ requests[last].alone =>
           \A q \in Requests : Is(q, "restoring") => q = last)'
    BY <1>1 DEF BackupInv, BackupTypes, RestoresKnown, Is
  <2> QED  BY <2>1, <2>2, <2>3, <2>4 DEF RestoresKnown
<1>3. DumpsMatch'
  <2>1. parted' = {} => parted = {}
    OBVIOUS
  <2> QED  BY <1>1, <2>1 DEF BackupInv, DumpsMatch, Is
<1> QED  BY <1>1, <1>2, <1>3

LEMMA RestoredStep ==
  ASSUME BackupInv, NEW r \in Requests, Restored(r) PROVE BackupInv'
<1>1. /\ UNCHANGED <<edits, keys, live, waiting, archives, last, disturbed, parted>>
      /\ requests[r].phase = "restoring" /\ requests[r] \in RequestRecords
      /\ requests \in [Requests -> RequestRecords]
  BY DEF Restored, services, since, Is, BackupInv, BackupTypes
<1>2. PICK code \in Nat : code = IF requests[r].succeeded = Backed THEN 200 ELSE 207
  OBVIOUS
<1>3. PICK rec \in RequestRecords :
        /\ requests' = [requests EXCEPT ![r] = rec] /\ rec.phase = "answered"
        /\ rec.archive = requests[r].archive /\ rec.alone = requests[r].alone
        /\ rec.succeeded = requests[r].succeeded
  <2>1. requests' = [requests EXCEPT ![r] = [requests[r] EXCEPT !.phase = "answered",
                                                                !.answer = code]]
    BY <1>1, <1>2 DEF Restored
  <2>2. LET rec == [requests[r] EXCEPT !.phase = "answered", !.answer = code] IN
        /\ rec \in RequestRecords /\ rec.phase = "answered"
        /\ rec.alone = requests[r].alone /\ rec.archive = requests[r].archive
        /\ rec.succeeded = requests[r].succeeded
    BY <1>1, AnsweredRecord
  <2> QED  BY <2>1, <2>2
<1>4. requests' \in [Requests -> RequestRecords] /\ RestoresKnown' /\ DumpsMatch'
  BY <1>1, <1>3, RestoringStep
<1>5. BackupTypes'
  BY <1>1, <1>4 DEF BackupInv, BackupTypes
<1>6. StagedIsHeld'
  BY <1>1, <1>3 DEF BackupInv, BackupTypes, StagedIsHeld, ToHold
<1>7. VaultPairMatches'
  BY <1>1 DEF BackupInv, VaultPairMatches, ToHold
<1> QED  BY <1>4, <1>5, <1>6, <1>7 DEF BackupInv

(* The service whose turn it is: what is staged in it is the archive's.    *)
LEMMA StagedMatches ==
  ASSUME BackupBounds, BackupInv, NEW r \in Requests, requests[r].phase = "restoring",
         NEW s \in Backed, Staged(r, s), UNCHANGED <<live, archives>>
  PROVE  /\ keys' \in Nat /\ waiting' \in [Backed -> Nat \cup {None}]
         /\ ToHold(s)' = archives[requests[r].archive].live[s]
         /\ \A t \in Backed : t # s => ToHold(t)' = ToHold(t)
         /\ keys' = IF s = "vault" THEN archives[requests[r].archive].keys ELSE keys
         /\ VaultPairMatches /\ parted = {} => (keys = ToHold("vault"))'
<1>1. /\ archives[requests[r].archive] \in Archives
      /\ parted = {} /\ VaultPairMatches => archives[requests[r].archive].keys
                                            = archives[requests[r].archive].live["vault"]
  BY DEF BackupInv, BackupTypes, RestoresKnown, Is, VaultPairMatches
<1>2. PICK a : a = archives[requests[r].archive]
  OBVIOUS
<1>3. /\ waiting' = [waiting EXCEPT ![s] = a.live[s]]
      /\ keys' = IF s = "vault" THEN a.keys ELSE keys
  BY <1>2 DEF Staged
<1>4. /\ a.live[s] \in Nat /\ a.keys \in Nat /\ keys \in Nat /\ a.live[s] # None
      /\ live' = live /\ waiting \in [Backed -> Nat \cup {None}]
  BY <1>1, <1>2 DEF Archives, None, BackupInv, BackupTypes
<1>5. keys' \in Nat /\ waiting' \in [Backed -> Nat \cup {None}]
  BY <1>3, <1>4
<1>6. /\ ToHold(s)' = a.live[s]
      /\ \A t \in Backed : t # s => ToHold(t)' = ToHold(t)
  BY <1>3, <1>4 DEF ToHold
<1>7. VaultPairMatches /\ parted = {} => keys' = ToHold("vault")'
  <2>1. CASE s = "vault"
    BY <1>1, <1>2, <1>3, <1>6, <2>1
  <2>2. CASE s # "vault"
    <3>1. ToHold("vault")' = ToHold("vault") /\ keys' = keys
      BY <1>3, <1>6, <2>2 DEF BackupBounds
    <3> QED  BY <3>1 DEF VaultPairMatches
  <2> QED  BY <2>1, <2>2
<1> QED  BY <1>2, <1>3, <1>5, <1>6, <1>7

LEMMA RestoreServiceStep ==
  ASSUME BackupBounds, BackupInv, NEW r \in Requests, RestoreService(r) PROVE BackupInv'
<1>1. PICK s : s = Order[requests[r].at]
  OBVIOUS
<1>2. /\ UNCHANGED <<edits, live, archives, last, parted>>
      /\ requests[r].phase = "restoring" /\ requests[r].at \in DOMAIN Order
      /\ Staged(r, s)
      /\ requests' = [requests EXCEPT ![r].at = @ + 1, ![r].succeeded = @ \cup {s}]
      /\ disturbed' = disturbed \ (IF s = "vault" THEN {s, "keys"} ELSE {s})
  BY <1>1 DEF RestoreService, Is
<1>3. /\ s \in Backed /\ requests[r] \in RequestRecords
      /\ requests \in [Requests -> RequestRecords] /\ s # "keys"
  BY <1>1, <1>2 DEF Backed, BackupBounds, BackupInv, BackupTypes
<1>4. PICK rec \in RequestRecords :
        /\ requests' = [requests EXCEPT ![r] = rec] /\ rec.phase = "restoring"
        /\ rec.archive = requests[r].archive /\ rec.alone = requests[r].alone
        /\ rec.succeeded = requests[r].succeeded \cup {s}
  <2>1. PICK old \in RequestRecords : old = requests[r]
    BY <1>3
  <2>2. PICK n \in Nat : n = old.at + 1
    BY DEF RequestRecords
  <2>3. PICK done \in SUBSET Backed : done = old.succeeded \cup {s}
    BY <1>3 DEF RequestRecords
  <2>4. LET rec == [old EXCEPT !.at = n, !.succeeded = done] IN
        /\ rec \in RequestRecords /\ rec.phase = old.phase /\ rec.archive = old.archive
        /\ rec.alone = old.alone /\ rec.succeeded = done
    BY DEF RequestRecords
  <2>5. requests' = [requests EXCEPT ![r] = [old EXCEPT !.at = n, !.succeeded = done]]
    BY <1>2, <1>3, <2>1, <2>2, <2>3
  <2> QED  BY <1>2, <2>1, <2>3, <2>4, <2>5
<1>5. requests' \in [Requests -> RequestRecords] /\ RestoresKnown' /\ DumpsMatch'
  BY <1>2, <1>4, RestoringStep
<1>6. /\ keys' \in Nat /\ waiting' \in [Backed -> Nat \cup {None}]
      /\ ToHold(s)' = archives[requests[r].archive].live[s]
      /\ \A t \in Backed : t # s => ToHold(t)' = ToHold(t)
      /\ keys' = IF s = "vault" THEN archives[requests[r].archive].keys ELSE keys
      /\ VaultPairMatches /\ parted = {} => (keys = ToHold("vault"))'
  BY <1>2, <1>3, StagedMatches
<1>7. BackupTypes'
  BY <1>2, <1>5, <1>6 DEF BackupInv, BackupTypes
<1>8. StagedIsHeld'
  <2> SUFFICES ASSUME last # None, requests'[last].alone
               PROVE  LET a == archives[requests'[last].archive] IN
                      /\ \A t \in requests'[last].succeeded \ disturbed' : ToHold(t)' = a.live[t]
                      /\ "vault" \in requests'[last].succeeded /\ "keys" \notin disturbed'
                           => keys' = a.keys
    BY <1>2 DEF StagedIsHeld
  <2>1. last = r
    BY <1>2, <1>3, <1>4 DEF BackupInv, BackupTypes, RestoresKnown, Is
  <2>2. requests[r].alone /\ requests'[r] = rec
    BY <1>3, <1>4, <2>1
  <2>3. \A t \in rec.succeeded \ disturbed' :
          ToHold(t)' = archives[requests[r].archive].live[t]
    <3> SUFFICES ASSUME NEW t \in rec.succeeded \ disturbed', t # s
                 PROVE  ToHold(t)' = archives[requests[r].archive].live[t]
      BY <1>6
    <3>1. t \in requests[r].succeeded /\ t \in Backed /\ t # "keys"
      BY <1>3, <1>4 DEF RequestRecords, BackupBounds
    <3>2. t \notin disturbed
      BY <1>2, <3>1
    <3> QED  BY <1>6, <2>1, <2>2, <3>1, <3>2 DEF BackupInv, StagedIsHeld
  <2>4. "vault" \in rec.succeeded /\ "keys" \notin disturbed'
          => keys' = archives[requests[r].archive].keys
    BY <1>2, <1>3, <1>4, <1>6, <2>1, <2>2 DEF BackupInv, StagedIsHeld
  <2> QED  BY <1>4, <2>1, <2>2, <2>3, <2>4
<1>9. VaultPairMatches'
  BY <1>2, <1>6 DEF BackupInv, VaultPairMatches
<1> QED  BY <1>5, <1>7, <1>8, <1>9 DEF BackupInv

(* A failure leaves each service it had named as it was, or stages in it   *)
(* once more what the same archive holds.                                  *)
LEMMA RestoreServiceFailsStep ==
  ASSUME BackupBounds, BackupInv, NEW r \in Requests, RestoreServiceFails(r) PROVE BackupInv'
<1>1. PICK s : s = Order[requests[r].at]
  OBVIOUS
<1>2. /\ UNCHANGED <<edits, live, archives, last, disturbed>>
      /\ requests[r].phase = "restoring" /\ requests[r].at \in DOMAIN Order
      /\ requests' = [requests EXCEPT ![r].at = @ + 1]
      /\ \/ UNCHANGED <<keys, waiting, parted>>
         \/ Staged(r, s) /\ UNCHANGED parted
         \/ /\ s = "vault" /\ keys' = archives[requests[r].archive].keys
            /\ parted' = parted \cup {"halfway"} /\ UNCHANGED waiting
  BY <1>1 DEF RestoreServiceFails, Is
<1>3. /\ s \in Backed /\ requests[r] \in RequestRecords
      /\ requests \in [Requests -> RequestRecords] /\ live \in [Backed -> Nat]
      /\ archives[requests[r].archive] \in Archives
  BY <1>1, <1>2 DEF Backed, BackupInv, BackupTypes, RestoresKnown, Is
<1>4. PICK rec \in RequestRecords :
        /\ requests' = [requests EXCEPT ![r] = rec] /\ rec.phase = "restoring"
        /\ rec.archive = requests[r].archive /\ rec.alone = requests[r].alone
        /\ rec.succeeded = requests[r].succeeded
  <2>1. PICK old \in RequestRecords : old = requests[r]
    BY <1>3
  <2>2. PICK n \in Nat : n = old.at + 1
    BY DEF RequestRecords
  <2>3. LET rec == [old EXCEPT !.at = n] IN
        /\ rec \in RequestRecords /\ rec.phase = old.phase /\ rec.archive = old.archive
        /\ rec.alone = old.alone /\ rec.succeeded = old.succeeded
    BY DEF RequestRecords
  <2>4. requests' = [requests EXCEPT ![r] = [old EXCEPT !.at = n]]
    BY <1>2, <1>3, <2>1, <2>2
  <2> QED  BY <1>2, <2>1, <2>3, <2>4
<1>5. requests' \in [Requests -> RequestRecords] /\ RestoresKnown' /\ DumpsMatch'
  <2>1. parted \subseteq parted'
    BY <1>2
  <2> QED  BY <1>2, <1>4, <2>1, RestoringStep
<1>6. PICK a : a = archives[requests[r].archive]
  OBVIOUS
<1>7. /\ keys' \in Nat /\ waiting' \in [Backed -> Nat \cup {None}]
      /\ \A t \in Backed : ToHold(t)' = ToHold(t) \/ ToHold(t)' = a.live[t]
      /\ keys' = keys \/ keys' = a.keys
      /\ VaultPairMatches /\ parted' = {} => (keys = ToHold("vault"))'
      /\ parted' \in {parted, parted \cup {"halfway"}}
  <2>1. CASE UNCHANGED <<keys, waiting, parted>>
    BY <1>2, <2>1 DEF BackupInv, BackupTypes, VaultPairMatches, ToHold
  <2>2. CASE Staged(r, s) /\ UNCHANGED parted
    <3>1. /\ keys' \in Nat /\ waiting' \in [Backed -> Nat \cup {None}]
          /\ ToHold(s)' = archives[requests[r].archive].live[s]
          /\ \A t \in Backed : t # s => ToHold(t)' = ToHold(t)
          /\ keys' = IF s = "vault" THEN archives[requests[r].archive].keys ELSE keys
          /\ VaultPairMatches /\ parted = {} => (keys = ToHold("vault"))'
      BY <1>2, <1>3, <2>2, StagedMatches
    <3> QED  BY <1>6, <2>2, <3>1
  <2>3. CASE /\ keys' = archives[requests[r].archive].keys
             /\ parted' = parted \cup {"halfway"} /\ UNCHANGED waiting
    BY <1>2, <1>3, <1>6, <2>3 DEF Archives, BackupInv, BackupTypes, ToHold
  <2> QED  BY <1>2, <2>1, <2>2, <2>3
<1>8. BackupTypes'
  BY <1>2, <1>5, <1>7 DEF BackupInv, BackupTypes
<1>9. StagedIsHeld'
  <2> SUFFICES ASSUME last # None, requests'[last].alone
               PROVE  LET b == archives[requests'[last].archive] IN
                      /\ \A t \in requests'[last].succeeded \ disturbed : ToHold(t)' = b.live[t]
                      /\ "vault" \in requests'[last].succeeded /\ "keys" \notin disturbed
                           => keys' = b.keys
    BY <1>2 DEF StagedIsHeld
  <2>1. last = r
    BY <1>2, <1>3, <1>4 DEF BackupInv, BackupTypes, RestoresKnown, Is
  <2>2. requests[r].alone /\ requests'[r] = rec
    BY <1>3, <1>4, <2>1
  <2>3. /\ \A t \in rec.succeeded \ disturbed : ToHold(t) = a.live[t]
        /\ "vault" \in rec.succeeded /\ "keys" \notin disturbed => keys = a.keys
    BY <1>4, <1>6, <2>1, <2>2 DEF BackupInv, StagedIsHeld
  <2>4. rec.succeeded \subseteq Backed
    BY DEF RequestRecords
  <2> QED  BY <1>4, <1>6, <1>7, <2>1, <2>2, <2>3, <2>4
<1>10. VaultPairMatches'
  BY <1>2, <1>7 DEF BackupInv, VaultPairMatches
<1> QED  BY <1>5, <1>8, <1>9, <1>10 DEF BackupInv

-----------------------------------------------------------------------------
LEMMA BackupInvStep == ASSUME BackupBounds, BackupInv, [BackupNext]_backupVars PROVE BackupInv'
<1>1. CASE UNCHANGED backupVars
  BY <1>1, ServicesStay DEF backupVars, services
<1>2. ASSUME NEW s \in Backed, Edit(s) PROVE BackupInv'
  BY <1>2, ChangeStep DEF Edit
<1>3. ASSUME NEW s \in Backed, Stop(s) PROVE BackupInv'
  BY <1>3, ServicesStay DEF Stop
<1>4. ASSUME EventArrives PROVE BackupInv'
  <2>1. CASE Change("audit")
    BY <1>4, <2>1, ChangeStep DEF EventArrives, BackupBounds
  <2>2. CASE UNCHANGED <<edits, keys, live, wal, since>>
    BY <1>4, <2>2, ServicesStay DEF EventArrives
  <2> QED  BY <1>4, <2>1, <2>2 DEF EventArrives
<1>5. ASSUME NEW r \in Requests, NEW a \in DOMAIN archives, Restore(r, a) PROVE BackupInv'
  BY <1>5, RestoreStep
<1> QED  BY <1>1, <1>2, <1>3, <1>4, <1>5, StartStep, DumpStep, CreateSteps, CreatedStep,
            RestoreServiceStep, RestoreServiceFailsStep, RestoredStep DEF BackupNext

(* Whatever services are backed up, however many requests come and however *)
(* often the services stop or change: a restore that ran alone tells the   *)
(* truth about each service it names, and the vault's keys and references  *)
(* stay together in use and in every archive unless one of the four ways   *)
(* of parting them happened.                                               *)
THEOREM ArchivesAlwaysHold == BackupBounds => (BackupSpec => []ArchivesHold)
<1> SUFFICES ASSUME BackupBounds PROVE BackupSpec => []ArchivesHold
  OBVIOUS
<1>1. BackupInit => BackupInv
  BY BackupInvInit
<1>2. BackupInv /\ [BackupNext]_backupVars => BackupInv'
  BY BackupInvStep
<1>3. BackupInv => ArchivesHold
  BY DEF BackupInv, ArchivesHold, StagedIsHeld, RestoredAsAnswered
<1> QED  BY <1>1, <1>2, <1>3, PTL DEF BackupSpec
=============================================================================
