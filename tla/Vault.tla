-------------------------------- MODULE Vault --------------------------------
(***************************************************************************)
(* credential-vault with its encrypted-file backend: the secrets in        *)
(* keys.enc.json, the references to them in vault-refs.db, and the three   *)
(* things that replace either as a whole: key rotation, restoring a backup *)
(* and a crash.  The file operations are synchronous, so only a crash      *)
(* falls between the two steps of one call.  A ciphertext is known by the  *)
(* key that made it.                                                       *)
(***************************************************************************)
EXTENDS FiniteSets

CONSTANTS Services, Accounts,
          Keys,            \* master keys an operator may configure
          LegacyKeys,      \* keys under which an older vault left a flat file
          NoKey

ASSUME VaultAssumption == NoKey \notin Keys /\ LegacyKeys \subseteq Keys

VARIABLES up,              \* the process runs
          env,             \* VAULT_MASTER_KEY it was started with
          file,            \* keys.enc.json
          refs,            \* rows of vault-refs.db
          pendingDb,       \* vault-refs.db.new
          staged,          \* restore-staging/keys.enc.json
          backup,          \* the archive dumpState returned
          stored,          \* history: secrets acknowledged and not deleted
          incidents,       \* history: what may have cost secrets or references
          given            \* history: <<placeholder, secret put in its place>>

disk == <<file, refs, pendingDb, staged>>
history == <<stored, incidents, given>>
vars == <<up, env, disk, backup, history>>

Secrets == Services \X Accounts
NoEntries == [s \in Secrets |-> NoKey]
Absent == [format |-> "absent", key |-> NoKey, entries |-> NoEntries]
Torn == [Absent EXCEPT !.format = "torn"]
Versioned(key, entries) == [format |-> "v1", key |-> key, entries |-> entries]
Flat(entries) == [format |-> "flat", key |-> NoKey, entries |-> entries]
Held(f) == {s \in Secrets : f.entries[s] # NoKey}
NoDb == [is |-> "none"]
Db(R) == [is |-> "db", refs |-> R]
NoBackup == [file |-> Absent, db |-> NoDb]

Init == /\ up = TRUE
        /\ env \in Keys
        /\ file \in {Absent} \cup
                    {Flat([NoEntries EXCEPT ![s] = k]) : s \in Secrets, k \in LegacyKeys}
        /\ refs = Held(file) /\ stored = Held(file)
        /\ pendingDb = NoDb
        /\ staged = Absent
        /\ backup = NoBackup
        /\ incidents = {}
        /\ given = {}

-----------------------------------------------------------------------------
(* Mutant: the key id is not checked. *)
OpensAny == TRUE

(* loadStore.  A v1 file of another key is refused; a missing file, and    *)
(* one that does not parse, is an empty store; a flat file is stamped with *)
(* the current key and written back.                                       *)
Opens == file.format = "v1" => file.key = env

Opened == IF file.format = "v1" THEN file ELSE Versioned(env, file.entries)

Migrated == IF file.format = "flat" THEN Opened ELSE file

(* A flat file of another key is stamped all the same.                     *)
Stamped == IF file.format = "flat" /\ \E s \in Held(file) : file.entries[s] # env
           THEN {"stamped"} ELSE {}

WithSecret(s) == [Opened EXCEPT !.entries[s] = env]

WithoutSecret(s) ==
  IF s \in Held(Opened) THEN [Opened EXCEPT !.entries[s] = NoKey] ELSE Migrated

SetSecret(s) ==
  /\ up /\ Opens
  /\ file' = WithSecret(s)
  /\ refs' = refs \cup {s}
  /\ stored' = stored \cup {s}
  /\ incidents' = incidents \cup Stamped
  /\ UNCHANGED <<up, env, pendingDb, staged, backup, given>>

DeleteSecret(s) ==
  /\ up /\ Opens
  /\ file' = WithoutSecret(s)
  /\ refs' = refs \ {s}
  /\ stored' = stored \ {s}
  /\ incidents' = incidents \cup Stamped
  /\ UNCHANGED <<up, env, pendingDb, staged, backup, given>>

(* One keychain, of the first reference's service, serves every            *)
(* placeholder of the input; any that cannot be read refuses the whole.    *)
Source(first, s) == <<first[1], s[2]>>

InjectCredential(first, S) ==
  LET readable == \A s \in S : /\ s \in refs
                               /\ Opened.entries[Source(first, s)] = env
  IN
  /\ up /\ Opens
  /\ first \in refs
  /\ file' = Migrated
  /\ given' = IF readable THEN {<<s, Source(first, s)>> : s \in S} ELSE {}
  /\ incidents' = incidents \cup Stamped
  /\ UNCHANGED <<up, env, refs, pendingDb, staged, backup, stored>>

(* Mutant: entries the old key cannot read are skipped. *)
RotateKeySkipping(old, new) ==
  /\ up
  /\ file.format \in {"v1", "flat"}
  /\ file.format = "v1" => file.key = old
  /\ file' = Versioned(new, [s \in Secrets |->
                               IF file.entries[s] = old THEN new ELSE NoKey])
  /\ UNCHANGED <<up, env, refs, pendingDb, staged, backup, history>>

(* rotateFileStoreKey: all or nothing, through a temporary file; the       *)
(* process keeps the key it was started with.                              *)
RotateKey(old, new) ==
  /\ up
  /\ file.format \in {"v1", "flat"}
  /\ file.format = "v1" => file.key = old
  /\ \A s \in Held(file) : file.entries[s] = old
  /\ file' = Versioned(new, [s \in Secrets |->
                               IF s \in Held(file) THEN new ELSE NoKey])
  /\ UNCHANGED <<up, env, refs, pendingDb, staged, backup, history>>

-----------------------------------------------------------------------------
DumpState ==
  /\ up
  /\ backup = NoBackup
  /\ backup' = [file |-> file, db |-> Db(refs)]
  /\ UNCHANGED <<up, env, disk, history>>

(* An archive without keys leaves what is staged, or the file, in place.   *)
ToSwap == IF backup.file = Absent THEN staged ELSE backup.file
Swapped == IF ToSwap = Absent THEN file ELSE ToSwap

RestoreState ==
  /\ up
  /\ backup # NoBackup
  /\ file' = Swapped
  /\ pendingDb' = backup.db
  /\ staged' = Absent
  /\ incidents' = incidents \cup {"restore"}
  /\ UNCHANGED <<up, env, refs, backup, stored, given>>

-----------------------------------------------------------------------------
(* A crash, at rest or within a call.  saveStore writes in place, so it    *)
(* may be cut short; the reference is written after it, so never alone.    *)
Crash == /\ up
         /\ up' = FALSE
         /\ UNCHANGED <<env, disk, backup, history>>

CrashInWrite(written, incident) ==
  /\ up /\ Opens
  /\ up' = FALSE
  /\ \/ file' = written /\ incidents' = incidents \cup Stamped \cup {incident}
     \/ file' = Torn /\ incidents' = incidents \cup {"torn"}
  /\ UNCHANGED <<env, refs, pendingDb, staged, backup, given>>

(* Mutant: the reference is written first. *)
CrashInSetRefFirst(s) ==
  /\ up /\ Opens
  /\ up' = FALSE
  /\ refs' = refs \cup {s}
  /\ incidents' = incidents \cup {"set"}
  /\ UNCHANGED <<env, file, pendingDb, staged, backup, stored, given>>

CrashInSet(s) == /\ CrashInWrite(WithSecret(s), "set")
                 /\ UNCHANGED stored

CrashInDelete(s) == /\ s \in Held(Opened)
                    /\ CrashInWrite(WithoutSecret(s), "delete")
                    /\ stored' = stored \ {s}

CrashInRestore ==
  /\ up
  /\ backup # NoBackup
  /\ up' = FALSE
  /\ \/ staged' = ToSwap /\ UNCHANGED file
     \/ staged' = Absent /\ file' = Swapped
  /\ incidents' = incidents \cup {"restore"}
  /\ UNCHANGED <<env, refs, pendingDb, backup, stored, given>>

(* The start-up migration; the operator chooses the key.                   *)
Restart(key) ==
  /\ up' = TRUE
  /\ env' = key
  /\ refs' = IF pendingDb = NoDb THEN refs ELSE pendingDb.refs
  /\ pendingDb' = NoDb
  /\ UNCHANGED <<file, staged, backup, history>>

Next == \/ \E s \in Secrets : \/ SetSecret(s)
                              \/ DeleteSecret(s)
                              \/ CrashInSet(s)
                              \/ CrashInDelete(s)
                              \/ \E S \in SUBSET Secrets : InjectCredential(s, S)
        \/ \E old, new \in Keys : RotateKey(old, new)
        \/ DumpState
        \/ RestoreState
        \/ Crash
        \/ CrashInRestore
        \/ \E key \in Keys : Restart(key)

Spec == Init /\ [][Next]_vars

-----------------------------------------------------------------------------
Files == [format : {"absent", "torn", "v1", "flat"},
          key : Keys \cup {NoKey},
          entries : [Secrets -> Keys \cup {NoKey}]]

TypeOK == /\ up \in BOOLEAN /\ env \in Keys
          /\ file \in Files /\ staged \in Files /\ backup.file \in Files
          /\ refs \subseteq Secrets /\ stored \subseteq Secrets
          /\ pendingDb = NoDb \/ pendingDb.refs \subseteq Secrets
          /\ incidents \subseteq {"set", "delete", "torn", "restore", "stamped"}
          /\ given \subseteq Secrets \X Secrets

(* A secret the vault acknowledged stays in the file until it is deleted,  *)
(* through rotations, refused operations, restarts under a wrong key and   *)
(* migrations: only a torn write or a restored backup can cost it.         *)
NoSecretLost ==
  incidents \cap {"torn", "restore"} = {} => stored \subseteq Held(file)

(* A reference names a secret that is in the file, even when the process   *)
(* dies in the middle of setSecret: a reference no injection can resolve   *)
(* comes only from a cut delete, a torn write or a restored backup.        *)
RefsBacked ==
  incidents \cap {"delete", "torn", "restore"} = {} => refs \subseteq Held(file)

(* The key id the file carries is the key of every secret in it, so that a *)
(* process with that key reads all of them and any other is refused - also *)
(* across rotations, crashes and restored backups.  Only a flat file first *)
(* opened under another key is stamped wrongly.                            *)
KeyIdHonest ==
  "stamped" \notin incidents /\ file.format = "v1" =>
    \A s \in Held(file) : file.entries[s] = file.key

-----------------------------------------------------------------------------
(* injector.ts: "The injector resolves the placeholder to the actual value *)
(* before execution" - the value its own reference names.                  *)
InjectsOwnSecret == \A g \in given : g[2] = g[1]
=============================================================================
