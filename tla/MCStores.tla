------------------------------ MODULE MCStores ------------------------------
(* The stores behind the gateway, side by side: the vault with its file    *)
(* (two services with one account name, two master keys, either of which   *)
(* may have made a flat file) and with the keychain, conversation memory,  *)
(* searches in it, the audit log, the screen that pages through it, the    *)
(* cost ledger (one team of two users), and the backup of them all.  They  *)
(* share no variable here, so one run checks them as a sum: "part" says    *)
(* which of them moves.                                                    *)
(* Which secrets an injection gave is left to the run of the vault alone;  *)
(* here it gives none.                                                     *)
EXTENDS Vault, CredentialState, AuditTables, MemoryTables, Backup, CostGovernance,
        AuditViewer, Recall, TLC

CONSTANTS svc1, svc2, acct, k1, k2,
          s1, s2, u1, u2, NoDump,
          t1, m1, m2, m3

VARIABLES part,
          crashes,
          stage, spoken, clock, extracting, embedding, dump, memoryNew, plan,
          now, evaluating, archive, auditNew, journal

MCServices == {svc1, svc2}
MCAccounts == {acct}
MCKeys == {k1, k2}
MCSymmetry == Permutations(MCServices) \cup Permutations(MCKeys)
MCUsers == {u1, u2}
MCTeams == {t1}
MCRuns == {m1, m2, m3}
MCQuotas == {1}
MCUserOf == m1 :> u1 @@ m2 :> u2 @@ m3 :> u1
MCRowUsers == {u1}
MCOrder == <<"vault", "audit">>
MCTeamOf == [u \in {u1, u2} |-> t1]

Keychain == INSTANCE CredentialCalls WITH MaxCrashes <- 1
Memory == INSTANCE MCMemoryStore WITH
            Users <- {u1, u2}, Limit <- 2, MaxSaid <- 3, MaxCalls <- 3,
            now <- clock, pendingDb <- memoryNew
Audit == INSTANCE AuditLog WITH
           Sessions <- {s1}, Cap <- 1, RapidCalls <- 1, Minute <- 2, Day <- 1,
           LastTick <- 1, MaxEvents <- 2, MaxCost <- 1, pending <- auditNew

vault == <<up, env, file, refs, pendingDb, staged, backup, stored, incidents, given>>
keychain == <<secret, ref, calls, latest, blurred, crashes>>
memory == <<owner, stage, ctx, spoken, clock, toStore, extracting, db, embedding, dump,
            memoryNew, lost, cleared, overtaken, restored, plan>>
audit == <<now, events, alerts, ledger, evaluating, archive, auditNew, journal, auditUp>>

(* One message is enough to share an id with a lesson; the second search   *)
(* is one for the newest lessons.                                          *)
RecallKept == /\ next'["messages"] <= 2 /\ search'[2].at # "embedding"
              /\ \A r \in rows' : r.table = "messages" => r.rank = 0

(* Two messages of one user that were not sent yet are alike.              *)
CostsKept == pc'[m3] # "idle" => pc'[m1] # "idle"

(* A backup, then two restores, or one and a backup after it.              *)
ArchiveKept == requests'[2].phase # "creating"

MCInit == /\ part \in {"vault", "keychain", "memory", "audit", "costs", "backups", "viewer",
                     "recall"}
          /\ Init /\ Keychain!CallsInit /\ Memory!MCInit /\ Audit!Init /\ CostInit
          /\ BackupInit /\ ViewerInit /\ RecallInit
          /\ (part # "viewer" => log = <<>>)
          /\ (part # "vault" => env = k1 /\ file = Absent)
          /\ (part # "memory" => plan = "read" /\ owner[s2] = u1)

MCNext ==
  /\ UNCHANGED part
  /\ \/ /\ part = "vault" /\ Next /\ UNCHANGED given
        /\ UNCHANGED <<keychain, memory, audit, costVars, backupVars, viewerVars, recallVars>>
     \/ /\ part = "keychain" /\ Keychain!CallsNext
        /\ UNCHANGED <<vault, memory, audit, costVars, backupVars, viewerVars, recallVars>>
     \/ /\ part = "memory" /\ Memory!Next /\ Memory!PlanKept
        /\ UNCHANGED <<vault, keychain, audit, costVars, backupVars, viewerVars, recallVars>>
     \/ /\ part = "audit" /\ Audit!Next
        /\ UNCHANGED <<vault, keychain, memory, costVars, backupVars, viewerVars, recallVars>>
     \/ /\ part = "costs" /\ CostNext /\ CostsKept
        /\ UNCHANGED <<vault, keychain, memory, audit, backupVars, viewerVars, recallVars>>
     \/ /\ part = "backups" /\ BackupNext /\ ArchiveKept
        /\ UNCHANGED <<vault, keychain, memory, audit, costVars, viewerVars, recallVars>>
     \/ /\ part = "viewer" /\ ViewerNext
        /\ UNCHANGED <<vault, keychain, memory, audit, costVars, backupVars, recallVars>>
     \/ /\ part = "recall" /\ RecallNext /\ RecallKept
        /\ UNCHANGED <<vault, keychain, memory, audit, costVars, backupVars, viewerVars>>

stores == <<part, vault, keychain, memory, audit, costVars, backupVars, viewerVars, recallVars>>

MCSpec == MCInit /\ [][MCNext]_stores

-----------------------------------------------------------------------------
(* Each part beside the vault keeps its types.                             *)
PartsTypeOK == /\ TypeOK /\ Keychain!CallsTypeOK /\ Memory!MemoryTypeOK
               /\ Audit!AuditTypeOK /\ CostTypeOK /\ BackupTypeOK
               /\ ViewerTypeOK /\ RecallTypeOK
=============================================================================
