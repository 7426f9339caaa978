------------------------------- MODULE Backup -------------------------------
(***************************************************************************)
(* The gateway's backup route and the services it dumps and restores.      *)
(* Creating asks every service for its dump at once and fails with the     *)
(* first that fails; restoring goes through the services one after the     *)
(* other and carries on past a failure.  A restored file waits beside the  *)
(* one in use until its service restarts, except the vault's keys, which   *)
(* are replaced under the running service.  What a service holds is        *)
(* abstracted to the number of its last change.                            *)
(***************************************************************************)
EXTENDS Integers, Sequences, FiniteSets

CONSTANTS Order,         \* the route's list of services: "vault", "audit", ...
          Unjournalled,  \* those that keep plain files, not SQLite's
          Requests,      \* bound: requests to the route, 1..n
          MaxEdits,      \* bound: changes made by everything else
          MaxStops       \* bound: times a service is stopped

VARIABLES edits,         \* changes made so far
          stops,
          keys,          \* the vault's keys.enc.json
          live,          \* each service's state (the vault's: its references)
          waiting,       \* the file waiting beside it
          wal,           \* SQLite's -wal file holds commits since the start
          running,
          archives,      \* the archives handed out
          requests,
          owed,          \* audit events sent and not yet arrived
          last,          \* history: the last restore to begin
          disturbed,     \* history: what was changed after it
          parted         \* history: what parts the vault's two files

services == <<keys, live, waiting, wal, running, stops>>
since == <<last, disturbed, parted>>
backupVars == <<edits, services, archives, requests, owed, since>>

Backed == {Order[i] : i \in DOMAIN Order}
None == -1
NoStamps == [s \in Backed |-> None]
NoRequest == [phase |-> "none", dumps |-> NoStamps, dumpedKeys |-> None, archive |-> 0,
              at |-> 0, succeeded |-> {}, alone |-> TRUE, answer |-> 0]

BackupInit ==
        /\ edits = 0 /\ keys = 0 /\ stops = 0
        /\ live = [s \in Backed |-> 0]
        /\ waiting = NoStamps
        /\ wal = [s \in Backed |-> FALSE]
        /\ running = [s \in Backed |-> TRUE]
        /\ archives = <<>>
        /\ requests = [r \in Requests |-> NoRequest]
        /\ owed = 0
        /\ last = None /\ disturbed = {}
        /\ parted = {}

-----------------------------------------------------------------------------
(* A service changes what it holds.  What it writes while a restored file  *)
(* waits is gone when it restarts - but not what it writes to the keys.    *)
Change(s) ==
  /\ edits' = edits + 1
  /\ live' = [live EXCEPT ![s] = edits']
  /\ keys' = IF s = "vault" THEN edits' ELSE keys
  /\ wal' = [wal EXCEPT ![s] = s \notin Unjournalled]
  /\ disturbed' = disturbed \cup (IF waiting[s] = None THEN {s} ELSE {})
                             \cup (IF s = "vault" THEN {"keys"} ELSE {})
  /\ UNCHANGED last
  /\ parted' = IF s = "vault" /\ waiting[s] # None THEN parted \cup {"edited"}
               ELSE parted

Edit(s) == /\ running[s] /\ edits < MaxEdits
           /\ Change(s)
           /\ UNCHANGED <<waiting, running, stops, archives, requests, owed>>

Stop(s) == /\ running[s] /\ stops < MaxStops
           /\ running' = [running EXCEPT ![s] = FALSE]
           /\ stops' = stops + 1
           /\ UNCHANGED <<edits, keys, live, waiting, wal, archives, requests, owed,
                          since>>

(* Start-up puts a waiting file in place.  A journal left by the file it   *)
(* replaces may be read over it.                                           *)
Start(s) ==
  /\ ~running[s] /\ running' = [running EXCEPT ![s] = TRUE]
  /\ waiting' = [waiting EXCEPT ![s] = None]
  /\ wal' = [wal EXCEPT ![s] = FALSE]
  /\ \/ /\ live' = IF waiting[s] = None THEN live ELSE [live EXCEPT ![s] = waiting[s]]
        /\ UNCHANGED <<disturbed, parted>>
     \/ /\ waiting[s] # None /\ wal[s]
        /\ disturbed' = disturbed \cup {s}
        /\ parted' = parted \cup (IF s = "vault" THEN {"journal"} ELSE {})
        /\ UNCHANGED live
  /\ UNCHANGED <<edits, keys, stops, archives, requests, owed, last>>

-----------------------------------------------------------------------------
Is(r, phase) == requests[r].phase = phase

(* Requests are numbered as they come.                                     *)
Comes(r) == Is(r, "none") /\ \A q \in Requests : q < r => ~Is(q, "none")

Create(r) ==
  /\ Comes(r)
  /\ requests' = [requests EXCEPT ![r].phase = "creating"]
  /\ UNCHANGED <<edits, services, archives, owed, since>>

(* One service's dump; the vault reads both its files in one go.           *)
Dump(r, s) ==
  /\ Is(r, "creating") /\ running[s]
  /\ requests[r].dumps[s] = None
  /\ requests' = [requests EXCEPT ![r].dumps[s] = live[s],
                                  ![r].dumpedKeys = IF s = "vault" THEN keys ELSE @]
  /\ parted' = IF s = "vault" /\ waiting[s] # None THEN parted \cup {"dumped"}
               ELSE parted
  /\ UNCHANGED <<edits, services, archives, owed, last, disturbed>>

(* A service is down, too large for one message, or answers failure.       *)
DumpFails(r) ==
  /\ Is(r, "creating")
  /\ \E s \in Backed : requests[r].dumps[s] = None
  /\ requests' = [requests EXCEPT ![r] = [NoRequest EXCEPT !.phase = "answered", !.answer = 502]]
  /\ UNCHANGED <<edits, services, archives, owed, since>>

Created(r) ==
  /\ Is(r, "creating")
  /\ \A s \in Backed : requests[r].dumps[s] # None
  /\ archives' = Append(archives, [keys |-> requests[r].dumpedKeys,
                                   live |-> requests[r].dumps])
  /\ requests' = [requests EXCEPT ![r] = [NoRequest EXCEPT !.phase = "answered", !.answer = 200]]
  /\ owed' = owed + 1
  /\ UNCHANGED <<edits, services, since>>

-----------------------------------------------------------------------------
(* A body that is empty, cannot be decoded or is no archive is refused.    *)
Refuse(r) ==
  /\ Comes(r)
  /\ requests' = [requests EXCEPT ![r].phase = "answered", ![r].answer = 400]
  /\ UNCHANGED <<edits, services, archives, owed, since>>

Restoring == {r \in Requests : Is(r, "restoring")}

(* Two restores at once each stage some of the services last.              *)
Restore(r, a) ==
  /\ Comes(r)
  /\ requests' = [q \in Requests |->
       IF q = r THEN [NoRequest EXCEPT !.phase = "restoring", !.archive = a, !.at = 1,
                                       !.alone = Restoring = {}]
       ELSE IF q \in Restoring THEN [requests[q] EXCEPT !.alone = FALSE]
       ELSE requests[q]]
  /\ last' = r /\ disturbed' = {}
  /\ UNCHANGED <<edits, services, archives, owed, parted>>

(* The service whose turn it is: its files are staged.                     *)
Staged(r, s) ==
  /\ waiting' = [waiting EXCEPT ![s] = archives[requests[r].archive].live[s]]
  /\ keys' = IF s = "vault" THEN archives[requests[r].archive].keys ELSE keys

RestoreService(r) ==
  /\ Is(r, "restoring") /\ requests[r].at \in DOMAIN Order
  /\ LET s == Order[requests[r].at] IN
       /\ running[s]
       /\ Staged(r, s)
       /\ requests' = [requests EXCEPT ![r].at = @ + 1, ![r].succeeded = @ \cup {s}]
       /\ disturbed' = disturbed \ (IF s = "vault" THEN {s, "keys"} ELSE {s})
  /\ UNCHANGED <<edits, live, wal, running, stops, archives, owed, last, parted>>

(* Mutant: a failure is counted as a success. *)
RestoreServiceFailsUnseen(r) ==
  /\ Is(r, "restoring") /\ requests[r].at \in DOMAIN Order
  /\ requests' = [requests EXCEPT ![r].at = @ + 1,
                                  ![r].succeeded = @ \cup {Order[requests[r].at]}]
  /\ UNCHANGED <<edits, services, archives, owed, since>>

(* The failure is recorded and the next service follows.  It was refused,  *)
(* or its answer was lost after the work, or - the vault - came between    *)
(* the keys and the references.                                            *)
RestoreServiceFails(r) ==
  /\ Is(r, "restoring") /\ requests[r].at \in DOMAIN Order
  /\ requests' = [requests EXCEPT ![r].at = @ + 1]
  /\ LET s == Order[requests[r].at] IN
       \/ UNCHANGED <<keys, waiting, parted>>
       \/ running[s] /\ Staged(r, s) /\ UNCHANGED parted
       \/ /\ running[s] /\ s = "vault"
          /\ keys' = archives[requests[r].archive].keys
          /\ parted' = parted \cup {"halfway"}
          /\ UNCHANGED waiting
  /\ UNCHANGED <<edits, live, wal, running, stops, archives, owed, last, disturbed>>

(* 200 when every service succeeded, 207 otherwise; either names the       *)
(* services that did.                                                      *)
Restored(r) ==
  /\ Is(r, "restoring") /\ requests[r].at \notin DOMAIN Order
  /\ requests' = [requests EXCEPT ![r].phase = "answered",
                    ![r].answer = IF requests[r].succeeded = Backed THEN 200 ELSE 207]
  /\ owed' = owed + 1
  /\ UNCHANGED <<edits, services, archives, since>>

(* The event of a backup or a restore, sent without waiting: it is lost    *)
(* when the audit service is down, and a restored audit log replaces it.   *)
EventArrives ==
  /\ owed > 0 /\ owed' = owed - 1
  /\ IF running["audit"] THEN Change("audit") ELSE UNCHANGED <<edits, keys, live, wal, since>>
  /\ UNCHANGED <<waiting, running, stops, archives, requests>>

BackupNext ==
        \/ \E s \in Backed : \/ Edit(s) \/ Stop(s) \/ Start(s)
                               \/ \E r \in Requests : Dump(r, s)
        \/ \E r \in Requests : \/ Create(r) \/ DumpFails(r) \/ Created(r) \/ Refuse(r)
                               \/ \E a \in DOMAIN archives : Restore(r, a)
                               \/ RestoreService(r) \/ RestoreServiceFails(r) \/ Restored(r)
        \/ EventArrives

BackupSpec == BackupInit /\ [][BackupNext]_backupVars

-----------------------------------------------------------------------------
Stamps == 0..(MaxEdits + Cardinality(Requests))

BackupTypeOK ==
  /\ edits \in Stamps /\ keys \in Stamps /\ owed \in 0..Cardinality(Requests)
  /\ live \in [Backed -> Stamps] /\ waiting \in [Backed -> Stamps \cup {None}]
  /\ running \in [Backed -> BOOLEAN] /\ wal \in [Backed -> BOOLEAN]
  /\ \A i \in DOMAIN archives : /\ archives[i].keys \in Stamps
                                 /\ archives[i].live \in [Backed -> Stamps]
  /\ \A r \in Requests : Is(r, "restoring") => requests[r].archive \in DOMAIN archives

(* What a service holds, or will hold from its next start on.              *)
ToHold(s) == IF waiting[s] = None THEN live[s] ELSE waiting[s]

(* A restore that ran alone tells the truth: every service it names as     *)
(* restored holds the archive's state, or will from its next start on,     *)
(* whatever failed before and after it - until it is changed again, or a   *)
(* left journal is read over it.                                           *)
RestoredAsAnswered ==
  last # None /\ Is(last, "answered") /\ requests[last].alone =>
    LET a == archives[requests[last].archive] IN
    /\ \A s \in requests[last].succeeded \ disturbed : ToHold(s) = a.live[s]
    /\ "vault" \in requests[last].succeeded /\ "keys" \notin disturbed => keys = a.keys

(* The vault's keys and references belong together, in use and in every    *)
(* archive: only a restore that failed between the two, a left journal, a  *)
(* secret stored while references wait, or a dump taken then parts them.   *)
VaultPairMatches ==
  parted = {} => /\ keys = ToHold("vault")
                    /\ \A i \in DOMAIN archives : archives[i].keys = archives[i].live["vault"]

(* backup.route.ts, vault.service.ts: a restore tells the truth about each *)
(* service, and the vault's keys and references stay together.             *)
ArchivesHold == RestoredAsAnswered /\ VaultPairMatches
=============================================================================
