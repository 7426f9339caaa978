-------------------------- MODULE HarnessEvolution --------------------------
(***************************************************************************)
(* agent-runtime/src/harness-evolution: patches the analyser proposes for  *)
(* the agent's own prompt.  The service keeps them in memory only; each    *)
(* change is sent to the memory store without waiting for the answer, and  *)
(* the memory store's table is what new sessions read.  A patch is known   *)
(* by the hash of its content, so evolve() after a restart of the runtime  *)
(* proposes a patch the table may already hold, with another confidence.   *)
(*                                                                         *)
(* Every text generatePatch can write passes validatePatch, and the        *)
(* lessons pipeline has no caller, so their refusals are left out.         *)
(***************************************************************************)
EXTENDS Naturals, FiniteSets

CONSTANTS Patches,         \* by computeDeterministicId
          MaxInFlight      \* bound: storeHarnessPatch calls under way

VARIABLES store,           \* patchStore
          pending,         \* pendingPatches
          calls,           \* storeHarnessPatch calls under way
          rows,            \* the harness_patches table
          backup,          \* a dump of the memory store
          restoring,       \* memory.db.new holds that dump
          approved,        \* history: patches a human asked to apply
          incidents        \* history: what may have cost a row its flag

runtime == <<store, pending>>
memory == <<rows, backup, restoring>>
history == <<approved, incidents>>
vars == <<runtime, calls, memory, history>>

(* Only confidence >= 0.7 can be applied; below it nothing else differs.   *)
Levels == {"low", "high"}
Entry(level, flag) == [confidence |-> level, applied |-> flag]
Absent == Entry("none", FALSE)
Call(p, entry) == [id |-> p, entry |-> entry]
NoRows == [p \in Patches |-> Absent]

Init == /\ store = NoRows
        /\ pending = {}
        /\ calls = {}
        /\ rows = NoRows
        /\ backup = NoRows
        /\ restoring = FALSE
        /\ approved = {}
        /\ incidents = {}

-----------------------------------------------------------------------------
(* Mutant: the call carries the flag the patch had before. *)
StoredUnflagged(S, entryOf) ==
  /\ store' = [p \in Patches |-> IF p \in S THEN entryOf[p] ELSE store[p]]
  /\ calls' = calls \cup {Call(p, [entryOf[p] EXCEPT !.applied = FALSE]) : p \in S}

(* storePatch, for entries that are not applied yet.                       *)
Stored(S, entryOf) ==
  /\ store' = [p \in Patches |-> IF p \in S THEN entryOf[p] ELSE store[p]]
  /\ calls' = calls \cup {Call(p, entryOf[p]) : p \in S}

(* Mutant: a confident patch is applied as it is generated. *)
EvolveAutoApplying(S, level) ==
  LET new == {p \in S : store[p] = Absent /\ p \notin pending}
  IN /\ Stored(new, [p \in S |-> Entry(level[p], level[p] = "high")])
     /\ pending' = pending \cup {p \in new : level[p] # "high"}
     /\ UNCHANGED <<memory, history>>

(* The daily job or a user's request; patches it already knows are skipped.*)
Evolve(S, level) ==
  LET new == {p \in S : store[p] = Absent /\ p \notin pending}
  IN /\ Stored(new, [p \in S |-> Entry(level[p], FALSE)])
     /\ pending' = pending \cup new
     /\ UNCHANGED <<memory, history>>

(* ApplyHarnessPatch: a human's request; only a patch in memory is found.  *)
ApplyHarnessPatch(p) ==
  LET confident == store[p].confidence = "high"
  IN /\ store[p] # Absent
     /\ approved' = approved \cup {p}
     /\ Stored(IF store[p].applied THEN {} ELSE {p},
               [q \in {p} |-> Entry(store[p].confidence, confident)])
     /\ pending' = IF confident THEN pending \ {p} ELSE pending
     /\ UNCHANGED <<memory, incidents>>

RuntimeRestart ==
  /\ store' = NoRows
  /\ pending' = {}
  /\ UNCHANGED <<calls, memory, history>>

-----------------------------------------------------------------------------
(* Mutant: the upsert takes every column from the call. *)
UpsertedOverwriting(call) == call.entry

(* ON CONFLICT keeps applied once it is 1 and takes the rest from the call.*)
Upserted(call) ==
  [call.entry EXCEPT !.applied = @ \/ rows[call.id].applied]

(* Calls of one channel are independent: they may arrive in any order.     *)
StoreArrives(call) ==
  /\ call \in calls
  /\ calls' = calls \ {call}
  /\ rows' = [rows EXCEPT ![call.id] = Upserted(call)]
  /\ UNCHANGED <<runtime, backup, restoring, history>>

StoreLost(call) ==
  /\ call \in calls
  /\ calls' = calls \ {call}
  /\ incidents' = incidents \cup {"lost"}
  /\ UNCHANGED <<runtime, memory, approved>>

DumpState ==
  /\ backup = NoRows
  /\ backup' = rows
  /\ UNCHANGED <<runtime, calls, rows, restoring, history>>

RestoreState ==
  /\ restoring' = TRUE
  /\ UNCHANGED <<runtime, calls, rows, backup, history>>

(* Start-up applies a pending restore.                                     *)
MemoryRestart ==
  /\ restoring
  /\ rows' = backup
  /\ restoring' = FALSE
  /\ incidents' = incidents \cup {"restored"}
  /\ UNCHANGED <<runtime, calls, backup, approved>>

(* What a session's first message is given for its prompt.                 *)
GetActivePatches == {p \in Patches : rows[p] # Absent /\ ~rows[p].applied}

Next == \/ \E S \in SUBSET Patches : \E level \in [S -> Levels] :
             Evolve(S, level) /\ Cardinality(calls') <= MaxInFlight
        \/ \E p \in Patches :
             ApplyHarnessPatch(p) /\ Cardinality(calls') <= MaxInFlight
        \/ \E call \in calls : StoreArrives(call) \/ StoreLost(call)
        \/ RuntimeRestart
        \/ DumpState
        \/ RestoreState
        \/ MemoryRestart

Spec == Init /\ [][Next]_vars

-----------------------------------------------------------------------------
Entries == [confidence : Levels, applied : BOOLEAN]

TypeOK == /\ store \in [Patches -> {Absent} \cup Entries]
          /\ pending \subseteq Patches
          /\ calls \subseteq [id : Patches, entry : Entries]
          /\ rows \in [Patches -> {Absent} \cup Entries]
          /\ backup \in [Patches -> {Absent} \cup Entries]
          /\ restoring \in BOOLEAN
          /\ approved \subseteq Patches
          /\ incidents \subseteq {"lost", "restored"}

(* No patch is applied - in memory, under way to the memory store, in its  *)
(* table or in a dump of it - unless a human asked for it, and what was    *)
(* sent as applied had the confidence to be: not through a new generation  *)
(* of the same patch, a restart, reordered calls or a restore.             *)
OnlyApprovedApplied ==
  /\ \A p \in Patches :
       /\ store[p].applied => p \in approved /\ store[p].confidence = "high"
       /\ rows[p].applied \/ backup[p].applied => p \in approved
  /\ \A call \in calls : call.entry.applied =>
       call.id \in approved /\ call.entry.confidence = "high"

(* The two maps agree: a patch awaits review exactly while it is stored    *)
(* and not applied.                                                        *)
PendingIsUnapplied ==
  pending = {p \in Patches : store[p] # Absent /\ ~store[p].applied}

(* A patch the runtime reports as applied is applied in the table or about *)
(* to be, though its earlier, unapplied record may arrive after it: only a *)
(* lost call or a restored dump can undo that.                             *)
AppliedIsPersisted ==
  incidents = {} => \A p \in Patches : store[p].applied =>
    rows[p].applied \/ \E call \in calls : call.id = p /\ call.entry.applied

(* The service's two maps, the calls under way and the table never tell    *)
(* different stories about a patch.                                        *)
PatchesAgree == PendingIsUnapplied /\ AppliedIsPersisted

(* Once applied in the table a patch stays applied, also when a restarted  *)
(* runtime proposes it again; only restoring an older dump takes it back.  *)
AppliedIsFinal ==
  [][MemoryRestart \/ \A p \in Patches : rows[p].applied => rows'[p].applied]_vars

-----------------------------------------------------------------------------
(* memory.client.ts: "Retrieve applied harness patches (applied &          *)
(* confidence > 0.7) for prompt injection".                                *)
ActiveAreApplied ==
  \A p \in GetActivePatches : rows[p].applied /\ rows[p].confidence = "high"
=============================================================================
