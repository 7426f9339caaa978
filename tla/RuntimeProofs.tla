---------------------------- MODULE RuntimeProofs ----------------------------
(***************************************************************************)
(* The runtime around the agent loop: harness evolution, the orchestrator, *)
(* the skills engine and its sandbox, the adapters of the LLM providers.   *)
(*                                                                         *)
(* Who may apply a patch, for every set of patches and any number of calls *)
(* under way.  EvolutionInv is inductive: that rows hold only approved     *)
(* applications needs the same of the calls and of the dump, and those of  *)
(* the service's own map, which PendingIsUnapplied keeps apart from what   *)
(* evolve() adds.                                                          *)
(*                                                                         *)
(* That attempts do not mix, for every task, text and number of retries:   *)
(* the counts of worker calls are inductive only together with how the     *)
(* attempts are counted and which calls have steps at all (AttemptsKept).  *)
(*                                                                         *)
(* The skills engine for every set of calls and versions: an entry in      *)
(* memory is sound, whichever way it came in, so what runs is.  Each call  *)
(* keeps BoxOK, which says what the daemon may have for a call at each of  *)
(* its steps; that an answer of success is real needs to know why a call   *)
(* came to inspect its container, and that a container that ended keeps    *)
(* its exit code.                                                          *)
(*                                                                         *)
(* The providers' streams for any conversation the loop keeps and any      *)
(* number of calls and pieces.  That a finished answer is complete needs   *)
(* what the adapter holds while it comes: of each call the pieces sent     *)
(* (PiecesHeld), and which calls were passed on already (CallsSoFar); how  *)
(* the stop reason and the end go together is StopHolds.                   *)
(***************************************************************************)
EXTENDS HarnessEvolution, Orchestrator, SkillsEngine, ProviderStreams, SequenceTheorems, TLAPS

EvolutionInv == TypeOK /\ OnlyApprovedApplied /\ PendingIsUnapplied

(* What storePatch does to the map and to the calls.                       *)
StoredAs(S, entryOf) ==
  /\ store' \in [Patches -> {Absent} \cup Entries]
  /\ \A p \in Patches : store'[p] = IF p \in S THEN entryOf[p] ELSE store[p]
  /\ calls' \subseteq [id : Patches, entry : Entries]
  /\ \A call \in calls' : \/ call \in calls
                          \/ call.id \in S /\ call.entry = entryOf[call.id]

LEMMA StoredEffect ==
  ASSUME TypeOK, NEW S \in SUBSET Patches, NEW entryOf,
         \A p \in S : entryOf[p] \in Entries, Stored(S, entryOf)
  PROVE  StoredAs(S, entryOf)
<1>1. store' = [p \in Patches |-> IF p \in S THEN entryOf[p] ELSE store[p]]
  BY DEF Stored
<1>2. store' \in [Patches -> {Absent} \cup Entries]
  BY <1>1 DEF TypeOK
<1>3. calls' = calls \cup {Call(p, entryOf[p]) : p \in S}
  BY DEF Stored
<1>4. \A p \in S : /\ Call(p, entryOf[p]) \in [id : Patches, entry : Entries]
                   /\ Call(p, entryOf[p]).id = p
                   /\ Call(p, entryOf[p]).entry = entryOf[p]
  BY DEF Call
<1> QED BY <1>1, <1>2, <1>3, <1>4 DEF TypeOK, StoredAs

LEMMA EntryFields ==
  ASSUME NEW level, NEW flag
  PROVE  /\ Entry(level, flag).confidence = level
         /\ Entry(level, flag).applied = flag
         /\ level \in Levels /\ flag \in BOOLEAN => Entry(level, flag) \in Entries
  BY DEF Entry, Entries

LEMMA AbsentFields == /\ Absent.applied = FALSE
                      /\ Absent.confidence = "none"
                      /\ Absent \notin Entries
  BY DEF Absent, Entry, Entries, Levels

LEMMA EvolutionInvInit == Init => EvolutionInv
<1> SUFFICES ASSUME Init PROVE EvolutionInv
  OBVIOUS
<1> USE AbsentFields DEF Init, NoRows
<1>1. TypeOK
  BY DEF TypeOK
<1>2. OnlyApprovedApplied
  BY DEF OnlyApprovedApplied
<1>3. PendingIsUnapplied
  BY DEF PendingIsUnapplied
<1> QED BY <1>1, <1>2, <1>3 DEF EvolutionInv

(* evolve() adds only patches that are in neither map, none of them applied.*)
LEMMA EvolveKeepsInv ==
  ASSUME EvolutionInv, NEW S \in SUBSET Patches, NEW level \in [S -> Levels],
         Evolve(S, level)
  PROVE  EvolutionInv'
<1> DEFINE new == {p \in S : store[p] = Absent /\ p \notin pending}
           entryOf == [p \in S |-> Entry(level[p], FALSE)]
<1>1. \A p \in new : /\ p \in Patches
                     /\ entryOf[p] \in Entries
                     /\ entryOf[p].applied = FALSE
  BY EntryFields
<1>2. Stored(new, entryOf)
  BY DEF Evolve
<1>3. new \in SUBSET Patches /\ TypeOK
  BY DEF EvolutionInv
<1> HIDE DEF entryOf, new
<1>4. StoredAs(new, entryOf)
  <2>1. \A p \in new : entryOf[p] \in Entries
    BY <1>1
  <2> QED BY <1>2, <1>3, <2>1, StoredEffect
<1>5. /\ pending' = pending \cup new
      /\ UNCHANGED <<rows, backup, restoring, approved, incidents>>
  BY DEF Evolve, memory, history, new
<1>6. TypeOK'
  BY <1>3, <1>4, <1>5 DEF TypeOK, StoredAs
<1>7. OnlyApprovedApplied'
  BY <1>1, <1>4, <1>5 DEF EvolutionInv, OnlyApprovedApplied, StoredAs
<1>8. PendingIsUnapplied'
  <2>1. \A p \in new : entryOf[p] # Absent
    BY <1>1, AbsentFields
  <2> QED BY <1>1, <1>3, <1>4, <1>5, <2>1
           DEF EvolutionInv, PendingIsUnapplied, StoredAs
<1> QED BY <1>6, <1>7, <1>8 DEF EvolutionInv

(* A request applies a patch only if its stored confidence allows it.      *)
LEMMA ApplyKeepsInv ==
  ASSUME EvolutionInv, NEW p \in Patches, ApplyHarnessPatch(p)
  PROVE  EvolutionInv'
<1> DEFINE confident == store[p].confidence = "high"
           S == IF store[p].applied THEN {} ELSE {p}
           entryOf == [q \in {p} |-> Entry(store[p].confidence, confident)]
<1>1. store[p] \in Entries /\ TypeOK
  BY DEF ApplyHarnessPatch, EvolutionInv, TypeOK
<1>2. store[p].confidence \in Levels /\ store[p].applied \in BOOLEAN
  BY <1>1 DEF Entries
<1>3. /\ entryOf[p] \in Entries
      /\ entryOf[p].confidence = store[p].confidence
      /\ entryOf[p].applied = confident
  <2>1. entryOf[p] = Entry(store[p].confidence, confident)
    OBVIOUS
  <2>2. confident \in BOOLEAN
    OBVIOUS
  <2> HIDE DEF entryOf, confident
  <2> QED BY <1>2, <2>1, <2>2, EntryFields
<1>4. /\ Stored(S, entryOf)
      /\ approved' = approved \cup {p}
      /\ pending' = IF confident THEN pending \ {p} ELSE pending
      /\ UNCHANGED <<rows, backup, restoring, incidents>>
  BY DEF ApplyHarnessPatch, memory
<1>5. S \in SUBSET Patches /\ \A q \in S : q = p /\ ~store[p].applied
  OBVIOUS
<1>6. p \in S <=> ~store[p].applied
  OBVIOUS
<1> HIDE DEF S, entryOf
<1>7. StoredAs(S, entryOf)
  <2>1. \A q \in S : entryOf[q] \in Entries
    BY <1>3, <1>5
  <2> QED BY <1>1, <1>4, <1>5, <2>1, StoredEffect
<1>8. TypeOK'
  BY <1>1, <1>4, <1>7 DEF TypeOK, StoredAs
<1>9. OnlyApprovedApplied'
  BY <1>3, <1>4, <1>5, <1>7 DEF EvolutionInv, OnlyApprovedApplied, StoredAs
<1>10. PendingIsUnapplied'
  <2>1. pending = {q \in Patches : store[q] # Absent /\ ~store[q].applied}
    BY DEF EvolutionInv, PendingIsUnapplied
  <2>2. \A q \in Patches \ {p} : store'[q] = store[q] /\ (q \in pending' <=> q \in pending)
    BY <1>4, <1>5, <1>7 DEF StoredAs
  <2>3. store'[p] # Absent
    BY <1>1, <1>3, <1>5, <1>7, AbsentFields DEF StoredAs
  <2>4. store'[p].applied <=> confident
    <3>1. CASE p \in S
      BY <1>3, <1>7, <3>1 DEF StoredAs
    <3>2. CASE p \notin S
      BY <1>6, <1>7, <3>2 DEF EvolutionInv, OnlyApprovedApplied, StoredAs
    <3> QED BY <3>1, <3>2
  <2>5. p \in pending' <=> ~confident
    <3>1. CASE confident
      BY <1>4, <3>1
    <3>2. CASE ~confident
      BY <1>1, <1>4, <2>1, <3>2, AbsentFields
         DEF EvolutionInv, OnlyApprovedApplied
    <3> QED BY <3>1, <3>2
  <2>6. pending' \subseteq Patches
    BY <1>8 DEF TypeOK
  <2> QED BY <2>1, <2>2, <2>3, <2>4, <2>5, <2>6 DEF PendingIsUnapplied
<1> QED BY <1>8, <1>9, <1>10 DEF EvolutionInv

(* The upsert never clears a flag and sets one only from an applied call.  *)
LEMMA UpsertedEffect ==
  ASSUME TypeOK, NEW call \in calls
  PROVE  /\ Upserted(call) \in Entries
         /\ Upserted(call).applied <=> call.entry.applied \/ rows[call.id].applied
  <1>1. call.id \in Patches /\ call.entry \in Entries
    BY DEF TypeOK
  <1>2. rows[call.id].applied \in BOOLEAN
    BY <1>1, AbsentFields DEF TypeOK, Entries
  <1> QED BY <1>1, <1>2 DEF Upserted, Entries

LEMMA StoreArrivesKeepsInv ==
  ASSUME EvolutionInv, NEW call \in calls, StoreArrives(call)
  PROVE  EvolutionInv'
<1>1. TypeOK /\ call.id \in Patches
  BY DEF EvolutionInv, TypeOK
<1>2. /\ Upserted(call) \in Entries
      /\ Upserted(call).applied <=> call.entry.applied \/ rows[call.id].applied
  BY <1>1, UpsertedEffect
<1>3. /\ calls' = calls \ {call}
      /\ rows' = [rows EXCEPT ![call.id] = Upserted(call)]
      /\ UNCHANGED <<store, pending, backup, restoring, approved, incidents>>
  BY DEF StoreArrives, runtime, history
<1>4. TypeOK'
  BY <1>1, <1>2, <1>3 DEF TypeOK
<1>5. OnlyApprovedApplied'
  BY <1>1, <1>2, <1>3 DEF EvolutionInv, OnlyApprovedApplied, TypeOK
<1>6. PendingIsUnapplied'
  BY <1>3 DEF EvolutionInv, PendingIsUnapplied
<1> QED BY <1>4, <1>5, <1>6 DEF EvolutionInv

LEMMA EvolutionInvNext == EvolutionInv /\ [Next]_vars => EvolutionInv'
<1> SUFFICES ASSUME EvolutionInv, [Next]_vars PROVE EvolutionInv'
  OBVIOUS
<1> USE DEF EvolutionInv
<1>1. ASSUME NEW S \in SUBSET Patches, NEW level \in [S -> Levels], Evolve(S, level)
      PROVE  EvolutionInv'
  BY <1>1, EvolveKeepsInv
<1>2. ASSUME NEW p \in Patches, ApplyHarnessPatch(p) PROVE EvolutionInv'
  BY <1>2, ApplyKeepsInv
<1>3. ASSUME NEW call \in calls, StoreArrives(call) PROVE EvolutionInv'
  BY <1>3, StoreArrivesKeepsInv
<1>4. ASSUME NEW call \in calls, StoreLost(call) PROVE EvolutionInv'
  BY <1>4 DEF StoreLost, runtime, memory, TypeOK, OnlyApprovedApplied,
              PendingIsUnapplied
<1>5. CASE RuntimeRestart
  <2>1. TypeOK'
    BY <1>5 DEF RuntimeRestart, NoRows, memory, history, TypeOK
  <2>2. OnlyApprovedApplied'
    BY <1>5, AbsentFields
       DEF RuntimeRestart, NoRows, memory, history, OnlyApprovedApplied
  <2>3. PendingIsUnapplied'
    BY <1>5 DEF RuntimeRestart, NoRows, PendingIsUnapplied
  <2> QED BY <2>1, <2>2, <2>3
<1>6. CASE DumpState
  BY <1>6 DEF DumpState, runtime, history, TypeOK, OnlyApprovedApplied,
              PendingIsUnapplied
<1>7. CASE RestoreState
  BY <1>7 DEF RestoreState, runtime, history, TypeOK, OnlyApprovedApplied,
              PendingIsUnapplied
<1>8. CASE MemoryRestart
  BY <1>8 DEF MemoryRestart, runtime, TypeOK, OnlyApprovedApplied,
              PendingIsUnapplied
<1>9. CASE UNCHANGED vars
  BY <1>9 DEF vars, runtime, memory, history, TypeOK, OnlyApprovedApplied,
              PendingIsUnapplied
<1> QED BY <1>1, <1>2, <1>3, <1>4, <1>5, <1>6, <1>7, <1>8, <1>9 DEF Next

LEMMA EvolutionInvariant == Spec => []EvolutionInv
  BY EvolutionInvInit, EvolutionInvNext, PTL DEF Spec

(* The variables of evolution-service.ts, of the memory store's table and  *)
(* of the calls between them keep their types.                             *)
THEOREM EvolutionTypeCorrect == Spec => []TypeOK
  BY EvolutionInvariant, PTL DEF EvolutionInv

(* evolution-service.ts "never auto-applies": whatever is applied anywhere *)
(* was asked for by a human, at a confidence that allows it.               *)
THEOREM AppliedWasApproved == Spec => []OnlyApprovedApplied
  BY EvolutionInvariant, PTL DEF EvolutionInv

(* storePendingPatch and applyPatch keep the two maps in step.             *)
THEOREM MapsAgree == Spec => []PendingIsUnapplied
  BY EvolutionInvariant, PTL DEF EvolutionInv

(* The table's upsert never takes an application back.                     *)
THEOREM AppliedStaysApplied == Spec => AppliedIsFinal
<1>1. ASSUME TypeOK, [Next]_vars
      PROVE  [MemoryRestart \/ \A p \in Patches :
                rows[p].applied => rows'[p].applied]_vars
  <2>1. ASSUME NEW call \in calls, StoreArrives(call), NEW p \in Patches,
               rows[p].applied
        PROVE  rows'[p].applied
    BY <1>1, <2>1, UpsertedEffect DEF StoreArrives, TypeOK
  <2>2. CASE rows' = rows
    BY <2>2
  <2>3. \/ MemoryRestart \/ rows' = rows
        \/ \E call \in calls : StoreArrives(call)
    BY <1>1 DEF Next, vars, Evolve, ApplyHarnessPatch, StoreLost, RuntimeRestart,
                DumpState, RestoreState, memory
  <2> QED BY <2>1, <2>2, <2>3
<1> QED BY <1>1, EvolutionTypeCorrect, PTL DEF Spec, AppliedIsFinal

(* AppliedIsPersisted is not part of EvolutionInv, but rests on it: what a *)
(* call carries when it arrives is an entry, whose flag the upsert keeps.  *)
(* Every applied entry was stored with a call that says so; the call stays *)
(* until it has flagged the row, and the row stays flagged.                *)
LEMMA PersistedOf ==
  ASSUME TypeOK, NEW p \in Patches,
         rows[p].applied \/ \E call \in calls : call.id = p /\ call.entry.applied,
         [Next]_vars, incidents' = {}
  PROVE  rows'[p].applied \/ \E call \in calls' : call.id = p /\ call.entry.applied
<1>1. ASSUME NEW call \in calls, StoreArrives(call)
      PROVE  rows'[p].applied \/ \E c \in calls' : c.id = p /\ c.entry.applied
  <2>1. rows' = [rows EXCEPT ![call.id] = Upserted(call)]
    BY <1>1 DEF StoreArrives
  <2>2. /\ call.id \in Patches /\ call.entry \in Entries
        /\ rows \in [Patches -> {Absent} \cup Entries]
    BY DEF TypeOK
  <2>3. Upserted(call).applied <=> call.entry.applied \/ rows[call.id].applied
    BY UpsertedEffect
  <2>4. CASE call.id = p /\ (call.entry.applied \/ rows[p].applied)
    BY <2>1, <2>2, <2>3, <2>4
  <2>5. CASE rows[p].applied /\ call.id # p
    BY <2>1, <2>2, <2>5
  <2>6. CASE \E c \in calls \ {call} : c.id = p /\ c.entry.applied
    BY <1>1, <2>6 DEF StoreArrives
  <2> QED  BY <2>4, <2>5, <2>6
<1>2. CASE rows' = rows /\ calls \subseteq calls'
  BY <1>2
<1>3. \/ rows' = rows /\ calls \subseteq calls'
      \/ \E call \in calls : StoreArrives(call)
  BY DEF Next, vars, Evolve, ApplyHarnessPatch, Stored, StoreLost, RuntimeRestart,
         DumpState, RestoreState, MemoryRestart, runtime, memory, history
<1> QED  BY <1>1, <1>2, <1>3

(* evolution-service.ts: a patch it reports as applied is flagged in the   *)
(* memory store's table or its call is on the way, unless a call was lost  *)
(* or a dump restored.                                                     *)
THEOREM AppliedReachesTable == Spec => []AppliedIsPersisted
<1>1. Init => AppliedIsPersisted
  BY AbsentFields DEF Init, NoRows, AppliedIsPersisted
<1>2. EvolutionInv /\ AppliedIsPersisted /\ [Next]_vars => AppliedIsPersisted'
  <2> SUFFICES ASSUME EvolutionInv, AppliedIsPersisted, [Next]_vars, incidents' = {},
                      NEW p \in Patches, store'[p].applied
               PROVE  \/ rows'[p].applied
                      \/ \E call \in calls' : call.id = p /\ call.entry.applied
    BY DEF AppliedIsPersisted
  <2>1. TypeOK /\ incidents = {}
    BY DEF EvolutionInv, Next, vars, Evolve, ApplyHarnessPatch, StoreArrives,
           StoreLost, RuntimeRestart, DumpState, RestoreState, MemoryRestart,
           runtime, memory, history
  <2>2. CASE store[p].applied
    BY <2>1, <2>2, PersistedOf DEF AppliedIsPersisted
  <2>3. ASSUME NEW S \in SUBSET Patches, NEW entryOf, Stored(S, entryOf), p \in S
        PROVE  \E call \in calls' : call.id = p /\ call.entry.applied
    <3>1. store'[p] = entryOf[p] /\ Call(p, entryOf[p]) \in calls'
      BY <2>3 DEF Stored
    <3> QED  BY <3>1 DEF Call
  <2>4. CASE ~store[p].applied
    <3>1. ASSUME NEW S \in SUBSET Patches, NEW entryOf, Stored(S, entryOf)
          PROVE  p \in S
      BY <2>4, <3>1 DEF Stored
    <3>2. CASE store' = store
      BY <2>4, <3>2
    <3>3. ASSUME NEW S \in SUBSET Patches, NEW level \in [S -> Levels], Evolve(S, level)
          PROVE  \E call \in calls' : call.id = p /\ call.entry.applied
      BY <2>3, <3>1, <3>3 DEF Evolve
    <3>4. ASSUME NEW q \in Patches, ApplyHarnessPatch(q)
          PROVE  \E call \in calls' : call.id = p /\ call.entry.applied
      BY <2>3, <3>1, <3>4 DEF ApplyHarnessPatch
    <3>5. CASE RuntimeRestart
      BY <3>5, AbsentFields DEF RuntimeRestart, NoRows
    <3>6. \/ store' = store \/ RuntimeRestart
          \/ \E S \in SUBSET Patches : \E level \in [S -> Levels] : Evolve(S, level)
          \/ \E q \in Patches : ApplyHarnessPatch(q)
      BY DEF Next, vars, StoreArrives, StoreLost, DumpState, RestoreState,
             MemoryRestart, runtime
    <3> QED  BY <3>2, <3>3, <3>4, <3>5, <3>6
  <2> QED  BY <2>2, <2>4
<1> QED  BY <1>1, <1>2, EvolutionInvariant, PTL DEF Spec

(* The maps of evolution-service.ts, its calls and the memory store's      *)
(* table agree (PatchesAgree).                                             *)
THEOREM PatchesAlwaysAgree == Spec => []PatchesAgree
<1>1. PendingIsUnapplied /\ AppliedIsPersisted => PatchesAgree
  BY DEF PatchesAgree
<1> QED  BY <1>1, MapsAgree, AppliedReachesTable, PTL

-----------------------------------------------------------------------------
(* One Orchestrator.execute.  Texts are what a worker may write; retries   *)
(* are configured as a number.                                             *)
Written == [terms : SUBSET Terms, marks : SUBSET Marks, length : Nat]

PipelineBounds == /\ Texts \subseteq Written
                  /\ RetrySettings \subseteq Int /\ TaskLength \in Nat

PipelineTypes ==
  /\ config \in [enabled : BOOLEAN, worker : BOOLEAN, thinker : BOOLEAN, retries : Int]
  /\ steps \in Seq(Written) /\ results \in Seq(Written)
  /\ output.terms \subseteq Terms /\ output.marks \subseteq Marks
  /\ attempt \in Nat /\ workerCalls \in Nat
  /\ stage \in {"called", "working", "verifying", "returned", "threw"}
  /\ passed \in BOOLEAN
  /\ modelUsed \in {"none", "thinkerModel", "workerModel"}

(* Nothing has happened yet to a call, nor to one that threw; only a       *)
(* worker works, on the steps there are; the retries are kept to; and only *)
(* a worker with steps is sent a summary.                                  *)
AttemptsKept ==
  /\ stage \in {"called", "threw"} =>
       /\ steps = <<>> /\ attempt = 0 /\ workerCalls = 0
       /\ feedback = None
  /\ stage = "working" => config.worker /\ Len(results) < Len(steps)
  /\ stage # "working" => results = <<>>
  /\ stage = "verifying" => attempt <= maxRetries
  /\ attempt > 0 => attempt <= maxRetries
  /\ stage # "returned" => ~passed
  /\ prompted # None => config.worker /\ steps # <<>>

PipelineInv == PipelineTypes /\ AttemptsKept /\ AttemptsApart

LEMMA JoinedTypes ==
  ASSUME NEW texts \in Seq(Written)
  PROVE  Joined(texts).terms \subseteq Terms /\ Joined(texts).marks \subseteq Marks
<1>1. \A i \in DOMAIN texts : texts[i].terms \subseteq Terms /\ texts[i].marks \subseteq Marks
  <2> SUFFICES ASSUME NEW i \in DOMAIN texts
               PROVE  texts[i].terms \subseteq Terms /\ texts[i].marks \subseteq Marks
    OBVIOUS
  <2>1. texts[i] \in Written
    OBVIOUS
  <2> QED  BY <2>1 DEF Written
<1> QED  BY <1>1 DEF Joined

LEMMA PipelineInvInit == ASSUME PipelineBounds, PipelineInit PROVE PipelineInv
<1>1. /\ stage = "called" /\ steps = <<>> /\ results = <<>> /\ attempt = 0 /\ output = Blank
      /\ prompted = None /\ passed = FALSE /\ feedback = None /\ modelUsed = "none"
      /\ workerCalls = 0
  BY DEF PipelineInit
<1>2. config \in [enabled : BOOLEAN, worker : BOOLEAN, thinker : BOOLEAN, retries : Int]
  <2>1. ConfiguredRetries \subseteq Int
    BY DEF PipelineBounds, ConfiguredRetries, DefaultRetries
  <2> QED  BY <2>1 DEF PipelineInit
<1>3. PipelineTypes
  <2>1. /\ steps \in Seq(Written) /\ results \in Seq(Written) /\ attempt \in Nat
        /\ workerCalls \in Nat
    BY <1>1
  <2>3. passed \in BOOLEAN
    BY <1>1, Zenon
  <2>2. output.terms \subseteq Terms /\ output.marks \subseteq Marks
    BY <1>1 DEF Blank
  <2> QED  BY <1>1, <1>2, <2>1, <2>2, <2>3 DEF PipelineTypes
<1>4. AttemptsKept
  BY <1>1 DEF AttemptsKept
<1>5. OneAnswerPerStep
  BY <1>1 DEF OneAnswerPerStep
<1>6. VerdictIsOfOutput /\ FeedbackIsOfLastFailure
  BY <1>1 DEF VerdictIsOfOutput, FeedbackIsOfLastFailure
<1> QED  BY <1>3, <1>4, <1>5, <1>6 DEF PipelineInv, AttemptsApart

LEMMA ExecuteStep == ASSUME PipelineInv, Execute PROVE PipelineInv'
<1>1. /\ stage = "called" /\ stage' = "threw"
      /\ UNCHANGED <<config, steps, results, attempt, output, prompted, passed, feedback,
                     modelUsed, workerCalls>>
  BY DEF Execute, setting, judged
<1>2. PipelineTypes'
  BY <1>1 DEF PipelineInv, PipelineTypes
<1>3. AttemptsKept'
  BY <1>1 DEF PipelineInv, AttemptsKept, maxRetries
<1>4. OneAnswerPerStep'
  BY <1>1 DEF PipelineInv, AttemptsApart, OneAnswerPerStep
<1>5. VerdictIsOfOutput' /\ FeedbackIsOfLastFailure'
  BY <1>1 DEF PipelineInv, AttemptsApart, VerdictIsOfOutput, FeedbackIsOfLastFailure,
              maxRetries, Failure
<1> QED  BY <1>2, <1>3, <1>4, <1>5 DEF PipelineInv, AttemptsApart

LEMMA DecomposeStep == ASSUME PipelineBounds, PipelineInv, Decompose PROVE PipelineInv'
<1>1. PICK split \in Decomposed :
        /\ steps' = split
        /\ IF config.worker /\ split # <<>>
           THEN stage' = "working" /\ UNCHANGED output
           ELSE /\ output' = Joined(split)
                /\ stage' = IF attempt <= maxRetries THEN "verifying" ELSE "returned"
  BY DEF Decompose, Verified
<1>2. /\ stage = "called" /\ modelUsed' = routeModel(classifyComplexity(described))
      /\ UNCHANGED <<config, results, attempt, prompted, passed, feedback, workerCalls>>
  BY DEF Decompose, setting, judged
<1>3. split \in Seq(Written)
  <2>1. Description \in Written
    BY DEF Description, Written, PipelineBounds
  <2>2. <<>> \in Seq(Written) /\ <<Description>> \in Seq(Written)
    BY <2>1
  <2>3. [1..2 -> Texts \ {Blank}] \subseteq Seq(Written)
    <3> SUFFICES ASSUME NEW f \in [1..2 -> Texts \ {Blank}] PROVE f \in Seq(Written)
      OBVIOUS
    <3>1. f \in [1..2 -> Written]
      BY DEF PipelineBounds, Written
    <3> QED  BY <3>1, SeqDef
  <2> QED  BY <2>2, <2>3 DEF Decomposed
<1>4. /\ steps = <<>> /\ attempt = 0 /\ workerCalls = 0 /\ feedback = None /\ results = <<>>
      /\ passed = FALSE /\ prompted = None
  BY <1>2 DEF PipelineInv, PipelineTypes, AttemptsKept
<1>5. stage' \in {"working", "verifying", "returned"}
  BY <1>1
<1>6. PipelineTypes'
  <2>1. output.terms' \subseteq Terms /\ output.marks' \subseteq Marks
    BY <1>1, <1>3, JoinedTypes DEF PipelineInv, PipelineTypes
  <2>2. modelUsed' \in {"none", "thinkerModel", "workerModel"}
    BY <1>2 DEF routeModel
  <2> QED  BY <1>1, <1>2, <1>3, <1>5, <2>1, <2>2 DEF PipelineInv, PipelineTypes
<1>7. Len(split) \in Nat /\ (split # <<>> => Len(split) > 0) /\ (split = <<>> => Len(split) = 0)
  BY <1>3
<1>8. AttemptsKept'
  BY <1>1, <1>2, <1>4, <1>5, <1>7 DEF AttemptsKept, maxRetries
<1>9. OneAnswerPerStep'
  <2> SUFFICES ASSUME config.worker
               PROVE  workerCalls' = Len(steps') * (IF stage' = "working" THEN attempt'
                                                    ELSE attempt' + 1) + Len(results')
    BY <1>2, <1>4 DEF OneAnswerPerStep
  <2>1. CASE split # <<>>
    BY <1>1, <1>2, <1>4, <1>7, <2>1
  <2>2. CASE split = <<>>
    BY <1>1, <1>2, <1>4, <1>5, <2>2
  <2> QED  BY <2>1, <2>2
<1>10. VerdictIsOfOutput'
  <2> SUFFICES ASSUME stage' = "returned" PROVE passed' = FALSE /\ ~(maxRetries' >= 0)
    BY Zenon DEF VerdictIsOfOutput
  <2>1. ~(0 <= maxRetries) /\ maxRetries' = maxRetries /\ maxRetries \in Int
    BY <1>1, <1>2, <1>4 DEF maxRetries, PipelineInv, PipelineTypes
  <2> QED  BY <1>2, <1>4, <2>1
<1>11. FeedbackIsOfLastFailure'
  <2>1. stage' = "returned" => maxRetries' < 0 /\ ~(maxRetries' >= 0)
    BY <1>1, <1>2, <1>4 DEF maxRetries, PipelineInv, PipelineTypes
  <2> QED  BY <1>2, <1>4, <2>1 DEF FeedbackIsOfLastFailure
<1> QED  BY <1>6, <1>8, <1>9, <1>10, <1>11 DEF PipelineInv, AttemptsApart

(* The worker's answer to a step joins those of this attempt.              *)
LEMMA WorkerStep == ASSUME PipelineBounds, PipelineInv, Worker PROVE PipelineInv'
<1>1. PICK text \in Texts \cup {Placeholder(steps[Len(results) + 1])} : WorkerAnswers(text)
  BY DEF Worker
<1>2. /\ stage = "working" /\ workerCalls' = workerCalls + 1
      /\ UNCHANGED <<config, steps, attempt, prompted, passed, feedback, modelUsed>>
      /\ IF Len(results) + 1 < Len(steps)
         THEN results' = Append(results, text) /\ UNCHANGED <<stage, output>>
         ELSE /\ output' = Joined(Append(results, text))
              /\ results' = <<>>
              /\ stage' = IF attempt <= maxRetries THEN "verifying" ELSE "returned"
  BY <1>1 DEF WorkerAnswers, Verified, setting, judged
<1>3. /\ steps \in Seq(Written) /\ results \in Seq(Written) /\ attempt \in Nat
      /\ workerCalls \in Nat /\ Len(steps) \in Nat /\ Len(results) \in Nat
      /\ Len(results) < Len(steps) /\ config.worker
      /\ workerCalls = Len(steps) * attempt + Len(results)
  BY <1>2 DEF PipelineInv, PipelineTypes, AttemptsKept, AttemptsApart, OneAnswerPerStep
<1>4. text \in Written
  <2>1. steps[Len(results) + 1] \in Written
    BY <1>3
  <2>2. Placeholder(steps[Len(results) + 1]) \in Written
    BY <2>1 DEF Placeholder, Written
  <2> QED  BY <1>1, <2>2 DEF PipelineBounds, Written
<1>5. /\ Append(results, text) \in Seq(Written)
      /\ Len(Append(results, text)) = Len(results) + 1
  BY <1>3, <1>4, AppendProperties
<1>6. stage' \in {"working", "verifying", "returned"}
  BY <1>2
<1>7. PipelineTypes'
  <2>1. output.terms' \subseteq Terms /\ output.marks' \subseteq Marks
    BY <1>2, <1>5, JoinedTypes DEF PipelineInv, PipelineTypes
  <2>2. results' \in Seq(Written)
    <3>1. results' = <<>> \/ results' = Append(results, text)
      BY <1>2
    <3>2. <<>> \in Seq(Written)
      OBVIOUS
    <3> QED  BY <1>5, <3>1, <3>2
  <2>3. workerCalls' \in Nat
    BY <1>2, <1>3
  <2> QED  BY <1>2, <1>6, <2>1, <2>2, <2>3 DEF PipelineInv, PipelineTypes
<1>8. ~passed
  BY <1>2 DEF PipelineInv, AttemptsKept
<1>9. AttemptsKept'
  BY <1>2, <1>3, <1>5, <1>6 DEF PipelineInv, AttemptsKept, maxRetries
<1>10. OneAnswerPerStep'
  <2>1. stage' # "working" => results' = <<>>
    BY <1>2
  <2>2. CASE Len(results) + 1 < Len(steps)
    <3>1. Len(steps) * attempt \in Nat
      BY <1>3
    <3>2. PICK n \in Nat : n = Len(steps) * attempt
      BY <3>1
    <3>3. workerCalls = n + Len(results) /\ Len(results') = Len(results) + 1
      BY <1>2, <1>3, <1>5, <2>2, <3>2
    <3>4. workerCalls' = workerCalls + 1 /\ stage' = "working" /\ Len(results) \in Nat
      BY <1>2, <1>3, <2>2
    <3>5. workerCalls' = n + Len(results')
      BY <3>2, <3>3, <3>4
    <3> QED  BY <1>2, <3>2, <3>4, <3>5 DEF OneAnswerPerStep
  <2>3. CASE ~(Len(results) + 1 < Len(steps))
    <3>1. Len(steps) = Len(results) + 1
      BY <1>3, <2>3
    <3>2. Len(steps) * (attempt + 1) = Len(steps) * attempt + Len(steps)
      BY <1>3
    <3>3. /\ workerCalls' = Len(steps') * (attempt' + 1) + Len(results')
          /\ stage' # "working"
      BY <1>2, <1>3, <2>3, <3>1, <3>2
    <3> QED  BY <2>1, <3>3 DEF OneAnswerPerStep
  <2> QED  BY <2>2, <2>3
<1>11. stage' = "returned" => attempt = 0 /\ maxRetries' < 0 /\ ~(maxRetries' >= 0)
  BY <1>2, <1>3 DEF maxRetries, PipelineInv, PipelineTypes, AttemptsKept
<1>12. VerdictIsOfOutput'
  <2> SUFFICES ASSUME stage' = "returned" PROVE passed' = FALSE /\ ~(maxRetries' >= 0)
    BY Zenon DEF VerdictIsOfOutput
  <2> QED  BY <1>2, <1>8, <1>11 DEF PipelineInv, PipelineTypes
<1>13. FeedbackIsOfLastFailure'
  BY <1>2, <1>6, <1>11 DEF PipelineInv, AttemptsApart, FeedbackIsOfLastFailure
<1> QED  BY <1>7, <1>9, <1>10, <1>12, <1>13 DEF PipelineInv, AttemptsApart

LEMMA VerifyPassesStep == ASSUME PipelineInv, VerifyPasses PROVE PipelineInv'
<1>1. /\ stage = "verifying" /\ stage' = "returned" /\ passed' = TRUE
      /\ Failure(output) = {}
      /\ UNCHANGED <<config, steps, results, attempt, output, prompted, feedback,
                     modelUsed, workerCalls>>
  BY DEF VerifyPasses, setting
<1>2. PipelineTypes'
  <2>1. passed' \in BOOLEAN
    BY <1>1, Zenon
  <2> QED  BY <1>1, <2>1 DEF PipelineInv, PipelineTypes
<1>3. AttemptsKept'
  BY <1>1 DEF PipelineInv, AttemptsKept, maxRetries
<1>4. OneAnswerPerStep'
  BY <1>1 DEF PipelineInv, AttemptsApart, OneAnswerPerStep
<1>5. maxRetries' >= 0
  BY <1>1 DEF PipelineInv, PipelineTypes, AttemptsKept, maxRetries
<1>6. Failure(output)' = {}
  BY <1>1 DEF Failure
<1>7. VerdictIsOfOutput'
  BY <1>1, <1>5, <1>6, Zenon DEF VerdictIsOfOutput
<1>8. FeedbackIsOfLastFailure'
  BY <1>1 DEF PipelineInv, AttemptsApart, FeedbackIsOfLastFailure
<1> QED  BY <1>2, <1>3, <1>4, <1>7, <1>8 DEF PipelineInv, AttemptsApart

(* A failed verdict ends the call at the last retry and otherwise begins   *)
(* an attempt, which a worker with steps is sent the summary for.          *)
LEMMA VerifyFailsStep == ASSUME PipelineInv, VerifyFails PROVE PipelineInv'
<1>1. /\ stage = "verifying" /\ passed' = FALSE /\ feedback' = Failure(output)
      /\ Failure(output) # {}
      /\ UNCHANGED <<config, steps, results, modelUsed, workerCalls>>
      /\ \/ /\ attempt = maxRetries /\ stage' = "returned"
            /\ UNCHANGED <<attempt, output, prompted>>
         \/ /\ attempt # maxRetries /\ attempt' = attempt + 1
            /\ \/ /\ config.worker /\ steps # <<>> /\ stage' = "working"
                  /\ prompted' = Failure(output) /\ UNCHANGED output
               \/ /\ config.worker /\ steps = <<>> /\ output' = Blank
                  /\ UNCHANGED <<stage, prompted>>
               \/ /\ ~config.worker
                  /\ output' = [output EXCEPT !.marks = @ \ {"ERROR", "error"}]
                  /\ UNCHANGED <<stage, prompted>>
  BY DEF VerifyFails, setting
<1>2. /\ steps \in Seq(Written) /\ results = <<>> /\ attempt \in Nat /\ workerCalls \in Nat
      /\ attempt <= maxRetries /\ maxRetries \in Int
      /\ config.worker => workerCalls = Len(steps) * (attempt + 1)
      /\ Len(steps) \in Nat /\ (steps = <<>> <=> Len(steps) = 0) /\ Len(results) = 0
  <2>1. /\ steps \in Seq(Written) /\ results = <<>> /\ attempt \in Nat /\ workerCalls \in Nat
        /\ attempt <= maxRetries /\ maxRetries \in Int
    BY <1>1 DEF PipelineInv, PipelineTypes, AttemptsKept, maxRetries
  <2>2. Len(steps) \in Nat /\ (steps = <<>> <=> Len(steps) = 0) /\ Len(results) = 0
    BY <2>1
  <2>3. config.worker => workerCalls = Len(steps) * (attempt + 1) + Len(results)
    BY <1>1 DEF PipelineInv, AttemptsApart, OneAnswerPerStep
  <2>4. Len(steps) * (attempt + 1) \in Nat
    BY <2>1, <2>2
  <2> QED  BY <2>1, <2>2, <2>3, <2>4
<1>3. \/ stage' = "returned" /\ attempt' = attempt /\ output' = output
      \/ /\ attempt' = attempt + 1 /\ attempt' <= maxRetries
         /\ stage' \in {"working", "verifying"}
  BY <1>1, <1>2
<1>4. maxRetries' = maxRetries
  BY <1>1 DEF maxRetries
<1>5. PipelineTypes'
  <2>1. output.terms' \subseteq Terms /\ output.marks' \subseteq Marks
    <3>1. CASE output' = output
      BY <3>1 DEF PipelineInv, PipelineTypes
    <3>2. CASE output' = Blank
      BY <3>2 DEF Blank
    <3>3. CASE output' = [output EXCEPT !.marks = @ \ {"ERROR", "error"}]
      BY <3>3 DEF PipelineInv, PipelineTypes
    <3> QED  BY <1>1, <3>1, <3>2, <3>3
  <2>2. passed' \in BOOLEAN
    BY <1>1, Zenon
  <2>3. attempt' \in Nat
    BY <1>2, <1>3
  <2> QED  BY <1>1, <1>3, <2>1, <2>2, <2>3 DEF PipelineInv, PipelineTypes
<1>6. AttemptsKept'
  <2>1. /\ stage' \notin {"called", "threw"} /\ results' = <<>> /\ attempt' <= maxRetries'
        /\ ~passed'
    BY <1>1, <1>2, <1>3, <1>4
  <2>2. stage' = "working" => config'.worker /\ Len(results') < Len(steps')
    BY <1>1, <1>2
  <2>3. prompted' # None => config'.worker /\ steps' # <<>>
    BY <1>1 DEF PipelineInv, AttemptsKept
  <2> QED  BY <2>1, <2>2, <2>3 DEF AttemptsKept
<1>7. OneAnswerPerStep'
  <2> SUFFICES ASSUME config.worker
               PROVE  workerCalls' = Len(steps') * (IF stage' = "working" THEN attempt'
                                                    ELSE attempt' + 1) + Len(results')
    BY <1>1, <1>2 DEF OneAnswerPerStep
  <2>1. CASE stage' = "working"
    BY <1>1, <1>2, <1>3, <2>1
  <2>2. CASE stage' = "returned"
    BY <1>1, <1>2, <1>3, <2>2
  <2>3. CASE stage' = "verifying"
    <3>1. Len(steps) = 0 /\ workerCalls = 0
      BY <1>1, <1>2, <2>3
    <3> QED  BY <1>1, <1>2, <1>3, <2>3, <3>1
  <2> QED  BY <1>3, <2>1, <2>2, <2>3
<1>8. VerdictIsOfOutput'
  <2> SUFFICES ASSUME stage' = "returned" PROVE passed' = FALSE /\ Failure(output)' # {}
    BY Zenon DEF VerdictIsOfOutput
  <2> QED  BY <1>1, <1>3 DEF Failure
<1>9. FeedbackIsOfLastFailure'
  <2>1. attempt' = 0 => stage' = "returned" /\ ~passed' /\ ~(maxRetries' < 0)
    BY <1>1, <1>2, <1>3, <1>4
  <2>2. stage' = "returned" => feedback' = Failure(output)'
    BY <1>1, <1>3 DEF Failure
  <2>3. prompted' # None => attempt' > 0 /\ (passed' \/ stage' # "returned" => prompted' = feedback')
    BY <1>1, <1>2 DEF PipelineInv, AttemptsKept, AttemptsApart, FeedbackIsOfLastFailure
  <2>4. feedback' # None
    BY <1>1 DEF None
  <2> QED  BY <2>1, <2>2, <2>3, <2>4 DEF FeedbackIsOfLastFailure
<1> QED  BY <1>5, <1>6, <1>7, <1>8, <1>9 DEF PipelineInv, AttemptsApart

-----------------------------------------------------------------------------
LEMMA PipelineInvStep ==
  ASSUME PipelineBounds, PipelineInv, [PipelineNext]_pipelineVars PROVE PipelineInv'
<1>1. CASE UNCHANGED pipelineVars
  BY <1>1 DEF pipelineVars, setting, judged, PipelineInv, PipelineTypes, AttemptsKept,
              AttemptsApart, OneAnswerPerStep, VerdictIsOfOutput, FeedbackIsOfLastFailure,
              maxRetries, Failure
<1> QED  BY <1>1, ExecuteStep, DecomposeStep, WorkerStep, VerifyPassesStep, VerifyFailsStep
         DEF PipelineNext

LEMMA PipelineInvariant == PipelineBounds => (PipelineSpec => []PipelineInv)
<1> SUFFICES ASSUME PipelineBounds PROVE PipelineSpec => []PipelineInv
  OBVIOUS
<1>1. PipelineInit => PipelineInv
  BY PipelineInvInit
<1>2. PipelineInv /\ [PipelineNext]_pipelineVars => PipelineInv'
  BY PipelineInvStep
<1> QED  BY <1>1, <1>2, PTL DEF PipelineSpec

(* Whatever the task and the workers' texts are, and whatever number of    *)
(* retries is configured: the output has one answer for each step, the     *)
(* verdict returned is that output's, and a retry is told why the attempt  *)
(* before it failed (Orchestrator.execute).                                *)
THEOREM AttemptsAlwaysApart == PipelineBounds => (PipelineSpec => []AttemptsApart)
<1>1. PipelineInv => AttemptsApart
  BY DEF PipelineInv
<1> QED  BY <1>1, PipelineInvariant, PTL

(* What the pipeline holds is of its types, and it makes at most three     *)
(* attempts, whatever is configured.                                       *)
THEOREM PipelineTypeCorrect == PipelineBounds => (PipelineSpec => []PipelineTypeOK)
<1>1. PipelineInv => PipelineTypeOK
  <2> SUFFICES ASSUME PipelineInv PROVE PipelineTypeOK
    OBVIOUS
  <2>1. attempt \in 0..2
    BY DEF PipelineInv, PipelineTypes, AttemptsKept, maxRetries
  <2> QED  BY <2>1 DEF PipelineInv, PipelineTypes, AttemptsKept, PipelineTypeOK
<1> QED  BY <1>1, PipelineInvariant, PTL

-----------------------------------------------------------------------------
(* The skills engine.                                                      *)

(* Files that are missing or do not parse are no set of manifests.         *)
Distinct == NoFile \notin SUBSET Manifests /\ Torn \notin SUBSET Manifests

BoxOK(c) ==
  /\ pc[c] = "idle" => report[c] = "none" /\ limit[c] = "unset"
  /\ pc[c] \in {"idle", "creating"} => container[c] = "none"
  /\ container[c] = "none" => stopper[c] = "idle"
  /\ exit[c] # "none" => container[c] \in {"exited", "gone"}
  /\ pc[c] = "killing" => limit[c] = "fired"
  /\ pc[c] = "inspecting" /\ limit[c] # "fired" /\ c \notin unwaited =>
       exit[c] # "none" /\ code[c] = exit[c]
  /\ pc[c] = "answered" /\ c \notin abandoned => container[c] \in {"none", "gone"}
  /\ report[c] = "zero" /\ c \notin unwaited => exit[c] = "zero"

BoxInv == Box!SandboxTypeOK /\ \A c \in Calls : BoxOK(c)

LEMMA BoxInit == Box!Init => BoxInv
  BY DEF Box!Init, BoxInv, BoxOK, Box!SandboxTypeOK, Box!Steps, Box!Codes

(* What a step of one call leaves of the others.                           *)
BoxStep(c) == \/ Box!RunTool(c) \/ Box!Daemon(c) \/ Box!LimitPasses(c) \/ Box!Stop(c)
              \/ \E how \in Box!Codes : Box!ContainerExits(c, how)

LEMMA CallSteps ==
  ASSUME BoxInv, NEW c \in Calls, BoxStep(c) PROVE BoxInv'
<1> USE DEF BoxInv, BoxOK, Box!SandboxTypeOK, Box!Steps, Box!Codes,
            Box!callVars, Box!daemonVars, Box!serviceVars, Box!GoTo
<1>1. CASE Box!RunTool(c)
  BY <1>1 DEF Box!RunTool, Box!Prepared, Box!Refused, Box!detectRuntime
<1>2. CASE Box!Created(c) \/ Box!CreateFails(c) \/ Box!Attached(c)
  BY <1>2 DEF Box!Created, Box!CreateFails, Box!Attached
<1>3. CASE Box!SetupFails(c)
  BY <1>3 DEF Box!SetupFails
<1>4. CASE Box!Started(c)
  BY <1>4 DEF Box!Started
<1>5. CASE Box!WaitAnswered(c) \/ Box!WaitFails(c)
  BY <1>5 DEF Box!WaitAnswered, Box!WaitFails
<1>6. CASE Box!Killed(c) \/ Box!KillFails(c)
  BY <1>6 DEF Box!Killed, Box!KillFails, Box!Ended
<1>7. CASE Box!Inspected(c) \/ Box!InspectFails(c)
  BY <1>7 DEF Box!Inspected, Box!InspectFails, Box!Reported, Box!TimedOut
<1>8. CASE Box!Removed(c) \/ Box!RemoveFails(c)
  BY <1>8 DEF Box!Removed, Box!RemoveFails, Box!Discarded
<1>9. CASE Box!LimitPasses(c)
  BY <1>9 DEF Box!LimitPasses
<1>10. CASE Box!Stop(c)
  BY <1>10 DEF Box!Stop, Box!StopContainer, Box!StopAnswered, Box!StopRemoves, Box!Ended,
               Box!Discarded
<1>11. CASE \E how \in Box!Codes : Box!ContainerExits(c, how)
  BY <1>11 DEF Box!ContainerExits, Box!Ended
<1> QED
  BY <1>1, <1>2, <1>3, <1>4, <1>5, <1>6, <1>7, <1>8, <1>9, <1>10, <1>11
     DEF BoxStep, Box!Daemon

LEMMA ServiceSteps ==
  ASSUME BoxInv, Box!Crash \/ Box!CheckRuntime \/ UNCHANGED boxVars PROVE BoxInv'
<1> USE DEF BoxInv, BoxOK, Box!SandboxTypeOK, Box!Steps, Box!Codes,
            Box!callVars, Box!daemonVars, Box!serviceVars
<1>1. CASE Box!Crash
  BY <1>1 DEF Box!Crash
<1>2. CASE Box!CheckRuntime
  BY <1>2 DEF Box!CheckRuntime, Box!detectRuntime
<1>3. CASE UNCHANGED boxVars
  BY <1>3 DEF boxVars
<1> QED  BY <1>1, <1>2, <1>3

-----------------------------------------------------------------------------
(* The registries.                                                         *)
RegistryTypeOK ==
  /\ up \in BOOLEAN
  /\ installed \subseteq Manifests /\ market \subseteq Manifests
  /\ registryFile \in Files /\ marketFile \in Files
  /\ registryNew \in Files /\ marketNew \in Files
  /\ dump \in [registry : Files, market : Files]
  /\ unsaved \subseteq {"registry", "market"}

CallsTypeOK == manifest \in [Calls -> Manifests \cup {BuiltIn, NoManifest}]

StoreSound == \A m \in installed : verifySkillManifest(m)

EngineInv == EngineTypeOK /\ BoxInv /\ StoreSound /\ RunsOnlyVerified /\ StoreFiled

(* A file holds manifests, and as a set of them it is neither missing nor  *)
(* torn.                                                                   *)
LEMMA EntriesOfFiles ==
  ASSUME Distinct
  PROVE  /\ \A file \in Files : Listed(file) \subseteq Manifests /\ Load(file) \subseteq Manifests
         /\ \A S \in SUBSET Manifests : S \in Files /\ Listed(S) = S
         /\ \A file : Load(file) \subseteq Listed(file)
  BY DEF Distinct, Files, Listed, Load

LEMMA AlteredFiles ==
  ASSUME NEW file \in Files, NEW altered \in Altered(file) PROVE altered \in Files
<1>1. PICK m \in file : /\ altered = (file \ {m}) \cup {[m EXCEPT !.sound = FALSE]}
                        /\ file \in SUBSET Manifests
  BY DEF Altered, Files
<1>2. [m EXCEPT !.sound = FALSE] \in Manifests
  BY <1>1 DEF Manifests
<1> QED  BY <1>1, <1>2 DEF Files

(* Each operation of the registries.                                       *)
LEMMA RegistryKept ==
  ASSUME Distinct, RegistryTypeOK, StoreSound, StoreFiled, Registry
  PROVE  RegistryTypeOK' /\ StoreSound' /\ StoreFiled'
<1> USE EntriesOfFiles DEF RegistryTypeOK, StoreSound, StoreFiled, verifySkillManifest
<1> Torn \in Files
  BY DEF Files
<1>1. ASSUME NEW m \in Manifests, NEW force \in BOOLEAN, Install(m, force)
      PROVE  RegistryTypeOK' /\ StoreSound' /\ StoreFiled'
  BY <1>1 DEF Install, PersistRegistry, Of
<1>2. ASSUME NEW m \in Manifests, Publish(m)
      PROVE  RegistryTypeOK' /\ StoreSound' /\ StoreFiled'
  BY <1>2 DEF Publish, PersistMarket
<1>3. ASSUME NEW v, RemoveSkill(v) PROVE RegistryTypeOK' /\ StoreSound' /\ StoreFiled'
  BY <1>3 DEF RemoveSkill, PersistRegistry, Of
<1>4. ASSUME NEW v, InstallFromMarketplace(v)
      PROVE  RegistryTypeOK' /\ StoreSound' /\ StoreFiled'
  BY <1>4 DEF InstallFromMarketplace, Of
<1> QED  BY <1>1, <1>2, <1>3, <1>4 DEF Registry

LEMMA FilesKept ==
  ASSUME Distinct, RegistryTypeOK, StoreSound, StoreFiled, Backup \/ Stop \/ Start \/ Alter
  PROVE  RegistryTypeOK' /\ StoreSound' /\ StoreFiled'
<1> USE EntriesOfFiles DEF RegistryTypeOK, StoreSound, StoreFiled, verifySkillManifest
<1> Torn \in Files /\ NoFile \in Files
  BY DEF Files
<1>1. CASE DumpFiles
  BY <1>1 DEF DumpFiles, engineVars
<1>2. CASE RestoreFiles
  BY <1>2 DEF RestoreFiles, Staged, engineVars
<1>3. CASE Stop
  BY <1>3 DEF Stop
<1>4. CASE Start
  <2>1. /\ Current(registryFile, registryNew) \in Files
        /\ Current(marketFile, marketNew) \in Files
    BY DEF Current
  <2>2. \A m \in installed' : m.sound
    BY <1>4 DEF Start, Load
  <2> QED  BY <1>4, <2>1, <2>2 DEF Start
<1>5. CASE Alter
  BY <1>5, AlteredFiles DEF Alter, engineVars
<1> QED  BY <1>1, <1>2, <1>3, <1>4, <1>5 DEF Backup

(* A call is prepared from what is installed at that moment.               *)
LEMMA PreparedSound ==
  ASSUME CallsTypeOK, RegistryTypeOK, StoreSound, RunsOnlyVerified, NEW c \in Calls,
         \/ \E v \in Versions \cup {0} : ExecuteSkillTool(c, v)
         \/ RunBuiltIn(c)
  PROVE  CallsTypeOK' /\ RunsOnlyVerified'
<1>1. PICK m \in Manifests \cup {BuiltIn} : /\ manifest' = [manifest EXCEPT ![c] = m]
                                            /\ m.sound
  BY DEF ExecuteSkillTool, RunBuiltIn, Lookup, Of, StoreSound, verifySkillManifest,
         RegistryTypeOK, BuiltIn
<1> QED  BY <1>1 DEF CallsTypeOK, RunsOnlyVerified, verifySkillManifest

LEMMA EngineStep ==
  ASSUME Distinct, EngineInv, [EngineNext]_allEngineVars PROVE EngineInv'
<1> USE DEF EngineInv
<1>p. /\ EngineTypeOK <=> RegistryTypeOK /\ CallsTypeOK /\ Box!SandboxTypeOK
      /\ EngineTypeOK' <=> RegistryTypeOK' /\ CallsTypeOK' /\ Box!SandboxTypeOK'
  BY DEF EngineTypeOK, RegistryTypeOK, CallsTypeOK
<1>b. BoxInv' => Box!SandboxTypeOK'
  BY DEF BoxInv
<1>m. UNCHANGED manifest => CallsTypeOK' /\ RunsOnlyVerified'
  BY <1>p DEF CallsTypeOK, RunsOnlyVerified, verifySkillManifest
<1>r. UNCHANGED <<engineVars, fileVars>> => RegistryTypeOK' /\ StoreSound' /\ StoreFiled'
  BY <1>p DEF engineVars, fileVars, RegistryTypeOK, StoreSound, StoreFiled,
              verifySkillManifest, Listed
<1>1. CASE Registry
  <2>1. UNCHANGED <<manifest, boxVars>>
    BY <1>1 DEF Registry, Install, RemoveSkill, Publish, InstallFromMarketplace
  <2> QED  BY <1>1, <1>p, <1>b, <1>m, <2>1, RegistryKept, ServiceSteps
<1>2. CASE Backup \/ Stop \/ Start \/ Alter
  <2>1. UNCHANGED <<manifest, boxVars>>
    BY <1>2 DEF Backup, DumpFiles, RestoreFiles, Stop, Start, Alter
  <2> QED  BY <1>2, <1>p, <1>b, <1>m, <2>1, FilesKept, ServiceSteps
<1>3. ASSUME NEW c \in Calls, \/ \E v \in Versions \cup {0} : ExecuteSkillTool(c, v)
                              \/ RunBuiltIn(c)
      PROVE  EngineInv'
  <2>1. Box!RunTool(c) /\ UNCHANGED <<engineVars, fileVars>>
    BY <1>3 DEF ExecuteSkillTool, RunBuiltIn
  <2>2. BoxInv'
    BY <2>1, CallSteps DEF BoxStep
  <2> QED  BY <1>3, <1>p, <1>b, <1>r, <2>1, <2>2, PreparedSound
<1>4. CASE SandboxStep
  <2>1. UNCHANGED <<engineVars, fileVars>> /\ UNCHANGED manifest
    BY <1>4 DEF SandboxStep
  <2>2. BoxInv'
    BY <1>4, CallSteps, ServiceSteps DEF SandboxStep, BoxStep
  <2> QED  BY <1>p, <1>b, <1>m, <1>r, <2>1, <2>2
<1>5. CASE UNCHANGED allEngineVars
  BY <1>5, <1>p, <1>b, <1>m, <1>r, ServiceSteps DEF allEngineVars
<1> QED  BY <1>1, <1>2, <1>3, <1>4, <1>5 DEF EngineNext

LEMMA EngineInvInit == ASSUME Distinct, EngineInit PROVE EngineInv
<1>1. BoxInv
  BY BoxInit DEF EngineInit
<1>2. {} \in SUBSET Manifests /\ NoFile \in Files
  BY DEF Files
<1>3. EngineTypeOK
  BY <1>1, <1>2 DEF EngineInit, EngineTypeOK, BoxInv
<1>4. StoreSound /\ RunsOnlyVerified /\ StoreFiled
  BY DEF EngineInit, StoreSound, RunsOnlyVerified, StoreFiled, Listed
<1> QED  BY <1>1, <1>3, <1>4 DEF EngineInv

-----------------------------------------------------------------------------
(* The engine's inductive invariant holds of every behaviour.              *)
LEMMA EngineInvariant == Distinct => (EngineSpec => []EngineInv)
<1> SUFFICES ASSUME Distinct PROVE EngineSpec => []EngineInv
  OBVIOUS
<1>1. EngineInit => EngineInv
  BY EngineInvInit
<1>2. EngineInv /\ [EngineNext]_allEngineVars => EngineInv'
  BY EngineStep
<1> QED  BY <1>1, <1>2, PTL DEF EngineSpec

(* Type correctness of the engine, its files and its sandbox.              *)
THEOREM EngineTypeCorrect == Distinct => (EngineSpec => []EngineTypeOK)
<1> SUFFICES ASSUME Distinct PROVE EngineSpec => []EngineTypeOK
  OBVIOUS
<1>1. EngineInv => EngineTypeOK
  BY DEF EngineInv
<1> QED  BY <1>1, EngineInvariant, PTL

(* No tool ever runs from a manifest that was not verified, and what the   *)
(* engine lists is what its files hold, whatever was installed, published, *)
(* altered, torn, restored or restarted in whatever order.                 *)
THEOREM RegistryAlwaysHolds == Distinct => (EngineSpec => []RegistryHolds)
<1> SUFFICES ASSUME Distinct PROVE EngineSpec => []RegistryHolds
  OBVIOUS
<1>1. EngineInv => RegistryHolds
  BY DEF EngineInv, RegistryHolds
<1> QED  BY <1>1, EngineInvariant, PTL

(* executeTool and runTool: an answered call leaves no container but one   *)
(* whose removal was lost, and exit code 0 is that of a tool that ended by *)
(* itself, for any number of calls and any failure of the daemon.          *)
THEOREM AnswersAlwaysTrue == Distinct => (EngineSpec => []AnswersAreTrue)
<1> SUFFICES ASSUME Distinct PROVE EngineSpec => []AnswersAreTrue
  OBVIOUS
<1>1. EngineInv => AnswersAreTrue
  BY DEF EngineInv, BoxInv, BoxOK, AnswersAreTrue, Box!AnsweredLeavesNothing,
         Box!SuccessIsReal
<1> QED  BY <1>1, EngineInvariant, PTL

-----------------------------------------------------------------------------
(***************************************************************************)
(* The providers' streams.                                                 *)
(***************************************************************************)
IsChunks(s) == Len(s) \in Nat /\ s = [i \in 1..Len(s) |-> s[i]]
PiecesOf(c, n) == [k \in 1..n |-> <<c, k>>]

StreamTypes ==
  /\ ProviderTypeOK /\ IsChunks(out)
  /\ conversation \in Histories
  /\ sent \in [CallNumbers -> 0..Pieces] /\ held \in [CallNumbers -> Seq(CallNumbers \X (1..Pieces))]
  /\ provider # "anthropic" => block = 0
  /\ block # 0 => block = begun /\ stop = "none" /\ phase # "stopped"

(* What is held of a call is what the vendor sent of it.                   *)
PiecesHeld ==
  \A c \in CallNumbers :
    /\ c > begun => held[c] = <<>>
    /\ c <= begun /\ provider # "ollama" => held[c] = PiecesOf(c, sent[c])
    /\ c <= begun /\ provider \in {"gemini", "ollama"} => sent[c] = Pieces

(* The calls up to one were passed on, in their order, and no other.       *)
PassedOn(last) ==
  /\ {out[i].call : i \in Chunks("tool_call")} = 1..last
  /\ \A i, j \in Chunks("tool_call") : i < j => out[i].call < out[j].call

(* Before the answer ends OpenAI and Gemini hold every call, Ollama none,  *)
(* and Anthropic the one whose block is open.                              *)
CallsSoFar ==
  /\ \A i \in Chunks("tool_call") : out[i].call \in 1..begun
  /\ provider \in {"openai", "gemini"} /\ phase \in {"asked", "streaming"} =>
       Chunks("tool_call") = {} /\ order = [i \in 1..begun |-> i]
  /\ provider = "anthropic" \/ (provider = "ollama" /\ phase \in {"asked", "streaming"}) =>
       PassedOn(IF block = 0 THEN begun ELSE begun - 1)

(* Until it finishes a stream has not said so, and why it stopped is what  *)
(* it will say.                                                            *)
StopHolds ==
  /\ phase = "asked" => out = <<>>
  /\ phase \in {"asked", "streaming"} => Chunks("finish") = {}
  /\ phase \in {"asked", "streaming"} /\ provider # "anthropic" => stop = "none"
  /\ phase \in {"asked", "streaming"} => stop \in {"none", "length"}
  /\ provider = "anthropic" /\ phase = "stopped" =>
       /\ Chunks("finish") = {} /\ usage = Produced
       /\ stop # "none" /\ (stop = "tool" => begun > 0) /\ (stop = "end" => begun = 0)
  /\ Chunks("finish") # {} => stop # "none"
  /\ provider # "anthropic" /\ phase = "stopped" => Chunks("finish") # {}

(* Nothing is asked but what the conversation says.                        *)
RequestMade == request = <<>> \/ request = Request(conversation)

ProviderInv == /\ StreamTypes /\ RequestMade /\ PiecesHeld /\ CallsSoFar /\ StopHolds
               /\ CallsOwnInput /\ FinishIsComplete /\ UsageExact

LEMMA ProviderInvInit == ProviderInit => ProviderInv
<1> SUFFICES ASSUME ProviderInit PROVE ProviderInv
  OBVIOUS
<1> USE ProviderAssumption DEF ProviderInit
<1>1. out = <<>> /\ Len(out) = 0 /\ \A type : Chunks(type) = {}
  BY DEF Chunks
<1>2. StreamTypes
  <2>1. held \in [CallNumbers -> Seq(CallNumbers \X (1..Pieces))]
    OBVIOUS
  <2>2. ProviderTypeOK
    BY <2>1 DEF ProviderTypeOK, CallNumbers, Providers
  <2>3. IsChunks(out)
    BY <1>1 DEF IsChunks
  <2>4. sent \in [CallNumbers -> 0..Pieces]
    BY DEF CallNumbers
  <2> QED BY <2>1, <2>2, <2>3, <2>4 DEF StreamTypes
<1>3. PiecesHeld
  BY DEF PiecesHeld, CallNumbers
<1>4. CallsSoFar
  BY <1>1 DEF CallsSoFar, PassedOn
<1>5. StopHolds
  BY <1>1 DEF StopHolds
<1>7. RequestMade
  BY DEF RequestMade
<1>6. CallsOwnInput /\ FinishIsComplete /\ UsageExact
  BY <1>1 DEF CallsOwnInput, FinishIsComplete, UsageExact
<1> QED BY <1>2, <1>3, <1>4, <1>5, <1>6, <1>7 DEF ProviderInv

(* What is yielded comes behind what was.                                  *)
LEMMA ChunksJoin ==
  ASSUME NEW s, IsChunks(s), NEW t, IsChunks(t)
  PROVE  /\ IsChunks(s \o t) /\ Len(s \o t) = Len(s) + Len(t)
         /\ \A i \in 1..Len(s) : (s \o t)[i] = s[i]
         /\ \A i \in 1..Len(t) : (s \o t)[Len(s) + i] = t[i]
<1> DEFINE S == {s[i] : i \in 1..Len(s)} \cup {t[i] : i \in 1..Len(t)}
<1>1. s \in Seq(S) /\ t \in Seq(S)
  BY IsASeq DEF IsChunks
<1> HIDE DEF S
<1>2. s \o t \in Seq(S) /\ Len(s \o t) = Len(s) + Len(t)
  BY <1>1, ConcatProperties
<1>3. \A i \in 1..(Len(s) + Len(t)) :
         (s \o t)[i] = IF i <= Len(s) THEN s[i] ELSE t[i - Len(s)]
  BY <1>1, ConcatProperties
<1>4. Len(s) \in Nat /\ Len(t) \in Nat
  BY <1>1
<1>5. IsChunks(s \o t)
  <2>1. PICK u \in Seq(S) : u = s \o t
    BY <1>2
  <2> QED BY <2>1, LenProperties DEF IsChunks
<1>6. \A i \in 1..Len(s) : (s \o t)[i] = s[i]
  BY <1>3, <1>4
<1>7. \A i \in 1..Len(t) : (s \o t)[Len(s) + i] = t[i]
  BY <1>3, <1>4
<1> QED BY <1>2, <1>5, <1>6, <1>7

LEMMA YieldsOne ==
  ASSUME IsChunks(out), NEW x, Yield(<<x>>)
  PROVE  \E n \in Nat :
           /\ DOMAIN out = 1..n /\ DOMAIN out' = 1..(n + 1)
           /\ IsChunks(out') /\ out' # <<>> /\ out'[n + 1] = x /\ Last(out)' = x
           /\ \A i \in 1..n : out'[i] = out[i]
           /\ \A type : Chunks(type) \subseteq 1..n
           /\ \A type : x.type # type => Chunks(type)' = Chunks(type)
           /\ \A type : x.type = type => Chunks(type)' = Chunks(type) \cup {n + 1}
<1>1. IsChunks(<<x>>) /\ Len(<<x>>) = 1 /\ <<x>>[1] = x
  BY DEF IsChunks
<1>2. out' = out \o <<x>>
  BY DEF Yield
<1>3. /\ IsChunks(out') /\ Len(out') = Len(out) + 1
      /\ out'[Len(out) + 1] = x
      /\ \A i \in 1..Len(out) : out'[i] = out[i]
  BY <1>1, <1>2, ChunksJoin
<1>4. PICK n \in Nat : n = Len(out)
  BY DEF IsChunks
<1>5. DOMAIN out = 1..n /\ DOMAIN out' = 1..(n + 1)
  BY <1>3, <1>4 DEF IsChunks
<1>6. out' # <<>> /\ Last(out)' = x /\ out'[n + 1] = x /\ \A i \in 1..n : out'[i] = out[i]
  BY <1>3, <1>4, <1>5 DEF Last
<1>7. \A type : Chunks(type) \subseteq 1..n
  BY <1>5 DEF Chunks
<1>8. ASSUME NEW type, x.type # type PROVE Chunks(type)' = Chunks(type)
  BY <1>5, <1>6, <1>8 DEF Chunks
<1>9. ASSUME NEW type, x.type = type PROVE Chunks(type)' = Chunks(type) \cup {n + 1}
  BY <1>5, <1>6, <1>9 DEF Chunks
<1> QED BY <1>3, <1>5, <1>6, <1>7, <1>8, <1>9

(* The pieces of one call, as they come.                                   *)
LEMMA PiecesJoin ==
  ASSUME NEW c \in CallNumbers, NEW n \in Nat
  PROVE  /\ Len(PiecesOf(c, n)) = n
         /\ PiecesOf(c, n + 1) = Append(PiecesOf(c, n), <<c, n + 1>>)
         /\ n <= Pieces => PiecesOf(c, n) \in Seq(CallNumbers \X (1..Pieces))
<1>1. PiecesOf(c, n) \in Seq({c} \X (1..n)) /\ Len(PiecesOf(c, n)) = n
  BY IsASeq DEF PiecesOf
<1>2. PiecesOf(c, n + 1) \in Seq({c} \X (1..(n + 1))) /\ Len(PiecesOf(c, n + 1)) = n + 1
  BY IsASeq DEF PiecesOf
<1>3. Append(PiecesOf(c, n), <<c, n + 1>>) \in Seq({c} \X (1..(n + 1)))
  BY <1>1 DEF PiecesOf
<1>4. PiecesOf(c, n + 1) = Append(PiecesOf(c, n), <<c, n + 1>>)
  BY <1>1, <1>2, <1>3 DEF PiecesOf
<1>5. n <= Pieces => PiecesOf(c, n) \in Seq(CallNumbers \X (1..Pieces))
  BY <1>1, ProviderAssumption DEF PiecesOf
<1> QED BY <1>1, <1>4, <1>5

LEMMA OneMore ==
  ASSUME NEW n \in Nat PROVE Append([i \in 1..n |-> i], n + 1) = [i \in 1..(n + 1) |-> i]
<1>1. [i \in 1..n |-> i] \in Seq(Nat) /\ [i \in 1..(n + 1) |-> i] \in Seq(Nat)
  BY IsASeq
<1> QED BY <1>1

LEMMA NoPieces == ASSUME NEW c PROVE PiecesOf(c, 0) = <<>> /\ PiecesOf(c, Pieces) = Whole(c)
  BY DEF PiecesOf, Whole

(* A request links every result to a call before it.                       *)
LEMMA RequestTraceable ==
  ASSUME StreamTypes, request = Request(conversation) PROVE ResultsTraceable
<1>1. conversation \in Histories /\ provider \in Providers
  BY DEF StreamTypes, ProviderTypeOK
<1>2. PICK h : h = conversation
  OBVIOUS
<1>3. /\ Len(h) \in Nat /\ DOMAIN h = 1..Len(h)
      /\ \A i \in DOMAIN h : h[i].role \in {"user", "assistant", "tool"}
      /\ \A i \in DOMAIN h : h[i].role = "tool" => \E j \in 1..(i - 1) : Answers(h, i, j)
  BY <1>1, <1>2, ProviderAssumption
<1>4. ASSUME NEW i \in DOMAIN request, request[i].role = "tool"
      PROVE  \E j \in 1..(i - 1) :
               /\ request[j].role = "assistant"
               /\ request[i].links[1] \in {request[j].links[k] : k \in DOMAIN request[j].links}
               /\ \A n \in (j + 1)..(i - 1) : request[n].role = "tool"
  <2>1. DOMAIN request = DOMAIN h /\ \A n \in DOMAIN h : request[n].role = h[n].role
    <3>0. \A n \in DOMAIN h : h[n].role \in {"user", "assistant", "tool"}
      BY <1>3
    <3> USE <1>2 DEF Request, Linked
    <3>1. CASE provider = "anthropic"
      BY <3>0, <3>1 DEF AnthropicMessages
    <3>2. CASE provider = "openai"
      BY <3>0, <3>2 DEF OpenAIMessages
    <3>3. CASE provider = "gemini"
      BY <3>0, <3>3 DEF GeminiContents
    <3>4. CASE provider = "ollama"
      BY <3>0, <3>4 DEF OllamaMessages
    <3> QED BY <1>1, <3>1, <3>2, <3>3, <3>4 DEF Providers
  <2>3. i \in 1..Len(h) /\ h[i].role = "tool"
    BY <1>3, <1>4, <2>1
  <2>4. PICK j \in 1..(i - 1) : Answers(h, i, j)
    BY <1>3, <2>3
  <2>5. j \in DOMAIN h /\ \A n \in (j + 1)..(i - 1) : n \in DOMAIN h
    BY <1>3, <2>3
  <2>6. PICK k \in DOMAIN h[j].calls : h[j].calls[k] = h[i].call
    BY <2>4 DEF Answers
  <2>7. /\ k \in DOMAIN request[j].links
        /\ request[i].links[1] = request[j].links[k]
    <3> USE <1>2, <1>3, <2>3, <2>4, <2>5, <2>6
        DEF Answers, Request, Linked
    <3>1. CASE provider = "anthropic"
      BY <3>1 DEF AnthropicMessages
    <3>2. CASE provider = "openai"
      BY <3>2 DEF OpenAIMessages
    <3>3. CASE provider = "gemini"
      BY <3>3 DEF GeminiContents
    <3>4. CASE provider = "ollama"
      BY <3>4 DEF OllamaMessages
    <3> QED BY <1>1, <3>1, <3>2, <3>3, <3>4 DEF Providers
  <2>8. request[j].role = "assistant" /\ \A n \in (j + 1)..(i - 1) : request[n].role = "tool"
    BY <2>1, <2>4, <2>5 DEF Answers
  <2> QED BY <2>7, <2>8
<1> QED BY <1>4 DEF ResultsTraceable

(* One call is begun, or sent another piece.                               *)
LEMMA PiecesKept ==
  ASSUME StreamTypes, PiecesHeld, NEW d \in CallNumbers, UNCHANGED provider,
         (begun' = begun /\ d <= begun) \/ (begun' = begun + 1 /\ d = begun + 1),
         \A c \in CallNumbers : c # d => held'[c] = held[c] /\ sent'[c] = sent[c],
         provider # "ollama" => held'[d] = PiecesOf(d, sent'[d]),
         provider \in {"gemini", "ollama"} => sent'[d] = Pieces
  PROVE  PiecesHeld'
<1>1. begun \in Nat /\ \A c \in CallNumbers : c \in Nat
  BY DEF StreamTypes, ProviderTypeOK, CallNumbers
<1>2. ASSUME NEW c \in CallNumbers
      PROVE  /\ c > begun' => held'[c] = <<>>
             /\ c <= begun' /\ provider' # "ollama" => held'[c] = PiecesOf(c, sent'[c])
             /\ c <= begun' /\ provider' \in {"gemini", "ollama"} => sent'[c] = Pieces
  <2>1. CASE c = d
    BY <1>1, <2>1
  <2>2. CASE c # d
    BY <1>1, <2>2 DEF PiecesHeld
  <2> QED BY <2>1, <2>2
<1> QED BY <1>2 DEF PiecesHeld

LEMMA QuietChunks ==
  ASSUME UNCHANGED out
  PROVE  (\A type : Chunks(type)' = Chunks(type)) /\ Last(out)' = Last(out)
  BY DEF Chunks, Last

LEMMA StartKeeps ==
  ASSUME ProviderInv, StreamStarts PROVE ProviderInv'
<1> USE ProviderAssumption DEF ProviderInv, StreamStarts, askedVars, vendor, adapter
<1>a. (\A type : Chunks(type)' = Chunks(type)) /\ Last(out)' = Last(out)
  BY QuietChunks
<1>1. StreamTypes'
  BY <1>a DEF StreamTypes, ProviderTypeOK, IsChunks, CallNumbers, Providers
<1>2. PiecesHeld'
  BY <1>a DEF PiecesHeld, StreamTypes, ProviderTypeOK, PiecesOf, CallNumbers
<1>3. CallsSoFar'
  BY <1>a DEF CallsSoFar, StreamTypes, ProviderTypeOK, PassedOn, CallNumbers
<1>4. StopHolds'
  BY <1>a DEF StopHolds, StreamTypes, ProviderTypeOK, CallsSoFar, PassedOn, Produced, CallNumbers
<1>5. CallsOwnInput'
  BY <1>a DEF CallsOwnInput, CallsSoFar, StopHolds, PiecesHeld, PassedOn, StreamTypes, ProviderTypeOK, CallNumbers
<1>6. FinishIsComplete'
  BY <1>a DEF FinishIsComplete, StopHolds, CallsSoFar, StreamTypes, ProviderTypeOK, PassedOn, CallNumbers
<1>7. UsageExact'
  BY <1>a DEF UsageExact, StopHolds, StreamTypes, ProviderTypeOK, Produced
<1>8. RequestMade'
  BY DEF RequestMade, Request
<1> QED BY <1>1, <1>2, <1>3, <1>4, <1>5, <1>6, <1>7, <1>8

LEMMA MessageDeltaKeeps ==
  ASSUME ProviderInv, MessageDelta PROVE ProviderInv'
<1> USE ProviderAssumption DEF ProviderInv, MessageDelta, askedVars, vendor, adapter
<1>a. (\A type : Chunks(type)' = Chunks(type)) /\ Last(out)' = Last(out)
  BY QuietChunks
<1>1. StreamTypes'
  BY <1>a DEF StreamTypes, ProviderTypeOK, IsChunks, CallNumbers, Providers
<1>2. PiecesHeld'
  BY <1>a DEF PiecesHeld, StreamTypes, ProviderTypeOK, PiecesOf, CallNumbers
<1>3. CallsSoFar'
  BY <1>a DEF CallsSoFar, StreamTypes, ProviderTypeOK, PassedOn, CallNumbers
<1>4. StopHolds'
  BY <1>a DEF StopHolds, StreamTypes, ProviderTypeOK, CallsSoFar, PassedOn, Produced, CallNumbers
<1>5. CallsOwnInput'
  BY <1>a DEF CallsOwnInput, CallsSoFar, StopHolds, PiecesHeld, PassedOn, StreamTypes, ProviderTypeOK, CallNumbers
<1>6. FinishIsComplete'
  BY <1>a DEF FinishIsComplete, StopHolds, CallsSoFar, StreamTypes, ProviderTypeOK, PassedOn, CallNumbers
<1>7. UsageExact'
  BY <1>a DEF UsageExact, StopHolds, StreamTypes, ProviderTypeOK, Produced
<1>8. RequestMade'
  BY DEF RequestMade, Request
<1> QED BY <1>1, <1>2, <1>3, <1>4, <1>5, <1>6, <1>7, <1>8

LEMMA EndsKeep ==
  ASSUME ProviderInv, UsageChunk \/ OllamaEnds PROVE ProviderInv'
<1> USE ProviderAssumption DEF ProviderInv, UsageChunk, OllamaEnds, askedVars, vendor, adapter
<1>a. (\A type : Chunks(type)' = Chunks(type)) /\ Last(out)' = Last(out)
  BY QuietChunks
<1>1. StreamTypes'
  BY <1>a DEF StreamTypes, ProviderTypeOK, IsChunks, CallNumbers, Providers
<1>2. PiecesHeld'
  BY <1>a DEF PiecesHeld, StreamTypes, ProviderTypeOK, PiecesOf, CallNumbers
<1>3. CallsSoFar'
  BY <1>a DEF CallsSoFar, StreamTypes, ProviderTypeOK, PassedOn, CallNumbers
<1>4. StopHolds'
  BY <1>a DEF StopHolds, StreamTypes, ProviderTypeOK, CallsSoFar, PassedOn, Produced, CallNumbers
<1>5. CallsOwnInput'
  BY <1>a DEF CallsOwnInput, CallsSoFar, StopHolds, PiecesHeld, PassedOn, StreamTypes, ProviderTypeOK, CallNumbers
<1>6. FinishIsComplete'
  <2>1. Chunks("finish") # {}
    BY DEF StopHolds, StreamTypes, ProviderTypeOK
  <2>2. out # <<>>
    BY <2>1 DEF Chunks
  <2> QED BY <1>a, <2>1, <2>2 DEF FinishIsComplete
<1>7. UsageExact'
  BY <1>a DEF UsageExact, StopHolds, StreamTypes, ProviderTypeOK, Produced
<1>8. RequestMade'
  BY DEF RequestMade, Request
<1> QED BY <1>1, <1>2, <1>3, <1>4, <1>5, <1>6, <1>7, <1>8

LEMMA BlockStartKeeps ==
  ASSUME ProviderInv, ToolBlockStart PROVE ProviderInv'
<1> USE ProviderAssumption DEF ProviderInv, ToolBlockStart, Streaming, Begin, askedVars, vendor, adapter
<1>a. (\A type : Chunks(type)' = Chunks(type)) /\ Last(out)' = Last(out)
  BY QuietChunks
<1>b. begun + 1 \in CallNumbers /\ sent \in [CallNumbers -> 0..Pieces]
      /\ held \in [CallNumbers -> Seq(CallNumbers \X (1..Pieces))]
  BY DEF StreamTypes, ProviderTypeOK, CallNumbers
<1>1. StreamTypes'
  BY <1>a DEF StreamTypes, ProviderTypeOK, IsChunks, CallNumbers, Providers
<1>2. PiecesHeld'
  BY <1>b, NoPieces, PiecesKept
<1>3. CallsSoFar'
  BY <1>a DEF CallsSoFar, StreamTypes, ProviderTypeOK, PassedOn, CallNumbers
<1>4. StopHolds'
  BY <1>a DEF StopHolds, StreamTypes, ProviderTypeOK, CallsSoFar, PassedOn, Produced, CallNumbers
<1>5. CallsOwnInput'
  <2>1. \A i \in Chunks("tool_call") : out[i].call \in 1..begun /\ out[i].call # begun + 1
    BY DEF CallsSoFar, StreamTypes, ProviderTypeOK
  <2>2. \A i \in Chunks("tool_call") : sent'[out[i].call] = sent[out[i].call]
    BY <2>1 DEF StreamTypes, ProviderTypeOK, CallNumbers
  <2> QED BY <1>a, <2>2 DEF CallsOwnInput
<1>6. FinishIsComplete'
  BY <1>a DEF FinishIsComplete, StopHolds, CallsSoFar, StreamTypes, ProviderTypeOK, PassedOn, CallNumbers
<1>7. UsageExact'
  BY <1>a DEF UsageExact, StopHolds, StreamTypes, ProviderTypeOK, Produced
<1>8. RequestMade'
  BY DEF RequestMade, Request
<1> QED BY <1>1, <1>2, <1>3, <1>4, <1>5, <1>6, <1>7, <1>8

LEMMA CallBeginsKeeps ==
  ASSUME ProviderInv, ToolCallBegins PROVE ProviderInv'
<1> USE ProviderAssumption DEF ProviderInv, ToolCallBegins, Streaming, Begin, askedVars, vendor, adapter
<1>a. (\A type : Chunks(type)' = Chunks(type)) /\ Last(out)' = Last(out)
  BY QuietChunks
<1>b. begun + 1 \in CallNumbers /\ sent \in [CallNumbers -> 0..Pieces]
      /\ held \in [CallNumbers -> Seq(CallNumbers \X (1..Pieces))]
  BY DEF StreamTypes, ProviderTypeOK, CallNumbers
<1>1. StreamTypes'
  BY <1>a DEF StreamTypes, ProviderTypeOK, IsChunks, CallNumbers, Providers
<1>2. PiecesHeld'
  <2>1. held[begun + 1] = <<>>
    BY <1>b DEF PiecesHeld, StreamTypes, ProviderTypeOK
  <2> QED BY <1>b, <2>1, NoPieces, PiecesKept
<1>3. CallsSoFar'
  <2>1. phase \in {"asked", "streaming"} /\ order = [i \in 1..begun |-> i] /\ begun \in Nat
    BY DEF CallsSoFar, StreamTypes, ProviderTypeOK
  <2>2. order' = [i \in 1..(begun + 1) |-> i]
    BY <2>1, OneMore
  <2> QED BY <1>a, <2>1, <2>2 DEF CallsSoFar, StreamTypes, ProviderTypeOK
<1>4. StopHolds'
  BY <1>a DEF StopHolds, StreamTypes, ProviderTypeOK, CallsSoFar, PassedOn, Produced, CallNumbers
<1>5. CallsOwnInput'
  BY <1>a DEF CallsOwnInput, CallsSoFar, StopHolds, PiecesHeld, PassedOn, StreamTypes, ProviderTypeOK, CallNumbers
<1>6. FinishIsComplete'
  BY <1>a DEF FinishIsComplete, StopHolds, CallsSoFar, StreamTypes, ProviderTypeOK, PassedOn, CallNumbers
<1>7. UsageExact'
  BY <1>a DEF UsageExact, StopHolds, StreamTypes, ProviderTypeOK, Produced
<1>8. RequestMade'
  BY DEF RequestMade, Request
<1> QED BY <1>1, <1>2, <1>3, <1>4, <1>5, <1>6, <1>7, <1>8

LEMMA FunctionCallKeeps ==
  ASSUME ProviderInv, FunctionCall PROVE ProviderInv'
<1> USE ProviderAssumption DEF ProviderInv, FunctionCall, Streaming, Begin, askedVars, vendor, adapter
<1>a. (\A type : Chunks(type)' = Chunks(type)) /\ Last(out)' = Last(out)
  BY QuietChunks
<1>b. begun + 1 \in CallNumbers /\ sent \in [CallNumbers -> 0..Pieces]
      /\ held \in [CallNumbers -> Seq(CallNumbers \X (1..Pieces))]
  BY DEF StreamTypes, ProviderTypeOK, CallNumbers
<1>1. StreamTypes'
  <2>1. Pieces \in Nat
    OBVIOUS
  <2>2. ASSUME NEW c \in CallNumbers PROVE PiecesOf(c, Pieces) \in Seq(CallNumbers \X (1..Pieces))
    <3>1. PICK n \in Nat : n = Pieces
      BY <2>1
    <3>2. n <= Pieces => PiecesOf(c, n) \in Seq(CallNumbers \X (1..Pieces))
      BY PiecesJoin
    <3> QED BY <3>1, <3>2
  <2>5. Whole(begun + 1) \in Seq(CallNumbers \X (1..Pieces))
    BY <1>b, <2>2, NoPieces
  <2>3. held' \in [CallNumbers -> Seq(CallNumbers \X (1..Pieces))]
    BY <1>b, <2>5
  <2>4. sent' \in [CallNumbers -> 0..Pieces]
    BY <1>b
  <2> QED BY <2>3, <2>4 DEF StreamTypes, ProviderTypeOK
<1>2. PiecesHeld'
  BY <1>b, NoPieces, PiecesKept
<1>3. CallsSoFar'
  BY <1>a DEF CallsSoFar, StreamTypes, ProviderTypeOK, PassedOn, CallNumbers
<1>4. StopHolds'
  BY <1>a DEF StopHolds, StreamTypes, ProviderTypeOK, CallsSoFar, PassedOn, Produced, CallNumbers
<1>5. CallsOwnInput'
  BY <1>a DEF CallsOwnInput, CallsSoFar, StopHolds, PiecesHeld, PassedOn, StreamTypes, ProviderTypeOK, CallNumbers
<1>6. FinishIsComplete'
  BY <1>a DEF FinishIsComplete, StopHolds, CallsSoFar, StreamTypes, ProviderTypeOK, PassedOn, CallNumbers
<1>7. UsageExact'
  BY <1>a DEF UsageExact, StopHolds, StreamTypes, ProviderTypeOK, Produced
<1>8. RequestMade'
  BY DEF RequestMade, Request
<1> QED BY <1>1, <1>2, <1>3, <1>4, <1>5, <1>6, <1>7, <1>8

LEMMA InputDeltaKeeps ==
  ASSUME ProviderInv, InputJsonDelta PROVE ProviderInv'
<1> USE ProviderAssumption DEF ProviderInv, InputJsonDelta, Streaming, askedVars, vendor, adapter
<1>a. (\A type : Chunks(type)' = Chunks(type)) /\ Last(out)' = Last(out)
  BY QuietChunks
<1>b. /\ block \in 1..begun /\ block \in CallNumbers /\ sent[block] \in Nat /\ sent[block] + 1 <= Pieces
      /\ held[block] = PiecesOf(block, sent[block])
  BY DEF StreamTypes, ProviderTypeOK, PiecesHeld, CallNumbers
<1>d. Pieces \in Nat /\ sent[block] + 1 \in Nat
  BY <1>b
<1>c. /\ held' = [held EXCEPT ![block] = PiecesOf(block, sent[block] + 1)]
      /\ PiecesOf(block, sent[block] + 1) \in Seq(CallNumbers \X (1..Pieces))
  <2>1. PiecesOf(block, sent[block] + 1) = Append(held[block], <<block, sent[block] + 1>>)
    BY <1>b, PiecesJoin
  <2>2. PiecesOf(block, sent[block] + 1) \in Seq(CallNumbers \X (1..Pieces))
    BY <1>b, <1>d, PiecesJoin
  <2> QED BY <1>b, <2>1, <2>2
<1>1. StreamTypes'
  <2>1. held' \in [CallNumbers -> Seq(CallNumbers \X (1..Pieces))]
    BY <1>c DEF StreamTypes
  <2>2. sent' \in [CallNumbers -> 0..Pieces]
    BY <1>b DEF StreamTypes
  <2> QED BY <2>1, <2>2 DEF StreamTypes, ProviderTypeOK
<1>2. PiecesHeld'
  <2>1. held'[block] = PiecesOf(block, sent'[block])
    BY <1>b, <1>c DEF StreamTypes
  <2>2. \A c \in CallNumbers : c # block => held'[c] = held[c] /\ sent'[c] = sent[c]
    BY DEF StreamTypes
  <2>3. provider' = "anthropic" /\ provider = "anthropic" /\ begun' = begun /\ block <= begun
    BY <1>b
  <2> QED BY <1>b, <2>1, <2>2, <2>3, PiecesKept
<1>3. CallsSoFar'
  BY <1>a DEF CallsSoFar, StreamTypes, ProviderTypeOK, PassedOn, CallNumbers
<1>4. StopHolds'
  BY <1>a DEF StopHolds, StreamTypes, ProviderTypeOK, CallsSoFar, PassedOn, Produced, CallNumbers
<1>5. CallsOwnInput'
  BY <1>a DEF CallsOwnInput, CallsSoFar, StopHolds, PiecesHeld, PassedOn, StreamTypes, ProviderTypeOK, CallNumbers
<1>6. FinishIsComplete'
  BY <1>a DEF FinishIsComplete, StopHolds, CallsSoFar, StreamTypes, ProviderTypeOK, PassedOn, CallNumbers
<1>7. UsageExact'
  BY <1>a DEF UsageExact, StopHolds, StreamTypes, ProviderTypeOK, Produced
<1>8. RequestMade'
  BY DEF RequestMade, Request
<1> QED BY <1>1, <1>2, <1>3, <1>4, <1>5, <1>6, <1>7, <1>8

LEMMA ArgumentsDeltaKeeps ==
  ASSUME ProviderInv, NEW d \in CallNumbers, ArgumentsDelta(d) PROVE ProviderInv'
<1> USE ProviderAssumption DEF ProviderInv, ArgumentsDelta, Streaming, askedVars, vendor, adapter
<1>a. (\A type : Chunks(type)' = Chunks(type)) /\ Last(out)' = Last(out)
  BY QuietChunks
<1>b. /\ d \in 1..begun /\ d \in CallNumbers /\ sent[d] \in Nat /\ sent[d] + 1 <= Pieces
      /\ held[d] = PiecesOf(d, sent[d])
  BY DEF StreamTypes, ProviderTypeOK, PiecesHeld, CallNumbers
<1>d. Pieces \in Nat /\ sent[d] + 1 \in Nat
  BY <1>b
<1>c. /\ held' = [held EXCEPT ![d] = PiecesOf(d, sent[d] + 1)]
      /\ PiecesOf(d, sent[d] + 1) \in Seq(CallNumbers \X (1..Pieces))
  <2>1. PiecesOf(d, sent[d] + 1) = Append(held[d], <<d, sent[d] + 1>>)
    BY <1>b, PiecesJoin
  <2>2. PiecesOf(d, sent[d] + 1) \in Seq(CallNumbers \X (1..Pieces))
    BY <1>b, <1>d, PiecesJoin
  <2> QED BY <1>b, <2>1, <2>2
<1>1. StreamTypes'
  <2>1. held' \in [CallNumbers -> Seq(CallNumbers \X (1..Pieces))]
    BY <1>c DEF StreamTypes
  <2>2. sent' \in [CallNumbers -> 0..Pieces]
    BY <1>b DEF StreamTypes
  <2> QED BY <2>1, <2>2 DEF StreamTypes, ProviderTypeOK
<1>2. PiecesHeld'
  <2>1. held'[d] = PiecesOf(d, sent'[d])
    BY <1>b, <1>c DEF StreamTypes
  <2> QED BY <1>b, <2>1, PiecesKept DEF StreamTypes
<1>3. CallsSoFar'
  BY <1>a DEF CallsSoFar, StreamTypes, ProviderTypeOK, PassedOn, CallNumbers
<1>4. StopHolds'
  BY <1>a DEF StopHolds, StreamTypes, ProviderTypeOK, CallsSoFar, PassedOn, Produced, CallNumbers
<1>5. CallsOwnInput'
  BY <1>a DEF CallsOwnInput, CallsSoFar, StopHolds, PiecesHeld, PassedOn, StreamTypes, ProviderTypeOK, CallNumbers
<1>6. FinishIsComplete'
  BY <1>a DEF FinishIsComplete, StopHolds, CallsSoFar, StreamTypes, ProviderTypeOK, PassedOn, CallNumbers
<1>7. UsageExact'
  BY <1>a DEF UsageExact, StopHolds, StreamTypes, ProviderTypeOK, Produced
<1>8. RequestMade'
  BY DEF RequestMade, Request
<1> QED BY <1>1, <1>2, <1>3, <1>4, <1>5, <1>6, <1>7, <1>8

(* No call is yielded.                                                     *)
LEMMA CallsUnmoved ==
  ASSUME ProviderInv, UNCHANGED <<provider, begun, sent, block>>,
         Chunks("tool_call")' = Chunks("tool_call"),
         \A i \in Chunks("tool_call") : out'[i] = out[i],
         phase' \in {"asked", "streaming"} => phase \in {"asked", "streaming"} /\ order' = order,
         stop = "length" => stop' = "length"
  PROVE  CallsSoFar' /\ CallsOwnInput'
<1>1. ASSUME NEW last, PassedOn(last) PROVE PassedOn(last)'
  BY <1>1 DEF PassedOn
<1>2. CallsSoFar'
  <2>1. ASSUME provider = "anthropic" \/ (provider = "ollama" /\ phase' \in {"asked", "streaming"})
        PROVE  PassedOn(IF block = 0 THEN begun ELSE begun - 1)'
    <3>1. PICK last : last = IF block = 0 THEN begun ELSE begun - 1
      OBVIOUS
    <3>2. PassedOn(last)
      BY <2>1, <3>1 DEF ProviderInv, CallsSoFar
    <3>3. PassedOn(last)'
      BY <1>1, <3>2
    <3> QED BY <3>1, <3>3
  <2> QED BY <2>1 DEF ProviderInv, CallsSoFar
<1>3. CallsOwnInput'
  BY DEF ProviderInv, CallsOwnInput
<1> QED BY <1>2, <1>3

LEMMA TextKeeps ==
  ASSUME ProviderInv, TextDelta PROVE ProviderInv'
<1> USE ProviderAssumption DEF ProviderInv, TextDelta, askedVars, vendor, adapter
<1>x. PICK x : x = Text
  OBVIOUS
<1>b. x.type = "text"
  BY <1>x DEF Text, Error, Finish, ToolCall
<1>n. PICK n \in Nat :
        /\ DOMAIN out = 1..n /\ DOMAIN out' = 1..(n + 1)
        /\ IsChunks(out') /\ out' # <<>> /\ out'[n + 1] = x /\ Last(out)' = x
        /\ \A i \in 1..n : out'[i] = out[i]
        /\ \A type : Chunks(type) \subseteq 1..n
        /\ \A type : x.type # type => Chunks(type)' = Chunks(type)
        /\ \A type : x.type = type => Chunks(type)' = Chunks(type) \cup {n + 1}
  BY <1>x, YieldsOne DEF StreamTypes
<1>1. StreamTypes'
  <2>1. \A i \in DOMAIN out' : out'[i].type \in {"text", "tool_call", "finish", "error"}
    BY <1>b, <1>n DEF StreamTypes, ProviderTypeOK
  <2> QED BY <1>n, <2>1 DEF StreamTypes, ProviderTypeOK, CallNumbers, Providers
<1>2. PiecesHeld'
  BY DEF PiecesHeld
<1>3. CallsSoFar' /\ CallsOwnInput'
  <2>1. Chunks("tool_call")' = Chunks("tool_call") /\ \A i \in Chunks("tool_call") : out'[i] = out[i]
    BY <1>b, <1>n
  <2> QED BY <2>1, CallsUnmoved
<1>4. StopHolds'
  BY <1>b, <1>n DEF StopHolds
<1>5. FinishIsComplete'
  BY <1>b, <1>n DEF StopHolds, FinishIsComplete
<1>6. UsageExact'
  BY <1>b, <1>n DEF StopHolds, UsageExact
<1>8. RequestMade'
  BY DEF RequestMade, Request
<1> QED BY <1>1, <1>2, <1>3, <1>4, <1>5, <1>6, <1>8

LEMMA ErrorKeeps ==
  ASSUME ProviderInv, phase \in {"asked", "streaming", "stopped"}, phase' = "returned", Yield(<<Error>>),
         UNCHANGED <<askedVars, vendor, adapter>> PROVE ProviderInv'
<1> USE ProviderAssumption DEF ProviderInv, askedVars, vendor, adapter
<1>x. PICK x : x = Error
  OBVIOUS
<1>b. x.type = "error"
  BY <1>x DEF Text, Error, Finish, ToolCall
<1>n. PICK n \in Nat :
        /\ DOMAIN out = 1..n /\ DOMAIN out' = 1..(n + 1)
        /\ IsChunks(out') /\ out' # <<>> /\ out'[n + 1] = x /\ Last(out)' = x
        /\ \A i \in 1..n : out'[i] = out[i]
        /\ \A type : Chunks(type) \subseteq 1..n
        /\ \A type : x.type # type => Chunks(type)' = Chunks(type)
        /\ \A type : x.type = type => Chunks(type)' = Chunks(type) \cup {n + 1}
  BY <1>x, YieldsOne DEF StreamTypes
<1>1. StreamTypes'
  <2>1. \A i \in DOMAIN out' : out'[i].type \in {"text", "tool_call", "finish", "error"}
    BY <1>b, <1>n DEF StreamTypes, ProviderTypeOK
  <2> QED BY <1>n, <2>1 DEF StreamTypes, ProviderTypeOK, CallNumbers, Providers
<1>2. PiecesHeld'
  BY DEF PiecesHeld
<1>3. CallsSoFar' /\ CallsOwnInput'
  <2>1. Chunks("tool_call")' = Chunks("tool_call") /\ \A i \in Chunks("tool_call") : out'[i] = out[i]
    BY <1>b, <1>n
  <2> QED BY <2>1, CallsUnmoved
<1>4. StopHolds'
  BY <1>b, <1>n DEF StopHolds
<1>a. \A f \in Chunks("finish") : f \in 1..n /\ out'[f] = out[f]
  BY <1>n
<1>c. Chunks("finish")' = Chunks("finish") /\ Chunks("tool_call")' = Chunks("tool_call")
  BY <1>b, <1>n
<1>d. \A i \in Chunks("tool_call") : out'[i] = out[i]
  BY <1>n
<1>5. FinishIsComplete'
  BY <1>a, <1>c, <1>d, <1>n, <1>x DEF FinishIsComplete
<1>6. UsageExact'
  BY <1>a, <1>c DEF UsageExact, Produced
<1>8. RequestMade'
  BY DEF RequestMade, Request
<1> QED BY <1>1, <1>2, <1>3, <1>4, <1>5, <1>6, <1>8

LEMMA MessageStopKeeps ==
  ASSUME ProviderInv, MessageStop PROVE ProviderInv'
<1> USE ProviderAssumption DEF ProviderInv, MessageStop, askedVars, vendor, adapter
<1>x. PICK x : x = Finish(IF stop = "tool" THEN "tool_use" ELSE "end_turn", usage)
  OBVIOUS
<1>b. x.type = "finish"
      /\ x.reason = (IF stop = "tool" THEN "tool_use" ELSE "end_turn") /\ x.usage = usage
  BY <1>x DEF Text, Error, Finish, ToolCall
<1>n. PICK n \in Nat :
        /\ DOMAIN out = 1..n /\ DOMAIN out' = 1..(n + 1)
        /\ IsChunks(out') /\ out' # <<>> /\ out'[n + 1] = x /\ Last(out)' = x
        /\ \A i \in 1..n : out'[i] = out[i]
        /\ \A type : Chunks(type) \subseteq 1..n
        /\ \A type : x.type # type => Chunks(type)' = Chunks(type)
        /\ \A type : x.type = type => Chunks(type)' = Chunks(type) \cup {n + 1}
  BY <1>x, YieldsOne DEF StreamTypes
<1>1. StreamTypes'
  <2>1. \A i \in DOMAIN out' : out'[i].type \in {"text", "tool_call", "finish", "error"}
    BY <1>b, <1>n DEF StreamTypes, ProviderTypeOK
  <2> QED BY <1>n, <2>1 DEF StreamTypes, ProviderTypeOK, CallNumbers, Providers
<1>2. PiecesHeld'
  BY DEF PiecesHeld
<1>3. CallsSoFar' /\ CallsOwnInput'
  <2>1. Chunks("tool_call")' = Chunks("tool_call") /\ \A i \in Chunks("tool_call") : out'[i] = out[i]
    BY <1>b, <1>n
  <2> QED BY <2>1, CallsUnmoved
<1>c. Chunks("finish")' = {n + 1} /\ Chunks("tool_call")' = Chunks("tool_call")
  BY <1>b, <1>n DEF StopHolds
<1>4. StopHolds'
  BY <1>c DEF StopHolds, StreamTypes, ProviderTypeOK
<1>d. \A i \in Chunks("tool_call") : out'[i] = out[i] /\ i < n + 1
  BY <1>n
<1>5. FinishIsComplete'
  <2>1. stop' # "length" => PassedOn(begun)
    BY DEF CallsSoFar, StopHolds, StreamTypes, ProviderTypeOK
  <2>2. stop' # "length" => PassedOn(begun) /\ x.reason = IF begun > 0 THEN "tool_use" ELSE "end_turn"
    BY <1>b, <2>1 DEF StopHolds, StreamTypes, ProviderTypeOK
  <2> QED BY <1>c, <1>d, <1>n, <2>2 DEF FinishIsComplete, PassedOn
<1>6. UsageExact'
  BY <1>b, <1>c, <1>n DEF UsageExact, Produced, StopHolds
<1>8. RequestMade'
  BY DEF RequestMade, Request
<1> QED BY <1>1, <1>2, <1>3, <1>4, <1>5, <1>6, <1>8

LEMMA DoneKeeps ==
  ASSUME ProviderInv, Done PROVE ProviderInv'
<1> USE ProviderAssumption DEF ProviderInv, Done, Streaming, askedVars, vendor, adapter
<1>x. PICK x : x = Finish(IF HasCall(out) THEN "tool_use" ELSE "end_turn", Produced)
  OBVIOUS
<1>b. x.type = "finish"
      /\ x.reason = (IF HasCall(out) THEN "tool_use" ELSE "end_turn") /\ x.usage = Produced
  BY <1>x DEF Text, Error, Finish, ToolCall
<1>n. PICK n \in Nat :
        /\ DOMAIN out = 1..n /\ DOMAIN out' = 1..(n + 1)
        /\ IsChunks(out') /\ out' # <<>> /\ out'[n + 1] = x /\ Last(out)' = x
        /\ \A i \in 1..n : out'[i] = out[i]
        /\ \A type : Chunks(type) \subseteq 1..n
        /\ \A type : x.type # type => Chunks(type)' = Chunks(type)
        /\ \A type : x.type = type => Chunks(type)' = Chunks(type) \cup {n + 1}
  BY <1>x, YieldsOne DEF StreamTypes
<1>1. StreamTypes'
  <2>1. \A i \in DOMAIN out' : out'[i].type \in {"text", "tool_call", "finish", "error"}
    BY <1>b, <1>n DEF StreamTypes, ProviderTypeOK
  <2> QED BY <1>n, <2>1 DEF StreamTypes, ProviderTypeOK, CallNumbers, Providers
<1>2. PiecesHeld'
  BY DEF PiecesHeld
<1>3. CallsSoFar' /\ CallsOwnInput'
  <2>1. Chunks("tool_call")' = Chunks("tool_call") /\ \A i \in Chunks("tool_call") : out'[i] = out[i]
    BY <1>b, <1>n
  <2> QED BY <2>1, CallsUnmoved
<1>c. Chunks("finish")' = {n + 1} /\ Chunks("tool_call")' = Chunks("tool_call")
  BY <1>b, <1>n DEF StopHolds
<1>4. StopHolds'
  BY <1>c DEF StopHolds, StreamTypes, ProviderTypeOK
<1>d. \A i \in Chunks("tool_call") : out'[i] = out[i] /\ i < n + 1
  BY <1>n
<1>5. FinishIsComplete'
  <2>1. stop' # "length" => PassedOn(begun)
    BY DEF CallsSoFar, StopHolds, StreamTypes, ProviderTypeOK
  <2>2. stop' # "length" => PassedOn(begun) /\ x.reason = IF begun > 0 THEN "tool_use" ELSE "end_turn"
    <3>1. HasCall(out) <=> Chunks("tool_call") # {}
      BY DEF HasCall, Chunks
    <3>2. PassedOn(begun) => (Chunks("tool_call") # {} <=> begun > 0)
      <4>1. begun \in Nat
        BY DEF StreamTypes, ProviderTypeOK
      <4>2. 1..begun # {} <=> begun > 0
        <5>1. CASE begun = 0
          BY <5>1
        <5>2. CASE begun > 0
          <6>1. 1 \in 1..begun
            BY <4>1, <5>2
          <6> QED BY <5>2, <6>1
        <5> QED BY <4>1, <5>1, <5>2
      <4>3. {out[i].call : i \in Chunks("tool_call")} # {} <=> Chunks("tool_call") # {}
        OBVIOUS
      <4> QED BY <4>2, <4>3 DEF PassedOn
    <3> QED BY <1>b, <2>1, <3>1, <3>2
  <2> QED BY <1>c, <1>d, <1>n, <2>2 DEF FinishIsComplete, PassedOn
<1>6. UsageExact'
  BY <1>b, <1>c, <1>n DEF UsageExact, Produced, StopHolds
<1>8. RequestMade'
  BY DEF RequestMade, Request
<1> QED BY <1>1, <1>2, <1>3, <1>4, <1>5, <1>6, <1>8

LEMMA ThrowKeeps ==
  ASSUME ProviderInv, phase' = "threw", UNCHANGED <<askedVars, vendor, adapter, out>>
  PROVE  ProviderInv'
<1> USE ProviderAssumption DEF ProviderInv, askedVars, vendor, adapter
<1>a. (\A type : Chunks(type)' = Chunks(type)) /\ Last(out)' = Last(out)
  BY QuietChunks
<1>1. StreamTypes'
  BY <1>a DEF StreamTypes, ProviderTypeOK, IsChunks, CallNumbers, Providers
<1>2. PiecesHeld'
  BY DEF PiecesHeld
<1>3. CallsSoFar'
  BY <1>a DEF CallsSoFar, PassedOn
<1>4. StopHolds'
  BY <1>a DEF StopHolds
<1>5. CallsOwnInput'
  BY <1>a DEF CallsOwnInput
<1>6. FinishIsComplete'
  BY <1>a DEF FinishIsComplete
<1>7. UsageExact'
  BY <1>a DEF UsageExact, Produced
<1>8. RequestMade'
  BY DEF RequestMade, Request
<1> QED BY <1>1, <1>2, <1>3, <1>4, <1>5, <1>6, <1>7, <1>8

(* The next call is passed on before the answer ends.                      *)
LEMMA CallPassedOn ==
  ASSUME ProviderInv, phase = "streaming", NEW x, Yield(<<x>>), x.type = "tool_call",
         NEW c \in CallNumbers, x.call = c, PassedOn(c - 1)
  PROVE  /\ PassedOn(c)' /\ Chunks("finish")' = {} /\ IsChunks(out')
         /\ \A i \in DOMAIN out' : out'[i].type \in {"text", "tool_call", "finish", "error"}
         /\ \A i \in Chunks("tool_call")' :
              out'[i] = x \/ (i \in Chunks("tool_call") /\ out'[i] = out[i])
<1>n. PICK n \in Nat :
        /\ DOMAIN out = 1..n /\ DOMAIN out' = 1..(n + 1)
        /\ IsChunks(out') /\ out' # <<>> /\ out'[n + 1] = x /\ Last(out)' = x
        /\ \A i \in 1..n : out'[i] = out[i]
        /\ \A type : Chunks(type) \subseteq 1..n
        /\ \A type : x.type # type => Chunks(type)' = Chunks(type)
        /\ \A type : x.type = type => Chunks(type)' = Chunks(type) \cup {n + 1}
  BY YieldsOne DEF ProviderInv, StreamTypes
<1>1. Chunks("tool_call")' = Chunks("tool_call") \cup {n + 1} /\ Chunks("finish")' = {}
  BY <1>n DEF ProviderInv, StopHolds
<1>2. \A i \in Chunks("tool_call") : out'[i] = out[i] /\ i \in Nat /\ i < n + 1
  BY <1>n
<1>3. c \in Nat /\ 1..c = (1..(c - 1)) \cup {c} /\ c >= 1
  BY ProviderAssumption DEF CallNumbers
<1>4. PassedOn(c)'
  <2>1. {out'[i].call : i \in Chunks("tool_call")'} = 1..c
    <3>1. {out'[i].call : i \in Chunks("tool_call")'}
            = {out[i].call : i \in Chunks("tool_call")} \cup {c}
      BY <1>1, <1>2, <1>n
    <3> QED BY <1>3, <3>1 DEF PassedOn
  <2>2. ASSUME NEW i \in Chunks("tool_call")', NEW j \in Chunks("tool_call")', i < j
        PROVE  out'[i].call < out'[j].call
    <3>1. i \in Chunks("tool_call")
      BY <1>1, <1>2, <2>2
    <3>2. out[i].call \in 1..(c - 1)
      BY <3>1 DEF PassedOn
    <3>3. CASE j = n + 1
      BY <1>2, <1>3, <1>n, <3>1, <3>2, <3>3
    <3>4. CASE j \in Chunks("tool_call")
      BY <1>2, <2>2, <3>1, <3>4 DEF PassedOn
    <3> QED BY <1>1, <3>3, <3>4
  <2> QED BY <2>1, <2>2 DEF PassedOn
<1>5. \A i \in DOMAIN out' : out'[i].type \in {"text", "tool_call", "finish", "error"}
  BY <1>n DEF ProviderInv, StreamTypes, ProviderTypeOK
<1> QED BY <1>1, <1>2, <1>4, <1>5, <1>n

LEMMA BlockStopKeeps ==
  ASSUME ProviderInv, ContentBlockStop PROVE ProviderInv'
<1> USE ProviderAssumption DEF ProviderInv, ContentBlockStop, Streaming, askedVars, vendor, adapter
<1>x. PICK x : x = ToolCall(block, Parsed(block, held[block]))
  OBVIOUS
<1>c. PICK c : c = block
  OBVIOUS
<1>b. /\ c = begun /\ c \in CallNumbers /\ c \in Nat /\ sent[c] \in 0..Pieces
      /\ held[c] = PiecesOf(c, sent[c])
  BY <1>c DEF StreamTypes, ProviderTypeOK, PiecesHeld, CallNumbers
<1>d. /\ x.type = "tool_call" /\ x.call = c
      /\ x.input = IF sent[c] = Pieces THEN Whole(c) ELSE <<>>
  <2>1. PICK k \in Nat : k = sent[c]
    BY <1>b
  <2>2. Len(PiecesOf(c, k)) = k
    BY <1>b, PiecesJoin
  <2> QED BY <1>b, <1>c, <1>x, <2>1, <2>2, NoPieces DEF ToolCall, Parsed
<1>e. PassedOn(c - 1)
  BY <1>b, <1>c DEF CallsSoFar, StreamTypes, ProviderTypeOK, CallNumbers
<1>n. /\ PassedOn(c)' /\ Chunks("finish")' = {} /\ IsChunks(out')
      /\ \A i \in DOMAIN out' : out'[i].type \in {"text", "tool_call", "finish", "error"}
      /\ \A i \in Chunks("tool_call")' :
           out'[i] = x \/ (i \in Chunks("tool_call") /\ out'[i] = out[i])
  BY <1>b, <1>d, <1>e, <1>x, CallPassedOn
<1>1. StreamTypes'
  BY <1>n DEF StreamTypes, ProviderTypeOK
<1>2. PiecesHeld'
  BY DEF PiecesHeld
<1>3. CallsSoFar'
  <2>1. PassedOn(begun)' /\ block' = 0 /\ begun' = begun
    BY <1>b, <1>n
  <2>2. \A i \in Chunks("tool_call")' : out'[i].call \in 1..begun'
    BY <2>1 DEF PassedOn
  <2> QED BY <2>1, <2>2 DEF CallsSoFar
<1>4. StopHolds'
  BY <1>c, <1>n DEF StopHolds
<1>5. CallsOwnInput'
  <2>1. ASSUME NEW i \in Chunks("tool_call")'
        PROVE  IF sent'[out'[i].call] = Pieces
               THEN out'[i].input = Whole(out'[i].call)
               ELSE out'[i].input = <<>> /\ stop' = "length"
    <3>1. CASE out'[i] = x
      BY <1>b, <1>c, <1>d, <3>1
    <3>2. CASE i \in Chunks("tool_call") /\ out'[i] = out[i]
      BY <3>2 DEF CallsOwnInput
    <3> QED BY <1>n, <3>1, <3>2
  <2> QED BY <2>1 DEF CallsOwnInput
<1>6. FinishIsComplete' /\ UsageExact'
  BY <1>n DEF FinishIsComplete, UsageExact
<1>8. RequestMade'
  BY DEF RequestMade, Request
<1> QED BY <1>1, <1>2, <1>3, <1>4, <1>5, <1>6, <1>8

LEMMA ToolCallsKeeps ==
  ASSUME ProviderInv, ToolCalls PROVE ProviderInv'
<1> USE ProviderAssumption DEF ProviderInv, ToolCalls, Streaming, Begin, askedVars, vendor, adapter
<1>x. PICK x : x = ToolCall(begun + 1, Whole(begun + 1))
  OBVIOUS
<1>c. PICK c : c = begun + 1
  OBVIOUS
<1>b. /\ c \in CallNumbers /\ c \in Nat /\ begun \in Nat /\ c - 1 = begun
      /\ sent \in [CallNumbers -> 0..Pieces]
  BY <1>c DEF StreamTypes, ProviderTypeOK, CallNumbers
<1>d. x.type = "tool_call" /\ x.call = c /\ x.input = Whole(c)
  BY <1>c, <1>x DEF ToolCall
<1>e. PassedOn(c - 1)
  BY <1>b DEF CallsSoFar, StreamTypes
<1>n. /\ PassedOn(c)' /\ Chunks("finish")' = {} /\ IsChunks(out')
      /\ \A i \in DOMAIN out' : out'[i].type \in {"text", "tool_call", "finish", "error"}
      /\ \A i \in Chunks("tool_call")' :
           out'[i] = x \/ (i \in Chunks("tool_call") /\ out'[i] = out[i])
  BY <1>b, <1>d, <1>e, <1>x, CallPassedOn
<1>s. sent' = [sent EXCEPT ![c] = Pieces] /\ begun' = c
  BY <1>c
<1>1. StreamTypes'
  <2>1. sent' \in [CallNumbers -> 0..Pieces]
    BY <1>b, <1>s
  <2>2. begun' \in 0..MaxCalls /\ block' = 0
    BY <1>b, <1>s DEF CallNumbers, StreamTypes
  <2> QED BY <1>n, <2>1, <2>2 DEF StreamTypes, ProviderTypeOK
<1>2. PiecesHeld'
  <2>1. \A k \in CallNumbers : k # c => held'[k] = held[k] /\ sent'[k] = sent[k]
    BY <1>b, <1>s
  <2>2. sent'[c] = Pieces
    BY <1>b, <1>s
  <2> QED BY <1>b, <1>c, <2>1, <2>2, PiecesKept
<1>3. CallsSoFar'
  <2>1. PassedOn(begun)' /\ block' = 0
    BY <1>n, <1>s DEF StreamTypes
  <2>2. \A i \in Chunks("tool_call")' : out'[i].call \in 1..begun'
    BY <2>1 DEF PassedOn
  <2> QED BY <2>1, <2>2 DEF CallsSoFar
<1>4. StopHolds'
  BY <1>n DEF StopHolds
<1>5. CallsOwnInput'
  <2>1. ASSUME NEW i \in Chunks("tool_call")'
        PROVE  IF sent'[out'[i].call] = Pieces
               THEN out'[i].input = Whole(out'[i].call)
               ELSE out'[i].input = <<>> /\ stop' = "length"
    <3>1. CASE out'[i] = x
      BY <1>b, <1>d, <1>s, <3>1
    <3>2. CASE i \in Chunks("tool_call") /\ out'[i] = out[i]
      <4>1. out[i].call \in 1..begun /\ out[i].call \in CallNumbers /\ out[i].call # c
        BY <1>b, <1>c, <3>2 DEF CallsSoFar, CallNumbers
      <4>2. sent'[out[i].call] = sent[out[i].call]
        BY <1>b, <1>s, <4>1
      <4> QED BY <3>2, <4>2 DEF CallsOwnInput
    <3> QED BY <1>n, <3>1, <3>2
  <2> QED BY <2>1 DEF CallsOwnInput
<1>6. FinishIsComplete' /\ UsageExact'
  BY <1>n DEF FinishIsComplete, UsageExact
<1>8. RequestMade'
  BY DEF RequestMade, Request
<1> QED BY <1>1, <1>2, <1>3, <1>4, <1>5, <1>6, <1>8

(* The calls held to the end are passed on with the finish behind them.    *)
LEMMA CallsThenFinish ==
  ASSUME ProviderInv, phase = "streaming", provider \in {"openai", "gemini"},
         \A c \in 1..begun : sent[c] = Pieces, UNCHANGED begun,
         NEW f, f.type = "finish", Yield(HeldCalls \o <<f>>)
  PROVE  \E last \in Nat :
           /\ IsChunks(out') /\ out' # <<>> /\ out'[last] = f
           /\ \A i \in DOMAIN out' : out'[i].type \in {"text", "tool_call", "finish", "error"}
           /\ Chunks("finish")' = {last} /\ PassedOn(begun)'
           /\ \A i \in Chunks("tool_call")' :
                /\ i < last
                /\ out'[i].call \in 1..begun /\ out'[i].input = Whole(out'[i].call)
<1>p. Pieces \in Nat /\ MaxCalls \in Nat
  BY ProviderAssumption
<1>b. /\ begun \in Nat /\ begun <= MaxCalls /\ order = [i \in 1..begun |-> i]
      /\ Chunks("tool_call") = {} /\ Chunks("finish") = {} /\ IsChunks(out)
  BY <1>p DEF ProviderInv, StreamTypes, ProviderTypeOK, CallsSoFar, StopHolds
<1>1. \A c \in 1..begun : held[c] = Whole(c) /\ Len(Whole(c)) = Pieces
  <2> SUFFICES ASSUME NEW c \in 1..begun PROVE held[c] = Whole(c) /\ Len(Whole(c)) = Pieces
    OBVIOUS
  <2>1. c \in CallNumbers /\ c <= begun /\ sent[c] = Pieces
    BY <1>b, <1>p DEF CallNumbers
  <2>2. held[c] = PiecesOf(c, Pieces)
    BY <2>1 DEF ProviderInv, PiecesHeld
  <2>3. PICK n \in Nat : n = Pieces
    BY <1>p
  <2>4. Len(PiecesOf(c, n)) = n
    BY <2>1, PiecesJoin
  <2> QED BY <2>2, <2>3, <2>4, NoPieces
<1>2. HeldCalls = [i \in 1..begun |-> ToolCall(i, Whole(i))]
  BY <1>1, <1>b DEF HeldCalls, Parsed
<1>3. PICK yielded : yielded = [i \in 1..begun |-> ToolCall(i, Whole(i))]
  OBVIOUS
<1>4. IsChunks(yielded) /\ Len(yielded) = begun /\ IsChunks(<<f>>) /\ Len(<<f>>) = 1
  BY <1>3, <1>b DEF IsChunks
<1>5. PICK tail : tail = yielded \o <<f>>
  OBVIOUS
<1>6. /\ IsChunks(tail) /\ Len(tail) = begun + 1
      /\ \A i \in 1..begun : tail[i] = yielded[i]
      /\ tail[begun + 1] = f
  BY <1>4, <1>5, ChunksJoin
<1>7. out' = out \o tail
  BY <1>2, <1>3, <1>5 DEF Yield
<1>8. PICK n \in Nat : n = Len(out)
  BY <1>b DEF IsChunks
<1>9. /\ IsChunks(out') /\ Len(out') = n + (begun + 1)
      /\ \A i \in 1..n : out'[i] = out[i]
      /\ \A i \in 1..(begun + 1) : out'[n + i] = tail[i]
  <2>1. PICK s : s = out
    OBVIOUS
  <2>4. IsChunks(s) /\ IsChunks(tail)
    BY <1>6, <1>b, <2>1
  <2>2. /\ IsChunks(s \o tail) /\ Len(s \o tail) = Len(s) + Len(tail)
        /\ \A i \in 1..Len(s) : (s \o tail)[i] = s[i]
        /\ \A i \in 1..Len(tail) : (s \o tail)[Len(s) + i] = tail[i]
    BY <2>4, ChunksJoin
  <2>3. out' = s \o tail /\ Len(s) = n /\ Len(tail) = begun + 1
    BY <1>6, <1>7, <1>8, <2>1
  <2> QED BY <2>1, <2>2, <2>3
<1>10. PICK last \in Nat : last = n + (begun + 1)
  BY <1>b
<1>11. DOMAIN out = 1..n /\ DOMAIN out' = 1..last
  BY <1>8, <1>9, <1>10, <1>b DEF IsChunks
<1>12. \A i \in 1..begun : out'[n + i] = ToolCall(i, Whole(i))
  BY <1>3, <1>6, <1>9, <1>b
<1>13. out'[last] = f /\ last \in DOMAIN out'
  BY <1>6, <1>9, <1>10, <1>11, <1>b
<1>14. \A i \in (n + 1)..(last - 1) : out'[i] = ToolCall(i - n, Whole(i - n))
  <2> SUFFICES ASSUME NEW i \in (n + 1)..(last - 1) PROVE out'[i] = ToolCall(i - n, Whole(i - n))
    OBVIOUS
  <2>1. PICK k \in 1..begun : k = i - n
    BY <1>10, <1>b
  <2>2. i = n + k
    BY <2>1
  <2> QED BY <1>12, <2>1, <2>2
<1>15. \A i \in 1..n : out'[i].type \in {"text", "error"}
  <2>1. \A i \in 1..n : out[i].type \in {"text", "tool_call", "finish", "error"}
    BY <1>11 DEF ProviderInv, StreamTypes, ProviderTypeOK
  <2>2. \A i \in 1..n : out[i].type # "tool_call" /\ out[i].type # "finish"
    BY <1>11, <1>b DEF Chunks
  <2> QED BY <1>9, <2>1, <2>2
<1>16. \A i \in DOMAIN out' : i \in 1..n \/ i \in (n + 1)..(last - 1) \/ i = last
  BY <1>10, <1>11
<1>17. \A i \in (n + 1)..(last - 1) :
          /\ out'[i].type = "tool_call" /\ out'[i].call = i - n /\ out'[i].input = Whole(i - n)
  <2> SUFFICES ASSUME NEW i \in (n + 1)..(last - 1)
               PROVE  /\ out'[i].type = "tool_call" /\ out'[i].call = i - n
                      /\ out'[i].input = Whole(i - n)
    OBVIOUS
  <2>1. PICK k : k = i - n
    OBVIOUS
  <2>2. out'[i] = ToolCall(k, Whole(k))
    BY <1>14, <2>1
  <2>3. out'[i].type = "tool_call" /\ out'[i].call = k /\ out'[i].input = Whole(k)
    BY <2>2 DEF ToolCall
  <2> QED BY <2>1, <2>3
<1>18. /\ Chunks("finish")' = {last} /\ Chunks("tool_call")' = (n + 1)..(last - 1)
  <2>1. (n + 1)..(last - 1) \subseteq DOMAIN out'
    BY <1>11
  <2>2. \A i \in DOMAIN out' : out'[i].type = "finish" <=> i = last
    BY <1>10, <1>13, <1>15, <1>16, <1>17
  <2>3. \A i \in DOMAIN out' : out'[i].type = "tool_call" <=> i \in (n + 1)..(last - 1)
    BY <1>10, <1>13, <1>15, <1>16, <1>17
  <2> QED BY <1>13, <2>1, <2>2, <2>3 DEF Chunks
<1>19. PassedOn(begun)'
  <2>1. {out'[i].call : i \in (n + 1)..(last - 1)} = 1..begun
    <3>1. \A i \in (n + 1)..(last - 1) : out'[i].call \in 1..begun
      BY <1>10, <1>17, <1>b
    <3>2. \A k \in 1..begun : n + k \in (n + 1)..(last - 1) /\ out'[n + k].call = k
      BY <1>10, <1>17, <1>b
    <3> QED BY <3>1, <3>2
  <2>2. \A i, j \in (n + 1)..(last - 1) : i < j => out'[i].call < out'[j].call
    BY <1>17
  <2> QED BY <1>18, <2>1, <2>2 DEF PassedOn
<1>20. \A i \in DOMAIN out' : out'[i].type \in {"text", "tool_call", "finish", "error"}
  BY <1>13, <1>15, <1>16, <1>17
<1>21. \A i \in (n + 1)..(last - 1) :
          i < last /\ out'[i].call \in 1..begun /\ out'[i].input = Whole(out'[i].call)
  BY <1>10, <1>17, <1>b
<1>22. out' # <<>>
  BY <1>13
<1> QED BY <1>9, <1>13, <1>18, <1>19, <1>20, <1>21, <1>22

LEMMA GeminiEndsKeeps ==
  ASSUME ProviderInv, GeminiEnds PROVE ProviderInv'
<1> USE ProviderAssumption DEF ProviderInv, GeminiEnds, Streaming, askedVars, vendor, adapter
<1>b. begun \in Nat /\ order = [i \in 1..begun |-> i] /\ \A c \in 1..begun : c \in CallNumbers
  BY DEF StreamTypes, ProviderTypeOK, CallsSoFar, CallNumbers
<1>x. PICK x : x = Finish(IF order # <<>> THEN "tool_use" ELSE "end_turn", Produced)
  OBVIOUS
<1>d. /\ x.type = "finish" /\ x.usage = Produced
      /\ x.reason = IF begun > 0 THEN "tool_use" ELSE "end_turn"
  <2>1. order # <<>> <=> begun > 0
    <3>1. CASE begun = 0
      <4>1. 1..begun = {}
        BY <3>1
      <4> QED BY <1>b, <3>1, <4>1
    <3>2. CASE begun > 0
      <4>1. 1 \in DOMAIN order
        BY <1>b, <3>2
      <4> QED BY <3>2, <4>1
    <3> QED BY <1>b, <3>1, <3>2
  <2> QED BY <1>x, <2>1 DEF Finish
<1>e. \A c \in 1..begun : sent[c] = Pieces
  BY <1>b DEF PiecesHeld
<1>n. PICK last \in Nat :
        /\ IsChunks(out') /\ out' # <<>> /\ out'[last] = x
        /\ \A i \in DOMAIN out' : out'[i].type \in {"text", "tool_call", "finish", "error"}
        /\ Chunks("finish")' = {last} /\ PassedOn(begun)'
        /\ \A i \in Chunks("tool_call")' :
             /\ i < last
             /\ out'[i].call \in 1..begun /\ out'[i].input = Whole(out'[i].call)
  BY <1>d, <1>e, <1>x, CallsThenFinish
<1>1. StreamTypes'
  BY <1>n DEF StreamTypes, ProviderTypeOK
<1>2. PiecesHeld'
  BY DEF PiecesHeld
<1>3. CallsSoFar'
  BY <1>n DEF CallsSoFar
<1>4. StopHolds'
  BY <1>n DEF StopHolds
<1>5. CallsOwnInput'
  BY <1>e, <1>n DEF CallsOwnInput
<1>6. FinishIsComplete'
  BY <1>d, <1>n DEF FinishIsComplete, PassedOn
<1>7. UsageExact'
  BY <1>d, <1>n DEF UsageExact, Produced
<1>8. RequestMade'
  BY DEF RequestMade, Request
<1> QED BY <1>1, <1>2, <1>3, <1>4, <1>5, <1>6, <1>7, <1>8

LEMMA LimitReached ==
  ASSUME ProviderInv, FinishReason, stop' = "length" PROVE ProviderInv'
<1> USE ProviderAssumption DEF ProviderInv, FinishReason, Streaming, askedVars, vendor, adapter
<1>x. PICK x : x = Finish("end_turn", usage)
  OBVIOUS
<1>b. x.type = "finish"
  BY <1>x DEF Finish
<1>n. PICK n \in Nat :
        /\ DOMAIN out = 1..n /\ DOMAIN out' = 1..(n + 1)
        /\ IsChunks(out') /\ out' # <<>> /\ out'[n + 1] = x /\ Last(out)' = x
        /\ \A i \in 1..n : out'[i] = out[i]
        /\ \A type : Chunks(type) \subseteq 1..n
        /\ \A type : x.type # type => Chunks(type)' = Chunks(type)
        /\ \A type : x.type = type => Chunks(type)' = Chunks(type) \cup {n + 1}
  BY <1>x, YieldsOne DEF StreamTypes
<1>1. StreamTypes'
  <2>1. \A i \in DOMAIN out' : out'[i].type \in {"text", "tool_call", "finish", "error"}
    BY <1>b, <1>n DEF StreamTypes, ProviderTypeOK
  <2> QED BY <1>n, <2>1 DEF StreamTypes, ProviderTypeOK, CallNumbers, Providers
<1>2. PiecesHeld'
  BY DEF PiecesHeld
<1>c. Chunks("finish")' = {n + 1} /\ Chunks("tool_call")' = {}
  BY <1>b, <1>n DEF StopHolds, CallsSoFar
<1>3. CallsSoFar' /\ CallsOwnInput'
  BY <1>c DEF CallsSoFar, CallsOwnInput
<1>4. StopHolds'
  BY <1>c DEF StopHolds, StreamTypes, ProviderTypeOK
<1>5. FinishIsComplete' /\ UsageExact'
  BY <1>c DEF FinishIsComplete, UsageExact
<1>8. RequestMade'
  BY DEF RequestMade, Request
<1> QED BY <1>1, <1>2, <1>3, <1>4, <1>5, <1>8

LEMMA FinishReasonKeeps ==
  ASSUME ProviderInv, FinishReason, stop' # "length" PROVE ProviderInv'
<1> USE ProviderAssumption DEF ProviderInv, FinishReason, Streaming, askedVars, vendor, adapter
<1>b. begun \in Nat /\ stop' = (IF begun > 0 THEN "tool" ELSE "end")
  BY DEF StreamTypes, ProviderTypeOK
<1>x. PICK x : x = Finish(IF stop' = "tool" THEN "tool_use" ELSE "end_turn", usage)
  OBVIOUS
<1>d. x.type = "finish" /\ x.reason = IF begun > 0 THEN "tool_use" ELSE "end_turn"
  BY <1>b, <1>x DEF Finish
<1>n. PICK last \in Nat :
        /\ IsChunks(out') /\ out' # <<>> /\ out'[last] = x
        /\ \A i \in DOMAIN out' : out'[i].type \in {"text", "tool_call", "finish", "error"}
        /\ Chunks("finish")' = {last} /\ PassedOn(begun)'
        /\ \A i \in Chunks("tool_call")' :
             /\ i < last
             /\ out'[i].call \in 1..begun /\ out'[i].input = Whole(out'[i].call)
  BY <1>d, <1>x, CallsThenFinish
<1>1. StreamTypes'
  BY <1>b, <1>n DEF StreamTypes, ProviderTypeOK
<1>2. PiecesHeld'
  BY DEF PiecesHeld
<1>3. CallsSoFar'
  BY <1>n DEF CallsSoFar
<1>4. StopHolds'
  BY <1>b, <1>n DEF StopHolds
<1>5. CallsOwnInput'
  BY <1>n DEF CallsOwnInput
<1>6. FinishIsComplete'
  BY <1>d, <1>n DEF FinishIsComplete, PassedOn
<1>7. UsageExact'
  BY DEF UsageExact
<1>8. RequestMade'
  BY DEF RequestMade, Request
<1> QED BY <1>1, <1>2, <1>3, <1>4, <1>5, <1>6, <1>7, <1>8

LEMMA ProviderInvNext == ProviderInv /\ [ProviderNext]_providerVars => ProviderInv'
<1> SUFFICES ASSUME ProviderInv, [ProviderNext]_providerVars PROVE ProviderInv'
  OBVIOUS
<1>1. CASE StreamStarts
  BY <1>1, StartKeeps
<1>2. CASE StartFails
  <2>1. CASE provider \in {"gemini", "ollama"}
    BY <1>2, <2>1, ErrorKeeps DEF StartFails
  <2>2. CASE provider \notin {"gemini", "ollama"}
    BY <1>2, <2>2, ThrowKeeps DEF StartFails
  <2> QED BY <2>1, <2>2
<1>3. CASE StreamBreaks
  <2>1. CASE provider = "ollama"
    BY <1>3, <2>1, ErrorKeeps DEF StreamBreaks
  <2>2. CASE provider # "ollama"
    BY <1>3, <2>2, ThrowKeeps DEF StreamBreaks
  <2> QED BY <2>1, <2>2
<1>4. CASE TextDelta
  BY <1>4, TextKeeps
<1>5. CASE ToolBlockStart
  BY <1>5, BlockStartKeeps
<1>6. CASE InputJsonDelta
  BY <1>6, InputDeltaKeeps
<1>7. CASE ContentBlockStop
  BY <1>7, BlockStopKeeps
<1>8. CASE MessageDelta
  BY <1>8, MessageDeltaKeeps
<1>9. CASE MessageStop
  BY <1>9, MessageStopKeeps
<1>10. CASE ToolCallBegins
  BY <1>10, CallBeginsKeeps
<1>11. CASE \E c \in CallNumbers : ArgumentsDelta(c)
  BY <1>11, ArgumentsDeltaKeeps
<1>12. CASE FinishReason
  BY <1>12, LimitReached, FinishReasonKeeps
<1>13. CASE UsageChunk \/ OllamaEnds
  BY <1>13, EndsKeep
<1>14. CASE FunctionCall
  BY <1>14, FunctionCallKeeps
<1>15. CASE GeminiEnds
  BY <1>15, GeminiEndsKeeps
<1>16. CASE ToolCalls
  BY <1>16, ToolCallsKeeps
<1>17. CASE Done
  BY <1>17, DoneKeeps
<1>18. CASE UNCHANGED providerVars
  <2> USE <1>18 DEF providerVars, askedVars, vendor, adapter
  <2>1. (\A type : Chunks(type)' = Chunks(type)) /\ Last(out)' = Last(out)
    BY QuietChunks
  <2>2. StreamTypes' /\ RequestMade' /\ PiecesHeld'
    BY DEF ProviderInv, StreamTypes, ProviderTypeOK, IsChunks, RequestMade, Request, PiecesHeld
  <2>3. CallsSoFar' /\ StopHolds'
    BY <2>1 DEF ProviderInv, CallsSoFar, StopHolds, PassedOn, Produced
  <2>4. CallsOwnInput' /\ FinishIsComplete' /\ UsageExact'
    BY <2>1 DEF ProviderInv, CallsOwnInput, FinishIsComplete, UsageExact, Produced
  <2> QED BY <2>2, <2>3, <2>4 DEF ProviderInv
<1> QED BY <1>1, <1>2, <1>3, <1>4, <1>5, <1>6, <1>7, <1>8, <1>9, <1>10, <1>11, <1>12,
           <1>13, <1>14, <1>15, <1>16, <1>17, <1>18 DEF ProviderNext

(* llm/*.provider.ts: for any conversation the loop keeps, any number of   *)
(* calls and of pieces, what an adapter holds is what the vendor sent of   *)
(* each call, and the calls it has passed on are those of the answer so    *)
(* far, in order.                                                          *)
THEOREM ProviderInvariant == ProviderSpec => []ProviderInv
<1>1. ProviderInit => ProviderInv
  BY ProviderInvInit
<1>2. ProviderInv /\ [ProviderNext]_providerVars => ProviderInv'
  BY ProviderInvNext
<1> QED BY <1>1, <1>2, PTL DEF ProviderSpec

(* llm/*.provider.ts: so the loop is told what the model said: each tool   *)
(* runs with the whole input sent for its call, or none where the limit    *)
(* cut it; a finish comes once, behind every call; the tokens are the      *)
(* vendor's; and every result sent back is linked to the call it answers.  *)
THEOREM NothingMisreportedAlways == ProviderSpec => []NothingMisreported
<1>1. ProviderInv => NothingMisreported
  <2> SUFFICES ASSUME ProviderInv PROVE NothingMisreported
    OBVIOUS
  <2>1. ResultsTraceable
    <3>1. CASE request = <<>>
      BY <3>1 DEF ResultsTraceable
    <3>2. CASE request = Request(conversation)
      BY <3>2, RequestTraceable DEF ProviderInv
    <3> QED BY <3>1, <3>2 DEF ProviderInv, RequestMade
  <2> QED BY <2>1 DEF ProviderInv, NothingMisreported
<1> QED BY <1>1, ProviderInvariant, PTL
=============================================================================
