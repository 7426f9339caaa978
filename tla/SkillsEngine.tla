---------------------------- MODULE SkillsEngine ----------------------------
(***************************************************************************)
(* The skills engine: SkillRegistry and MarketplaceRegistry, each a map in *)
(* memory and a JSON file rewritten after every change, the dump and       *)
(* restore of the two files, and the execution of a skill's tool in the    *)
(* sandbox.  The files are not written atomically; a write the registry    *)
(* cannot make is swallowed, one the marketplace cannot make is thrown.    *)
(***************************************************************************)
EXTENDS SkillsState, Naturals, FiniteSets, FiniteSetsExt

CONSTANT Versions            \* versions of the skill

VARIABLES
  registryNew, marketNew,    \* the .new files of a restore
  dump                       \* the archive an operator keeps

boxVars == <<pc, container, exit, limit, code, report, stopper, boxRuntime, abandoned,
             unwaited>>
engineVars == <<up, installed, market>>
fileVars == <<registryFile, marketFile, registryNew, marketNew, dump, unsaved>>
allEngineVars == <<engineVars, fileVars, manifest, boxVars>>

(* A manifest as the properties see it: what it is for, and whether its    *)
(* schema, image digests and signature check out.                          *)
Manifests == [version : Versions, sound : BOOLEAN]
BuiltIn == [version |-> 0, sound |-> TRUE]

EngineInit == /\ up = TRUE
              /\ installed = {} /\ market = {}
              /\ registryFile = NoFile /\ marketFile = NoFile
              /\ registryNew = NoFile /\ marketNew = NoFile
              /\ dump = [registry |-> NoFile, market |-> NoFile]
              /\ unsaved = {}
              /\ manifest = [c \in Calls |-> NoManifest]
              /\ Box!Init

Of(entries, v) == {m \in entries : m.version = v}

(* get: the named version, or the latest when none (0) is named.           *)
Lookup(entries, v) ==
  IF v # 0 \/ entries = {} THEN Of(entries, v)
  ELSE Of(entries, Max({m.version : m \in entries}))

-----------------------------------------------------------------------------
(* Writing a file: it succeeds, leaves the old text, or leaves it torn.    *)
PersistRegistry ==
  \/ /\ registryFile' = installed'
     /\ unsaved' = unsaved \ {"registry"}
  \/ /\ registryFile' \in {registryFile, Torn}
     /\ unsaved' = unsaved \cup {"registry"}

PersistMarket ==
  \/ /\ marketFile' = market'
     /\ unsaved' = unsaved \ {"market"}
  \/ /\ marketFile' \in {marketFile, Torn}
     /\ unsaved' = unsaved \cup {"market"}

(* InstallSkill; a refusal (bad manifest, already there) changes nothing.  *)
Install(m, force) ==
  /\ up
  /\ verifySkillManifest(m)
  /\ Of(installed, m.version) = {} \/ force
  /\ installed' = (installed \ Of(installed, m.version)) \cup {m}
  /\ PersistRegistry
  /\ UNCHANGED <<up, market, marketFile, registryNew, marketNew, dump, manifest,
                 boxVars>>

(* RemoveSkill: one version, or all of them.                               *)
RemoveSkill(v) ==
  /\ up
  /\ LET gone == IF v = 0 THEN installed ELSE Of(installed, v) IN
     /\ gone # {}
     /\ installed' = installed \ gone
  /\ PersistRegistry
  /\ UNCHANGED <<up, market, marketFile, registryNew, marketNew, dump, manifest,
                 boxVars>>

(* PublishSkill: a write that fails is answered as a failure, but the      *)
(* entry stays published in memory.                                        *)
Publish(m) ==
  /\ up
  /\ verifySkillManifest(m)
  /\ Of(market, m.version) = {}
  /\ market' = market \cup {m}
  /\ PersistMarket
  /\ UNCHANGED <<up, installed, registryFile, registryNew, marketNew, dump, manifest,
                 boxVars>>

(* InstallFromMarketplace: install without force, then count the download; *)
(* the first write is swallowed, the second answered as a failure.         *)
InstallFromMarketplace(v) ==
  /\ up
  /\ \E m \in Of(market, v) :
       /\ verifySkillManifest(m)
       /\ Of(installed, v) = {}
       /\ installed' = installed \cup {m}
       /\ \E saved \in SUBSET {"registry", "market"} :
            /\ registryFile' \in IF "registry" \in saved THEN {installed'}
                                                         ELSE {registryFile, Torn}
            /\ marketFile' \in IF "market" \in saved THEN {market}
                                                     ELSE {marketFile, Torn}
            /\ unsaved' = {"registry", "market"} \ saved
  /\ UNCHANGED <<up, market, registryNew, marketNew, dump, manifest, boxVars>>

-----------------------------------------------------------------------------
(* DumpFiles packs the files as they are; RestoreFiles leaves each piece   *)
(* that is not empty beside its file for the next start, one after the     *)
(* other: the second may fail, or the engine die, after the first.         *)
DumpFiles ==
  /\ up
  /\ dump' = [registry |-> registryFile, market |-> marketFile]
  /\ UNCHANGED <<engineVars, registryFile, marketFile, registryNew, marketNew,
                 unsaved, manifest, boxVars>>

Staged(new, piece) == IF piece = NoFile THEN new ELSE piece

RestoreFiles ==
  /\ up
  /\ registryNew' = Staged(registryNew, dump.registry)
  /\ marketNew' \in {Staged(marketNew, dump.market), marketNew}
  /\ UNCHANGED <<engineVars, registryFile, marketFile, dump, unsaved, manifest,
                 boxVars>>

(* The engine stops, or dies writing a file.                               *)
Stop ==
  /\ up
  /\ up' = FALSE /\ installed' = {} /\ market' = {}
  /\ \/ UNCHANGED <<registryFile, marketFile>>
     \/ registryFile # NoFile /\ registryFile' = Torn /\ UNCHANGED marketFile
     \/ marketFile # NoFile /\ marketFile' = Torn /\ UNCHANGED registryFile
  /\ UNCHANGED <<registryNew, marketNew, dump, unsaved, manifest, boxVars>>

(* An entry of a file is altered on disk: its signature no longer fits.    *)
Altered(file) ==
  IF file \in {NoFile, Torn} THEN {}
  ELSE {(file \ {m}) \cup {[m EXCEPT !.sound = FALSE]} : m \in file}

Alter ==
  /\ \/ registryFile' \in Altered(registryFile) /\ UNCHANGED marketFile
        /\ unsaved' = unsaved \cup {"registry"}
     \/ marketFile' \in Altered(marketFile) /\ UNCHANGED registryFile
        /\ unsaved' = unsaved \cup {"market"}
  /\ UNCHANGED <<engineVars, registryNew, marketNew, dump, manifest, boxVars>>

(* Mutant: what the file says is believed. *)
LoadUnverified(file) == Listed(file)

(* A file that does not parse is an empty registry; an entry that does not *)
(* verify is skipped.  The marketplace believes its file.                  *)
Load(file) == {m \in Listed(file) : verifySkillManifest(m)}

Current(file, new) == IF new = NoFile THEN file ELSE new

Start ==
  LET registry == Current(registryFile, registryNew)
      listing == Current(marketFile, marketNew)
  IN
  /\ ~up
  /\ up' = TRUE
  /\ installed' = Load(registry) /\ market' = Listed(listing)
  /\ registryFile' = registry /\ marketFile' = listing
  /\ registryNew' = NoFile /\ marketNew' = NoFile
  /\ unsaved' = (IF Load(registry) = Listed(registry) THEN {} ELSE {"registry"})
  /\ UNCHANGED <<dump, manifest, boxVars>>

-----------------------------------------------------------------------------
(* ExecuteSkillTool: what is installed now is what runs; a skill that is   *)
(* not (or no longer) installed is answered at once.  Built-in tools come  *)
(* to the sandbox from the agent runtime.                                  *)
ExecuteSkillTool(c, v) ==
  /\ up
  /\ \E m \in Lookup(installed, v) : manifest' = [manifest EXCEPT ![c] = m]
  /\ Box!RunTool(c)
  /\ UNCHANGED <<engineVars, fileVars>>

RunBuiltIn(c) ==
  /\ manifest' = [manifest EXCEPT ![c] = BuiltIn]
  /\ Box!RunTool(c)
  /\ UNCHANGED <<engineVars, fileVars>>

SandboxStep ==
  /\ \/ \E c \in Calls : \/ Box!Daemon(c)
                         \/ Box!LimitPasses(c)
                         \/ Box!Stop(c)
                         \/ \E how \in Box!Codes : Box!ContainerExits(c, how)
     \/ Box!Crash \/ Box!CheckRuntime
  /\ UNCHANGED <<engineVars, fileVars, manifest>>

Registry == \/ \E m \in Manifests : \/ \E force \in BOOLEAN : Install(m, force)
                                    \/ Publish(m)
            \/ \E v \in Versions \cup {0} : RemoveSkill(v)
            \/ \E v \in Versions : InstallFromMarketplace(v)

Backup == DumpFiles \/ RestoreFiles

EngineNext == \/ Registry
              \/ Backup
              \/ Stop \/ Start \/ Alter
              \/ \E c \in Calls : \/ RunBuiltIn(c)
                                  \/ \E v \in Versions \cup {0} : ExecuteSkillTool(c, v)
              \/ SandboxStep

EngineFairness == Box!SandboxFairness

EngineSpec == EngineInit /\ [][EngineNext]_allEngineVars /\ EngineFairness

-----------------------------------------------------------------------------
Files == {NoFile, Torn} \cup SUBSET Manifests

EngineTypeOK ==
  /\ up \in BOOLEAN
  /\ installed \subseteq Manifests /\ market \subseteq Manifests
  /\ registryFile \in Files /\ marketFile \in Files
  /\ registryNew \in Files /\ marketNew \in Files
  /\ dump \in [registry : Files, market : Files]
  /\ unsaved \subseteq {"registry", "market"}
  /\ manifest \in [Calls -> Manifests \cup {BuiltIn, NoManifest}]
  /\ Box!SandboxTypeOK

(* Every call made through the engine is answered.                         *)
CallsAnswered == Box!CallsAnswered
=============================================================================
