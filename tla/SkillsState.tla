----------------------------- MODULE SkillsState -----------------------------
(***************************************************************************)
(* What the skills engine and its sandbox keep - the two registries, their *)
(* files, and the calls in their containers - and what it promises.        *)
(***************************************************************************)
CONSTANTS Calls,             \* ExecuteSkillTool and built-in RunTool requests
          NoFile, Torn,      \* no file; a file that does not parse
          NoManifest

VARIABLES
  up,                        \* whether the engine runs
  installed, market,         \* SkillRegistry.store, MarketplaceRegistry.entries
  registryFile, marketFile,  \* registry.json, marketplace.json
  unsaved,                   \* history: files whose last write went wrong
  manifest,                  \* the manifest each call was prepared from
  pc, container, exit, limit, code, report, stopper, boxRuntime, abandoned, unwaited

Box == INSTANCE Sandbox WITH runtime <- boxRuntime

verifySkillManifest(m) == m.sound

Listed(file) == IF file \in {NoFile, Torn} THEN {} ELSE file

-----------------------------------------------------------------------------
(* index.ts: "Each installed skill is verified with Ed25519 on every load" *)
(* - no tool runs from a manifest that does not verify, whether it came by *)
(* an install, the marketplace, an altered file, a restore or a restart.   *)
RunsOnlyVerified ==
  \A c \in Calls : manifest[c] # NoManifest => verifySkillManifest(manifest[c])

(* What the engine lists is what a restart would bring back, for either    *)
(* map, as long as the last write of its file went through.                *)
StoreFiled ==
  up => /\ "registry" \notin unsaved => Listed(registryFile) = installed
        /\ "market" \notin unsaved => Listed(marketFile) = market

(* registry.ts, skill-loader.ts: through installs, failed writes, restores *)
(* and restarts only what was verified runs, and what is listed is what    *)
(* the next start brings back.                                             *)
RegistryHolds == RunsOnlyVerified /\ StoreFiled

(* container-manager.ts: no container outlives its call's answer, and an   *)
(* answer of success is a container that ended by itself.                  *)
AnswersAreTrue == Box!AnsweredLeavesNothing /\ Box!SuccessIsReal
=============================================================================
