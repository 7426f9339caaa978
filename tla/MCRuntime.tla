----------------------------- MODULE MCRuntime -----------------------------
(* The parts of the runtime around the agent loop: its handlers with the   *)
(* gateway's routes, harness evolution, what its analyser makes of the     *)
(* audit log, the adapters of the LLM providers, the orchestrator, the     *)
(* screening of texts and URLs, and the skills engine with its sandbox.    *)
(* They share no variable, so one run checks them side by side: "part"     *)
(* says which one moves.                                                   *)
(*                                                                         *)
(* Harness evolution moves in two ways: in "patches" both patches, with    *)
(* one call to the memory store under way at a time; in "writes" one, with *)
(* two calls that may overtake each other.  So does the skills engine: in  *)
(* "execute" a tool, a skill's or a built-in one, runs while the registry  *)
(* changes, is altered on disk and restarts, every write going through; in *)
(* "store" nothing runs, and failing writes, torn files, the marketplace,  *)
(* dumps and restores take part, with one version.                         *)
EXTENDS HarnessEvolution, SkillsState, ChatFrames, Orchestrator, Screening,
        ProviderStreams, PatternAnalysis, TLC, Integers

CONSTANTS p1, p2,                                       \* HarnessEvolution
          Versions,                                     \* SkillsEngine
          MaxSteps, MaxStops                            \* ChatRoute

VARIABLES part,
          registryNew, marketNew, dump,
          token, running, live, asked, told, socket, place, of, run, taken,
          verdict, stream

MCPatches == {p1, p2}

(* Conversations: a first message, and one that went through two calls of  *)
(* one tool, whose results came back in the other order.                   *)
User == [role |-> "user"]
CallOf(id) == [id |-> id, tool |-> "bash"]
MCHistories ==
  {<<User>>,
   <<User, [role |-> "assistant", calls |-> <<CallOf("c1"), CallOf("c2")>>],
     [role |-> "tool", call |-> CallOf("c2")],
     [role |-> "tool", call |-> CallOf("c1")], User>>}

(* Texts of the workers: nothing, all terms, all terms with the mark of an *)
(* injection, one of them with those of a failed step and a hallucination. *)
MCTerms == {"report", "totals", "region"}
Txt(terms, marks, n) == [terms |-> terms, marks |-> marks, length |-> n]
MCTexts == {Txt({}, {}, 0), Txt(MCTerms, {}, 60), Txt(MCTerms, {"injection"}, 60),
            Txt({"totals"}, {"ERROR", "marker"}, 20)}

(* Values of TESSERA_ORCHESTRATOR_MAX_RETRIES.                             *)
MCRetries == {-1, 0, 1}

Skills == INSTANCE SkillsEngine
Route == INSTANCE ChatRoute WITH Sessions <- {1}, sessions <- live, up <- running,
                                 phase <- place, steps <- taken

(* Texts: a clean one; one that has a pattern as it is and decoded; one    *)
(* that has it encoded, with the session's delimiters; one with a critical *)
(* pattern and, but for its accents, another.                              *)
MCSeverityOf == [odd |-> "high", evil |-> "critical"]
Plain(plain, encoded, accented, tag) ==
  [plain |-> plain, encoded |-> encoded, accented |-> accented, tag |-> tag]
MCContents == {Plain({}, {}, {}, FALSE), Plain({"odd"}, {"odd"}, {}, FALSE),
               Plain({}, {"odd"}, {"odd"}, TRUE), Plain({"evil"}, {}, {"odd"}, FALSE)}

registry == <<up, installed, registryFile, unsaved>>
box      == <<manifest, pc, container, exit, limit, code, report, stopper, boxRuntime,
              abandoned, unwaited>>
archive  == <<market, marketFile, dump, registryNew, marketNew>>
skills   == <<registry, box, archive>>
route    == <<token, running, stops, live, asked, told, socket, place, of, run, taken,
              verdict, stream, frames>>
others   == <<providerVars, pipelineVars, analysisVars, route, screeningVars>>

Parts == {"patches", "writes", "execute", "store", "streams", "tasks", "analysis",
          "route", "screens"}

MCInit == /\ part \in Parts
          /\ Init
          /\ Skills!EngineInit
          /\ ProviderInit
          /\ (part # "streams" => provider = "openai" /\ conversation = <<User>>)
          /\ PipelineInit
          /\ (part # "tasks" => /\ described = {} /\ config.retries = 0
                               /\ ~config.enabled /\ ~config.worker /\ ~config.thinker)
          /\ AnalysisInit
          /\ Route!Init
          /\ ScreeningInit
          /\ (part # "screens" => sensitivity = "medium")

MCNext == /\ UNCHANGED part
          /\ \/ part = "patches" /\ Next /\ Cardinality(calls') <= 1
                /\ UNCHANGED <<skills, others>>
             \/ part = "writes" /\ Next /\ store'[p2] = Absent
                /\ UNCHANGED <<skills, others>>
             \/ part = "execute" /\ UNCHANGED archive /\ Skills!EngineNext
                /\ (installed' # installed /\ up' = up => registryFile' = installed')
                /\ registryFile' # Torn
                /\ UNCHANGED <<vars, others>>
             \/ part = "store" /\ UNCHANGED box /\ Skills!EngineNext
                /\ (\A m \in installed' \cup market' : m.version = 1)
                /\ UNCHANGED <<vars, others>>
             \/ part = "streams" /\ ProviderNext
                /\ UNCHANGED <<vars, skills, pipelineVars, analysisVars, route, screeningVars>>
             \/ part = "tasks" /\ PipelineNext
                /\ UNCHANGED <<vars, skills, providerVars, analysisVars, route, screeningVars>>
             \/ part = "analysis" /\ AnalysisNext
                /\ UNCHANGED <<vars, skills, providerVars, pipelineVars, route, screeningVars>>
             \/ part = "route" /\ Route!Next
                /\ UNCHANGED <<vars, skills, providerVars, pipelineVars, analysisVars, screeningVars>>
             \/ part = "screens" /\ ScreeningNext
                /\ UNCHANGED <<vars, skills, providerVars, pipelineVars, analysisVars, route>>

(* A part that stands still enables no action it is fair to.               *)
MCSpec == /\ MCInit /\ [][MCNext]_<<part, vars, skills, others>>
          /\ Skills!EngineFairness /\ Route!RouteFairness /\ ScreeningFairness

-----------------------------------------------------------------------------
(* Each part keeps its types: the patches' maps and table, the engine's    *)
(* files and its calls, a stream's chunks, the pipeline's attempts, an     *)
(* analysis, the messages.                                                 *)
PartsTypeOK == /\ TypeOK /\ Skills!EngineTypeOK /\ ProviderTypeOK
               /\ PipelineTypeOK /\ AnalysisTypeOK
               /\ Route!RouteTypeOK /\ ScreeningTypeOK

(* What is begun around a run is answered, whoever fails, dies, stays      *)
(* silent or leaves: tool calls (container-manager.ts), messages and the   *)
(* runs of sessions or sockets that are gone (chat.route.ts,               *)
(* agent.impl.ts), URL checks (url-safety.ts), alerts (alerting.service.ts)*)
AllAnswered == /\ Skills!CallsAnswered
               /\ Route!MessageAnswered /\ Route!OrphansEnd
               /\ UrlChecksEnd /\ AlertsAudited

(* What is over is not begun again: no run in a session the client knows   *)
(* to be over (session-manager.ts), no new patch from a log analysed       *)
(* before (daily-job.ts).                                                  *)
DoneStaysDone == Route!NoneBegunAfterEnd /\ Idempotent
=============================================================================
