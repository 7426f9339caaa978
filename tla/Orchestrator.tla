---------------------------- MODULE Orchestrator ----------------------------
(***************************************************************************)
(* agent-runtime/src/orchestrator and verifier: one Orchestrator.execute.  *)
(* The thinker splits the task once, the worker answers step by step, and  *)
(* the verifier judges the joined answers; a failed verdict sends all the  *)
(* steps again with its summary.  Every LLM call is awaited and may fail.  *)
(*                                                                         *)
(* A text is what the verifier can see of it: the task's key terms it      *)
(* mentions, the marks its patterns find, and its length.                  *)
(***************************************************************************)
EXTENDS Integers, Sequences, SequencesExt, FiniteSets

CONSTANTS Terms,           \* key terms of the task's description
          TaskLength,      \* characters of the description
          Texts,           \* texts an LLM may write
          RetrySettings    \* values of TESSERA_ORCHESTRATOR_MAX_RETRIES

VARIABLES config,          \* [enabled, worker, thinker, retries]
          described,       \* keywords of the description, by tier
          stage,           \* "called", "working", "verifying", "returned", "threw"
          steps, results,  \* of the current attempt
          attempt,
          output, prompted,\* lastOutput; the summary the steps were sent with
          passed, feedback, modelUsed,
          workerCalls      \* history: worker.complete calls

setting == <<config, described>>
judged == <<passed, feedback>>
pipelineVars == <<setting, stage, steps, results, attempt, output, prompted, judged,
                  modelUsed, workerCalls>>

Marks == {"marker", "injection", "compliance", "ERROR", "error"}
Blank == [terms |-> {}, marks |-> {}, length |-> 0]
Description == [terms |-> Terms, marks |-> {}, length |-> TaskLength]
None == {}                 \* no failed check

(* [Worker LLM failed for step: ...] quotes the step.                      *)
Placeholder(step) == [step EXCEPT !.length = @ + 30]

(* Texts joined: what is found in one of them is found in the whole.       *)
Joined(texts) ==
  [terms |-> UNION {texts[i].terms : i \in DOMAIN texts},
   marks |-> UNION {texts[i].marks : i \in DOMAIN texts},
   length |-> FoldSeq(LAMBDA t, n : t.length + n, 0, texts)]

-----------------------------------------------------------------------------
(* OutputVerifier.verify.                                                  *)
IsBlank(text) == text.length = 0

Factual(text) == ~IsBlank(text) /\ "marker" \notin text.marks

Complete(text) ==
  LET needed == IF Cardinality(Terms) * 7 < 10 THEN 1 ELSE (Cardinality(Terms) * 7) \div 10
  IN  \/ TaskLength = 0
      \/ /\ ~IsBlank(text)
         /\ Terms # {} => Cardinality(text.terms \cap Terms) >= needed
         /\ ~(text.length * 10 < TaskLength * 3 /\ TaskLength > 50)

Safe(text) == IsBlank(text) \/ "injection" \notin text.marks
Compliant(text) == IsBlank(text) \/ "compliance" \notin text.marks

FailedChecks(text) ==
  {c \in {"factuality", "completeness", "safety", "compliance"} :
     CASE c = "factuality" -> ~Factual(text)
       [] c = "completeness" -> ~Complete(text)
       [] c = "safety" -> ~Safe(text)
       [] OTHER -> ~Compliant(text)}

(* verifyWithFeedback: the verifier with a worker, a heuristic without.    *)
StubFailure(text) == IF IsBlank(text) \/ "ERROR" \in text.marks THEN {"stub"} ELSE {}
Failure(text) == IF config.worker THEN FailedChecks(text) ELSE StubFailure(text)

(* Triage and the model router.                                            *)
classifyComplexity(found) ==
  CASE "critical" \in found -> "critical"
    [] "critical" \notin found /\ "complex" \in found -> "complex"
    [] found = {"simple"} -> "simple"
    [] OTHER -> "medium"

routeModel(complexity) ==
  IF complexity \in {"complex", "critical"} THEN "thinkerModel" ELSE "workerModel"

(* loadConfigFromEnv: what is not a number becomes the default; an empty   *)
(* string is the number 0, and a negative one is taken as it is.           *)
DefaultRetries == 3
ConfiguredRetries == RetrySettings \cup {DefaultRetries}
maxRetries == IF config.retries < 2 THEN config.retries ELSE 2

PipelineInit ==
        /\ \E enabled, worker, thinker \in BOOLEAN, retries \in ConfiguredRetries :
             config = [enabled |-> enabled, worker |-> worker, thinker |-> thinker,
                       retries |-> retries]
        /\ described \in SUBSET {"critical", "complex", "simple"}
        /\ stage = "called"
        /\ steps = <<>> /\ results = <<>>
        /\ attempt = 0
        /\ output = Blank
        /\ prompted = None
        /\ passed = FALSE /\ feedback = None
        /\ modelUsed = "none"
        /\ workerCalls = 0

-----------------------------------------------------------------------------
(* decompose(): a JSON array of strings, possibly empty, else two or more  *)
(* lines, else the task itself; a failed call counts as no answer.         *)
Decomposed ==
  IF config.thinker
  THEN {<<>>, <<Description>>} \cup [1..2 -> Texts \ {Blank}]
  ELSE {<<Description>>}

Execute ==
  /\ stage = "called"
  /\ ~config.enabled
  /\ stage' = "threw"
  /\ UNCHANGED <<setting, steps, results, attempt, output, prompted, judged,
                 modelUsed, workerCalls>>

(* Where an attempt goes once its text is there: a negative maxRetries     *)
(* means it is never verified.                                             *)
Verified(text) == stage' = IF attempt <= maxRetries THEN "verifying" ELSE "returned"

Decompose ==
  /\ stage = "called"
  /\ config.enabled
  /\ modelUsed' = routeModel(classifyComplexity(described))
  /\ \E split \in Decomposed :
       /\ steps' = split
       /\ IF config.worker /\ split # <<>>
          THEN stage' = "working" /\ UNCHANGED output
          ELSE output' = Joined(split) /\ Verified(output')
  /\ UNCHANGED <<setting, results, attempt, prompted, judged, workerCalls>>

(* The worker answered a step, or failed and a placeholder takes its place. *)
WorkerAnswers(text) ==
  /\ stage = "working"
  /\ workerCalls' = workerCalls + 1
  /\ IF Len(results) + 1 < Len(steps)
     THEN results' = Append(results, text) /\ UNCHANGED <<stage, output>>
     ELSE /\ output' = Joined(Append(results, text))
          /\ results' = <<>>
          /\ Verified(output')
  /\ UNCHANGED <<setting, steps, attempt, prompted, judged, modelUsed>>

Worker == /\ stage = "working"
          /\ \E text \in Texts \cup {Placeholder(steps[Len(results) + 1])} :
               WorkerAnswers(text)

(* Mutant: the last verdict is kept when the retries are used up. *)
VerifyFailsStale ==
  /\ stage = "verifying"
  /\ Failure(output) # {}
  /\ feedback' = Failure(output)
  /\ IF attempt = maxRetries
     THEN /\ stage' = "returned"
          /\ passed' = (attempt > 0)
          /\ UNCHANGED <<attempt, output, prompted>>
     ELSE /\ attempt' = attempt + 1
          /\ passed' = FALSE
          /\ prompted' = Failure(output)
          /\ IF config.worker /\ steps # <<>>
             THEN stage' = "working" /\ UNCHANGED output
             ELSE UNCHANGED <<stage, output>>
  /\ UNCHANGED <<setting, steps, results, modelUsed, workerCalls>>

VerifyPasses ==
  /\ stage = "verifying"
  /\ Failure(output) = {}
  /\ passed' = TRUE
  /\ stage' = "returned"
  /\ UNCHANGED <<setting, steps, results, attempt, output, prompted, feedback,
                 modelUsed, workerCalls>>

(* A failed verdict: the worker runs the steps again with the summary; the *)
(* stub replaces its ERROR marks, in whatever case.                        *)
VerifyFails ==
  /\ stage = "verifying"
  /\ Failure(output) # {}
  /\ passed' = FALSE
  /\ feedback' = Failure(output)
  /\ IF attempt = maxRetries
     THEN stage' = "returned" /\ UNCHANGED <<attempt, output, prompted>>
     ELSE /\ attempt' = attempt + 1
          /\ CASE config.worker /\ steps # <<>> ->
                    stage' = "working" /\ prompted' = Failure(output) /\ UNCHANGED output
               [] config.worker /\ steps = <<>> ->
                    output' = Blank /\ UNCHANGED <<stage, prompted>>
               [] ~config.worker ->
                    /\ output' = [output EXCEPT !.marks = @ \ {"ERROR", "error"}]
                    /\ UNCHANGED <<stage, prompted>>
  /\ UNCHANGED <<setting, steps, results, modelUsed, workerCalls>>

PipelineNext == Execute \/ Decompose \/ Worker \/ VerifyPasses \/ VerifyFails

(* An LLM call that never answers is bounded by nothing: config.timeout is *)
(* read by no one.  Fairness is therefore only that of calls that answer.  *)
PipelineSpec == PipelineInit /\ [][PipelineNext]_pipelineVars

-----------------------------------------------------------------------------
(* What the pipeline holds is of its types.                                *)
PipelineTypeOK ==
  /\ stage \in {"called", "working", "verifying", "returned", "threw"}
  /\ attempt \in 0..2
  /\ stage = "working" => Len(results) < Len(steps)
  /\ output.terms \subseteq Terms /\ output.marks \subseteq Marks
  /\ passed \in BOOLEAN
  /\ modelUsed \in {"none", "thinkerModel", "workerModel"}

(* The verdict returned is that of the text returned, not of an earlier    *)
(* attempt, and without a verdict the result says it did not pass.         *)
VerdictIsOfOutput ==
  stage = "returned" =>
    passed = (maxRetries >= 0 /\ Failure(output) = {})

(* Each attempt asks the worker once per step and joins one answer per     *)
(* step: no answer of an earlier attempt is left in the text.              *)
OneAnswerPerStep ==
  config.worker =>
    /\ workerCalls = Len(steps) * (IF stage = "working" THEN attempt ELSE attempt + 1)
                       + Len(results)
    /\ stage # "working" => results = <<>>

(* "Verifier feedback from the last failed check (if any)" (types.ts): a   *)
(* result that passed at once has none, and a retry was sent with it.      *)
FeedbackIsOfLastFailure ==
  /\ feedback = None <=> (attempt = 0 /\ (passed \/ stage # "returned" \/ maxRetries < 0))
  /\ stage = "returned" /\ ~passed /\ maxRetries >= 0 => feedback = Failure(output)
  /\ prompted # None => attempt > 0 /\ (passed \/ stage # "returned" => prompted = feedback)

(* orchestrator.ts: attempts do not mix - the output has one answer for    *)
(* each step, the verdict is about that output, and a retry is told why    *)
(* the attempt before it failed.                                           *)
AttemptsApart == OneAnswerPerStep /\ VerdictIsOfOutput /\ FeedbackIsOfLastFailure
=============================================================================
