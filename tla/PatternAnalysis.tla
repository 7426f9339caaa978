-------------------------- MODULE PatternAnalysis --------------------------
(***************************************************************************)
(* agent-runtime/src/harness-evolution: what evolve() makes of the audit   *)
(* log.  The adapter derives the recent sessions from the newest events,   *)
(* the analyser fetches each session's events and looks for four patterns, *)
(* and the generator writes one patch per pattern type, which is known by  *)
(* a hash of its text, so by the type and the counts in it.  Every fetch   *)
(* is awaited, while runs go on logging; a failed one counts as empty.     *)
(* One job at a time: what two of them share is HarnessEvolution's.        *)
(*                                                                         *)
(* An event is known by its place in the log, which is its time; a list of *)
(* events is the set of their places, the newest the greatest.             *)
(***************************************************************************)
EXTENDS Naturals, Sequences, FiniteSets, FiniteSetsExt, Functions

CONSTANTS Sessions, NoSession,   \* session ids; events of no session have ""
          AnalysedTools,
          MaxSessions,           \* evolve's limit
          RecentEvents,          \* RECENT_SESSIONS_EVENT_LIMIT
          SessionEvents,         \* SESSION_EVENTS_LIMIT
          MaxEvents,             \* bound: events of sessions
          MaxJobs                \* bound: evolve() calls

ASSUME AnalysisAssumption ==
  /\ NoSession \notin Sessions
  /\ {MaxSessions, RecentEvents, SessionEvents, MaxEvents, MaxJobs} \subseteq Nat

VARIABLES log,                   \* audit_events, oldest first
          queue,                 \* sessions to fetch, with the place of their last event
          analyses,              \* the patterns of those fetched
          known,                 \* patches stored or pending
          jobs,                  \* evolve() calls so far
          settled                \* history: "whole" once an evolve() saw the whole
                                 \* log and no session has added to it

analysisVars == <<log, queue, analyses, known, jobs, settled>>

(* Events as the agent runtime logs them: a tool is named by tool_id.      *)
Event(type, s, payload) == [type |-> type, session |-> s, payload |-> payload]
Called(s, t) == Event("tool_call", s, [tool_id |-> t])
FailedCall(s) == Event("tool_result", s, [success |-> FALSE])
Injected(s) == Event("injection_detected", s, [source |-> "user_input"])
Asked(s) == Event("approval_requested", s, [source |-> "gate"])
Generated == Event("harness_patch_generated", NoSession, [source |-> "evolve"])

OfSessions == {Called(s, t) : s \in Sessions, t \in AnalysedTools}
                \cup UNION {{FailedCall(s), Asked(s), Injected(s)} : s \in Sessions}

(* The pattern types, each with the types of the events that count for it. *)
EventTypes == [tool_failure        |-> {"tool_call"},
               loop_detected       |-> {"tool_call"},
               injection_detected  |-> {"injection_detected"},
               approval_bottleneck |-> {"approval_required", "approval_pending"}]
PatternTypes == DOMAIN EventTypes

NoneYet == [s \in {} |-> {}]
Idle == DOMAIN queue = {}

AnalysisInit == /\ log = <<>>
                /\ queue = NoneYet
                /\ analyses = NoneYet
                /\ known = {}
                /\ jobs = 0
                /\ settled = "no"

LogEvent(e) ==
  /\ Cardinality({i \in DOMAIN log : log[i].session # NoSession}) < MaxEvents
  /\ log' = Append(log, e)
  /\ settled' = "no"
  /\ UNCHANGED <<queue, analyses, known, jobs>>

-----------------------------------------------------------------------------
(* The adapter.  QueryEvents takes the newest.                             *)
Newest(places, n) == {i \in places : Cardinality({j \in places : j > i}) < n}

(* Mutant: the session's filter is not passed on. *)
QueryEventsOfAll(s, n) == Newest(DOMAIN log, n)

QueryEvents(s, n) ==
  Newest({i \in DOMAIN log : s = NoSession \/ log[i].session = s}, n)

(* toAuditEvent: what the payload does not name is unknown.                *)
ToolName(e) == IF "tool_name" \in DOMAIN e.payload THEN e.payload.tool_name ELSE "unknown"
Failed(e) == "success" \in DOMAIN e.payload /\ ~e.payload.success

(* Sessions among the newest events, those whose last event is newest.     *)
RecentSessions ==
  LET recent == QueryEvents(NoSession, RecentEvents)
      seen == {log[i].session : i \in recent} \ {NoSession}
      last == [s \in seen |-> Max({i \in recent : log[i].session = s})]
  IN  Restrict(last, {s \in seen : last[s] \in Newest(Range(last), MaxSessions)})

-----------------------------------------------------------------------------
(* The detectors, on one session's events.  A pattern is of the session    *)
(* its newest event is of; its frequency is the number of its events.      *)
Pattern(type, at) == [type |-> type, session |-> log[Max(at)].session, at |-> at]
Candidates(type, events) == {i \in events : log[i].type \in EventTypes[type]}

(* The groups of a Map that is filled by key.                              *)
GroupsBy(key) == {{i \in DOMAIN key : key[i] = k} : k \in Range(key)}

detectToolFailures(events) ==
  LET failures == {i \in Candidates("tool_failure", events) : Failed(log[i])}
  IN  {Pattern("tool_failure", g) : g \in GroupsBy([i \in failures |-> ToolName(log[i])])}

toolEvents(events) == Candidates("loop_detected", events)

(* A run: the calls around one with no other name between.                 *)
RunOf(i, calls) ==
  {j \in calls : \A k \in calls : (i <= k /\ k <= j) \/ (j <= k /\ k <= i) =>
                                    ToolName(log[k]) = ToolName(log[i])}

Loops(events) ==
  LET calls == toolEvents(events)
  IN  {r \in {RunOf(i, calls) : i \in calls} : Cardinality(r) >= 3}

detectLoops(events) == {Pattern("loop_detected", r) : r \in Loops(events)}

GroupedBySession(type, events) ==
  {Pattern(type, g) : g \in GroupsBy([i \in Candidates(type, events) |-> log[i].session])}

detectInjectionPatterns(events) == GroupedBySession("injection_detected", events)
detectApprovalBottlenecks(events) == GroupedBySession("approval_bottleneck", events)

Detected(events) == detectToolFailures(events) \cup detectLoops(events)
                      \cup detectInjectionPatterns(events)
                      \cup detectApprovalBottlenecks(events)

-----------------------------------------------------------------------------
(* The generator: one patch per pattern type, known by the hash of a text  *)
(* that quotes the two counts.                                             *)
Gathered(type, of) ==
  UNION {{<<s, p>> : p \in {q \in of[s] : q.type = type}} : s \in DOMAIN of}
Total(type, of) == SumFunction([f \in Gathered(type, of) |-> Cardinality(f[2].at)])
Affected(type, of) == Cardinality({f[2].session : f \in Gathered(type, of)})

Identified(type, of) ==
  [type |-> type, total |-> Total(type, of), affected |-> Affected(type, of)]

generatePatches(of) ==
  {Identified(t, of) : t \in {u \in PatternTypes : Affected(u, of) > 0}}

-----------------------------------------------------------------------------
(* evolve(), up to its next await.  Each new patch is logged, by no        *)
(* session, and stored as pending.                                         *)
Persist(of) ==
  LET new == generatePatches(of) \ known
  IN  /\ known' = known \cup new
      /\ log' = log \o [i \in 1..Cardinality(new) |-> Generated]

EvolveBegins ==
  /\ Idle
  /\ jobs < MaxJobs
  /\ jobs' = jobs + 1
  /\ queue' = RecentSessions
  /\ settled' = IF settled = "whole" \/ DOMAIN RecentSessions = {} THEN "whole" ELSE "begun"
  /\ UNCHANGED <<log, analyses, known>>

(* The audit service cannot be reached: no session at all.                 *)
RecentFails ==
  /\ Idle
  /\ jobs < MaxJobs
  /\ jobs' = jobs + 1
  /\ settled' = "no"
  /\ UNCHANGED <<log, queue, analyses, known>>

Analysed(s, events) ==
  [t \in DOMAIN analyses \cup {s} |-> IF t = s THEN Detected(events) ELSE analyses[t]]

(* Sessions are fetched in turn, the last active first.                    *)
Fetched(s, events, whole) ==
  /\ \A t \in DOMAIN queue : queue[t] <= queue[s]
  /\ queue' = Restrict(queue, DOMAIN queue \ {s})
  /\ IF DOMAIN queue # {s}
     THEN /\ analyses' = Analysed(s, events)
          /\ settled' = IF whole THEN settled ELSE "no"
          /\ UNCHANGED <<log, known>>
     ELSE /\ analyses' = NoneYet
          /\ settled' = IF whole /\ settled # "no" THEN "whole" ELSE "no"
          /\ Persist(Analysed(s, events))
  /\ UNCHANGED jobs

FetchAnswered == \E s \in DOMAIN queue : Fetched(s, QueryEvents(s, SessionEvents), TRUE)
FetchFails == \E s \in DOMAIN queue : Fetched(s, {}, FALSE)

AnalysisNext == \/ \E e \in OfSessions : LogEvent(e)
                \/ EvolveBegins \/ RecentFails \/ FetchAnswered \/ FetchFails

AnalysisSpec == AnalysisInit /\ [][AnalysisNext]_analysisVars

-----------------------------------------------------------------------------
(* What an evolve() holds is of its types.                                 *)
AnalysisTypeOK ==
  /\ log \in Seq(OfSessions \cup {Generated})
  /\ \A s \in DOMAIN queue : s \in Sessions /\ queue[s] \in DOMAIN log
  /\ \A s \in DOMAIN analyses : s \in Sessions
  /\ Idle => DOMAIN analyses = {}
  /\ known \subseteq [type : PatternTypes, total : Nat, affected : Nat]
  /\ jobs \in 0..MaxJobs
  /\ settled \in {"no", "begun", "whole"}

(* Calls of one tool in a row, three or more, wherever they stand in the   *)
(* session's log, lie in one reported loop.                                *)
LoopsAreFound ==
  \A s \in Sessions :
    LET events == QueryEvents(s, SessionEvents)
    IN  \A i, j \in toolEvents(events) :
          LET row == {k \in toolEvents(events) : i <= k /\ k <= j}
          IN  /\ Cardinality(row) >= 3
              /\ \A k \in row : log[k].payload.tool_id = log[i].payload.tool_id
              => \E p \in detectLoops(events) : row \subseteq p.at

(* No event counts twice and none is made up: a patch never claims more    *)
(* events, or more sessions with one, than the log holds of its type,      *)
(* however long evolve() took; and a loop has three calls of its session.  *)
ClaimOfTheLog(p) ==
  LET counted == Candidates(p.type, DOMAIN log)
  IN  /\ p.affected > 0 /\ p.affected <= p.total
      /\ p.total <= Cardinality(counted)
      /\ p.affected <= Cardinality({log[i].session : i \in counted})
      /\ p.type = "loop_detected" => 3 * p.affected <= p.total

CountsAreOfTheLog == \A p \in known : ClaimOfTheLog(p)

(* pattern-detectors.ts, patch-generator.ts: every loop in the log is      *)
(* found, and a patch counts no more than the log holds.                   *)
FindingsMatchLog == LoopsAreFound /\ CountsAreOfTheLog

(* "re-running it over the same sessions is idempotent: already-stored     *)
(* patches are skipped instead of duplicated" (daily-job.ts): a job over a *)
(* log no session added to, whole like the one before, adds no patch, as   *)
(* long as the log fits the adapter's window.                              *)
Idempotent ==
  [][settled = "whole" /\ settled' = "whole" /\ Len(log) <= RecentEvents
       => known' = known]_analysisVars

(* "Detects >=3 identical consecutive tool calls (loops)."                 *)
(* (pattern-detectors.ts:76)                                               *)
LoopsAreLoops ==
  \A s \in Sessions : \A r \in Loops(QueryEvents(s, SessionEvents)) : \A i, j \in r :
    log[i].payload.tool_id = log[j].payload.tool_id
=============================================================================
