----------------------------- MODULE Screening -----------------------------
(***************************************************************************)
(* What the runtime screens: user messages and tool outputs for patterns   *)
(* of injection, with a score a session gathers, and the URLs tools are to *)
(* request, with the webhook alerts this fires. A session may end while   *)
(* its tools run.  The classifier is left out: the runtime is built        *)
(* without one (agent-runtime/src/index.ts:111).                           *)
(***************************************************************************)
EXTENDS Naturals, Sequences, FiniteSets, Functions

CONSTANTS ScreenedSessions,
          ScreenedCalls,
          SeverityOf,   \* the severity of each pattern
          Contents,     \* texts, by the patterns found in them
          MaxScreened   \* bound: texts screened

VARIABLES
  sensitivity,  \* INJECTION_SENSITIVITY
  session,      \* each session's life; it has delimiters while "live"
  scores,       \* TurnScoreTracker.scores
  toolStage,    \* where each tool call stands
  caller,       \* the session of each tool call
  fired,        \* calls of fireAlert, and how many ALERT_SENT each logged
  screened      \* history: what was screened, and the verdicts

screeningVars == <<sensitivity, session, scores, toolStage, caller, fired, screened>>

Tag == [pattern |-> "SESSION_DELIMITER", severity |-> "none"]

Patterns == DOMAIN SeverityOf

(* The patterns are a table of the source, the delimiters none of them.    *)
ASSUME ScreeningAssumption ==
  /\ IsFiniteSet(Patterns) /\ Tag.pattern \notin Patterns
  /\ \A p \in Patterns : SeverityOf[p] \in {"low", "medium", "high", "critical"}
  /\ \A text \in Contents : /\ text.plain \cup text.encoded \cup text.accented \subseteq Patterns
                            /\ text.tag \in BOOLEAN
  /\ MaxScreened \in Nat

ScreeningInit == /\ sensitivity \in {"low", "medium", "high"}
                 /\ session = [s \in ScreenedSessions |-> "new"]
                 /\ scores = [s \in {} |-> 0]
                 /\ toolStage = [c \in ScreenedCalls |-> "new"]
                 /\ caller \in [ScreenedCalls -> ScreenedSessions]
                 /\ fired = <<>>
                 /\ screened = <<>>

-----------------------------------------------------------------------------
(* One text.  It has the patterns of its plain form, those that appear     *)
(* when it is decoded (base64 or URL) and when accents are stripped, and   *)
(* possibly the delimiters of the session.                                 *)
Weight == [low |-> 1, medium |-> 2, high |-> 5, critical |-> 10]
Threshold == [low |-> 25, medium |-> 15, high |-> 8]
LeastSuspicious == [low |-> 10, medium |-> 5, high |-> 1]

Found(patterns) == {[pattern |-> p, severity |-> SeverityOf[p]] : p \in patterns}

Delimiters(text, severity) ==
  IF text.tag THEN {[Tag EXCEPT !.severity = severity]} ELSE {}

(* Which decodings are tried.                                              *)
Decoded(text) == CASE sensitivity = "low" -> {}
                   [] sensitivity = "medium" -> text.encoded
                   [] OTHER -> text.encoded \cup text.accented

(* A pattern found in several forms of the text is one match.              *)
Matches(text, source) ==
  IF source = "user" THEN Found(text.plain) \cup Delimiters(text, "high")
                     ELSE Found(text.plain \cup Decoded(text))
                            \cup Delimiters(text, "critical")

(* scanForInjection(text): what highest_severity is computed from.         *)
CriticalInPlain(text) == \E p \in text.plain : SeverityOf[p] = "critical"

Points(matches) == SumFunction([m \in matches |-> Weight[m.severity]])

Score(s) == IF s \in DOMAIN scores THEN scores[s] ELSE 0

(* addMatches: the score of the session with this text.                    *)
Current(s, text, source) == Score(s) + Points(Matches(text, source))

WithScore(s, n) == [t \in DOMAIN scores \cup {s} |-> IF t = s THEN n ELSE scores[t]]

Exceeds(n) == n >= Threshold[sensitivity]

Suspicious(s, text, source) ==
  \/ \E m \in Matches(text, source) : Weight[m.severity] >= LeastSuspicious[sensitivity]
  \/ Exceeds(Current(s, text, source))

Screen(s, text, source) ==
  /\ Len(screened) < MaxScreened
  /\ scores' = WithScore(s, Current(s, text, source))
  /\ screened' = Append(screened,
       [session |-> s, source |-> source, text |-> text,
        exceeded |-> Exceeds(Current(s, text, source)),
        suspicious |-> source # "user" /\ Suspicious(s, text, source)])

Fire(kind, s) == fired' = Append(fired, [kind |-> kind, session |-> s, sent |-> 0])

-----------------------------------------------------------------------------
(* Sessions.                                                               *)
CreateSession(s) ==
  /\ session[s] = "new"
  /\ session' = [session EXCEPT ![s] = "live"]
  /\ UNCHANGED <<sensitivity, scores, toolStage, caller, fired, screened>>

TerminateSession(s) ==
  /\ session[s] = "live"
  /\ session' = [session EXCEPT ![s] = "ended"]
  /\ scores' = [t \in DOMAIN scores \ {s} |-> scores[t]]
  /\ UNCHANGED <<sensitivity, toolStage, caller, fired, screened>>

(* A user's message is screened as its session is looked up; one with a    *)
(* critical pattern is rejected.  How suspicious it is besides nobody asks.*)
UserMessage(s, text) ==
  /\ session[s] = "live"
  /\ Screen(s, text, "user")
  /\ IF CriticalInPlain(text) THEN Fire("INJECTION_DETECTED", s) ELSE UNCHANGED fired
  /\ UNCHANGED <<sensitivity, session, toolStage, caller>>

-----------------------------------------------------------------------------
(* Tool calls.                                                             *)
Move(c, where) == toolStage' = [toolStage EXCEPT ![c] = where]

(* A call without a URL, or with the URL of a literal public address.      *)
ToolStarts(c) ==
  /\ toolStage[c] = "new" /\ session[caller[c]] = "live"
  /\ Move(c, "running")
  /\ UNCHANGED <<sensitivity, session, scores, caller, fired, screened>>

(* A URL of another host: its name is looked up.                           *)
UrlNamed(c) ==
  /\ toolStage[c] = "new" /\ session[caller[c]] = "live"
  /\ Move(c, "resolving")
  /\ UNCHANGED <<sensitivity, session, scores, caller, fired, screened>>

Blocked(c) == Move(c, "blocked") /\ Fire("POLICY_DENIED", caller[c])

(* A URL that is malformed, of a private or local host, or not allowed.    *)
UrlRefused(c) ==
  /\ toolStage[c] = "new" /\ session[caller[c]] = "live"
  /\ Blocked(c)
  /\ UNCHANGED <<sensitivity, session, scores, caller, screened>>

(* Whether all addresses of the answer are public decides.                 *)
DnsAnswers(c, public) ==
  /\ toolStage[c] = "resolving"
  /\ IF public THEN Move(c, "running") /\ UNCHANGED fired ELSE Blocked(c)
  /\ UNCHANGED <<sensitivity, session, scores, caller, screened>>

DnsFails(c) ==
  /\ toolStage[c] = "resolving"
  /\ Blocked(c)
  /\ UNCHANGED <<sensitivity, session, scores, caller, screened>>

(* Five seconds without an answer; a later one is ignored.                 *)
DnsTimesOut(c) == DnsFails(c)

(* Mutant: a text is screened whether its session is there or not. *)
ToolEndsAnyway(c, text) ==
  /\ toolStage[c] = "running"
  /\ Screen(caller[c], text, "tool")
  /\ Move(c, IF CriticalInPlain(text) THEN "suppressed" ELSE "wrapped")
  /\ IF CriticalInPlain(text) THEN Fire("INJECTION_DETECTED", caller[c])
                              ELSE UNCHANGED fired
  /\ UNCHANGED <<sensitivity, session, caller>>

(* The output is screened; without the session's delimiters that throws.   *)
ToolEnds(c, text) ==
  /\ toolStage[c] = "running"
  /\ IF session[caller[c]] # "live"
     THEN Move(c, "thrown") /\ UNCHANGED <<scores, fired, screened>>
     ELSE /\ Screen(caller[c], text, "tool")
          /\ Move(c, IF CriticalInPlain(text) THEN "suppressed" ELSE "wrapped")
          /\ IF CriticalInPlain(text) THEN Fire("INJECTION_DETECTED", caller[c])
                                      ELSE UNCHANGED fired
  /\ UNCHANGED <<sensitivity, session, caller>>

-----------------------------------------------------------------------------
(* postWithTimeout ends, well or not, and fireAlert reports it once.       *)
Reported(i) == /\ i \in DOMAIN fired /\ fired[i].sent = 0
               /\ fired' = [fired EXCEPT ![i].sent = @ + 1]
               /\ UNCHANGED <<sensitivity, session, scores, toolStage, caller, screened>>

WebhookAnswers(i) == Reported(i)
PostFails(i) == Reported(i)

(* Ten seconds without an answer: the post is aborted.                     *)
PostTimesOut(i) == Reported(i)

ScreeningNext ==
  \/ \E s \in ScreenedSessions : \/ CreateSession(s) \/ TerminateSession(s)
                                \/ \E text \in Contents : UserMessage(s, text)
  \/ \E c \in ScreenedCalls : \/ ToolStarts(c) \/ UrlNamed(c) \/ UrlRefused(c)
                          \/ \E public \in BOOLEAN : DnsAnswers(c, public)
                          \/ DnsFails(c) \/ DnsTimesOut(c)
                          \/ \E text \in Contents : ToolEnds(c, text)
  \/ \E i \in DOMAIN fired : WebhookAnswers(i) \/ PostFails(i) \/ PostTimesOut(i)

(* Timers fire; nothing else is promised of DNS and of webhooks.           *)
ScreeningFairness ==
  /\ \A c \in ScreenedCalls : WF_screeningVars(DnsTimesOut(c))
  /\ WF_screeningVars(\E i \in DOMAIN fired : PostTimesOut(i))

ScreeningSpec == ScreeningInit /\ [][ScreeningNext]_screeningVars /\ ScreeningFairness

-----------------------------------------------------------------------------
ScreeningTypeOK ==
  /\ session \in [ScreenedSessions -> {"new", "live", "ended"}]
  /\ DOMAIN scores \subseteq ScreenedSessions /\ \A s \in DOMAIN scores : scores[s] \in Nat
  /\ toolStage \in [ScreenedCalls -> {"new", "resolving", "running", "blocked", "thrown",
                                 "suppressed", "wrapped"}]
  /\ \A i \in DOMAIN fired : fired[i].sent \in 0..1
  /\ Len(screened) <= MaxScreened

(* A score is kept for live sessions only, although tools of an ended      *)
(* session still end: ids are never used again, so one that came back      *)
(* would stay for ever.                                                    *)
TrackedAreLive == \A s \in DOMAIN scores : session[s] = "live"

(* What a screened text weighs: each of its patterns once however many     *)
(* forms of the text have it, and the delimiters.                          *)
PatternsOf(e) ==
  IF e.source = "user" THEN e.text.plain ELSE e.text.plain \cup Decoded(e.text)

TagWeight(e) == IF ~e.text.tag THEN 0 ELSE IF e.source = "user" THEN 5 ELSE 10

EntryWeight(e) ==
  SumFunctionOnSet([p \in Patterns |-> Weight[SeverityOf[p]]], PatternsOf(e)) + TagWeight(e)

ShownTo(s) == {i \in DOMAIN screened : screened[i].session = s}

(* A live session's score is the weight of all it was shown.               *)
EachPatternOnce ==
  \A s \in ScreenedSessions : session[s] = "live" =>
    Score(s) = SumFunctionOnSet([i \in DOMAIN screened |-> EntryWeight(screened[i])], ShownTo(s))

(* turn-score-tracker.ts: "Score is NOT reset between turns": once over    *)
(* the threshold a session stays over it, and its tool outputs suspicious. *)
FlagStays ==
  \A i, j \in DOMAIN screened :
    i < j /\ screened[i].session = screened[j].session /\ screened[i].exceeded =>
      /\ screened[j].exceeded
      /\ screened[j].source = "tool" => screened[j].suspicious

(* turn-score-tracker.ts, sanitizer.ts: only live sessions have a score,   *)
(* it is the weight of what they were shown, each pattern once a text, and *)
(* over the threshold it stays.                                            *)
ScoresHold == TrackedAreLive /\ EachPatternOnce /\ FlagStays

(* Every alert is reported to the audit log, webhook or no webhook: time   *)
(* and again none is left that was not.                                    *)
AlertsAudited == []<>(\A i \in DOMAIN fired : fired[i].sent = 1)

(* A URL's check ends, resolver or no resolver.                            *)
UrlChecksEnd == \A c \in ScreenedCalls : toolStage[c] = "resolving" ~> toolStage[c] # "resolving"
=============================================================================
