------------------------------ MODULE AuditLog ------------------------------
(***************************************************************************)
(* The audit service: one SQLite file of append-only events and alerts.    *)
(* LogEvent inserts the event, then evaluates the alert rules in order and *)
(* inserts an alert for each one that fires; the statements are committed  *)
(* one by one.  The alerts table admits the severities LOW, MEDIUM, HIGH   *)
(* and CRITICAL while four rules carry WARN or ERROR: their insert throws, *)
(* and the handler answers failure.  A dump is restored beside the file    *)
(* and put in its place when the process next starts.                      *)
(***************************************************************************)
EXTENDS AuditTables, FiniteSets, FiniteSetsExt, SequencesExt

CONSTANTS Sessions,
          Cap,            \* AUDIT_COST_CAP_USD, in the unit costs come in
          RapidCalls,     \* RAPID_TOOL_CALLS: more than these calls ...
          Minute, Day,    \* ... within a minute; ticks of the clock
          LastTick,       \* bound: time modelled
          MaxEvents,      \* bound: events written
          MaxCost         \* bound: cost recorded in one tick

VARIABLES
  now,
  evaluating,    \* rules still to be evaluated for the last event
  archive,       \* the dump taken
  pending,       \* audit.db.new
  journal        \* audit.db-wal holds commits of this process

auditVars == <<now, evaluating, archive, pending, journal, tables>>

(* The types sent whose rules can fire; every other type is "other".       *)
EventTypes == {"INJECTION_DETECTED", "TOOL_CALL", "COST_CAP_EXCEEDED", "other"}

Times == 0..LastTick
Nothing == <<>>
File == [events |-> events, alerts |-> alerts, ledger |-> ledger]

Init == /\ now = 0
        /\ events = <<>> /\ alerts = <<>>
        /\ ledger = [t \in Times |-> 0]
        /\ evaluating = <<>>
        /\ archive = Nothing /\ pending = Nothing
        /\ journal = FALSE /\ auditUp = TRUE

Idle == auditUp /\ evaluating = <<>>

-----------------------------------------------------------------------------
(* Mutant: the rules in the order of their names. *)
RulesByName == <<[id |-> "COST_CAP_EXCEEDED",  severity |-> "ERROR"],
                 [id |-> "COST_CAP_WARNING",   severity |-> "WARN"],
                 [id |-> "INJECTION_DETECTED", severity |-> "CRITICAL"],
                 [id |-> "RAPID_TOOL_CALLS",   severity |-> "ERROR"]>>

(* ALERT_RULES without those for types nobody sends (PLAINTEXT_SECRET_,    *)
(* AUTH_FAILED, SANDBOX_ERROR).                                            *)
AlertRules == <<[id |-> "INJECTION_DETECTED", severity |-> "CRITICAL"],
                [id |-> "RAPID_TOOL_CALLS",   severity |-> "ERROR"],
                [id |-> "COST_CAP_WARNING",   severity |-> "WARN"],
                [id |-> "COST_CAP_EXCEEDED",  severity |-> "ERROR"]>>

(* CHECK(severity IN (...)) of the alerts table.                           *)
Storable(rule) == rule.severity \in {"LOW", "MEDIUM", "HIGH", "CRITICAL"}

(* buildAlertContext; the cost of the day is everybody's.                  *)
ToolCallsLastMinute(session) ==
  Cardinality({i \in DOMAIN events : /\ events[i].type = "TOOL_CALL"
                                     /\ events[i].session = session
                                     /\ events[i].at > now - Minute})
DailyCost == MapThenSumSet(LAMBDA t : ledger[t], {t \in Times : t \div Day = now \div Day})

Fires(rule, event) ==
  CASE rule.id = "RAPID_TOOL_CALLS" -> /\ event.type = "TOOL_CALL"
                                       /\ ToolCallsLastMinute(event.session) > RapidCalls
    [] rule.id = "COST_CAP_WARNING" -> 5 * DailyCost >= 4 * Cap
    [] OTHER -> event.type = rule.id

-----------------------------------------------------------------------------
(* LogEvent: the event is committed before the first rule is evaluated.    *)
LogEvent(type, session) ==
  /\ Idle /\ Len(events) < MaxEvents
  /\ events' = Append(events, [type |-> type, session |-> session, at |-> now,
                               answer |-> "none"])
  /\ evaluating' = AlertRules
  /\ journal' = TRUE
  /\ UNCHANGED <<now, alerts, ledger, archive, pending, auditUp>>

Answered(how) == events' = [events EXCEPT ![Len(events)].answer = how]

(* One rule; an insert that throws ends the evaluation.                    *)
Evaluate ==
  LET rule == Head(evaluating)  fires == Fires(rule, Last(events)) IN
  /\ auditUp /\ evaluating # <<>>
  /\ IF fires /\ Storable(rule)
     THEN alerts' = Append(alerts, [rule |-> rule.id, event |-> Len(events),
                                    acknowledged |-> FALSE])
     ELSE UNCHANGED alerts
  /\ evaluating' = IF fires /\ ~Storable(rule) THEN <<>> ELSE Tail(evaluating)
  /\ IF fires /\ ~Storable(rule) THEN Answered("failed")
     ELSE IF Len(evaluating) = 1 THEN Answered("ok")
     ELSE UNCHANGED events
  /\ UNCHANGED <<now, ledger, archive, pending, journal, auditUp>>

RecordCost ==
  /\ Idle /\ ledger[now] < MaxCost
  /\ ledger' = [ledger EXCEPT ![now] = @ + 1]
  /\ journal' = TRUE
  /\ UNCHANGED <<now, events, alerts, evaluating, archive, pending, auditUp>>

AcknowledgeAlert(i) ==
  /\ Idle /\ ~alerts[i].acknowledged
  /\ alerts' = [alerts EXCEPT ![i].acknowledged = TRUE]
  /\ journal' = TRUE
  /\ UNCHANGED <<now, events, ledger, evaluating, archive, pending, auditUp>>

-----------------------------------------------------------------------------
(* dumpState checkpoints the journal into the file and reads the file.     *)
(* Bound: one dump is taken.                                               *)
DumpState ==
  /\ Idle /\ archive = Nothing
  /\ archive' = File
  /\ UNCHANGED <<now, events, alerts, ledger, evaluating, pending, journal, auditUp>>

(* Mutant: the restored file is read at once. *)
RestoreStateAtOnce ==
  /\ Idle /\ archive # Nothing
  /\ events' = archive.events /\ alerts' = archive.alerts /\ ledger' = archive.ledger
  /\ UNCHANGED <<now, evaluating, archive, pending, journal, auditUp>>

(* restoreState: the file waits beside the one in use.  Data whose         *)
(* checksum does not fit is refused and changes nothing.                   *)
RestoreState ==
  /\ Idle /\ archive # Nothing
  /\ pending' = archive
  /\ UNCHANGED <<now, events, alerts, ledger, evaluating, archive, journal, auditUp>>

(* No handler closes the database: a stopped process leaves its journal,   *)
(* and an evaluation under way ends without answer.                        *)
Stop ==
  /\ auditUp /\ auditUp' = FALSE
  /\ evaluating' = <<>>
  /\ UNCHANGED <<now, events, alerts, ledger, archive, pending, journal>>

(* Start-up puts a pending file in place.  The journal of the file it      *)
(* replaces is not removed, and is read over the new file: what the        *)
(* service then sees is the restored state or still the old one.           *)
Start ==
  /\ ~auditUp /\ auditUp' = TRUE
  /\ pending' = Nothing
  /\ \E file \in IF pending = Nothing THEN {File}
                 ELSE IF journal THEN {pending, File} ELSE {pending} :
       events' = file.events /\ alerts' = file.alerts /\ ledger' = file.ledger
  /\ journal' = FALSE
  /\ UNCHANGED <<now, evaluating, archive>>

Tick == /\ evaluating = <<>> /\ now < LastTick
        /\ now' = now + 1
        /\ UNCHANGED <<events, alerts, ledger, evaluating, archive, pending, journal, auditUp>>

Next == \/ \E type \in EventTypes, s \in Sessions : LogEvent(type, s)
        \/ Evaluate \/ RecordCost
        \/ \E i \in DOMAIN alerts : AcknowledgeAlert(i)
        \/ DumpState \/ RestoreState \/ Stop \/ Start \/ Tick

Spec == Init /\ [][Next]_auditVars

-----------------------------------------------------------------------------
RulesFrom(k) == SubSeq(AlertRules, k, Len(AlertRules))

EventRecords == [type : EventTypes, session : Sessions, at : Times,
                 answer : {"none", "ok", "failed"}]

AuditTypeOK ==
  /\ now \in Times /\ auditUp \in BOOLEAN /\ journal \in BOOLEAN
  /\ \A i \in DOMAIN events : events[i] \in EventRecords
  /\ Len(events) <= MaxEvents
  /\ \A i \in DOMAIN alerts : /\ alerts[i].event \in DOMAIN events
                              /\ alerts[i].acknowledged \in BOOLEAN
  /\ ledger \in [Times -> 0..MaxCost]
  /\ evaluating # <<>> => /\ auditUp /\ events # <<>>
                          /\ \E k \in DOMAIN AlertRules : evaluating = RulesFrom(k)

(* audit.impl.ts: "The LogEvent handler is critical path - it must always  *)
(* succeed."                                                               *)
AlwaysSucceeds == \A i \in DOMAIN events : events[i].answer # "failed"
=============================================================================
