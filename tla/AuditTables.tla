----------------------------- MODULE AuditTables -----------------------------
(***************************************************************************)
(* The tables the audit service keeps, and what it promises of them.       *)
(***************************************************************************)
EXTENDS Integers, Sequences

VARIABLES
  events,        \* audit_events, and how the caller of LogEvent was answered
  alerts,        \* the alerts table
  ledger,        \* cost_ledger: cost recorded at each tick
  auditUp        \* the service runs

tables == <<auditUp, events, alerts, ledger>>

(* audit.service.ts: whatever else fires or fails, an injection has its    *)
(* alert: only a stop in the middle of the evaluation, which leaves the    *)
(* caller unanswered, can lose it.                                         *)
InjectionAlerted ==
  \A i \in DOMAIN events :
    events[i].type = "INJECTION_DETECTED" /\ events[i].answer # "none" =>
      \E j \in DOMAIN alerts : alerts[j].event = i /\ alerts[j].rule = "INJECTION_DETECTED"

(* audit.service.ts: the tables only grow, an acknowledgement stays, and   *)
(* dumps and restores of a running service take nothing back: only a start *)
(* may.                                                                    *)
AppendOnly ==
  [][auditUp =>
       /\ Len(events') >= Len(events) /\ Len(alerts') >= Len(alerts)
       /\ \A i \in DOMAIN events : events'[i].type = events[i].type
       /\ \A i \in DOMAIN alerts : alerts[i].acknowledged => alerts'[i].acknowledged
       /\ \A t \in DOMAIN ledger : ledger'[t] >= ledger[t]]_tables
=============================================================================
