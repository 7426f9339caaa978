--------------------------- MODULE AuditLogProofs ---------------------------
(***************************************************************************)
(* The audit log for every bound of the model.  That every injection has   *)
(* its alert is a fact of a file, not only of the tables in use: dumps and *)
(* pending files must keep it, or a restore would break it.  While the     *)
(* rules are evaluated the last event is excused; Evaluating says what has *)
(* been done for it so far.                                                *)
(***************************************************************************)
EXTENDS AuditLog, SequenceTheorems, TLAPS

(* The bounds of the model are numbers.                                    *)
Bounds == LastTick \in Nat /\ MaxEvents \in Nat /\ MaxCost \in Nat

InjectionEvent == "INJECTION_DETECTED"
Ids == {InjectionEvent, "RAPID_TOOL_CALLS", "COST_CAP_WARNING", "COST_CAP_EXCEEDED"}
Rules == [id : Ids, severity : {"CRITICAL", "ERROR", "WARN"}]
AlertRecords == [rule : Ids, event : Nat, acknowledged : BOOLEAN]

HasAlert(als, i) == \E j \in DOMAIN als : als[j].event = i /\ als[j].rule = InjectionEvent

TablesOK(f) ==
  /\ f.events \in Seq(EventRecords) /\ Len(f.events) <= MaxEvents
  /\ f.alerts \in Seq(AlertRecords)
  /\ \A i \in DOMAIN f.alerts : f.alerts[i].event \in DOMAIN f.events
  /\ f.ledger \in [Times -> 0..MaxCost]

Alerted(f) ==
  \A i \in DOMAIN f.events :
    f.events[i].type = InjectionEvent /\ f.events[i].answer # "none" => HasAlert(f.alerts, i)

FileOK(f) == TablesOK(f) /\ Alerted(f)

(* The k-th rule is next: the event has no answer yet, and from the second *)
(* rule on an injection has its alert.                                     *)
Evaluating ==
  /\ auditUp /\ events # <<>> /\ Last(events).answer = "none"
  /\ \E k \in 1..Len(AlertRules) :
       /\ evaluating = RulesFrom(k)
       /\ k > 1 /\ Last(events).type = InjectionEvent => HasAlert(alerts, Len(events))

AuditInv == /\ now \in Times /\ auditUp \in BOOLEAN /\ journal \in BOOLEAN
            /\ FileOK(File)
            /\ archive # Nothing => FileOK(archive)
            /\ pending # Nothing => FileOK(pending)
            /\ evaluating # <<>> => Evaluating

-----------------------------------------------------------------------------
(* The four rules, the first of which is that of an injection.             *)
LEMMA RulesInOrder ==
  /\ AlertRules \in Seq(Rules) /\ Len(AlertRules) = 4
  /\ AlertRules[1] = [id |-> InjectionEvent, severity |-> "CRITICAL"]
<1>1. /\ [id |-> InjectionEvent, severity |-> "CRITICAL"] \in Rules
      /\ [id |-> "RAPID_TOOL_CALLS", severity |-> "ERROR"] \in Rules
      /\ [id |-> "COST_CAP_WARNING", severity |-> "WARN"] \in Rules
      /\ [id |-> "COST_CAP_EXCEEDED", severity |-> "ERROR"] \in Rules
  BY DEF Rules, Ids
<1> QED  BY <1>1 DEF AlertRules, InjectionEvent

LEMMA RuleIds == \A k \in 1..4 : AlertRules[k].id \in Ids
<1>1. \A k \in 1..4 : AlertRules[k] \in Rules
  BY RulesInOrder, ElementOfSeq
<1> QED  BY <1>1 DEF Rules

LEMMA RulesLeft ==
  ASSUME NEW k \in 1..4
  PROVE  /\ RulesFrom(k) # <<>> /\ Head(RulesFrom(k)) = AlertRules[k]
         /\ Len(RulesFrom(k)) = 5 - k
         /\ Tail(RulesFrom(k)) = IF k = 4 THEN <<>> ELSE RulesFrom(k + 1)
<1>1. /\ Head(RulesFrom(k)) = AlertRules[k]
      /\ Tail(RulesFrom(k)) = SubSeq(AlertRules, k + 1, 4)
  BY RulesInOrder, HeadTailOfSubSeq DEF RulesFrom
<1>2. Len(RulesFrom(k)) = 5 - k
  BY RulesInOrder, SubSeqProperties DEF RulesFrom
<1>3. k = 4 => SubSeq(AlertRules, k + 1, 4) = <<>>
  BY SubSeqEmpty
<1>4. RulesFrom(k + 1) = SubSeq(AlertRules, k + 1, 4)
  BY RulesInOrder DEF RulesFrom
<1>5. Len(RulesFrom(k)) > 0
  BY <1>2
<1>6. RulesFrom(k) # <<>>
  BY <1>5
<1> QED  BY <1>1, <1>2, <1>3, <1>4, <1>6

LEMMA AllRules == RulesFrom(1) = AlertRules /\ AlertRules # <<>>
<1>1. RulesFrom(1) = AlertRules
  BY RulesInOrder, SubSeqFull DEF RulesFrom
<1> QED  BY <1>1, RulesLeft

(* An injection fires its rule, and the table admits the alert.            *)
LEMMA InjectionFires ==
  ASSUME NEW event
  PROVE  /\ Fires(AlertRules[1], event) <=> event.type = InjectionEvent
         /\ Storable(AlertRules[1])
<1>1. AlertRules[1].id = InjectionEvent /\ AlertRules[1].severity = "CRITICAL"
  BY RulesInOrder
<1>2. Storable(AlertRules[1])
  BY <1>1 DEF Storable
<1>3. Fires(AlertRules[1], event) <=> event.type = InjectionEvent
  BY <1>1 DEF Fires, InjectionEvent
<1> QED  BY <1>2, <1>3

-----------------------------------------------------------------------------
(* The file in use, by its tables.                                         *)
InUse == /\ events \in Seq(EventRecords) /\ Len(events) <= MaxEvents
         /\ alerts \in Seq(AlertRecords)
         /\ \A i \in DOMAIN alerts : alerts[i].event \in DOMAIN events
         /\ ledger \in [Times -> 0..MaxCost]
         /\ \A i \in DOMAIN events :
              events[i].type = InjectionEvent /\ events[i].answer # "none" => HasAlert(alerts, i)

LEMMA FileInUse == (FileOK(File) <=> InUse) /\ (FileOK(File)' <=> InUse')
  BY DEF FileOK, TablesOK, Alerted, File, InUse

Waiting == /\ archive # Nothing => FileOK(archive)
           /\ pending # Nothing => FileOK(pending)

Clock == now \in Times /\ auditUp \in BOOLEAN /\ journal \in BOOLEAN

LEMMA LogStep ==
  ASSUME AuditInv, Bounds, NEW type \in EventTypes, NEW s \in Sessions, LogEvent(type, s)
  PROVE  AuditInv'
<1> DEFINE e == [type |-> type, session |-> s, at |-> now, answer |-> "none"]
<1>1. e \in EventRecords /\ e.answer = "none"
  BY DEF EventRecords, AuditInv
<1>2. InUse
  BY FileInUse DEF AuditInv
<1>3. events' = Append(events, e) /\ Len(events) < MaxEvents
  BY DEF LogEvent
<1> HIDE DEF e
<1>4. /\ events' \in Seq(EventRecords) /\ Len(events') = Len(events) + 1
      /\ \A i \in 1..Len(events) : events'[i] = events[i]
      /\ events'[Len(events) + 1] = e
  BY <1>1, <1>2, <1>3, AppendProperties DEF InUse
<1>5. Len(events') <= MaxEvents
  BY <1>2, <1>3, <1>4 DEF InUse, Bounds
<1>6. alerts' = alerts /\ ledger' = ledger
  BY DEF LogEvent
<1>7. DOMAIN events = 1..Len(events) /\ DOMAIN events' = 1..(Len(events) + 1)
  BY <1>2, <1>4 DEF InUse
<1>8. ASSUME NEW i \in DOMAIN events', events'[i].type = InjectionEvent,
             events'[i].answer # "none"
      PROVE  HasAlert(alerts', i)
  <2>1. i \in 1..Len(events)
    BY <1>1, <1>2, <1>4, <1>7, <1>8 DEF InUse
  <2> QED  BY <1>2, <1>4, <1>6, <1>7, <1>8, <2>1 DEF InUse
<1>9. InUse'
  BY <1>2, <1>4, <1>5, <1>6, <1>7, <1>8 DEF InUse
<1>10. Evaluating'
  <2>1. auditUp' /\ evaluating' = RulesFrom(1)
    BY AllRules DEF LogEvent, Idle
  <2>2. events' # <<>> /\ Last(events').answer = "none"
    BY <1>1, <1>2, <1>4 DEF Last, InUse
  <2>3. 1 \in 1..Len(AlertRules)
    BY RulesInOrder
  <2> QED  BY <2>1, <2>2, <2>3 DEF Evaluating
<1> QED  BY <1>9, <1>10, FileInUse DEF AuditInv, LogEvent

(* The answer is written to the last event and changes nothing else.       *)
LEMMA AnswerEffect ==
  ASSUME events \in Seq(EventRecords), events # <<>>, NEW how \in {"ok", "failed"},
         Answered(how)
  PROVE  /\ events' \in Seq(EventRecords) /\ Len(events') = Len(events)
         /\ \A i \in 1..Len(events) : /\ events'[i].type = events[i].type
                                      /\ i # Len(events) => events'[i] = events[i]
<1>1. Len(events) \in 1..Len(events)
  OBVIOUS
<1>2. \A i \in 1..Len(events) : events[i] \in EventRecords
  OBVIOUS
<1>3. [events[Len(events)] EXCEPT !.answer = how] \in EventRecords
  BY <1>1, <1>2 DEF EventRecords
<1> QED  BY <1>1, <1>2, <1>3 DEF Answered, EventRecords

(* One rule: an alert for the last event at most, and an answer at most.   *)
LEMMA EvaluateEffect ==
  ASSUME AuditInv, Evaluate, NEW k \in 1..4, evaluating = RulesFrom(k)
  PROVE  /\ events' \in Seq(EventRecords) /\ Len(events') = Len(events)
         /\ \A i \in 1..Len(events) : /\ events'[i].type = events[i].type
                                      /\ i # Len(events) => events'[i] = events[i]
         /\ \/ alerts' = alerts
            \/ alerts' = Append(alerts, [rule |-> AlertRules[k].id, event |-> Len(events),
                                         acknowledged |-> FALSE])
         /\ evaluating' # <<>> => /\ k # 4 /\ evaluating' = RulesFrom(k + 1)
                                  /\ events' = events
         /\ k = 1 /\ Last(events).type = InjectionEvent => alerts' # alerts
<1> DEFINE fires == Fires(Head(evaluating), Last(events))
           storable == Storable(Head(evaluating))
<1>1. /\ Head(evaluating) = AlertRules[k] /\ Len(evaluating) = 5 - k
      /\ Tail(evaluating) = IF k = 4 THEN <<>> ELSE RulesFrom(k + 1)
  BY RulesLeft
<1>2. events \in Seq(EventRecords) /\ events # <<>> /\ alerts \in Seq(AlertRecords)
  BY FileInUse DEF AuditInv, InUse, Evaluating, Evaluate
<1>3. /\ alerts' = IF fires /\ storable
                   THEN Append(alerts, [rule |-> AlertRules[k].id, event |-> Len(events),
                                        acknowledged |-> FALSE])
                   ELSE alerts
      /\ evaluating' = IF fires /\ ~storable THEN <<>> ELSE Tail(evaluating)
      /\ \/ fires /\ ~storable /\ Answered("failed")
         \/ ~(fires /\ ~storable) /\ Len(evaluating) = 1 /\ Answered("ok")
         \/ ~(fires /\ ~storable) /\ Len(evaluating) # 1 /\ events' = events
  BY <1>1 DEF Evaluate
<1> HIDE DEF fires, storable
<1>4. /\ events' \in Seq(EventRecords) /\ Len(events') = Len(events)
      /\ \A i \in 1..Len(events) : /\ events'[i].type = events[i].type
                                   /\ i # Len(events) => events'[i] = events[i]
  BY <1>2, <1>3, AnswerEffect
<1>5. k = 1 /\ Last(events).type = InjectionEvent => fires /\ storable
  BY <1>1, InjectionFires DEF fires, storable
<1>6. ASSUME alerts' = Append(alerts, [rule |-> AlertRules[k].id, event |-> Len(events),
                                       acknowledged |-> FALSE])
      PROVE  alerts' # alerts
  <2>1. [rule |-> AlertRules[k].id, event |-> Len(events), acknowledged |-> FALSE]
          \in AlertRecords
    BY <1>2, RuleIds DEF AlertRecords
  <2>2. Len(alerts') = Len(alerts) + 1
    BY <1>2, <1>6, <2>1, AppendProperties
  <2> QED  BY <1>2, <2>2
<1>7. ASSUME evaluating' # <<>>
      PROVE  k # 4 /\ evaluating' = RulesFrom(k + 1) /\ events' = events
  <2>1. ~(fires /\ ~storable) /\ evaluating' = Tail(evaluating)
    BY <1>3, <1>7
  <2>2. k # 4 /\ evaluating' = RulesFrom(k + 1)
    BY <1>1, <1>7, <2>1
  <2>3. Len(evaluating) # 1
    BY <1>1, <2>2
  <2> QED  BY <1>3, <2>1, <2>2, <2>3
<1>8. alerts' = alerts \/ alerts' = Append(alerts, [rule |-> AlertRules[k].id,
                              event |-> Len(events), acknowledged |-> FALSE])
  BY <1>3
<1>9. k = 1 /\ Last(events).type = InjectionEvent => alerts' # alerts
  BY <1>3, <1>5, <1>6
<1> QED  BY <1>4, <1>7, <1>8, <1>9

LEMMA EvaluateStep == ASSUME AuditInv, Bounds, Evaluate PROVE AuditInv'
<1>1. PICK k \in 1..4 : /\ evaluating = RulesFrom(k)
                        /\ k > 1 /\ Last(events).type = InjectionEvent =>
                             HasAlert(alerts, Len(events))
  BY RulesInOrder DEF AuditInv, Evaluating, Evaluate
<1>2. InUse /\ events # <<>> /\ Last(events).answer = "none" /\ auditUp
  BY FileInUse DEF AuditInv, Evaluating, Evaluate
<1> DEFINE n == Len(events)
           alert == [rule |-> AlertRules[k].id, event |-> n, acknowledged |-> FALSE]
<1>n. n \in 1..n /\ n \in Nat /\ DOMAIN events = 1..n
  BY <1>2 DEF InUse
<1>3. /\ events' \in Seq(EventRecords) /\ Len(events') = n
      /\ \A i \in 1..n : /\ events'[i].type = events[i].type
                         /\ i # n => events'[i] = events[i]
      /\ \/ alerts' = alerts
         \/ alerts' = Append(alerts, alert)
      /\ evaluating' # <<>> => /\ k # 4 /\ evaluating' = RulesFrom(k + 1)
                               /\ events' = events
      /\ k = 1 /\ Last(events).type = InjectionEvent => alerts' # alerts
  BY <1>1, EvaluateEffect
<1>4. /\ alert \in AlertRecords /\ alert.event = n
      /\ alert.rule = AlertRules[k].id
  BY <1>n, RuleIds DEF AlertRecords
<1>5. AlertRules[1].id = InjectionEvent
  BY RulesInOrder
<1> HIDE DEF alert
<1>6. /\ alerts' \in Seq(AlertRecords)
      /\ \A j \in DOMAIN alerts : j \in DOMAIN alerts' /\ alerts'[j] = alerts[j]
      /\ \A j \in DOMAIN alerts' : j \in DOMAIN alerts \/ alerts'[j] = alert
      /\ alerts' # alerts => \E j \in DOMAIN alerts' : alerts'[j] = alert
  <2>1. CASE alerts' = alerts
    BY <1>2, <2>1 DEF InUse
  <2>2. CASE alerts' = Append(alerts, alert)
    <3>1. /\ alerts' \in Seq(AlertRecords) /\ Len(alerts') = Len(alerts) + 1
          /\ \A j \in 1..Len(alerts) : alerts'[j] = alerts[j]
          /\ alerts'[Len(alerts) + 1] = alert
      BY <1>2, <1>4, <2>2, AppendProperties DEF InUse
    <3>2. DOMAIN alerts = 1..Len(alerts) /\ DOMAIN alerts' = 1..(Len(alerts) + 1)
          /\ Len(alerts) \in Nat
      BY <1>2, <3>1 DEF InUse
    <3> QED  BY <3>1, <3>2
  <2> QED  BY <1>3, <2>1, <2>2
<1>7. \A i : HasAlert(alerts, i) => HasAlert(alerts', i)
  BY <1>6 DEF HasAlert
<1>8. Last(events).type = InjectionEvent => HasAlert(alerts', n)
  <2>1. CASE k = 1
    BY <2>1, <1>3, <1>4, <1>5, <1>6 DEF HasAlert
  <2>2. CASE k > 1
    BY <2>2, <1>1, <1>7
  <2> QED  BY <2>1, <2>2
<1>9. InUse'
  <2>1. DOMAIN events' = DOMAIN events
    BY <1>2, <1>3, <1>n DEF InUse
  <2>2. \A j \in DOMAIN alerts' : alerts'[j].event \in DOMAIN events'
    BY <1>2, <1>4, <1>6, <1>n, <2>1 DEF InUse
  <2>3. ASSUME NEW i \in DOMAIN events', events'[i].type = InjectionEvent,
               events'[i].answer # "none"
        PROVE  HasAlert(alerts', i)
    <3>1. i \in 1..n /\ events[i].type = InjectionEvent
      BY <1>3, <1>n, <2>1, <2>3
    <3>2. CASE i = n
      BY <1>8, <3>1, <3>2 DEF Last
    <3>3. CASE i # n
      BY <1>2, <1>3, <1>7, <1>n, <2>3, <3>1, <3>3 DEF InUse
    <3> QED  BY <3>2, <3>3
  <2>4. ledger' \in [Times -> 0..MaxCost] /\ Len(events') <= MaxEvents
    BY <1>2, <1>3 DEF InUse, Evaluate
  <2> QED  BY <1>3, <1>6, <2>2, <2>3, <2>4 DEF InUse
<1>10. evaluating' # <<>> => Evaluating'
  <2> SUFFICES ASSUME evaluating' # <<>> PROVE Evaluating'
    OBVIOUS
  <2>1. k + 1 \in 1..4 /\ evaluating' = RulesFrom(k + 1) /\ events' = events
    BY <1>3
  <2>2. auditUp' = auditUp
    BY DEF Evaluate
  <2>3. Last(events') = Last(events) /\ Len(events') = n
    BY <2>1
  <2> QED  BY <1>2, <1>8, <2>1, <2>2, <2>3, RulesInOrder DEF Evaluating
<1> QED  BY <1>9, <1>10, FileInUse DEF AuditInv, Evaluate

LEMMA AcknowledgeStep ==
  ASSUME AuditInv, NEW i \in DOMAIN alerts, AcknowledgeAlert(i) PROVE AuditInv'
<1>1. InUse
  BY FileInUse DEF AuditInv
<1>2. /\ DOMAIN alerts' = DOMAIN alerts /\ alerts' \in Seq(AlertRecords)
      /\ \A j \in DOMAIN alerts : /\ alerts'[j].event = alerts[j].event
                                  /\ alerts'[j].rule = alerts[j].rule
  <2>1. alerts \in Seq(AlertRecords) /\ alerts' = [alerts EXCEPT ![i].acknowledged = TRUE]
    BY <1>1 DEF AcknowledgeAlert, InUse
  <2>2. \A j \in DOMAIN alerts : alerts[j] \in AlertRecords
    BY <2>1
  <2>3. [alerts[i] EXCEPT !.acknowledged = TRUE] \in AlertRecords
    BY <2>2 DEF AlertRecords
  <2>4. alerts' \in Seq(AlertRecords) /\ DOMAIN alerts' = DOMAIN alerts
    BY <2>1, <2>3
  <2> QED  BY <2>1, <2>2, <2>4 DEF AlertRecords
<1>3. \A e : HasAlert(alerts, e) => HasAlert(alerts', e)
  BY <1>2 DEF HasAlert
<1>4. InUse'
  BY <1>1, <1>2, <1>3 DEF InUse, AcknowledgeAlert
<1> QED  BY <1>4, FileInUse DEF AuditInv, AcknowledgeAlert, Idle

(* Steps that leave the tables, or put those of another file in place.     *)
LEMMA OtherSteps ==
  ASSUME AuditInv, Bounds,
         \/ RecordCost \/ DumpState \/ RestoreState \/ Stop \/ Start \/ Tick
         \/ UNCHANGED auditVars
  PROVE  AuditInv'
<1>1. CASE RecordCost
  <2>1. ledger \in [Times -> 0..MaxCost] /\ now \in Times
    BY FileInUse DEF AuditInv, InUse
  <2>2. ledger' \in [Times -> 0..MaxCost]
    BY <1>1, <2>1 DEF RecordCost, Bounds
  <2> QED  BY <1>1, <2>2, FileInUse DEF AuditInv, InUse, RecordCost, Idle
<1>2. CASE DumpState
  BY <1>2, FileInUse DEF AuditInv, InUse, DumpState, Idle
<1>3. CASE RestoreState
  BY <1>3, FileInUse DEF AuditInv, InUse, RestoreState, Idle
<1>4. CASE Stop
  BY <1>4, FileInUse DEF AuditInv, InUse, Stop
<1>5. CASE Start
  <2>1. PICK file : /\ FileOK(file)
                    /\ events' = file.events /\ alerts' = file.alerts
                    /\ ledger' = file.ledger
    BY <1>5 DEF Start, AuditInv
  <2>2. InUse'
    BY <2>1 DEF FileOK, TablesOK, Alerted, InUse
  <2>3. evaluating' = <<>> /\ auditUp' /\ pending' = Nothing /\ now' = now
        /\ archive' = archive /\ journal' = FALSE
    BY <1>5 DEF Start, AuditInv, Evaluating
  <2> QED  BY <2>2, <2>3, FileInUse DEF AuditInv
<1>6. CASE Tick
  <2>1. now + 1 \in Times
    BY <1>6 DEF Tick, AuditInv, Times, Bounds
  <2> QED  BY <1>6, <2>1, FileInUse DEF AuditInv, InUse, Tick
<1>7. CASE UNCHANGED auditVars
  BY <1>7, FileInUse DEF AuditInv, InUse, Evaluating, auditVars, tables
<1> QED  BY <1>1, <1>2, <1>3, <1>4, <1>5, <1>6, <1>7

LEMMA AuditInvStep == ASSUME AuditInv, Bounds, [Next]_auditVars PROVE AuditInv'
  BY LogStep, EvaluateStep, AcknowledgeStep, OtherSteps DEF Next

LEMMA AuditInvInit == ASSUME Init, Bounds PROVE AuditInv
<1>1. InUse
  <2>1. events = <<>> /\ alerts = <<>> /\ ledger = [t \in Times |-> 0]
    BY DEF Init
  <2>2. ledger \in [Times -> 0..MaxCost]
    BY <2>1 DEF Bounds
  <2> QED  BY <2>1, <2>2 DEF InUse, Bounds
<1>2. 0 \in Times
  BY DEF Times, Bounds
<1> QED  BY <1>1, <1>2, FileInUse DEF AuditInv, Init

-----------------------------------------------------------------------------
(* The tables, the clock and the rules under evaluation keep their types.  *)
THEOREM AuditTypeCorrect == Bounds => (Spec => []AuditTypeOK)
<1> SUFFICES ASSUME Bounds PROVE Spec => []AuditTypeOK
  OBVIOUS
<1>1. Init => AuditInv
  BY AuditInvInit
<1>2. AuditInv /\ [Next]_auditVars => AuditInv'
  BY AuditInvStep
<1>3. AuditInv => AuditTypeOK
  <2> SUFFICES ASSUME AuditInv PROVE AuditTypeOK
    OBVIOUS
  <2>1. InUse
    BY FileInUse DEF AuditInv
  <2> events \in Seq(EventRecords) /\ alerts \in Seq(AlertRecords)
    BY <2>1 DEF InUse
  <2>2. \A i \in DOMAIN events : events[i] \in EventRecords
    OBVIOUS
  <2>3. \A i \in DOMAIN alerts : alerts[i] \in AlertRecords
    OBVIOUS
  <2>4. \A i \in DOMAIN alerts : /\ alerts[i].event \in DOMAIN events
                                 /\ alerts[i].acknowledged \in BOOLEAN
    BY <2>1, <2>3 DEF InUse, AlertRecords
  <2>5. evaluating # <<>> => /\ auditUp /\ events # <<>>
                             /\ \E k \in DOMAIN AlertRules : evaluating = RulesFrom(k)
    BY RulesInOrder DEF AuditInv, Evaluating
  <2> QED  BY <2>1, <2>2, <2>4, <2>5 DEF AuditInv, AuditTypeOK, InUse
<1> QED  BY <1>1, <1>2, <1>3, PTL DEF Spec

(* logEvent, evaluateAlertRules, restoreState: an answered injection has   *)
(* its alert, whatever rules fired or failed for it or for other events,   *)
(* through stops, dumps, restores and leftover journals.                   *)
THEOREM InjectionsAlwaysAlerted == Bounds => (Spec => []InjectionAlerted)
<1> SUFFICES ASSUME Bounds PROVE Spec => []InjectionAlerted
  OBVIOUS
<1>1. Init => AuditInv
  BY AuditInvInit
<1>2. AuditInv /\ [Next]_auditVars => AuditInv'
  BY AuditInvStep
<1>3. AuditInv => InjectionAlerted
  BY FileInUse DEF AuditInv, InUse, HasAlert, InjectionAlerted, InjectionEvent
<1> QED  BY <1>1, <1>2, <1>3, PTL DEF Spec

Grows == /\ Len(events') >= Len(events) /\ Len(alerts') >= Len(alerts)
         /\ \A i \in DOMAIN events : events'[i].type = events[i].type
         /\ \A i \in DOMAIN alerts : alerts[i].acknowledged => alerts'[i].acknowledged
         /\ \A t \in Times : ledger'[t] >= ledger[t]

LEMMA RunningGrows == ASSUME AuditInv, Bounds, Next, auditUp PROVE Grows
<1>1. /\ InUse /\ events \in Seq(EventRecords) /\ alerts \in Seq(AlertRecords)
      /\ DOMAIN events = 1..Len(events) /\ DOMAIN alerts = 1..Len(alerts)
      /\ Len(events) \in Nat /\ Len(alerts) \in Nat
      /\ \A t \in Times : ledger[t] \in Nat
  BY FileInUse DEF AuditInv, InUse, Bounds
<1>e. UNCHANGED events => Len(events') >= Len(events)
                          /\ \A i \in DOMAIN events : events'[i].type = events[i].type
  BY <1>1
<1>a. UNCHANGED alerts => /\ Len(alerts') >= Len(alerts)
                          /\ \A i \in DOMAIN alerts : alerts[i].acknowledged =>
                               alerts'[i].acknowledged
  BY <1>1
<1>l. UNCHANGED ledger => \A t \in Times : ledger'[t] >= ledger[t]
  BY <1>1
<1>2. ASSUME NEW type \in EventTypes, NEW s \in Sessions, LogEvent(type, s) PROVE Grows
  <2> DEFINE e == [type |-> type, session |-> s, at |-> now, answer |-> "none"]
  <2>1. e \in EventRecords
    BY DEF EventRecords, AuditInv
  <2>2. events' = Append(events, e) /\ UNCHANGED <<alerts, ledger>>
    BY <1>2 DEF LogEvent
  <2> HIDE DEF e
  <2>3. Len(events') = Len(events) + 1 /\ \A i \in 1..Len(events) : events'[i] = events[i]
    BY <1>1, <2>1, <2>2, AppendProperties
  <2> QED  BY <1>1, <1>a, <1>l, <2>2, <2>3 DEF Grows
<1>3. CASE Evaluate
  <2>1. PICK k \in 1..4 : evaluating = RulesFrom(k)
    BY <1>3, RulesInOrder DEF AuditInv, Evaluating, Evaluate
  <2> DEFINE alert == [rule |-> AlertRules[k].id, event |-> Len(events),
                       acknowledged |-> FALSE]
  <2>2. /\ Len(events') = Len(events)
        /\ \A i \in 1..Len(events) : events'[i].type = events[i].type
        /\ alerts' = alerts \/ alerts' = Append(alerts, alert)
    BY <1>3, <2>1, EvaluateEffect
  <2>3. alert \in AlertRecords
    BY <1>1, RuleIds DEF AlertRecords
  <2> HIDE DEF alert
  <2>4. ASSUME alerts' = Append(alerts, alert)
        PROVE  /\ Len(alerts') >= Len(alerts)
               /\ \A i \in DOMAIN alerts : alerts'[i] = alerts[i]
    BY <1>1, <2>3, <2>4, AppendProperties
  <2>5. UNCHANGED ledger
    BY <1>3 DEF Evaluate
  <2> QED  BY <1>1, <1>a, <1>l, <2>2, <2>4, <2>5 DEF Grows
<1>4. CASE RecordCost
  <2>1. ledger' = [ledger EXCEPT ![now] = @ + 1] /\ UNCHANGED <<events, alerts>>
    BY <1>4 DEF RecordCost
  <2>2. \A t \in Times : ledger'[t] >= ledger[t]
    BY <1>1, <2>1 DEF InUse
  <2> QED  BY <1>e, <1>a, <2>1, <2>2 DEF Grows
<1>5. ASSUME NEW i \in DOMAIN alerts, AcknowledgeAlert(i) PROVE Grows
  <2>1. alerts' = [alerts EXCEPT ![i].acknowledged = TRUE] /\ UNCHANGED <<events, ledger>>
    BY <1>5 DEF AcknowledgeAlert
  <2>2. \A j \in DOMAIN alerts : alerts[j] \in AlertRecords
    BY <1>1
  <2>3. /\ Len(alerts') = Len(alerts)
        /\ \A j \in DOMAIN alerts : alerts[j].acknowledged => alerts'[j].acknowledged
    BY <1>1, <2>1, <2>2 DEF AlertRecords
  <2> QED  BY <1>1, <1>e, <1>l, <2>1, <2>3 DEF Grows
<1>6. CASE DumpState \/ RestoreState \/ Stop \/ Tick
  <2>1. UNCHANGED <<events, alerts, ledger>>
    BY <1>6 DEF DumpState, RestoreState, Stop, Tick
  <2> QED  BY <1>e, <1>a, <1>l, <2>1 DEF Grows
<1>7. ~Start
  BY DEF Start
<1> QED  BY <1>2, <1>3, <1>4, <1>5, <1>6, <1>7 DEF Next

(* The tables of a running service only grow, an acknowledgement stays and *)
(* no recorded cost is taken back; only a start may put an older file in   *)
(* their place.                                                            *)
THEOREM TablesOnlyGrow == Bounds => (Spec => AppendOnly)
<1> SUFFICES ASSUME Bounds PROVE Spec => AppendOnly
  OBVIOUS
<1>1. Init => AuditInv
  BY AuditInvInit
<1>2. AuditInv /\ [Next]_auditVars => AuditInv'
  BY AuditInvStep
<1>3. AuditInv /\ [Next]_auditVars =>
        [auditUp =>
           /\ Len(events') >= Len(events) /\ Len(alerts') >= Len(alerts)
           /\ \A i \in DOMAIN events : events'[i].type = events[i].type
           /\ \A i \in DOMAIN alerts : alerts[i].acknowledged => alerts'[i].acknowledged
           /\ \A t \in DOMAIN ledger : ledger'[t] >= ledger[t]]_tables
  <2> SUFFICES ASSUME AuditInv, [Next]_auditVars, auditUp, ~ UNCHANGED tables
               PROVE  Grows /\ DOMAIN ledger = Times
    BY DEF Grows
  <2>1. Next
    BY DEF auditVars, tables
  <2> QED  BY <2>1, RunningGrows, FileInUse DEF AuditInv, InUse
<1> QED  BY <1>1, <1>2, <1>3, PTL DEF Spec, AppendOnly
=============================================================================
