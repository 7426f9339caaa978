--------------------------- MODULE CostGovernance ---------------------------
(***************************************************************************)
(* Spending limits across three services: the gateway's pre-flight check   *)
(* (chat.route.ts), the agent runtime's checks and its record of the cost  *)
(* (agent-loop.ts), and the audit system's ledger (audit.service.ts).      *)
(* Every check is made before the run and its cost is recorded after it,   *)
(* so runs of one user overlap the window between the two; an audit        *)
(* service that cannot be reached lets the message through.                *)
(***************************************************************************)
EXTENDS Integers, FiniteSets, FiniteSetsExt, Functions

CONSTANTS Users, Teams, Runs,
          userOf,          \* the user who sends each message
          teamOf,          \* "org/user" -> org
          Cap,             \* AUDIT_COST_CAP_USD
          QuotaAmounts,    \* quotas an administrator may set
          PeriodDays,      \* billing_period_days
          RunCostLimit,    \* bound: what one run can cost (its turns are capped)
          Overlap,         \* bound: messages a user has in flight at once
          LastDay          \* bound: days modelled

(* Quotas may be 0 but not negative (costs.route.ts:154); a cap of 0 lets  *)
(* nobody spend.                                                           *)
ASSUME CostAssumption ==
  /\ IsFiniteSet(Users) /\ IsFiniteSet(Runs)
  /\ userOf \in [Runs -> Users] /\ teamOf \in [Users -> Teams]
  /\ Cap \in Nat /\ PeriodDays \in Nat /\ LastDay \in Nat
  /\ QuotaAmounts \subseteq Nat /\ IsFiniteSet(QuotaAmounts) /\ QuotaAmounts \ {0} # {}
  /\ RunCostLimit \in Nat \ {0} /\ Overlap \in Nat \ {0}

VARIABLES day,             \* the UTC day
          pc,              \* where each message stands
          cost,            \* what each run has cost so far
          recordedOn,      \* the day its cost entered the ledger
          quota,           \* the row of team_quotas
          unchecked        \* history: runs a failed check let through

costVars == <<day, pc, cost, recordedOn, quota, unchecked>>

Never == -1
NoQuota == [amount |-> 0, start |-> Never]
Waiting == {"gateway", "cap", "quota"}
UnderWay == Waiting \cup {"running", "recording"}

CostInit == /\ day = 0
            /\ pc = [m \in Runs |-> "idle"]
            /\ cost = [m \in Runs |-> 0]
            /\ recordedOn = [m \in Runs |-> Never]
            /\ quota = [t \in Teams |-> NoQuota]
            /\ unchecked = {}

-----------------------------------------------------------------------------
(* The ledger's queries.                                                   *)
TotalCost(S) == SumFunctionOnSet(cost, S)

SpentOn(u, d) == TotalCost({m \in Runs : userOf[m] = u /\ recordedOn[m] = d})

(* Mutant: a user exactly at the cap is let through. *)
CapPassed(u) == SpentOn(u, day) > Cap

CapExceeded(u) == SpentOn(u, day) >= Cap

TeamSpend(t, from, to) ==
  TotalCost({m \in Runs : teamOf[userOf[m]] = t /\ recordedOn[m] \in from..(to - 1)})

(* The period stays where setTeamQuota first put it; no quota is no room.  *)
AtCapacity(t) ==
  \/ quota[t] = NoQuota
  \/ quota[t].amount <= TeamSpend(t, quota[t].start, quota[t].start + PeriodDays)

-----------------------------------------------------------------------------
GoTo(m, where) == pc' = [pc EXCEPT ![m] = where]

MessageSent(m) ==
  /\ pc[m] = "idle"
  /\ Cardinality({n \in Runs : userOf[n] = userOf[m]
                               /\ pc[n] \in UnderWay \ {"recording"}}) < Overlap
  /\ GoTo(m, "gateway")
  /\ UNCHANGED <<day, cost, recordedOn, quota, unchecked>>

(* A check answered by the audit service.                                  *)
Check(m, at, refuse, next) ==
  /\ pc[m] = at
  /\ GoTo(m, IF refuse THEN "refused" ELSE next)
  /\ UNCHANGED <<day, cost, recordedOn, quota, unchecked>>

GatewayCheck(m) == Check(m, "gateway", CapExceeded(userOf[m]), "cap")

(* The runtime sends records and checks over one connection, so a check is *)
(* answered after the records sent before it.                              *)
RecordsDelivered == \A m \in Runs : pc[m] # "recording"

CapCheck(m) == RecordsDelivered /\ Check(m, "cap", CapExceeded(userOf[m]), "quota")

QuotaCheck(m) ==
  RecordsDelivered /\ Check(m, "quota", AtCapacity(teamOf[userOf[m]]), "running")

(* The call fails, or the audit service answers its own error with "not    *)
(* exceeded": the message goes on.                                         *)
CheckFails(m) ==
  /\ pc[m] \in Waiting
  /\ GoTo(m, CASE pc[m] = "gateway" -> "cap"
               [] pc[m] = "cap" -> "quota"
               [] pc[m] = "quota" -> "running")
  /\ unchecked' = IF pc[m] = "gateway" THEN unchecked ELSE unchecked \cup {m}
  /\ UNCHANGED <<day, cost, recordedOn, quota>>

(* Mutant: the run's turns are not capped. *)
LlmTurnUncapped(m) ==
  /\ pc[m] = "running" /\ cost[m] <= RunCostLimit
  /\ cost' = [cost EXCEPT ![m] = @ + 1]
  /\ UNCHANGED <<day, pc, recordedOn, quota, unchecked>>

LlmTurn(m) ==
  /\ pc[m] = "running" /\ cost[m] < RunCostLimit
  /\ cost' = [cost EXCEPT ![m] = @ + 1]
  /\ UNCHANGED <<day, pc, recordedOn, quota, unchecked>>

RunCompletes(m) ==
  /\ pc[m] = "running"
  /\ GoTo(m, "recording")
  /\ UNCHANGED <<day, cost, recordedOn, quota, unchecked>>

(* A stream or a tool threw: recordCost is never reached.                  *)
RunThrows(m) ==
  /\ pc[m] = "running"
  /\ GoTo(m, "failed")
  /\ UNCHANGED <<day, cost, recordedOn, quota, unchecked>>

(* recordCost is fire-and-forget; the ledger stamps the day it arrives.    *)
RecordArrives(m) ==
  /\ pc[m] = "recording"
  /\ GoTo(m, "done")
  /\ recordedOn' = [recordedOn EXCEPT ![m] = day]
  /\ UNCHANGED <<day, cost, quota, unchecked>>

RecordLost(m) ==
  /\ pc[m] = "recording"
  /\ GoTo(m, "done")
  /\ UNCHANGED <<day, cost, recordedOn, quota, unchecked>>

(* The upsert keeps billing_period_start.                                  *)
SetTeamQuota(t, amount) ==
  /\ quota' = [quota EXCEPT ![t] =
                 [amount |-> amount,
                  start |-> IF @ = NoQuota THEN day ELSE @.start]]
  /\ UNCHANGED <<day, pc, cost, recordedOn, unchecked>>

NextDay == /\ day < LastDay
           /\ day' = day + 1
           /\ UNCHANGED <<pc, cost, recordedOn, quota, unchecked>>

CostNext == \/ \E m \in Runs : \/ MessageSent(m)
                               \/ GatewayCheck(m)
                               \/ CapCheck(m)
                               \/ QuotaCheck(m)
                               \/ CheckFails(m)
                               \/ LlmTurn(m)
                               \/ RunCompletes(m)
                               \/ RunThrows(m)
                               \/ RecordArrives(m)
                               \/ RecordLost(m)
            \/ \E t \in Teams, amount \in QuotaAmounts : SetTeamQuota(t, amount)
            \/ NextDay

CostSpec == CostInit /\ [][CostNext]_costVars

-----------------------------------------------------------------------------
CostTypeOK ==
  /\ day \in 0..LastDay
  /\ pc \in [Runs -> UnderWay \cup {"idle", "refused", "failed", "done"}]
  /\ cost \in [Runs -> 0..RunCostLimit]
  /\ recordedOn \in [Runs -> {Never} \cup 0..LastDay]
  /\ quota \in [Teams -> {NoQuota} \cup
                         [amount : QuotaAmounts, start : 0..LastDay]]
  /\ unchecked \subseteq Runs

(* How far the daily cap can be overrun: what the ledger holds for a user  *)
(* and a day exceeds the cap only by the runs that were in flight together *)
(* and those a failing audit service let through, never by more messages   *)
(* sent afterwards.                                                        *)
UncheckedBy(S) == Cardinality({m \in unchecked : userOf[m] \in S})

DailyOverrunBounded ==
  \A u \in Users, d \in 0..LastDay :
    SpentOn(u, d) <= (Cap - 1) + RunCostLimit * (Overlap + UncheckedBy({u}))

(* The same for a team and its billing period: its members' overlapping    *)
(* runs are what the quota cannot stop.                                    *)
Members(t) == {u \in Users : teamOf[u] = t}

QuotaOverrunBounded ==
  \A t \in Teams : quota[t] # NoQuota =>
    TeamSpend(t, quota[t].start, quota[t].start + PeriodDays) <=
      Max(QuotaAmounts) - 1
        + RunCostLimit * (Overlap * Cardinality(Members(t)) + UncheckedBy(Members(t)))

(* audit.service.ts: how far a user's runs exceed the daily cap, and a     *)
(* team's its quota.                                                       *)
OverrunBounded == DailyOverrunBounded /\ QuotaOverrunBounded

-----------------------------------------------------------------------------
(* schema.ts: "per-team spending limits with monthly reset" - so a team    *)
(* that has spent nothing in the billing period today falls in has room.   *)
PeriodStart(t) ==
  quota[t].start + PeriodDays * ((day - quota[t].start) \div PeriodDays)

QuotaResets ==
  \A t \in Teams :
    /\ quota[t] # NoQuota /\ quota[t].amount > 0
    /\ TeamSpend(t, PeriodStart(t), PeriodStart(t) + PeriodDays) = 0
    => ~AtCapacity(t)
=============================================================================
