------------------------------ MODULE Dashboard ------------------------------
(***************************************************************************)
(* A control UI panel that keeps a list of the gateway's - the pending     *)
(* approvals, the sessions, the credentials, the teams' costs - by         *)
(* fetching it anew. The panel's fetch function is another one after every *)
(* render, and the effect that depends on it fetches and starts its        *)
(* interval over: so each answer that renders asks again at once, until    *)
(* the gateway's limit answers 429. Deciding, terminating and revoking     *)
(* remove the item from the panel before, or whatever, the gateway says.   *)
(***************************************************************************)
EXTENDS Integers, FiniteSets

CONSTANTS Items,
          PerMinute,     \* the route's rateLimit.max
          MaxFlights,    \* bound: fetches under way; one more is left out
          MaxFailures    \* bound: requests the network loses

VARIABLES panel,         \* which of the panels this is
          known,         \* the gateway's items: none yet, "listed" or "gone"
          shown,         \* the panel's list
          fetches,       \* fetches under way
          actions,       \* requests about one item under way
          fetchError,
          budget,        \* requests the limit still allows this minute
          failures

dashboardVars == <<panel, known, shown, fetches, actions, fetchError, budget, failures>>

Listed == {i \in Items : known[i] = "listed"}
NoFetch == [at |-> "free", items |-> {}]
Sent == [at |-> "sent", items |-> {}]
Slots == 1..MaxFlights

(* The panel is mounted: its effect fetches.                               *)
Panels == {"approvals", "sessions", "credentials", "costs"}
Timed == Panels \ {"credentials"}           \* have a timer
Loading == {"credentials", "costs"}         \* toggle "loading" with each fetch

Init == /\ panel \in Panels
        /\ known = [i \in Items |-> "none"]
        /\ shown = {}
        /\ fetches = [f \in Slots |-> IF f = 1 THEN Sent ELSE NoFetch]
        /\ actions = [i \in Items |-> "none"]
        /\ fetchError = "none"
        /\ budget = PerMinute /\ failures = 0

-----------------------------------------------------------------------------
(* A fetch starts, in a free slot of F.                                    *)
Fetching(F) ==
  LET free == {f \in Slots : F[f].at = "free"} IN
  IF free = {} THEN F
  ELSE [F EXCEPT ![CHOOSE f \in free : \A g \in free : f <= g] = Sent]

(* What the effect does after a render, F being the fetches then.          *)
Rendered(F) == fetches' = Fetching(F)

(* Mutant: an error stops the timer. *)
TickUnlessError ==
  /\ panel \in Timed /\ fetchError = "none"
  /\ fetches' = Fetching(fetches)
  /\ UNCHANGED <<panel, known, shown, actions, fetchError, budget, failures>>

(* The panel's timer: the approvals' clock renders once a second, so that  *)
(* their interval of two never runs out; the others' interval fetches.     *)
Tick ==
  /\ panel \in Timed
  /\ fetches' = Fetching(fetches)
  /\ UNCHANGED <<panel, known, shown, actions, fetchError, budget, failures>>

(* The gateway answers a fetch: with its list while the limit allows it.   *)
Serve(f) ==
  /\ fetches[f].at = "sent"
  /\ IF budget > 0
     THEN /\ fetches' = [fetches EXCEPT ![f] = [at |-> "200", items |-> Listed]]
          /\ budget' = budget - 1
     ELSE /\ fetches' = [fetches EXCEPT ![f].at = "429"]
          /\ UNCHANGED budget
  /\ UNCHANGED <<panel, known, shown, actions, fetchError, failures>>

ServeFails(f) ==
  /\ fetches[f].at = "sent" /\ failures < MaxFailures
  /\ failures' = failures + 1
  /\ fetches' = [fetches EXCEPT ![f].at = "failed"]
  /\ UNCHANGED <<panel, known, shown, actions, fetchError, budget>>

MinutePasses ==
  /\ budget < PerMinute /\ budget' = PerMinute
  /\ UNCHANGED <<panel, known, shown, fetches, actions, fetchError, failures>>

Freed(f) == [fetches EXCEPT ![f] = NoFetch]

(* The answer replaces the list, however old it is; the new list renders.  *)
Answered(f) ==
  /\ fetches[f].at = "200"
  /\ shown' = fetches[f].items
  /\ fetchError' = "none"
  /\ Rendered(Freed(f))
  /\ UNCHANGED <<panel, known, actions, budget, failures>>

(* An error leaves the list.  The same message as before renders nothing,  *)
(* but "loading" always does.                                              *)
AnsweredError(f) ==
  /\ fetches[f].at \in {"429", "failed"}
  /\ fetchError' = fetches[f].at
  /\ IF fetchError # fetches[f].at \/ panel \in Loading
     THEN Rendered(Freed(f))
     ELSE fetches' = Freed(f)
  /\ UNCHANGED <<panel, known, shown, actions, budget, failures>>

-----------------------------------------------------------------------------
(* An item comes, or ends by itself.                                       *)
Appears(i) == /\ known[i] = "none"
              /\ known' = [known EXCEPT ![i] = "listed"]
              /\ UNCHANGED <<panel, shown, fetches, actions, fetchError, budget, failures>>

Ends(i) == /\ known[i] = "listed"
           /\ known' = [known EXCEPT ![i] = "gone"]
           /\ UNCHANGED <<panel, shown, fetches, actions, fetchError, budget, failures>>

(* decide, terminate, handleRevoke: approvals and credentials go from the  *)
(* list at once.                                                           *)
Act(i) ==
  /\ panel # "costs"
  /\ i \in shown /\ actions[i] = "none"
  /\ actions' = [actions EXCEPT ![i] = "sent"]
  /\ shown' = IF panel = "sessions" THEN shown ELSE shown \ {i}
  /\ Rendered(fetches)
  /\ UNCHANGED <<panel, known, fetchError, budget, failures>>

(* Filling in a credential's form or a range of dates renders the panel.   *)
Types ==
  /\ panel \in Loading
  /\ Rendered(fetches)
  /\ UNCHANGED <<panel, known, shown, actions, fetchError, budget, failures>>

ActionServed(i) ==
  /\ actions[i] = "sent"
  /\ known' = [known EXCEPT ![i] = "gone"]
  /\ actions' = [actions EXCEPT ![i] = "answered"]
  /\ UNCHANGED <<panel, shown, fetches, fetchError, budget, failures>>

(* The gateway refuses, or nobody answers.                                 *)
ActionFails(i) ==
  /\ actions[i] = "sent" /\ failures < MaxFailures
  /\ failures' = failures + 1
  /\ \E how \in {"answered", "failed"} : actions' = [actions EXCEPT ![i] = how]
  /\ UNCHANGED <<panel, known, shown, fetches, fetchError, budget>>

(* The answer's status is not looked at; the sessions' list drops the item *)
(* now.  A network failure makes the credentials fetch once more.          *)
ActionEnds(i) ==
  /\ actions[i] \in {"answered", "failed"}
  /\ actions' = [actions EXCEPT ![i] = "none"]
  /\ shown' = IF panel = "sessions" /\ actions[i] = "answered" THEN shown \ {i} ELSE shown
  /\ Rendered(IF panel = "credentials" /\ actions[i] = "failed" THEN Fetching(fetches)
              ELSE fetches)
  /\ UNCHANGED <<panel, known, fetchError, budget, failures>>

Next == \/ Tick \/ MinutePasses \/ Types
        \/ \E f \in Slots : Serve(f) \/ ServeFails(f) \/ Answered(f) \/ AnsweredError(f)
        \/ \E i \in Items : \/ Appears(i) \/ Ends(i) \/ Act(i)
                            \/ ActionServed(i) \/ ActionFails(i) \/ ActionEnds(i)

(* The browser's timers and callbacks run, the gateway answers, a minute   *)
(* passes.  Nobody has to act, and no item has to come.  A request takes   *)
(* one step after the other, so one condition for it is enough.            *)
DashboardFairness ==
  /\ WF_dashboardVars(Tick) /\ WF_dashboardVars(MinutePasses)
  /\ \A f \in Slots : WF_dashboardVars(Serve(f) \/ Answered(f) \/ AnsweredError(f))
  /\ \A i \in Items : WF_dashboardVars(ActionServed(i) \/ ActionEnds(i))

Spec == Init /\ [][Next]_dashboardVars /\ DashboardFairness

-----------------------------------------------------------------------------
DashboardTypeOK ==
  /\ panel \in Panels
  /\ known \in [Items -> {"none", "listed", "gone"}]
  /\ shown \subseteq Items
  /\ fetches \in [Slots -> [at : {"free", "sent", "200", "429", "failed"},
                            items : SUBSET Items]]
  /\ actions \in [Items -> {"none", "sent", "answered", "failed"}]
  /\ fetchError \in {"none", "429", "failed"}
  /\ budget \in 0..PerMinute /\ failures \in 0..MaxFailures

(* "Best effort; next poll will reflect actual state": what the gateway    *)
(* lists is shown in the end or ends, also after an optimistic removal     *)
(* whose request failed, a list overwritten by an older answer, and a      *)
(* minute of 429s.                                                         *)
ItemsShown == \A i \in Items : i \in Listed ~> i \in shown \/ i \notin Listed

(* An item that ended leaves the panel in the end for good, although late  *)
(* answers may bring it back.                                              *)
GoneDisappears == \A i \in Items : known[i] = "gone" ~> [](i \notin shown)
=============================================================================
