---------------------------- MODULE ApprovalGate ----------------------------
(***************************************************************************)
(* agent-runtime/src/tools/approval-gate.ts: one map from call_id to the   *)
(* request waiting under it, and one timer per request.  A request stands  *)
(* for one call of waitForApproval; the call_id it carries comes from the  *)
(* LLM provider, so nothing in the gate makes ids unique and a second      *)
(* request may overwrite the map entry of the first.                       *)
(***************************************************************************)
EXTENDS Naturals

CONSTANTS Requests,        \* calls of waitForApproval
          CallIds,         \* call ids the providers hand out
          Sessions,        \* sessions of the agent runtime
          NoRequest,       \* an absent map entry
          idOf,            \* the call_id of each request
          sessionOf        \* the session of each request

ASSUME GateAssumption == /\ NoRequest \notin Requests
                         /\ idOf \in [Requests -> CallIds]
                         /\ sessionOf \in [Requests -> Sessions]

VARIABLES pending,         \* the map: call_id -> request, or NoRequest
          timer,           \* the setTimeout of each request
          promise,         \* the promise waitForApproval returned
          accepted         \* history: approvals respond() reported as delivered

gateVars == <<pending, timer, promise, accepted>>

Decided == {"granted", "denied"}

GateTypeOK == /\ pending \in [CallIds -> Requests \cup {NoRequest}]
              /\ timer \in [Requests -> {"unset", "armed", "cleared", "fired"}]
              /\ promise \in [Requests -> {"none", "waiting"} \cup Decided]
              /\ accepted \in Nat

GateInit == /\ pending = [c \in CallIds |-> NoRequest]
            /\ timer = [r \in Requests |-> "unset"]
            /\ promise = [r \in Requests |-> "none"]
            /\ accepted = 0

-----------------------------------------------------------------------------
(* resolve() of a settled promise does nothing. *)
Resolve(S, outcome) ==
  promise' = [r \in Requests |->
                IF r \in S /\ promise[r] = "waiting" THEN outcome
                                                     ELSE promise[r]]

(* Mutant: replacing an entry also clears the timer it had. *)
WaitForApprovalClearing(r) ==
  /\ promise[r] = "none"
  /\ pending' = [pending EXCEPT ![idOf[r]] = r]
  /\ timer' = [q \in Requests |-> IF q = r THEN "armed"
                                 ELSE IF pending[idOf[r]] = q THEN "cleared"
                                 ELSE timer[q]]
  /\ promise' = [promise EXCEPT ![r] = "waiting"]
  /\ UNCHANGED accepted

(* pending.set replaces an entry of the same call_id; that entry's timer   *)
(* keeps running.                                                          *)
WaitForApproval(r) ==
  /\ promise[r] = "none"
  /\ pending' = [pending EXCEPT ![idOf[r]] = r]
  /\ timer' = [timer EXCEPT ![r] = "armed"]
  /\ promise' = [promise EXCEPT ![r] = "waiting"]
  /\ UNCHANGED accepted

(* The setTimeout callback deletes by call_id, whoever is listed there.    *)
Timeout(r) ==
  /\ timer[r] = "armed"
  /\ pending' = [pending EXCEPT ![idOf[r]] = NoRequest]
  /\ timer' = [timer EXCEPT ![r] = "fired"]
  /\ Resolve({r}, "denied")
  /\ UNCHANGED accepted

(* Mutant: the answered entry stays in the map. *)
RespondKeepsEntry(c, approved) ==
  /\ pending[c] # NoRequest
  /\ timer' = [timer EXCEPT ![pending[c]] = "cleared"]
  /\ Resolve({pending[c]}, IF approved THEN "granted" ELSE "denied")
  /\ accepted' = IF approved THEN accepted + 1 ELSE accepted
  /\ UNCHANGED pending

(* An answer for an id that is not listed returns false and changes nothing. *)
Respond(c, approved) ==
  /\ pending[c] # NoRequest
  /\ timer' = [timer EXCEPT ![pending[c]] = "cleared"]
  /\ pending' = [pending EXCEPT ![c] = NoRequest]
  /\ Resolve({pending[c]}, IF approved THEN "granted" ELSE "denied")
  /\ accepted' = IF approved THEN accepted + 1 ELSE accepted

(* The requests getPendingForSession lists and cancelSession denies. *)
PendingForSession(s) ==
  {r \in Requests : pending[idOf[r]] = r /\ sessionOf[r] = s}

(* Mutant: the entries are dropped but their promises never settled. *)
CancelSessionUnresolved(s) ==
  LET cancelled == PendingForSession(s) IN
  /\ timer' = [r \in Requests |->
                 IF r \in cancelled THEN "cleared" ELSE timer[r]]
  /\ pending' = [c \in CallIds |->
                   IF pending[c] \in cancelled THEN NoRequest ELSE pending[c]]
  /\ UNCHANGED <<promise, accepted>>

CancelSession(s) ==
  LET cancelled == PendingForSession(s) IN
  /\ timer' = [r \in Requests |->
                 IF r \in cancelled THEN "cleared" ELSE timer[r]]
  /\ pending' = [c \in CallIds |->
                   IF pending[c] \in cancelled THEN NoRequest ELSE pending[c]]
  /\ Resolve(cancelled, "denied")
  /\ UNCHANGED accepted

GateNext == \/ \E r \in Requests : WaitForApproval(r) \/ Timeout(r)
            \/ \E c \in CallIds, approved \in BOOLEAN : Respond(c, approved)
            \/ \E s \in Sessions : CancelSession(s)

GateSafetySpec == GateInit /\ [][GateNext]_gateVars

(* The event loop runs every armed timer sooner or later. *)
GateSpec == GateSafetySpec /\ \A r \in Requests : WF_gateVars(Timeout(r))

-----------------------------------------------------------------------------
(* A request waits exactly as long as its own timer runs: overwriting an   *)
(* entry, answering and cancelling never leave a waiter that no timer will *)
(* release, nor a timer that fires on a decided request.                   *)
WaiterHasTimer ==
  \A r \in Requests : promise[r] = "waiting" <=> timer[r] = "armed"

(* What the dashboard lists is really undecided, and is listed under its   *)
(* own id, so an answer is never accepted for a request already settled.   *)
ListedIsWaiting ==
  \A c \in CallIds : pending[c] # NoRequest =>
                       /\ idOf[pending[c]] = c
                       /\ promise[pending[c]] = "waiting"

(* A request whose call id no other request carries is listed as long as   *)
(* it is undecided, whatever collisions and timers do to other entries: the *)
(* user can always answer it, and terminating its session denies it.       *)
Unshared(r) == \A q \in Requests : idOf[q] = idOf[r] => q = r

WaitingIsListed ==
  \A r \in Requests : Unshared(r) /\ promise[r] = "waiting" => pending[idOf[r]] = r

(* Map, timers and promises tell one story at any moment, whichever ids    *)
(* collide and in whatever order answers, timers and terminations come.    *)
GateAgrees == WaiterHasTimer /\ ListedIsWaiting /\ WaitingIsListed

(* A termination leaves no such request of the session undecided.          *)
TerminationDeniesAll ==
  [][\A s \in Sessions : CancelSession(s) =>
       \A r \in Requests :
         Unshared(r) /\ sessionOf[r] = s => promise'[r] # "waiting"]_gateVars

(* The gate keeps its contract, shared call ids or not.                    *)
Promised == INSTANCE GateContract WITH decision <- promise
KeepsContract == Promised!Contract
KeepsContractSafely == Promised!ContractSafety
=============================================================================
