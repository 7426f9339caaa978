---------------------------- MODULE GateContract ----------------------------
(***************************************************************************)
(* What the human-approval gate promises the agent loop, without its map   *)
(* and its timers: a request is asked once, decided once, denied by any    *)
(* number of reasons, and granted only by an approval the gate accepted,   *)
(* each accepted approval letting exactly one request through.             *)
(***************************************************************************)
EXTENDS Naturals

CONSTANT Requests          \* the calls of waitForApproval

VARIABLES decision,        \* per request: the state of the promise it returned
          accepted         \* approvals respond() answered with success

contractVars == <<decision, accepted>>

ContractInit == /\ decision = [r \in Requests |-> "none"]
                /\ accepted = 0

Ask(r) == /\ decision[r] = "none"
          /\ decision' = [decision EXCEPT ![r] = "waiting"]
          /\ UNCHANGED accepted

Grant(r) == /\ decision[r] = "waiting"
            /\ decision' = [decision EXCEPT ![r] = "granted"]
            /\ accepted' = accepted + 1

(* One user refuses, one timer expires, or one session is cancelled. *)
Deny(S) == /\ \A r \in S : decision[r] = "waiting"
           /\ decision' = [r \in Requests |->
                             IF r \in S THEN "denied" ELSE decision[r]]
           /\ UNCHANGED accepted

ContractNext == \/ \E r \in Requests : Ask(r) \/ Grant(r)
                \/ \E S \in SUBSET Requests : Deny(S)

ContractSafety == ContractInit /\ [][ContractNext]_contractVars

(* Fail closed, but never hang: whoever waits is eventually answered. *)
EveryAskAnswered ==
  \A r \in Requests :
    decision[r] = "waiting" ~> decision[r] \in {"granted", "denied"}

Contract == ContractSafety /\ EveryAskAnswered
=============================================================================
