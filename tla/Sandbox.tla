------------------------------- MODULE Sandbox -------------------------------
(***************************************************************************)
(* The sandbox runtime: SandboxService over ContainerManager.  A call owns *)
(* one container and walks it through create, attach, start, the race of   *)
(* its end against the time limit, kill, inspect and remove, awaiting the  *)
(* Docker daemon at each step.  Any of these requests may fail; one that   *)
(* fails may still have taken effect.  StopContainer acts on the same      *)
(* container from outside.                                                 *)
(***************************************************************************)
CONSTANT Calls               \* RunTool requests

VARIABLES
  pc,          \* the Docker request each call awaits
  container,   \* what the daemon has for the call
  exit,        \* how the container ended
  limit,       \* the time limit's setTimeout: it is never cleared
  code,        \* exitCode of runTool
  report,      \* what the call will answer
  stopper,     \* StopContainer of the call's container
  runtime,     \* SandboxService.runtimeInfo
  abandoned,   \* history: create answer or remove lost, or service crashed
  unwaited     \* history: calls whose wait request failed

callVars == <<pc, limit, code, report, unwaited>>
daemonVars == <<container, exit>>
serviceVars == <<stopper, abandoned, runtime>>
sandboxVars == <<callVars, daemonVars, serviceVars>>

Init == /\ pc = [c \in Calls |-> "idle"]
        /\ container = [c \in Calls |-> "none"]
        /\ exit = [c \in Calls |-> "none"]
        /\ limit = [c \in Calls |-> "unset"]
        /\ code = [c \in Calls |-> "nonzero"]
        /\ report = [c \in Calls |-> "none"]
        /\ stopper = [c \in Calls |-> "idle"]
        /\ runtime = "unknown"
        /\ abandoned = {} /\ unwaited = {}

GoTo(c, where) == pc' = [pc EXCEPT ![c] = where]
TimedOut(c) == limit[c] = "fired"

-----------------------------------------------------------------------------
(* detectRuntime finds gVisor, or runc where that is allowed; what it has  *)
(* found is kept until the service stops.                                  *)
detectRuntime == runtime' = "ready"

CheckRuntime ==
  /\ runtime = "unknown"
  /\ detectRuntime
  /\ UNCHANGED <<callVars, daemonVars, stopper, abandoned>>

Refused(c) == /\ GoTo(c, "answered")
              /\ report' = [report EXCEPT ![c] = "error"]

(* The options of a container are made, and a credential in its            *)
(* environment refused, before it is asked for.                            *)
Prepared(c) == Refused(c) \/ (GoTo(c, "creating") /\ UNCHANGED report)

RunTool(c) ==
  /\ pc[c] = "idle"
  /\ \/ detectRuntime /\ Prepared(c)
     \/ runtime = "unknown" /\ UNCHANGED runtime /\ Refused(c)
  /\ UNCHANGED <<limit, code, unwaited, daemonVars, stopper, abandoned>>

Created(c) ==
  /\ pc[c] = "creating"
  /\ container' = [container EXCEPT ![c] = "created"]
  /\ GoTo(c, "attaching")
  /\ UNCHANGED <<exit, limit, code, report, unwaited, serviceVars>>

(* Without an answer there is no handle, hence nothing to remove.          *)
CreateFails(c) ==
  /\ pc[c] = "creating"
  /\ \/ UNCHANGED <<container, abandoned>>
     \/ /\ container' = [container EXCEPT ![c] = "created"]
        /\ abandoned' = abandoned \cup {c}
  /\ report' = [report EXCEPT ![c] = "error"]
  /\ GoTo(c, "answered")
  /\ UNCHANGED <<exit, limit, code, unwaited, stopper, runtime>>

Attached(c) ==
  /\ pc[c] = "attaching"
  /\ GoTo(c, "starting")
  /\ UNCHANGED <<limit, code, report, unwaited, daemonVars, serviceVars>>

(* Mutant: an error returns without the clean-up. *)
SetupFailsUncleaned(c) ==
  /\ pc[c] \in {"attaching", "starting"}
  /\ \/ UNCHANGED container
     \/ /\ pc[c] = "starting" /\ container[c] = "created"
        /\ container' = [container EXCEPT ![c] = "running"]
  /\ report' = [report EXCEPT ![c] = "error"]
  /\ GoTo(c, "answered")
  /\ UNCHANGED <<exit, limit, code, unwaited, serviceVars>>

(* attach or start fails (start may have taken effect): finally removes.   *)
SetupFails(c) ==
  /\ pc[c] \in {"attaching", "starting"}
  /\ \/ UNCHANGED container
     \/ /\ pc[c] = "starting" /\ container[c] = "created"
        /\ container' = [container EXCEPT ![c] = "running"]
  /\ report' = [report EXCEPT ![c] = "error"]
  /\ GoTo(c, "removing")
  /\ UNCHANGED <<exit, limit, code, unwaited, serviceVars>>

(* start answered; wait is sent and the time limit set.                    *)
Started(c) ==
  /\ pc[c] = "starting" /\ container[c] = "created"
  /\ container' = [container EXCEPT ![c] = "running"]
  /\ limit' = [limit EXCEPT ![c] = "armed"]
  /\ GoTo(c, "racing")
  /\ UNCHANGED <<exit, code, report, unwaited, serviceVars>>

(* Whenever it fires it marks the call timed out; it decides the race only *)
(* if the race is still on.                                                *)
LimitPasses(c) ==
  /\ limit[c] = "armed"
  /\ limit' = [limit EXCEPT ![c] = "fired"]
  /\ IF pc[c] = "racing" THEN GoTo(c, "killing") ELSE UNCHANGED pc
  /\ UNCHANGED <<code, report, unwaited, daemonVars, serviceVars>>

(* Mutant: the status is read without waiting for the end. *)
WaitAnsweredEarly(c) ==
  /\ pc[c] = "racing"
  /\ code' = [code EXCEPT ![c] = exit[c]]
  /\ GoTo(c, "inspecting")
  /\ UNCHANGED <<limit, report, unwaited, daemonVars, serviceVars>>

WaitAnswered(c) ==
  /\ pc[c] = "racing" /\ exit[c] # "none"
  /\ code' = [code EXCEPT ![c] = exit[c]]
  /\ GoTo(c, "inspecting")
  /\ UNCHANGED <<limit, report, unwaited, daemonVars, serviceVars>>

(* Only a timeout kills; any other error falls through to inspect.         *)
WaitFails(c) ==
  /\ pc[c] = "racing"
  /\ unwaited' = unwaited \cup {c}
  /\ GoTo(c, "inspecting")
  /\ UNCHANGED <<limit, code, report, daemonVars, serviceVars>>

Ended(c, how) ==
  IF container[c] = "running"
  THEN /\ container' = [container EXCEPT ![c] = "exited"]
       /\ exit' = [exit EXCEPT ![c] = how]
  ELSE UNCHANGED daemonVars

Killed(c) ==
  /\ pc[c] = "killing"
  /\ Ended(c, "nonzero")
  /\ GoTo(c, "inspecting")
  /\ UNCHANGED <<limit, code, report, unwaited, serviceVars>>

KillFails(c) ==
  /\ pc[c] = "killing"
  /\ GoTo(c, "inspecting")
  /\ UNCHANGED <<limit, code, report, unwaited, daemonVars, serviceVars>>

-----------------------------------------------------------------------------
Reported(c, found) == IF TimedOut(c) THEN "timeout" ELSE found

(* Docker says ExitCode 0 of a container that still runs.                  *)
Inspected(c) ==
  /\ pc[c] = "inspecting" /\ container[c] \in {"running", "exited"}
  /\ report' = [report EXCEPT ![c] =
       Reported(c, IF container[c] = "running" THEN "zero" ELSE exit[c])]
  /\ GoTo(c, "removing")
  /\ UNCHANGED <<limit, code, unwaited, daemonVars, serviceVars>>

InspectFails(c) ==
  /\ pc[c] = "inspecting"
  /\ report' = [report EXCEPT ![c] = Reported(c, code[c])]
  /\ GoTo(c, "removing")
  /\ UNCHANGED <<limit, code, unwaited, daemonVars, serviceVars>>

Discarded(c) ==
  /\ container' = [container EXCEPT ![c] = "gone"]
  /\ exit' = [exit EXCEPT ![c] = IF container[c] = "running" THEN "nonzero" ELSE @]

(* remove with force; then the answer goes out.                            *)
Removed(c) ==
  /\ pc[c] = "removing"
  /\ Discarded(c)
  /\ GoTo(c, "answered")
  /\ UNCHANGED <<limit, code, report, unwaited, serviceVars>>

RemoveFails(c) ==
  /\ pc[c] = "removing"
  /\ abandoned' = abandoned \cup {c}
  /\ GoTo(c, "answered")
  /\ UNCHANGED <<limit, code, report, unwaited, daemonVars, stopper, runtime>>

(* The service dies: its callers see an error, its containers stay.        *)
Crash ==
  /\ \E c \in Calls : pc[c] \notin {"idle", "answered"}
  /\ LET cut == {c \in Calls : pc[c] \notin {"idle", "answered"}} IN
     /\ pc' = [c \in Calls |-> IF c \in cut THEN "answered" ELSE pc[c]]
     /\ report' = [c \in Calls |-> IF c \in cut THEN "error" ELSE report[c]]
     /\ abandoned' = abandoned \cup cut
  /\ limit' = [c \in Calls |-> "unset"]
  /\ stopper' = [c \in Calls |-> "idle"]
  /\ runtime' = "unknown"
  /\ UNCHANGED <<code, unwaited, daemonVars>>

-----------------------------------------------------------------------------
(* The container ends by itself, a memory kill included.                   *)
ContainerExits(c, how) ==
  /\ container[c] = "running"
  /\ Ended(c, how)
  /\ UNCHANGED <<callVars, serviceVars>>

(* StopContainer: stop, then remove; an error at either answers failure.   *)
StopContainer(c) ==
  /\ stopper[c] = "idle" /\ container[c] # "none"
  /\ stopper' = [stopper EXCEPT ![c] = "stopping"]
  /\ UNCHANGED <<callVars, daemonVars, abandoned, runtime>>

StopAnswered(c) ==
  /\ stopper[c] = "stopping"
  /\ \/ /\ container[c] # "gone"
        /\ Ended(c, "nonzero")
        /\ stopper' = [stopper EXCEPT ![c] = "removing"]
     \/ /\ stopper' = [stopper EXCEPT ![c] = "answered"]
        /\ UNCHANGED daemonVars
  /\ UNCHANGED <<callVars, abandoned, runtime>>

StopRemoves(c) ==
  /\ stopper[c] = "removing"
  /\ Discarded(c) \/ UNCHANGED daemonVars
  /\ stopper' = [stopper EXCEPT ![c] = "answered"]
  /\ UNCHANGED <<callVars, abandoned, runtime>>

-----------------------------------------------------------------------------
Daemon(c) == \/ Created(c) \/ CreateFails(c)
             \/ Attached(c) \/ SetupFails(c) \/ Started(c)
             \/ WaitAnswered(c) \/ WaitFails(c)
             \/ Killed(c) \/ KillFails(c)
             \/ Inspected(c) \/ InspectFails(c)
             \/ Removed(c) \/ RemoveFails(c)

Stop(c) == StopContainer(c) \/ StopAnswered(c) \/ StopRemoves(c)

Next == \/ \E c \in Calls : \/ RunTool(c)
                            \/ Daemon(c)
                            \/ LimitPasses(c)
                            \/ Stop(c)
                            \/ \E how \in {"zero", "nonzero"} : ContainerExits(c, how)
        \/ Crash \/ CheckRuntime

(* The daemon answers every request but wait, which it answers when the    *)
(* container ends; the limit's timer fires.  Tools owe nothing.            *)
SandboxFairness ==
  \A c \in Calls : /\ WF_sandboxVars(pc[c] # "racing" /\ Daemon(c))
                   /\ WF_sandboxVars(LimitPasses(c))

Spec == Init /\ [][Next]_sandboxVars /\ SandboxFairness

-----------------------------------------------------------------------------
Steps == {"idle", "creating", "attaching", "starting", "racing", "killing",
          "inspecting", "removing", "answered"}
Codes == {"zero", "nonzero"}

SandboxTypeOK ==
  /\ pc \in [Calls -> Steps]
  /\ container \in [Calls -> {"none", "created", "running", "exited", "gone"}]
  /\ exit \in [Calls -> {"none"} \cup Codes]
  /\ limit \in [Calls -> {"unset", "armed", "fired"}]
  /\ code \in [Calls -> Codes]
  /\ report \in [Calls -> {"none", "error", "timeout"} \cup Codes]
  /\ stopper \in [Calls -> {"idle", "stopping", "removing", "answered"}]
  /\ runtime \in {"unknown", "ready"}
  /\ abandoned \subseteq Calls /\ unwaited \subseteq Calls

(* container-manager.ts: "The container is always removed after execution  *)
(* (even on error/timeout)" - once a call is answered its container is     *)
(* gone, whatever failed on the way and however StopContainer interfered,  *)
(* unless the create answer or the removal itself was lost.                *)
AnsweredLeavesNothing ==
  \A c \in Calls : pc[c] = "answered" /\ c \notin abandoned =>
    container[c] \in {"none", "gone"}

(* Exit code 0 is only reported of a tool that ran to its end and said so; *)
(* not of one killed, stopped or out of time.  (A wait request that fails  *)
(* is the exception: inspect then reads 0 off a running container.)        *)
SuccessIsReal ==
  \A c \in Calls : report[c] = "zero" /\ c \notin unwaited => exit[c] = "zero"

(* Every call is answered, even of a tool that never ends.                 *)
CallsAnswered == \A c \in Calls : pc[c] # "idle" ~> pc[c] = "answered"
=============================================================================
