------------------------------ MODULE AgentLoop ------------------------------
(***************************************************************************)
(* The agent runtime: SessionManager, AgentLoop.run and the tool executor, *)
(* composed with the approval gate.  A run is one SendMessage: an async    *)
(* generator that awaits the audit service, the memory store, the LLM      *)
(* stream, the approvals and the tools.  Runs of one session share its     *)
(* context and nothing serialises them.                                    *)
(*                                                                         *)
(* Node runs one callback at a time and drains the continuations of the    *)
(* promises it settled before the next I/O event, so a continuation that   *)
(* is ready (ContinuationReady) runs before any other action.              *)
(***************************************************************************)
EXTENDS Naturals, Sequences, SequencesExt, FiniteSets

CONSTANTS Sessions, Runs,
          Calls,               \* tool calls the LLM may emit, by unique call_id
          NoCall,              \* an absent entry of the gate's map
          runOf,               \* the run that may emit each call
          sessionOf,           \* the session each run is sent to
          MaxTurns             \* AGENT_MAX_TURNS_PER_SESSION

ASSUME AgentAssumption == /\ NoCall \notin Calls
                          /\ runOf \in [Calls -> Runs]
                          /\ sessionOf \in [Runs -> Sessions]
                          /\ MaxTurns \in Nat \ {0}

VARIABLES
  live,        \* sessions in SessionManager.sessions (and with sanitizer state)
  status,      \* ctx.status, "none" before the session is created
  messages,    \* ctx.messages
  pc,          \* where each run is suspended
  turns,       \* turnCount of each run
  more,        \* continueLoop of each run
  emitted,     \* toolCallsThisTurn of each run
  awaiting,    \* approvalPromises not yet awaited, in order
  buffer,      \* toolResultsBuffer of each run
  said,        \* whether the turn's assistant message is written at all
  kind,        \* what the policy engine decided about each call
  exec,        \* execution state of each call
  log,         \* audit events of each call, in order
  pending, timer, promise, accepted       \* the gate

runVars == <<pc, turns, more, emitted, awaiting, buffer, said>>
callVars == <<kind, exec, log>>
sessionVars == <<live, status, messages>>
gateVars == <<pending, timer, promise, accepted>>
vars == <<sessionVars, runVars, callVars, gateVars>>

Gate == INSTANCE ApprovalGate
          WITH Requests <- Calls, CallIds <- Calls, NoRequest <- NoCall,
               idOf <- [c \in Calls |-> c],
               sessionOf <- [c \in Calls |-> sessionOf[runOf[c]]]

Session(m) == sessionOf[m]

(* The entries of a conversation that the properties tell apart. *)
Prior == [role |-> "prior"]
User(m) == [role |-> "user", run |-> m]
Assistant(calls) == [role |-> "assistant", calls |-> calls]
Tool(c) == [role |-> "tool", call |-> c]

Idle == {"idle", "ended", "failed"}
Settled == {"done", "blocked", "threw"}

Init == /\ live = {}
        /\ status = [s \in Sessions |-> "none"]
        /\ messages = [s \in Sessions |-> <<>>]
        /\ pc = [m \in Runs |-> "idle"]
        /\ turns = [m \in Runs |-> 0]
        /\ more = [m \in Runs |-> TRUE]
        /\ emitted = [m \in Runs |-> <<>>]
        /\ awaiting = [m \in Runs |-> <<>>]
        /\ buffer = [m \in Runs |-> <<>>]
        /\ said = [m \in Runs |-> FALSE]
        /\ kind = [c \in Calls |-> "none"]
        /\ exec = [c \in Calls |-> "unissued"]
        /\ log = [c \in Calls |-> <<>>]
        /\ Gate!GateInit

-----------------------------------------------------------------------------
(* SessionManager.                                                         *)
CreateSession(s) ==
  /\ status[s] = "none"
  /\ live' = live \cup {s}
  /\ status' = [status EXCEPT ![s] = "active"]
  /\ UNCHANGED <<messages, runVars, callVars, gateVars>>

TerminateSession(s) ==
  /\ s \in live
  /\ Gate!CancelSession(s)
  /\ live' = live \ {s}
  /\ status' = [status EXCEPT ![s] = "terminated"]
  /\ UNCHANGED <<messages, runVars, callVars>>

(* ApproveToolCall: the client answers a call it was shown; an answer that *)
(* finds no entry changes nothing.                                         *)
ApproveToolCall(c, approved) ==
  /\ Gate!Respond(c, approved)
  /\ UNCHANGED <<sessionVars, runVars, callVars>>

(* Mutant: the timer removes the entry but never settles the promise. *)
ApprovalTimeoutUndecided(c) ==
  /\ timer[c] = "armed"
  /\ timer' = [timer EXCEPT ![c] = "fired"]
  /\ pending' = [pending EXCEPT ![c] = NoCall]
  /\ UNCHANGED <<promise, accepted, sessionVars, runVars, callVars>>

ApprovalTimeout(c) ==
  /\ Gate!Timeout(c)
  /\ UNCHANGED <<sessionVars, runVars, callVars>>

-----------------------------------------------------------------------------
(* A run up to its first turn.                                             *)
GoTo(m, where) == pc' = [pc EXCEPT ![m] = where]

(* An unknown session and an injection in the message end the run at once; *)
(* otherwise it awaits the cost cap and the team quota.                    *)
SendMessage(m) ==
  /\ pc[m] = "idle"
  /\ status[Session(m)] # "none"
  /\ IF Session(m) \in live THEN GoTo(m, "checking") \/ GoTo(m, "ended")
                            ELSE GoTo(m, "ended")
  /\ UNCHANGED <<sessionVars, turns, more, emitted, awaiting, buffer, said,
                 callVars, gateVars>>

BeginTurns(m, history) ==
  /\ messages' = [messages EXCEPT ![Session(m)] = Append(history, User(m))]
  /\ status' = [status EXCEPT ![Session(m)] = "active"]
  /\ turns' = [turns EXCEPT ![m] = 1]
  /\ GoTo(m, "streaming")
  /\ UNCHANGED <<live, more, emitted, awaiting, buffer, said, callVars, gateVars>>

CheckRefused(m) ==
  /\ pc[m] = "checking"
  /\ GoTo(m, "ended")
  /\ UNCHANGED <<sessionVars, turns, more, emitted, awaiting, buffer, said,
                 callVars, gateVars>>

CheckPassed(m) ==
  /\ pc[m] = "checking"
  /\ IF messages[Session(m)] = <<>>
     THEN /\ GoTo(m, "loading")
          /\ UNCHANGED <<sessionVars, turns, more, emitted, awaiting, buffer,
                         said, callVars, gateVars>>
     ELSE BeginTurns(m, messages[Session(m)])

(* The memory store returned; it may hold nothing for this user.           *)
MemoryLoaded(m) ==
  /\ pc[m] = "loading"
  /\ \E prior \in {<<>>, <<Prior>>} :
       BeginTurns(m, messages[Session(m)] \o prior)

-----------------------------------------------------------------------------
(* One turn: stream, approvals, tools, history.                            *)
(* A tool_call chunk: the policy check denies the call, lets it through or *)
(* asks for an approval; what is let through is collected for the batch.   *)
Emit(m, c) ==
  /\ pc[m] = "streaming"
  /\ runOf[c] = m /\ exec[c] = "unissued"
  /\ emitted' = [emitted EXCEPT ![m] = Append(@, c)]
  /\ UNCHANGED <<live, messages, pc, turns, more, said>>

DenyCall(m, c) ==
  /\ Emit(m, c)
  /\ kind' = [kind EXCEPT ![c] = "forbidden"]
  /\ exec' = [exec EXCEPT ![c] = "denied"]
  /\ log' = [log EXCEPT ![c] = <<"POLICY_DENIED">>]
  /\ buffer' = [buffer EXCEPT ![m] = Append(@, c)]
  /\ UNCHANGED <<status, awaiting, gateVars>>

AllowCall(m, c) ==
  /\ Emit(m, c)
  /\ kind' = [kind EXCEPT ![c] = "free"]
  /\ exec' = [exec EXCEPT ![c] = "prepared"]
  /\ UNCHANGED <<log, buffer, status, awaiting, gateVars>>

AskApproval(m, c) ==
  /\ Emit(m, c)
  /\ kind' = [kind EXCEPT ![c] = "gated"]
  /\ exec' = [exec EXCEPT ![c] = "prepared"]
  /\ log' = [log EXCEPT ![c] = <<"APPROVAL_REQUESTED">>]
  /\ status' = [status EXCEPT ![Session(m)] = "awaiting_approval"]
  /\ awaiting' = [awaiting EXCEPT ![m] = Append(@, c)]
  /\ Gate!WaitForApproval(c)
  /\ UNCHANGED buffer

ToolCall(m, c) == DenyCall(m, c) \/ AllowCall(m, c) \/ AskApproval(m, c)

(* The finish or error chunk; only finish_reason tool_use keeps the loop.  *)
EndStream(m) ==
  /\ pc[m] = "streaming"
  /\ \E hadText, toolUse \in BOOLEAN :
       /\ said' = [said EXCEPT ![m] = hadText \/ emitted[m] # <<>>]
       /\ more' = [more EXCEPT ![m] = toolUse /\ emitted[m] # <<>>]
  /\ GoTo(m, "approving")
  /\ UNCHANGED <<sessionVars, turns, emitted, awaiting, buffer, callVars, gateVars>>

(* The provider threw: the run ends, its approvals stay registered.        *)
StreamThrows(m) ==
  /\ pc[m] = "streaming"
  /\ GoTo(m, "failed")
  /\ UNCHANGED <<sessionVars, turns, more, emitted, awaiting, buffer, said,
                 callVars, gateVars>>

(* Phase 2: await the approvals in the order they were requested.          *)
ResolveApproval(m) ==
  LET c == Head(awaiting[m])
      granted == promise[c] = "granted"
  IN
  /\ pc[m] = "approving"
  /\ awaiting[m] # <<>>
  /\ promise[c] \in Gate!Decided
  /\ awaiting' = [awaiting EXCEPT ![m] = Tail(@)]
  /\ log' = [log EXCEPT ![c] =
               Append(@, IF granted THEN "APPROVAL_GRANTED" ELSE "APPROVAL_DENIED")]
  /\ IF granted
     THEN UNCHANGED <<exec, buffer>>
     ELSE /\ exec' = [exec EXCEPT ![c] = "denied"]
          /\ buffer' = [buffer EXCEPT ![m] = Append(@, c)]
  /\ UNCHANGED <<sessionVars, pc, turns, more, emitted, said, kind, gateVars>>

(* Phase 3: every prepared call that was not denied starts in parallel.    *)
InTurn(m) == {c \in Calls : c \in ToSet(emitted[m])}
Batch(m) == {c \in InTurn(m) : exec[c] \notin {"denied", "prepared"}}

(* Mutant: the batch starts without awaiting the approvals. *)
StartBatchEagerly(m) ==
  /\ pc[m] = "approving"
  /\ status' = [status EXCEPT ![Session(m)] = "active"]
  /\ exec' = [c \in Calls |-> IF c \in InTurn(m) /\ exec[c] = "prepared"
                              THEN "queued" ELSE exec[c]]
  /\ GoTo(m, "executing")
  /\ UNCHANGED <<live, messages, turns, more, emitted, awaiting, buffer, said,
                 kind, log, gateVars>>

StartBatch(m) ==
  /\ pc[m] = "approving"
  /\ awaiting[m] = <<>>
  /\ status' = [status EXCEPT ![Session(m)] = "active"]
  /\ exec' = [c \in Calls |-> IF c \in InTurn(m) /\ exec[c] = "prepared"
                              THEN "queued" ELSE exec[c]]
  /\ GoTo(m, "executing")
  /\ UNCHANGED <<live, messages, turns, more, emitted, awaiting, buffer, said,
                 kind, log, gateVars>>

(* executeSingleToolCall.  The URL check may refuse the call; otherwise it *)
(* is handed to the skills engine or the sandbox.                          *)
BlockUrl(c) ==
  /\ exec[c] = "queued"
  /\ exec' = [exec EXCEPT ![c] = "blocked"]
  /\ log' = [log EXCEPT ![c] = @ \o <<"POLICY_DENIED", "TOOL_RESULT">>]
  /\ UNCHANGED <<sessionVars, runVars, kind, gateVars>>

(* Mutant: the TOOL_CALL event is not written. *)
StartToolUnlogged(c) ==
  /\ exec[c] = "queued"
  /\ exec' = [exec EXCEPT ![c] = "running"]
  /\ UNCHANGED <<sessionVars, runVars, kind, log, gateVars>>

StartTool(c) ==
  /\ exec[c] = "queued"
  /\ exec' = [exec EXCEPT ![c] = "running"]
  /\ log' = [log EXCEPT ![c] = Append(@, "TOOL_CALL")]
  /\ UNCHANGED <<sessionVars, runVars, kind, gateVars>>

(* The tool answered, failed or timed out.  Wrapping its output needs the  *)
(* session's delimiters: without them sanitizeExternalContent throws.      *)
FinishTool(c) ==
  /\ exec[c] = "running"
  /\ exec' = [exec EXCEPT ![c] =
                IF Session(runOf[c]) \in live THEN "done" ELSE "threw"]
  /\ log' = [log EXCEPT ![c] = Append(@, "TOOL_RESULT")]
  /\ UNCHANGED <<sessionVars, runVars, kind, gateVars>>

(* Promise.all rejects with the first throw; other calls keep running.     *)
BatchThrows(m) ==
  /\ pc[m] = "executing"
  /\ \E c \in Batch(m) : exec[c] = "threw"
  /\ GoTo(m, "failed")
  /\ UNCHANGED <<sessionVars, turns, more, emitted, awaiting, buffer, said,
                 callVars, gateVars>>

(* The elements of seq that are in S, in the order of seq.                 *)
Nth(places, k) == CHOOSE i \in places : Cardinality({j \in places : j <= i}) = k

Picked(seq, S) ==
  LET places == {i \in DOMAIN seq : seq[i] \in S}
  IN [k \in 1..Cardinality(places) |-> seq[Nth(places, k)]]

(* Mutant: the results are written before the assistant message. *)
BlockResultsFirst(m) ==
  LET executed == Picked(emitted[m], Batch(m))
      results == buffer[m] \o executed
  IN [i \in DOMAIN results |-> Tool(results[i])]
       \o (IF said[m] THEN <<Assistant(emitted[m])>> ELSE <<>>)

(* The assistant message, then one result per call: denials in the order   *)
(* they were decided, executed calls in the order they were emitted.       *)
Block(m) ==
  LET executed == Picked(emitted[m], Batch(m))
      results == buffer[m] \o executed
  IN (IF said[m] THEN <<Assistant(emitted[m])>> ELSE <<>>)
       \o [i \in DOMAIN results |-> Tool(results[i])]

(* Mutant: the turn is finished without waiting for its tools. *)
FinishTurnDetached(m) ==
  /\ pc[m] = "executing"
  /\ messages' = [messages EXCEPT ![Session(m)] = @ \o Block(m)]
  /\ IF more[m] /\ turns[m] < MaxTurns
     THEN /\ turns' = [turns EXCEPT ![m] = @ + 1]
          /\ GoTo(m, "streaming")
          /\ UNCHANGED status
     ELSE /\ GoTo(m, "ended")
          /\ status' = [status EXCEPT ![Session(m)] = "idle"]
          /\ UNCHANGED turns
  /\ emitted' = [emitted EXCEPT ![m] = <<>>]
  /\ buffer' = [buffer EXCEPT ![m] = <<>>]
  /\ said' = [said EXCEPT ![m] = FALSE]
  /\ UNCHANGED <<live, more, awaiting, callVars, gateVars>>

(* Mutant: the turn cap is off by one. *)
FinishTurnOneMore(m) ==
  /\ pc[m] = "executing"
  /\ \A c \in Batch(m) : exec[c] \in {"done", "blocked"}
  /\ messages' = [messages EXCEPT ![Session(m)] = @ \o Block(m)]
  /\ IF more[m] /\ turns[m] <= MaxTurns
     THEN /\ turns' = [turns EXCEPT ![m] = @ + 1]
          /\ GoTo(m, "streaming")
          /\ UNCHANGED status
     ELSE /\ GoTo(m, "ended")
          /\ status' = [status EXCEPT ![Session(m)] = "idle"]
          /\ UNCHANGED turns
  /\ emitted' = [emitted EXCEPT ![m] = <<>>]
  /\ buffer' = [buffer EXCEPT ![m] = <<>>]
  /\ said' = [said EXCEPT ![m] = FALSE]
  /\ UNCHANGED <<live, more, awaiting, callVars, gateVars>>

(* The loop goes on while the LLM asks for tools and the cap allows it;    *)
(* then usage is recorded and the session turns idle.                      *)
FinishTurn(m) ==
  /\ pc[m] = "executing"
  /\ \A c \in Batch(m) : exec[c] \in {"done", "blocked"}
  /\ messages' = [messages EXCEPT ![Session(m)] = @ \o Block(m)]
  /\ IF more[m] /\ turns[m] < MaxTurns
     THEN /\ turns' = [turns EXCEPT ![m] = @ + 1]
          /\ GoTo(m, "streaming")
          /\ UNCHANGED status
     ELSE /\ GoTo(m, "ended")
          /\ status' = [status EXCEPT ![Session(m)] = "idle"]
          /\ UNCHANGED turns
  /\ emitted' = [emitted EXCEPT ![m] = <<>>]      \* the turn's own variables
  /\ buffer' = [buffer EXCEPT ![m] = <<>>]
  /\ said' = [said EXCEPT ![m] = FALSE]
  /\ UNCHANGED <<live, more, awaiting, callVars, gateVars>>

-----------------------------------------------------------------------------
(* What a settled promise resumes at once, before the next I/O event.      *)
ContinuationReady ==
  \E m \in Runs :
    \/ /\ pc[m] = "approving"
       /\ awaiting[m] # <<>> => promise[Head(awaiting[m])] \in Gate!Decided
    \/ /\ pc[m] = "executing"
       /\ \/ \E c \in Batch(m) : exec[c] = "threw"
          \/ \A c \in Batch(m) : exec[c] \in Settled

Continuation(m) ==
  ResolveApproval(m) \/ StartBatch(m) \/ BatchThrows(m) \/ FinishTurn(m)

(* Replies the run awaits from other services.                             *)
Reply(m) == \/ CheckRefused(m)
            \/ CheckPassed(m)
            \/ MemoryLoaded(m)
            \/ EndStream(m)
            \/ StreamThrows(m)

Event == \/ \E s \in Sessions : CreateSession(s) \/ TerminateSession(s)
         \/ \E m \in Runs : \/ SendMessage(m)
                            \/ Reply(m)
                            \/ \E c \in Calls : ToolCall(m, c)
         \/ \E c \in Calls : \/ ApprovalTimeout(c)
                             \/ BlockUrl(c)
                             \/ StartTool(c)
                             \/ FinishTool(c)
                             \/ \E approved \in BOOLEAN : ApproveToolCall(c, approved)

Next == \/ \E m \in Runs : Continuation(m)
        \/ ~ContinuationReady /\ Event

Spec == Init /\ [][Next]_vars

(* Services answer, the provider's stream ends, tools stop (the sandbox    *)
(* kills them at their timeout) and timers run.  Users owe nothing.  A run *)
(* awaits one thing at a time, and a call's timer is off when it executes. *)
Fairness ==
  /\ \A m \in Runs : WF_vars(Continuation(m) \/ (~ContinuationReady /\ Reply(m)))
  /\ \A c \in Calls :
       WF_vars(~ContinuationReady /\ (\/ ApprovalTimeout(c) \/ BlockUrl(c)
                                     \/ StartTool(c) \/ FinishTool(c)))

FairSpec == Spec /\ Fairness

-----------------------------------------------------------------------------
Events == {"POLICY_DENIED", "APPROVAL_REQUESTED", "APPROVAL_GRANTED",
           "APPROVAL_DENIED", "TOOL_CALL", "TOOL_RESULT"}

SessionsTypeOK ==
  /\ live \subseteq Sessions
  /\ status \in [Sessions -> {"none", "active", "idle", "awaiting_approval",
                              "terminated"}]

RunsTypeOK ==
  /\ pc \in [Runs -> Idle \cup {"checking", "loading", "streaming", "approving",
                                "executing"}]
  /\ turns \in [Runs -> 0..MaxTurns]
  /\ more \in [Runs -> BOOLEAN] /\ said \in [Runs -> BOOLEAN]
  /\ emitted \in [Runs -> Seq(Calls)] /\ awaiting \in [Runs -> Seq(Calls)]
  /\ buffer \in [Runs -> Seq(Calls)]

CallsTypeOK ==
  /\ kind \in [Calls -> {"none", "free", "gated", "forbidden"}]
  /\ exec \in [Calls -> {"unissued", "prepared", "denied", "queued", "running"}
                          \cup Settled]
  /\ log \in [Calls -> Seq(Events)]

TypeOK == SessionsTypeOK /\ RunsTypeOK /\ CallsTypeOK /\ Gate!GateTypeOK

(* No tool the policy gates is started, refused by the URL check or run    *)
(* unless its own approval was granted and the grant was logged first:     *)
(* not after a denial, a timeout, a termination or another call's answer.  *)
GatedNeedsGrant ==
  \A c \in Calls :
    kind[c] = "gated" /\ exec[c] \in {"queued", "running"} \cup Settled =>
      /\ promise[c] = "granted"
      /\ Len(log[c]) >= 2 /\ log[c][2] = "APPROVAL_GRANTED"

(* A history in which every assistant message has its calls' results right *)
(* behind it, and no result stands anywhere else.                          *)
ResultsOf(history, i) ==
  {history[j] : j \in (i + 1)..(i + Len(history[i].calls))}

Paired(h) ==
  /\ \A i \in DOMAIN h : h[i].role = "assistant" =>
       /\ i + Len(h[i].calls) <= Len(h)
       /\ ResultsOf(h, i) = {Tool(c) : c \in ToSet(h[i].calls)}
  /\ \A j \in DOMAIN h : h[j].role = "tool" =>
       \E i \in 1..(j - 1) : /\ h[i].role = "assistant"
                             /\ j <= i + Len(h[i].calls)

(* Providers reject a conversation in which a tool call is not followed at *)
(* once by its results: each assistant message is followed by exactly one  *)
(* result per call, and no result stands anywhere else, even when two runs *)
(* of the session write to it.                                             *)
ConversationPaired == \A s \in Sessions : Paired(messages[s])

(* Whatever result the model is shown, the audit log holds its complete    *)
(* trail in order: the decision before the execution, and both ends of it. *)
Trails(k) ==
  LET executions == {<<"TOOL_CALL", "TOOL_RESULT">>,
                     <<"POLICY_DENIED", "TOOL_RESULT">>}
      granted == <<"APPROVAL_REQUESTED", "APPROVAL_GRANTED">>
  IN CASE k = "forbidden" -> {<<"POLICY_DENIED">>}
       [] k = "free" -> executions
       [] k = "gated" -> {<<"APPROVAL_REQUESTED", "APPROVAL_DENIED">>}
                            \cup {granted \o e : e \in executions}

ConversationAudited ==
  \A s \in Sessions : \A j \in DOMAIN messages[s] :
    messages[s][j].role = "tool" =>
      log[messages[s][j].call] \in Trails(kind[messages[s][j].call])

(* A run that ended normally leaves no approval for the user to answer and *)
(* no tool running behind its back.                                        *)
EndedRunLeavesNothing ==
  \A c \in Calls : pc[runOf[c]] = "ended" =>
    /\ promise[c] # "waiting"
    /\ exec[c] \notin {"prepared", "queued", "running"}

(* Every message is eventually finished with: approvals nobody answers     *)
(* time out, and the turn cap stops a model that keeps asking for tools.   *)
RunsEnd == \A m \in Runs : pc[m] # "idle" ~> pc[m] \in {"ended", "failed"}

-----------------------------------------------------------------------------
(* What the comments say of sessions, of the audit log and of the memory.  *)

(* approval-gate.ts: "All approval decisions are logged to the audit       *)
(* system" - so once its run is over, a decided request has its decision   *)
(* in the log.                                                             *)
DecisionsLogged ==
  \A c \in Calls :
    promise[c] \in Gate!Decided /\ pc[runOf[c]] \in {"ended", "failed"} =>
      \E i \in DOMAIN log[c] : log[c][i] \in {"APPROVAL_GRANTED", "APPROVAL_DENIED"}

(* agent-loop.ts: "load prior conversation history and lessons on first    *)
(* turn" - so it stands before anything of this session, and once.         *)
PriorComesFirst ==
  \A s \in Sessions : \A i \in DOMAIN messages[s] :
    messages[s][i] = Prior => i = 1
=============================================================================
