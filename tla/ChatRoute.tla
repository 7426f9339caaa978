------------------------------ MODULE ChatRoute ------------------------------
(***************************************************************************)
(* One user's sessions and messages, end to end: the gateway's REST and    *)
(* WebSocket routes, the gRPC calls they make and the runtime's handlers.  *)
(* A message passes the gateway's cost check, opens a stream, and the      *)
(* run's chunks come back over it, as frames on the socket it came by.     *)
(* The runtime keeps its sessions in memory only: when it stops they are   *)
(* gone and the streams break, with any of the chunks under way lost.      *)
(*                                                                         *)
(* What the gateway refuses at once (no JSON, no such type, the session    *)
(* of another socket, over the limit) never becomes a message here.        *)
(***************************************************************************)
EXTENDS ChatFrames, SequencesExt

CONSTANTS Sessions,
          MaxSteps,               \* bound: chunks of one run before its last
          MaxStops                \* bound: stops of the runtime

VARIABLES token,                  \* "valid", "expired"
          up,                     \* the runtime
          sessions,               \* SessionManager.sessions
          asked,                  \* session -> its POST or DELETE under way
          told,                   \* session -> "none", "active", "gone": the client's
          socket,                 \* session -> "none", "open", "closed"
          phase,                  \* message -> where the gateway stands with it
          of,                     \* message -> its session
          run,                    \* message -> its run at the runtime
          steps,                  \* message -> chunks its run wrote
          verdict,                \* message -> the gate's decision on its pending call
          stream                  \* message -> chunks under way to the gateway

gateway == <<phase, stream, frames>>
runtime == <<sessions, run, steps, verdict>>
client  == <<token, told, socket, of>>
vars == <<client, gateway, runtime, asked, up, stops>>

Middle == {"delta", "tool_pending", "tool_result", "error"}

Init == /\ token = "valid"
        /\ up = TRUE /\ stops = 0
        /\ sessions = {}
        /\ asked = [s \in Sessions |-> "none"]
        /\ told = [s \in Sessions |-> "none"]
        /\ socket = [s \in Sessions |-> "none"]
        /\ phase = [m \in Messages |-> "none"]
        /\ of \in [Messages -> Sessions]
        /\ run = [m \in Messages |-> "none"]
        /\ steps = [m \in Messages |-> 0]
        /\ verdict = [m \in Messages |-> "none"]
        /\ stream = [m \in Messages |-> <<>>]
        /\ frames = [m \in Messages |-> <<>>]

-----------------------------------------------------------------------------
(* The REST routes; verifyToken is on each of them, and on the handshake.  *)
TokenExpires == /\ token = "valid"
                /\ token' = "expired"
                /\ UNCHANGED <<told, socket, of, gateway, runtime, asked, up, stops>>

PostSession(s) ==
  /\ token = "valid"
  /\ told[s] = "none" /\ asked[s] = "none"
  /\ asked' = [asked EXCEPT ![s] = "create"]
  /\ UNCHANGED <<client, gateway, runtime, up, stops>>

(* CreateSession at the runtime; without a provider it stores nothing.     *)
CreateSession(s) ==
  /\ up /\ asked[s] = "create"
  /\ \/ /\ sessions' = sessions \cup {s}
        /\ asked' = [asked EXCEPT ![s] = "created"]
     \/ /\ asked' = [asked EXCEPT ![s] = "none"]
        /\ UNCHANGED sessions
  /\ UNCHANGED <<client, gateway, run, steps, verdict, up, stops>>

CreateAnswered(s) ==
  /\ asked[s] = "created"
  /\ asked' = [asked EXCEPT ![s] = "none"]
  /\ told' = [told EXCEPT ![s] = "active"]
  /\ UNCHANGED <<token, socket, of, gateway, runtime, up, stops>>

DeleteSession(s) ==
  /\ token = "valid"
  /\ told[s] = "active" /\ asked[s] = "none"
  /\ asked' = [asked EXCEPT ![s] = "delete"]
  /\ UNCHANGED <<client, gateway, runtime, up, stops>>

Asking(s) == {m \in Messages : of[m] = s /\ run[m] = "asking" /\ verdict[m] = "none"}
Cancelled(s) == [m \in Messages |-> IF m \in Asking(s) THEN "denied" ELSE verdict[m]]

(* Mutant: the approvals are cancelled and the session is kept. *)
TerminateSessionKept(s) ==
  /\ up /\ asked[s] = "delete"
  /\ verdict' = Cancelled(s)
  /\ asked' = [asked EXCEPT ![s] = "deleted"]
  /\ UNCHANGED <<client, gateway, sessions, run, steps, up, stops>>

(* TerminateSession: the pending calls are denied and the session goes;    *)
(* its runs do not hear of it.                                             *)
TerminateSession(s) ==
  /\ up /\ asked[s] = "delete"
  /\ IF s \in sessions THEN /\ verdict' = Cancelled(s)
                            /\ sessions' = sessions \ {s}
                       ELSE UNCHANGED <<verdict, sessions>>
  /\ asked' = [asked EXCEPT ![s] = "deleted"]
  /\ UNCHANGED <<client, gateway, run, steps, up, stops>>

DeleteAnswered(s) ==
  /\ asked[s] = "deleted"
  /\ asked' = [asked EXCEPT ![s] = "none"]
  /\ told' = [told EXCEPT ![s] = "gone"]
  /\ UNCHANGED <<token, socket, of, gateway, runtime, up, stops>>

(* GET /sessions/:id and GET /sessions: a session the runtime has not.     *)
StatusNotFound(s) ==
  /\ up /\ token = "valid"
  /\ told[s] = "active" /\ s \notin sessions
  /\ told' = [told EXCEPT ![s] = "gone"]
  /\ UNCHANGED <<token, socket, of, gateway, runtime, asked, up, stops>>

-----------------------------------------------------------------------------
(* The socket's handlers.                                                  *)
Connect(s) ==
  /\ token = "valid"
  /\ told[s] = "active" /\ socket[s] = "none"
  /\ socket' = [socket EXCEPT ![s] = "open"]
  /\ UNCHANGED <<token, told, of, gateway, runtime, asked, up, stops>>

Closes(s) ==
  /\ socket[s] = "open"
  /\ socket' = [socket EXCEPT ![s] = "closed"]
  /\ UNCHANGED <<token, told, of, gateway, runtime, asked, up, stops>>

(* sendMsg: nothing is sent on a socket that closed.                       *)
SendMsg(m, frame) ==
  frames' = IF socket[of[m]] = "open" THEN [frames EXCEPT ![m] = Append(@, frame)]
                                      ELSE frames

Message(m) ==
  /\ socket[of[m]] = "open"
  /\ phase[m] = "none"
  /\ phase' = [phase EXCEPT ![m] = "checking"]
  /\ UNCHANGED <<client, stream, frames, runtime, asked, up, stops>>

(* getCostSummary answers, or fails, and then the message goes on.         *)
CostChecked(m) ==
  /\ phase[m] = "checking"
  /\ \/ /\ phase' = [phase EXCEPT ![m] = "calling"]
        /\ UNCHANGED frames
     \/ /\ phase' = [phase EXCEPT ![m] = "done"]
        /\ SendMsg(m, "cap_exceeded")
  /\ UNCHANGED <<client, stream, runtime, asked, up, stops>>

(* SendMessage at the runtime; a runtime that is down breaks the stream.   *)
SendMessage(m) ==
  /\ phase[m] = "calling"
  /\ phase' = [phase EXCEPT ![m] = "reading"]
  /\ \/ /\ up /\ of[m] \in sessions
        /\ run' = [run EXCEPT ![m] = "running"]
        /\ UNCHANGED stream
     \/ /\ up /\ of[m] \notin sessions
        /\ stream' = [stream EXCEPT ![m] = <<"not_found", "end">>]
        /\ UNCHANGED run
     \/ /\ ~up
        /\ stream' = [stream EXCEPT ![m] = <<"broken">>]
        /\ UNCHANGED run
  /\ UNCHANGED <<client, frames, sessions, steps, verdict, asked, up, stops>>

(* for await: the next chunk, the end, or the error of a broken stream.    *)
Chunk(m) ==
  /\ phase[m] = "reading" /\ stream[m] # <<>>
  /\ stream' = [stream EXCEPT ![m] = Tail(@)]
  /\ CASE Head(stream[m]) = "end" ->
            phase' = [phase EXCEPT ![m] = "done"] /\ UNCHANGED frames
       [] Head(stream[m]) = "broken" ->
            phase' = [phase EXCEPT ![m] = "done"] /\ SendMsg(m, "agent_error")
       [] OTHER ->
            SendMsg(m, Head(stream[m])) /\ UNCHANGED phase
  /\ UNCHANGED <<client, runtime, asked, up, stops>>

(* An approve frame, of any session's socket, or POST .../approve: only    *)
(* the call counts, and a call that no longer waits is no error.           *)
ApproveToolCall(m, v) ==
  /\ up /\ \/ \E s \in Sessions : socket[s] = "open"
           \/ token = "valid"
  /\ run[m] = "asking" /\ verdict[m] = "none"
  /\ verdict' = [verdict EXCEPT ![m] = v]
  /\ UNCHANGED <<client, gateway, sessions, run, steps, asked, up, stops>>

-----------------------------------------------------------------------------
(* The runtime's runs, one for each message, whatever becomes of their     *)
(* session or socket.                                                      *)
Write(m, chunks) == stream' = [stream EXCEPT ![m] = @ \o chunks]

RunStep(m) ==
  /\ run[m] = "running" /\ steps[m] < MaxSteps
  /\ steps' = [steps EXCEPT ![m] = @ + 1]
  /\ \/ Write(m, <<"delta">>) /\ UNCHANGED <<run, verdict>>
     \/ /\ Write(m, <<"tool_pending">>)
        /\ run' = [run EXCEPT ![m] = "asking"]
        /\ verdict' = [verdict EXCEPT ![m] = "none"]
  /\ UNCHANGED <<client, phase, frames, sessions, asked, up, stops>>

(* Mutant: with the session its timers went, those of later calls too. *)
ApprovalTimeoutIfLive(m) ==
  /\ of[m] \in sessions
  /\ run[m] = "asking" /\ verdict[m] = "none"
  /\ verdict' = [verdict EXCEPT ![m] = "denied"]
  /\ UNCHANGED <<client, gateway, sessions, run, steps, asked, up, stops>>

ApprovalTimeout(m) ==
  /\ run[m] = "asking" /\ verdict[m] = "none"
  /\ verdict' = [verdict EXCEPT ![m] = "denied"]
  /\ UNCHANGED <<client, gateway, sessions, run, steps, asked, up, stops>>

Decided(m) ==
  /\ run[m] = "asking" /\ verdict[m] # "none"
  /\ run' = [run EXCEPT ![m] = "running"]
  /\ Write(m, <<IF verdict[m] = "granted" THEN "tool_result" ELSE "error">>)
  /\ UNCHANGED <<client, phase, frames, sessions, steps, verdict, asked, up, stops>>

(* How run() ends: blocked or over a cap at its start; after the loop,     *)
(* which an error of the provider or of the turn cap may have stopped; or  *)
(* thrown.                                                                 *)
Ends(m) == {<<"complete">>, <<"error", "complete">>, <<"agent_error">>}
             \cup (IF steps[m] > 0 THEN {} ELSE {<<"injection_warning">>, <<"cap_exceeded">>})

(* Mutant: the warning does not end the run. *)
RunEndsUnreturned(m) ==
  /\ run[m] = "running"
  /\ \/ /\ steps[m] = 0
        /\ run' = [run EXCEPT ![m] = "none"]
        /\ Write(m, <<"injection_warning", "complete", "end">>)
     \/ \E last \in Ends(m) : Write(m, last \o <<"end">>)
        /\ run' = [run EXCEPT ![m] = "none"]
  /\ UNCHANGED <<client, phase, frames, sessions, steps, verdict, asked, up, stops>>

RunEnds(m) ==
  /\ run[m] = "running"
  /\ run' = [run EXCEPT ![m] = "none"]
  /\ \E last \in Ends(m) : Write(m, last \o <<"end">>)
  /\ UNCHANGED <<client, phase, frames, sessions, steps, verdict, asked, up, stops>>

-----------------------------------------------------------------------------
(* The runtime stops: SIGTERM's terminateAll, or a crash.  A stream that   *)
(* was not read to its end keeps what already arrived; one that broke at   *)
(* an earlier stop has its error already.                                  *)
Cut(m) == IF phase[m] = "reading" /\ "broken" \notin Range(stream[m])
          THEN {SubSeq(stream[m], 1, n) \o <<"broken">> :
                  n \in {k \in 0..Len(stream[m]) : \A i \in 1..k : stream[m][i] # "end"}}
               \cup (IF "end" \in Range(stream[m]) THEN {stream[m]} ELSE {})
          ELSE {stream[m]}

Stop ==
  /\ up /\ stops < MaxStops
  /\ up' = FALSE /\ stops' = stops + 1
  /\ sessions' = {}
  /\ run' = [m \in Messages |-> "none"]
  /\ stream' \in {f \in [Messages -> UNION {Cut(m) : m \in Messages}] :
                    \A m \in Messages : f[m] \in Cut(m)}
  /\ asked' = [s \in Sessions |-> "none"]
  /\ UNCHANGED <<client, phase, frames, steps, verdict>>

Start == /\ ~up /\ up' = TRUE
         /\ UNCHANGED <<client, gateway, runtime, asked, stops>>

SessionNext(s) ==
  \/ PostSession(s) \/ CreateSession(s) \/ CreateAnswered(s)
  \/ DeleteSession(s) \/ TerminateSession(s) \/ DeleteAnswered(s)
  \/ StatusNotFound(s) \/ Connect(s) \/ Closes(s)

MessageNext(m) ==
  \/ Message(m) \/ CostChecked(m) \/ SendMessage(m) \/ Chunk(m)
  \/ RunStep(m) \/ ApprovalTimeout(m) \/ Decided(m) \/ RunEnds(m)
  \/ \E v \in {"granted", "denied"} : ApproveToolCall(m, v)

Next == \/ TokenExpires \/ Stop \/ Start
        \/ \E s \in Sessions : SessionNext(s)
        \/ \E m \in Messages : MessageNext(m)

(* Awaited calls answer or fail, timers fire, runs go on to an end (the    *)
(* turn cap sees to it); nothing is owed by the client.  The gateway's     *)
(* handler and the run each take one step after the other.                 *)
RouteFairness ==
  \A m \in Messages :
    /\ WF_vars(CostChecked(m) \/ SendMessage(m) \/ Chunk(m))
    /\ WF_vars(RunStep(m) \/ RunEnds(m) \/ ApprovalTimeout(m) \/ Decided(m))

Spec == Init /\ [][Next]_vars /\ RouteFairness

-----------------------------------------------------------------------------
(* What the routes and the runtime hold for the user is of its types.      *)
RouteTypeOK ==
  /\ sessions \subseteq Sessions
  /\ \A m \in Messages :
       /\ phase[m] \in {"none", "checking", "calling", "reading", "done"}
       /\ run[m] # "none" => phase[m] = "reading" /\ up
       /\ run[m] = "asking" \/ run[m] = "running" \/ run[m] = "none"
       /\ frames[m] \in Seq(Final \cup Middle)

(* Every accepted message is answered by a final frame, whatever becomes   *)
(* of its session, of its approvals or of the runtime meanwhile, unless    *)
(* its socket closes.                                                      *)
MessageAnswered ==
  \A m \in Messages :
    phase[m] = "checking" ~> \/ frames[m] # <<>> /\ Last(frames[m]) \in Final
                             \/ socket[of[m]] = "closed"

(* Runs nobody listens to any more, their session terminated or their      *)
(* socket closed, end like any other.                                      *)
OrphansEnd ==
  \A m \in Messages :
    (run[m] # "none" /\ (of[m] \notin sessions \/ socket[of[m]] = "closed"))
      ~> run[m] = "none"

(* Once the client knows that a session is over, no message sent to it     *)
(* begins a run.                                                           *)
NoneBegunAfterEnd ==
  [][\A m \in Messages : told[of[m]] = "gone" => ~(run[m] = "none" /\ run'[m] # "none")]_vars
=============================================================================
