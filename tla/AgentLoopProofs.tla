--------------------------- MODULE AgentLoopProofs ---------------------------
(***************************************************************************)
(* What the agent loop promises, for any sessions, runs, calls and turn    *)
(* cap: no gated tool without its grant, an audit trail for every result   *)
(* the model is shown, a conversation in which every call has its results  *)
(* at once, and nothing left behind a run that ended.                      *)
(*                                                                         *)
(* None of them is inductive.  The invariant says how far each call is and *)
(* what the log holds then (CallInv), what the variables of a turn hold    *)
(* between the phases of its run (TurnInv), and what was written to the    *)
(* conversations (Written, ResultsAreOver).                                *)
(***************************************************************************)
EXTENDS AgentLoop, TLAPS, FiniteSetTheorems

NoDup(seq) == \A i, j \in DOMAIN seq : seq[i] = seq[j] => i = j

(* A call may execute: the policy let it through or its approval was       *)
(* granted, and that, if anything, is what has been logged of it.          *)
Cleared(c) == kind[c] = "free" \/ (kind[c] = "gated" /\ promise[c] = "granted")
Before(k) == IF k = "gated" THEN <<"APPROVAL_REQUESTED", "APPROVAL_GRANTED">>
                            ELSE <<>>
Ready(c) == Cleared(c) /\ log[c] = Before(kind[c])

(* Its approval was asked for and its run has not seen the outcome.        *)
Asked(c) == /\ kind[c] = "gated" /\ log[c] = <<"APPROVAL_REQUESTED">>
            /\ promise[c] # "none"

(* Where each call is, and what has been logged of it.                     *)
CallOK(c) ==
  /\ exec[c] = "unissued" => log[c] = <<>> /\ promise[c] = "none"
  /\ exec[c] = "prepared" =>
       \/ Asked(c) /\ c \in ToSet(awaiting[runOf[c]])
       \/ Ready(c)
  /\ exec[c] = "denied" =>
       \/ kind[c] = "forbidden" /\ log[c] = <<"POLICY_DENIED">>
       \/ kind[c] = "gated" /\ log[c] = <<"APPROVAL_REQUESTED", "APPROVAL_DENIED">>
  /\ exec[c] = "queued" => Ready(c)
  /\ exec[c] = "running" =>
       Cleared(c) /\ log[c] = Append(Before(kind[c]), "TOOL_CALL")
  /\ exec[c] \in Settled =>
       /\ Cleared(c)
       /\ log[c] \in {Before(kind[c]) \o <<"TOOL_CALL", "TOOL_RESULT">>,
                      Before(kind[c]) \o <<"POLICY_DENIED", "TOOL_RESULT">>}
  /\ promise[c] = "waiting" => c \in ToSet(awaiting[runOf[c]])

(* What the variables of a turn hold of its calls.                         *)
TurnOK(m) ==
  /\ NoDup(emitted[m]) /\ NoDup(awaiting[m]) /\ NoDup(buffer[m])
  /\ \A c \in ToSet(emitted[m]) : runOf[c] = m /\ exec[c] # "unissued"
  /\ \A c \in ToSet(awaiting[m]) :
       c \in ToSet(emitted[m]) /\ exec[c] = "prepared" /\ Asked(c)
  /\ ToSet(buffer[m]) = {c \in ToSet(emitted[m]) : exec[c] = "denied"}

(* What they hold in each phase.                                           *)
PhaseOK(m) ==
  /\ pc[m] \notin {"streaming", "approving", "executing", "failed"} => emitted[m] = <<>>
  /\ pc[m] = "executing" => /\ awaiting[m] = <<>>
                            /\ \A c \in ToSet(emitted[m]) : exec[c] # "prepared"
  /\ pc[m] \in {"approving", "executing"} => said[m] \/ emitted[m] = <<>>

(* A call that is not over belongs to a turn of its run.                   *)
Unfinished == {"prepared", "queued", "running"}
NotLoose(c) == exec[c] \in Unfinished => c \in ToSet(emitted[runOf[c]])

CallInv == \A c \in Calls : CallOK(c) /\ NotLoose(c)
TurnInv == \A m \in Runs : TurnOK(m) /\ PhaseOK(m)

Entries == {Prior} \cup {User(m) : m \in Runs} \cup {Assistant(q) : q \in Seq(Calls)}
             \cup {Tool(c) : c \in Calls}

Written == messages \in [Sessions -> Seq(Entries)]

(* Results are shown of calls that are over and stay so.                   *)
Over == {"denied", "done", "blocked"}
ResultsAreOver ==
  \A s \in Sessions : \A j \in DOMAIN messages[s] :
    messages[s][j].role = "tool" => exec[messages[s][j].call] \in Over

AgentInv == /\ TypeOK /\ CallInv /\ TurnInv
            /\ Written /\ ResultsAreOver /\ ConversationPaired

-----------------------------------------------------------------------------
(* Sequences as sets of their elements.                                    *)
LEMMA EmptyToSet == ToSet(<<>>) = {} /\ NoDup(<<>>)
  BY DEF ToSet, NoDup

LEMMA AppendToSet ==
  ASSUME NEW S, NEW seq \in Seq(S), NEW x \in S, NoDup(seq), x \notin ToSet(seq)
  PROVE  /\ ToSet(Append(seq, x)) = ToSet(seq) \cup {x}
         /\ NoDup(Append(seq, x)) /\ Append(seq, x) \in Seq(S)
  BY DEF ToSet, NoDup

LEMMA ConcatElements ==
  ASSUME NEW S, NEW s \in Seq(S), NEW t \in Seq(S)
  PROVE  LET u == s \o t IN
         /\ u \in Seq(S) /\ Len(u) = Len(s) + Len(t) /\ Len(s) \in Nat /\ Len(t) \in Nat
         /\ DOMAIN u = 1..(Len(s) + Len(t))
         /\ DOMAIN s = 1..Len(s) /\ DOMAIN t = 1..Len(t)
         /\ \A i \in DOMAIN s : u[i] = s[i]
         /\ \A i \in DOMAIN t : i + Len(s) \in DOMAIN u /\ u[i + Len(s)] = t[i]
         /\ \A i \in DOMAIN u : \/ i \in DOMAIN s
                                \/ i - Len(s) \in DOMAIN t /\ u[i] = t[i - Len(s)]
  OBVIOUS

LEMMA ConcatToSet ==
  ASSUME NEW S, NEW s \in Seq(S), NEW t \in Seq(S)
  PROVE  s \o t \in Seq(S) /\ ToSet(s \o t) = ToSet(s) \cup ToSet(t)
<1> DEFINE u == s \o t
<1>1. /\ u \in Seq(S) /\ DOMAIN s \subseteq DOMAIN u
      /\ \A i \in DOMAIN s : u[i] = s[i]
      /\ \A i \in DOMAIN t : i + Len(s) \in DOMAIN u /\ u[i + Len(s)] = t[i]
      /\ \A i \in DOMAIN u : \/ i \in DOMAIN s
                             \/ i - Len(s) \in DOMAIN t /\ u[i] = t[i - Len(s)]
  BY ConcatElements
<1> HIDE DEF u
<1>2. ToSet(u) \subseteq ToSet(s) \cup ToSet(t)
  BY <1>1 DEF ToSet
<1>3. ToSet(s) \cup ToSet(t) \subseteq ToSet(u)
  BY <1>1 DEF ToSet
<1> QED  BY <1>1, <1>2, <1>3 DEF u

LEMMA EntryAppend ==
  \A h, t \in Seq(Entries), e \in Entries : Append(h \o t, e) = h \o Append(t, e)
<1> SUFFICES ASSUME NEW h \in Seq(Entries), NEW t \in Seq(Entries), NEW e \in Entries
             PROVE  Append(h \o t, e) = h \o Append(t, e)
  OBVIOUS
<1> DEFINE a == Append(h \o t, e)
           b == h \o Append(t, e)
<1>1. /\ a \in Seq(Entries) /\ b \in Seq(Entries) /\ Len(a) = Len(b)
      /\ \A i \in 1..Len(a) : a[i] = b[i]
  OBVIOUS
<1> HIDE DEF a, b
<1>2. a = b
  BY <1>1
<1> QED  BY <1>2 DEF a, b

LEMMA TailToSet ==
  ASSUME NEW S, NEW seq \in Seq(S), seq # <<>>, NoDup(seq)
  PROVE  /\ ToSet(seq) = ToSet(Tail(seq)) \cup {Head(seq)}
         /\ Head(seq) \notin ToSet(Tail(seq)) /\ NoDup(Tail(seq))
         /\ Head(seq) \in S /\ Tail(seq) \in Seq(S)
<1> DEFINE t == Tail(seq)
<1>1. /\ t \in Seq(S) /\ Len(t) = Len(seq) - 1 /\ Len(seq) \in Nat \ {0}
      /\ DOMAIN t = 1..(Len(seq) - 1) /\ DOMAIN seq = 1..Len(seq)
      /\ \A i \in 1..(Len(seq) - 1) : t[i] = seq[i + 1]
      /\ Head(seq) = seq[1] /\ seq[1] \in S
  OBVIOUS
<1> HIDE DEF t
<1>0. ASSUME NEW i \in DOMAIN t PROVE i \in Int /\ i + 1 # 1 /\ i + 1 \in DOMAIN seq /\ t[i] = seq[i + 1]
  BY <1>1
<1>2. ASSUME NEW i \in DOMAIN t PROVE t[i] # seq[1] /\ \A j \in DOMAIN t : t[i] = t[j] => i = j
  <2>1. t[i] # seq[1]
    BY <1>0, <1>1 DEF NoDup
  <2>2. ASSUME NEW j \in DOMAIN t, t[i] = t[j] PROVE i = j
    <3>1. i + 1 = j + 1
      BY <1>0, <2>2 DEF NoDup
    <3> QED  BY <1>0, <3>1
  <2> QED  BY <2>1, <2>2
<1>3. ASSUME NEW i \in DOMAIN seq, i # 1 PROVE i - 1 \in DOMAIN t /\ seq[i] = t[i - 1]
  <2>1. i \in 1..Len(seq) /\ i - 1 \in 1..(Len(seq) - 1)
    BY <1>1, <1>3
  <2> QED  BY <1>1, <2>1
<1>4. ToSet(seq) \subseteq ToSet(t) \cup {seq[1]}
  <2> SUFFICES ASSUME NEW i \in DOMAIN seq PROVE seq[i] \in ToSet(t) \cup {seq[1]}
    BY DEF ToSet
  <2> QED  BY <1>3 DEF ToSet
<1>5. ToSet(t) \cup {seq[1]} \subseteq ToSet(seq)
  <2>1. ASSUME NEW i \in DOMAIN t PROVE t[i] \in ToSet(seq)
    BY <1>1 DEF ToSet
  <2>2. seq[1] \in ToSet(seq)
    BY <1>1 DEF ToSet
  <2> QED  BY <2>1, <2>2 DEF ToSet
<1>6. Head(seq) \notin ToSet(t) /\ NoDup(t)
  BY <1>1, <1>2 DEF ToSet, NoDup
<1> QED  BY <1>1, <1>4, <1>5, <1>6 DEF t

-----------------------------------------------------------------------------
(* Types.                                                                  *)
GateStep == \A c \in Calls : \/ promise'[c] = promise[c]
                             \/ promise[c] = "waiting" /\ promise'[c] \in Gate!Decided

(* What the gate does when it is answered, timed out or cancelled.         *)
LEMMA GateMoves ==
  ASSUME TypeOK,
         \/ \E s \in Sessions : Gate!CancelSession(s)
         \/ \E c \in Calls : Gate!Timeout(c)
         \/ \E c \in Calls, approved \in BOOLEAN : Gate!Respond(c, approved)
  PROVE  Gate!GateTypeOK' /\ GateStep
<1> USE DEF TypeOK, Gate!GateTypeOK, GateStep, Gate!Decided, Gate!Resolve
<1>1. ASSUME NEW s \in Sessions, Gate!CancelSession(s)
      PROVE  Gate!GateTypeOK' /\ GateStep
  BY <1>1 DEF Gate!CancelSession
<1>2. ASSUME NEW c \in Calls, Gate!Timeout(c)
      PROVE  Gate!GateTypeOK' /\ GateStep
  BY <1>2 DEF Gate!Timeout
<1>3. ASSUME NEW c \in Calls, NEW approved \in BOOLEAN, Gate!Respond(c, approved)
      PROVE  Gate!GateTypeOK' /\ GateStep
  BY <1>3 DEF Gate!Respond
<1> QED  BY <1>1, <1>2, <1>3

(* A call that asks for an approval is listed with a timer.                *)
LEMMA GateRegisters ==
  ASSUME TypeOK, NEW c \in Calls, Gate!WaitForApproval(c)
  PROVE  /\ Gate!GateTypeOK'
         /\ promise[c] = "none" /\ promise' = [promise EXCEPT ![c] = "waiting"]
  BY DEF TypeOK, Gate!GateTypeOK, Gate!Decided, Gate!WaitForApproval

LEMMA TypeStep == TypeOK /\ [Next]_vars => TypeOK'
<1> SUFFICES ASSUME TypeOK, [Next]_vars PROVE TypeOK'
  OBVIOUS
<1>s. UNCHANGED sessionVars => SessionsTypeOK'
  BY DEF TypeOK, SessionsTypeOK, sessionVars
<1>r. UNCHANGED runVars => RunsTypeOK'
  BY DEF TypeOK, RunsTypeOK, runVars
<1>c. UNCHANGED callVars => CallsTypeOK'
  BY DEF TypeOK, CallsTypeOK, callVars, Settled
<1>g. UNCHANGED gateVars => Gate!GateTypeOK'
  BY DEF TypeOK, gateVars, Gate!GateTypeOK
<1>1. ASSUME NEW m \in Runs, ResolveApproval(m) PROVE TypeOK'
  <2>1. /\ awaiting[m] # <<>> /\ Head(awaiting[m]) \in Calls
        /\ Tail(awaiting[m]) \in Seq(Calls)
    BY <1>1 DEF ResolveApproval, TypeOK, RunsTypeOK
  <2>2. /\ Append(buffer[m], Head(awaiting[m])) \in Seq(Calls)
        /\ \A c \in Calls, e \in Events : Append(log[c], e) \in Seq(Events)
    BY <2>1 DEF TypeOK, RunsTypeOK, CallsTypeOK
  <2>3. RunsTypeOK'
    BY <1>1, <2>1, <2>2 DEF ResolveApproval, TypeOK, RunsTypeOK
  <2>4. CallsTypeOK'
    <3>1. log' \in [Calls -> Seq(Events)]
      BY <1>1, <2>1, <2>2 DEF ResolveApproval, TypeOK, CallsTypeOK, Events
    <3> QED  BY <1>1, <2>1, <3>1 DEF ResolveApproval, TypeOK, CallsTypeOK, Settled
  <2> QED  BY <1>1, <1>s, <1>g, <2>3, <2>4 DEF ResolveApproval, TypeOK
<1>2. ASSUME NEW m \in Runs, StartBatch(m) PROVE TypeOK'
  <2>1. SessionsTypeOK' /\ RunsTypeOK'
    BY <1>2 DEF StartBatch, TypeOK, SessionsTypeOK, RunsTypeOK, GoTo
  <2>2. CallsTypeOK'
    BY <1>2 DEF StartBatch, TypeOK, CallsTypeOK, Settled
  <2> QED  BY <1>2, <1>g, <2>1, <2>2 DEF StartBatch, TypeOK
<1>3. ASSUME NEW m \in Runs,
             BatchThrows(m) \/ SendMessage(m) \/ CheckRefused(m) \/ StreamThrows(m)
                \/ (CheckPassed(m) /\ messages[Session(m)] = <<>>)
      PROVE  TypeOK'
  <2>1. PICK where \in Idle \cup {"checking", "loading"} : GoTo(m, where)
    BY <1>3 DEF BatchThrows, SendMessage, CheckRefused, StreamThrows, CheckPassed, Idle
  <2>2. UNCHANGED <<sessionVars, turns, more, emitted, awaiting, buffer, said,
                    callVars, gateVars>>
    BY <1>3 DEF BatchThrows, SendMessage, CheckRefused, StreamThrows, CheckPassed
  <2>3. RunsTypeOK'
    BY <2>1, <2>2 DEF TypeOK, RunsTypeOK, GoTo, Idle
  <2> QED  BY <2>2, <2>3, <1>s, <1>c, <1>g DEF TypeOK
<1>4. ASSUME NEW m \in Runs, NEW history, BeginTurns(m, history) PROVE TypeOK'
  <2>1. SessionsTypeOK'
    BY <1>4 DEF BeginTurns, TypeOK, SessionsTypeOK
  <2>2. turns' \in [Runs -> 0..MaxTurns]
    BY <1>4, AgentAssumption DEF BeginTurns, TypeOK, RunsTypeOK
  <2>3. RunsTypeOK'
    BY <1>4, <2>2 DEF BeginTurns, TypeOK, RunsTypeOK, GoTo
  <2> QED  BY <1>4, <1>c, <1>g, <2>1, <2>3 DEF BeginTurns, TypeOK
<1>5. ASSUME NEW m \in Runs, CheckPassed(m) \/ MemoryLoaded(m) PROVE TypeOK'
  BY <1>3, <1>4, <1>5 DEF CheckPassed, MemoryLoaded
<1>6. ASSUME NEW m \in Runs, EndStream(m) PROVE TypeOK'
  <2>1. PICK hadText, toolUse \in BOOLEAN :
          /\ said' = [said EXCEPT ![m] = hadText \/ emitted[m] # <<>>]
          /\ more' = [more EXCEPT ![m] = toolUse /\ emitted[m] # <<>>]
    BY <1>6 DEF EndStream
  <2>2. said' \in [Runs -> BOOLEAN] /\ more' \in [Runs -> BOOLEAN]
    BY <2>1 DEF TypeOK, RunsTypeOK
  <2>3. RunsTypeOK'
    BY <1>6, <2>2 DEF EndStream, TypeOK, RunsTypeOK, GoTo
  <2> QED  BY <1>6, <1>s, <1>c, <1>g, <2>3 DEF EndStream, TypeOK
<1>7. ASSUME NEW m \in Runs, NEW c \in Calls, ToolCall(m, c) PROVE TypeOK'
  <2>1. /\ Append(emitted[m], c) \in Seq(Calls) /\ Append(awaiting[m], c) \in Seq(Calls)
        /\ Append(buffer[m], c) \in Seq(Calls)
        /\ <<"POLICY_DENIED">> \in Seq(Events) /\ <<"APPROVAL_REQUESTED">> \in Seq(Events)
    BY DEF TypeOK, RunsTypeOK, Events
  <2>2. CASE DenyCall(m, c)
    <3>1. RunsTypeOK' /\ SessionsTypeOK'
      BY <2>2, <2>1 DEF DenyCall, Emit, TypeOK, RunsTypeOK, SessionsTypeOK
    <3>2. CallsTypeOK'
      BY <2>2, <2>1 DEF DenyCall, TypeOK, CallsTypeOK, Settled
    <3> QED  BY <2>2, <1>g, <3>1, <3>2 DEF DenyCall, TypeOK
  <2>3. CASE AllowCall(m, c)
    <3>1. RunsTypeOK' /\ SessionsTypeOK'
      BY <2>3, <2>1 DEF AllowCall, Emit, TypeOK, RunsTypeOK, SessionsTypeOK
    <3>2. CallsTypeOK'
      BY <2>3, <2>1 DEF AllowCall, TypeOK, CallsTypeOK, Settled
    <3> QED  BY <2>3, <1>g, <3>1, <3>2 DEF AllowCall, TypeOK
  <2>4. CASE AskApproval(m, c)
    <3>1. RunsTypeOK' /\ SessionsTypeOK'
      BY <2>4, <2>1 DEF AskApproval, Emit, TypeOK, RunsTypeOK, SessionsTypeOK
    <3>2. CallsTypeOK'
      BY <2>4, <2>1 DEF AskApproval, TypeOK, CallsTypeOK, Settled
    <3> QED  BY <2>4, GateRegisters, <3>1, <3>2 DEF AskApproval, TypeOK
  <2> QED  BY <1>7, <2>2, <2>3, <2>4 DEF ToolCall
<1>8. ASSUME NEW m \in Runs, FinishTurn(m) PROVE TypeOK'
  <2>1. turns' \in [Runs -> 0..MaxTurns]
    <3>1. turns[m] < MaxTurns => turns[m] + 1 \in 0..MaxTurns
      BY AgentAssumption DEF TypeOK, RunsTypeOK
    <3> QED  BY <1>8, <3>1 DEF FinishTurn, TypeOK, RunsTypeOK
  <2>2. pc' \in [Runs -> Idle \cup {"checking", "loading", "streaming", "approving",
                                    "executing"}]
    BY <1>8 DEF FinishTurn, TypeOK, RunsTypeOK, GoTo, Idle
  <2>3. RunsTypeOK'
    <3>1. <<>> \in Seq(Calls) /\ UNCHANGED <<more, awaiting>>
      BY <1>8 DEF FinishTurn
    <3>2. /\ emitted' \in [Runs -> Seq(Calls)] /\ buffer' \in [Runs -> Seq(Calls)]
          /\ said' \in [Runs -> BOOLEAN]
      BY <1>8, <3>1 DEF FinishTurn, TypeOK, RunsTypeOK
    <3> QED  BY <2>1, <2>2, <3>1, <3>2 DEF TypeOK, RunsTypeOK
  <2>4. SessionsTypeOK'
    BY <1>8 DEF FinishTurn, TypeOK, SessionsTypeOK
  <2> QED  BY <1>8, <1>c, <1>g, <2>3, <2>4 DEF FinishTurn, TypeOK
<1>9. ASSUME NEW s \in Sessions, CreateSession(s) PROVE TypeOK'
  <2>1. SessionsTypeOK'
    BY <1>9 DEF CreateSession, TypeOK, SessionsTypeOK
  <2> QED  BY <1>9, <1>r, <1>c, <1>g, <2>1 DEF CreateSession, TypeOK
<1>10. ASSUME NEW s \in Sessions, TerminateSession(s) PROVE TypeOK'
  <2>1. SessionsTypeOK'
    BY <1>10 DEF TerminateSession, TypeOK, SessionsTypeOK
  <2> QED  BY <1>10, <1>r, <1>c, GateMoves, <2>1 DEF TerminateSession, TypeOK
<1>11. ASSUME NEW c \in Calls, NEW approved \in BOOLEAN, ApproveToolCall(c, approved)
       PROVE  TypeOK'
  BY <1>11, <1>s, <1>r, <1>c, GateMoves DEF ApproveToolCall, TypeOK
<1>12. ASSUME NEW c \in Calls, ApprovalTimeout(c) PROVE TypeOK'
  BY <1>12, <1>s, <1>r, <1>c, GateMoves DEF ApprovalTimeout, TypeOK
<1>13. ASSUME NEW c \in Calls, BlockUrl(c) \/ StartTool(c) \/ FinishTool(c) PROVE TypeOK'
  <2>1. /\ log[c] \o <<"POLICY_DENIED", "TOOL_RESULT">> \in Seq(Events)
        /\ Append(log[c], "TOOL_CALL") \in Seq(Events)
        /\ Append(log[c], "TOOL_RESULT") \in Seq(Events)
    BY DEF TypeOK, CallsTypeOK, Events
  <2>2. log' \in [Calls -> Seq(Events)]
    BY <1>13, <2>1 DEF BlockUrl, StartTool, FinishTool, TypeOK, CallsTypeOK
  <2>3. CallsTypeOK'
    BY <1>13, <2>2 DEF BlockUrl, StartTool, FinishTool, TypeOK, CallsTypeOK, Settled
  <2> QED
    BY <1>13, <1>s, <1>r, <1>g, <2>3 DEF BlockUrl, StartTool, FinishTool, TypeOK
<1>14. CASE UNCHANGED vars
  BY <1>14, <1>s, <1>r, <1>c, <1>g DEF vars, TypeOK
<1>15. ASSUME NEW m \in Runs, Continuation(m) \/ SendMessage(m) \/ Reply(m) PROVE TypeOK'
  BY <1>1, <1>2, <1>3, <1>5, <1>6, <1>8, <1>15 DEF Continuation, Reply
<1>16. CASE Event
  BY <1>7, <1>9, <1>10, <1>11, <1>12, <1>13, <1>15, <1>16 DEF Event
<1> QED  BY <1>14, <1>15, <1>16 DEF Next

(* The model's type invariant: the variables of the sessions, the runs,    *)
(* the calls and the gate keep their types, and no run counts more turns   *)
(* than the cap.                                                           *)
THEOREM AgentTypeCorrect == Spec => []TypeOK
<1>1. Init => TypeOK
  BY AgentAssumption
     DEF Init, TypeOK, SessionsTypeOK, RunsTypeOK, CallsTypeOK, Idle, Settled, Events,
         Gate!GateInit, Gate!GateTypeOK
<1> QED  BY <1>1, TypeStep, PTL DEF Spec

-----------------------------------------------------------------------------
(* Calls and turns a step leaves as they are.                              *)
LEMMA CallStays ==
  ASSUME NEW c \in Calls, CallOK(c), NotLoose(c),
         kind'[c] = kind[c], exec'[c] = exec[c], log'[c] = log[c],
         \/ promise'[c] = promise[c]
         \/ promise[c] = "waiting" /\ promise'[c] \in Gate!Decided,
         c \in ToSet(awaiting[runOf[c]]) => c \in ToSet(awaiting'[runOf[c]]),
         exec[c] \in Unfinished /\ c \in ToSet(emitted[runOf[c]])
           => c \in ToSet(emitted'[runOf[c]])
  PROVE  CallOK(c)' /\ NotLoose(c)'
<1>1. NotLoose(c)'
  BY DEF NotLoose
<1>2. promise'[c] = "waiting" => promise[c] = "waiting"
  BY DEF Gate!Decided
<1>3. Cleared(c) => Cleared(c)'
  BY DEF Cleared
<1>4. Asked(c) => Asked(c)'
  BY DEF Asked, Gate!Decided
<1>5. Ready(c) => Ready(c)'
  BY <1>3 DEF Ready
<1>6. exec[c] = "unissued" => promise'[c] = "none"
  BY DEF CallOK
<1> QED
  BY <1>1, <1>2, <1>3, <1>4, <1>5, <1>6 DEF CallOK

LEMMA TurnStays ==
  ASSUME NEW m \in Runs, TurnOK(m), emitted'[m] = emitted[m],
         awaiting'[m] = awaiting[m], buffer'[m] = buffer[m],
         \A c \in ToSet(emitted[m]) :
           /\ exec'[c] # "unissued"
           /\ exec'[c] = "denied" <=> exec[c] = "denied"
           /\ c \in ToSet(awaiting[m]) =>
                /\ exec'[c] = exec[c] /\ kind'[c] = kind[c] /\ log'[c] = log[c]
                /\ promise'[c] # "none"
  PROVE  TurnOK(m)'
<1>1. \A c \in ToSet(awaiting[m]) :
        c \in ToSet(emitted[m]) /\ exec'[c] = "prepared" /\ Asked(c)'
  BY DEF TurnOK, Asked
<1>2. {c \in ToSet(emitted[m]) : exec[c] = "denied"}
        = {c \in ToSet(emitted[m]) : exec'[c] = "denied"}
  OBVIOUS
<1> QED  BY <1>1, <1>2 DEF TurnOK

LEMMA PhaseStays ==
  ASSUME NEW m \in Runs, PhaseOK(m), pc'[m] = pc[m], said'[m] = said[m],
         emitted'[m] = emitted[m], awaiting'[m] = awaiting[m],
         \A c \in ToSet(emitted[m]) : exec'[c] = "prepared" => exec[c] = "prepared"
  PROVE  PhaseOK(m)'
  BY DEF PhaseOK

(* A step that issues, decides, logs and finishes nothing.                 *)
LEMMA QuietStep ==
  ASSUME TypeOK, CallInv, TurnInv, GateStep,
         UNCHANGED <<kind, exec, log, emitted, awaiting, buffer>>,
         \A m \in Runs : PhaseOK(m)'
  PROVE  CallInv' /\ TurnInv'
<1>1. ASSUME NEW c \in Calls PROVE CallOK(c)' /\ NotLoose(c)'
  BY CallStays DEF CallInv, GateStep
<1>2. ASSUME NEW m \in Runs PROVE TurnOK(m)'
  <2>1. ASSUME NEW c \in ToSet(awaiting[m]) PROVE promise'[c] # "none"
    <3>1. c \in Calls /\ promise[c] # "none"
      BY DEF TurnInv, TurnOK, Asked, TypeOK, RunsTypeOK, ToSet
    <3> QED  BY <3>1 DEF GateStep, Gate!Decided
  <2>2. TurnOK(m)
    BY DEF TurnInv
  <2>3. \A c \in ToSet(emitted[m]) : exec[c] # "unissued"
    BY <2>2 DEF TurnOK
  <2> QED  BY <2>1, <2>2, <2>3, TurnStays
<1> QED  BY <1>1, <1>2 DEF CallInv, TurnInv

LEMMA QuietActions ==
  ASSUME TypeOK, CallInv, TurnInv,
         \/ \E s \in Sessions : CreateSession(s) \/ TerminateSession(s)
         \/ \E m \in Runs : SendMessage(m) \/ Reply(m) \/ BatchThrows(m)
         \/ \E c \in Calls : ApprovalTimeout(c)
         \/ \E c \in Calls, approved \in BOOLEAN : ApproveToolCall(c, approved)
         \/ UNCHANGED vars
  PROVE  CallInv' /\ TurnInv'
<1>1. UNCHANGED <<promise>> => GateStep
  BY DEF GateStep
<1>2. UNCHANGED runVars => \A m \in Runs : pc'[m] = pc[m] /\ said'[m] = said[m]
                             /\ emitted'[m] = emitted[m] /\ awaiting'[m] = awaiting[m]
  BY DEF runVars
<1>3. UNCHANGED <<runVars, callVars>> => \A m \in Runs : PhaseOK(m)'
  <2> SUFFICES ASSUME UNCHANGED <<runVars, callVars>>, NEW m \in Runs PROVE PhaseOK(m)'
    OBVIOUS
  <2> QED  BY PhaseStays DEF runVars, callVars, TurnInv
<1>4. ASSUME GateStep, UNCHANGED <<runVars, callVars>> PROVE CallInv' /\ TurnInv'
  BY <1>3, <1>4, QuietStep DEF runVars, callVars
<1>5. ASSUME NEW s \in Sessions, CreateSession(s) \/ TerminateSession(s)
      PROVE  CallInv' /\ TurnInv'
  BY <1>1, <1>4, <1>5, GateMoves DEF CreateSession, TerminateSession, gateVars
<1>6. ASSUME NEW c \in Calls, NEW approved \in BOOLEAN,
             ApprovalTimeout(c) \/ ApproveToolCall(c, approved)
      PROVE  CallInv' /\ TurnInv'
  BY <1>4, <1>6, GateMoves DEF ApprovalTimeout, ApproveToolCall
<1>7. ASSUME NEW m \in Runs, NEW where, GoTo(m, where),
             where \notin {"streaming", "approving", "executing"},
             pc[m] \in {"idle", "checking", "loading"} \/ where = "failed",
             UNCHANGED <<turns, more, emitted, awaiting, buffer, said,
                         callVars, gateVars>>
      PROVE  CallInv' /\ TurnInv'
  <2>1. ASSUME NEW n \in Runs PROVE PhaseOK(n)'
    <3>1. pc'[n] = IF n = m THEN where ELSE pc[n]
      BY <1>7 DEF GoTo, TypeOK, RunsTypeOK
    <3> QED  BY <1>7, <3>1 DEF TurnInv, PhaseOK, callVars
  <2> QED  BY <1>1, <1>7, <2>1, QuietStep DEF callVars, gateVars
<1>8. ASSUME NEW m \in Runs, NEW history, BeginTurns(m, history),
             pc[m] \in {"checking", "loading"}
      PROVE  CallInv' /\ TurnInv'
  <2>1. ASSUME NEW n \in Runs PROVE PhaseOK(n)'
    <3>1. pc'[n] = IF n = m THEN "streaming" ELSE pc[n]
      BY <1>8 DEF BeginTurns, GoTo, TypeOK, RunsTypeOK
    <3> QED  BY <1>8, <3>1 DEF BeginTurns, TurnInv, PhaseOK, callVars
  <2> QED  BY <1>1, <1>8, <2>1, QuietStep DEF BeginTurns, callVars, gateVars
<1>9. ASSUME NEW m \in Runs, EndStream(m) PROVE CallInv' /\ TurnInv'
  <2>1. PICK hadText \in BOOLEAN :
          said' = [said EXCEPT ![m] = hadText \/ emitted[m] # <<>>]
    BY <1>9 DEF EndStream
  <2>2. ASSUME NEW n \in Runs PROVE PhaseOK(n)'
    <3>1. pc'[n] = IF n = m THEN "approving" ELSE pc[n]
      BY <1>9 DEF EndStream, GoTo, TypeOK, RunsTypeOK
    <3>2. n # m => said'[n] = said[n]
      BY <2>1 DEF TypeOK, RunsTypeOK
    <3>3. emitted[m] # <<>> => said'[m]
      BY <2>1 DEF TypeOK, RunsTypeOK
    <3> QED  BY <1>9, <3>1, <3>2, <3>3 DEF EndStream, TurnInv, PhaseOK, callVars
  <2> QED  BY <1>1, <1>9, <2>2, QuietStep DEF EndStream, callVars, gateVars
<1>10. ASSUME NEW m \in Runs, SendMessage(m) \/ BatchThrows(m) \/ StreamThrows(m)
       PROVE  CallInv' /\ TurnInv'
  BY <1>7, <1>10 DEF SendMessage, BatchThrows, StreamThrows
<1>11. ASSUME NEW m \in Runs, CheckRefused(m) \/ CheckPassed(m) \/ MemoryLoaded(m)
       PROVE  CallInv' /\ TurnInv'
  BY <1>7, <1>8, <1>11 DEF CheckRefused, CheckPassed, MemoryLoaded
<1>12. UNCHANGED vars => CallInv' /\ TurnInv'
  BY <1>1, <1>4 DEF vars, gateVars
<1> QED  BY <1>5, <1>6, <1>9, <1>10, <1>11, <1>12 DEF Reply

-----------------------------------------------------------------------------
(* A call is issued.                                                       *)
LEMMA EmitStep ==
  ASSUME TypeOK, TurnInv, CallInv, NEW m \in Runs, NEW c \in Calls, Emit(m, c)
  PROVE  /\ emitted'[m] = Append(emitted[m], c)
         /\ \A n \in Runs : n # m => emitted'[n] = emitted[n]
         /\ ToSet(emitted'[m]) = ToSet(emitted[m]) \cup {c} /\ NoDup(emitted'[m])
         /\ c \notin ToSet(emitted[m]) /\ c \notin ToSet(awaiting[m])
         /\ c \notin ToSet(buffer[m])
         /\ log[c] = <<>> /\ promise[c] = "none"
         /\ \A n \in Runs : c \notin ToSet(emitted[n])
<1>1. \A n \in Runs : c \notin ToSet(emitted[n])
  BY DEF Emit, TurnInv, TurnOK
<1>2. log[c] = <<>> /\ promise[c] = "none" /\ runOf[c] = m
  BY DEF Emit, CallInv, CallOK
<1>3. c \notin ToSet(awaiting[m]) /\ c \notin ToSet(buffer[m])
  BY <1>1 DEF TurnInv, TurnOK
<1>4. emitted'[m] = Append(emitted[m], c) /\ \A n \in Runs : n # m => emitted'[n] = emitted[n]
  BY DEF Emit, TypeOK, RunsTypeOK
<1>5. emitted[m] \in Seq(Calls) /\ NoDup(emitted[m])
  BY DEF TypeOK, RunsTypeOK, TurnInv, TurnOK
<1> QED  BY <1>1, <1>2, <1>3, <1>4, <1>5, AppendToSet

(* The other calls and turns of a step that issues, denies or clears c.    *)
LEMMA OneCallMoves ==
  ASSUME TypeOK, CallInv, TurnInv, NEW m \in Runs, NEW c \in Calls, runOf[c] = m,
         \A d \in Calls : d # c => kind'[d] = kind[d] /\ exec'[d] = exec[d]
                                     /\ log'[d] = log[d] /\ promise'[d] = promise[d],
         \A n \in Runs : n # m => emitted'[n] = emitted[n] /\ awaiting'[n] = awaiting[n]
                                    /\ buffer'[n] = buffer[n],
         ToSet(emitted[m]) \subseteq ToSet(emitted'[m]),
         ToSet(awaiting[m]) \subseteq ToSet(awaiting'[m]) \cup {c},
         \A n \in Runs : n # m => pc'[n] = pc[n] /\ said'[n] = said[n]
  PROVE  /\ \A d \in Calls : d # c => CallOK(d)' /\ NotLoose(d)'
         /\ \A n \in Runs : n # m => TurnOK(n)' /\ PhaseOK(n)'
<1>1. ASSUME NEW d \in Calls, d # c PROVE CallOK(d)' /\ NotLoose(d)'
  <2>1. runOf[d] \in Runs
    BY AgentAssumption
  <2>2. d \in ToSet(awaiting[runOf[d]]) => d \in ToSet(awaiting'[runOf[d]])
    BY <1>1, <2>1
  <2>3. d \in ToSet(emitted[runOf[d]]) => d \in ToSet(emitted'[runOf[d]])
    BY <1>1, <2>1
  <2> QED  BY <1>1, <2>2, <2>3, CallStays DEF CallInv
<1>2. ASSUME NEW n \in Runs, n # m PROVE TurnOK(n)' /\ PhaseOK(n)'
  <2>1. ASSUME NEW d \in ToSet(emitted[n])
        PROVE  /\ kind'[d] = kind[d] /\ exec'[d] = exec[d] /\ exec[d] # "unissued"
               /\ log'[d] = log[d] /\ promise'[d] = promise[d]
    <3>1. d \in Calls /\ runOf[d] = n /\ exec[d] # "unissued"
      BY DEF TurnInv, TurnOK, TypeOK, RunsTypeOK, ToSet
    <3> QED  BY <1>2, <3>1
  <2>2. \A d \in ToSet(awaiting[n]) : promise[d] # "none"
    BY DEF TurnInv, TurnOK, Asked
  <2>3. TurnOK(n) /\ PhaseOK(n)
    BY DEF TurnInv
  <2>4. TurnOK(n)'
    BY <1>2, <2>1, <2>2, <2>3, TurnStays
  <2>5. PhaseOK(n)'
    BY <1>2, <2>1, <2>3, PhaseStays
  <2> QED  BY <2>4, <2>5
<1> QED  BY <1>1, <1>2

LEMMA ToolCallStep ==
  ASSUME TypeOK, CallInv, TurnInv, NEW m \in Runs, NEW c \in Calls, ToolCall(m, c)
  PROVE  CallInv' /\ TurnInv'
<1>e. Emit(m, c)
  BY DEF ToolCall, DenyCall, AllowCall, AskApproval
<1>r. runOf[c] = m /\ pc[m] = "streaming" /\ exec[c] = "unissued"
      /\ UNCHANGED <<pc, said>>
  BY <1>e DEF Emit
<1>a. /\ awaiting[m] \in Seq(Calls) /\ NoDup(awaiting[m])
      /\ buffer[m] \in Seq(Calls) /\ NoDup(buffer[m])
  BY DEF TypeOK, RunsTypeOK, TurnInv, TurnOK
<1>p. ASSUME TurnOK(m)', CallOK(c)', NotLoose(c)',
             ToSet(awaiting[m]) \subseteq ToSet(awaiting'[m]),
             \A n \in Runs : n # m => awaiting'[n] = awaiting[n] /\ buffer'[n] = buffer[n],
             \A d \in Calls : d # c => kind'[d] = kind[d] /\ exec'[d] = exec[d]
                                     /\ log'[d] = log[d] /\ promise'[d] = promise[d]
      PROVE  CallInv' /\ TurnInv'
  <2>1. PhaseOK(m)'
    BY <1>r DEF PhaseOK
  <2>2. /\ \A d \in Calls : d # c => CallOK(d)' /\ NotLoose(d)'
        /\ \A n \in Runs : n # m => TurnOK(n)' /\ PhaseOK(n)'
    BY <1>e, <1>r, <1>p, EmitStep, OneCallMoves
  <2> QED  BY <1>p, <2>1, <2>2 DEF CallInv, TurnInv
<1>o. \A d \in ToSet(emitted[m]) : d # c /\ d \in Calls /\ runOf[d] = m /\ exec[d] # "unissued"
  BY <1>e, EmitStep DEF TurnInv, TurnOK, TypeOK, RunsTypeOK, ToSet
<1>u. /\ ToSet(emitted'[m]) = ToSet(emitted[m]) \cup {c} /\ NoDup(emitted'[m])
      /\ c \notin ToSet(emitted[m])
  BY <1>e, EmitStep
<1>t. /\ ToSet(buffer[m]) = {d \in ToSet(emitted[m]) : exec[d] = "denied"}
      /\ \A d \in ToSet(awaiting[m]) :
           d \in ToSet(emitted[m]) /\ exec[d] = "prepared" /\ Asked(d)
  BY DEF TurnInv, TurnOK
<1>v. \A d \in ToSet(emitted'[m]) : d = c \/ (d # c /\ d \in Calls /\ d \in ToSet(emitted[m]))
  BY <1>o, <1>u
<1>1. CASE DenyCall(m, c)
  <2>1. /\ exec' = [exec EXCEPT ![c] = "denied"] /\ kind' = [kind EXCEPT ![c] = "forbidden"]
        /\ log' = [log EXCEPT ![c] = <<"POLICY_DENIED">>]
        /\ buffer' = [buffer EXCEPT ![m] = Append(@, c)]
        /\ awaiting' = awaiting /\ promise' = promise
    BY <1>1 DEF DenyCall, gateVars
  <2>2. /\ exec'[c] = "denied" /\ kind'[c] = "forbidden" /\ log'[c] = <<"POLICY_DENIED">>
        /\ \A d \in Calls : d # c => kind'[d] = kind[d] /\ exec'[d] = exec[d]
                              /\ log'[d] = log[d] /\ promise'[d] = promise[d]
        /\ buffer'[m] = Append(buffer[m], c)
        /\ \A n \in Runs : n # m => awaiting'[n] = awaiting[n] /\ buffer'[n] = buffer[n]
    BY <2>1 DEF TypeOK, CallsTypeOK, RunsTypeOK
  <2>3. CallOK(c)' /\ NotLoose(c)'
    BY <1>e, <2>1, <2>2, EmitStep DEF CallOK, NotLoose, Unfinished, Settled
  <2>4. ToSet(buffer'[m]) = ToSet(buffer[m]) \cup {c} /\ NoDup(buffer'[m])
    BY <1>a, <1>e, <2>2, EmitStep, AppendToSet
  <2>5. ToSet(buffer'[m]) = {d \in ToSet(emitted'[m]) : exec'[d] = "denied"}
    BY <1>u, <1>v, <1>t, <2>2, <2>4
  <2>6. \A d \in ToSet(awaiting[m]) :
          d \in ToSet(emitted'[m]) /\ exec'[d] = "prepared" /\ Asked(d)'
    BY <1>o, <1>u, <1>t, <2>2 DEF Asked
  <2>7. TurnOK(m)'
    BY <1>a, <1>o, <1>r, <1>u, <1>v, <2>1, <2>2, <2>4, <2>5, <2>6 DEF TurnOK
  <2> QED  BY <1>p, <2>1, <2>2, <2>3, <2>7
<1>2. CASE AllowCall(m, c)
  <2>1. /\ exec' = [exec EXCEPT ![c] = "prepared"] /\ kind' = [kind EXCEPT ![c] = "free"]
        /\ log' = log /\ buffer' = buffer /\ awaiting' = awaiting /\ promise' = promise
    BY <1>2 DEF AllowCall, gateVars
  <2>2. /\ exec'[c] = "prepared" /\ kind'[c] = "free" /\ log'[c] = <<>>
        /\ \A d \in Calls : d # c => kind'[d] = kind[d] /\ exec'[d] = exec[d]
                              /\ log'[d] = log[d] /\ promise'[d] = promise[d]
    BY <1>e, <2>1, EmitStep DEF TypeOK, CallsTypeOK
  <2>3. CallOK(c)' /\ NotLoose(c)'
    BY <1>e, <1>r, <2>1, <2>2, EmitStep
       DEF CallOK, NotLoose, Settled, Ready, Cleared, Before
  <2>4. ToSet(buffer[m]) = {d \in ToSet(emitted'[m]) : exec'[d] = "denied"}
    BY <1>u, <1>v, <1>t, <2>2
  <2>5. \A d \in ToSet(awaiting[m]) :
          d \in ToSet(emitted'[m]) /\ exec'[d] = "prepared" /\ Asked(d)'
    BY <1>o, <1>u, <1>t, <2>2 DEF Asked
  <2>6. TurnOK(m)'
    BY <1>a, <1>o, <1>r, <1>u, <1>v, <2>1, <2>2, <2>4, <2>5 DEF TurnOK
  <2> QED  BY <1>p, <2>1, <2>2, <2>3, <2>6
<1>3. CASE AskApproval(m, c)
  <2>1. /\ exec' = [exec EXCEPT ![c] = "prepared"] /\ kind' = [kind EXCEPT ![c] = "gated"]
        /\ log' = [log EXCEPT ![c] = <<"APPROVAL_REQUESTED">>]
        /\ awaiting' = [awaiting EXCEPT ![m] = Append(@, c)] /\ buffer' = buffer
        /\ promise' = [promise EXCEPT ![c] = "waiting"]
    BY <1>3, GateRegisters DEF AskApproval
  <2>2. /\ exec'[c] = "prepared" /\ kind'[c] = "gated" /\ log'[c] = <<"APPROVAL_REQUESTED">>
        /\ promise'[c] = "waiting"
        /\ \A d \in Calls : d # c => kind'[d] = kind[d] /\ exec'[d] = exec[d]
                              /\ log'[d] = log[d] /\ promise'[d] = promise[d]
        /\ awaiting'[m] = Append(awaiting[m], c)
        /\ \A n \in Runs : n # m => awaiting'[n] = awaiting[n] /\ buffer'[n] = buffer[n]
    BY <2>1 DEF TypeOK, CallsTypeOK, RunsTypeOK, Gate!GateTypeOK
  <2>3. ToSet(awaiting'[m]) = ToSet(awaiting[m]) \cup {c} /\ NoDup(awaiting'[m])
    BY <1>a, <1>e, <2>2, EmitStep, AppendToSet
  <2>4. CallOK(c)' /\ NotLoose(c)'
    BY <1>e, <1>r, <2>2, <2>3, EmitStep DEF CallOK, NotLoose, Settled, Asked
  <2>5. ToSet(buffer[m]) = {d \in ToSet(emitted'[m]) : exec'[d] = "denied"}
    BY <1>u, <1>v, <1>t, <2>2
  <2>6. \A d \in ToSet(awaiting'[m]) :
          d \in ToSet(emitted'[m]) /\ exec'[d] = "prepared" /\ Asked(d)'
    BY <1>o, <1>u, <1>t, <2>2, <2>3 DEF Asked
  <2>7. TurnOK(m)'
    BY <1>a, <1>o, <1>r, <1>u, <1>v, <2>1, <2>2, <2>3, <2>5, <2>6 DEF TurnOK
  <2> QED  BY <1>p, <2>2, <2>3, <2>4, <2>7
<1> QED  BY <1>1, <1>2, <1>3 DEF ToolCall

-----------------------------------------------------------------------------
(* A call is decided, cleared, executed and shown.                         *)
LEMMA LogTexts ==
  /\ Append(<<"APPROVAL_REQUESTED">>, "APPROVAL_GRANTED")
       = <<"APPROVAL_REQUESTED", "APPROVAL_GRANTED">>
  /\ Append(<<"APPROVAL_REQUESTED">>, "APPROVAL_DENIED")
       = <<"APPROVAL_REQUESTED", "APPROVAL_DENIED">>
  /\ \A l \in Seq(Events) :
       Append(Append(l, "TOOL_CALL"), "TOOL_RESULT") = l \o <<"TOOL_CALL", "TOOL_RESULT">>
<1>1. ASSUME NEW l \in Seq(Events)
      PROVE  Append(Append(l, "TOOL_CALL"), "TOOL_RESULT")
               = l \o <<"TOOL_CALL", "TOOL_RESULT">>
  <2> DEFINE ends == <<"TOOL_CALL", "TOOL_RESULT">>
             a == Append(Append(l, "TOOL_CALL"), "TOOL_RESULT")
             b == l \o ends
  <2>1. /\ ends \in Seq(Events) /\ Len(ends) = 2
        /\ ends[1] = "TOOL_CALL" /\ ends[2] = "TOOL_RESULT"
    BY DEF Events
  <2>2. /\ a \in Seq(Events) /\ Len(a) = Len(l) + 2 /\ Len(l) \in Nat
        /\ \A i \in 1..Len(l) : a[i] = l[i]
        /\ a[Len(l) + 1] = "TOOL_CALL" /\ a[Len(l) + 2] = "TOOL_RESULT"
    BY DEF Events
  <2> HIDE DEF ends
  <2>3. /\ b \in Seq(Events) /\ Len(b) = Len(l) + 2
        /\ \A i \in 1..Len(l) : b[i] = l[i]
        /\ \A i \in 1..2 : b[i + Len(l)] = ends[i]
    BY <2>1, ConcatElements
  <2> HIDE DEF a, b
  <2>4. a = b
    BY <2>1, <2>2, <2>3
  <2> QED  BY <2>4 DEF a, b, ends
<1>2. ASSUME NEW d \in Events
      PROVE  Append(<<"APPROVAL_REQUESTED">>, d) = <<"APPROVAL_REQUESTED", d>>
  <2> DEFINE u == Append(<<"APPROVAL_REQUESTED">>, d)
  <2>1. u \in Seq(Events) /\ Len(u) = 2 /\ u[1] = "APPROVAL_REQUESTED" /\ u[2] = d
    BY DEF Events
  <2> HIDE DEF u
  <2>2. u = <<"APPROVAL_REQUESTED", d>>
    BY <2>1
  <2> QED  BY <2>2 DEF u
<1> QED  BY <1>1, <1>2 DEF Events

LEMMA ResolveStep ==
  ASSUME TypeOK, CallInv, TurnInv, NEW m \in Runs, ResolveApproval(m)
  PROVE  /\ CallInv' /\ TurnInv'
         /\ \A d \in Calls : exec[d] \in Over => exec'[d] = exec[d]
<1>0. awaiting[m] \in Seq(Calls) /\ awaiting[m] # <<>> /\ NoDup(awaiting[m])
  BY DEF ResolveApproval, TypeOK, RunsTypeOK, TurnInv, TurnOK
<1>c. PICK c \in Calls : c = Head(awaiting[m])
  BY <1>0, TailToSet
<1>g. PICK granted \in BOOLEAN : granted = (promise[c] = "granted")
  OBVIOUS
<1>1. pc[m] = "approving" /\ promise[c] \in Gate!Decided
  BY <1>c DEF ResolveApproval
<1>2. /\ ToSet(awaiting[m]) = ToSet(Tail(awaiting[m])) \cup {c}
      /\ c \notin ToSet(Tail(awaiting[m])) /\ NoDup(Tail(awaiting[m]))
  BY <1>0, <1>c, TailToSet
<1>3. /\ awaiting' = [awaiting EXCEPT ![m] = Tail(@)]
      /\ log' = [log EXCEPT ![c] = Append(@, IF granted THEN "APPROVAL_GRANTED"
                                                        ELSE "APPROVAL_DENIED")]
      /\ IF granted THEN UNCHANGED <<exec, buffer>>
                    ELSE /\ exec' = [exec EXCEPT ![c] = "denied"]
                         /\ buffer' = [buffer EXCEPT ![m] = Append(@, c)]
      /\ UNCHANGED <<pc, said, emitted, kind, promise>>
  BY <1>c, <1>g DEF ResolveApproval, gateVars
<1>4. /\ ToSet(buffer[m]) = {d \in ToSet(emitted[m]) : exec[d] = "denied"}
      /\ \A d \in ToSet(awaiting[m]) :
           d \in ToSet(emitted[m]) /\ exec[d] = "prepared" /\ Asked(d)
      /\ buffer[m] \in Seq(Calls) /\ NoDup(buffer[m]) /\ NoDup(emitted[m])
      /\ \A d \in ToSet(emitted[m]) : runOf[d] = m /\ exec[d] # "unissued"
  BY DEF TurnInv, TurnOK, TypeOK, RunsTypeOK
<1>d. \A d \in ToSet(emitted[m]) : d \in Calls
  BY DEF TypeOK, RunsTypeOK, ToSet
<1>5. c \in ToSet(emitted[m]) /\ exec[c] = "prepared" /\ Asked(c) /\ runOf[c] = m
  BY <1>2, <1>4
<1>6. /\ awaiting'[m] = Tail(awaiting[m])
      /\ \A n \in Runs : n # m => awaiting'[n] = awaiting[n] /\ buffer'[n] = buffer[n]
  BY <1>3 DEF TypeOK, RunsTypeOK
<1>7. /\ log'[c] = Append(log[c], IF granted THEN "APPROVAL_GRANTED" ELSE "APPROVAL_DENIED")
      /\ exec'[c] = IF granted THEN "prepared" ELSE "denied"
      /\ buffer'[m] = IF granted THEN buffer[m] ELSE Append(buffer[m], c)
      /\ \A d \in Calls : d # c => kind'[d] = kind[d] /\ exec'[d] = exec[d]
                                     /\ log'[d] = log[d] /\ promise'[d] = promise[d]
  <2>1. \A d \in Calls : log'[d] = IF d = c THEN Append(log[c],
                            IF granted THEN "APPROVAL_GRANTED" ELSE "APPROVAL_DENIED")
                                            ELSE log[d]
    BY <1>3 DEF TypeOK, CallsTypeOK
  <2>2. \A d \in Calls : exec'[d] = IF d = c /\ ~granted THEN "denied" ELSE exec[d]
    BY <1>3 DEF TypeOK, CallsTypeOK
  <2>3. buffer'[m] = IF granted THEN buffer[m] ELSE Append(buffer[m], c)
    BY <1>3 DEF TypeOK, RunsTypeOK
  <2> QED  BY <1>3, <1>5, <2>1, <2>2, <2>3
<1>8. CallOK(c)' /\ NotLoose(c)'
  <2>1. kind'[c] = "gated" /\ log[c] = <<"APPROVAL_REQUESTED">>
    BY <1>3, <1>5 DEF Asked
  <2>2. NotLoose(c)' /\ promise'[c] # "waiting"
    BY <1>1, <1>3, <1>5, <1>7 DEF NotLoose, Gate!Decided
  <2>3. CASE granted
    <3>1. exec'[c] = "prepared" /\ log'[c] = <<"APPROVAL_REQUESTED", "APPROVAL_GRANTED">>
      BY <1>7, <2>1, <2>3, LogTexts
    <3>2. Ready(c)'
      BY <1>3, <1>g, <2>1, <2>3, <3>1 DEF Ready, Cleared, Before
    <3> QED  BY <2>2, <3>1, <3>2 DEF CallOK, Settled
  <2>4. CASE ~granted
    <3>1. exec'[c] = "denied" /\ log'[c] = <<"APPROVAL_REQUESTED", "APPROVAL_DENIED">>
      BY <1>7, <2>1, <2>4, LogTexts
    <3> QED  BY <2>1, <2>2, <3>1 DEF CallOK, Settled
  <2> QED  BY <2>3, <2>4
<1>9. TurnOK(m)'
  <2>1. /\ ToSet(buffer'[m]) = ToSet(buffer[m]) \cup (IF granted THEN {} ELSE {c})
        /\ NoDup(buffer'[m])
    BY <1>4, <1>5, <1>7, AppendToSet
  <2>2. ToSet(buffer'[m]) = {d \in ToSet(emitted[m]) : exec'[d] = "denied"}
    BY <1>4, <1>5, <1>7, <1>d, <2>1
  <2>3. \A d \in ToSet(awaiting'[m]) :
          d \in ToSet(emitted[m]) /\ exec'[d] = "prepared" /\ Asked(d)'
    BY <1>2, <1>4, <1>6, <1>7, <1>c, <1>d DEF Asked
  <2>4. \A d \in ToSet(emitted[m]) : runOf[d] = m /\ exec'[d] # "unissued"
    BY <1>4, <1>7, <1>d
  <2> QED  BY <1>2, <1>3, <1>4, <1>6, <2>1, <2>2, <2>3, <2>4 DEF TurnOK
<1>10. PhaseOK(m)'
  BY <1>1, <1>3 DEF TurnInv, PhaseOK
<1>11. /\ \A d \in Calls : d # c => CallOK(d)' /\ NotLoose(d)'
       /\ \A n \in Runs : n # m => TurnOK(n)' /\ PhaseOK(n)'
  BY <1>2, <1>3, <1>5, <1>6, <1>7, OneCallMoves
<1>12. \A d \in Calls : exec[d] \in Over => exec'[d] = exec[d]
  BY <1>5, <1>7 DEF Over
<1> QED  BY <1>8, <1>9, <1>10, <1>11, <1>12 DEF CallInv, TurnInv

LEMMA StartBatchStep ==
  ASSUME TypeOK, CallInv, TurnInv, NEW m \in Runs, StartBatch(m)
  PROVE  /\ CallInv' /\ TurnInv'
         /\ \A d \in Calls : exec[d] \in Over => exec'[d] = exec[d]
<1>1. /\ pc[m] = "approving" /\ awaiting[m] = <<>> /\ GoTo(m, "executing")
      /\ exec' = [d \in Calls |-> IF d \in InTurn(m) /\ exec[d] = "prepared"
                                  THEN "queued" ELSE exec[d]]
      /\ UNCHANGED <<emitted, awaiting, buffer, said, kind, log, promise>>
  BY DEF StartBatch, gateVars
<1>2. /\ \A d \in ToSet(emitted[m]) : d \in Calls /\ runOf[d] = m /\ exec[d] # "unissued"
      /\ \A n \in Runs : \A d \in ToSet(emitted[n]) :
           d \in Calls /\ runOf[d] = n /\ exec[d] # "unissued"
  BY DEF TurnInv, TurnOK, TypeOK, RunsTypeOK, ToSet
<1>3. ASSUME NEW d \in Calls, d \in InTurn(m), exec[d] = "prepared"
      PROVE  CallOK(d)' /\ NotLoose(d)'
  <2>1. d \in ToSet(emitted[m]) /\ runOf[d] = m /\ exec'[d] = "queued"
    BY <1>1, <1>2, <1>3 DEF InTurn
  <2>2. d \notin ToSet(awaiting[m])
    BY <1>1, EmptyToSet
  <2>3. Ready(d) /\ promise[d] # "waiting"
    BY <1>3, <2>1, <2>2 DEF CallInv, CallOK
  <2>4. Ready(d)'
    BY <1>1, <2>3 DEF Ready, Cleared
  <2> QED  BY <1>1, <2>1, <2>3, <2>4 DEF CallOK, NotLoose, Settled
<1>4. ASSUME NEW d \in Calls, ~(d \in InTurn(m) /\ exec[d] = "prepared")
      PROVE  CallOK(d)' /\ NotLoose(d)'
  <2>1. exec'[d] = exec[d] /\ CallOK(d) /\ NotLoose(d)
    BY <1>1, <1>4 DEF CallInv
  <2> QED  BY <1>1, <2>1, CallStays
<1>5. ASSUME NEW n \in Runs PROVE TurnOK(n)'
  <2>1. \A d \in ToSet(emitted[n]) :
          /\ exec'[d] # "unissued"
          /\ exec'[d] = "denied" <=> exec[d] = "denied"
          /\ n # m => exec'[d] = exec[d]
    BY <1>1, <1>2 DEF InTurn
  <2>2. \A d \in ToSet(awaiting[n]) : n # m /\ promise[d] # "none"
    BY <1>1, EmptyToSet DEF TurnInv, TurnOK, Asked
  <2>3. TurnOK(n)
    BY DEF TurnInv
  <2> QED  BY <1>1, <2>1, <2>2, <2>3, TurnStays
<1>6. ASSUME NEW n \in Runs PROVE PhaseOK(n)'
  <2>1. pc'[n] = IF n = m THEN "executing" ELSE pc[n]
    BY <1>1 DEF GoTo, TypeOK, RunsTypeOK
  <2>2. \A d \in ToSet(emitted[n]) : exec'[d] = "prepared" => exec[d] = "prepared" /\ n # m
    BY <1>1, <1>2 DEF InTurn
  <2> QED  BY <1>1, <2>1, <2>2 DEF TurnInv, PhaseOK
<1>7. \A d \in Calls : exec[d] \in Over => exec'[d] = exec[d]
  BY <1>1 DEF Over
<1> QED  BY <1>3, <1>4, <1>5, <1>6, <1>7 DEF CallInv, TurnInv

LEMMA ToolStep ==
  ASSUME TypeOK, CallInv, TurnInv, NEW c \in Calls,
         BlockUrl(c) \/ StartTool(c) \/ FinishTool(c)
  PROVE  /\ CallInv' /\ TurnInv'
         /\ \A d \in Calls : exec[d] \in Over => exec'[d] = exec[d]
<1>1. /\ UNCHANGED <<pc, emitted, awaiting, buffer, said, kind, promise>>
      /\ exec[c] \in {"queued", "running"}
      /\ \A d \in Calls : d # c => kind'[d] = kind[d] /\ exec'[d] = exec[d]
                                     /\ log'[d] = log[d] /\ promise'[d] = promise[d]
      /\ exec'[c] \in {"running"} \cup Settled
  BY DEF BlockUrl, StartTool, FinishTool, runVars, gateVars, TypeOK, CallsTypeOK, Settled
<1>2. runOf[c] \in Runs /\ CallOK(c) /\ NotLoose(c)
  BY AgentAssumption DEF CallInv
<1>3. c \in ToSet(emitted[runOf[c]])
  BY <1>1, <1>2 DEF NotLoose, Unfinished
<1>4. CallOK(c)' /\ NotLoose(c)'
  <2>1. NotLoose(c)'
    BY <1>1, <1>3 DEF NotLoose
  <2>2. Cleared(c) => Cleared(c)'
    BY <1>1 DEF Cleared
  <2>3. promise'[c] = "waiting" => c \in ToSet(awaiting'[runOf[c]])
    BY <1>1, <1>2 DEF CallOK
  <2>4. CASE BlockUrl(c)
    <3>1. exec[c] = "queued" /\ exec'[c] = "blocked"
          /\ log'[c] = log[c] \o <<"POLICY_DENIED", "TOOL_RESULT">>
      BY <2>4 DEF BlockUrl, TypeOK, CallsTypeOK
    <3>2. Cleared(c) /\ log[c] = Before(kind[c])
      BY <1>2, <3>1 DEF CallOK, Ready
    <3> QED  BY <1>1, <2>1, <2>2, <2>3, <3>1, <3>2 DEF CallOK, Settled
  <2>5. CASE StartTool(c)
    <3>1. exec[c] = "queued" /\ exec'[c] = "running" /\ log'[c] = Append(log[c], "TOOL_CALL")
      BY <2>5 DEF StartTool, TypeOK, CallsTypeOK
    <3>2. Cleared(c) /\ log[c] = Before(kind[c])
      BY <1>2, <3>1 DEF CallOK, Ready
    <3> QED  BY <1>1, <2>1, <2>2, <2>3, <3>1, <3>2 DEF CallOK, Settled
  <2>6. CASE FinishTool(c)
    <3>1. exec[c] = "running" /\ exec'[c] \in {"done", "threw"}
          /\ log'[c] = Append(log[c], "TOOL_RESULT")
      BY <2>6 DEF FinishTool, TypeOK, CallsTypeOK
    <3>2. Cleared(c) /\ log[c] = Append(Before(kind[c]), "TOOL_CALL")
      BY <1>2, <3>1 DEF CallOK
    <3>3. Before(kind[c]) \in Seq(Events)
      <4>1. /\ <<"APPROVAL_REQUESTED", "APPROVAL_GRANTED">> \in Seq(Events)
            /\ <<>> \in Seq(Events)
        BY DEF Events
      <4> QED  BY <4>1 DEF Before
    <3>4. log'[c] = Before(kind[c]) \o <<"TOOL_CALL", "TOOL_RESULT">>
      BY <3>1, <3>2, <3>3, LogTexts
    <3> QED  BY <1>1, <2>1, <2>2, <2>3, <3>1, <3>2, <3>4 DEF CallOK, Settled
  <2> QED  BY <2>4, <2>5, <2>6
<1>5. ASSUME NEW d \in Calls, d # c PROVE CallOK(d)' /\ NotLoose(d)'
  <2>1. CallOK(d) /\ NotLoose(d)
    BY DEF CallInv
  <2> QED  BY <1>1, <1>5, <2>1, CallStays
<1>6. ASSUME NEW n \in Runs PROVE TurnOK(n)' /\ PhaseOK(n)'
  <2>1. TurnOK(n) /\ PhaseOK(n) /\ \A d \in ToSet(emitted[n]) : d \in Calls
    BY DEF TurnInv, TypeOK, RunsTypeOK, ToSet
  <2>2. c \notin ToSet(awaiting[n])
    BY <1>1, <2>1 DEF TurnOK
  <2>3. \A d \in ToSet(emitted[n]) :
          /\ exec'[d] # "unissued"
          /\ exec'[d] = "denied" <=> exec[d] = "denied"
          /\ exec'[d] = "prepared" => exec[d] = "prepared"
    BY <1>1, <2>1 DEF TurnOK, Settled
  <2>4. \A d \in ToSet(awaiting[n]) :
          /\ exec'[d] = exec[d] /\ kind'[d] = kind[d] /\ log'[d] = log[d]
          /\ promise'[d] # "none"
    BY <1>1, <2>1, <2>2 DEF TurnOK, Asked
  <2>5. TurnOK(n)'
    BY <1>1, <2>1, <2>3, <2>4, TurnStays
  <2>6. PhaseOK(n)'
    BY <1>1, <2>1, <2>3, PhaseStays
  <2> QED  BY <2>5, <2>6
<1>7. \A d \in Calls : exec[d] \in Over => exec'[d] = exec[d]
  BY <1>1 DEF Over
<1> QED  BY <1>4, <1>5, <1>6, <1>7 DEF CallInv, TurnInv

LEMMA FinishTurnStep ==
  ASSUME TypeOK, CallInv, TurnInv, NEW m \in Runs, FinishTurn(m)
  PROVE  CallInv' /\ TurnInv'
<1>1. /\ pc[m] = "executing" /\ \A d \in Batch(m) : exec[d] \in {"done", "blocked"}
      /\ emitted' = [emitted EXCEPT ![m] = <<>>] /\ buffer' = [buffer EXCEPT ![m] = <<>>]
      /\ said' = [said EXCEPT ![m] = FALSE]
      /\ GoTo(m, "streaming") \/ GoTo(m, "ended")
      /\ UNCHANGED <<awaiting, kind, exec, log, promise>>
  BY DEF FinishTurn, callVars, gateVars
<1>2. /\ emitted'[m] = <<>> /\ buffer'[m] = <<>> /\ awaiting[m] = <<>>
      /\ pc'[m] \in {"streaming", "ended"}
      /\ \A n \in Runs : n # m => /\ emitted'[n] = emitted[n] /\ buffer'[n] = buffer[n]
                                  /\ said'[n] = said[n] /\ pc'[n] = pc[n]
  BY <1>1 DEF TypeOK, RunsTypeOK, GoTo, TurnInv, PhaseOK
<1>3. ASSUME NEW d \in Calls PROVE CallOK(d)' /\ NotLoose(d)'
  <2>1. runOf[d] \in Runs /\ CallOK(d) /\ NotLoose(d)
    BY AgentAssumption DEF CallInv
  <2>2. d \in ToSet(emitted[m]) => exec[d] \notin Unfinished
    BY <1>1 DEF TurnInv, PhaseOK, Batch, InTurn, Unfinished
  <2>3. exec[d] \in Unfinished /\ d \in ToSet(emitted[runOf[d]])
          => d \in ToSet(emitted'[runOf[d]])
    BY <1>2, <2>1, <2>2
  <2> QED  BY <1>1, <2>1, <2>3, CallStays
<1>4. TurnOK(m)' /\ PhaseOK(m)'
  BY <1>1, <1>2, EmptyToSet DEF TurnOK, PhaseOK
<1>5. ASSUME NEW n \in Runs, n # m PROVE TurnOK(n)' /\ PhaseOK(n)'
  <2>1. TurnOK(n) /\ PhaseOK(n)
    BY DEF TurnInv
  <2>2. \A d \in ToSet(emitted[n]) : exec[d] # "unissued"
    BY <2>1 DEF TurnOK
  <2>3. \A d \in ToSet(awaiting[n]) : promise[d] # "none"
    BY <2>1 DEF TurnOK, Asked
  <2>4. TurnOK(n)'
    BY <1>1, <1>2, <1>5, <2>1, <2>2, <2>3, TurnStays
  <2>5. PhaseOK(n)'
    BY <1>1, <1>2, <1>5, <2>1, PhaseStays
  <2> QED  BY <2>4, <2>5
<1> QED  BY <1>3, <1>4, <1>5 DEF CallInv, TurnInv

-----------------------------------------------------------------------------
(* Picked is a filter: the places it picks are all there, once each.       *)
LEMMA NthPlace ==
  ASSUME NEW places \in SUBSET Nat, NEW n \in Nat, places \subseteq 1..n
  PROVE  /\ IsFiniteSet(places) /\ Cardinality(places) \in Nat
         /\ \A k \in 1..Cardinality(places) : Nth(places, k) \in places
         /\ \A i \in places : \E k \in 1..Cardinality(places) : Nth(places, k) = i
<1> DEFINE upto(i) == {j \in places : j <= i}
           rank == [i \in places |-> Cardinality(upto(i))]
           size == Cardinality(places)
<1>1. IsFiniteSet(places) /\ size \in Nat
  BY FS_BoundedSetOfNaturals, FS_CardinalityType
<1>2. \A i \in places : IsFiniteSet(upto(i)) /\ Cardinality(upto(i)) \in 0..size
  BY <1>1, FS_Subset, FS_CardinalityType
<1>3. \A i \in places : Cardinality(upto(i)) # 0
  <2>1. \A i \in places : i \in upto(i)
    OBVIOUS
  <2> HIDE DEF upto
  <2> QED  BY <1>2, <2>1, FS_EmptySet
<1>4. ASSUME NEW i \in places, NEW j \in places, i < j
      PROVE  Cardinality(upto(i)) < Cardinality(upto(j))
  <2>1. \A k \in upto(i) : k \in upto(j)
    <3> SUFFICES ASSUME NEW k \in places, k <= i PROVE k <= j
      OBVIOUS
    <3> QED  BY <1>4
  <2>2. j \in upto(j) /\ j \notin upto(i)
    BY <1>4
  <2> HIDE DEF upto
  <2>3. upto(i) \in SUBSET upto(j) /\ upto(i) # upto(j)
    BY <2>1, <2>2
  <2>4. /\ Cardinality(upto(i)) <= Cardinality(upto(j))
        /\ Cardinality(upto(j)) = Cardinality(upto(i)) => upto(j) = upto(i)
    BY <1>2, <2>3, FS_Subset
  <2> QED  BY <1>2, <2>3, <2>4
<1> HIDE DEF upto
<1>5. \A i, j \in places : Cardinality(upto(i)) = Cardinality(upto(j)) => i = j
  BY <1>2, <1>4
<1>6. rank \in Injection(places, 1..size)
  <2>1. rank \in [places -> 1..size]
    BY <1>1, <1>2, <1>3
  <2>2. \A i, j \in places : rank[i] = rank[j] => i = j
    BY <1>5
  <2> QED  BY <2>1, <2>2 DEF Injection, IsInjective
<1>7. rank \in Surjection(places, 1..size)
  BY <1>1, <1>6, FS_Injection, FS_Interval
<1>8. ASSUME NEW k \in 1..size
      PROVE  Nth(places, k) \in places /\ Cardinality(upto(Nth(places, k))) = k
  <2>1. \E i \in places : Cardinality(upto(i)) = k
    BY <1>7 DEF Surjection
  <2> QED  BY <2>1 DEF Nth, upto
<1>9. ASSUME NEW i \in places PROVE \E k \in 1..size : Nth(places, k) = i
  <2>1. Cardinality(upto(i)) \in 1..size
    BY <1>1, <1>2, <1>3
  <2> QED  BY <1>5, <1>8, <2>1
<1> QED  BY <1>1, <1>8, <1>9

LEMMA PickedElements ==
  ASSUME NEW T, NEW seq \in Seq(T), NEW S
  PROVE  /\ Picked(seq, S) \in Seq(T)
         /\ Len(Picked(seq, S)) = Cardinality({i \in DOMAIN seq : seq[i] \in S})
         /\ ToSet(Picked(seq, S)) = ToSet(seq) \cap S
<1> DEFINE places == {i \in DOMAIN seq : seq[i] \in S}
           size == Cardinality(places)
<1>1. places \in SUBSET Nat /\ Len(seq) \in Nat /\ places \subseteq 1..Len(seq)
  OBVIOUS
<1>2. /\ size \in Nat /\ \A k \in 1..size : Nth(places, k) \in places
      /\ \A i \in places : \E k \in 1..size : Nth(places, k) = i
  BY <1>1, NthPlace
<1>3. \A i \in places : seq[i] \in T /\ seq[i] \in S /\ i \in DOMAIN seq
  OBVIOUS
<1>4. Picked(seq, S) = [k \in 1..size |-> seq[Nth(places, k)]]
  BY DEF Picked
<1>5. \A x \in ToSet(seq) \cap S : \E i \in places : seq[i] = x
  BY DEF ToSet
<1> HIDE DEF places, size
<1>6. Picked(seq, S) \in Seq(T) /\ Len(Picked(seq, S)) = size
      /\ DOMAIN Picked(seq, S) = 1..size
  BY <1>2, <1>3, <1>4
<1>7. ToSet(Picked(seq, S)) \subseteq ToSet(seq) \cap S
  BY <1>2, <1>3, <1>4, <1>6 DEF ToSet
<1>8. ToSet(seq) \cap S \subseteq ToSet(Picked(seq, S))
  <2> SUFFICES ASSUME NEW x \in ToSet(seq) \cap S PROVE x \in ToSet(Picked(seq, S))
    OBVIOUS
  <2>1. PICK i \in places : seq[i] = x
    BY <1>5
  <2>2. PICK k \in 1..size : Nth(places, k) = i
    BY <1>2
  <2> QED  BY <1>4, <1>6, <2>1, <2>2 DEF ToSet
<1> QED  BY <1>6, <1>7, <1>8 DEF places, size

(* Without duplicates a set of elements has as many places as members.     *)
LEMMA PlacesCount ==
  ASSUME NEW T, NEW seq \in Seq(T), NoDup(seq), NEW S, S \subseteq ToSet(seq)
  PROVE  Cardinality(S) = Cardinality({i \in DOMAIN seq : seq[i] \in S})
<1> DEFINE places == {i \in DOMAIN seq : seq[i] \in S}
           f == [i \in places |-> seq[i]]
<1>1. IsFiniteSet(places)
  <2>1. places \in SUBSET Nat /\ Len(seq) \in Nat /\ \A i \in places : i <= Len(seq)
    OBVIOUS
  <2> HIDE DEF places
  <2> QED  BY <2>1, FS_BoundedSetOfNaturals
<1>2. f \in [places -> S]
  OBVIOUS
<1>3. \A x \in S : \E i \in places : f[i] = x
  BY DEF ToSet
<1>4. \A i, j \in places : f[i] = f[j] => i = j
  BY DEF NoDup
<1> HIDE DEF f, places
<1>5. f \in Bijection(places, S)
  BY <1>2, <1>3, <1>4 DEF Bijection, Injection, Surjection, IsInjective
<1>6. ExistsBijection(places, S)
  BY <1>5 DEF ExistsBijection
<1> QED  BY <1>1, <1>6, FS_Bijection DEF places

-----------------------------------------------------------------------------
(* Conversations.                                                          *)
LEMMA EntryTypes ==
  ASSUME NEW e \in Entries
  PROVE  /\ e.role = "assistant" => e.calls \in Seq(Calls)
         /\ e.role = "tool" => e.call \in Calls
  BY DEF Entries, Prior, User, Assistant, Tool

LEMMA PairedConcat ==
  ASSUME NEW g \in Seq(Entries), NEW h \in Seq(Entries), Paired(g), Paired(h)
  PROVE  Paired(g \o h)
<1> DEFINE u == g \o h
           n == Len(g)
<1>1. /\ u \in Seq(Entries) /\ Len(u) = n + Len(h) /\ n \in Nat /\ Len(h) \in Nat
      /\ DOMAIN u = 1..(n + Len(h)) /\ DOMAIN g = 1..n /\ DOMAIN h = 1..Len(h)
      /\ \A i \in DOMAIN g : u[i] = g[i]
      /\ \A i \in DOMAIN h : i + n \in DOMAIN u /\ u[i + n] = h[i]
      /\ \A i \in DOMAIN u : i \in DOMAIN g \/ i - n \in DOMAIN h
  BY ConcatElements
<1> HIDE DEF u, n
<1>2. ASSUME NEW i \in DOMAIN u, u[i].role = "assistant"
      PROVE  /\ i + Len(u[i].calls) <= Len(u)
             /\ ResultsOf(u, i) = {Tool(c) : c \in ToSet(u[i].calls)}
  <2>1. CASE i \in DOMAIN g
    <3>1. u[i] = g[i] /\ i + Len(g[i].calls) <= n /\ Len(g[i].calls) \in Nat
          /\ ResultsOf(g, i) = {Tool(c) : c \in ToSet(g[i].calls)}
      BY <1>1, <1>2, <2>1, EntryTypes DEF Paired, n
    <3>2. \A j \in (i + 1)..(i + Len(g[i].calls)) : u[j] = g[j]
      BY <1>1, <2>1, <3>1
    <3>3. ResultsOf(u, i) = ResultsOf(g, i)
      BY <3>1, <3>2 DEF ResultsOf
    <3> QED  BY <1>1, <2>1, <3>1, <3>3
  <2>2. CASE i - n \in DOMAIN h
    <3>0. PICK k \in DOMAIN h : i = k + n
      BY <1>1, <2>2
    <3>1. u[i] = h[k] /\ k + Len(h[k].calls) <= Len(h) /\ Len(h[k].calls) \in Nat
          /\ ResultsOf(h, k) = {Tool(c) : c \in ToSet(h[k].calls)}
      BY <1>1, <1>2, <3>0, EntryTypes DEF Paired
    <3>2. PICK q \in Nat : q = Len(h[k].calls)
      BY <3>1
    <3>3. ResultsOf(u, i) = ResultsOf(h, k)
      <4>0. k \in Nat /\ 1 <= k /\ k + q <= Len(h)
        BY <1>1, <3>0, <3>1, <3>2
      <4>1. ASSUME NEW j \in (k + 1)..(k + q)
            PROVE  u[j + n] = h[j] /\ j + n \in (i + 1)..(i + q)
        <5>1. j \in DOMAIN h
          BY <1>1, <4>0
        <5> QED  BY <1>1, <3>0, <4>0, <5>1
      <4>2. ASSUME NEW j \in (i + 1)..(i + q)
            PROVE  \E l \in (k + 1)..(k + q) : u[j] = h[l]
        <5>1. j - n \in (k + 1)..(k + q) /\ j = (j - n) + n
          BY <1>1, <3>0, <4>0
        <5> QED  BY <4>1, <5>1
      <4>3. {u[j] : j \in (i + 1)..(i + q)} \subseteq {h[j] : j \in (k + 1)..(k + q)}
        BY <4>2
      <4>4. {h[j] : j \in (k + 1)..(k + q)} \subseteq {u[j] : j \in (i + 1)..(i + q)}
        BY <4>1
      <4>5. {u[j] : j \in (i + 1)..(i + q)} = {h[j] : j \in (k + 1)..(k + q)}
        BY <4>3, <4>4
      <4> QED  BY <3>1, <3>2, <4>5 DEF ResultsOf
    <3> QED  BY <1>1, <3>0, <3>1, <3>3
  <2> QED  BY <1>1, <2>1, <2>2
<1>3. ASSUME NEW j \in DOMAIN u, u[j].role = "tool"
      PROVE  \E i \in 1..(j - 1) : /\ u[i].role = "assistant"
                                   /\ j <= i + Len(u[i].calls)
  <2>1. CASE j \in DOMAIN g
    <3>1. PICK i \in 1..(j - 1) : g[i].role = "assistant" /\ j <= i + Len(g[i].calls)
      BY <1>1, <1>3, <2>1 DEF Paired
    <3>2. u[i] = g[i]
      <4>1. i \in DOMAIN g
        BY <2>1, <3>1
      <4> QED  BY <1>1, <4>1
    <3> QED  BY <3>1, <3>2
  <2>2. CASE j - n \in DOMAIN h
    <3> DEFINE k == j - n
    <3>0. j = k + n /\ k \in DOMAIN h /\ k \in Nat /\ h[k].role = "tool"
      BY <1>1, <1>3, <2>2
    <3> HIDE DEF k
    <3>1. PICK i \in 1..(k - 1) : h[i].role = "assistant" /\ k <= i + Len(h[i].calls)
      BY <3>0 DEF Paired
    <3>2. i \in DOMAIN h /\ u[i + n] = h[i]
      <4>1. i \in DOMAIN h
        BY <1>1, <3>0, <3>1
      <4> QED  BY <1>1, <4>1
    <3>4. Len(h[i].calls) \in Nat
      BY <1>1, <3>1, <3>2, EntryTypes
    <3>3. i + n \in 1..(j - 1) /\ j <= i + n + Len(h[i].calls)
      BY <1>1, <3>0, <3>1, <3>2, <3>4
    <3> QED  BY <3>1, <3>2, <3>3
  <2> QED  BY <1>1, <2>1, <2>2
<1> QED  BY <1>2, <1>3 DEF Paired, u

(* One entry that is neither an assistant message nor a result.            *)
LEMMA PairedAppend ==
  ASSUME NEW h \in Seq(Entries), Paired(h), NEW e \in Entries,
         e.role \notin {"assistant", "tool"}
  PROVE  Append(h, e) \in Seq(Entries) /\ Paired(Append(h, e))
<1> DEFINE a == Append(h, e)
<1>1. <<e>> \in Seq(Entries) /\ a = h \o <<e>> /\ a \in Seq(Entries)
  OBVIOUS
<1>2. Paired(<<e>>)
  <2>1. DOMAIN <<e>> = {1} /\ <<e>>[1] = e
    OBVIOUS
  <2> QED  BY <2>1 DEF Paired
<1>3. Paired(h \o <<e>>)
  BY <1>1, <1>2, PairedConcat
<1> HIDE DEF a
<1> QED  BY <1>1, <1>3 DEF a

(* What a finished turn writes.                                            *)
LEMMA BlockPaired ==
  ASSUME TypeOK, TurnInv, NEW m \in Runs, pc[m] = "executing",
         \A c \in Batch(m) : exec[c] \in {"done", "blocked"}
  PROVE  /\ Block(m) \in Seq(Entries) /\ Paired(Block(m))
         /\ \A j \in DOMAIN Block(m) : Block(m)[j].role = "tool" =>
              exec[Block(m)[j].call] \in Over
<1> DEFINE calls == emitted[m]
           executed == Picked(calls, Batch(m))
           results == buffer[m] \o executed
           shown == [i \in DOMAIN results |-> Tool(results[i])]
           denied == {c \in ToSet(calls) : exec[c] = "denied"}
<1>1. /\ calls \in Seq(Calls) /\ NoDup(calls) /\ buffer[m] \in Seq(Calls) /\ NoDup(buffer[m])
      /\ ToSet(buffer[m]) = denied
      /\ \A c \in ToSet(calls) : exec[c] # "prepared"
      /\ said[m] \/ calls = <<>>
      /\ said[m] \in BOOLEAN
  BY DEF TypeOK, RunsTypeOK, TurnInv, TurnOK, PhaseOK
<1>2. \A c \in ToSet(calls) : c \in Calls /\ (c \in Batch(m) <=> exec[c] # "denied")
  BY <1>1 DEF Batch, InTurn, ToSet
<1>3. /\ executed \in Seq(Calls)
      /\ Len(executed) = Cardinality({i \in DOMAIN calls : calls[i] \in Batch(m)})
      /\ ToSet(executed) = ToSet(calls) \cap Batch(m)
  <2>1. calls \in Seq(Calls)
    BY <1>1
  <2> HIDE DEF calls
  <2> QED  BY <2>1, PickedElements
<1> HIDE DEF executed
<1>4. Len(results) = Len(calls)
  <2> DEFINE D == {i \in DOMAIN calls : calls[i] \in denied}
             B == {i \in DOMAIN calls : calls[i] \in Batch(m)}
  <2>1. Cardinality(denied) = Cardinality(D)
    BY <1>1, PlacesCount
  <2>2. Cardinality(denied) = Len(buffer[m])
    <3>1. DOMAIN buffer[m] = 1..Len(buffer[m]) /\ Len(buffer[m]) \in Nat
          /\ {i \in DOMAIN buffer[m] : buffer[m][i] \in ToSet(buffer[m])} = DOMAIN buffer[m]
      BY <1>1 DEF ToSet
    <3>2. Cardinality(ToSet(buffer[m])) = Cardinality(1..Len(buffer[m]))
      BY <1>1, <3>1, PlacesCount
    <3>3. Cardinality(1..Len(buffer[m])) = Len(buffer[m])
      BY <3>1, FS_Interval
    <3> QED  BY <1>1, <3>2, <3>3
  <2>3. D \cup B = DOMAIN calls /\ D \cap B = {} /\ D \in SUBSET (DOMAIN calls)
        /\ B \in SUBSET (DOMAIN calls)
    <3>1. \A i \in DOMAIN calls : calls[i] \in ToSet(calls)
      BY DEF ToSet
    <3> QED  BY <1>2, <3>1
  <2>4. DOMAIN calls = 1..Len(calls) /\ Len(calls) \in Nat
    BY <1>1
  <2> HIDE DEF D, B
  <2>5. IsFiniteSet(DOMAIN calls) /\ Cardinality(DOMAIN calls) = Len(calls)
    BY <2>4, FS_Interval
  <2>6. IsFiniteSet(D) /\ IsFiniteSet(B) /\ Cardinality(D) \in Nat /\ Cardinality(B) \in Nat
    BY <2>3, <2>5, FS_Subset, FS_CardinalityType
  <2>7. Cardinality(DOMAIN calls) = Cardinality(D) + Cardinality(B)
    <3>1. Cardinality(D \cup B) = Cardinality(D) + Cardinality(B) - Cardinality(D \cap B)
      BY <2>6, FS_Union
    <3>2. Cardinality(D \cap B) = 0
      BY <2>3, FS_EmptySet
    <3>3. Cardinality(D \cup B) = Cardinality(DOMAIN calls)
      BY <2>3, Zenon
    <3> QED  BY <2>6, <3>1, <3>2, <3>3
  <2>8. Len(results) = Len(buffer[m]) + Len(executed)
    BY <1>1, <1>3
  <2> QED  BY <1>3, <2>1, <2>2, <2>5, <2>7, <2>8 DEF B
<1>5. results \in Seq(Calls) /\ ToSet(results) = ToSet(calls)
  <2>1. ToSet(results) = ToSet(buffer[m]) \cup ToSet(executed) /\ results \in Seq(Calls)
    BY <1>1, <1>3, ConcatToSet
  <2> QED  BY <1>1, <1>2, <1>3, <2>1
<1>6. Block(m) = (IF said[m] THEN <<Assistant(calls)>> ELSE <<>>) \o shown
  BY DEF Block, executed
<1> HIDE DEF results
<1>7. /\ shown \in Seq(Entries) /\ Len(shown) = Len(calls) /\ DOMAIN shown = 1..Len(calls)
      /\ Len(calls) \in Nat /\ DOMAIN results = 1..Len(calls)
      /\ \A i \in 1..Len(calls) : shown[i] = Tool(results[i]) /\ results[i] \in ToSet(calls)
  <2>1. DOMAIN results = 1..Len(calls) /\ Len(calls) \in Nat
    BY <1>1, <1>4, <1>5
  <2>2. \A i \in DOMAIN results : Tool(results[i]) \in Entries /\ results[i] \in ToSet(results)
    BY <1>5 DEF Entries, ToSet
  <2>3. shown \in Seq(Entries) /\ Len(shown) = Len(calls)
    BY <2>1, <2>2
  <2> QED  BY <1>5, <2>1, <2>2, <2>3
<1> HIDE DEF shown
<1>8. CASE ~said[m]
  <2>1. calls = <<>> /\ shown = <<>>
    BY <1>1, <1>7, <1>8
  <2>2. Block(m) = <<>>
    BY <1>6, <1>8, <2>1
  <2> QED  BY <2>2 DEF Paired
<1>9. CASE said[m]
  <2> DEFINE b == <<Assistant(calls)>> \o shown
  <2>1. <<Assistant(calls)>> \in Seq(Entries) /\ Len(<<Assistant(calls)>>) = 1
        /\ <<Assistant(calls)>>[1] = Assistant(calls)
    BY <1>1 DEF Entries
  <2>2. /\ b \in Seq(Entries) /\ Len(b) = Len(calls) + 1 /\ DOMAIN b = 1..(Len(calls) + 1)
        /\ b[1] = Assistant(calls)
        /\ \A i \in 1..Len(calls) : b[i + 1] = Tool(results[i])
        /\ \A i \in DOMAIN b : i = 1 \/ (i - 1 \in 1..Len(calls) /\ b[i] = Tool(results[i - 1]))
    BY <1>7, <2>1, ConcatElements
  <2>3. Block(m) = b
    BY <1>6, <1>9
  <2> HIDE DEF b
  <2>4. b[1].role = "assistant" /\ b[1].calls = calls
    BY <2>2 DEF Assistant
  <2>5. ASSUME NEW i \in DOMAIN b, i # 1
        PROVE  b[i].role = "tool" /\ b[i].call = results[i - 1]
    <3>1. b[i] = Tool(results[i - 1])
      BY <2>2, <2>5
    <3> QED  BY <3>1 DEF Tool
  <2>6. ResultsOf(b, 1) = {Tool(c) : c \in ToSet(calls)}
    <3>1. ResultsOf(b, 1) = {b[j] : j \in 2..(Len(calls) + 1)}
      BY <1>7, <2>4 DEF ResultsOf
    <3>2. \A c \in ToSet(calls) : \E i \in 1..Len(calls) : results[i] = c
      BY <1>5, <1>7 DEF ToSet
    <3>3. \A j \in 2..(Len(calls) + 1) : j - 1 \in 1..Len(calls) /\ b[j] = Tool(results[j - 1])
      BY <1>7, <2>2
    <3>4. \A i \in 1..Len(calls) : i + 1 \in 2..(Len(calls) + 1)
      BY <1>7
    <3>5. {b[j] : j \in 2..(Len(calls) + 1)} \subseteq {Tool(c) : c \in ToSet(calls)}
      BY <1>7, <3>3
    <3>6. ASSUME NEW c \in ToSet(calls)
          PROVE  Tool(c) \in {b[j] : j \in 2..(Len(calls) + 1)}
      <4>1. PICK i \in 1..Len(calls) : results[i] = c
        BY <3>2
      <4>2. b[i + 1] = Tool(c)
        BY <2>2, <4>1
      <4> QED  BY <3>4, <4>2
    <3> QED  BY <3>1, <3>5, <3>6
  <2>7. Paired(b)
    <3>1. ASSUME NEW j \in DOMAIN b, b[j].role = "tool"
          PROVE  \E i \in 1..(j - 1) : b[i].role = "assistant" /\ j <= i + Len(b[i].calls)
      <4>1. j # 1 /\ 1 \in 1..(j - 1) /\ j <= 1 + Len(calls)
        BY <1>7, <2>2, <2>4, <3>1
      <4> QED  BY <2>4, <4>1
    <3>2. ASSUME NEW i \in DOMAIN b, b[i].role = "assistant"
          PROVE  /\ i + Len(b[i].calls) <= Len(b)
                 /\ ResultsOf(b, i) = {Tool(c) : c \in ToSet(b[i].calls)}
      <4>1. i = 1
        BY <2>5, <3>2
      <4> QED  BY <1>7, <2>2, <2>4, <2>6, <4>1
    <3> QED  BY <3>1, <3>2 DEF Paired
  <2>8. \A j \in DOMAIN b : b[j].role = "tool" => b[j].call \in ToSet(calls)
    BY <1>7, <2>2, <2>4, <2>5
  <2>9. \A c \in ToSet(calls) : exec[c] \in Over
    BY <1>2 DEF Over
  <2> QED  BY <2>2, <2>3, <2>7, <2>8, <2>9
<1> QED  BY <1>1, <1>8, <1>9

-----------------------------------------------------------------------------
(* The invariant.                                                          *)
OverStay == \A c \in Calls : exec[c] \in Over => exec'[c] = exec[c]

LEMMA BooksStep ==
  ASSUME TypeOK, CallInv, TurnInv, [Next]_vars
  PROVE  CallInv' /\ TurnInv' /\ OverStay
<1>0. UNCHANGED exec => OverStay
  BY DEF OverStay
<1>1. ASSUME NEW m \in Runs, Continuation(m) PROVE CallInv' /\ TurnInv' /\ OverStay
  <2>1. CASE ResolveApproval(m)
    BY <2>1, ResolveStep DEF OverStay
  <2>2. CASE StartBatch(m)
    BY <2>2, StartBatchStep DEF OverStay
  <2>3. CASE BatchThrows(m)
    BY <1>0, <2>3, QuietActions DEF BatchThrows, callVars
  <2>4. CASE FinishTurn(m)
    BY <1>0, <2>4, FinishTurnStep DEF FinishTurn, callVars
  <2> QED  BY <1>1, <2>1, <2>2, <2>3, <2>4 DEF Continuation
<1>2. ASSUME NEW m \in Runs, SendMessage(m) \/ Reply(m)
      PROVE  CallInv' /\ TurnInv' /\ OverStay
  <2>1. UNCHANGED exec
    BY <1>2 DEF SendMessage, Reply, CheckRefused, CheckPassed, MemoryLoaded, EndStream,
                StreamThrows, BeginTurns, callVars
  <2> QED  BY <1>0, <1>2, <2>1, QuietActions
<1>3. ASSUME NEW s \in Sessions, CreateSession(s) \/ TerminateSession(s)
      PROVE  CallInv' /\ TurnInv' /\ OverStay
  BY <1>0, <1>3, QuietActions DEF CreateSession, TerminateSession, callVars
<1>4. ASSUME NEW m \in Runs, NEW c \in Calls, ToolCall(m, c)
      PROVE  CallInv' /\ TurnInv' /\ OverStay
  <2>1. /\ exec[c] = "unissued"
        /\ \A d \in Calls : d # c => exec'[d] = exec[d]
    BY <1>4 DEF ToolCall, DenyCall, AllowCall, AskApproval, Emit, TypeOK, CallsTypeOK
  <2>2. OverStay
    BY <2>1 DEF OverStay, Over
  <2> QED  BY <1>4, <2>2, ToolCallStep
<1>5. ASSUME NEW c \in Calls, NEW approved \in BOOLEAN,
             ApproveToolCall(c, approved) \/ ApprovalTimeout(c)
      PROVE  CallInv' /\ TurnInv' /\ OverStay
  BY <1>0, <1>5, QuietActions DEF ApproveToolCall, ApprovalTimeout, callVars
<1>6. ASSUME NEW c \in Calls, BlockUrl(c) \/ StartTool(c) \/ FinishTool(c)
      PROVE  CallInv' /\ TurnInv' /\ OverStay
  BY <1>6, ToolStep DEF OverStay
<1>7. CASE UNCHANGED vars
  BY <1>0, <1>7, QuietActions DEF vars, callVars
<1>8. CASE Event
  BY <1>2, <1>3, <1>4, <1>5, <1>6, <1>8 DEF Event
<1> QED  BY <1>1, <1>7, <1>8 DEF Next

(* One conversation grows by a well-formed piece.                          *)
LEMMA ConversationGrows ==
  ASSUME Written, ResultsAreOver, ConversationPaired, OverStay,
         NEW s \in Sessions, NEW block \in Seq(Entries), Paired(block),
         \A j \in DOMAIN block : block[j].role = "tool" => exec[block[j].call] \in Over,
         messages' = [messages EXCEPT ![s] = @ \o block]
  PROVE  Written' /\ ResultsAreOver' /\ ConversationPaired'
<1>1. /\ messages[s] \in Seq(Entries) /\ Paired(messages[s])
      /\ messages'[s] = messages[s] \o block
      /\ \A t \in Sessions : t # s => messages'[t] = messages[t]
      /\ \A t \in Sessions : messages[t] \in Seq(Entries)
  BY DEF Written, ConversationPaired
<1>2. messages'[s] \in Seq(Entries) /\ Paired(messages'[s])
  BY <1>1, PairedConcat, ConcatElements
<1>3. Written'
  BY <1>1, <1>2 DEF Written
<1>4. ConversationPaired'
  BY <1>1, <1>2 DEF ConversationPaired
<1>5. ASSUME NEW e \in Entries, e.role = "tool", exec[e.call] \in Over
      PROVE  exec'[e.call] \in Over
  BY <1>5, EntryTypes DEF OverStay
<1>6. ASSUME NEW t \in Sessions, NEW j \in DOMAIN messages'[t],
             messages'[t][j].role = "tool"
      PROVE  exec'[messages'[t][j].call] \in Over
  <2>1. messages'[t][j] \in Entries
    BY <1>1, <1>2
  <2>2. exec[messages'[t][j].call] \in Over
    <3>1. CASE t # s
      BY <1>1, <1>6, <3>1 DEF ResultsAreOver
    <3>2. CASE t = s
      <4>1. \/ j \in DOMAIN messages[s] /\ messages'[s][j] = messages[s][j]
            \/ j - Len(messages[s]) \in DOMAIN block
               /\ messages'[s][j] = block[j - Len(messages[s])]
        BY <1>1, <1>6, <3>2, ConcatElements
      <4> QED  BY <1>6, <3>2, <4>1 DEF ResultsAreOver
    <3> QED  BY <3>1, <3>2
  <2> QED  BY <1>5, <1>6, <2>1, <2>2
<1>7. ResultsAreOver'
  BY <1>6 DEF ResultsAreOver
<1> QED  BY <1>3, <1>4, <1>7

LEMMA HistoryStep ==
  ASSUME AgentInv, [Next]_vars, OverStay
  PROVE  Written' /\ ResultsAreOver' /\ ConversationPaired'
<1> USE DEF AgentInv
<1>1. ASSUME UNCHANGED messages PROVE Written' /\ ResultsAreOver' /\ ConversationPaired'
  <2>1. \A s \in Sessions : \A j \in DOMAIN messages[s] : messages[s][j] \in Entries
    BY DEF Written
  <2>2. ResultsAreOver'
    BY <1>1, <2>1, EntryTypes DEF ResultsAreOver, OverStay
  <2> QED  BY <1>1, <2>2 DEF Written, ConversationPaired
<1>2. ASSUME NEW m \in Runs, NEW prior \in {<<>>, <<Prior>>},
             BeginTurns(m, messages[Session(m)] \o prior)
      PROVE  Written' /\ ResultsAreOver' /\ ConversationPaired'
  <2>1. Session(m) \in Sessions /\ messages[Session(m)] \in Seq(Entries)
    BY AgentAssumption DEF Session, Written
  <2>2. prior \in Seq(Entries) /\ Prior \in Entries /\ User(m) \in Entries
    <3>1. Prior \in Entries /\ User(m) \in Entries
      BY DEF Entries
    <3>2. <<>> \in Seq(Entries) /\ <<Prior>> \in Seq(Entries)
      BY <3>1
    <3> QED  BY <3>1, <3>2
  <2>3. Prior.role = "prior" /\ User(m).role = "user"
    BY DEF Prior, User
  <2>4. Paired(prior)
    <3>1. Paired(<<>>)
      BY DEF Paired
    <3>2. Append(<<>>, Prior) = <<Prior>> /\ <<>> \in Seq(Entries)
      OBVIOUS
    <3> QED  BY <2>2, <2>3, <3>1, <3>2, PairedAppend
  <2> DEFINE block == Append(prior, User(m))
  <2>5. block \in Seq(Entries) /\ Paired(block)
    BY <2>2, <2>3, <2>4, PairedAppend
  <2>6. \A j \in DOMAIN block : block[j].role # "tool"
    BY <2>2, <2>3
  <2>7. Append(messages[Session(m)] \o prior, User(m)) = messages[Session(m)] \o block
    BY <2>1, <2>2, EntryAppend, Zenon
  <2>8. messages' = [messages EXCEPT ![Session(m)] = messages[Session(m)] \o block]
    BY <1>2, <2>7 DEF BeginTurns
  <2> HIDE DEF block
  <2> QED  BY <2>1, <2>5, <2>6, <2>8, ConversationGrows
<1>3. ASSUME NEW m \in Runs, FinishTurn(m)
      PROVE  Written' /\ ResultsAreOver' /\ ConversationPaired'
  <2>1. Session(m) \in Sessions
    BY AgentAssumption DEF Session
  <2>2. /\ Block(m) \in Seq(Entries) /\ Paired(Block(m))
        /\ \A j \in DOMAIN Block(m) : Block(m)[j].role = "tool" =>
              exec[Block(m)[j].call] \in Over
    BY <1>3, BlockPaired DEF FinishTurn
  <2>3. messages' = [messages EXCEPT ![Session(m)] = @ \o Block(m)]
    BY <1>3 DEF FinishTurn
  <2> QED  BY <2>1, <2>2, <2>3, ConversationGrows
<1>4. ASSUME NEW m \in Runs, CheckPassed(m), messages[Session(m)] # <<>>
      PROVE  Written' /\ ResultsAreOver' /\ ConversationPaired'
  <2>1. Session(m) \in Sessions /\ messages[Session(m)] \in Seq(Entries)
    BY AgentAssumption DEF Session, Written
  <2>2. messages[Session(m)] = messages[Session(m)] \o <<>>
    BY <2>1
  <2>3. BeginTurns(m, messages[Session(m)] \o <<>>)
    BY <1>4, <2>2 DEF CheckPassed
  <2> QED  BY <1>2, <2>3
<1>5. ASSUME NEW m \in Runs, Continuation(m) \/ SendMessage(m) \/ Reply(m)
      PROVE  Written' /\ ResultsAreOver' /\ ConversationPaired'
  <2>1. CASE ResolveApproval(m) \/ StartBatch(m) \/ BatchThrows(m) \/ SendMessage(m)
    BY <1>1, <2>1 DEF ResolveApproval, StartBatch, BatchThrows, SendMessage, sessionVars
  <2>2. CASE CheckRefused(m) \/ EndStream(m) \/ StreamThrows(m)
    BY <1>1, <2>2 DEF CheckRefused, EndStream, StreamThrows, sessionVars
  <2>3. CASE CheckPassed(m)
    BY <1>1, <1>4, <2>3 DEF CheckPassed, sessionVars
  <2>4. CASE MemoryLoaded(m)
    BY <1>2, <2>4 DEF MemoryLoaded
  <2> QED  BY <1>3, <1>5, <2>1, <2>2, <2>3, <2>4 DEF Continuation, Reply
<1>6. ASSUME NEW m \in Runs, NEW c \in Calls, ToolCall(m, c) PROVE UNCHANGED messages
  BY <1>6 DEF ToolCall, DenyCall, AllowCall, AskApproval, Emit
<1>7. ASSUME NEW s \in Sessions, CreateSession(s) \/ TerminateSession(s)
      PROVE  UNCHANGED messages
  BY <1>7 DEF CreateSession, TerminateSession
<1>8. ASSUME NEW c \in Calls, NEW approved \in BOOLEAN,
             \/ ApproveToolCall(c, approved) \/ ApprovalTimeout(c)
             \/ BlockUrl(c) \/ StartTool(c) \/ FinishTool(c)
      PROVE  UNCHANGED messages
  BY <1>8 DEF ApproveToolCall, ApprovalTimeout, BlockUrl, StartTool, FinishTool, sessionVars
<1>9. CASE UNCHANGED vars
  BY <1>1, <1>9 DEF vars, sessionVars
<1>10. CASE Event
  BY <1>1, <1>5, <1>6, <1>7, <1>8, <1>10 DEF Event
<1> QED  BY <1>5, <1>9, <1>10 DEF Next

(* The books of the agent loop balance: what a call did, what the log      *)
(* holds of it, where its run is and what the conversation shows agree     *)
(* after any steps of any runs, sessions and users.                        *)
THEOREM AgentInvariant == Spec => []AgentInv
<1>1. Init => AgentInv
  <2> SUFFICES ASSUME Init PROVE AgentInv
    OBVIOUS
  <2>1. TypeOK
    BY AgentAssumption
       DEF Init, TypeOK, SessionsTypeOK, RunsTypeOK, CallsTypeOK, Idle, Settled, Events,
           Gate!GateInit, Gate!GateTypeOK
  <2>2. CallInv
    BY DEF Init, CallInv, CallOK, NotLoose, Unfinished, Settled, Gate!GateInit
  <2>3. TurnInv
    BY EmptyToSet DEF Init, TurnInv, TurnOK, PhaseOK, Idle
  <2>4. Written /\ ResultsAreOver /\ ConversationPaired
    BY DEF Init, Written, ResultsAreOver, ConversationPaired, Paired
  <2> QED  BY <2>1, <2>2, <2>3, <2>4 DEF AgentInv
<1>2. AgentInv /\ [Next]_vars => AgentInv'
  BY TypeStep, BooksStep, HistoryStep DEF AgentInv
<1> QED  BY <1>1, <1>2, PTL DEF Spec

(* No gated tool is started or refused by the URL check without its grant, *)
(* logged first.                                                           *)
THEOREM GatedToolsGranted == Spec => []GatedNeedsGrant
<1>1. AgentInv => GatedNeedsGrant
  <2> SUFFICES ASSUME AgentInv, NEW c \in Calls, kind[c] = "gated",
                      exec[c] \in {"queued", "running"} \cup Settled
               PROVE  /\ promise[c] = "granted"
                      /\ Len(log[c]) >= 2 /\ log[c][2] = "APPROVAL_GRANTED"
    BY DEF GatedNeedsGrant
  <2>1. promise[c] = "granted"
    BY DEF AgentInv, CallInv, CallOK, Ready, Cleared
  <2>2. Before("gated") \in Seq(Events) /\ Len(Before("gated")) = 2
        /\ Before("gated")[2] = "APPROVAL_GRANTED"
    BY DEF Before, Events
  <2>3. \/ log[c] = Before("gated") \/ log[c] = Append(Before("gated"), "TOOL_CALL")
        \/ log[c] = Before("gated") \o <<"TOOL_CALL", "TOOL_RESULT">>
        \/ log[c] = Before("gated") \o <<"POLICY_DENIED", "TOOL_RESULT">>
    BY DEF AgentInv, CallInv, CallOK, Ready
  <2>4. /\ <<"TOOL_CALL", "TOOL_RESULT">> \in Seq(Events)
        /\ <<"POLICY_DENIED", "TOOL_RESULT">> \in Seq(Events)
    BY DEF Events
  <2> DEFINE GrantSecond(l) == Len(l) >= 2 /\ l[2] = "APPROVAL_GRANTED"
  <2>5. ASSUME NEW b \in Seq(Events), Len(b) = 2, b[2] = "APPROVAL_GRANTED",
               NEW t \in Seq(Events)
        PROVE  GrantSecond(b) /\ GrantSecond(b \o t) /\ GrantSecond(Append(b, "TOOL_CALL"))
    <3>1. GrantSecond(b \o t)
      BY <2>5, ConcatElements
    <3>2. GrantSecond(Append(b, "TOOL_CALL"))
      <4>1. "TOOL_CALL" \in Events /\ 2 \in 1..Len(b)
        BY <2>5 DEF Events
      <4> DEFINE u == Append(b, "TOOL_CALL")
      <4>2. Len(u) = Len(b) + 1 /\ \A i \in 1..Len(b) : u[i] = b[i]
        BY <4>1
      <4> HIDE DEF u
      <4>3. Len(u) >= 2 /\ u[2] = b[2]
        BY <2>5, <4>1, <4>2
      <4> QED  BY <2>5, <4>3 DEF u
    <3> QED  BY <2>5, <3>1, <3>2
  <2> HIDE DEF GrantSecond
  <2>6. GrantSecond(log[c])
    BY <2>2, <2>3, <2>4, <2>5, Zenon
  <2> QED  BY <2>1, <2>6 DEF GrantSecond
<1> QED  BY <1>1, AgentInvariant, PTL

(* Every assistant message is followed at once by one result per call, and *)
(* no result stands anywhere else.                                         *)
THEOREM ConversationsPaired == Spec => []ConversationPaired
<1>1. AgentInv => ConversationPaired
  BY DEF AgentInv
<1> QED  BY <1>1, AgentInvariant, PTL

(* Whatever result the model is shown, its trail is in the audit log.      *)
THEOREM ConversationsAudited == Spec => []ConversationAudited
<1>1. AgentInv => ConversationAudited
  <2> SUFFICES ASSUME AgentInv, NEW s \in Sessions, NEW j \in DOMAIN messages[s],
                      messages[s][j].role = "tool"
               PROVE  log[messages[s][j].call] \in Trails(kind[messages[s][j].call])
    BY DEF ConversationAudited
  <2>1. PICK c \in Calls : c = messages[s][j].call
    BY EntryTypes DEF AgentInv, Written
  <2>2. exec[c] \in Over /\ CallOK(c)
    BY <2>1 DEF AgentInv, ResultsAreOver, CallInv
  <2>3. CASE exec[c] = "denied"
    BY <2>1, <2>2, <2>3 DEF CallOK, Trails
  <2>4. CASE exec[c] # "denied"
    <3>1. /\ Cleared(c)
          /\ log[c] \in {Before(kind[c]) \o <<"TOOL_CALL", "TOOL_RESULT">>,
                         Before(kind[c]) \o <<"POLICY_DENIED", "TOOL_RESULT">>}
      BY <2>2, <2>4 DEF CallOK, Over, Settled
    <3>2. CASE kind[c] = "gated"
      BY <2>1, <3>1, <3>2 DEF Before, Trails
    <3>3. CASE kind[c] = "free"
      <4>1. <<>> \o <<"TOOL_CALL", "TOOL_RESULT">> = <<"TOOL_CALL", "TOOL_RESULT">>
            /\ <<>> \o <<"POLICY_DENIED", "TOOL_RESULT">> = <<"POLICY_DENIED", "TOOL_RESULT">>
        OBVIOUS
      <4> QED  BY <2>1, <3>1, <3>3, <4>1 DEF Before, Trails
    <3> QED  BY <3>1, <3>2, <3>3 DEF Cleared
  <2> QED  BY <2>3, <2>4
<1> QED  BY <1>1, AgentInvariant, PTL

(* A run that ended leaves no approval to answer and no tool running.      *)
THEOREM EndedRunsLeaveNothing == Spec => []EndedRunLeavesNothing
<1>1. AgentInv => EndedRunLeavesNothing
  <2> SUFFICES ASSUME AgentInv, NEW c \in Calls, pc[runOf[c]] = "ended"
               PROVE  promise[c] # "waiting" /\ exec[c] \notin Unfinished
    BY DEF EndedRunLeavesNothing, Unfinished
  <2>1. runOf[c] \in Runs
    BY AgentAssumption
  <2>2. ToSet(emitted[runOf[c]]) = {}
    BY <2>1, EmptyToSet DEF AgentInv, TurnInv, PhaseOK
  <2>3. ToSet(awaiting[runOf[c]]) = {}
    BY <2>1, <2>2 DEF AgentInv, TurnInv, TurnOK
  <2> QED  BY <2>2, <2>3 DEF AgentInv, CallInv, CallOK, NotLoose
<1> QED  BY <1>1, AgentInvariant, PTL

(* Whatever the loop does to its gate is a step the gate may take by       *)
(* itself, so what is proved of the gate alone holds of the gate in here.  *)
THEOREM LoopDrivesGate == Spec => Gate!GateSafetySpec
<1>1. Init => Gate!GateInit
  BY DEF Init
<1>2. [Next]_vars => [Gate!GateNext]_(Gate!gateVars)
  <2> SUFFICES ASSUME [Next]_vars PROVE Gate!GateNext \/ UNCHANGED gateVars
    BY DEF gateVars, Gate!gateVars
  <2>1. ASSUME NEW m \in Runs, Continuation(m) \/ SendMessage(m) \/ Reply(m)
        PROVE  UNCHANGED gateVars
    BY <2>1
       DEF Continuation, SendMessage, Reply, GoTo, BeginTurns, CheckRefused, CheckPassed,
           MemoryLoaded, EndStream, StreamThrows, ResolveApproval, StartBatch, BatchThrows,
           FinishTurn
  <2>2. ASSUME NEW m \in Runs, NEW c \in Calls, ToolCall(m, c)
        PROVE  Gate!WaitForApproval(c) \/ UNCHANGED gateVars
    BY <2>2 DEF ToolCall, DenyCall, AllowCall, AskApproval
  <2>3. ASSUME NEW s \in Sessions, CreateSession(s) \/ TerminateSession(s)
        PROVE  Gate!CancelSession(s) \/ UNCHANGED gateVars
    BY <2>3 DEF CreateSession, TerminateSession
  <2>4. ASSUME NEW c \in Calls, NEW approved \in BOOLEAN, ApproveToolCall(c, approved)
        PROVE  Gate!Respond(c, approved) \/ UNCHANGED gateVars
    BY <2>4 DEF ApproveToolCall
  <2>5. ASSUME NEW c \in Calls,
               ApprovalTimeout(c) \/ BlockUrl(c) \/ StartTool(c) \/ FinishTool(c)
        PROVE  Gate!Timeout(c) \/ UNCHANGED gateVars
    BY <2>5 DEF ApprovalTimeout, BlockUrl, StartTool, FinishTool
  <2>6. CASE UNCHANGED vars
    BY <2>6 DEF vars
  <2>7. CASE Event
    BY <2>7, <2>1, <2>2, <2>3, <2>4, <2>5 DEF Event, Gate!GateNext
  <2> QED  BY <2>1, <2>6, <2>7 DEF Next
<1> QED  BY <1>1, <1>2, PTL DEF Spec, Gate!GateSafetySpec
=============================================================================
