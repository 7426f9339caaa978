---------------------------- MODULE ReplyStream ----------------------------
(***************************************************************************)
(* How a channel adapter shows a reply while it streams: text is buffered, *)
(* posted as a message and then edited in at least 500 ms apart, by API    *)
(* calls that several handlers of server messages await at once.  The      *)
(* state of the turn (buffer, message id, time of the last edit) is reset  *)
(* by the handler of "complete" after its own calls were answered.         *)
(***************************************************************************)
EXTENDS Naturals, Sequences, SequencesExt, FiniteSets

CONSTANTS Turns,             \* 1..n: the turns of the session
          MaxChunks,         \* bound: chunks of one turn
          MaxMessages        \* bound: messages posted

VARIABLES
  style,       \* "telegram", or "slack": a tool starts a new message
  turn,        \* the turn the server streams, 0 before the first
  replying,   \* it is under way
  chunks,      \* how many chunks of each turn arrived
  buffer,      \* session.buffer, by turn: how many of its chunks it holds
  ts,          \* session.ts (replyMsgId), 0 when unset
  recent,      \* the last edit is less than 500 ms ago
  calls,       \* API calls not yet answered, in the order they were made
  screen,      \* the text of each message posted, in order
  shown,       \* turns whose "complete" handler has ended
  disturbed    \* history: a call failed or was overtaken, the turn ended in
               \* an error, or the next began before "complete" was done

streamVars == <<style, turn, replying, chunks, buffer, ts, recent, calls,
                screen, shown, disturbed>>

Empty == [t \in Turns |-> 0]
Note == Empty                        \* a message without reply text

StreamInit == /\ style \in {"telegram", "slack"}
        /\ turn = 0 /\ replying = FALSE
        /\ chunks = Empty /\ buffer = Empty
        /\ ts = 0 /\ recent = FALSE
        /\ calls = <<>> /\ screen = <<>>
        /\ shown = {} /\ disturbed = FALSE

Finishing == \E i \in DOMAIN calls : calls[i].then \in {"cost", "reset"}

(* flushBuffer: post the first text, edit later ones in; no text, no call. *)
(* "then" is what the handler does once it is answered.                    *)
Flush(said, then) ==
  /\ Len(screen) + Len(calls) < MaxMessages
  /\ recent' = TRUE
  /\ calls' = Append(calls, [to |-> ts, text |-> said, then |-> then])

BeginTurn ==
  /\ ~replying /\ turn + 1 \in Turns
  /\ turn' = turn + 1 /\ replying' = TRUE
  /\ disturbed' = (disturbed \/ Finishing)
  /\ UNCHANGED <<style, chunks, buffer, ts, recent, calls, screen, shown>>

ChunkArrives ==
  LET grown == [buffer EXCEPT ![turn] = @ + 1] IN
  /\ replying /\ chunks[turn] < MaxChunks
  /\ chunks' = [chunks EXCEPT ![turn] = @ + 1]
  /\ buffer' = grown
  /\ IF recent THEN UNCHANGED <<recent, calls>> ELSE Flush(grown, "nothing")
  /\ UNCHANGED <<style, turn, replying, ts, screen, shown, disturbed>>

HalfSecondPasses ==
  /\ recent
  /\ recent' = FALSE
  /\ UNCHANGED <<style, turn, replying, chunks, buffer, ts, calls, screen, shown,
                 disturbed>>

(* tool_pending: what is buffered is flushed at once; Slack then forgets   *)
(* the message, not the text.                                              *)
ToolPending ==
  /\ replying
  /\ IF buffer = Empty
     THEN /\ ts' = IF style = "slack" THEN 0 ELSE ts
          /\ UNCHANGED <<recent, calls>>
     ELSE /\ Flush(buffer, IF style = "slack" THEN "forget" ELSE "nothing")
          /\ UNCHANGED ts
  /\ UNCHANGED <<style, turn, replying, chunks, buffer, screen, shown, disturbed>>

(* Other notices (tool_result, injection_warning, costs) are messages of   *)
(* their own and touch nothing.  An error flushes and resets nothing.      *)
ErrorReported ==
  /\ replying /\ replying' = FALSE
  /\ IF buffer = Empty THEN UNCHANGED <<recent, calls>> ELSE Flush(buffer, "nothing")
  /\ disturbed' = TRUE
  /\ UNCHANGED <<style, turn, chunks, buffer, ts, screen, shown>>

Reset ==
  /\ ts' = 0 /\ buffer' = Empty /\ recent' = FALSE
  /\ shown' = shown \cup {turn}

(* complete: a forced flush, a message with the cost if there is one, then *)
(* the reset.                                                              *)
Complete ==
  /\ replying /\ replying' = FALSE
  /\ \/ /\ buffer = Empty
        /\ Reset /\ UNCHANGED calls
     \/ /\ buffer # Empty
        /\ \E then \in {"cost", "reset"} : Flush(buffer, then)
        /\ UNCHANGED <<ts, buffer, shown>>
  /\ UNCHANGED <<style, turn, chunks, screen, disturbed>>

-----------------------------------------------------------------------------
(* An API call is answered.  Its handler goes on: the id of a new message  *)
(* is kept, and "complete" sends the cost, then resets.                    *)
Others(i) == RemoveAt(calls, i)

(* Mutant: the text of a completed turn stays in the buffer. *)
ContinueKeeping(then, others) ==
  /\ calls' = IF then = "cost"
              THEN Append(others, [to |-> 0, text |-> Note, then |-> "reset"])
              ELSE others
  /\ shown' = IF then = "reset" THEN shown \cup {turn} ELSE shown
  /\ UNCHANGED <<buffer, recent>>

Continue(then, others) ==
  CASE then = "nothing" -> calls' = others /\ UNCHANGED <<buffer, recent, shown>>
    [] then = "forget"  -> calls' = others /\ UNCHANGED <<buffer, recent, shown>>
    [] then = "cost"    -> /\ calls' = Append(others, [to |-> 0, text |-> Note,
                                                       then |-> "reset"])
                           /\ UNCHANGED <<buffer, recent, shown>>
    [] then = "reset"   -> /\ calls' = others
                           /\ buffer' = Empty /\ recent' = FALSE
                           /\ shown' = shown \cup {turn}

Kept(call, posted) ==
  IF call.then \in {"forget", "reset"} THEN 0
  ELSE IF call.to = 0 /\ call.text # Note THEN posted
  ELSE ts

Answered(i) ==
  LET call == calls[i] IN
  /\ screen' = IF call.text = Note THEN screen
               ELSE IF call.to = 0 THEN Append(screen, call.text)
               ELSE [screen EXCEPT ![call.to] = call.text]
  /\ ts' = Kept(call, Len(screen) + 1)
  /\ Continue(call.then, Others(i))
  /\ disturbed' = (disturbed \/ i > 1)
  /\ UNCHANGED <<style, turn, replying, chunks>>

(* An error is logged and the handler goes on as after an answer.          *)
CallFails(i) ==
  /\ ts' = IF calls[i].then \in {"forget", "reset"} THEN 0 ELSE ts
  /\ Continue(calls[i].then, Others(i))
  /\ disturbed' = TRUE
  /\ UNCHANGED <<style, turn, replying, chunks, screen>>

StreamNext == \/ BeginTurn \/ ChunkArrives \/ HalfSecondPasses
              \/ ToolPending \/ ErrorReported \/ Complete
              \/ \E i \in DOMAIN calls : Answered(i) \/ CallFails(i)

StreamSpec == StreamInit /\ [][StreamNext]_streamVars

-----------------------------------------------------------------------------
Amounts == [Turns -> 0..MaxChunks]
Calls(messages) == [to : 0..messages, text : Amounts,
                    then : {"nothing", "forget", "cost", "reset"}]

StreamTypeOK ==
  /\ style \in {"telegram", "slack"}
  /\ turn \in {0} \cup Turns /\ replying \in BOOLEAN
  /\ chunks \in Amounts /\ buffer \in Amounts
  /\ ts \in 0..Len(screen) /\ recent \in BOOLEAN
  /\ calls \in Seq(Calls(Len(screen)))
  /\ screen \in Seq(Amounts)
  /\ shown \subseteq Turns /\ disturbed \in BOOLEAN

(* Once a turn is complete some message shows all of it, the text that     *)
(* came within the last half second included, unless a call failed or was  *)
(* overtaken or two turns overlapped.                                      *)
RepliesShown ==
  ~disturbed =>
    \A t \in shown : chunks[t] > 0 =>
      \E i \in DOMAIN screen : screen[i] = [Empty EXCEPT ![t] = chunks[t]]

(* bot.ts: "Clear replying state for next turn" - so a message shows the  *)
(* text of one turn and is never edited to show another's.                 *)
OneTurnPerMessage ==
  \A i \in DOMAIN screen :
    Cardinality({t \in Turns : screen[i][t] > 0}) <= 1

TurnsApart == ~disturbed => OneTurnPerMessage

(* bot.ts, app.ts: a completed reply is on the screen in full, and         *)
(* undisturbed turns do not share a message.                               *)
RepliesHold == RepliesShown /\ TurnsApart
=============================================================================
