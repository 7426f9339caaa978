---------------------------- MODULE ChatRateLimit ----------------------------
(***************************************************************************)
(* gateway/src/routes/chat.route.ts: the message limit of one session.     *)
(* The counter is keyed by session and shared by every socket that chats   *)
(* in it; closing any of them deletes it.                                  *)
(***************************************************************************)
EXTENDS Integers, FiniteSets, Functions

CONSTANTS Sockets,         \* connections of the session
          MaxPerWindow,    \* maxMsgsPerMinute
          Window,          \* WINDOW_MS
          LastTick,        \* bound: time modelled
          MaxCloses        \* bound: closes modelled

(* gateway/src/index.ts:36 sets the limit to 30, chat.route.ts:44 the      *)
(* window to a minute.                                                     *)
ASSUME LimitAssumption ==
  /\ MaxPerWindow \in Nat \ {0} /\ Window \in Nat \ {0}
  /\ LastTick \in Nat /\ MaxCloses \in Nat

VARIABLES now,             \* Date.now()
          open,            \* open sockets
          counter,         \* sessionMsgCounters.get(sessionId)
          forwarded,       \* history: messages let through at each instant
          closed           \* history: closes at each instant

limitVars == <<now, open, counter, forwarded, closed>>

NoEntry == [count |-> 0, windowStart |-> -1]
Times == 0..LastTick

LimitInit == /\ now = 0
             /\ open = {}
             /\ counter = NoEntry
             /\ forwarded = [t \in Times |-> 0]
             /\ closed = [t \in Times |-> 0]

Connect(s) == /\ s \notin open
              /\ open' = open \cup {s}
              /\ UNCHANGED <<now, counter, forwarded, closed>>

Close(s) == /\ s \in open
            /\ SumFunction(closed) < MaxCloses
            /\ open' = open \ {s}
            /\ counter' = NoEntry
            /\ closed' = [closed EXCEPT ![now] = @ + 1]
            /\ UNCHANGED <<now, forwarded>>

(* Mutant: the window ends one tick early. *)
ExpiredEarly == counter = NoEntry \/ now - counter.windowStart >= Window - 1

Expired == counter = NoEntry \/ now - counter.windowStart >= Window

(* Mutant: the message that opens a window is not counted. *)
MessageUncounted(s) == /\ s \in open
                       /\ Expired \/ counter.count < MaxPerWindow
                       /\ counter' = IF Expired
                                     THEN [count |-> 0, windowStart |-> now]
                                     ELSE [counter EXCEPT !.count = @ + 1]
                       /\ forwarded' = [forwarded EXCEPT ![now] = @ + 1]
                       /\ UNCHANGED <<now, open, closed>>

(* checkMsgRateLimit; a message over the limit is dropped.                 *)
Message(s) == /\ s \in open
              /\ Expired \/ counter.count < MaxPerWindow
              /\ counter' = IF Expired THEN [count |-> 1, windowStart |-> now]
                                       ELSE [counter EXCEPT !.count = @ + 1]
              /\ forwarded' = [forwarded EXCEPT ![now] = @ + 1]
              /\ UNCHANGED <<now, open, closed>>

Tick == /\ now < LastTick
        /\ now' = now + 1
        /\ UNCHANGED <<open, counter, forwarded, closed>>

LimitNext == \/ \E s \in Sockets : Connect(s) \/ Close(s) \/ Message(s)
             \/ Tick

LimitSpec == LimitInit /\ [][LimitNext]_limitVars

-----------------------------------------------------------------------------
LimitTypeOK ==
  /\ now \in Times
  /\ open \subseteq Sockets
  /\ counter \in {NoEntry} \cup [count : 1..MaxPerWindow, windowStart : 0..now]
  /\ forwarded \in [Times -> Nat]
  /\ closed \in [Times -> 0..MaxCloses]

(* The spans of one window's length, at every offset.                      *)
Span(t) == t..(t + Window - 1)
SpanStarts == 0..(LastTick - Window + 1)

(* What the limit really guarantees: a span of one window's length sees    *)
(* the tail of one window and the whole of the next, so fewer than twice   *)
(* the limit - and a fresh window more for each socket closed within it.   *)
BurstBounded ==
  \A t \in SpanStarts :
    SumFunctionOnSet(forwarded, Span(t)) <=
      (2 * MaxPerWindow - 1) + MaxPerWindow * SumFunctionOnSet(closed, Span(t))
=============================================================================
