----------------------------- MODULE ChatPanel -----------------------------
(***************************************************************************)
(* The control UI's chat panel: a component with one current socket        *)
(* (wsRef), one session id on display, one refresh timer, and three async  *)
(* functions that interleave: createSession ("New Chat"), refreshToken     *)
(* (timer or "Reconnect") and connectWs, which both await.  Events of a    *)
(* socket that is no longer current still set the panel's state; each      *)
(* function may fail after it changed some of it.                          *)
(***************************************************************************)
EXTENDS Integers

CONSTANTS MaxSessions,       \* bound: chats created
          MaxSockets,        \* bound: sockets opened
          MaxRefreshes,      \* bound: refreshToken calls at one time
          MaxAsked           \* bound: messages under way on a socket

VARIABLES
  sessionId,     \* the session on display, 0 before the first
  created,       \* sessions created
  creating,      \* where createSession stands
  refreshing,    \* where each call of refreshToken stands, and its session
  socket,        \* readyState of each socket
  serves,        \* the session in each socket's URL
  wsRef,         \* the current socket, 0 before the first
  asked,         \* messages whose reply has not ended, by socket
  wsStatus,      \* what the panel shows of the current socket
  streaming,     \* a reply is expected: input is disabled
  refreshTimer,  \* the session the timer will refresh, 0 when not set
  tokenStatus,
  crossed,       \* history: a refresh's reconnection and New Chat overlapped
  stranded       \* history: New Chat failed with its session on display, and
                 \* the previous one's socket is "open" or was "closed"

chatVars == <<sessionId, created, creating>>
socketVars == <<socket, serves, wsRef, asked>>
shownVars == <<wsStatus, streaming>>
tokenVars == <<refreshing, refreshTimer, tokenStatus>>
panelHistory == <<crossed, stranded>>
panelVars == <<chatVars, socketVars, shownVars, tokenVars, panelHistory>>

PanelSessions == 1..MaxSessions
PanelSockets == 1..MaxSockets
Refreshes == 1..MaxRefreshes

NotRefreshing == [at |-> "idle", sid |-> 0]

PanelInit == /\ sessionId = 0 /\ created = 0 /\ creating = "no"
             /\ refreshing = [c \in Refreshes |-> NotRefreshing]
             /\ socket = [k \in PanelSockets |-> "none"]
             /\ serves = [k \in PanelSockets |-> 0]
             /\ asked = [k \in PanelSockets |-> 0]
             /\ wsRef = 0 /\ wsStatus = "idle" /\ streaming = FALSE
             /\ refreshTimer = 0 /\ tokenStatus = "ok"
             /\ crossed = FALSE /\ stranded = "no"

Current(state) == wsRef # 0 /\ socket[wsRef] = state
CurrentAlive == Current("connecting") \/ Current("open")
Reconnecting == \E c \in Refreshes : refreshing[c].at = "connecting"

-----------------------------------------------------------------------------
(* Mutant: the current socket is left to be replaced. *)
BeginConnectLeaving(sid) ==
  /\ wsStatus' = "connecting"
  /\ socket' = socket
  /\ stranded' = IF stranded = "open" /\ sid = sessionId THEN "closed" ELSE stranded

(* connectWs up to its await: the current socket is closed ...             *)
BeginConnect(sid) ==
  /\ wsStatus' = "connecting"
  /\ socket' = IF CurrentAlive THEN [socket EXCEPT ![wsRef] = "closing"] ELSE socket
  /\ stranded' = IF stranded = "open" /\ sid = sessionId THEN "closed" ELSE stranded

(* ... and after it: a new socket becomes the current one, whatever became *)
(* current meanwhile.  Sockets are numbered as they are made.              *)
NewSocket(k, sid) ==
  /\ \A j \in PanelSockets : socket[j] = "none" <=> j >= k
  /\ wsRef' = k
  /\ socket' = [socket EXCEPT ![k] = "connecting"]
  /\ serves' = [serves EXCEPT ![k] = sid]
  /\ stranded' = IF sid = sessionId THEN "no" ELSE stranded
  /\ UNCHANGED asked

(* onopen: scheduleRefresh replaces the timer.                             *)
Opens(k) ==
  /\ socket[k] = "connecting"
  /\ socket' = [socket EXCEPT ![k] = "open"]
  /\ wsStatus' = "open"
  /\ refreshTimer' = serves[k]
  /\ UNCHANGED <<chatVars, serves, wsRef, asked, streaming, refreshing, tokenStatus,
                 panelHistory>>

(* The gateway's close frame: nothing can be sent or comes in any more.    *)
GatewayEnds(k) ==
  /\ socket[k] = "open"
  /\ socket' = [socket EXCEPT ![k] = "closing"]
  /\ UNCHANGED <<chatVars, serves, wsRef, asked, shownVars, tokenVars, panelHistory>>

(* onclose (and onerror before it), of the current socket or an old one.   *)
Closes(k) ==
  /\ socket[k] \in {"connecting", "open", "closing"}
  /\ socket' = [socket EXCEPT ![k] = "closed"]
  /\ wsStatus' = "closed"
  /\ streaming' = FALSE
  /\ UNCHANGED <<chatVars, serves, wsRef, asked, tokenVars, panelHistory>>

-----------------------------------------------------------------------------
NewChat ==
  /\ creating = "no" /\ created < MaxSessions
  /\ creating' = "posting"
  /\ crossed' = (crossed \/ Reconnecting)
  /\ UNCHANGED <<sessionId, created, socketVars, shownVars, tokenVars, stranded>>

(* The session is on display before its socket is asked for.               *)
SessionAnswered ==
  /\ creating = "posting"
  /\ \/ created' = created + 1 /\ sessionId' = created + 1 /\ creating' = "configuring"
     \/ creating' = "no" /\ UNCHANGED <<created, sessionId>>
  /\ UNCHANGED <<socketVars, shownVars, tokenVars, panelHistory>>

(* The config came, or could not be fetched.                               *)
ConfigAnswered ==
  /\ creating = "configuring"
  /\ creating' = "connecting"
  /\ tokenStatus' = "ok"
  /\ BeginConnect(created)
  /\ UNCHANGED <<sessionId, created, serves, wsRef, asked, streaming, refreshing,
                 refreshTimer, crossed>>

(* Its body cannot be read: the error is shown with the new session, and   *)
(* the previous one's socket and timer are as they were.                   *)
ConfigFails ==
  /\ creating = "configuring"
  /\ creating' = "no"
  /\ stranded' = "open"
  /\ UNCHANGED <<sessionId, created, socketVars, shownVars, tokenVars, crossed>>

NewChatConnects(k) ==
  /\ creating = "connecting"
  /\ creating' = "no"
  /\ NewSocket(k, created)
  /\ UNCHANGED <<sessionId, created, shownVars, tokenVars, crossed>>

(* getToken or new WebSocket throws: the socket that was closed before the *)
(* await stays the current one.                                            *)
NewChatConnectFails ==
  /\ creating = "connecting"
  /\ creating' = "no"
  /\ stranded' = "closed"
  /\ UNCHANGED <<sessionId, created, socketVars, shownVars, tokenVars, crossed>>

-----------------------------------------------------------------------------
(* refreshToken: on the timer, or by hand after a failure.                 *)
BeginRefresh(sid) ==
  /\ \E c \in Refreshes :
       /\ refreshing[c].at = "idle"
       /\ \A d \in Refreshes : d < c => refreshing[d].at # "idle"
       /\ refreshing' = [refreshing EXCEPT ![c] = [at |-> "asking", sid |-> sid]]
  /\ tokenStatus' = "refreshing"
  /\ UNCHANGED <<chatVars, socketVars, shownVars, panelHistory>>

TimerFires ==
  /\ refreshTimer # 0
  /\ refreshTimer' = 0
  /\ BeginRefresh(refreshTimer)

Reconnect ==
  /\ tokenStatus = "failed" /\ sessionId # 0
  /\ BeginRefresh(sessionId)
  /\ UNCHANGED refreshTimer

(* The gateway renewed the token: the session it was renewed for gets a    *)
(* new socket, even if another is on display by now.                       *)
RefreshAnswered(c) ==
  /\ refreshing[c].at = "asking"
  /\ refreshing' = [refreshing EXCEPT ![c].at = "connecting"]
  /\ tokenStatus' = "ok"
  /\ BeginConnect(refreshing[c].sid)
  /\ crossed' = (crossed \/ refreshing[c].sid # sessionId \/ creating # "no")
  /\ UNCHANGED <<chatVars, serves, wsRef, asked, streaming, refreshTimer>>

RefreshConnects(c, k) ==
  /\ refreshing[c].at = "connecting"
  /\ refreshing' = [refreshing EXCEPT ![c] = NotRefreshing]
  /\ NewSocket(k, refreshing[c].sid)
  /\ UNCHANGED <<chatVars, shownVars, refreshTimer, tokenStatus, crossed>>

(* A request refused or failing, before connectWs or in it: the banner.    *)
RefreshFails(c) ==
  /\ refreshing[c].at # "idle"
  /\ refreshing' = [refreshing EXCEPT ![c] = NotRefreshing]
  /\ tokenStatus' = "failed"
  /\ UNCHANGED <<chatVars, socketVars, shownVars, refreshTimer, panelHistory>>

-----------------------------------------------------------------------------
(* sendMessage: input is enabled, and the current socket open.             *)
Send ==
  /\ sessionId # 0 /\ wsStatus = "open" /\ ~streaming /\ Current("open")
  /\ asked[wsRef] < MaxAsked
  /\ asked' = [asked EXCEPT ![wsRef] = @ + 1]
  /\ streaming' = TRUE
  /\ UNCHANGED <<chatVars, socket, serves, wsRef, wsStatus, tokenVars, panelHistory>>

(* A chunk of a reply.  A socket being closed delivers nothing any more.   *)
Chunk(k) ==
  /\ socket[k] = "open" /\ asked[k] > 0
  /\ streaming' = TRUE
  /\ UNCHANGED <<chatVars, socketVars, wsStatus, tokenVars, panelHistory>>

(* complete, error (a session mismatch, a limit, a failed run) or          *)
(* injection_warning ends the reply.                                       *)
Ends(k) ==
  /\ socket[k] = "open" /\ asked[k] > 0
  /\ asked' = [asked EXCEPT ![k] = @ - 1]
  /\ streaming' = FALSE
  /\ UNCHANGED <<chatVars, socket, serves, wsRef, wsStatus, tokenVars, panelHistory>>

-----------------------------------------------------------------------------
PanelNext ==
        \/ NewChat \/ SessionAnswered \/ ConfigAnswered \/ ConfigFails
        \/ NewChatConnectFails
        \/ TimerFires \/ Reconnect \/ Send
        \/ \E c \in Refreshes : \/ RefreshAnswered(c) \/ RefreshFails(c)
                                \/ \E k \in PanelSockets : RefreshConnects(c, k)
        \/ \E k \in PanelSockets : \/ NewChatConnects(k)
                                   \/ Opens(k) \/ GatewayEnds(k) \/ Closes(k)
                                   \/ Chunk(k) \/ Ends(k)

PanelSpec == PanelInit /\ [][PanelNext]_panelVars

(* The gateway ends every reply it began, and a socket that is being       *)
(* closed closes.                                                          *)
PanelFairness ==
  \A k \in PanelSockets : WF_panelVars(Ends(k) \/ (socket[k] = "closing" /\ Closes(k)))

-----------------------------------------------------------------------------
PanelTypeOK ==
  /\ sessionId \in 0..created /\ created \in 0..MaxSessions
  /\ creating \in {"no", "posting", "configuring", "connecting"}
  /\ refreshing \in [Refreshes -> [at : {"idle", "asking", "connecting"}, sid : 0..created]]
  /\ socket \in [PanelSockets -> {"none", "connecting", "open", "closing", "closed"}]
  /\ serves \in [PanelSockets -> 0..created]
  /\ asked \in [PanelSockets -> 0..MaxAsked]
  /\ wsRef \in {0} \cup PanelSockets
  /\ wsStatus \in {"idle", "connecting", "open", "closed"}
  /\ streaming \in BOOLEAN
  /\ refreshTimer \in 0..created
  /\ tokenStatus \in {"ok", "refreshing", "failed"}
  /\ crossed \in BOOLEAN /\ stranded \in {"no", "open", "closed"}

(* An open chat never runs into its token's expiry unnoticed: a refresh is *)
(* scheduled or asked for, or the banner says that it failed - whichever   *)
(* of the panel's functions overlapped or failed.                          *)
RefreshKept ==
  Current("open") => \/ refreshTimer # 0
                     \/ \E c \in Refreshes : refreshing[c].at = "asking"
                     \/ tokenStatus = "failed"

(* The current socket is of the session on display, unless a refresh of    *)
(* the previous one was under way, whose reconnection may take it back, or *)
(* New Chat failed after it showed its session: then the panel goes on     *)
(* writing to the previous one if its socket was not closed yet, and       *)
(* writes to none if it was, until a socket is made for what it shows.     *)
ServesShown ==
  creating \in {"no", "posting"} /\ wsRef # 0 /\ ~crossed =>
    \/ serves[wsRef] = sessionId
    \/ stranded = "open"
    \/ stranded = "closed" /\ ~CurrentAlive

(* Chat.tsx: unless a refresh crossed New Chat or New Chat failed before   *)
(* it closed the previous session's socket, the panel writes to no session *)
(* but the one it shows; and an open chat's token is looked after.         *)
PanelHolds == ServesShown /\ RefreshKept

(* Input is never disabled for good: a reply the panel waits for ends, or  *)
(* the close event of its socket frees the input.                          *)
InputFreed == streaming ~> ~streaming
=============================================================================
