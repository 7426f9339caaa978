---------------------------- MODULE ChatChannel ----------------------------
(***************************************************************************)
(* One chat of a channel adapter (a Telegram chat, a Slack user): the      *)
(* entry of the adapter's map, the WebSocket and inactivity timer of every *)
(* session it ever opened, and the sessions the gateway holds for it.      *)
(* Handlers of two texts interleave at the create request and at the       *)
(* socket's handshake; a timer or a close event acts on whatever session   *)
(* the chat lists when it runs, not on its own.  A socket the other side   *)
(* ends stays listed until its close event is handled.                     *)
(***************************************************************************)
CONSTANTS Texts,             \* what the user writes; a session is known by
                             \* the text that created it
          NoSession

VARIABLES
  adapter,     \* "telegram" or "slack"
  running,     \* until stop(): updates are taken
  text,        \* where the handler of each text stands
  entry,       \* sessions.get(chat)
  chatSocket,  \* readyState of each session's WebSocket
  chatTimer,   \* each session's inactivity timer is armed
  served,      \* sessions the gateway holds
  click,       \* the user's answer to an approval request
  replaced     \* history: sessions that lost their entry to another's doing

channelVars == <<adapter, running, text, entry, chatSocket, chatTimer, served,
                 click, replaced>>

ChannelInit == /\ adapter \in {"telegram", "slack"}
               /\ running = TRUE
               /\ text = [m \in Texts |-> "unwritten"]
               /\ entry = NoSession
               /\ chatSocket = [m \in Texts |-> "none"]
               /\ chatTimer = [m \in Texts |-> FALSE]
               /\ served = {}
               /\ click = "none"
               /\ replaced = {}

Handled(m, how) == text' = [text EXCEPT ![m] = how]

(* send() while connecting throws; when the socket is not open any more it *)
(* returns and the text is gone: "lost" if the other side's end is still   *)
(* under way, "dropped" if the adapter closed the socket or was told of    *)
(* its end.                                                                *)
Sent(s) == CASE chatSocket[s] = "open" -> "sent"
             [] chatSocket[s] = "connecting" -> "failed"
             [] chatSocket[s] = "ending" -> "lost"
             [] OTHER -> "dropped"

-----------------------------------------------------------------------------
(* A text: without an entry a session is asked for, else its timer is set  *)
(* anew and the text sent.                                                 *)
Text(m) ==
  /\ running /\ text[m] = "unwritten"
  /\ IF entry = NoSession
     THEN Handled(m, "creating") /\ UNCHANGED chatTimer
     ELSE Handled(m, Sent(entry)) /\ chatTimer' = [chatTimer EXCEPT ![entry] = TRUE]
  /\ UNCHANGED <<adapter, running, entry, chatSocket, served, click, replaced>>

CreateFails(m) ==
  /\ text[m] = "creating"
  /\ Handled(m, "failed")
  /\ served' \in {served, served \cup {m}}
  /\ UNCHANGED <<adapter, running, entry, chatSocket, chatTimer, click, replaced>>

(* The session is there: its entry replaces the one a concurrent text made *)
(* meanwhile, whose timer and socket go on.                                *)
SessionCreated(m) ==
  /\ text[m] = "creating"
  /\ Handled(m, "opening")
  /\ served' = served \cup {m}
  /\ chatSocket' = [chatSocket EXCEPT ![m] = "connecting"]
  /\ chatTimer' = [chatTimer EXCEPT ![m] = TRUE]
  /\ entry' = m
  /\ replaced' = replaced \cup ({entry} \ {NoSession})
  /\ UNCHANGED <<adapter, running, click>>

SocketOpens(s) ==
  /\ chatSocket[s] = "connecting"
  /\ chatSocket' = [chatSocket EXCEPT ![s] = "open"]
  /\ Handled(s, "sent")
  /\ UNCHANGED <<adapter, running, entry, chatTimer, served, click, replaced>>

(* A refused handshake, the gateway's close frame or the end of the TCP    *)
(* connection: the socket is CLOSING, and nobody told of it yet but a text *)
(* that waits for the handshake.                                           *)
SocketEnds(s) ==
  /\ chatSocket[s] \in {"connecting", "open"}
  /\ chatSocket' = [chatSocket EXCEPT ![s] = "ending"]
  /\ text' = [text EXCEPT ![s] = IF @ = "opening" THEN "failed" ELSE @]
  /\ UNCHANGED <<adapter, running, entry, chatTimer, served, click, replaced>>

(* Mutant: the listener only notes that the socket is gone. *)
SocketClosesListed(s) ==
  /\ chatSocket[s] \in {"ending", "closing"}
  /\ chatSocket' = [chatSocket EXCEPT ![s] = "closed"]
  /\ text' = [text EXCEPT ![s] = IF @ = "opening" THEN "failed" ELSE @]
  /\ UNCHANGED <<adapter, running, entry, chatTimer, served, click, replaced>>

(* The close event of a socket that the other side ended or that teardown  *)
(* closed.  The listener deletes the chat's entry, whichever session that  *)
(* is, and clears that one's timer.                                        *)
SocketCloses(s) ==
  /\ chatSocket[s] \in {"ending", "closing"}
  /\ chatSocket' = [chatSocket EXCEPT ![s] = "closed"]
  /\ text' = [text EXCEPT ![s] = IF @ = "opening" THEN "failed" ELSE @]
  /\ IF entry = NoSession
     THEN UNCHANGED <<entry, chatTimer, replaced>>
     ELSE /\ chatTimer' = [chatTimer EXCEPT ![entry] = FALSE]
          /\ entry' = NoSession
          /\ replaced' = IF entry = s THEN replaced ELSE replaced \cup {entry}
  /\ UNCHANGED <<adapter, running, served, click>>

-----------------------------------------------------------------------------
(* teardown of the chat; the DELETE is sent and forgotten, and may be lost. *)
Closing(state) == IF state \in {"connecting", "open", "ending"} THEN "closing" ELSE state

Teardown ==
  /\ chatSocket' = [chatSocket EXCEPT ![entry] = Closing(@)]
  /\ entry' = NoSession
  /\ \/ served' = served \ {entry} /\ UNCHANGED replaced
     \/ UNCHANGED served /\ replaced' = replaced \cup {entry}

(* Thirty minutes after its session's last text a timer tears down what    *)
(* the chat lists.                                                         *)
InactivityFires(s) ==
  /\ chatTimer[s]
  /\ IF entry = NoSession
     THEN /\ chatTimer' = [chatTimer EXCEPT ![s] = FALSE]
          /\ UNCHANGED <<entry, chatSocket, served, replaced>>
     ELSE /\ chatTimer' = [chatTimer EXCEPT ![s] = FALSE, ![entry] = FALSE]
          /\ Teardown
  /\ UNCHANGED <<adapter, running, text, click>>

(* stop() on a signal.                                                     *)
StopAdapter ==
  /\ running /\ running' = FALSE
  /\ IF entry = NoSession
     THEN UNCHANGED <<chatTimer, entry, chatSocket, served, replaced>>
     ELSE chatTimer' = [chatTimer EXCEPT ![entry] = FALSE] /\ Teardown
  /\ UNCHANGED <<adapter, text, click>>

-----------------------------------------------------------------------------
(* A tool waits for the user, whose click may come late.  A socket tells   *)
(* of it until it is closed, also one whose session lost its entry: the    *)
(* message is handled for whichever session the chat lists.                *)
ApprovalAsked ==
  /\ click = "none" /\ entry # NoSession
  /\ \E s \in Texts : chatSocket[s] \in {"open", "ending", "closing"}
  /\ click' = "asked"
  /\ UNCHANGED <<adapter, running, text, entry, chatSocket, chatTimer, served, replaced>>

(* Telegram: "Session expired" without an entry; else sent, then shown.    *)
TelegramClick ==
  /\ adapter = "telegram" /\ running /\ click = "asked"
  /\ click' = IF entry = NoSession THEN "expired" ELSE Sent(entry)
  /\ UNCHANGED <<adapter, running, text, entry, chatSocket, chatTimer, served, replaced>>

(* Slack: sent if there is an entry, shown as the result either way.       *)
SlackClick ==
  /\ adapter = "slack" /\ running /\ click = "asked"
  /\ click' = IF entry = NoSession THEN "shown" ELSE Sent(entry)
  /\ UNCHANGED <<adapter, running, text, entry, chatSocket, chatTimer, served, replaced>>

-----------------------------------------------------------------------------
ChannelNext == \/ \E m \in Texts : \/ Text(m)
                                   \/ CreateFails(m)
                                   \/ SessionCreated(m)
                                   \/ SocketOpens(m)
                                   \/ SocketEnds(m)
                                   \/ SocketCloses(m)
                                   \/ InactivityFires(m)
               \/ StopAdapter
               \/ ApprovalAsked \/ TelegramClick \/ SlackClick

ChannelSpec == ChannelInit /\ [][ChannelNext]_channelVars

(* Timers fire and requests are answered; users and gateway owe nothing.   *)
ChannelFairness ==
  \A m \in Texts : WF_channelVars(CreateFails(m) \/ SessionCreated(m) \/ InactivityFires(m))

-----------------------------------------------------------------------------
Handling == {"unwritten", "creating", "opening", "sent", "failed", "lost", "dropped"}

ChannelTypeOK ==
  /\ adapter \in {"telegram", "slack"} /\ running \in BOOLEAN
  /\ text \in [Texts -> Handling]
  /\ entry \in Texts \cup {NoSession}
  /\ chatSocket \in [Texts -> {"none", "connecting", "open", "ending", "closing",
                            "closed"}]
  /\ chatTimer \in [Texts -> BOOLEAN]
  /\ served \subseteq Texts /\ replaced \subseteq Texts
  /\ click \in {"none", "asked", "sent", "failed", "lost", "dropped", "expired",
               "shown"}

(* Whatever sessions' sockets and timers act on the entry: the session the *)
(* chat lists is not one the adapter closed or was told the end of, and a  *)
(* timer will end it.                                                      *)
ListedIsNotGone ==
  entry # NoSession =>
    chatSocket[entry] \in {"connecting", "open", "ending"} /\ chatTimer[entry]

(* So a text or a click vanishes only while the other side's end of the    *)
(* socket is under way, never because the adapter kept a dead session.     *)
LostOnlyToAnEnd == click # "dropped" /\ \A m \in Texts : text[m] # "dropped"

(* A session the gateway still holds is the one the chat lists, or its     *)
(* socket ended by itself, or it is being torn down, or lost its entry to  *)
(* another session's text, timer or close event (or its DELETE was lost).  *)
SessionsAccountedFor ==
  \A s \in served : \/ s \in replaced \cup {entry}
                    \/ chatSocket[s] \in {"none", "closed"}

(* bot.ts, app.ts: a chat never lists, nor writes to, a session whose      *)
(* socket the adapter closed or saw closed, and each listed session is     *)
(* timed; a text or click may be lost unnoticed only between the other     *)
(* side's end of a socket and its close event; and the sessions that are   *)
(* not listed but held by the gateway are left behind in the named ways.   *)
EntriesHold == ListedIsNotGone /\ LostOnlyToAnEnd /\ SessionsAccountedFor

(* A chat whose user falls silent gives its session up.                    *)
SilentChatsEnd == entry # NoSession ~> entry = NoSession
=============================================================================
