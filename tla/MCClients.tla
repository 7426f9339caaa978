----------------------------- MODULE MCClients -----------------------------
(* From the user to the approval gate, in parts that keep state of their   *)
(* own: a channel adapter's chat, the reply it shows, the control UI's     *)
(* chat panel and list panels, the gateway's message limit, and the gate.  *)
(* They share no variable, so one run checks them side by side instead of  *)
(* multiplied: "part" says which one of them moves.                        *)
(*                                                                         *)
(* The gate has five requests in two sessions: two of different sessions   *)
(* collide, two of one session collide, and one has its call id to itself. *)
EXTENDS ApprovalGate, ChatChannel, ReplyStream, ChatPanel, ChatRateLimit, TLC

CONSTANTS r1, r2, r3, r4, r5, i1, i2, i3, s1, s2,   \* ApprovalGate
          a, b,                                       \* ChatRateLimit
          Items, PerMinute, MaxFlights, MaxFailures         \* Dashboard

VARIABLES part,
          board, known, listed, fetches, actions, fetchError, budget, failures

MCRequests == {r1, r2, r3, r4, r5}
MCSessions == {s1, s2}
MCCallIds == {i1, i2, i3}

MCSessionOf == r1 :> s1 @@ r2 :> s2 @@ r3 :> s1 @@ r4 :> s1 @@ r5 :> s1
MCIdOf == r1 :> i1 @@ r2 :> i1 @@ r3 :> i2 @@ r4 :> i2 @@ r5 :> i3

MCSockets == {a, b}

Lists   == INSTANCE Dashboard WITH panel <- board, shown <- listed

lists   == <<board, known, listed, fetches, actions, fetchError, budget, failures>>
clients == <<part, gateVars, channelVars, streamVars, panelVars, limitVars, lists>>

Parts == {"channel", "reply", "panel", "limit", "lists", "gate"}

MCInit == /\ part \in Parts
          /\ ChannelInit /\ (part # "channel" => adapter = "slack")
          /\ StreamInit /\ (part # "reply" => style = "slack")
          /\ PanelInit
          /\ LimitInit
          /\ Lists!Init /\ (part # "lists" => board = "costs")
          /\ GateInit

MCNext == /\ UNCHANGED part
          /\ \/ part = "channel" /\ ChannelNext
                /\ UNCHANGED <<streamVars, panelVars, limitVars, lists, gateVars>>
             \/ part = "reply" /\ StreamNext
                /\ UNCHANGED <<channelVars, panelVars, limitVars, lists, gateVars>>
             \/ part = "panel" /\ PanelNext
                /\ UNCHANGED <<channelVars, streamVars, limitVars, lists, gateVars>>
             \/ part = "limit" /\ LimitNext
                /\ UNCHANGED <<channelVars, streamVars, panelVars, lists, gateVars>>
             \/ part = "lists" /\ Lists!Next
                /\ UNCHANGED <<channelVars, streamVars, panelVars, limitVars, gateVars>>
             \/ part = "gate" /\ GateNext
                /\ UNCHANGED <<channelVars, streamVars, panelVars, limitVars, lists>>

(* The lists' first fetch is under way initially: fairness of a part is    *)
(* asked for where the part moves.  The others enable nothing standing still. *)
MCSpec == /\ MCInit /\ [][MCNext]_clients
          /\ ChannelFairness /\ PanelFairness
          /\ part = "lists" => Lists!DashboardFairness
          /\ \A r \in Requests : WF_gateVars(Timeout(r))

-----------------------------------------------------------------------------
(* Each part keeps its types: one chat's handlers, timers and clicks; a    *)
(* reply's calls; the panel's sockets; the counter's window; the lists'    *)
(* fetches.                                                                *)
TypeOK == /\ GateTypeOK /\ ChannelTypeOK /\ StreamTypeOK
          /\ PanelTypeOK /\ LimitTypeOK
          /\ Lists!DashboardTypeOK

(* Nobody is kept waiting for good: a silent chat gives its session up     *)
(* (bot.ts, app.ts), input is never disabled for ever (Chat.tsx), what the *)
(* gateway lists is shown in the end and what ended goes (ApprovalQueue,   *)
(* SessionList, CredentialVault, CostDashboard).                           *)
UsersServed == /\ SilentChatsEnd /\ InputFreed
               /\ Lists!ItemsShown /\ Lists!GoneDisappears
=============================================================================
