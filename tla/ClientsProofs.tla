---------------------------- MODULE ClientsProofs ----------------------------
(***************************************************************************)
(* Between the user and the agent, for any sizes: the approval gate, a     *)
(* chat of an adapter and its streamed reply, the control UI's chat panel  *)
(* and its audit log.                                                      *)
(*                                                                         *)
(* Gate: WaiterHasTimer needs ListedIsWaiting to know that respond and     *)
(* cancelSession clear the timer of a request that waits (GateInv).        *)
(*                                                                         *)
(* Adapter: that no session is forgotten needs that only a session whose   *)
(* request was answered has a socket, for its gateway session may be there *)
(* although the request failed (SocketsFollow).                            *)
(*                                                                         *)
(* Reply: that calls answered in order show the whole turn needs that each *)
(* says a beginning of the turn held, and only the last is "complete"'s    *)
(* (CallsOfTurn); no message of an earlier turn can then be edited.        *)
(*                                                                         *)
(* Panel: which session a connection under way is for depends on how far   *)
(* New Chat has come (ConnectsShown).                                      *)
(*                                                                         *)
(* Audit log: that paging hides nothing needs that at most one page is     *)
(* under way and begins at a rank the list reaches down to; that an event  *)
(* logged later only pushes the others down; and that a page is full       *)
(* exactly when more may follow it (ViewerInv).                            *)
(***************************************************************************)
EXTENDS ApprovalGate, ChatChannel, ReplyStream, ChatPanel, AuditViewer, SequenceTheorems, FiniteSetTheorems, TLAPS

GateInv == GateTypeOK /\ WaiterHasTimer /\ ListedIsWaiting

(* Resolve changes only waiting members of S, and only to the outcome.     *)
LEMMA ResolveEffect ==
  ASSUME GateTypeOK, NEW S, NEW outcome \in Decided, Resolve(S, outcome)
  PROVE  /\ promise' \in [Requests -> {"none", "waiting"} \cup Decided]
         /\ \A r \in Requests :
              promise'[r] = IF r \in S /\ promise[r] = "waiting"
                            THEN outcome ELSE promise[r]
  BY DEF Resolve, GateTypeOK, Decided

LEMMA GateInvInit == GateInit => GateInv
  BY GateAssumption
     DEF GateInit, GateInv, GateTypeOK, WaiterHasTimer, ListedIsWaiting

LEMMA GateInvNext == GateInv /\ [GateNext]_gateVars => GateInv'
<1> SUFFICES ASSUME GateInv, [GateNext]_gateVars PROVE GateInv'
  OBVIOUS
<1> USE GateAssumption DEF GateInv
<1>1. ASSUME NEW r \in Requests, WaitForApproval(r) PROVE GateInv'
  <2>1. GateTypeOK'
    BY <1>1 DEF WaitForApproval, GateTypeOK
  <2>2. WaiterHasTimer'
    BY <1>1 DEF WaitForApproval, GateTypeOK, WaiterHasTimer
  <2>3. ListedIsWaiting'
    BY <1>1 DEF WaitForApproval, GateTypeOK, ListedIsWaiting
  <2> QED BY <2>1, <2>2, <2>3
<1>2. ASSUME NEW r \in Requests, Timeout(r) PROVE GateInv'
  <2>1. /\ promise' \in [Requests -> {"none", "waiting"} \cup Decided]
        /\ \A q \in Requests :
             promise'[q] = IF q \in {r} /\ promise[q] = "waiting"
                           THEN "denied" ELSE promise[q]
    BY <1>2, ResolveEffect DEF Timeout, Decided
  <2>2. GateTypeOK'
    BY <1>2, <2>1 DEF Timeout, GateTypeOK
  <2>3. WaiterHasTimer'
    BY <1>2, <2>1 DEF Timeout, GateTypeOK, WaiterHasTimer
  <2>4. ListedIsWaiting'
    BY <1>2, <2>1 DEF Timeout, GateTypeOK, ListedIsWaiting
  <2> QED BY <2>2, <2>3, <2>4
<1>3. ASSUME NEW c \in CallIds, NEW approved \in BOOLEAN, Respond(c, approved)
      PROVE  GateInv'
  <2> DEFINE outcome == IF approved THEN "granted" ELSE "denied"
  <2>1. pending[c] \in Requests /\ outcome \in Decided
    BY <1>3 DEF Respond, GateTypeOK, Decided
  <2>2. /\ promise' \in [Requests -> {"none", "waiting"} \cup Decided]
        /\ \A q \in Requests :
             promise'[q] = IF q \in {pending[c]} /\ promise[q] = "waiting"
                           THEN outcome ELSE promise[q]
    BY <1>3, <2>1, ResolveEffect DEF Respond
  <2>3. accepted' \in Nat
    <3>1. CASE approved
      BY <1>3, <3>1 DEF Respond, GateTypeOK
    <3>2. CASE ~approved
      BY <1>3, <3>2 DEF Respond, GateTypeOK
    <3> QED BY <3>1, <3>2
  <2>6. GateTypeOK'
    BY <1>3, <2>1, <2>2, <2>3 DEF Respond, GateTypeOK
  <2>4. WaiterHasTimer'
    BY <1>3, <2>1, <2>2
       DEF Respond, GateTypeOK, WaiterHasTimer, ListedIsWaiting, Decided
  <2>5. ListedIsWaiting'
    BY <1>3, <2>1, <2>2 DEF Respond, GateTypeOK, ListedIsWaiting
  <2> QED BY <2>4, <2>5, <2>6
<1>4. ASSUME NEW s \in Sessions, CancelSession(s) PROVE GateInv'
  <2> DEFINE cancelled == PendingForSession(s)
  <2>1. /\ promise' \in [Requests -> {"none", "waiting"} \cup Decided]
        /\ \A q \in Requests :
             promise'[q] = IF q \in cancelled /\ promise[q] = "waiting"
                           THEN "denied" ELSE promise[q]
    BY <1>4, ResolveEffect DEF CancelSession, Decided
  <2>2. GateTypeOK'
    BY <1>4, <2>1 DEF CancelSession, GateTypeOK
  <2>3. WaiterHasTimer'
    BY <1>4, <2>1 DEF CancelSession, PendingForSession, GateTypeOK,
                      WaiterHasTimer, ListedIsWaiting
  <2>4. ListedIsWaiting'
    BY <1>4, <2>1 DEF CancelSession, GateTypeOK, ListedIsWaiting
  <2> QED BY <2>2, <2>3, <2>4
<1>5. CASE UNCHANGED gateVars
  BY <1>5 DEF gateVars, GateTypeOK, WaiterHasTimer, ListedIsWaiting
<1> QED BY <1>1, <1>2, <1>3, <1>4, <1>5 DEF GateNext

(* The gate's state stays well formed.                                     *)
THEOREM GateTypeCorrect == GateSafetySpec => []GateTypeOK
<1>1. GateInv => GateTypeOK
  BY DEF GateInv
<1> QED BY <1>1, GateInvInit, GateInvNext, PTL DEF GateSafetySpec

(* Nobody waits without a timer, however often an id is reused: the        *)
(* documented "timeout = implicit denial" reaches overwritten requests too. *)
THEOREM EveryWaiterTimed == GateSafetySpec => []WaiterHasTimer
<1>1. GateInv => WaiterHasTimer
  BY DEF GateInv
<1> QED BY <1>1, GateInvInit, GateInvNext, PTL DEF GateSafetySpec

(* An answer the gate accepts always decides an undecided request.         *)
THEOREM EveryListedWaits == GateSafetySpec => []ListedIsWaiting
<1>1. GateInv => ListedIsWaiting
  BY DEF GateInv
<1> QED BY <1>1, GateInvInit, GateInvNext, PTL DEF GateSafetySpec

-----------------------------------------------------------------------------
LEMMA WaitingIsListedNext ==
  ASSUME GateInv, WaitingIsListed, [GateNext]_gateVars
  PROVE  WaitingIsListed'
<1> USE GateAssumption DEF GateInv
<1>1. ASSUME NEW r \in Requests, WaitForApproval(r) PROVE WaitingIsListed'
  BY <1>1 DEF WaitForApproval, GateTypeOK, WaitingIsListed, Unshared
<1>2. ASSUME NEW r \in Requests, Timeout(r) PROVE WaitingIsListed'
  BY <1>2, ResolveEffect
     DEF Timeout, Decided, GateTypeOK, WaitingIsListed, Unshared
<1>3. ASSUME NEW c \in CallIds, NEW approved \in BOOLEAN, Respond(c, approved)
      PROVE  WaitingIsListed'
  <2> DEFINE outcome == IF approved THEN "granted" ELSE "denied"
  <2>1. pending[c] \in Requests /\ outcome \in Decided
    BY <1>3 DEF Respond, GateTypeOK, Decided
  <2>2. \A q \in Requests :
          promise'[q] = IF q \in {pending[c]} /\ promise[q] = "waiting"
                        THEN outcome ELSE promise[q]
    BY <1>3, <2>1, ResolveEffect DEF Respond
  <2> QED BY <1>3, <2>1, <2>2
             DEF Respond, GateTypeOK, WaitingIsListed, ListedIsWaiting, Decided
<1>4. ASSUME NEW s \in Sessions, CancelSession(s) PROVE WaitingIsListed'
  <2>1. \A q \in Requests :
          promise'[q] = IF q \in PendingForSession(s) /\ promise[q] = "waiting"
                        THEN "denied" ELSE promise[q]
    BY <1>4, ResolveEffect DEF CancelSession, Decided
  <2> QED BY <1>4, <2>1 DEF CancelSession, GateTypeOK, WaitingIsListed
<1>5. CASE UNCHANGED gateVars
  BY <1>5 DEF gateVars, WaitingIsListed
<1> QED BY <1>1, <1>2, <1>3, <1>4, <1>5 DEF GateNext

(* No undecided request with a call id of its own is ever unlisted, so     *)
(* the user can answer it, whatever happens to colliding ones.             *)
THEOREM UnsharedAlwaysListed == GateSafetySpec => []WaitingIsListed
<1>1. GateInit => WaitingIsListed
  BY DEF GateInit, WaitingIsListed
<1>2. GateInv /\ WaitingIsListed /\ [GateNext]_gateVars => WaitingIsListed'
  BY WaitingIsListedNext
<1> QED BY <1>1, <1>2, GateInvInit, GateInvNext, PTL DEF GateSafetySpec

(* So the gate's map, timers and promises agree (GateAgrees).              *)
THEOREM GateAlwaysAgrees == GateSafetySpec => []GateAgrees
<1>1. WaiterHasTimer /\ ListedIsWaiting /\ WaitingIsListed => GateAgrees
  BY DEF GateAgrees
<1> QED BY <1>1, EveryWaiterTimed, EveryListedWaits, UnsharedAlwaysListed, PTL

(* And terminating a session leaves none of those it has undecided.        *)
THEOREM TerminationDeniesUnshared == GateSafetySpec => TerminationDeniesAll
<1>1. GateInv /\ WaitingIsListed =>
        (\A s \in Sessions : CancelSession(s) =>
           \A r \in Requests :
             Unshared(r) /\ sessionOf[r] = s => promise'[r] # "waiting")
  <2> SUFFICES ASSUME GateInv, WaitingIsListed,
                      NEW s \in Sessions, CancelSession(s),
                      NEW r \in Requests, Unshared(r), sessionOf[r] = s
               PROVE  promise'[r] # "waiting"
    OBVIOUS
  <2>1. promise'[r] = IF r \in PendingForSession(s) /\ promise[r] = "waiting"
                      THEN "denied" ELSE promise[r]
    BY ResolveEffect DEF CancelSession, Decided, GateInv
  <2> QED BY <2>1 DEF PendingForSession, WaitingIsListed
<1>2. GateInit => WaitingIsListed
  BY DEF GateInit, WaitingIsListed
<1>3. GateInv /\ WaitingIsListed /\ [GateNext]_gateVars => WaitingIsListed'
  BY WaitingIsListedNext
<1> QED BY <1>1, <1>2, <1>3, GateInvInit, GateInvNext, PTL
        DEF GateSafetySpec, TerminationDeniesAll

-----------------------------------------------------------------------------
(* Every step of the gate is a step of its contract, or none: a promise is *)
(* settled once, and granted only together with an accepted approval.      *)
LEMMA GateStepKeepsContract ==
  ASSUME GateInv, [GateNext]_gateVars
  PROVE  [Promised!ContractNext]_Promised!contractVars
<1> USE GateAssumption DEF GateInv
<1>1. ASSUME NEW r \in Requests, WaitForApproval(r) PROVE Promised!Ask(r)
  BY <1>1 DEF WaitForApproval, Promised!Ask
<1>2. ASSUME NEW r \in Requests, Timeout(r) PROVE Promised!Deny({r})
  <2>1. /\ promise' \in [Requests -> {"none", "waiting"} \cup Decided]
        /\ \A q \in Requests :
             promise'[q] = IF q \in {r} /\ promise[q] = "waiting"
                           THEN "denied" ELSE promise[q]
    BY <1>2, ResolveEffect DEF Timeout, Decided
  <2>2. promise[r] = "waiting"
    BY <1>2 DEF Timeout, WaiterHasTimer
  <2> QED BY <1>2, <2>1, <2>2 DEF Timeout, Promised!Deny
<1>3. ASSUME NEW c \in CallIds, NEW approved \in BOOLEAN, Respond(c, approved)
      PROVE  Promised!ContractNext
  <2>1. pending[c] \in Requests /\ promise[pending[c]] = "waiting"
    BY <1>3 DEF Respond, GateTypeOK, ListedIsWaiting
  <2>2. CASE approved
    <3>1. /\ promise' \in [Requests -> {"none", "waiting"} \cup Decided]
          /\ \A q \in Requests :
               promise'[q] = IF q \in {pending[c]} /\ promise[q] = "waiting"
                             THEN "granted" ELSE promise[q]
      BY <1>3, <2>2, ResolveEffect DEF Respond, Decided
    <3>2. Promised!Grant(pending[c])
      BY <1>3, <2>1, <2>2, <3>1 DEF Respond, GateTypeOK, Promised!Grant
    <3> QED BY <2>1, <3>2 DEF Promised!ContractNext
  <2>3. CASE ~approved
    <3>1. /\ promise' \in [Requests -> {"none", "waiting"} \cup Decided]
          /\ \A q \in Requests :
               promise'[q] = IF q \in {pending[c]} /\ promise[q] = "waiting"
                             THEN "denied" ELSE promise[q]
      BY <1>3, <2>3, ResolveEffect DEF Respond, Decided
    <3>2. Promised!Deny({pending[c]})
      BY <1>3, <2>1, <2>3, <3>1 DEF Respond, GateTypeOK, Promised!Deny
    <3> QED BY <2>1, <3>2 DEF Promised!ContractNext
  <2> QED BY <2>2, <2>3
<1>4. ASSUME NEW s \in Sessions, CancelSession(s)
      PROVE  Promised!Deny(PendingForSession(s))
  <2>1. /\ promise' \in [Requests -> {"none", "waiting"} \cup Decided]
        /\ \A q \in Requests :
             promise'[q] = IF q \in PendingForSession(s) /\ promise[q] = "waiting"
                           THEN "denied" ELSE promise[q]
    BY <1>4, ResolveEffect DEF CancelSession, Decided
  <2>2. \A r \in PendingForSession(s) : promise[r] = "waiting"
    BY DEF PendingForSession, ListedIsWaiting
  <2> QED BY <1>4, <2>1, <2>2 DEF CancelSession, PendingForSession, Promised!Deny
<1>5. CASE UNCHANGED gateVars
  BY <1>5 DEF gateVars, Promised!contractVars
<1>6. \A s \in Sessions : PendingForSession(s) \in SUBSET Requests
  BY DEF PendingForSession
<1> QED BY <1>1, <1>2, <1>3, <1>4, <1>5, <1>6
        DEF GateNext, Promised!ContractNext

(* The safety half of the contract for every gate; its liveness half,      *)
(* that every waiter is answered, is model checked.                        *)
THEOREM GateImplementsContract == GateSafetySpec => KeepsContractSafely
<1>1. GateInit => Promised!ContractInit
  BY DEF GateInit, Promised!ContractInit
<1>2. GateInv /\ [GateNext]_gateVars
        => [Promised!ContractNext]_Promised!contractVars
  BY GateStepKeepsContract
<1> QED BY <1>1, <1>2, GateInvInit, GateInvNext, PTL
        DEF GateSafetySpec, KeepsContractSafely, Promised!ContractSafety

-----------------------------------------------------------------------------
(* The absence of an entry is no session.                                  *)
Distinct == NoSession \notin Texts

(* Before its session's request is answered a text has no socket.          *)
SocketsFollow == \A m \in Texts : text[m] \in {"unwritten", "creating"} => chatSocket[m] = "none"

ChannelInv == /\ ChannelTypeOK /\ SocketsFollow
              /\ ListedIsNotGone /\ LostOnlyToAnEnd /\ SessionsAccountedFor

LEMMA ChannelInvInit == ASSUME ChannelInit PROVE ChannelInv
  BY DEF ChannelInit, ChannelInv, ChannelTypeOK, SocketsFollow, ListedIsNotGone,
         LostOnlyToAnEnd, SessionsAccountedFor, Handling

(* What a handler writes to the listed session is dropped only by an end   *)
(* that is under way.                                                      *)
LEMMA SentToListed ==
  ASSUME ChannelInv, entry # NoSession PROVE Sent(entry) \in {"sent", "failed", "lost"}
  BY DEF ChannelInv, ListedIsNotGone, Sent

LEMMA TextStep == ASSUME ChannelInv, NEW m \in Texts, Text(m) PROVE ChannelInv'
<1>1. CASE entry = NoSession
  BY <1>1 DEF Text, Handled, ChannelInv, ChannelTypeOK, SocketsFollow, ListedIsNotGone,
              LostOnlyToAnEnd, SessionsAccountedFor, Handling
<1>2. CASE entry # NoSession
  <2>1. Sent(entry) \in {"sent", "failed", "lost"}
    BY <1>2, SentToListed
  <2>2. /\ text' = [text EXCEPT ![m] = Sent(entry)]
        /\ chatTimer' = [chatTimer EXCEPT ![entry] = TRUE]
        /\ UNCHANGED <<adapter, running, entry, chatSocket, served, click, replaced>>
    BY <1>2 DEF Text, Handled
  <2> QED  BY <1>2, <2>1, <2>2 DEF ChannelInv, ChannelTypeOK, SocketsFollow, ListedIsNotGone,
              LostOnlyToAnEnd, SessionsAccountedFor, Handling
<1> QED  BY <1>1, <1>2

LEMMA CreateSteps ==
  ASSUME Distinct, ChannelInv, NEW m \in Texts, CreateFails(m) \/ SessionCreated(m)
  PROVE  ChannelInv'
<1>1. CASE CreateFails(m)
  BY <1>1 DEF CreateFails, Handled, ChannelInv, ChannelTypeOK, SocketsFollow, ListedIsNotGone,
              LostOnlyToAnEnd, SessionsAccountedFor, Handling
<1>2. CASE SessionCreated(m)
  <2>1. /\ text' = [text EXCEPT ![m] = "opening"]
        /\ served' = served \cup {m} /\ entry' = m
        /\ chatSocket' = [chatSocket EXCEPT ![m] = "connecting"]
        /\ chatTimer' = [chatTimer EXCEPT ![m] = TRUE]
        /\ replaced' = replaced \cup ({entry} \ {NoSession})
        /\ UNCHANGED <<adapter, running, click>>
    BY <1>2 DEF SessionCreated, Handled
  <2>2. ChannelTypeOK'
    BY <2>1 DEF ChannelInv, ChannelTypeOK, Handling
  <2>3. SocketsFollow'
    BY <2>1 DEF ChannelInv, ChannelTypeOK, SocketsFollow
  <2>4. ListedIsNotGone'
    BY <2>1 DEF ChannelInv, ChannelTypeOK, ListedIsNotGone
  <2>5. LostOnlyToAnEnd'
    BY <2>1 DEF ChannelInv, ChannelTypeOK, LostOnlyToAnEnd
  <2>6. SessionsAccountedFor'
    <3> SUFFICES ASSUME NEW s \in served' PROVE \/ s \in replaced' \cup {entry'}
                                                \/ chatSocket'[s] \in {"none", "closed"}
      BY DEF SessionsAccountedFor
    <3>1. CASE s = m
      BY <2>1, <3>1
    <3>2. CASE s # m
      BY <2>1, <3>2 DEF ChannelInv, ChannelTypeOK, SessionsAccountedFor, Distinct
    <3> QED  BY <3>1, <3>2
  <2> QED  BY <2>2, <2>3, <2>4, <2>5, <2>6 DEF ChannelInv
<1> QED  BY <1>1, <1>2

LEMMA SocketSteps ==
  ASSUME ChannelInv, NEW s \in Texts, SocketOpens(s) \/ SocketEnds(s) \/ SocketCloses(s)
  PROVE  ChannelInv'
<1>1. CASE SocketOpens(s)
  BY <1>1 DEF SocketOpens, Handled, ChannelInv, ChannelTypeOK, SocketsFollow,
              ListedIsNotGone, LostOnlyToAnEnd, SessionsAccountedFor, Handling
<1>2. CASE SocketCloses(s) /\ entry = NoSession
  BY <1>2 DEF SocketCloses, ChannelInv, ChannelTypeOK, SocketsFollow,
              ListedIsNotGone, LostOnlyToAnEnd, SessionsAccountedFor, Handling
<1>3. CASE SocketCloses(s) /\ entry # NoSession
  <2>1. /\ chatSocket[s] \in {"ending", "closing"} /\ entry \in Texts
        /\ chatSocket' = [chatSocket EXCEPT ![s] = "closed"]
        /\ text' = [text EXCEPT ![s] = IF @ = "opening" THEN "failed" ELSE @]
        /\ chatTimer' = [chatTimer EXCEPT ![entry] = FALSE]
        /\ entry' = NoSession
        /\ replaced' = IF entry = s THEN replaced ELSE replaced \cup {entry}
        /\ UNCHANGED <<adapter, running, served, click>>
    BY <1>3 DEF SocketCloses, ChannelInv, ChannelTypeOK
  <2>2. /\ \A m \in Texts : text'[m] = text[m] \/ (text[m] = "opening" /\ text'[m] = "failed")
        /\ text' \in [Texts -> Handling] /\ DOMAIN chatSocket = Texts
    BY <2>1 DEF ChannelInv, ChannelTypeOK, Handling
  <2>3. ChannelTypeOK'
    BY <2>1, <2>2 DEF ChannelInv, ChannelTypeOK
  <2>4. SocketsFollow'
    BY <2>1, <2>2 DEF ChannelInv, SocketsFollow
  <2>5. ListedIsNotGone'
    BY <2>1 DEF ListedIsNotGone
  <2>6. LostOnlyToAnEnd'
    BY <2>1, <2>2 DEF ChannelInv, LostOnlyToAnEnd
  <2>7. SessionsAccountedFor'
    BY <2>1, <2>2 DEF ChannelInv, ChannelTypeOK, SessionsAccountedFor
  <2> QED  BY <2>3, <2>4, <2>5, <2>6, <2>7 DEF ChannelInv
<1>4. CASE SocketEnds(s)
  BY <1>4 DEF SocketEnds, ChannelInv, ChannelTypeOK, SocketsFollow,
              ListedIsNotGone, LostOnlyToAnEnd, SessionsAccountedFor, Handling
<1> QED  BY <1>1, <1>2, <1>3, <1>4

(* A torn down session's socket ends; who is told of it may not be.        *)
LEMMA TeardownStep ==
  ASSUME ChannelInv, entry # NoSession, Teardown, UNCHANGED <<adapter, text, click>>,
         running' \in BOOLEAN, chatTimer' \in [Texts -> BOOLEAN]
  PROVE  ChannelInv'
  BY DEF Teardown, Closing, ChannelInv, ChannelTypeOK, SocketsFollow,
         ListedIsNotGone, LostOnlyToAnEnd, SessionsAccountedFor

LEMMA EndSteps ==
  ASSUME ChannelInv, StopAdapter \/ \E s \in Texts : InactivityFires(s)
  PROVE  ChannelInv'
<1>1. CASE entry = NoSession
  BY <1>1 DEF StopAdapter, InactivityFires, ChannelInv, ChannelTypeOK, SocketsFollow,
              ListedIsNotGone, LostOnlyToAnEnd, SessionsAccountedFor
<1>2. CASE entry # NoSession
  BY <1>2, TeardownStep DEF StopAdapter, InactivityFires, ChannelInv, ChannelTypeOK
<1> QED  BY <1>1, <1>2

LEMMA ClickSteps ==
  ASSUME ChannelInv, ApprovalAsked \/ TelegramClick \/ SlackClick PROVE ChannelInv'
<1>1. /\ click' \in {"asked", "sent", "failed", "lost", "expired", "shown"}
      /\ UNCHANGED <<adapter, running, text, entry, chatSocket, chatTimer, served, replaced>>
  BY SentToListed DEF ApprovalAsked, TelegramClick, SlackClick
<1> QED  BY <1>1 DEF ChannelInv, ChannelTypeOK, SocketsFollow, ListedIsNotGone,
                     LostOnlyToAnEnd, SessionsAccountedFor

LEMMA ChannelInvStep ==
  ASSUME Distinct, ChannelInv, [ChannelNext]_channelVars PROVE ChannelInv'
<1>1. CASE UNCHANGED channelVars
  BY <1>1 DEF channelVars, ChannelInv, ChannelTypeOK, SocketsFollow, ListedIsNotGone,
              LostOnlyToAnEnd, SessionsAccountedFor
<1> QED  BY <1>1, TextStep, CreateSteps, SocketSteps, EndSteps, ClickSteps DEF ChannelNext

(* bot.ts, app.ts: however the handlers of texts, timers and close events  *)
(* of one chat interleave, the session it lists is timed and its socket    *)
(* was not closed by the adapter nor seen closed, so that a text or click  *)
(* is lost only while the other side's end is under way, and no session is *)
(* forgotten but in the named ways.                                        *)
THEOREM EntriesAlwaysHold == Distinct => (ChannelSpec => []EntriesHold)
<1> SUFFICES ASSUME Distinct PROVE ChannelSpec => []EntriesHold
  OBVIOUS
<1>1. ChannelInit => ChannelInv
  BY ChannelInvInit
<1>2. ChannelInv /\ [ChannelNext]_channelVars => ChannelInv'
  BY ChannelInvStep
<1>3. ChannelInv => EntriesHold
  BY DEF ChannelInv, EntriesHold
<1> QED  BY <1>1, <1>2, <1>3, PTL DEF ChannelSpec

(* Type correctness of the model of a chat.                                *)
THEOREM ChannelTypeCorrect == Distinct => (ChannelSpec => []ChannelTypeOK)
<1> SUFFICES ASSUME Distinct PROVE ChannelSpec => []ChannelTypeOK
  OBVIOUS
<1>1. ChannelInit => ChannelInv
  BY ChannelInvInit
<1>2. ChannelInv /\ [ChannelNext]_channelVars => ChannelInv'
  BY ChannelInvStep
<1>3. ChannelInv => ChannelTypeOK
  BY DEF ChannelInv
<1> QED  BY <1>1, <1>2, <1>3, PTL DEF ChannelSpec

-----------------------------------------------------------------------------
(* The panel's bounds are numbers.                                         *)
PanelBounds == /\ MaxSessions \in Nat /\ MaxSockets \in Nat /\ MaxAsked \in Nat
               /\ MaxRefreshes \in Nat

(* Nothing is connected or refreshed before there is a session.            *)
SocketsServe == /\ \A k \in PanelSockets : socket[k] # "none" => serves[k] # 0
                /\ \A c \in Refreshes : refreshing[c].at # "idle" => refreshing[c].sid # 0
                /\ creating \in {"configuring", "connecting"} => created # 0
                /\ creating = "posting" => created < MaxSessions

(* Unless a refresh crossed New Chat, a reconnection under way is for the  *)
(* session on display, and none is while New Chat goes on; New Chat closes *)
(* the current socket before it makes its own; and until it shows its      *)
(* session, and again when it is over, the current socket is of the        *)
(* session on display but for what a New Chat that failed leaves.          *)
ConnectsShown ==
  ~crossed =>
    /\ \A c \in Refreshes : refreshing[c].at = "connecting" =>
         refreshing[c].sid = sessionId /\ creating = "no"
    /\ creating \in {"configuring", "connecting"} => sessionId = created
    /\ creating = "connecting" => ~CurrentAlive
    /\ creating \in {"no", "posting"} =>
         \/ wsRef = 0
         \/ serves[wsRef] = sessionId
         \/ stranded = "open"
         \/ stranded = "closed" /\ ~CurrentAlive

PanelInv == PanelTypeOK /\ SocketsServe /\ ConnectsShown /\ RefreshKept

LEMMA PanelInvInit == ASSUME PanelBounds, PanelInit PROVE PanelInv
<1>1. 0 \in 0..0 /\ 0 \in 0..MaxSessions /\ 0 \in 0..MaxAsked
  BY DEF PanelBounds
<1>2. /\ created = 0 /\ sessionId = 0 /\ refreshTimer = 0 /\ wsRef = 0
      /\ serves = [k \in PanelSockets |-> 0] /\ asked = [k \in PanelSockets |-> 0]
      /\ socket = [k \in PanelSockets |-> "none"]
      /\ refreshing = [c \in Refreshes |-> [at |-> "idle", sid |-> 0]]
  BY DEF PanelInit, NotRefreshing
<1>3. /\ serves \in [PanelSockets -> 0..created] /\ asked \in [PanelSockets -> 0..MaxAsked]
      /\ refreshing \in [Refreshes -> [at : {"idle", "asking", "connecting"}, sid : 0..created]]
  BY <1>1, <1>2
<1>4. PanelTypeOK
  BY <1>1, <1>2, <1>3 DEF PanelInit, PanelTypeOK
<1>5. SocketsServe /\ ConnectsShown /\ RefreshKept
  BY <1>2 DEF PanelInit, SocketsServe, ConnectsShown, RefreshKept, Current
<1> QED  BY <1>4, <1>5 DEF PanelInv

(* connectWs leaves no current socket alive and makes none.                *)
LEMMA BeginConnectFacts ==
  ASSUME PanelTypeOK, NEW sid, BeginConnect(sid), UNCHANGED wsRef
  PROVE  /\ socket' \in [PanelSockets -> {"none", "connecting", "open", "closing", "closed"}]
         /\ stranded' \in {"no", "open", "closed"} /\ wsStatus' = "connecting"
         /\ ~CurrentAlive' /\ ~(Current("open"))'
         /\ \A k \in PanelSockets : socket'[k] # "none" => socket[k] # "none"
         /\ stranded' = "no" => stranded = "no"
         /\ sid = sessionId => stranded' # "open"
  BY DEF PanelTypeOK, BeginConnect, Current, CurrentAlive

(* A new socket is the current one, and connecting.                        *)
LEMMA NewSocketFacts ==
  ASSUME PanelTypeOK, NEW k \in PanelSockets, NEW sid \in 0..created, NewSocket(k, sid)
  PROVE  /\ socket' \in [PanelSockets -> {"none", "connecting", "open", "closing", "closed"}]
         /\ serves' \in [PanelSockets -> 0..created] /\ wsRef' = k
         /\ stranded' \in {"no", "open", "closed"}
         /\ serves'[wsRef'] = sid /\ ~(Current("open"))'
         /\ \A j \in PanelSockets \ {k} : socket'[j] = socket[j] /\ serves'[j] = serves[j]
         /\ UNCHANGED asked
  BY DEF PanelTypeOK, NewSocket, Current

LEMMA RefreshSteps ==
  ASSUME PanelBounds, PanelInv,
         \/ TimerFires \/ Reconnect
         \/ \E c \in Refreshes : \/ RefreshAnswered(c) \/ RefreshFails(c)
                                 \/ \E k \in PanelSockets : RefreshConnects(c, k)
  PROVE  PanelInv'
<1> USE DEF PanelBounds, PanelInv
<1>1. ASSUME NEW sid \in 1..created, BeginRefresh(sid), refreshTimer' \in {0, refreshTimer}
      PROVE  PanelInv'
  <2>1. PICK c \in Refreshes :
          /\ refreshing[c].at = "idle"
          /\ refreshing' = [refreshing EXCEPT ![c] = [at |-> "asking", sid |-> sid]]
    BY <1>1 DEF BeginRefresh
  <2>2. /\ tokenStatus' = "refreshing"
        /\ UNCHANGED <<sessionId, created, creating, socket, serves, wsRef, asked,
                       wsStatus, streaming, crossed, stranded>>
    BY <1>1 DEF BeginRefresh, chatVars, socketVars, shownVars, panelHistory
  <2>3. sid \in 0..created /\ sid # 0
    BY DEF PanelTypeOK
  <2>4. PanelTypeOK'
    BY <1>1, <2>1, <2>2, <2>3 DEF PanelTypeOK
  <2>5. SocketsServe'
    BY <2>1, <2>2, <2>3 DEF PanelTypeOK, SocketsServe
  <2>6. ConnectsShown'
    BY <2>1, <2>2 DEF PanelTypeOK, ConnectsShown, CurrentAlive, Current
  <2>7. RefreshKept'
    BY <2>1 DEF PanelTypeOK, RefreshKept
  <2> QED  BY <2>4, <2>5, <2>6, <2>7
<1>2. CASE TimerFires
  BY <1>1, <1>2 DEF TimerFires, PanelTypeOK
<1>3. CASE Reconnect
  BY <1>1, <1>3 DEF Reconnect, PanelTypeOK
<1>4. ASSUME NEW c \in Refreshes, RefreshAnswered(c) PROVE PanelInv'
  <2> DEFINE sid == refreshing[c].sid
  <2>1. /\ refreshing' = [refreshing EXCEPT ![c].at = "connecting"]
        /\ refreshing[c].at = "asking" /\ tokenStatus' = "ok" /\ BeginConnect(sid)
        /\ crossed' = (crossed \/ sid # sessionId \/ creating # "no")
        /\ UNCHANGED <<sessionId, created, creating, serves, wsRef, asked, streaming,
                       refreshTimer>>
    BY <1>4 DEF RefreshAnswered, chatVars
  <2>2. /\ socket' \in [PanelSockets -> {"none", "connecting", "open", "closing", "closed"}]
        /\ stranded' \in {"no", "open", "closed"} /\ wsStatus' = "connecting"
        /\ ~CurrentAlive' /\ ~(Current("open"))'
        /\ \A k \in PanelSockets : socket'[k] # "none" => socket[k] # "none"
        /\ stranded' = "no" => stranded = "no"
        /\ sid = sessionId => stranded' # "open"
    BY <2>1, BeginConnectFacts
  <2>3. /\ refreshing[c] \in [at : {"idle", "asking", "connecting"}, sid : 0..created]
        /\ sid \in 0..created /\ sid # 0
    BY <2>1 DEF PanelTypeOK, SocketsServe
  <2>4. PanelTypeOK'
    <3>1. refreshing' \in [Refreshes -> [at : {"idle", "asking", "connecting"}, sid : 0..created]]
      BY <2>1, <2>3 DEF PanelTypeOK
    <3> QED  BY <2>1, <2>2, <3>1 DEF PanelTypeOK
  <2>5. SocketsServe'
    BY <2>1, <2>2 DEF PanelTypeOK, SocketsServe
  <2>6. ConnectsShown'
    BY <2>1, <2>2 DEF PanelTypeOK, ConnectsShown
  <2>7. RefreshKept'
    BY <2>2 DEF RefreshKept
  <2> QED  BY <2>4, <2>5, <2>6, <2>7
<1>5. ASSUME NEW c \in Refreshes, NEW k \in PanelSockets, RefreshConnects(c, k)
      PROVE  PanelInv'
  <2> DEFINE sid == refreshing[c].sid
  <2>1. /\ refreshing' = [refreshing EXCEPT ![c] = [at |-> "idle", sid |-> 0]]
        /\ refreshing[c].at = "connecting" /\ NewSocket(k, sid)
        /\ UNCHANGED <<sessionId, created, creating, wsStatus, streaming, refreshTimer,
                       tokenStatus, crossed>>
    BY <1>5 DEF RefreshConnects, chatVars, shownVars, NotRefreshing
  <2>2. sid \in 0..created /\ sid # 0
    BY <2>1 DEF PanelTypeOK, SocketsServe
  <2>3. /\ socket' \in [PanelSockets -> {"none", "connecting", "open", "closing", "closed"}]
        /\ serves' \in [PanelSockets -> 0..created] /\ wsRef' = k
        /\ stranded' \in {"no", "open", "closed"}
        /\ serves'[wsRef'] = sid /\ ~(Current("open"))'
        /\ \A j \in PanelSockets \ {k} : socket'[j] = socket[j] /\ serves'[j] = serves[j]
        /\ UNCHANGED asked
    BY <2>1, <2>2, NewSocketFacts
  <2>4. PanelTypeOK'
    <3>1. 0 \in 0..created
      BY DEF PanelTypeOK
    <3>2. refreshing' \in [Refreshes -> [at : {"idle", "asking", "connecting"}, sid : 0..created]]
      BY <2>1, <3>1 DEF PanelTypeOK
    <3> QED  BY <2>1, <2>3, <3>2 DEF PanelTypeOK
  <2>5. SocketsServe'
    BY <2>1, <2>2, <2>3 DEF PanelTypeOK, SocketsServe
  <2>6. ConnectsShown'
    BY <2>1, <2>3 DEF PanelTypeOK, ConnectsShown
  <2>7. RefreshKept'
    BY <2>3 DEF RefreshKept
  <2> QED  BY <2>4, <2>5, <2>6, <2>7
<1>6. ASSUME NEW c \in Refreshes, RefreshFails(c) PROVE PanelInv'
  <2>1. /\ refreshing' = [refreshing EXCEPT ![c] = [at |-> "idle", sid |-> 0]]
        /\ tokenStatus' = "failed"
        /\ UNCHANGED <<sessionId, created, creating, socket, serves, wsRef, asked,
                       wsStatus, streaming, refreshTimer, crossed, stranded>>
    BY <1>6 DEF RefreshFails, NotRefreshing, chatVars, socketVars, shownVars, panelHistory
  <2>2. 0 \in 0..created
    BY DEF PanelTypeOK
  <2>3. PanelTypeOK'
    BY <2>1, <2>2 DEF PanelTypeOK
  <2>4. SocketsServe' /\ ConnectsShown' /\ RefreshKept'
    BY <2>1 DEF PanelTypeOK, SocketsServe, ConnectsShown, RefreshKept, CurrentAlive, Current
  <2> QED  BY <2>3, <2>4
<1> QED  BY <1>2, <1>3, <1>4, <1>5, <1>6

LEMMA NewChatSteps ==
  ASSUME PanelBounds, PanelInv,
         \/ NewChat \/ SessionAnswered \/ ConfigAnswered \/ ConfigFails
         \/ NewChatConnectFails \/ \E k \in PanelSockets : NewChatConnects(k)
  PROVE  PanelInv'
<1> USE DEF PanelBounds, PanelInv
<1>1. CASE NewChat
  BY <1>1 DEF NewChat, Reconnecting, socketVars, shownVars, tokenVars, PanelTypeOK,
              SocketsServe, ConnectsShown, RefreshKept, CurrentAlive, Current
<1>2. CASE SessionAnswered
  <2>1. /\ creating = "posting"
        /\ UNCHANGED <<socket, serves, wsRef, asked, wsStatus, streaming, refreshing,
                       refreshTimer, tokenStatus, crossed, stranded>>
        /\ \/ created' = created + 1 /\ sessionId' = created + 1 /\ creating' = "configuring"
           \/ created' = created /\ sessionId' = sessionId /\ creating' = "no"
    BY <1>2 DEF SessionAnswered, socketVars, shownVars, tokenVars, panelHistory
  <2>2. PanelTypeOK'
    <3>1. /\ created \in Nat /\ created' \in Nat /\ created <= created'
          /\ created' \in 0..MaxSessions /\ sessionId' \in 0..created'
      BY <2>1 DEF PanelTypeOK, SocketsServe
    <3>2. 0..created \subseteq 0..created'
      BY <3>1
    <3>3. refreshTimer' \in 0..created'
      BY <2>1, <3>2 DEF PanelTypeOK
    <3>4. serves' \in [PanelSockets' -> 0..created']
      BY <2>1, <3>2 DEF PanelTypeOK
    <3>5. refreshing' \in [Refreshes' ->
                             [at : {"idle", "asking", "connecting"}, sid : 0..created']]
      BY <2>1, <3>2 DEF PanelTypeOK
    <3> QED  BY <2>1, <3>1, <3>3, <3>4, <3>5 DEF PanelTypeOK
  <2>3. SocketsServe' /\ RefreshKept'
    BY <2>1 DEF PanelTypeOK, SocketsServe, RefreshKept, Current
  <2>4. ConnectsShown'
    BY <2>1 DEF ConnectsShown, CurrentAlive, Current
  <2> QED  BY <2>2, <2>3, <2>4
<1>3. CASE ConfigAnswered
  <2>1. /\ creating = "configuring" /\ creating' = "connecting" /\ tokenStatus' = "ok"
        /\ BeginConnect(created)
        /\ UNCHANGED <<sessionId, created, serves, wsRef, asked, streaming, refreshing,
                       refreshTimer, crossed>>
    BY <1>3 DEF ConfigAnswered
  <2>2. /\ socket' \in [PanelSockets -> {"none", "connecting", "open", "closing", "closed"}]
        /\ stranded' \in {"no", "open", "closed"} /\ wsStatus' = "connecting"
        /\ ~CurrentAlive' /\ ~(Current("open"))'
        /\ \A k \in PanelSockets : socket'[k] # "none" => socket[k] # "none"
    BY <2>1, BeginConnectFacts
  <2>3. PanelTypeOK' /\ SocketsServe'
    BY <2>1, <2>2 DEF PanelTypeOK, SocketsServe
  <2>4. ConnectsShown' /\ RefreshKept'
    BY <2>1, <2>2 DEF ConnectsShown, RefreshKept
  <2> QED  BY <2>3, <2>4
<1>4. CASE ConfigFails
  BY <1>4 DEF ConfigFails, socketVars, shownVars, tokenVars, PanelTypeOK,
              SocketsServe, ConnectsShown, RefreshKept, CurrentAlive, Current
<1>5. CASE NewChatConnectFails
  BY <1>5 DEF NewChatConnectFails, socketVars, shownVars, tokenVars, PanelTypeOK,
              SocketsServe, ConnectsShown, RefreshKept, CurrentAlive, Current
<1>6. ASSUME NEW k \in PanelSockets, NewChatConnects(k) PROVE PanelInv'
  <2>1. /\ creating = "connecting" /\ creating' = "no" /\ NewSocket(k, created)
        /\ UNCHANGED <<sessionId, created, wsStatus, streaming, refreshing, refreshTimer,
                       tokenStatus, crossed>>
    BY <1>6 DEF NewChatConnects, shownVars, tokenVars
  <2>2. created \in 0..created /\ created # 0
    BY <2>1 DEF PanelTypeOK, SocketsServe
  <2>3. /\ socket' \in [PanelSockets -> {"none", "connecting", "open", "closing", "closed"}]
        /\ serves' \in [PanelSockets -> 0..created] /\ wsRef' = k
        /\ stranded' \in {"no", "open", "closed"}
        /\ serves'[wsRef'] = created /\ ~(Current("open"))'
        /\ \A j \in PanelSockets \ {k} : socket'[j] = socket[j] /\ serves'[j] = serves[j]
        /\ UNCHANGED asked
    BY <2>1, <2>2, NewSocketFacts
  <2>4. PanelTypeOK' /\ SocketsServe'
    BY <2>1, <2>2, <2>3 DEF PanelTypeOK, SocketsServe
  <2>5. ConnectsShown' /\ RefreshKept'
    BY <2>1, <2>3 DEF ConnectsShown, RefreshKept
  <2> QED  BY <2>4, <2>5
<1> QED  BY <1>1, <1>2, <1>3, <1>4, <1>5, <1>6

(* The user, and what a socket's events do.                                *)
LEMMA EventSteps ==
  ASSUME PanelBounds, PanelInv,
         \/ Send
         \/ \E k \in PanelSockets : \/ Opens(k) \/ GatewayEnds(k) \/ Closes(k)
                                    \/ Chunk(k) \/ Ends(k)
  PROVE  PanelInv'
<1> USE DEF PanelBounds, PanelInv, PanelTypeOK, PanelSockets, PanelSessions, chatVars,
            socketVars, shownVars, tokenVars, panelHistory, SocketsServe, ConnectsShown,
            RefreshKept, CurrentAlive, Current
<1>1. CASE Send
  <2>1. /\ UNCHANGED <<sessionId, created, creating, socket, serves, wsRef, wsStatus,
                        refreshTimer, refreshing, tokenStatus, crossed, stranded>>
        /\ streaming' \in BOOLEAN
        /\ wsRef # 0 /\ asked[wsRef] < MaxAsked
        /\ asked' = [asked EXCEPT ![wsRef] = @ + 1]
    BY <1>1 DEF Send
  <2>2. asked' \in [PanelSockets -> 0..MaxAsked]
    <3>1. PICK n \in 0..MaxAsked : n = asked[wsRef]
      BY <2>1
    <3>2. n + 1 \in 0..MaxAsked
      BY <2>1, <3>1
    <3> QED  BY <2>1, <3>1, <3>2
  <2>3. PanelTypeOK'
    BY <2>1, <2>2
  <2>4. SocketsServe' /\ ConnectsShown' /\ RefreshKept'
    BY <2>1
  <2> QED  BY <2>3, <2>4
<1>2. ASSUME NEW k \in PanelSockets, Opens(k) PROVE PanelInv'
  BY <1>2 DEF Opens
<1>3. ASSUME NEW k \in PanelSockets, GatewayEnds(k) \/ Closes(k) PROVE PanelInv'
  <2>1. /\ UNCHANGED <<sessionId, created, creating, serves, wsRef, asked, refreshTimer,
                        refreshing, tokenStatus, crossed, stranded>>
        /\ wsStatus' \in {"idle", "connecting", "open", "closed"} /\ streaming' \in BOOLEAN
        /\ socket[k] # "none"
        /\ \/ socket' = [socket EXCEPT ![k] = "closing"]
           \/ socket' = [socket EXCEPT ![k] = "closed"]
    BY <1>3 DEF GatewayEnds, Closes
  <2>2. /\ socket' \in [PanelSockets -> {"none", "connecting", "open", "closing", "closed"}]
        /\ \A j \in PanelSockets : socket'[j] = socket[j]
                                   \/ (j = k /\ socket'[j] \in {"closing", "closed"})
    BY <2>1
  <2>3. PanelTypeOK'
    BY <2>1, <2>2
  <2>4. SocketsServe'
    BY <2>1, <2>2
  <2>5. ConnectsShown' /\ RefreshKept'
    BY <2>1, <2>2
  <2> QED  BY <2>3, <2>4, <2>5
<1>4. ASSUME NEW k \in PanelSockets, Chunk(k) \/ Ends(k) PROVE PanelInv'
  <2>1. /\ UNCHANGED <<sessionId, created, creating, socket, serves, wsRef, wsStatus,
                        refreshTimer, refreshing, tokenStatus, crossed, stranded>>
        /\ streaming' \in BOOLEAN
        /\ \/ asked' = asked
           \/ asked[k] > 0 /\ asked' = [asked EXCEPT ![k] = @ - 1]
    BY <1>4 DEF Chunk, Ends
  <2>2. asked[k] > 0 => asked[k] - 1 \in 0..MaxAsked
    <3>1. asked[k] \in 0..MaxAsked
      OBVIOUS
    <3> QED  BY <3>1
  <2>3. asked' \in [PanelSockets -> 0..MaxAsked]
    BY <2>1, <2>2
  <2>4. PanelTypeOK'
    BY <2>1, <2>3
  <2>5. SocketsServe' /\ ConnectsShown' /\ RefreshKept'
    BY <2>1
  <2> QED  BY <2>4, <2>5
<1> QED  BY <1>1, <1>2, <1>3, <1>4

LEMMA PanelInvStep == ASSUME PanelBounds, PanelInv, [PanelNext]_panelVars PROVE PanelInv'
<1>1. CASE UNCHANGED panelVars
  BY <1>1 DEF panelVars, chatVars, socketVars, shownVars, tokenVars, panelHistory, PanelInv,
              PanelTypeOK, SocketsServe, ConnectsShown, RefreshKept, CurrentAlive, Current
<1> QED  BY <1>1, RefreshSteps, NewChatSteps, EventSteps DEF PanelNext

(* Chat.tsx: however New Chat, refreshes, reconnections and the events of  *)
(* old sockets overlap, and whichever of them fails, the panel writes to   *)
(* no session but the one it shows, unless a refresh crossed New Chat or   *)
(* New Chat failed before it closed the previous session's socket; and an  *)
(* open chat's token is looked after.                                      *)
THEOREM PanelAlwaysHolds == PanelBounds => (PanelSpec => []PanelHolds)
<1> SUFFICES ASSUME PanelBounds PROVE PanelSpec => []PanelHolds
  OBVIOUS
<1>1. PanelInit => PanelInv
  BY PanelInvInit
<1>2. PanelInv /\ [PanelNext]_panelVars => PanelInv'
  BY PanelInvStep
<1>3. PanelInv => PanelHolds
  BY DEF PanelInv, ConnectsShown, PanelHolds, ServesShown
<1> QED  BY <1>1, <1>2, <1>3, PTL DEF PanelSpec

(* Type correctness of the panel.                                          *)
THEOREM PanelTypeCorrect == PanelBounds => (PanelSpec => []PanelTypeOK)
<1> SUFFICES ASSUME PanelBounds PROVE PanelSpec => []PanelTypeOK
  OBVIOUS
<1>1. PanelInit => PanelInv
  BY PanelInvInit
<1>2. PanelInv /\ [PanelNext]_panelVars => PanelInv'
  BY PanelInvStep
<1>3. PanelInv => PanelTypeOK
  BY DEF PanelInv
<1> QED  BY <1>1, <1>2, <1>3, PTL DEF PanelSpec
-----------------------------------------------------------------------------
(* The turns are positive numbers, 0 being the time before the first.      *)
StreamBounds == Turns \subseteq Nat \ {0} /\ MaxChunks \in Nat

(* The text of a turn's first n chunks; what a message of the turn says.   *)
Said(t, n) == [Empty EXCEPT ![t] = n]
Beginnings(t) == {Said(t, n) : n \in 1..MaxChunks}

(* "complete" makes the last call of its turn, and one more for the cost.  *)
ByComplete(call) == call.then \in {"cost", "reset"}

(* Calls are made in a turn, and no text is buffered that did not come.    *)
BufferCame == /\ replying \/ calls # <<>> => turn # 0
              /\ \A t \in Turns : buffer[t] <= chunks[t]

(* A call of an undisturbed turn t says a beginning of t, and all of it if *)
(* "complete" makes it - or the cost alone, when a message seen says all.  *)
Says(call, t, full, seen) ==
  \/ /\ call.text \in Beginnings(t)
     /\ call.to # 0 => seen[call.to] \in Beginnings(t)
     /\ ByComplete(call) => call.text = full
  \/ /\ call = [to |-> 0, text |-> Note, then |-> "reset"]
     /\ \E i \in DOMAIN seen : seen[i] = full

TurnHeld == replying \/ calls # <<>>

(* While nothing disturbed the stream, every call is one of the turn held, *)
(* the last of them "complete"'s once the turn has ended; and between two  *)
(* turns nothing is buffered and no message kept.                          *)
CallsOfTurn ==
  /\ TurnHeld => /\ turn \notin shown
                 /\ buffer = Said(turn, chunks[turn])
                 /\ chunks[turn] = 0 => calls = <<>>
  /\ ~TurnHeld => buffer = Empty /\ ts = 0
  /\ ts # 0 => screen[ts] \in Beginnings(turn)
  /\ \A i \in DOMAIN calls :
       /\ Says(calls[i], turn, buffer, screen)
       /\ calls[i].text = Note => Len(calls) = 1
       /\ ByComplete(calls[i]) <=> i = Len(calls) /\ ~replying

TurnsInOrder == /\ \A t \in Turns : t > turn => chunks[t] = 0
                /\ \A t \in shown : t <= turn

MessagesOfTurns ==
  \A i \in DOMAIN screen : \E t \in Turns : screen[i] \in Beginnings(t)

ShownStay == \A t \in shown : chunks[t] > 0 =>
               \E i \in DOMAIN screen : screen[i] = Said(t, chunks[t])

Undisturbed == CallsOfTurn /\ TurnsInOrder /\ MessagesOfTurns /\ ShownStay

StreamInv == StreamTypeOK /\ BufferCame /\ (~disturbed => Undisturbed)

(* What is said tells the turn and how much of it.                         *)
LEMMA SaidFacts ==
  ASSUME StreamBounds
  PROVE  /\ Empty \in Amounts
         /\ \A t \in Turns, n \in 0..MaxChunks : Said(t, n) \in Amounts
         /\ \A t \in Turns : Said(t, 0) = Empty /\ Empty \notin Beginnings(t)
         /\ \A t \in Turns : Beginnings(t) \subseteq Amounts
         /\ \A t, u \in Turns : \A x \in Beginnings(t) : x \in Beginnings(u) => t = u
<1> USE DEF StreamBounds
<1>1. Empty \in Amounts
  BY DEF Empty, Amounts
<1>2. ASSUME NEW t \in Turns, NEW n \in 0..MaxChunks
      PROVE  /\ Said(t, n) \in Amounts /\ Said(t, n)[t] = n
             /\ \A u \in Turns : u # t => Said(t, n)[u] = 0
  BY DEF Said, Empty, Amounts
<1>3. ASSUME NEW t \in Turns PROVE Said(t, 0) = Empty
  BY DEF Said, Empty
<1>4. ASSUME NEW t \in Turns PROVE Empty \notin Beginnings(t)
  <2>1. \A n \in 1..MaxChunks : Said(t, n)[t] # Empty[t]
    BY <1>2 DEF Empty
  <2> QED  BY <2>1 DEF Beginnings
<1>5. ASSUME NEW t \in Turns PROVE Beginnings(t) \subseteq Amounts
  BY <1>2 DEF Beginnings
<1>6. ASSUME NEW t \in Turns, NEW u \in Turns, NEW x \in Beginnings(t), x \in Beginnings(u)
      PROVE  t = u
  <2>1. PICK n \in 1..MaxChunks : x = Said(t, n)
    BY DEF Beginnings
  <2>2. PICK m \in 1..MaxChunks : x = Said(u, m)
    BY <1>6 DEF Beginnings
  <2>3. n \in 0..MaxChunks /\ m \in 0..MaxChunks /\ n # 0
    OBVIOUS
  <2>4. x[t] = n
    BY <1>2, <2>1, <2>3
  <2>5. u # t => x[t] = 0
    BY <1>2, <2>2, <2>3
  <2> QED  BY <2>3, <2>4, <2>5
<1> QED  BY <1>1, <1>2, <1>3, <1>4, <1>5, <1>6

LEMMA SaidMore ==
  ASSUME StreamBounds, NEW t \in Turns, NEW n \in Nat
  PROVE  [Said(t, n) EXCEPT ![t] = @ + 1] = Said(t, n + 1)
  BY DEF StreamBounds, Said, Empty

LEMMA StreamInvInit == ASSUME StreamBounds, StreamInit PROVE StreamInv
<1>1. StreamTypeOK
  <2>1. chunks \in Amounts /\ buffer \in Amounts
    BY SaidFacts DEF StreamInit
  <2>2. calls \in Seq(Calls(Len(screen))) /\ screen \in Seq(Amounts)
    BY DEF StreamInit
  <2>3. ts \in 0..Len(screen)
    BY DEF StreamInit
  <2>4. /\ style \in {"telegram", "slack"} /\ turn \in {0} \cup Turns
        /\ replying \in BOOLEAN /\ recent \in BOOLEAN
        /\ shown \subseteq Turns /\ disturbed \in BOOLEAN
    BY DEF StreamInit
  <2> QED  BY <2>1, <2>2, <2>3, <2>4 DEF StreamTypeOK
<1>2. BufferCame
  BY DEF StreamInit, BufferCame, Empty, StreamBounds
<1>3. Undisturbed
  BY DEF StreamInit, Undisturbed, CallsOfTurn, TurnHeld, TurnsInOrder, MessagesOfTurns,
         ShownStay, Empty
<1> QED  BY <1>1, <1>2, <1>3 DEF StreamInv

LEMMA RestOfCalls ==
  ASSUME NEW S, NEW q \in Seq(S), NEW i \in DOMAIN q
  PROVE  /\ RemoveAt(q, i) \in Seq(S)
         /\ Len(RemoveAt(q, i)) = Len(q) - 1
         /\ i = 1 => \A j \in 1..(Len(q) - 1) : RemoveAt(q, i)[j] = q[j + 1]
<1>1. i \in 1..Len(q) /\ Len(q) \in Nat
  OBVIOUS
<1> DEFINE head == SubSeq(q, 1, i - 1)
           rest == SubSeq(q, i + 1, Len(q))
<1>2. head \in Seq(S) /\ Len(head) = i - 1
  BY <1>1, SubSeqProperties
<1>3. /\ rest \in Seq(S) /\ Len(rest) = Len(q) - i
      /\ \A j \in 1..(Len(q) - i) : rest[j] = q[i + j]
  BY <1>1, SubSeqProperties
<1>4. RemoveAt(q, i) = head \o rest
  BY DEF RemoveAt
<1> HIDE DEF head, rest
<1>5. /\ head \o rest \in Seq(S) /\ Len(head \o rest) = Len(q) - 1
      /\ \A j \in 1..(Len(q) - 1) : (head \o rest)[j] = IF j <= Len(head) THEN head[j]
                                                       ELSE rest[j - Len(head)]
  <2>1. /\ head \o rest \in Seq(S) /\ Len(head \o rest) = Len(head) + Len(rest)
        /\ \A j \in 1..(Len(head) + Len(rest)) :
             (head \o rest)[j] = IF j <= Len(head) THEN head[j] ELSE rest[j - Len(head)]
    BY <1>2, <1>3, ConcatProperties
  <2>2. Len(head) + Len(rest) = Len(q) - 1
    BY <1>1, <1>2, <1>3
  <2> QED  BY <2>1, <2>2
<1>6. ASSUME i = 1, NEW j \in 1..(Len(q) - 1) PROVE (head \o rest)[j] = q[j + 1]
  <2>1. j - Len(head) = j /\ ~(j <= Len(head)) /\ j \in 1..(Len(q) - i)
    BY <1>1, <1>2, <1>6
  <2>2. (head \o rest)[j] = rest[j] /\ rest[j] = q[i + j]
    BY <1>3, <1>5, <2>1
  <2> QED  BY <1>6, <2>2
<1> QED  BY <1>4, <1>5, <1>6

(* Flush adds one call behind the others.                                  *)
LEMMA FlushAdds ==
  ASSUME StreamTypeOK, NEW said \in Amounts,
         NEW then \in {"nothing", "forget", "cost", "reset"}, Flush(said, then)
  PROVE  /\ calls' \in Seq(Calls(Len(screen))) /\ Len(calls') = Len(calls) + 1
         /\ recent' = TRUE
         /\ calls'[Len(calls) + 1] = [to |-> ts, text |-> said, then |-> then]
         /\ \A i \in 1..Len(calls) : calls'[i] = calls[i]
         /\ DOMAIN calls' = 1..(Len(calls) + 1)
<1> DEFINE new == [to |-> ts, text |-> said, then |-> then]
           S == Calls(Len(screen))
<1>1. new \in S /\ calls \in Seq(S)
  BY DEF StreamTypeOK, Calls
<1>2. calls' = Append(calls, new) /\ recent' = TRUE
  BY DEF Flush
<1> HIDE DEF new, S
<1>3. /\ Append(calls, new) \in Seq(S) /\ Len(Append(calls, new)) = Len(calls) + 1
      /\ Append(calls, new)[Len(calls) + 1] = new
      /\ \A i \in 1..Len(calls) : Append(calls, new)[i] = calls[i]
      /\ DOMAIN Append(calls, new) = 1..(Len(calls) + 1)
  BY <1>1
<1> QED  BY <1>2, <1>3 DEF new, S

(* A turn flushes a beginning of itself; only "complete", when it ends,    *)
(* makes a last call.                                                      *)
LEMMA FlushOfTurn ==
  ASSUME StreamBounds, StreamInv, Undisturbed, replying, NEW said \in Beginnings(turn),
         NEW then \in {"nothing", "forget", "cost", "reset"}, Flush(said, then),
         NEW full, then \in {"cost", "reset"} => said = full
  PROVE  \A i \in DOMAIN calls' :
           /\ Says(calls'[i], turn, full, screen)
           /\ calls'[i].text # Note
           /\ ByComplete(calls'[i]) <=> i = Len(calls') /\ then \in {"cost", "reset"}
<1>1. turn \in Turns /\ StreamTypeOK
  BY DEF StreamInv, StreamTypeOK, BufferCame
<1>2. said \in Amounts /\ Note \notin Beginnings(turn)
  BY <1>1, SaidFacts DEF Note
<1>3. /\ Len(calls') = Len(calls) + 1 /\ DOMAIN calls' = 1..(Len(calls) + 1)
      /\ calls'[Len(calls) + 1] = [to |-> ts, text |-> said, then |-> then]
      /\ \A i \in 1..Len(calls) : calls'[i] = calls[i]
  BY <1>1, <1>2, FlushAdds
<1>4. Len(calls) \in Nat /\ DOMAIN calls = 1..Len(calls)
  BY <1>1 DEF StreamTypeOK
<1>5. ASSUME NEW i \in 1..Len(calls)
      PROVE  /\ Says(calls[i], turn, full, screen)
             /\ calls[i].text # Note /\ ~ByComplete(calls[i])
  <2>1. Says(calls[i], turn, buffer, screen) /\ ~ByComplete(calls[i])
    BY <1>4 DEF Undisturbed, CallsOfTurn
  <2>2. calls[i].text \in Beginnings(turn) /\
        (calls[i].to # 0 => screen[calls[i].to] \in Beginnings(turn))
    BY <2>1 DEF Says, ByComplete
  <2> QED  BY <1>2, <2>1, <2>2 DEF Says
<1> DEFINE new == [to |-> ts, text |-> said, then |-> then]
<1>6. /\ Says(new, turn, full, screen) /\ new.text # Note
      /\ ByComplete(new) <=> then \in {"cost", "reset"}
  <2>1. new.text = said /\ new.to = ts /\ new.then = then
    OBVIOUS
  <2>2. ts # 0 => screen[ts] \in Beginnings(turn)
    BY DEF Undisturbed, CallsOfTurn
  <2> HIDE DEF new
  <2> QED  BY <1>2, <2>1, <2>2 DEF Says, ByComplete
<1> HIDE DEF new
<1>7. ASSUME NEW i \in DOMAIN calls'
      PROVE  (i = Len(calls) + 1 /\ calls'[i] = new) \/
             (i \in 1..Len(calls) /\ calls'[i] = calls[i] /\ i # Len(calls'))
  BY <1>3, <1>4 DEF new
<1> QED  BY <1>3, <1>5, <1>6, <1>7

LEMMA BeginTurnStep == ASSUME StreamBounds, StreamInv, BeginTurn PROVE StreamInv'
<1>1. StreamTypeOK' /\ BufferCame'
  BY DEF StreamInv, BeginTurn, StreamTypeOK, BufferCame, StreamBounds
<1>2. ASSUME ~disturbed' PROVE Undisturbed'
  <2>1. ~disturbed /\ Undisturbed /\ ~Finishing
    BY <1>2 DEF BeginTurn, StreamInv, StreamTypeOK
  <2>2. calls = <<>>
    <3>1. SUFFICES ASSUME calls # <<>> PROVE FALSE
      OBVIOUS
    <3>2. Len(calls) \in DOMAIN calls
      BY <3>1 DEF StreamInv, StreamTypeOK
    <3>3. ByComplete(calls[Len(calls)])
      BY <2>1, <3>2 DEF BeginTurn, Undisturbed, CallsOfTurn
    <3> QED  BY <2>1, <3>2, <3>3 DEF Finishing, ByComplete
  <2>3. turn' = turn + 1 /\ turn' \in Turns /\ turn \in Nat
    BY DEF BeginTurn, StreamInv, StreamTypeOK, StreamBounds
  <2>4. chunks[turn'] = 0 /\ turn' \notin shown
    BY <2>1, <2>3 DEF Undisturbed, TurnsInOrder
  <2>5. buffer = Empty /\ ts = 0
    BY <2>1, <2>2 DEF BeginTurn, Undisturbed, CallsOfTurn, TurnHeld
  <2>6. Said(turn', 0) = Empty
    BY <2>3, SaidFacts
  <2>7. CallsOfTurn'
    BY <2>2, <2>4, <2>5, <2>6 DEF BeginTurn, CallsOfTurn, TurnHeld
  <2>8. TurnsInOrder'
    BY <2>1, <2>3 DEF BeginTurn, Undisturbed, TurnsInOrder, StreamBounds, StreamInv,
                      StreamTypeOK
  <2>9. MessagesOfTurns' /\ ShownStay'
    BY <2>1 DEF BeginTurn, Undisturbed, MessagesOfTurns, ShownStay
  <2> QED  BY <2>7, <2>8, <2>9 DEF Undisturbed
<1> QED  BY <1>1, <1>2 DEF StreamInv

(* Only shown, the turns and the screen count for what is shown.           *)
LEMMA ShownKept ==
  ASSUME StreamBounds, StreamInv, Undisturbed, replying,
         UNCHANGED <<turn, screen, shown>>,
         \A t \in Turns : t # turn => chunks'[t] = chunks[t]
  PROVE  TurnsInOrder' /\ MessagesOfTurns' /\ ShownStay'
<1>1. turn \in Turns /\ turn \notin shown /\ shown \subseteq Turns
  BY DEF StreamInv, StreamTypeOK, BufferCame, Undisturbed, CallsOfTurn, TurnHeld
<1>2. TurnsInOrder'
  BY <1>1 DEF Undisturbed, TurnsInOrder, StreamBounds
<1>3. MessagesOfTurns'
  BY DEF Undisturbed, MessagesOfTurns
<1>4. ShownStay'
  <2>1. ASSUME NEW t \in shown PROVE chunks'[t] = chunks[t]
    BY <1>1, <2>1
  <2> QED  BY <2>1 DEF Undisturbed, ShownStay
<1> QED  BY <1>2, <1>3, <1>4

LEMMA ChunkStep == ASSUME StreamBounds, StreamInv, ChunkArrives PROVE StreamInv'
<1> DEFINE grown == [buffer EXCEPT ![turn] = @ + 1]
<1>1. /\ turn \in Turns /\ replying /\ chunks \in Amounts /\ buffer \in Amounts
      /\ StreamTypeOK /\ MaxChunks \in Nat
  BY DEF ChunkArrives, StreamInv, StreamTypeOK, BufferCame, StreamBounds
<1>2. grown \in Amounts /\ \A t \in Turns : grown[t] <= chunks'[t]
  BY <1>1 DEF ChunkArrives, StreamInv, BufferCame, Amounts
<1>3. /\ chunks' \in Amounts
      /\ \A t \in Turns : chunks'[t] = IF t = turn THEN chunks[t] + 1 ELSE chunks[t]
  BY <1>1 DEF ChunkArrives, Amounts
<1>4. buffer' = grown /\ UNCHANGED <<style, turn, replying, ts, screen, shown, disturbed>>
  BY DEF ChunkArrives
<1>5. ASSUME Undisturbed PROVE grown = Said(turn, chunks'[turn])
  <2>1. buffer = Said(turn, chunks[turn])
    BY <1>1, <1>5 DEF Undisturbed, CallsOfTurn, TurnHeld
  <2>2. chunks[turn] \in Nat /\ chunks'[turn] = chunks[turn] + 1
    BY <1>1, <1>3 DEF Amounts
  <2>3. [Said(turn, chunks[turn]) EXCEPT ![turn] = @ + 1] = Said(turn, chunks[turn] + 1)
    BY <1>1, <2>2, SaidMore
  <2> QED  BY <2>1, <2>2, <2>3
<1>6. CASE recent /\ UNCHANGED <<recent, calls>>
  <2>1. StreamTypeOK'
    BY <1>1, <1>2, <1>3, <1>4, <1>6 DEF StreamTypeOK
  <2>2. BufferCame'
    BY <1>2, <1>4, <1>6 DEF StreamInv, BufferCame
  <2> HIDE DEF grown
  <2>3. ASSUME ~disturbed' PROVE CallsOfTurn'
    <3>1. Undisturbed
      BY <1>4, <2>3 DEF StreamInv
    <3>2. grown = Said(turn, chunks'[turn])
      BY <1>5, <3>1
    <3>3. chunks'[turn] # 0
      BY <1>1, <1>3 DEF Amounts
    <3>4. \A i \in DOMAIN calls : Says(calls[i], turn, grown, screen)
      BY <1>1, <3>1 DEF Undisturbed, CallsOfTurn, Says, ByComplete
    <3> QED  BY <1>1, <1>4, <1>6, <3>1, <3>2, <3>3, <3>4
             DEF Undisturbed, CallsOfTurn, TurnHeld
  <2>4. ASSUME ~disturbed' PROVE Undisturbed'
    <3>1. Undisturbed
      BY <1>4, <2>4 DEF StreamInv
    <3> QED  BY <1>1, <1>3, <1>4, <2>3, <2>4, <3>1, ShownKept DEF Undisturbed
  <2> QED  BY <2>1, <2>2, <2>4 DEF StreamInv
<1>7. CASE Flush(grown, "nothing")
  <2>1. /\ calls' \in Seq(Calls(Len(screen))) /\ Len(calls') = Len(calls) + 1
        /\ recent' = TRUE
    BY <1>1, <1>2, <1>7, FlushAdds
  <2>2. StreamTypeOK'
    BY <1>1, <1>2, <1>3, <1>4, <2>1 DEF StreamTypeOK
  <2>3. BufferCame'
    BY <1>1, <1>2, <1>4 DEF StreamInv, BufferCame
  <2> HIDE DEF grown
  <2>4. ASSUME ~disturbed' PROVE CallsOfTurn'
    <3>1. Undisturbed
      BY <1>4, <2>4 DEF StreamInv
    <3>2. grown = Said(turn, chunks'[turn])
      BY <1>5, <3>1
    <3>3. chunks'[turn] \in 1..MaxChunks
      BY <1>1, <1>3 DEF Amounts
    <3>4. grown \in Beginnings(turn)
      BY <3>2, <3>3 DEF Beginnings
    <3>5. \A i \in DOMAIN calls' : /\ Says(calls'[i], turn, grown, screen)
                                   /\ calls'[i].text # Note /\ ~ByComplete(calls'[i])
      BY <1>1, <1>7, <3>1, <3>4, FlushOfTurn
    <3> QED  BY <1>1, <1>4, <3>1, <3>2, <3>3, <3>5 DEF Undisturbed, CallsOfTurn, TurnHeld
  <2>5. ASSUME ~disturbed' PROVE Undisturbed'
    <3>1. Undisturbed
      BY <1>4, <2>5 DEF StreamInv
    <3> QED  BY <1>1, <1>3, <1>4, <2>4, <2>5, <3>1, ShownKept DEF Undisturbed
  <2> QED  BY <2>2, <2>3, <2>5 DEF StreamInv
<1> QED  BY <1>6, <1>7 DEF ChunkArrives

LEMMA HalfSecondStep == ASSUME StreamBounds, StreamInv, HalfSecondPasses PROVE StreamInv'
  BY DEF HalfSecondPasses, StreamInv, StreamTypeOK, BufferCame, Undisturbed, CallsOfTurn,
         TurnHeld, TurnsInOrder, MessagesOfTurns, ShownStay

(* What an undisturbed turn has buffered is a beginning of it.             *)
LEMMA BufferSays ==
  ASSUME StreamBounds, StreamInv, Undisturbed, replying, buffer # Empty
  PROVE  buffer \in Beginnings(turn) /\ chunks[turn] # 0
<1>1. turn \in Turns /\ chunks \in Amounts /\ buffer = Said(turn, chunks[turn])
  BY DEF StreamInv, StreamTypeOK, BufferCame, Undisturbed, CallsOfTurn, TurnHeld
<1>2. chunks[turn] # 0
  BY <1>1, SaidFacts
<1>3. chunks[turn] \in 1..MaxChunks
  BY <1>1, <1>2 DEF Amounts, StreamBounds
<1> QED  BY <1>1, <1>2, <1>3 DEF Beginnings

LEMMA ToolPendingStep == ASSUME StreamBounds, StreamInv, ToolPending PROVE StreamInv'
<1>1. /\ turn \in Turns /\ replying /\ StreamTypeOK /\ buffer \in Amounts
      /\ UNCHANGED <<style, turn, replying, chunks, buffer, screen, shown, disturbed>>
  BY DEF ToolPending, StreamInv, StreamTypeOK, BufferCame
<1>2. CASE buffer = Empty
  <2>1. UNCHANGED <<recent, calls>> /\ (ts' = 0 \/ ts' = ts)
    BY <1>2 DEF ToolPending
  <2>2. StreamTypeOK' /\ BufferCame'
    BY <1>1, <2>1 DEF StreamInv, StreamTypeOK, BufferCame
  <2>3. ASSUME ~disturbed' PROVE Undisturbed'
    BY <1>1, <2>1, <2>3
       DEF StreamInv, Undisturbed, CallsOfTurn, TurnHeld, TurnsInOrder, MessagesOfTurns,
           ShownStay
  <2> QED  BY <2>2, <2>3 DEF StreamInv
<1>3. CASE buffer # Empty
  <2>1. PICK then \in {"nothing", "forget"} : Flush(buffer, then) /\ UNCHANGED ts
    BY <1>3 DEF ToolPending
  <2>2. calls' \in Seq(Calls(Len(screen))) /\ recent' = TRUE
    BY <1>1, <2>1, FlushAdds
  <2>3. StreamTypeOK'
    BY <1>1, <2>1, <2>2 DEF StreamTypeOK
  <2>4. BufferCame'
    BY <1>1 DEF StreamInv, BufferCame
  <2>5. ASSUME ~disturbed' PROVE Undisturbed'
    <3>1. Undisturbed
      BY <1>1, <2>5 DEF StreamInv
    <3>2. buffer \in Beginnings(turn) /\ chunks[turn] # 0
      BY <1>1, <1>3, <3>1, BufferSays
    <3>3. \A i \in DOMAIN calls' : /\ Says(calls'[i], turn, buffer, screen)
                                   /\ calls'[i].text # Note /\ ~ByComplete(calls'[i])
      BY <1>1, <2>1, <3>1, <3>2, FlushOfTurn
    <3>4. CallsOfTurn'
      BY <1>1, <2>1, <3>1, <3>2, <3>3 DEF Undisturbed, CallsOfTurn, TurnHeld
    <3> QED  BY <1>1, <3>1, <3>4, ShownKept DEF Undisturbed
  <2> QED  BY <2>3, <2>4, <2>5 DEF StreamInv
<1> QED  BY <1>2, <1>3

LEMMA ErrorStep == ASSUME StreamBounds, StreamInv, ErrorReported PROVE StreamInv'
<1>1. /\ turn \in Turns /\ StreamTypeOK /\ buffer \in Amounts
      /\ UNCHANGED <<style, turn, chunks, buffer, ts, screen, shown>>
      /\ replying' = FALSE /\ disturbed' = TRUE
  BY DEF ErrorReported, StreamInv, StreamTypeOK, BufferCame
<1>2. calls' \in Seq(Calls(Len(screen))) /\ recent' \in BOOLEAN
  <2>1. CASE UNCHANGED <<recent, calls>>
    BY <1>1, <2>1 DEF StreamTypeOK
  <2>2. CASE Flush(buffer, "nothing")
    BY <1>1, <2>2, FlushAdds
  <2> QED  BY <2>1, <2>2 DEF ErrorReported
<1>3. StreamTypeOK'
  BY <1>1, <1>2 DEF StreamTypeOK
<1>4. BufferCame'
  BY <1>1 DEF StreamInv, BufferCame, StreamBounds
<1> QED  BY <1>1, <1>3, <1>4 DEF StreamInv

LEMMA CompleteStep == ASSUME StreamBounds, StreamInv, Complete PROVE StreamInv'
<1>1. /\ turn \in Turns /\ turn # 0 /\ replying /\ replying' = FALSE
      /\ StreamTypeOK /\ buffer \in Amounts
      /\ UNCHANGED <<style, turn, chunks, screen, disturbed>>
  BY DEF Complete, StreamInv, StreamTypeOK, BufferCame
<1>2. CASE buffer = Empty /\ Reset /\ UNCHANGED calls
  <2>1. ts' = 0 /\ buffer' = Empty /\ recent' = FALSE /\ shown' = shown \cup {turn}
        /\ UNCHANGED <<calls, buffer>>
    BY <1>2 DEF Reset
  <2>2. StreamTypeOK' /\ BufferCame'
    <3>1. Len(screen) \in Nat /\ shown \subseteq Turns
      BY <1>1 DEF StreamTypeOK
    <3>2. ts' \in 0..Len(screen) /\ recent' \in BOOLEAN
      <4>1. 0 \in 0..Len(screen)
        BY <3>1
      <4> QED  BY <2>1, <4>1, Zenon
    <3>3. shown' \subseteq Turns
      BY <1>1, <2>1, <3>1
    <3>4. StreamTypeOK'
      BY <1>1, <2>1, <3>2, <3>3 DEF StreamTypeOK
    <3>5. BufferCame'
      BY <1>1, <2>1 DEF StreamInv, BufferCame
    <3> QED  BY <3>4, <3>5
  <2>3. ASSUME ~disturbed' PROVE Undisturbed'
    <3>1. Undisturbed
      BY <1>1, <2>3 DEF StreamInv
    <3>2. buffer = Said(turn, chunks[turn]) /\ (chunks[turn] = 0 => calls = <<>>)
      BY <1>1, <3>1 DEF Undisturbed, CallsOfTurn, TurnHeld
    <3>3. chunks[turn] = 0
      <4>1. SUFFICES ASSUME chunks[turn] # 0 PROVE FALSE
        OBVIOUS
      <4>2. chunks[turn] \in 1..MaxChunks
        BY <1>1, <4>1 DEF StreamTypeOK, Amounts, StreamBounds
      <4>3. buffer \in Beginnings(turn)
        BY <3>2, <4>2 DEF Beginnings
      <4> QED  BY <1>1, <1>2, <4>3, SaidFacts
    <3>4. CallsOfTurn'
      BY <1>1, <2>1, <3>2, <3>3 DEF CallsOfTurn, TurnHeld
    <3>5. TurnsInOrder' /\ MessagesOfTurns' /\ ShownStay'
      BY <1>1, <2>1, <3>1, <3>3
         DEF Undisturbed, TurnsInOrder, MessagesOfTurns, ShownStay, StreamBounds
    <3> QED  BY <3>4, <3>5 DEF Undisturbed
  <2> QED  BY <2>2, <2>3 DEF StreamInv
<1>3. CASE /\ buffer # Empty /\ UNCHANGED <<ts, buffer, shown>>
           /\ \E then \in {"cost", "reset"} : Flush(buffer, then)
  <2>1. PICK then \in {"cost", "reset"} : Flush(buffer, then)
    BY <1>3
  <2>2. /\ calls' \in Seq(Calls(Len(screen))) /\ recent' = TRUE
        /\ Len(calls') = Len(calls) + 1
    BY <1>1, <2>1, FlushAdds
  <2>3. StreamTypeOK'
    BY <1>1, <1>3, <2>2 DEF StreamTypeOK
  <2>4. BufferCame'
    BY <1>1, <1>3 DEF StreamInv, BufferCame
  <2>5. ASSUME ~disturbed' PROVE Undisturbed'
    <3>1. Undisturbed
      BY <1>1, <2>5 DEF StreamInv
    <3>2. buffer \in Beginnings(turn) /\ chunks[turn] # 0
      BY <1>1, <1>3, <3>1, BufferSays
    <3>3. \A i \in DOMAIN calls' : /\ Says(calls'[i], turn, buffer, screen)
                                   /\ calls'[i].text # Note
                                   /\ ByComplete(calls'[i]) <=> i = Len(calls')
      BY <1>1, <2>1, <3>1, <3>2, FlushOfTurn
    <3>4. calls' # <<>>
      BY <1>1, <2>2 DEF StreamTypeOK
    <3>5. CallsOfTurn'
      BY <1>1, <1>3, <3>1, <3>2, <3>3, <3>4 DEF Undisturbed, CallsOfTurn, TurnHeld
    <3> QED  BY <1>1, <1>3, <3>1, <3>5, ShownKept DEF Undisturbed
  <2> QED  BY <2>3, <2>4, <2>5 DEF StreamInv
<1> QED  BY <1>2, <1>3 DEF Complete

(* What a handler leaves, whatever it goes on to do.                       *)
LEMMA ContinueTypes ==
  ASSUME StreamBounds, StreamInv, NEW i \in DOMAIN calls,
         Continue(calls[i].then, Others(i)), UNCHANGED chunks
  PROVE  /\ calls' \in Seq(Calls(Len(screen))) /\ buffer' \in Amounts
         /\ \A t \in Turns : buffer'[t] <= chunks'[t]
         /\ recent' \in BOOLEAN /\ shown' \subseteq Turns
<1> DEFINE S == Calls(Len(screen))
<1>1. /\ calls \in Seq(S) /\ StreamTypeOK /\ BufferCame
      /\ buffer \in Amounts /\ chunks \in Amounts /\ recent \in BOOLEAN
      /\ shown \subseteq Turns
  BY DEF StreamInv, StreamTypeOK
<1>2. calls # <<>> /\ turn \in Turns
  BY <1>1 DEF BufferCame, StreamTypeOK
<1>3. [to |-> 0, text |-> Note, then |-> "reset"] \in S
  BY <1>1, SaidFacts DEF Calls, Note, StreamTypeOK
<1>4. calls[i].then \in {"nothing", "forget", "cost", "reset"}
  <2>1. calls[i] \in S
    BY <1>1
  <2> QED  BY <2>1 DEF Calls
<1>5. Empty \in Amounts /\ \A t \in Turns : Empty[t] <= chunks[t]
  BY <1>1, SaidFacts DEF Empty, Amounts, StreamBounds
<1> HIDE DEF S
<1>6. Others(i) \in Seq(S)
  BY <1>1, RestOfCalls DEF Others
<1>7. Append(Others(i), [to |-> 0, text |-> Note, then |-> "reset"]) \in Seq(S)
  BY <1>3, <1>6, AppendProperties
<1>8. CASE calls[i].then \in {"nothing", "forget"}
  <2>1. calls' = Others(i) /\ UNCHANGED <<buffer, recent, shown>>
    BY <1>8 DEF Continue
  <2> QED  BY <1>1, <1>6, <2>1 DEF BufferCame, S
<1>9. CASE calls[i].then = "cost"
  <2>1. calls' = Append(Others(i), [to |-> 0, text |-> Note, then |-> "reset"])
        /\ UNCHANGED <<buffer, recent, shown>>
    BY <1>9 DEF Continue
  <2> QED  BY <1>1, <1>7, <2>1 DEF BufferCame, S
<1>10. CASE calls[i].then = "reset"
  <2>1. calls' = Others(i) /\ buffer' = Empty /\ recent' = FALSE
        /\ shown' = shown \cup {turn}
    BY <1>10 DEF Continue
  <2> QED  BY <1>1, <1>2, <1>5, <1>6, <2>1 DEF S
<1> QED  BY <1>4, <1>8, <1>9, <1>10

LEMMA CallFailsStep ==
  ASSUME StreamBounds, StreamInv, NEW i \in DOMAIN calls, CallFails(i)
  PROVE  StreamInv'
<1>1. Continue(calls[i].then, Others(i)) /\ UNCHANGED chunks
  BY DEF CallFails
<1>2. /\ disturbed' = TRUE /\ UNCHANGED <<style, turn, replying, screen>>
      /\ ts' \in {0, ts}
  BY DEF CallFails
<1>3. turn # 0
  BY DEF StreamInv, StreamTypeOK, BufferCame
<1>4. ts' \in 0..Len(screen)
  BY <1>2 DEF StreamInv, StreamTypeOK
<1>5. StreamTypeOK'
  BY <1>1, <1>2, <1>4, ContinueTypes DEF StreamInv, StreamTypeOK
<1>6. BufferCame'
  BY <1>1, <1>2, <1>3, ContinueTypes DEF BufferCame
<1> QED  BY <1>2, <1>5, <1>6 DEF StreamInv

(* An answered call changes one message at most, or adds it.               *)
Place(call) == IF call.to = 0 THEN Len(screen) + 1 ELSE call.to

LEMMA ScreenStep ==
  ASSUME StreamBounds, StreamInv, NEW i \in DOMAIN calls, Answered(i)
  PROVE  /\ screen' \in Seq(Amounts)
         /\ Len(screen) <= Len(screen')
         /\ calls[i].text = Note => screen' = screen
         /\ calls[i].text # Note => /\ Place(calls[i]) \in DOMAIN screen'
                                    /\ screen'[Place(calls[i])] = calls[i].text
         /\ \A j \in DOMAIN screen' : \/ j = Place(calls[i]) /\ calls[i].text # Note
                                      \/ j \in DOMAIN screen /\ screen'[j] = screen[j]
<1>1. /\ screen \in Seq(Amounts) /\ calls \in Seq(Calls(Len(screen)))
      /\ Len(screen) \in Nat
  BY DEF StreamInv, StreamTypeOK
<1>2. calls[i] \in Calls(Len(screen))
  BY <1>1
<1>3. calls[i].text \in Amounts /\ calls[i].to \in 0..Len(screen)
  BY <1>2 DEF Calls
<1>4. CASE calls[i].text = Note
  <2>1. screen' = screen
    BY <1>4 DEF Answered
  <2> QED  BY <1>1, <1>4, <2>1
<1>5. CASE calls[i].text # Note /\ calls[i].to = 0
  <2>1. screen' = Append(screen, calls[i].text)
    BY <1>5 DEF Answered
  <2> QED  BY <1>1, <1>3, <1>5, <2>1, AppendProperties DEF Place
<1>6. CASE calls[i].text # Note /\ calls[i].to # 0
  <2>1. screen' = [screen EXCEPT ![calls[i].to] = calls[i].text]
    BY <1>6 DEF Answered
  <2>2. calls[i].to \in 1..Len(screen) /\ DOMAIN screen = 1..Len(screen)
    BY <1>1, <1>3, <1>6
  <2>3. screen' \in Seq(Amounts) /\ Len(screen') = Len(screen)
    BY <1>1, <1>3, <2>1, <2>2, ExceptSeq
  <2> QED  BY <1>1, <1>3, <1>6, <2>1, <2>2, <2>3 DEF Place
<1> QED  BY <1>4, <1>5, <1>6

LEMMA AnsweredTypes ==
  ASSUME StreamBounds, StreamInv, NEW i \in DOMAIN calls, Answered(i)
  PROVE  /\ StreamTypeOK' /\ BufferCame'
         /\ ts' = 0 \/ ts' = ts \/
            (ts' = Place(calls[i]) /\ calls[i].text # Note /\ calls[i].to = 0)
<1>1. Continue(calls[i].then, Others(i)) /\ UNCHANGED chunks
  BY DEF Answered
<1>2. /\ UNCHANGED <<style, turn, replying>>
      /\ ts' = Kept(calls[i], Len(screen) + 1)
      /\ disturbed' \in BOOLEAN
  BY DEF Answered, StreamInv, StreamTypeOK
<1>3. turn # 0
  BY DEF StreamInv, StreamTypeOK, BufferCame
<1>4. /\ screen' \in Seq(Amounts) /\ Len(screen) <= Len(screen')
      /\ calls[i].text # Note => Place(calls[i]) \in 1..Len(screen')
      /\ Len(screen) \in Nat /\ Len(screen') \in Nat
  BY ScreenStep DEF StreamInv, StreamTypeOK
<1>5. ts' = 0 \/ ts' = ts \/
      (ts' = Place(calls[i]) /\ calls[i].text # Note /\ calls[i].to = 0)
  BY <1>2 DEF Kept, Place
<1>6. ts' \in 0..Len(screen')
  <2>1. ts \in 0..Len(screen)
    BY DEF StreamInv, StreamTypeOK
  <2> QED  BY <1>4, <1>5, <2>1
<1>7. calls' \in Seq(Calls(Len(screen')))
  <2>1. Calls(Len(screen)) \subseteq Calls(Len(screen'))
    <3>1. 0..Len(screen) \subseteq 0..Len(screen')
      BY <1>4
    <3> QED  BY <3>1 DEF Calls
  <2>2. calls' \in Seq(Calls(Len(screen)))
    BY <1>1, ContinueTypes
  <2> HIDE DEF Calls
  <2> QED  BY <2>1, <2>2
<1>8. StreamTypeOK'
  BY <1>1, <1>2, <1>4, <1>6, <1>7, ContinueTypes DEF StreamInv, StreamTypeOK
<1>9. BufferCame'
  BY <1>1, <1>2, <1>3, ContinueTypes DEF BufferCame
<1> QED  BY <1>5, <1>8, <1>9

(* The first call of an undisturbed turn is answered: what the screen      *)
(* shows of other turns stays, and what a message of this turn showed is   *)
(* replaced by a beginning of it.                                          *)
LEMMA ScreenOfTurn ==
  ASSUME StreamBounds, StreamInv, Undisturbed, 1 \in DOMAIN calls, Answered(1)
  PROVE  /\ \A k \in DOMAIN screen : screen[k] \in Beginnings(turn) =>
              k \in DOMAIN screen' /\ screen'[k] \in Beginnings(turn)
         /\ \A k \in DOMAIN screen : screen[k] \notin Beginnings(turn) =>
              k \in DOMAIN screen' /\ screen'[k] = screen[k]
         /\ MessagesOfTurns'
<1> DEFINE call == calls[1]
<1>1. /\ turn \in Turns /\ screen \in Seq(Amounts) /\ screen' \in Seq(Amounts)
      /\ Len(screen) <= Len(screen') /\ Len(screen) \in Nat /\ Len(screen') \in Nat
      /\ DOMAIN screen = 1..Len(screen) /\ DOMAIN screen' = 1..Len(screen')
  BY ScreenStep DEF StreamInv, StreamTypeOK, BufferCame
<1>2. call.text # Note => /\ call.text \in Beginnings(turn)
                          /\ call.to # 0 => screen[call.to] \in Beginnings(turn)
  BY DEF Undisturbed, CallsOfTurn, Says
<1>3. /\ call.text # Note => screen'[Place(call)] = call.text
      /\ \A j \in DOMAIN screen' : \/ j = Place(call) /\ call.text # Note
                                   \/ j \in DOMAIN screen /\ screen'[j] = screen[j]
  BY ScreenStep
<1> HIDE DEF call
<1>4. ASSUME NEW k \in DOMAIN screen PROVE k \in DOMAIN screen'
  BY <1>1
<1>5. ASSUME NEW k \in DOMAIN screen, screen[k] \in Beginnings(turn)
      PROVE  screen'[k] \in Beginnings(turn)
  BY <1>2, <1>3, <1>4, <1>5
<1>6. ASSUME NEW k \in DOMAIN screen, screen[k] \notin Beginnings(turn)
      PROVE  screen'[k] = screen[k]
  <2>1. CASE k = Place(call) /\ call.text # Note
    <3>1. call.to # 0 => k = call.to
      BY <2>1 DEF Place
    <3>2. k # Len(screen) + 1
      BY <1>1
    <3> QED  BY <1>2, <1>6, <2>1, <3>1, <3>2 DEF Place
  <2> QED  BY <1>3, <1>4, <2>1
<1>7. MessagesOfTurns'
  <2>1. SUFFICES ASSUME NEW j \in DOMAIN screen'
                 PROVE  \E t \in Turns : screen'[j] \in Beginnings(t)
    BY DEF MessagesOfTurns, Beginnings, Said, Empty
  <2>2. CASE j = Place(call) /\ call.text # Note
    BY <1>1, <1>2, <1>3, <2>2
  <2>3. CASE j \in DOMAIN screen /\ screen'[j] = screen[j]
    BY <2>3 DEF Undisturbed, MessagesOfTurns
  <2> QED  BY <1>3, <2>1, <2>2, <2>3
<1> QED  BY <1>4, <1>5, <1>6, <1>7

LEMMA AnsweredInOrder ==
  ASSUME StreamBounds, StreamInv, Undisturbed, 1 \in DOMAIN calls, Answered(1)
  PROVE  Undisturbed'
<1> DEFINE call == calls[1]
           note == [to |-> 0, text |-> Note, then |-> "reset"]
<1>1. /\ turn \in Turns /\ turn \notin shown /\ TurnHeld /\ chunks[turn] # 0
      /\ buffer = Said(turn, chunks[turn]) /\ shown \subseteq Turns
      /\ calls \in Seq(Calls(Len(screen))) /\ Len(calls) \in Nat /\ Len(calls) # 0
      /\ DOMAIN calls = 1..Len(calls)
  BY DEF StreamInv, StreamTypeOK, BufferCame, Undisturbed, CallsOfTurn, TurnHeld
<1>2. Note \notin Beginnings(turn) /\ chunks[turn] \in 1..MaxChunks
  BY <1>1, SaidFacts DEF Note, StreamInv, StreamTypeOK, Amounts, StreamBounds
<1>3. buffer \in Beginnings(turn)
  BY <1>1, <1>2 DEF Beginnings
<1>4. UNCHANGED <<style, turn, replying, chunks>> /\ Continue(call.then, Others(1))
  BY DEF Answered
<1>5. /\ Others(1) \in Seq(Calls(Len(screen))) /\ Len(Others(1)) = Len(calls) - 1
      /\ \A j \in 1..(Len(calls) - 1) : Others(1)[j] = calls[j + 1]
      /\ DOMAIN Others(1) = 1..(Len(calls) - 1)
  <2>1. /\ Others(1) \in Seq(Calls(Len(screen))) /\ Len(Others(1)) = Len(calls) - 1
        /\ \A j \in 1..(Len(calls) - 1) : Others(1)[j] = calls[j + 1]
    BY <1>1, RestOfCalls DEF Others
  <2>2. DOMAIN Others(1) = 1..Len(Others(1))
    BY <2>1
  <2> QED  BY <2>1, <2>2
<1>6. ASSUME Len(calls) = 1 PROVE Others(1) = <<>>
  <2> DEFINE S == Calls(Len(screen))
  <2>1. Others(1) \in Seq(S) /\ Len(Others(1)) = 0
    BY <1>5, <1>6
  <2> HIDE DEF S
  <2>2. \A q \in Seq(S) : q # <<>> => Len(q) \in Nat \ {0}
    BY EmptySeq
  <2> QED  BY <2>1, <2>2
<1>7. /\ Says(call, turn, buffer, screen)
      /\ call.text = Note => Len(calls) = 1
      /\ ByComplete(call) <=> 1 = Len(calls) /\ ~replying
  BY DEF Undisturbed, CallsOfTurn
<1>8. call.then \in {"nothing", "forget", "cost", "reset"}
  <2>1. call \in Calls(Len(screen))
    BY <1>1
  <2> QED  BY <2>1 DEF Calls
<1>9. \A k \in DOMAIN screen : screen[k] \in Beginnings(turn) =>
        k \in DOMAIN screen' /\ screen'[k] \in Beginnings(turn)
  BY ScreenOfTurn
<1>10. /\ call.text = Note => screen' = screen
       /\ call.text # Note => /\ Place(call) \in DOMAIN screen'
                              /\ screen'[Place(call)] = call.text
  BY ScreenStep
<1>11. ts' # 0 => screen'[ts'] \in Beginnings(turn)
  <2>1. CASE ts' = ts
    <3>1. ts # 0 => ts \in DOMAIN screen /\ screen[ts] \in Beginnings(turn)
      BY DEF StreamInv, StreamTypeOK, Undisturbed, CallsOfTurn
    <3> QED  BY <1>9, <2>1, <3>1
  <2>2. CASE ts' = Place(call) /\ call.text # Note
    BY <1>7, <1>10, <2>2 DEF Says
  <2> QED  BY <2>1, <2>2, AnsweredTypes
<1>12. MessagesOfTurns'
  BY ScreenOfTurn
(* Whoever was shown still is.                                             *)
<1>13. ASSUME NEW t \in shown, chunks[t] > 0
       PROVE  \E i \in DOMAIN screen' : screen'[i] = Said(t, chunks[t])
  <2>1. PICK i \in DOMAIN screen : screen[i] = Said(t, chunks[t])
    BY <1>13 DEF Undisturbed, ShownStay
  <2>2. t \in Turns /\ t # turn /\ chunks[t] \in 1..MaxChunks
    BY <1>1, <1>13 DEF StreamInv, StreamTypeOK, Amounts, StreamBounds
  <2>3. screen[i] \in Beginnings(t)
    BY <2>1, <2>2 DEF Beginnings
  <2>4. screen[i] \notin Beginnings(turn)
    BY <1>1, <2>2, <2>3, SaidFacts
  <2> QED  BY <2>1, <2>4, ScreenOfTurn
<1> HIDE DEF call
<1>14. CASE call.then \in {"nothing", "forget"}
  <2>1. calls' = Others(1) /\ UNCHANGED <<buffer, recent, shown>>
    BY <1>4, <1>14 DEF Continue
  <2>2. ASSUME NEW j \in 1..(Len(calls) - 1)
        PROVE  /\ Says(calls[j + 1], turn, buffer, screen')
               /\ calls[j + 1].text # Note
               /\ ByComplete(calls[j + 1]) <=> j = Len(calls) - 1 /\ ~replying
    <3> PICK k : k = j + 1
      OBVIOUS
    <3>0. k \in DOMAIN calls /\ k # 1 /\ (k = Len(calls) <=> j = Len(calls) - 1)
      BY <1>1
    <3>1. /\ Says(calls[k], turn, buffer, screen)
          /\ calls[k].text = Note => Len(calls) = 1
          /\ ByComplete(calls[k]) <=> k = Len(calls) /\ ~replying
          /\ calls[k] \in Calls(Len(screen))
      <4>1. calls[k] \in Calls(Len(screen))
        BY <1>1, <3>0
      <4> QED  BY <3>0, <4>1 DEF Undisturbed, CallsOfTurn
    <3>2. calls[k].text # Note
      <4>1. Len(calls) # 1
        BY <1>1, <3>0
      <4> QED  BY <3>1, <4>1
    <3>3. calls[k].text # note.text
      BY <3>2
    <3>4. /\ calls[k].text \in Beginnings(turn)
          /\ calls[k].to # 0 => screen[calls[k].to] \in Beginnings(turn)
          /\ ByComplete(calls[k]) => calls[k].text = buffer
      BY <3>1, <3>3 DEF Says
    <3>5. calls[k].to # 0 => calls[k].to \in DOMAIN screen
      BY <3>1 DEF Calls, StreamInv, StreamTypeOK
    <3>6. Says(calls[k], turn, buffer, screen')
      BY <1>9, <3>4, <3>5 DEF Says
    <3> QED  BY <3>0, <3>1, <3>2, <3>6
  <2>3. calls' = <<>> => replying
    BY <1>1, <1>5, <1>7, <1>14, <2>1 DEF ByComplete
  <2>4. CallsOfTurn'
    <3>1. TurnHeld'
      BY <1>4, <2>3 DEF TurnHeld
    <3>2. ASSUME NEW j \in DOMAIN calls'
          PROVE  /\ Says(calls'[j], turn', buffer', screen')
                 /\ calls'[j].text # Note
                 /\ ByComplete(calls'[j]) <=> j = Len(calls') /\ ~replying'
      BY <1>4, <1>5, <2>1, <2>2
    <3>3. /\ turn' \notin shown' /\ buffer' = Said(turn', chunks'[turn'])
          /\ chunks'[turn'] # 0
      BY <1>1, <1>4, <2>1
    <3> QED  BY <1>4, <1>11, <3>1, <3>2, <3>3 DEF CallsOfTurn
  <2>5. TurnsInOrder' /\ ShownStay'
    BY <1>4, <1>13, <2>1 DEF Undisturbed, TurnsInOrder, ShownStay
  <2> QED  BY <1>12, <2>4, <2>5 DEF Undisturbed
<1>15. CASE call.then = "cost"
  <2>1. calls' = Append(Others(1), note) /\ UNCHANGED <<buffer, recent, shown>>
    BY <1>4, <1>15 DEF Continue
  <2>2. 1 = Len(calls) /\ ~replying
    BY <1>7, <1>15 DEF ByComplete
  <2>3. calls' = <<note>>
    <3>1. calls' = Append(<<>>, note)
      BY <1>6, <2>1, <2>2
    <3> HIDE DEF note
    <3> QED  BY <3>1
  <2>4. call.text = buffer /\ call.text # Note
    BY <1>2, <1>3, <1>7, <1>15 DEF Says, ByComplete
  <2>5. Says(note, turn, buffer, screen')
    BY <1>10, <2>4 DEF Says
  <2>6. ByComplete(note) /\ DOMAIN calls' = {1} /\ calls'[1] = note /\ Len(calls') = 1
    BY <2>3 DEF ByComplete
  <2> HIDE DEF note
  <2>7. CallsOfTurn'
    <3>1. TurnHeld'
      BY <2>3 DEF TurnHeld
    <3>2. ASSUME NEW j \in DOMAIN calls'
          PROVE  /\ Says(calls'[j], turn', buffer', screen')
                 /\ Len(calls') = 1
                 /\ ByComplete(calls'[j]) <=> j = Len(calls') /\ ~replying'
      BY <1>4, <2>1, <2>2, <2>5, <2>6
    <3>3. /\ turn' \notin shown' /\ buffer' = Said(turn', chunks'[turn'])
          /\ chunks'[turn'] # 0
      BY <1>1, <1>4, <2>1
    <3> QED  BY <1>4, <1>11, <3>1, <3>2, <3>3 DEF CallsOfTurn
  <2>8. TurnsInOrder' /\ ShownStay'
    BY <1>4, <1>13, <2>1 DEF Undisturbed, TurnsInOrder, ShownStay
  <2> QED  BY <1>12, <2>7, <2>8 DEF Undisturbed
<1>16. CASE call.then = "reset"
  <2>1. /\ calls' = Others(1) /\ buffer' = Empty /\ shown' = shown \cup {turn}
    BY <1>4, <1>16 DEF Continue
  <2>2. 1 = Len(calls) /\ ~replying
    BY <1>7, <1>16 DEF ByComplete
  <2>3. calls' = <<>> /\ ts' = 0
    <3>1. ts' = 0
      <4>1. ts' = Kept(call, Len(screen) + 1)
        BY DEF Answered, call
      <4> QED  BY <1>16, <4>1 DEF Kept
    <3> QED  BY <1>6, <2>1, <2>2, <3>1
  <2>4. \E i \in DOMAIN screen' : screen'[i] = buffer
    <3>1. CASE call.text = Note
      <4>1. call.text \notin Beginnings(turn)
        BY <1>2, <3>1
      <4>2. \E i \in DOMAIN screen : screen[i] = buffer
        BY <1>7, <4>1 DEF Says
      <4> QED  BY <1>10, <3>1, <4>2
    <3>2. CASE call.text # Note
      BY <1>7, <1>10, <1>16, <3>2 DEF Says, ByComplete
    <3> QED  BY <3>1, <3>2
  <2>5. CallsOfTurn'
    BY <1>4, <2>1, <2>2, <2>3 DEF CallsOfTurn, TurnHeld
  <2>6. TurnsInOrder'
    BY <1>1, <1>4, <2>1 DEF Undisturbed, TurnsInOrder, StreamBounds
  <2>7. ShownStay'
    BY <1>1, <1>4, <1>13, <2>1, <2>4 DEF ShownStay
  <2> QED  BY <1>12, <2>5, <2>6, <2>7 DEF Undisturbed
<1> QED  BY <1>8, <1>14, <1>15, <1>16

LEMMA StreamInvStep ==
  ASSUME StreamBounds, StreamInv, [StreamNext]_streamVars PROVE StreamInv'
<1>1. CASE UNCHANGED streamVars
  BY <1>1 DEF streamVars, StreamInv, StreamTypeOK, BufferCame, Undisturbed, CallsOfTurn,
              TurnHeld, TurnsInOrder, MessagesOfTurns, ShownStay
<1>2. ASSUME NEW i \in DOMAIN calls, Answered(i) PROVE StreamInv'
  <2>1. StreamTypeOK' /\ BufferCame'
    BY <1>2, AnsweredTypes
  <2>2. ASSUME ~disturbed' PROVE Undisturbed'
    <3>1. ~disturbed /\ ~(i > 1)
      BY <1>2, <2>2 DEF Answered, StreamInv, StreamTypeOK
    <3>2. i = 1
      BY <3>1 DEF StreamInv, StreamTypeOK
    <3> QED  BY <1>2, <3>1, <3>2, AnsweredInOrder DEF StreamInv
  <2> QED  BY <2>1, <2>2 DEF StreamInv
<1> QED  BY <1>1, <1>2, BeginTurnStep, ChunkStep, HalfSecondStep, ToolPendingStep, ErrorStep,
            CompleteStep, CallFailsStep DEF StreamNext

(* A message of one turn only is not shared.                               *)
LEMMA OneTurnEach ==
  ASSUME StreamBounds, StreamInv, MessagesOfTurns PROVE OneTurnPerMessage
<1>1. SUFFICES ASSUME NEW i \in DOMAIN screen
               PROVE  Cardinality({t \in Turns : screen[i][t] > 0}) <= 1
  BY DEF OneTurnPerMessage
<1>2. PICK u \in Turns, n \in 1..MaxChunks : screen[i] = Said(u, n)
  BY DEF MessagesOfTurns, Beginnings
<1>3. {t \in Turns : screen[i][t] > 0} = {u}
  <2>1. \A t \in Turns : screen[i][t] = IF t = u THEN n ELSE 0
    BY <1>2 DEF Said, Empty
  <2>2. \A t \in Turns : screen[i][t] > 0 <=> t = u
    BY <2>1 DEF StreamBounds
  <2> QED  BY <2>2
<1> QED  BY <1>3, FS_Singleton

(* bot.ts, app.ts: for any number of turns, chunks and messages, however   *)
(* the handlers of a reply's chunks, tools and end wait for their calls: a *)
(* completed reply is on the screen in full and no message mixes turns,    *)
(* unless a call failed or was overtaken or two turns overlapped.          *)
THEOREM RepliesAlwaysHold == StreamBounds => (StreamSpec => []RepliesHold)
<1> SUFFICES ASSUME StreamBounds PROVE StreamSpec => []RepliesHold
  OBVIOUS
<1>1. StreamInit => StreamInv
  BY StreamInvInit
<1>2. StreamInv /\ [StreamNext]_streamVars => StreamInv'
  BY StreamInvStep
<1>3. StreamInv => RepliesHold
  <2>1. StreamInv => RepliesShown
    BY DEF StreamInv, Undisturbed, ShownStay, RepliesShown, Said
  <2>2. StreamInv => TurnsApart
    BY OneTurnEach DEF StreamInv, Undisturbed, TurnsApart
  <2> QED  BY <2>1, <2>2 DEF RepliesHold
<1> QED  BY <1>1, <1>2, <1>3, PTL DEF StreamSpec

(* Type correctness of a streamed reply.                                   *)
THEOREM StreamTypeCorrect == StreamBounds => (StreamSpec => []StreamTypeOK)
<1> SUFFICES ASSUME StreamBounds PROVE StreamSpec => []StreamTypeOK
  OBVIOUS
<1>1. StreamInit => StreamInv
  BY StreamInvInit
<1>2. StreamInv /\ [StreamNext]_streamVars => StreamInv'
  BY StreamInvStep
<1>3. StreamInv => StreamTypeOK
  BY DEF StreamInv
<1> QED  BY <1>1, <1>2, <1>3, PTL DEF StreamSpec

-----------------------------------------------------------------------------
(***************************************************************************)
(* The control UI's audit log.                                             *)
(***************************************************************************)
Newer(S, i) == {j \in S : j > i}

LEMMA RankIsNat ==
  ASSUME NEW S, IsFiniteSet(S), NEW i
  PROVE  /\ IsFiniteSet(Newer(S, i)) /\ Rank(S, i) = Cardinality(Newer(S, i))
         /\ Rank(S, i) \in Nat
<1>1. Newer(S, i) \in SUBSET S
  BY DEF Newer
<1>2. IsFiniteSet(Newer(S, i))
  BY <1>1, FS_Subset
<1> QED BY <1>2, FS_CardinalityType DEF Rank, Newer

LEMMA RankGrows ==
  ASSUME NEW S, IsFiniteSet(S), NEW T, IsFiniteSet(T), S \subseteq T, NEW i
  PROVE  Rank(S, i) <= Rank(T, i)
<1>1. Newer(S, i) \in SUBSET Newer(T, i)
  BY DEF Newer
<1>2. Cardinality(Newer(S, i)) <= Cardinality(Newer(T, i))
  BY <1>1, RankIsNat, FS_Subset
<1> QED BY <1>2, RankIsNat

LEMMA RankFalls ==
  ASSUME NEW S, IsFiniteSet(S), S \subseteq Nat, NEW i \in Nat, NEW j \in S, i < j
  PROVE  Rank(S, j) < Rank(S, i)
<1>a. j \in Nat /\ ~(j > j) /\ j > i /\ \A k \in S : k > j => k > i
  OBVIOUS
<1>1. Newer(S, j) \in SUBSET Newer(S, i)
  BY <1>a DEF Newer
<1>2. j \in Newer(S, i) /\ j \notin Newer(S, j)
  BY <1>a DEF Newer
<1>3. /\ Cardinality(Newer(S, j)) <= Cardinality(Newer(S, i))
      /\ Cardinality(Newer(S, i)) # Cardinality(Newer(S, j))
  BY <1>1, <1>2, RankIsNat, FS_Subset
<1> QED BY <1>3, RankIsNat

(* No two have the same rank, so ranks in an interval are as many.         *)
LEMMA RanksBetween ==
  ASSUME NEW S, IsFiniteSet(S), S \subseteq Nat, NEW T, T \subseteq S,
         NEW from \in Nat, NEW to \in Nat, from <= to,
         \A j \in T : from <= Rank(S, j) /\ Rank(S, j) < to
  PROVE  IsFiniteSet(T) /\ Cardinality(T) \in Nat /\ Cardinality(T) <= to - from
<1> DEFINE rank == [j \in T |-> Rank(S, j)]
<1>1. IsFiniteSet(T) /\ Cardinality(T) \in Nat
  BY FS_Subset, FS_CardinalityType
<1>2. \A j \in T : Rank(S, j) \in from..(to - 1)
  BY RankIsNat
<1>3. \A i, j \in T : i # j => Rank(S, i) # Rank(S, j)
  <2> SUFFICES ASSUME NEW i \in T, NEW j \in T, i < j PROVE Rank(S, i) # Rank(S, j)
    OBVIOUS
  <2>1. Rank(S, j) < Rank(S, i)
    BY RankFalls
  <2> QED BY <2>1, RankIsNat
<1>4. rank \in Injection(T, from..(to - 1))
  BY <1>2, <1>3 DEF Injection, IsInjective
<1>5. IsFiniteSet(from..(to - 1)) /\ Cardinality(from..(to - 1)) = to - from
  <2>1. PICK b \in Int : b = to - 1
    OBVIOUS
  <2>2. IsFiniteSet(from..b) /\ Cardinality(from..b) = IF from > b THEN 0 ELSE (b - from) + 1
    BY FS_Interval
  <2> QED BY <2>1, <2>2
<1>6. Cardinality(T) <= Cardinality(from..(to - 1))
  BY <1>4, <1>5, FS_Injection
<1> QED BY <1>1, <1>5, <1>6

(* A nonempty set of subsets of a finite set has a smallest one.           *)
LEMMA SmallestOfSets ==
  ASSUME NEW S, IsFiniteSet(S), NEW T, T \subseteq SUBSET S, T # {}
  PROVE  \E x \in T : \A y \in T : ~(y \subseteq x /\ y # x)
<1>1. IsWellFoundedOn(StrictSubsetOrdering(S), SUBSET S)
  BY FS_StrictSubsetOrderingWellFounded, FS_FiniteSubsetsOfFinite
<1>2. \E x \in T : \A y \in T : ~ (<<y, x>> \in StrictSubsetOrdering(S))
  BY <1>1, WFMin
<1> QED BY <1>2 DEF StrictSubsetOrdering

LEMMA SmallestNewer ==
  ASSUME NEW S, IsFiniteSet(S), NEW T, T \subseteq S, T # {}
  PROVE  \E i \in T : \A j \in T : ~(Newer(S, j) \subseteq Newer(S, i) /\ Newer(S, j) # Newer(S, i))
<1> DEFINE tops == {Newer(S, i) : i \in T}
<1>1. tops \subseteq SUBSET S /\ tops # {}
  BY DEF Newer
<1>2. \E x \in tops : \A y \in tops : ~(y \subseteq x /\ y # x)
  <2> HIDE DEF tops
  <2> QED BY <1>1, SmallestOfSets
<1> QED BY <1>2

(* A page holds as many as there are from its offset on, at most its size, *)
(* and a full one reaches down to its last rank.                           *)
PageOf(S, at) == {i \in S : at <= Rank(S, i) /\ Rank(S, i) < at + PageSize}

LEMMA PageIsFull ==
  ASSUME NEW S, IsFiniteSet(S), S \subseteq Nat, NEW at \in Nat
  PROVE  /\ IsFiniteSet(PageOf(S, at)) /\ Cardinality(PageOf(S, at)) \in Nat
         /\ Cardinality(PageOf(S, at)) = PageSize =>
              \E b \in PageOf(S, at) : Rank(S, b) >= (at + PageSize) - 1
         /\ (\E i \in S : Rank(S, i) >= at + PageSize) => Cardinality(PageOf(S, at)) = PageSize
<1> USE ViewerAssumption
<1>0. PICK to \in Nat : to = at + PageSize
  OBVIOUS
<1>1. \A i \in S : Rank(S, i) \in Nat
  BY RankIsNat
<1>2. /\ IsFiniteSet(PageOf(S, at)) /\ Cardinality(PageOf(S, at)) \in Nat
      /\ Cardinality(PageOf(S, at)) <= PageSize
  <2>1. \A j \in PageOf(S, at) : at <= Rank(S, j) /\ Rank(S, j) < to
    BY <1>0 DEF PageOf
  <2>2. PageOf(S, at) \subseteq S /\ at <= to /\ to - at = PageSize
    BY <1>0 DEF PageOf
  <2> QED BY <2>1, <2>2, RanksBetween
<1>3. ASSUME \A b \in PageOf(S, at) : ~(Rank(S, b) >= (at + PageSize) - 1)
      PROVE  Cardinality(PageOf(S, at)) # PageSize
  <2>1. PICK last \in Nat : last = to - 1
    BY <1>0
  <2>2. \A j \in PageOf(S, at) : at <= Rank(S, j) /\ Rank(S, j) < last
    BY <1>0, <1>1, <1>3, <2>1 DEF PageOf
  <2>3. PageOf(S, at) \subseteq S /\ at <= last /\ last - at = PageSize - 1
    BY <1>0, <2>1 DEF PageOf
  <2>4. Cardinality(PageOf(S, at)) <= PageSize - 1
    BY <2>2, <2>3, RanksBetween
  <2> QED BY <1>2, <2>4
<1>4. ASSUME NEW i0 \in S, Rank(S, i0) >= at + PageSize
      PROVE  Cardinality(PageOf(S, at)) = PageSize
  <2> DEFINE Below == {i \in S : Rank(S, i) >= to}
  <2>1. Below \subseteq S /\ Below # {}
    BY <1>0, <1>4
  <2>2. PICK i \in Below : \A j \in Below : ~(Newer(S, j) \subseteq Newer(S, i)
                                               /\ Newer(S, j) # Newer(S, i))
    <3> HIDE DEF Below
    <3> QED BY <2>1, SmallestNewer
  <2>3. \A j \in S : j > i => Rank(S, j) < to
    <3> SUFFICES ASSUME NEW j \in S, j > i, ~(Rank(S, j) < to) PROVE FALSE
      OBVIOUS
    <3>1. j \in Below
      BY <1>0, <1>1
    <3>3. i \in Nat /\ j \in Nat /\ ~(j > j) /\ \A k \in S : k > j => k > i
      OBVIOUS
    <3>2. Newer(S, j) \subseteq Newer(S, i) /\ j \in Newer(S, i) /\ j \notin Newer(S, j)
      BY <3>3 DEF Newer
    <3> QED BY <2>2, <3>1, <3>2
  <2> DEFINE Top == {j \in S : j > i /\ Rank(S, j) < at}
             Mid == {j \in S : j > i /\ Rank(S, j) >= at}
  <2>4. Newer(S, i) = Top \cup Mid
    <3>1. \A j \in S : Rank(S, j) < at \/ Rank(S, j) >= at
      BY <1>1
    <3> QED BY <3>1 DEF Newer
  <2>5. IsFiniteSet(Top) /\ Cardinality(Top) \in Nat /\ Cardinality(Top) <= at
    <3>1. \A j \in Top : 0 <= Rank(S, j) /\ Rank(S, j) < at
      BY <1>1
    <3> HIDE DEF Top
    <3>2. Top \subseteq S /\ 0 \in Nat /\ 0 <= at /\ at - 0 = at
      BY DEF Top
    <3> QED BY <3>1, <3>2, RanksBetween
  <2>6. Mid \in SUBSET PageOf(S, at)
    BY <1>0, <2>3 DEF PageOf
  <2>7. IsFiniteSet(Mid) /\ Cardinality(Mid) \in Nat /\ Cardinality(Mid) <= Cardinality(PageOf(S, at))
    BY <1>2, <2>6, FS_Subset, FS_CardinalityType
  <2> HIDE DEF Top, Mid
  <2>8. /\ Cardinality(Newer(S, i)) = Cardinality(Top) + Cardinality(Mid) - Cardinality(Top \cap Mid)
        /\ Cardinality(Top \cap Mid) \in Nat
    <3>1. Top \cap Mid \in SUBSET Top
      OBVIOUS
    <3>2. IsFiniteSet(Top \cap Mid)
      BY <2>5, <3>1, FS_Subset
    <3> QED BY <2>4, <2>5, <2>7, <3>2, FS_Union, FS_CardinalityType
  <2>9. Rank(S, i) >= to /\ Rank(S, i) = Cardinality(Newer(S, i)) /\ Rank(S, i) \in Nat
    BY <2>2, RankIsNat
  <2> QED BY <1>0, <1>2, <2>5, <2>7, <2>8, <2>9
<1> QED BY <1>2, <1>3, <1>4

-----------------------------------------------------------------------------
Events == {i \in DOMAIN log : Matches(i, filter)}

LEMMA EventsFinite ==
  ASSUME ViewerTypeOK PROVE IsFiniteSet(Events) /\ Events \subseteq Nat /\ Events \subseteq 1..Len(log)
<1>1. DOMAIN log = 1..Len(log) /\ Len(log) \in Nat
  BY DEF ViewerTypeOK
<1>2. IsFiniteSet(1..Len(log))
  BY <1>1, FS_Interval
<1>3. Events \in SUBSET (1..Len(log))
  BY <1>1 DEF Events
<1>4. IsFiniteSet(Events)
  BY <1>2, <1>3, FS_Subset
<1>5. 1..Len(log) \subseteq Nat
  BY <1>1
<1> QED BY <1>3, <1>4, <1>5

(* When no severity is asked for, the route's page is that of its ranks.   *)
LEMMA PageIsRanks ==
  ASSUME ViewerTypeOK, filter # "severity", NEW at \in Nat
  PROVE  Page(at, filter) = PageOf(Events, at)
<1> USE ViewerAssumption
<1>1. IsFiniteSet(Events) /\ Events \subseteq Nat
  BY EventsFinite
<1>2. PICK to \in Nat : to = at + PageSize
  OBVIOUS
<1>3. \A i \in Events : Rank(Events, i) \in Nat
  BY <1>1, RankIsNat
<1>4. PICK N : N = Newest(Events, to)
  OBVIOUS
<1>5. {i \in DOMAIN log : filter # "session" \/ log[i]} = Events
  BY DEF Events, Matches, ViewerTypeOK
<1>6. {i \in QueryEvents(at + PageSize, filter) : Matches(i, filter)} = N
  BY <1>2, <1>4, <1>5 DEF QueryEvents, Newest, Events
<1>7. ASSUME NEW i \in N PROVE Rank(N, i) = Rank(Events, i)
  <2>1. i \in Events /\ Rank(Events, i) < to
    BY <1>4 DEF Newest
  <2>2. \A j \in Events : j > i => j \in N
    <3> SUFFICES ASSUME NEW j \in Events, j > i PROVE Rank(Events, j) < to
      BY <1>4 DEF Newest
    <3>1. Rank(Events, j) < Rank(Events, i)
      BY <1>1, <2>1, RankFalls
    <3> QED BY <1>3, <2>1, <3>1
  <2>3. {j \in N : j > i} = {j \in Events : j > i}
    BY <1>4, <2>2 DEF Newest
  <2> QED BY <2>3 DEF Rank
<1>8. Page(at, filter) = {i \in N : Rank(N, i) < to} \ {i \in N : Rank(N, i) < at}
  BY <1>2, <1>6 DEF Page, Slice, Newest
<1>9. Page(at, filter) = {i \in N : Rank(Events, i) < to /\ ~(Rank(Events, i) < at)}
  BY <1>7, <1>8
<1>10. \A i \in N : i \in Events
  BY <1>4 DEF Newest
<1>11. Page(at, filter) = {i \in Events : Rank(Events, i) < to /\ ~(Rank(Events, i) < at)}
  BY <1>4, <1>9 DEF Newest
<1> QED BY <1>2, <1>3, <1>11 DEF PageOf

(* A list of which what matches is newer than all on it, or older than its *)
(* last page while there is more; and that reaches down to a rank then, so *)
(* that the page of the next one follows on.                               *)
Unseen(S, seen, more) ==
  \A i \in S \ OnScreen(seen) :
    \/ \A a \in OnScreen(seen) : a < i
    \/ more /\ \A b \in seen[Len(seen)] : i < b
Reaches(S, seen, at) == \E b \in seen[Len(seen)] : Rank(S, b) >= at - 1
Holds(S, seen, more, at) ==
  /\ OnScreen(seen) \subseteq S
  /\ Unseen(S, seen, more)
  /\ seen # <<>> /\ more => Reaches(S, seen, at)

(* One page is asked for at a time, by what the viewer shows now.          *)
OneAsked ==
  /\ filter # "severity"
  /\ \A f, g \in PagesUnderWay : f = g
  /\ loading <=> PagesUnderWay # {}
  /\ \A f \in PagesUnderWay :
       /\ pages[f].filter = filter /\ pages[f].offset = offset
       /\ IF pages[f].replace THEN offset = 0 ELSE list # <<>> /\ hasMore
Extending == \E f \in PagesUnderWay : ~pages[f].replace
ListHolds ==
  /\ Extending => Holds(Events, list, hasMore, offset)
  /\ ~Extending => Holds(Events, list, hasMore, offset + PageSize)
AnswersHold ==
  \A f \in PagesUnderWay :
    pages[f].at = "200" =>
      Holds(Events, ListWith(pages[f]), IsFull(pages[f]), offset + PageSize)

ViewerInv ==
  ViewerTypeOK /\ (flaws = {} => OneAsked /\ ListHolds /\ AnswersHold)

LEMMA ListGrows ==
  ASSUME NEW T, NEW l \in Seq(T), NEW e \in T
  PROVE  /\ Append(l, e) \in Seq(T) /\ Append(l, e) # <<>>
         /\ OnScreen(Append(l, e)) = OnScreen(l) \cup e
         /\ Append(l, e)[Len(Append(l, e))] = e
<1>1. PICK n \in Nat : n = Len(l)
  OBVIOUS
<1>2. PICK s \in Seq(T) : s = Append(l, e)
  BY AppendProperties
<1>3. /\ DOMAIN l = 1..n /\ DOMAIN s = 1..(n + 1) /\ Len(s) = n + 1 /\ s[n + 1] = e
      /\ \A k \in 1..n : s[k] = l[k]
  BY <1>1, <1>2, AppendProperties
<1>4. UNION {s[k] : k \in 1..(n + 1)} = (UNION {l[k] : k \in 1..n}) \cup e
  <2>1. \A k \in 1..(n + 1) : k \in 1..n \/ k = n + 1
    OBVIOUS
  <2>2. n + 1 \in 1..(n + 1) /\ \A k \in 1..n : k \in 1..(n + 1)
    OBVIOUS
  <2>3. ASSUME NEW x PROVE x \in UNION {s[k] : k \in 1..(n + 1)} <=>
                           x \in (UNION {l[k] : k \in 1..n}) \cup e
    <3>1. x \in UNION {s[k] : k \in 1..(n + 1)} <=> \E k \in 1..(n + 1) : x \in s[k]
      OBVIOUS
    <3>2. x \in UNION {l[k] : k \in 1..n} <=> \E k \in 1..n : x \in l[k]
      OBVIOUS
    <3>3. (\E k \in 1..(n + 1) : x \in s[k]) <=> ((\E k \in 1..n : x \in s[k]) \/ x \in s[n + 1])
      BY <2>1, <2>2
    <3>4. (\E k \in 1..n : x \in s[k]) <=> (\E k \in 1..n : x \in l[k])
      BY <1>3
    <3>5. x \in (UNION {l[k] : k \in 1..n}) \cup e <=> (x \in UNION {l[k] : k \in 1..n} \/ x \in e)
      OBVIOUS
    <3>6. s[n + 1] = e
      BY <1>3
    <3> QED BY <3>1, <3>2, <3>3, <3>4, <3>5, <3>6
  <2> QED BY <2>3
<1> QED BY <1>2, <1>3, <1>4 DEF OnScreen

LEMMA NothingOnScreen == OnScreen(<<>>) = {}
  BY DEF OnScreen

(* The page an answer brings continues the list.                           *)
LEMMA ServedHolds ==
  ASSUME ViewerTypeOK, NEW x, x.events = PageOf(Events, offset),
         IF x.replace THEN offset = 0
         ELSE list # <<>> /\ hasMore /\ Holds(Events, list, hasMore, offset)
  PROVE  Holds(Events, ListWith(x), IsFull(x), offset + PageSize)
<1> USE ViewerAssumption
<1>1. IsFiniteSet(Events) /\ Events \subseteq Nat /\ Events \subseteq DOMAIN log
  BY EventsFinite DEF Events
<1>2. PICK S : S = Events
  OBVIOUS
<1>3. PICK at \in Nat : at = offset
  BY DEF ViewerTypeOK
<1>4. PICK E : E = PageOf(S, at)
  OBVIOUS
<1>5. x.events = E
  BY <1>2, <1>3, <1>4
<1>6. /\ Cardinality(E) \in Nat
      /\ Cardinality(E) = PageSize => \E b \in E : Rank(S, b) >= (at + PageSize) - 1
      /\ (\E i \in S : Rank(S, i) >= at + PageSize) => Cardinality(E) = PageSize
  BY <1>1, <1>2, <1>4, PageIsFull
<1>7. IsFull(x) <=> Cardinality(E) = PageSize
  BY <1>5 DEF IsFull
<1>8. \A i \in S : Rank(S, i) \in Nat
  BY <1>1, <1>2, RankIsNat
<1>9. \A i, j \in S : i < j => Rank(S, j) < Rank(S, i)
  BY <1>1, <1>2, RankFalls
<1>10. E \subseteq S /\ S \subseteq Nat /\ S \subseteq DOMAIN log
  BY <1>1, <1>2, <1>4 DEF PageOf
<1>11. \A i \in S \ E : Rank(S, i) < at \/ Rank(S, i) >= at + PageSize
  BY <1>4, <1>8 DEF PageOf
<1>12. \A b \in E : at <= Rank(S, b) /\ Rank(S, b) < at + PageSize
  BY <1>4 DEF PageOf
(* What is out of the page is newer than all of it, or older and the page  *)
(* is full.                                                                *)
<1>13. \A i \in S \ E : \/ Rank(S, i) < at /\ \A b \in E : b < i
                        \/ Rank(S, i) >= at + PageSize /\ IsFull(x) /\ \A b \in E : i < b
  <2> SUFFICES ASSUME NEW i \in S \ E
               PROVE  \/ Rank(S, i) < at /\ \A b \in E : b < i
                      \/ Rank(S, i) >= at + PageSize /\ IsFull(x) /\ \A b \in E : i < b
    OBVIOUS
  <2>1. CASE Rank(S, i) < at
    <3> SUFFICES ASSUME NEW b \in E PROVE b < i
      BY <2>1
    <3>1. at <= Rank(S, b) /\ Rank(S, b) \in Nat /\ Rank(S, i) \in Nat
      BY <1>8, <1>10, <1>12
    <3>2. i \in Nat /\ b \in Nat /\ i # b /\ ~(i < b)
      BY <1>9, <1>10, <2>1, <3>1
    <3> QED BY <3>2
  <2>2. CASE Rank(S, i) >= at + PageSize
    <3>1. IsFull(x)
      BY <1>6, <1>7, <2>2
    <3> SUFFICES ASSUME NEW b \in E PROVE i < b
      BY <2>2, <3>1
    <3>2. Rank(S, b) < at + PageSize /\ Rank(S, b) \in Nat /\ Rank(S, i) \in Nat
      BY <1>8, <1>10, <1>12
    <3>3. i \in Nat /\ b \in Nat /\ i # b /\ ~(b < i)
      BY <1>9, <1>10, <2>2, <3>2
    <3> QED BY <3>3
  <2> QED BY <1>11, <2>1, <2>2
<1>14. CASE x.replace
  <2>1. at = 0
    BY <1>3, <1>14
  <2>2. \A i \in S \ E : IsFull(x) /\ \A b \in E : i < b
    BY <1>8, <1>13, <2>1
  <2>3. CASE E = {}
    <3>1. ListWith(x) = <<>>
      BY <1>5, <1>14, <2>3 DEF ListWith
    <3> QED BY <1>2, <3>1, NothingOnScreen DEF Holds, Unseen
  <2>4. CASE E # {}
    <3>1. PICK l : l = Append(<<>>, E)
      OBVIOUS
    <3>2. ListWith(x) = l
      BY <1>5, <1>14, <2>4, <3>1 DEF ListWith
    <3>3. OnScreen(l) = E /\ l[Len(l)] = E
      <4>1. <<>> \in Seq({E}) /\ E \in {E}
        OBVIOUS
      <4>2. OnScreen(l) = OnScreen(<<>>) \cup E /\ l[Len(l)] = E
        BY <3>1, <4>1, ListGrows
      <4> QED BY <4>2, NothingOnScreen
    <3>4. Holds(S, l, IsFull(x), at + PageSize)
      <4>1. IsFull(x) => Reaches(S, l, at + PageSize)
        BY <1>6, <1>7, <3>3 DEF Reaches
      <4> QED BY <1>10, <2>2, <3>3, <4>1 DEF Holds, Unseen
    <3> QED BY <1>2, <1>3, <3>2, <3>4
  <2> QED BY <2>3, <2>4
<1>15. CASE ~x.replace
  <2>1. PICK l : l = list
    OBVIOUS
  <2>2. /\ l # <<>> /\ l \in Seq(SUBSET DOMAIN log) /\ OnScreen(l) \subseteq S
        /\ Reaches(S, l, at)
        /\ \A i \in S \ OnScreen(l) :
             (\A a \in OnScreen(l) : a < i) \/ (\A b \in l[Len(l)] : i < b)
    BY <1>2, <1>3, <1>15, <2>1 DEF Holds, Unseen, ViewerTypeOK
  <2>3. PICK b0 \in l[Len(l)] : Rank(S, b0) >= at - 1
    BY <2>2 DEF Reaches
  <2>4. b0 \in OnScreen(l)
    <3>1. Len(l) \in DOMAIN l
      BY <2>2
    <3> QED BY <2>3, <3>1 DEF OnScreen
  <2>5. b0 \in S
    BY <2>2, <2>4
  <2>6. \A i \in S \ OnScreen(l) : Rank(S, i) < at => \A a \in OnScreen(l) : a < i
    <3> SUFFICES ASSUME NEW i \in S \ OnScreen(l), Rank(S, i) < at
                 PROVE  ~ \A b \in l[Len(l)] : i < b
      BY <2>2
    <3>1. Rank(S, b0) \in Nat /\ Rank(S, i) \in Nat
      BY <1>8, <2>5
    <3>2. i < b0 => Rank(S, b0) < Rank(S, i)
      BY <1>9, <2>5
    <3> QED BY <2>3, <3>1, <3>2
  <2>7. CASE E = {}
    <3>1. ListWith(x) = l
      BY <1>5, <1>15, <2>1, <2>7 DEF ListWith
    <3>2. ~IsFull(x)
      BY <1>7, <2>7, FS_EmptySet
    <3>3. \A i \in S \ OnScreen(l) : \A a \in OnScreen(l) : a < i
      BY <1>13, <2>6, <2>7, <3>2
    <3>4. Holds(S, l, IsFull(x), at + PageSize)
      BY <2>2, <3>2, <3>3 DEF Holds, Unseen
    <3> QED BY <1>2, <1>3, <3>1, <3>4
  <2>8. CASE E # {}
    <3>1. PICK m : m = Append(l, E)
      OBVIOUS
    <3>2. ListWith(x) = m
      BY <1>5, <1>15, <2>1, <2>8, <3>1 DEF ListWith
    <3>3. OnScreen(m) = OnScreen(l) \cup E /\ m[Len(m)] = E
      <4>1. E \in SUBSET DOMAIN log
        BY <1>10
      <4> QED BY <2>2, <3>1, <4>1, ListGrows
    <3>4. \A i \in S \ OnScreen(m) :
            (\A a \in OnScreen(m) : a < i) \/ (IsFull(x) /\ \A b \in m[Len(m)] : i < b)
      <4> SUFFICES ASSUME NEW i \in S \ OnScreen(m)
                   PROVE  (\A a \in OnScreen(m) : a < i) \/ (IsFull(x) /\ \A b \in E : i < b)
        BY <3>3
      <4>1. i \in S \ E /\ i \in S \ OnScreen(l)
        BY <3>3
      <4>2. CASE Rank(S, i) < at /\ \A b \in E : b < i
        BY <2>6, <3>3, <4>1, <4>2
      <4>3. CASE IsFull(x) /\ \A b \in E : i < b
        BY <4>3
      <4> QED BY <1>13, <4>1, <4>2, <4>3
    <3>5. IsFull(x) => Reaches(S, m, at + PageSize)
      BY <1>6, <1>7, <3>3 DEF Reaches
    <3>6. Holds(S, m, IsFull(x), at + PageSize)
      BY <1>10, <2>2, <3>3, <3>4, <3>5 DEF Holds, Unseen
    <3> QED BY <1>2, <1>3, <3>2, <3>6
  <2> QED BY <2>7, <2>8
<1> QED BY <1>14, <1>15

(* What is logged is newer than all, and no rank falls.                    *)
LEMMA HoldsGrows ==
  ASSUME NEW S, IsFiniteSet(S), NEW T, IsFiniteSet(T), S \subseteq T, S \subseteq Nat,
         \A i \in T \ S : \A a \in S : a < i,
         NEW seen, NEW more, NEW at \in Int, Holds(S, seen, more, at)
  PROVE  Holds(T, seen, more, at)
<1>1. OnScreen(seen) \subseteq T
  BY DEF Holds
<1>2. Unseen(T, seen, more)
  BY DEF Holds, Unseen
<1>3. ASSUME Reaches(S, seen, at) PROVE Reaches(T, seen, at)
  <2>1. PICK b \in seen[Len(seen)] : Rank(S, b) >= at - 1
    BY <1>3 DEF Reaches
  <2>2. Rank(S, b) <= Rank(T, b) /\ Rank(S, b) \in Nat /\ Rank(T, b) \in Nat
    BY RankGrows, RankIsNat
  <2> QED BY <2>1, <2>2 DEF Reaches
<1> QED BY <1>1, <1>2, <1>3 DEF Holds

LEMMA WiderSeq == ASSUME NEW A, NEW B, A \subseteq B, NEW s \in Seq(A) PROVE s \in Seq(B)
<1>1. Len(s) \in Nat /\ s = [i \in 1..Len(s) |-> s[i]] /\ \A i \in 1..Len(s) : s[i] \in A
  BY LenProperties, ElementOfSeq
<1>2. \A i \in 1..Len(s) : s[i] \in B
  BY <1>1
<1> QED BY <1>1, <1>2, IsASeq

LEMMA PageMoves ==
  ASSUME ViewerTypeOK, NEW f \in DOMAIN pages, NEW x \in PageRequests,
         pages' = [pages EXCEPT ![f] = x]
  PROVE  /\ pages' \in Seq(PageRequests) /\ pages'[f] = x
         /\ \A g \in DOMAIN pages : g # f => pages'[g] = pages[g]
         /\ PagesUnderWay' = IF x.at = "taken" THEN PagesUnderWay \ {f} ELSE PagesUnderWay \cup {f}
<1>1. /\ pages' \in Seq(PageRequests) /\ DOMAIN pages' = DOMAIN pages /\ pages'[f] = x
      /\ \A g \in DOMAIN pages : g # f => pages'[g] = pages[g]
  BY DEF ViewerTypeOK
<1>2. x.at \in {"sent", "200", "failed", "taken"}
  BY DEF PageRequests
<1> QED BY <1>1, <1>2 DEF PagesUnderWay

LEMMA PageAsked ==
  ASSUME ViewerTypeOK, NEW at \in Nat, NEW replace \in BOOLEAN,
         NEW by \in {"none", "session", "severity"}, Fetch(at, replace, by)
  PROVE  \E f : /\ pages' \in Seq(PageRequests) /\ pages'[f] = AskedFor(at, replace, by)
                /\ \A g \in PagesUnderWay : pages'[g] = pages[g]
                /\ PagesUnderWay' = PagesUnderWay \cup {f}
<1>1. PICK x \in PageRequests : x = AskedFor(at, replace, by)
  BY DEF AskedFor, PageRequests
<1>2. PICK n \in Nat : n = Len(pages)
  BY DEF ViewerTypeOK
<1>3. /\ pages' \in Seq(PageRequests) /\ DOMAIN pages = 1..n /\ DOMAIN pages' = 1..(n + 1)
      /\ pages'[n + 1] = x /\ \A g \in 1..n : pages'[g] = pages[g]
  BY <1>1, <1>2 DEF ViewerTypeOK, Fetch
<1>4. x.at = "sent"
  BY <1>1 DEF AskedFor
<1>5. PagesUnderWay' = PagesUnderWay \cup {n + 1}
  BY <1>3, <1>4 DEF PagesUnderWay
<1> QED BY <1>1, <1>3, <1>5 DEF PagesUnderWay

LEMMA EmptyHolds == ASSUME NEW S, NEW more, NEW at PROVE Holds(S, <<>>, more, at)
  BY NothingOnScreen DEF Holds, Unseen

LEMMA ViewerInvInit == ViewerInit => ViewerInv
<1> SUFFICES ASSUME ViewerInit PROVE ViewerInv
  OBVIOUS
<1> USE ViewerAssumption DEF ViewerInit
<1>1. PICK x : x = AskedFor(0, TRUE, "none")
  OBVIOUS
<1>2. /\ x \in PageRequests /\ x.at = "sent" /\ x.replace = TRUE /\ x.filter = "none"
      /\ x.offset = 0
  BY <1>1 DEF AskedFor, PageRequests
<1>3. pages \in Seq(PageRequests) /\ DOMAIN pages = {1} /\ pages[1] = x
  <2>1. PICK R : R = PageRequests
    OBVIOUS
  <2>2. PICK s : s = <<x>>
    OBVIOUS
  <2>3. s \in Seq(R) /\ DOMAIN s = {1} /\ s[1] = x
    BY <1>2, <2>1, <2>2
  <2>4. pages = s
    BY <1>1, <2>2
  <2> QED BY <2>1, <2>3, <2>4
<1>4. PagesUnderWay = {1}
  BY <1>2, <1>3 DEF PagesUnderWay
<1>5. ViewerTypeOK
  <2>1. log \in Seq(BOOLEAN)
    <3>1. TRUE \in BOOLEAN
      OBVIOUS
    <3>2. ASSUME NEW B, NEW t \in B PROVE {<<>>, <<t>>, <<t, t, t>>} \subseteq Seq(B)
      OBVIOUS
    <3>3. {<<>>, <<TRUE>>, <<TRUE, TRUE, TRUE>>} \subseteq Seq(BOOLEAN)
      BY <3>1, <3>2, Zenon
    <3> QED BY <3>3, Zenon
  <2>2. list \in Seq(SUBSET DOMAIN log)
    OBVIOUS
  <2> QED BY <1>3, <2>1, <2>2 DEF ViewerTypeOK
<1>6. OneAsked
  BY <1>2, <1>3, <1>4 DEF OneAsked
<1>7. ListHolds
  BY EmptyHolds DEF ListHolds
<1>8. AnswersHold
  BY <1>2, <1>3, <1>4 DEF AnswersHold
<1> QED BY <1>5, <1>6, <1>7, <1>8 DEF ViewerInv

LEMMA LoggedKeeps ==
  ASSUME ViewerInv, NEW matching \in BOOLEAN, Logged(matching) PROVE ViewerInv'
<1> USE ViewerAssumption DEF ViewerInv
<1>1. PICK n \in Nat : n = Len(log)
  BY DEF ViewerTypeOK
<1>2. /\ log' \in Seq(BOOLEAN) /\ DOMAIN log = 1..n /\ DOMAIN log' = 1..(n + 1)
      /\ \A i \in 1..n : log'[i] = log[i]
  BY <1>1 DEF ViewerTypeOK, Logged
<1>3. ViewerTypeOK'
  <2>1. SUBSET DOMAIN log \subseteq SUBSET DOMAIN log'
    BY <1>2
  <2>2. PICK A, B : A = SUBSET DOMAIN log /\ B = SUBSET DOMAIN log'
    OBVIOUS
  <2>3. list \in Seq(B)
    BY <2>1, <2>2, WiderSeq DEF ViewerTypeOK
  <2>4. PICK C, D : C = PageRequests /\ D = PageRequests'
    OBVIOUS
  <2>5. C \subseteq D
    BY <2>1, <2>4 DEF PageRequests
  <2>6. pages \in Seq(D)
    BY <2>4, <2>5, WiderSeq DEF ViewerTypeOK
  <2>7. list' \in Seq(SUBSET DOMAIN log') /\ pages' \in Seq(PageRequests')
    BY <2>2, <2>3, <2>4, <2>6 DEF Logged
  <2> QED BY <1>2, <2>7 DEF ViewerTypeOK, Logged
<1>4. /\ IsFiniteSet(Events) /\ IsFiniteSet(Events') /\ Events \subseteq Nat
      /\ Events \subseteq Events' /\ \A i \in Events' \ Events : \A a \in Events : a < i
  <2>1. Events' \subseteq Events \cup {n + 1} /\ Events \subseteq Events' /\ Events \subseteq 1..n
    BY <1>2 DEF Events, Matches, Logged
  <2>2. Events' \in SUBSET (Events \cup {n + 1}) /\ IsFiniteSet(Events)
    BY <2>1, EventsFinite
  <2>3. IsFiniteSet(Events \cup {n + 1})
    BY <2>2, FS_AddElement
  <2>4. PICK S, T : S = Events \cup {n + 1} /\ T = Events'
    OBVIOUS
  <2>5. IsFiniteSet(T)
    BY <2>2, <2>3, <2>4, FS_Subset
  <2>6. \A i \in Events' \ Events : \A a \in Events : a < i
    BY <2>1
  <2> QED BY <2>1, <2>2, <2>4, <2>5, <2>6, EventsFinite
<1>5. PICK S, T : S = Events /\ T = Events'
  OBVIOUS
<1>6. ASSUME NEW seen, NEW more, NEW at \in Int, Holds(Events, seen, more, at)
      PROVE  Holds(Events', seen, more, at)
  BY <1>4, <1>5, <1>6, HoldsGrows
<1>7. PagesUnderWay' = PagesUnderWay /\ (Extending' <=> Extending)
  BY DEF PagesUnderWay, Extending, Logged
<1>8. ASSUME flaws' = {} PROVE OneAsked' /\ ListHolds' /\ AnswersHold'
  <2>1. OneAsked /\ ListHolds /\ AnswersHold /\ offset \in Int /\ offset + PageSize \in Int
    BY <1>8 DEF Logged, ViewerTypeOK
  <2>2. OneAsked'
    BY <1>7, <2>1 DEF OneAsked, Logged
  <2>3. ListHolds'
    <3>1. Extending => Holds(Events', list, hasMore, offset)
      BY <1>6, <2>1 DEF ListHolds
    <3>2. ~Extending => Holds(Events', list, hasMore, offset + PageSize)
      BY <1>6, <2>1 DEF ListHolds
    <3> QED BY <1>7, <3>1, <3>2 DEF ListHolds, Logged
  <2>4. AnswersHold'
    <3> SUFFICES ASSUME NEW f \in PagesUnderWay', pages'[f].at = "200"
                 PROVE  Holds(Events, ListWith(pages[f]), IsFull(pages[f]), offset + PageSize)'
      BY DEF AnswersHold
    <3>1. Holds(Events, ListWith(pages[f]), IsFull(pages[f]), offset + PageSize)
      BY <1>7, <2>1 DEF AnswersHold, Logged
    <3>2. PICK seen, more, at : seen = ListWith(pages[f]) /\ more = IsFull(pages[f])
                                 /\ at = offset + PageSize
      OBVIOUS
    <3>3. Holds(Events', seen, more, at)
      BY <1>6, <2>1, <3>1, <3>2
    <3>4. seen = ListWith(pages[f])' /\ more = IsFull(pages[f])' /\ at = (offset + PageSize)'
      BY <3>2 DEF ListWith, IsFull, Logged
    <3> QED BY <3>3, <3>4
  <2> QED BY <2>2, <2>3, <2>4
<1> QED BY <1>3, <1>8

LEMMA ServePageKeeps ==
  ASSUME ViewerInv, NEW f \in DOMAIN pages, ServePage(f) PROVE ViewerInv'
<1> USE ViewerAssumption DEF ViewerInv
<1>1. PICK x : x = [pages[f] EXCEPT !.at = "200", !.events = Page(pages[f].offset, pages[f].filter)]
  OBVIOUS
<1>2. pages[f] \in PageRequests
  BY DEF ViewerTypeOK
<1>3. /\ x \in PageRequests /\ x.at = "200" /\ x.replace = pages[f].replace
      /\ x.filter = pages[f].filter /\ x.offset = pages[f].offset
      /\ x.events = Page(pages[f].offset, pages[f].filter)
  <2>1. Page(pages[f].offset, pages[f].filter) \subseteq DOMAIN log
    BY DEF Page, Slice, Newest, QueryEvents
  <2> QED BY <1>1, <1>2, <2>1 DEF PageRequests
<1>4. pages' = [pages EXCEPT ![f] = x]
  BY <1>1, <1>2 DEF ServePage, ViewerTypeOK
<1>5. /\ pages' \in Seq(PageRequests) /\ pages'[f] = x
      /\ \A g \in DOMAIN pages : g # f => pages'[g] = pages[g]
      /\ PagesUnderWay' = PagesUnderWay \cup {f}
  BY <1>3, <1>4, PageMoves
<1>6. f \in PagesUnderWay /\ PagesUnderWay' = PagesUnderWay
  BY <1>5 DEF PagesUnderWay, ServePage
<1>7. ViewerTypeOK'
  BY <1>5 DEF ViewerTypeOK, ServePage, PageRequests
<1>8. ASSUME flaws' = {} PROVE OneAsked' /\ ListHolds' /\ AnswersHold'
  <2>1. OneAsked /\ ListHolds /\ AnswersHold
    BY <1>8 DEF ServePage
  <2>2. \A g \in PagesUnderWay : g = f
    BY <1>6, <2>1 DEF OneAsked
  <2>3. OneAsked'
    BY <1>3, <1>5, <1>6, <2>1, <2>2 DEF OneAsked, ServePage
  <2>4. /\ Extending' <=> Extending
        /\ Extending <=> ~x.replace
    BY <1>3, <1>5, <1>6, <2>2 DEF Extending
  <2>5. Events' = Events
    BY DEF Events, Matches, ServePage
  <2>6. ListHolds'
    BY <2>1, <2>4, <2>5 DEF ListHolds, ServePage
  <2>7. x.events = PageOf(Events, offset)
    <3>1. PICK at \in Nat : at = offset
      BY DEF ViewerTypeOK
    <3>2. filter # "severity" /\ pages[f].filter = filter /\ pages[f].offset = at
      BY <1>6, <2>1, <3>1 DEF OneAsked
    <3>3. Page(at, filter) = PageOf(Events, at)
      BY <3>2, PageIsRanks
    <3> QED BY <1>3, <3>1, <3>2, <3>3
  <2>8. Holds(Events, ListWith(x), IsFull(x), offset + PageSize)
    <3>1. x.replace \in BOOLEAN
      BY <1>3 DEF PageRequests
    <3>2. IF x.replace THEN offset = 0
          ELSE list # <<>> /\ hasMore /\ Holds(Events, list, hasMore, offset)
      BY <1>3, <1>6, <2>1, <2>4, <3>1 DEF OneAsked, ListHolds
    <3> QED BY <2>7, <3>2, ServedHolds
  <2>9. AnswersHold'
    <3>1. ListWith(pages[f])' = ListWith(x) /\ IsFull(pages[f])' = IsFull(x)
      BY <1>5 DEF ListWith, IsFull, ServePage
    <3>2. Holds(Events, ListWith(pages[f]), IsFull(pages[f]), offset + PageSize)'
      BY <2>5, <2>8, <3>1 DEF ServePage
    <3> QED BY <1>6, <2>2, <3>2 DEF AnswersHold
  <2> QED BY <2>3, <2>6, <2>9
<1> QED BY <1>7, <1>8

LEMMA PageFailsKeeps ==
  ASSUME ViewerInv, NEW f \in DOMAIN pages, PageFails(f) PROVE ViewerInv'
<1> USE ViewerAssumption DEF ViewerInv
<1>1. PICK x : x = [pages[f] EXCEPT !.at = "failed"]
  OBVIOUS
<1>2. pages[f] \in PageRequests
  BY DEF ViewerTypeOK
<1>3. /\ x \in PageRequests /\ x.at = "failed" /\ x.replace = pages[f].replace
      /\ x.filter = pages[f].filter /\ x.offset = pages[f].offset
  BY <1>1, <1>2 DEF PageRequests
<1>4. /\ pages' \in Seq(PageRequests) /\ pages'[f] = x
      /\ \A g \in DOMAIN pages : g # f => pages'[g] = pages[g]
      /\ PagesUnderWay' = PagesUnderWay \cup {f}
  BY <1>1, <1>3, PageMoves DEF PageFails
<1>5. f \in PagesUnderWay /\ PagesUnderWay' = PagesUnderWay
  BY <1>4 DEF PagesUnderWay, PageFails
<1>6. ViewerTypeOK'
  BY <1>4 DEF ViewerTypeOK, PageFails, PageRequests
<1>7. ASSUME flaws' = {} PROVE OneAsked' /\ ListHolds' /\ AnswersHold'
  <2>1. OneAsked /\ ListHolds /\ AnswersHold
    BY <1>7 DEF PageFails
  <2>2. \A g \in PagesUnderWay : g = f
    BY <1>5, <2>1 DEF OneAsked
  <2>3. OneAsked'
    BY <1>3, <1>4, <1>5, <2>1, <2>2 DEF OneAsked, PageFails
  <2>4. Extending' <=> Extending
    BY <1>3, <1>4, <1>5, <2>2 DEF Extending
  <2>5. Events' = Events
    BY DEF Events, Matches, PageFails
  <2>6. ListHolds'
    BY <2>1, <2>4, <2>5 DEF ListHolds, PageFails
  <2>7. AnswersHold'
    BY <1>3, <1>4, <1>5, <2>2 DEF AnswersHold
  <2> QED BY <2>3, <2>6, <2>7
<1> QED BY <1>6, <1>7

LEMMA PageArrivesKeeps ==
  ASSUME ViewerInv, NEW f \in DOMAIN pages, PageArrives(f) PROVE ViewerInv'
<1> USE ViewerAssumption DEF ViewerInv
<1>1. PICK x : x = [pages[f] EXCEPT !.at = "taken"]
  OBVIOUS
<1>2. pages[f] \in PageRequests
  BY DEF ViewerTypeOK
<1>3. x \in PageRequests /\ x.at = "taken"
  BY <1>1, <1>2 DEF PageRequests
<1>4. pages' \in Seq(PageRequests) /\ PagesUnderWay' = PagesUnderWay \ {f}
  BY <1>1, <1>3, PageMoves DEF PageArrives
<1>5. ViewerTypeOK'
  <2>1. list' \in Seq(SUBSET DOMAIN log)
    <3>1. PICK T : T = SUBSET DOMAIN log
      OBVIOUS
    <3>2. pages[f].events \in T /\ list \in Seq(T) /\ <<>> \in Seq(T)
      BY <1>2, <3>1 DEF PageRequests, ViewerTypeOK
    <3>3. PICK kept \in Seq(T) : kept = IF pages[f].replace THEN <<>> ELSE list
      BY <3>2
    <3>4. Append(kept, pages[f].events) \in Seq(T)
      BY <3>2, AppendProperties
    <3> QED BY <3>1, <3>3, <3>4 DEF PageArrives, ListWith
  <2>2. hasMore' \in BOOLEAN
    BY DEF PageArrives, IsFull
  <2> QED BY <1>4, <2>1, <2>2 DEF ViewerTypeOK, PageArrives, PageRequests
<1>6. ASSUME flaws' = {} PROVE OneAsked' /\ ListHolds' /\ AnswersHold'
  <2>1. OneAsked /\ ListHolds /\ AnswersHold /\ f \in PagesUnderWay
    BY <1>6 DEF PageArrives, PagesUnderWay
  <2>2. PagesUnderWay' = {}
    BY <1>4, <2>1 DEF OneAsked
  <2>3. OneAsked' /\ AnswersHold' /\ ~Extending'
    BY <2>1, <2>2 DEF OneAsked, AnswersHold, Extending, PageArrives
  <2>4. Events' = Events
    BY DEF Events, Matches, PageArrives
  <2>5. Holds(Events, list', hasMore', offset + PageSize)
    BY <2>1 DEF AnswersHold, PageArrives
  <2>6. ListHolds'
    BY <2>3, <2>4, <2>5 DEF ListHolds, PageArrives
  <2> QED BY <2>3, <2>6
<1> QED BY <1>5, <1>6

LEMMA FailureArrivesKeeps ==
  ASSUME ViewerInv, NEW f \in DOMAIN pages, FailureArrives(f) PROVE ViewerInv'
<1> USE DEF ViewerInv
<1>1. PICK x : x = [pages[f] EXCEPT !.at = "taken"]
  OBVIOUS
<1>2. pages[f] \in PageRequests
  BY DEF ViewerTypeOK
<1>3. x \in PageRequests
  BY <1>1, <1>2 DEF PageRequests
<1>4. pages' \in Seq(PageRequests)
  BY <1>1, <1>3, PageMoves DEF FailureArrives
<1>5. ViewerTypeOK'
  BY <1>4 DEF ViewerTypeOK, FailureArrives, PageRequests
<1> QED BY <1>5 DEF FailureArrives

LEMMA SetFilterKeeps ==
  ASSUME ViewerInv, NEW by \in {"none", "session", "severity"}, SetFilter(by) PROVE ViewerInv'
<1> USE ViewerAssumption DEF ViewerInv
<1>1. PICK x : x = AskedFor(0, TRUE, by)
  OBVIOUS
<1>2. x.at = "sent" /\ x.replace = TRUE /\ x.filter = by /\ x.offset = 0
  BY <1>1 DEF AskedFor
<1>3. PICK f : /\ pages' \in Seq(PageRequests) /\ pages'[f] = x
               /\ PagesUnderWay' = PagesUnderWay \cup {f}
  <2>1. Fetch(0, TRUE, by)
    BY DEF SetFilter
  <2> QED BY <1>1, <2>1, PageAsked
<1>4. ViewerTypeOK'
  <2>1. list' \in Seq(SUBSET DOMAIN log')
    BY DEF SetFilter
  <2>2. PageRequests' = PageRequests
    BY DEF PageRequests, SetFilter
  <2> QED BY <1>3, <2>1, <2>2 DEF ViewerTypeOK, SetFilter, Fetch
<1>5. ASSUME flaws' = {} PROVE OneAsked' /\ ListHolds' /\ AnswersHold'
  <2>1. PagesUnderWay = {} /\ by # "severity"
    BY <1>5 DEF SetFilter
  <2>2. PagesUnderWay' = {f}
    BY <1>3, <2>1
  <2>3. OneAsked'
    BY <1>2, <1>3, <2>1, <2>2 DEF OneAsked, SetFilter, Fetch
  <2>4. ListHolds'
    <3>1. list' = <<>>
      BY DEF SetFilter
    <3> QED BY <3>1, EmptyHolds DEF ListHolds
  <2>5. AnswersHold'
    BY <1>2, <1>3, <2>2 DEF AnswersHold
  <2> QED BY <2>3, <2>4, <2>5
<1> QED BY <1>4, <1>5

LEMMA LoadMoreKeeps == ASSUME ViewerInv, LoadMore PROVE ViewerInv'
<1> USE ViewerAssumption DEF ViewerInv
<1>0. PICK at \in Nat : at = offset + PageSize
  BY DEF ViewerTypeOK
<1>1. PICK x : x = AskedFor(at, FALSE, filter)
  OBVIOUS
<1>2. x.at = "sent" /\ x.replace = FALSE /\ x.filter = filter /\ x.offset = at
  BY <1>1 DEF AskedFor
<1>3. PICK f : /\ pages' \in Seq(PageRequests) /\ pages'[f] = x
               /\ PagesUnderWay' = PagesUnderWay \cup {f}
  <2>1. PICK by \in {"none", "session", "severity"} : by = filter
    BY DEF ViewerTypeOK
  <2>2. Fetch(at, FALSE, by)
    BY <1>0, <2>1 DEF LoadMore
  <2> QED BY <1>1, <2>1, <2>2, PageAsked
<1>4. ViewerTypeOK'
  BY <1>0, <1>3 DEF ViewerTypeOK, LoadMore, Fetch, PageRequests
<1>5. ASSUME flaws' = {} PROVE OneAsked' /\ ListHolds' /\ AnswersHold'
  <2>1. OneAsked /\ ListHolds /\ PagesUnderWay = {} /\ ~Extending
    BY <1>5 DEF LoadMore, OneAsked, Extending
  <2>2. PagesUnderWay' = {f}
    BY <1>3, <2>1
  <2>3. OneAsked'
    BY <1>0, <1>2, <1>3, <2>1, <2>2 DEF OneAsked, LoadMore, Fetch
  <2>4. ListHolds'
    <3>1. Extending'
      BY <1>2, <1>3, <2>2 DEF Extending
    <3>2. Events' = Events
      BY DEF Events, Matches, LoadMore
    <3>3. Holds(Events, list, hasMore, offset')
      BY <2>1 DEF ListHolds, LoadMore
    <3> QED BY <3>1, <3>2, <3>3 DEF ListHolds, LoadMore
  <2>5. AnswersHold'
    BY <1>2, <1>3, <2>2 DEF AnswersHold
  <2> QED BY <2>3, <2>4, <2>5
<1> QED BY <1>4, <1>5

LEMMA RefreshKeeps == ASSUME ViewerInv, Refresh PROVE ViewerInv'
<1> USE ViewerAssumption DEF ViewerInv
<1>1. PICK x : x = AskedFor(0, TRUE, filter)
  OBVIOUS
<1>2. x.at = "sent" /\ x.replace = TRUE /\ x.filter = filter /\ x.offset = 0
  BY <1>1 DEF AskedFor
<1>3. PICK f : /\ pages' \in Seq(PageRequests) /\ pages'[f] = x
               /\ PagesUnderWay' = PagesUnderWay \cup {f}
  <2>1. PICK by \in {"none", "session", "severity"} : by = filter
    BY DEF ViewerTypeOK
  <2>2. Fetch(0, TRUE, by)
    BY <2>1 DEF Refresh
  <2> QED BY <1>1, <2>1, <2>2, PageAsked
<1>4. ViewerTypeOK'
  BY <1>3 DEF ViewerTypeOK, Refresh, Fetch, PageRequests
<1>5. ASSUME flaws' = {} PROVE OneAsked' /\ ListHolds' /\ AnswersHold'
  <2>1. flaws = {} /\ ~(offset > 0) /\ PagesUnderWay = {}
    BY <1>5 DEF Refresh
  <2>6. OneAsked /\ ListHolds /\ offset = 0 /\ ~Extending
    BY <2>1 DEF ViewerTypeOK, Extending
  <2>2. PagesUnderWay' = {f}
    BY <1>3, <2>1
  <2>3. OneAsked'
    BY <1>2, <1>3, <2>2, <2>6 DEF OneAsked, Refresh, Fetch
  <2>4. ListHolds'
    <3>1. ~Extending'
      BY <1>2, <1>3, <2>2 DEF Extending
    <3>2. Events' = Events
      BY DEF Events, Matches, Refresh
    <3> QED BY <2>6, <3>1, <3>2 DEF ListHolds, Refresh
  <2>5. AnswersHold'
    BY <1>2, <1>3, <2>2 DEF AnswersHold
  <2> QED BY <2>3, <2>4, <2>5
<1> QED BY <1>4, <1>5

LEMMA StillKeeps ==
  ASSUME ViewerInv, autoRefresh' \in BOOLEAN,
         UNCHANGED <<log, filter, list, offset, hasMore, loading, pages, flaws>>
  PROVE  ViewerInv'
<1>1. PagesUnderWay' = PagesUnderWay /\ Events' = Events /\ (Extending' <=> Extending)
  BY DEF PagesUnderWay, Events, Matches, Extending
<1>2. ViewerTypeOK'
  BY DEF ViewerInv, ViewerTypeOK, PageRequests
<1>3. ASSUME flaws' = {} PROVE OneAsked' /\ ListHolds' /\ AnswersHold'
  <2>1. OneAsked /\ ListHolds /\ AnswersHold
    BY <1>3 DEF ViewerInv
  <2>2. OneAsked' /\ ListHolds'
    BY <1>1, <2>1 DEF OneAsked, ListHolds
  <2>3. AnswersHold'
    BY <1>1, <2>1 DEF AnswersHold, ListWith, IsFull
  <2> QED BY <2>2, <2>3
<1> QED BY <1>2, <1>3 DEF ViewerInv

LEMMA ViewerInvNext == ViewerInv /\ [ViewerNext]_viewerVars => ViewerInv'
<1> SUFFICES ASSUME ViewerInv, [ViewerNext]_viewerVars PROVE ViewerInv'
  OBVIOUS
<1>1. CASE \E matching \in BOOLEAN : Logged(matching)
  BY <1>1, LoggedKeeps
<1>2. ASSUME NEW f \in DOMAIN pages,
             ServePage(f) \/ PageFails(f) \/ PageArrives(f) \/ FailureArrives(f)
      PROVE  ViewerInv'
  BY <1>2, ServePageKeeps, PageFailsKeeps, PageArrivesKeeps, FailureArrivesKeeps
<1>3. CASE \E by \in {"none", "session", "severity"} : SetFilter(by)
  BY <1>3, SetFilterKeeps
<1>4. CASE LoadMore
  BY <1>4, LoadMoreKeeps
<1>5. CASE SetAutoRefresh
  <2>1. autoRefresh' \in BOOLEAN
    BY <1>5 DEF SetAutoRefresh
  <2> QED BY <1>5, <2>1, StillKeeps DEF SetAutoRefresh
<1>6. CASE Refresh
  BY <1>6, RefreshKeeps
<1>7. CASE UNCHANGED viewerVars
  <2>1. autoRefresh' \in BOOLEAN
    BY <1>7 DEF viewerVars, ViewerInv, ViewerTypeOK
  <2> QED BY <1>7, <2>1, StillKeeps DEF viewerVars
<1> QED BY <1>1, <1>2, <1>3, <1>4, <1>5, <1>6, <1>7 DEF ViewerNext

(* AuditLog.tsx, audit.route.ts: for any page size and any log, until one  *)
(* of the four flaws is met, the list and what an answer under way will    *)
(* make of it leave out only what is newer than all of it, or older than   *)
(* its last page; and the list reaches down to where the next page begins. *)
THEOREM ViewerInvariant == ViewerSpec => []ViewerInv
<1>1. ViewerInit => ViewerInv
  BY ViewerInvInit
<1>2. ViewerInv /\ [ViewerNext]_viewerVars => ViewerInv'
  BY ViewerInvNext
<1> QED BY <1>1, <1>2, PTL DEF ViewerSpec

(* AuditLog.tsx, audit.route.ts: so paging hides no event, whatever is     *)
(* logged between two pages.                                               *)
THEOREM NothingHiddenAlways == ViewerSpec => []NothingHidden
<1>1. ViewerInv => NothingHidden
  <2> SUFFICES ASSUME ViewerInv, flaws = {}, PagesUnderWay = {},
                      NEW i \in DOMAIN log, Matches(i, filter), i \notin OnScreen(list)
               PROVE  \/ \A a \in OnScreen(list) : a < i
                      \/ hasMore /\ \A b \in list[Len(list)] : i < b
    BY DEF NothingHidden
  <2>1. Holds(Events, list, hasMore, offset + PageSize)
    BY DEF ViewerInv, ListHolds, Extending
  <2>2. i \in Events \ OnScreen(list)
    BY DEF Events
  <2> QED BY <2>1, <2>2 DEF Holds, Unseen
<1> QED BY <1>1, ViewerInvariant, PTL
=============================================================================
