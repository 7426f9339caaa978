----------------------------- MODULE ChatFrames -----------------------------
(***************************************************************************)
(* What the sockets of a chat were sent, and what is promised of it.       *)
(***************************************************************************)
EXTENDS Naturals, Sequences

CONSTANT Messages

VARIABLES frames,                 \* message -> frames its socket sent
          stops                   \* how often the runtime stopped

Final == {"complete", "injection_warning", "cap_exceeded", "not_found", "agent_error"}

(* chat.route.ts, agent.impl.ts: a message is closed once - after its      *)
(* final frame nothing of it follows, but for the error of a stream that   *)
(* broke before its end was read.                                          *)
ClosedOnce ==
  \A m \in Messages : \A i \in 1..(Len(frames[m]) - 1) :
    frames[m][i] \in Final => /\ i = Len(frames[m]) - 1
                              /\ frames[m][i + 1] = "agent_error"
                              /\ stops > 0
=============================================================================
