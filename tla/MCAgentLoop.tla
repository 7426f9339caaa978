---------------------------- MODULE MCAgentLoop ----------------------------
(* Two plans, one instance.  Shared: two runs in one session, one call     *)
(* each, of up to two turns and of one.  Solo: one run that may emit three *)
(* calls, in one turn or over two, for a user without prior history.  What *)
(* a plan leaves out is the user's, the model's or the memory store's      *)
(* choice, which fairness never demands.                                   *)
EXTENDS AgentLoop, TLC

CONSTANTS s1, m1, m2, a1, a2, a3, b1

VARIABLE plan

MCSessions == {s1}
MCRuns == {m1, m2}
MCCalls == {a1, a2, a3, b1}
MCRunOf == [c \in MCCalls |-> IF c = b1 THEN m2 ELSE m1]
MCSessionOf == [m \in MCRuns |-> s1]

PlanKept ==
  /\ UNCHANGED plan
  /\ plan = "solo" => pc'[m2] = "idle" /\ ~Contains(messages'[s1], Prior)
  /\ plan = "shared" => /\ exec'[a2] = "unissued" /\ exec'[a3] = "unissued"
                        /\ pc'[m2] = "approving" => ~more'[m2]

MCInit == Init /\ plan \in {"shared", "solo"}

MCNext == Next /\ PlanKept

MCSpec == MCInit /\ [][MCNext]_<<vars, plan>> /\ Fairness
=============================================================================
