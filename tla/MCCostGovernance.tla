-------------------------- MODULE MCCostGovernance --------------------------
(* One team of two users, one of whom sends two of the three messages.     *)
EXTENDS CostGovernance, TLC

CONSTANTS t1, u1, u2, m1, m2, m3

MCRuns == {m1, m2, m3}
MCTeams == {t1}
MCUsers == {u1, u2}
MCQuotas == {1}

MCUserOf == m1 :> u1 @@ m2 :> u2 @@ m3 :> u1
MCTeamOf == [u \in MCUsers |-> t1]
=============================================================================
