--------------------------- MODULE MCMemoryStore ---------------------------
(* Two plans, one instance: in "read" two sessions, of one user or of two, *)
(* write and load history; in "erase" one session goes on while its user   *)
(* is erased, a dump made and put back, and the store restarted, or another*)
(* user's session begins after the erasure.                                *)
EXTENDS MemoryStore, FiniteSets

CONSTANTS s1, s2, u1, u2

VARIABLE plan

MCSessions == {s1, s2}
MCUsers == {u1, u2}

PlanKept ==
  /\ UNCHANGED plan
  /\ Cardinality(lost') <= 1 /\ now' <= 2
  /\ plan = "read" => /\ lost' = {} /\ db'.vectors = {}
                      /\ embedding \subseteq embedding'
                      /\ extracting' = {}
                      /\ UNCHANGED <<cleared, dump, pendingDb>>
                      /\ spoken'[s2] <= 1
  /\ plan = "erase" => /\ now' = 1 /\ Len(toStore') <= 2
                       /\ spoken'[s1] <= 2 /\ spoken'[s2] <= 1
                       /\ \/ stage'[s2] = "new"
                          \/ cleared[s1] > 0 /\ owner[s2] = u2 /\ dump = NoDump
                       /\ stage[s2] # "new" \/ lost # {} => dump' = dump
                       /\ dump # NoDump => lost' = lost
                       /\ dump' = dump \/ (dump = NoDump /\ cleared[s1] = 0)
                       /\ cleared' = cleared \/ cleared[s1] = 0

MCInit == /\ Init /\ plan \in {"read", "erase"}
          /\ owner[s1] = u1

MCSpec == MCInit /\ [][Next /\ PlanKept]_<<memoryVars, plan>>
=============================================================================
