---------------------------- MODULE MemoryTables ----------------------------
(***************************************************************************)
(* What is kept of conversations - by the agent runtime in each session's  *)
(* context, in its calls to the memory store that are under way, and in    *)
(* the store's tables - and what is promised of it.                        *)
(***************************************************************************)
EXTENDS Naturals, Sequences

CONSTANT Sessions

VARIABLES
  owner,       \* the user of each session
  ctx,         \* ctx.messages of each session
  toStore,     \* calls to the store under way, in order
  db,          \* the database file
  lost,        \* history: messages whose call failed
  cleared,     \* history: how much each session had said at its user's erasure
  overtaken,   \* history: what was under way at an erasure
  restored     \* history: a dump was put back

OwnedBy(u, item) == owner[item.session] = u

(* A vector that comes back after its message or lesson was erased never   *)
(* becomes the vector of another one, and survives no dump as one.         *)
VectorsAreOwn ==
  \A r \in db.rows, v \in db.vectors : v.id = r.id => v.of = r.msg

(* After deleteUserData nothing the user had said before, no lesson from   *)
(* it and no vector of either is stored, but what was under way at that    *)
(* moment - until an operator puts an older dump back.                     *)
Stored == {r.msg : r \in db.rows} \cup {v.of : v \in db.vectors}

ErasedIsGone ==
  ~restored =>
    \A i \in Stored : i.n <= cleared[i.session] => i \in overtaken

(* A registered session's messages are all stored or on their way, but for *)
(* those whose own call failed, although nobody waits for any of them.     *)
HistorySaved ==
  ~restored =>
    \A s \in db.sessions : cleared[s] = 0 =>
      \A i \in DOMAIN ctx[s] : ctx[s][i].session = s =>
        \/ \E r \in db.rows : r.msg = ctx[s][i]
        \/ \E j \in DOMAIN toStore : toStore[j].op = "append" /\ toStore[j].item = ctx[s][i]
        \/ ctx[s][i] \in lost

(* No session is told what another user said.                              *)
PriorIsOwn ==
  \A s \in Sessions : \A i \in DOMAIN ctx[s] : OwnedBy(owner[s], ctx[s][i])

(* memory.service.ts, agent-loop.ts: what a user had erased is gone, and   *)
(* no late vector of a message or a lesson becomes another row's; what was *)
(* said is stored or on its way; and no session is told what another user  *)
(* said.                                                                   *)
MemoryHolds == ErasedIsGone /\ VectorsAreOwn /\ HistorySaved /\ PriorIsOwn
=============================================================================
