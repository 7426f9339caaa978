------------------------- MODULE MCProviderStreams -------------------------
(* Two calls of two pieces, so that their pieces can interleave; the       *)
(* conversations are a first message and one that went through two calls   *)
(* of one tool.                                                            *)
EXTENDS ProviderStreams

User == [role |-> "user"]
CallOf(id) == [id |-> id, tool |-> "bash"]
MCHistories ==
  {<<User>>,
   <<User, [role |-> "assistant", calls |-> <<CallOf("c1"), CallOf("c2")>>],
     [role |-> "tool", call |-> CallOf("c2")],
     [role |-> "tool", call |-> CallOf("c1")], User>>}
=============================================================================
