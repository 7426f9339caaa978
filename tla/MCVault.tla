------------------------------ MODULE MCVault ------------------------------
(* Two services with one account name in common, two master keys,          *)
(* either of which may have made a flat file.                              *)
EXTENDS Vault, TLC

CONSTANTS svc1, svc2, acct, k1, k2

MCServices == {svc1, svc2}
MCAccounts == {acct}
MCKeys == {k1, k2}
MCSymmetry == Permutations(MCServices) \cup Permutations(MCKeys)
=============================================================================
