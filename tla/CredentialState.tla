--------------------------- MODULE CredentialState ---------------------------
(***************************************************************************)
(* A credential in the operating system's keychain: what the keychain and  *)
(* the vault's reference table hold, the calls made on it, and what an     *)
(* acknowledged call promises.                                             *)
(***************************************************************************)
CONSTANTS Calls,        \* bound: calls made
          NoCall

VARIABLES secret,       \* the call whose value the keychain holds
          ref,          \* there is a row for it in vault-refs.db
          calls,        \* what each call is and how far it came
          latest,       \* history: the last call to be acknowledged
          blurred       \* history: ... was not alone, or the process died after it

InFlight == {c \in Calls : calls[c].at \in {"sent", "acted"}}

(* vault.service.ts: a call that had the credential to itself leaves it as *)
(* it says, however muddled overlapping calls or a crash left it before:   *)
(* 201 means a reference and this call's secret, 204 that neither is left. *)
(* Refused calls after it change nothing.                                  *)
AcknowledgedHolds ==
  ~blurred /\ InFlight = {} =>
    /\ ref <=> secret # NoCall
    /\ secret = IF latest = NoCall \/ calls[latest].op = "delete" THEN NoCall ELSE latest
=============================================================================
