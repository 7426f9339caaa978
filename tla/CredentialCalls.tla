--------------------------- MODULE CredentialCalls ---------------------------
(***************************************************************************)
(* Storing and revoking one credential when the vault keeps secrets in the *)
(* operating system's keychain: a call awaits the keychain and then writes *)
(* the reference, so calls interleave there and the process may die there. *)
(***************************************************************************)
EXTENDS CredentialState, Integers

CONSTANT MaxCrashes     \* bound

VARIABLE crashes        \* history

callVars == <<secret, ref, calls, latest, blurred, crashes>>

Unsent == [op |-> "none", at |-> "none", alone |-> TRUE]

CallsInit == /\ secret = NoCall /\ ref = FALSE
             /\ calls = [c \in Calls |-> Unsent]
             /\ latest = NoCall
             /\ blurred = FALSE
             /\ crashes = 0

At(c, op, place) == calls[c].op = op /\ calls[c].at = place
Moves(c, place) == calls' = [calls EXCEPT ![c].at = place]

-----------------------------------------------------------------------------
(* Mutant: the reference is written before the keychain is called. *)
SendRefFirst(c, op) ==
  /\ calls[c].op = "none"
  /\ ref' = (op = "set")
  /\ calls' = [d \in Calls |->
       IF d = c THEN [op |-> op, at |-> "sent", alone |-> InFlight = {}]
       ELSE [calls[d] EXCEPT !.alone = @ /\ d \notin InFlight]]
  /\ UNCHANGED <<secret, latest, blurred, crashes>>

(* setSecret and deleteSecret start with the keychain call.                *)
Send(c, op) ==
  /\ calls[c].op = "none"
  /\ calls' = [d \in Calls |->
       IF d = c THEN [op |-> op, at |-> "sent", alone |-> InFlight = {}]
       ELSE [calls[d] EXCEPT !.alone = @ /\ d \notin InFlight]]
  /\ UNCHANGED <<secret, ref, latest, blurred, crashes>>

(* The keychain does what it is asked; removing what is not there is no    *)
(* error.                                                                  *)
SetPassword(c) ==
  /\ At(c, "set", "sent")
  /\ secret' = c
  /\ Moves(c, "acted")
  /\ UNCHANGED <<ref, latest, blurred, crashes>>

DeletePassword(c) ==
  /\ At(c, "delete", "sent")
  /\ secret' = NoCall
  /\ Moves(c, "acted")
  /\ UNCHANGED <<ref, latest, blurred, crashes>>

(* The keychain refuses: the references are left alone, the caller gets an *)
(* error.                                                                  *)
KeychainFails(c) ==
  /\ calls[c].at = "sent"
  /\ Moves(c, "failed")
  /\ UNCHANGED <<secret, ref, latest, blurred, crashes>>

(* 201 or 204 once the reference follows the keychain.                     *)
Acknowledged(c) ==
  /\ Moves(c, "done")
  /\ latest' = c
  /\ blurred' = ~calls[c].alone
  /\ UNCHANGED <<secret, crashes>>

UpsertRef(c) == /\ At(c, "set", "acted")
                /\ ref' = TRUE
                /\ Acknowledged(c)

DeleteRef(c) == /\ At(c, "delete", "acted")
                /\ ref' = FALSE
                /\ Acknowledged(c)

(* The process dies.  A keychain call under way may yet take effect; the   *)
(* callers see a broken connection.                                        *)
CrashInCall ==
  /\ crashes < MaxCrashes /\ crashes' = crashes + 1
  /\ \/ UNCHANGED secret
     \/ \E c \in InFlight : /\ calls[c].at = "sent"
                            /\ secret' = IF calls[c].op = "set" THEN c ELSE NoCall
  /\ calls' = [c \in Calls |-> IF c \in InFlight THEN [calls[c] EXCEPT !.at = "failed"]
                               ELSE calls[c]]
  /\ blurred' = (blurred \/ InFlight # {})
  /\ UNCHANGED <<ref, latest>>

CallsNext == \/ \E c \in Calls : \/ \E op \in {"set", "delete"} : Send(c, op)
                                 \/ SetPassword(c) \/ DeletePassword(c) \/ KeychainFails(c)
                                 \/ UpsertRef(c) \/ DeleteRef(c)
             \/ CrashInCall

CallsSpec == CallsInit /\ [][CallsNext]_callVars

-----------------------------------------------------------------------------
CallsTypeOK ==
  /\ secret \in Calls \cup {NoCall} /\ latest \in Calls \cup {NoCall}
  /\ ref \in BOOLEAN /\ blurred \in BOOLEAN /\ crashes \in Nat
  /\ calls \in [Calls -> [op : {"none", "set", "delete"}, alone : BOOLEAN,
                          at : {"none", "sent", "acted", "done", "failed"}]]
=============================================================================
