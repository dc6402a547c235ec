--------------------------- MODULE MCSmartWallet ---------------------------
(* Small instances of SmartWallet for TLC. *)
EXTENDS SmartWallet, TLC

CONSTANTS a1, o1, o2, v1, h1

Params(verifier, hook, params, owner, stable) ==
  [verifier |-> verifier, hook |-> hook, params |-> params,
   backupOwner |-> owner, escapeTimelock |-> 2, stable |-> stable]

(* One account that a plugin verifier and hook guard from the start. *)
GuardedAccount == a1 :> Params(v1, h1, TRUE, o1, FALSE)

(* One platform account whose id does not depend on the owner. *)
StableAccount == a1 :> Params(Zero, Zero, TRUE, o1, TRUE)
=============================================================================
