-------------------------- MODULE MCAddressMarket --------------------------
(* Small instances of AddressMarket for TLC. *)
EXTENDS AddressMarket, TLC

CONSTANTS a1, o1, o2

(* A platform account, its id derived from its first owner. *)
PlatformAccount == a1 :>
  [verifier |-> Zero, hook |-> Zero, params |-> TRUE, backupOwner |-> o1,
   escapeTimelock |-> 1, stable |-> FALSE]
=============================================================================
