--------------------------- MODULE AccountCustody ---------------------------
(***************************************************************************)
(* What the wallet promises about the ownership of an account, without     *)
(* modules, timers or escrow records: an account changes hands only by a   *)
(* sale its present owner consented to, or, while no consent is standing,  *)
(* by the platform that opened it for the owner.                           *)
(***************************************************************************)
CONSTANTS Account, Owner, None

VARIABLES
  owner,     \* present owner of each account, None before registration
  consent,   \* the owner whose consent to a sale is standing, or None
  managed    \* accounts opened by the platform

vars == <<owner, consent, managed>>

Init ==
  /\ owner = [a \in Account |-> None]
  /\ consent = [a \in Account |-> None]
  /\ managed = {}

Open(S, o) ==
  /\ \A a \in S : owner[a] = None
  /\ owner' = [a \in Account |-> IF a \in S THEN o ELSE owner[a]]
  /\ \/ UNCHANGED managed
     \/ \E a \in Account : S = {a} /\ managed' = managed \cup S
  /\ UNCHANGED consent

Consent(a) ==
  /\ owner[a] # None
  /\ consent' = [consent EXCEPT ![a] = owner[a]]
  /\ UNCHANGED <<owner, managed>>

Withdraw(a) ==
  /\ consent' = [consent EXCEPT ![a] = None]
  /\ UNCHANGED <<owner, managed>>

Sell(a, buyer) ==
  /\ consent[a] # None
  /\ consent[a] = owner[a]
  /\ owner' = [owner EXCEPT ![a] = buyer]
  /\ consent' = [consent EXCEPT ![a] = None]
  /\ UNCHANGED managed

Reassign(a, o) ==
  /\ a \in managed
  /\ consent[a] = None
  /\ owner[a] # None
  /\ owner' = [owner EXCEPT ![a] = o]
  /\ UNCHANGED <<consent, managed>>

Next ==
  \/ \E S \in SUBSET Account, o \in Owner : Open(S, o)
  \/ \E a \in Account :
       \/ Consent(a)
       \/ Withdraw(a)
       \/ \E o \in Owner : Sell(a, o) \/ Reassign(a, o)

Spec == Init /\ [][Next]_vars
=============================================================================
