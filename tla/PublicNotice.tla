---------------------------- MODULE PublicNotice ----------------------------
(***************************************************************************)
(* What the administration of every contract promises the users of that    *)
(* contract: whatever they rely on (its code, its administrator, the core  *)
(* or registry it trusts) changes only to what has stood announced, and    *)
(* unaltered, for at least Delay; an announcement is good for one change.  *)
(* Only a setting that was never made may be made without notice.          *)
(***************************************************************************)
EXTENDS Integers

CONSTANTS Slots, Values, Unset, Delay

VARIABLES
    value,   \* what is in force
    notice,  \* of each slot: the announcement standing, if there is one
    now

vars == <<value, notice, now>>

Init ==
    /\ value \in [Slots -> Values]
    /\ notice = [s \in Slots |-> {}]
    /\ now \in Nat

Install(s) ==
    /\ value[s] = Unset
    /\ \E v \in Values : value' = [value EXCEPT ![s] = v]
    /\ UNCHANGED <<notice, now>>

Announce(s) ==
    /\ \E v \in Values : notice' = [notice EXCEPT ![s] = {[to |-> v, since |-> now]}]
    /\ UNCHANGED <<value, now>>

Withdraw(s) ==
    /\ notice' = [notice EXCEPT ![s] = {}]
    /\ UNCHANGED <<value, now>>

TakeEffect(s) ==
    /\ \E n \in notice[s] : /\ now >= n.since + Delay
                            /\ value' = [value EXCEPT ![s] = n.to]
    /\ notice' = [notice EXCEPT ![s] = {}]
    /\ UNCHANGED now

TimePasses == now' \in Nat /\ now' > now /\ UNCHANGED <<value, notice>>

Next ==
    \/ \E s \in Slots : Install(s) \/ Announce(s) \/ Withdraw(s) \/ TakeEffect(s)
    \/ TimePasses

Spec == Init /\ [][Next]_vars
=============================================================================
