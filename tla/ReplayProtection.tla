-------------------------- MODULE ReplayProtection --------------------------
(***************************************************************************)
(* What nonces promise, without nonces: the operations an account executes *)
(* on a channel are number 0, 1, 2, ..., each once, and what a transaction *)
(* executed stays executed.                                                *)
(***************************************************************************)
EXTENDS Naturals, Sequences

CONSTANTS Account, Channel

VARIABLE executed   \* per account and channel: the sequences executed, in order

InOrder(s) == \A i \in DOMAIN s : s[i] = i - 1

Init == executed = [a \in Account |-> [c \in Channel |-> <<>>]]

(* A transaction executes any number of operations, on any accounts. *)
Transaction ==
  \A a \in Account, c \in Channel :
    LET old == executed[a][c]
        new == executed'[a][c]
    IN Len(new) >= Len(old) /\ SubSeq(new, 1, Len(old)) = old /\ InOrder(new)

Spec == Init /\ [][Transaction]_executed
=============================================================================
