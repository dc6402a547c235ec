--------------------------- MODULE MCSponsorship ---------------------------
(* Small instances of Sponsorship for TLC. *)
EXTENDS Sponsorship, TLC

CONSTANTS op1, op2

PolicyOf(ops, perOp, daily, total, until) ==
  [allows |-> ops, maxPerOp |-> perOp, dailyBudget |-> daily,
   totalBudget |-> total, validUntil |-> until]

(* Sponsors are interchangeable; the relay is none of them. *)
Interchangeable == Permutations(Sponsor)

(* Capped by day and in total, for one operation, expiring in its window,   *)
(* and the one that replaces it, without any cap.                           *)
CappedOrOpen == {PolicyOf({op1}, 2, 1, 2, Day + 1), PolicyOf(Operation, 1, 0, 0, 0)}
=============================================================================
