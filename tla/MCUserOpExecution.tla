------------------------- MODULE MCUserOpExecution -------------------------
(* Small instances of UserOpExecution for TLC. *)
EXTENDS UserOpExecution, TLC

CONSTANTS a1, a2, v1, h1, o1

With(v, h, o) ==
  [verifier |-> v, hook |-> h, backupOwner |-> o, escaping |-> FALSE]

(* An account with both plugins; two accounts whose owner signs for himself, *)
(* with batches.                                                             *)
Guarded ==
  [installed |-> [a \in Account |-> IF a = a1 THEN With(v1, h1, o1) ELSE None],
   plugins |-> {v1, h1}, batch |-> 0]
Plain ==
  [installed |-> [a \in Account |-> With(Zero, Zero, o1)], plugins |-> {}, batch |-> 2]

GuardedChain == {Guarded}
EitherChain  == {Guarded, Plain}

-----------------------------------------------------------------------------
(* docs/PROTOCOL_COMPLETENESS_AUDIT.md:125, "Any normal executeUserOp()     *)
(* cancels in-progress escape": an escape that an operation has cancelled   *)
(* comes back only when the owner initiates one, or when the operation is   *)
(* undone.                                                                  *)
CancelledEscapeStaysCancelled ==
  [][(\E a \in Account : ~account[a].escaping /\ account'[a].escaping) =>
       (\E a \in Account : InitiateEscape(a)) \/ Throw \/ Abort
    ]_vars
=============================================================================
