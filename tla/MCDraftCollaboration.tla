------------------------ MODULE MCDraftCollaboration ------------------------
(* Small instances of DraftCollaboration for TLC. *)
EXTENDS DraftCollaboration

CONSTANTS t1, t2, b1

OneBrowser == [t \in {t1, t2} |-> b1]

Symmetric == Permutations(OperatorKey) \cup Permutations(Tab) \cup Permutations(Signer)
=============================================================================
