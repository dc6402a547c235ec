-------------------------- MODULE MCWebApplication --------------------------
(* Small instances of WebApplication for TLC. *)
EXTENDS WebApplication, TLC

CONSTANTS x, y, s, cx, cy, m1, m2, a, s1, s2

(* A hash, a domain and a name to search for, two of them for one contract. *)
Names == x :> cx @@ y :> cy @@ s :> cy
ABI == cx :> {m1} @@ cy :> {m1, m2}

Drafts == INSTANCE SignedInvocation

(* A draft with a raw transaction for the relay and one without. *)
Bodies == {Drafts!StagedBody(a, cx, raw, FALSE) : raw \in BOOLEAN}

(* The proofs two signers leave: submitted together they would conflict. *)
Records == {[signer |-> r[1], invocation |-> Drafts!Invocation(a, cx, r[2]), sound |-> TRUE] :
              r \in {<<s1, 1>>, <<s2, 2>>}}
=============================================================================
