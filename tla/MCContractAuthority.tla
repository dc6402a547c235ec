------------------------ MODULE MCContractAuthority ------------------------
(* Small instances of ContractAuthority for TLC. *)
EXTENDS ContractAuthority, TLC

(* Live keys are interchangeable, and so are contracts. *)
Interchangeable == Permutations(Keys) \cup Permutations(Contracts)
=============================================================================
