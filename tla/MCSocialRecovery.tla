-------------------------- MODULE MCSocialRecovery --------------------------
(* Small instances of SocialRecovery for TLC. *)
EXTENDS SocialRecovery, TLC

CONSTANTS f1, f2, g1, g2, n1, n2

Both  == [oracle |-> g1, factors |-> {f1, f2}, threshold |-> 2, timelock |-> 1]
Alone == [oracle |-> g2, factors |-> {f2}, threshold |-> 1, timelock |-> 2]
TwoConfigs == {Both, Alone}
Tickets == Permutations({n1, n2})

-----------------------------------------------------------------------------
(* docs/PLUGIN_DEVELOPER_GUIDE.md:247, "Plugins that custody user funds per  *)
(* account (for example the recovery verifier's oracle credit) must return   *)
(* them to the account owner in clearAccount rather than orphan them": when  *)
(* no call is in progress, GAS is earmarked only for accounts with an owner. *)
NoOrphanedCredit ==
  calls = <<>> => \A a \in Account : credit[a] > 0 => IsOwned(a)
=============================================================================
