--------------------------- MODULE AccountPlugins ---------------------------
(***************************************************************************)
(* The plugins that keep books of their own: an account uses the           *)
(* SocialRecoveryVerifier, or one of the plugins that bound its spending   *)
(* (SpendingPolicies), or plugins made of plugins (CompositePlugins).      *)
(* They share no storage; the others' state is that of plugins the account *)
(* has never used.                                                         *)
(***************************************************************************)
EXTENDS SocialRecovery

CONSTANTS Policy, Day, Limit, Cap, Plan, Value, MaxHistory, MaxBalance, MaxClock,
          Composite, Child, MaxCalls

VARIABLES
  plugin,    \* which of the three
  clock, installed, balance, daily, session, billing, cursor, op,
  spends, grants, charges,
  role, root, roster, dependencies, configured, staged, escrowed, context,
  depth, maintaining,
  walletCalls

Spending == INSTANCE SpendingPolicies
Composites == INSTANCE CompositePlugins WITH calls <- walletCalls

spending == <<clock, installed, balance, daily, session, billing, cursor, op,
              spends, grants, charges>>
composing == <<role, root, roster, dependencies, configured, staged, escrowed,
               context, depth, maintaining, walletCalls>>

PluginInit ==
  /\ plugin \in {"recovery", "spending", "composite"}
  /\ Init /\ Spending!Init /\ Composites!Init
  /\ plugin # "spending" => installed = CHOOSE p \in Policy : TRUE
  /\ plugin # "recovery" => /\ held = [a \in Account |-> NotSetUp]
                            /\ backupOwner = [a \in Account |-> CHOOSE p \in Principal : TRUE]
  /\ plugin # "composite" => role = "hook" /\ root = None

UsesRecovery == plugin = "recovery" /\ Next /\ UNCHANGED <<plugin, spending, composing>>
UsesSpending == plugin = "spending" /\ Spending!Next /\ UNCHANGED <<plugin, vars, composing>>
UsesComposite == plugin = "composite" /\ Composites!Next /\ UNCHANGED <<plugin, vars, spending>>

PluginNext == UsesRecovery \/ UsesSpending \/ UsesComposite

PluginSpec == PluginInit /\ [][PluginNext]_<<plugin, vars, spending, composing>>

-----------------------------------------------------------------------------
(* The hook lets no more out than its limit (SpendingPolicies). *)
LimitsHold == Spending!DailyLimitHolds

(* Whom the owner allows to spend for him keeps to what he allowed          *)
(* (SpendingPolicies).                                                      *)
DelegatesKeepToTerms == Spending!SessionCapsHold /\ Spending!OneChargeAPeriod

(* Plugins that leave a composite, or with it, forget the account, and an   *)
(* operation meets the same children before and after its target            *)
(* (CompositePlugins).                                                      *)
ChildrenFollowRoot == Composites!ChildrenFollowRoot
=============================================================================
