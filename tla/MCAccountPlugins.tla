-------------------------- MODULE MCAccountPlugins --------------------------
(* Small instances of AccountPlugins for TLC. *)
EXTENDS AccountPlugins, MCSocialRecovery

(* Two subscriptions that overwrite each other, billed in different periods. *)
Plans == {[amount |-> 2, period |-> 1], [amount |-> 1, period |-> 2]}
=============================================================================
