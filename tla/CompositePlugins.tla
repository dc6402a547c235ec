-------------------------- MODULE CompositePlugins --------------------------
(***************************************************************************)
(* Plugins made of plugins.  A composite (MultiHook, MultiSigVerifier) is  *)
(* installed as the root; the children it lists are configured through the *)
(* wallet, which keeps a list of its own so that whoever was a child is    *)
(* told to forget the account.  Both roles of a plugin have the same code. *)
(*                                                                         *)
(* Children are foreign code.  Whenever the wallet has called one, or the  *)
(* target of an operation, that contract may call the wallet again with    *)
(* the owner's witness of the same transaction, or throw: calls are frames *)
(* of a stack, only the newest moves, and an exception or a fault puts     *)
(* back what was before the frame it undoes.                               *)
(*                                                                         *)
(* There is one account; its timelocks elapse at any time (SmartWallet has *)
(* the clock, and verifiers installed with parameters).  Of a plugin's     *)
(* storage all that matters is whether it holds something for the account. *)
(***************************************************************************)
EXTENDS Naturals, Sequences

CONSTANTS
  None,
  Composite,     \* composites that may be roots
  Child,         \* other plugins: children, or roots of their own
  MaxCalls       \* bound on calls in progress

VARIABLES
  role,          \* "hook" or "verifier"
  root,          \* AccountState.HookId or .Verifier
  roster,        \* Prefix_Hooks or Prefix_Config of the composites
  dependencies,  \* Prefix_HookDependencies or Prefix_VerifierDependencies
  configured,    \* plugins that hold something for the account
  staged,        \* pending replacement and pending call
  escrowed,      \* the account is listed in a market
  context,       \* Prefix_HookConfigContext or Prefix_VerifierConfigContext
  depth,         \* Prefix_ConfigurationContextDepth
  maintaining,   \* Prefix_DependencyMaintenance
  calls          \* wallet calls in progress

stored == <<root, roster, dependencies, configured, staged, escrowed,
            context, depth, maintaining>>
vars == <<role, stored, calls>>

Plugin == Composite \cup Child
NothingStaged == [update |-> None, call |-> None]

(* Composites set up before the wallet kept lists have none there. *)
Init ==
  /\ role \in {"hook", "verifier"}
  /\ root \in Composite \cup {None}
  /\ \E children \in SUBSET Child :
       /\ root = None => children = {}
       /\ roster = [r \in Composite |-> IF r = root THEN children ELSE {}]
       /\ configured \in SUBSET children
  /\ dependencies = None
  /\ staged = NothingStaged /\ escrowed = FALSE
  /\ context = None /\ depth = 0 /\ maintaining = FALSE
  /\ calls = <<>>

Top == calls[Len(calls)]

(* Somebody else's code runs: a transaction's script, a plugin, a target. *)
ForeignCode == calls # <<>> => Top.running # None

IsExecutionActive == \E i \in DOMAIN calls : calls[i].what = "operate"

ConfigurationIdle == depth = 0 /\ context = None /\ ~IsExecutionActive

OwnerMayConfigure == ForeignCode /\ ConfigurationIdle /\ ~escrowed

Snapshot == [root |-> root, roster |-> roster, dependencies |-> dependencies,
             configured |-> configured, staged |-> staged, escrowed |-> escrowed,
             context |-> context, depth |-> depth, maintaining |-> maintaining]

(* The wallet calls a plugin: what for, which, what its children and the    *)
(* account's plugin will be, which children have to be cleaned up first,    *)
(* and which foreign contract is running.                                   *)
Enter(what, callee, children, next, dropped, running) ==
  /\ Len(calls) < MaxCalls
  /\ context' = IF what = "operate" THEN context ELSE callee
  /\ depth' = depth + 1
  /\ calls' = Append(calls, [what |-> what, callee |-> callee, children |-> children,
                next |-> next, dropped |-> dropped, running |-> running, saved |-> Snapshot])

Leave ==
  /\ context' = IF Top.what = "operate" THEN context ELSE None
  /\ depth' = depth - 1
  /\ calls' = SubSeq(calls, 1, Len(calls) - 1)

-----------------------------------------------------------------------------
(* Replacing the root *)

UpdateRoot(new) ==
  /\ OwnerMayConfigure /\ staged.update = None
  /\ IF root = None
     THEN root' = new /\ UNCHANGED staged
     ELSE staged' = [staged EXCEPT !.update = [new |-> new, aged |-> FALSE]] /\ UNCHANGED root
  /\ UNCHANGED <<role, roster, dependencies, configured, escrowed, context, depth,
                 maintaining, calls>>

CancelUpdate ==
  /\ ForeignCode /\ ConfigurationIdle /\ staged.update # None
  /\ staged' = [staged EXCEPT !.update = None]
  /\ UNCHANGED <<role, root, roster, dependencies, configured, escrowed, context, depth,
                 maintaining, calls>>

(* Without a list the wallet asks the root whom it has. *)
ReadDependencyChildren ==
  IF dependencies # None THEN dependencies
  ELSE IF root \in Composite THEN roster[root] ELSE {}

(* The root is told to forget the account; a composite has the wallet clean *)
(* up its children first, and then deletes its roster.                      *)
CleanRoot(what, next) ==
  /\ maintaining' = (root \in Composite)
  /\ IF root \in Composite
     THEN Enter(what, root, {}, next, ReadDependencyChildren, None) /\ UNCHANGED configured
     ELSE Enter(what, root, {}, next, {}, root) /\ configured' = configured \ {root}

(* Only a root that is there is replaced (ListsAgree). *)
ConfirmUpdate ==
  /\ OwnerMayConfigure /\ root # None
  /\ staged.update # None /\ staged.update.aged
  /\ CleanRoot("replace", staged.update.new)
  /\ UNCHANGED <<role, root, roster, dependencies, staged, escrowed>>

(* FinalizeEscape: the hook goes, the verifier may be replaced. *)
FinalizeEscape(new) ==
  /\ OwnerMayConfigure
  /\ role = "hook" => new = None
  /\ IF root = None
     THEN /\ root' = new /\ staged' = NothingStaged
          /\ UNCHANGED <<configured, context, depth, maintaining, calls>>
     ELSE CleanRoot("escape", new) /\ UNCHANGED <<root, staged>>
  /\ UNCHANGED <<role, roster, dependencies, escrowed>>

EnterMarketEscrow ==
  /\ OwnerMayConfigure
  /\ escrowed' = TRUE
  /\ UNCHANGED <<role, root, roster, dependencies, configured, staged, context, depth,
                 maintaining, calls>>

CancelMarketEscrow ==
  /\ ForeignCode /\ ConfigurationIdle /\ escrowed
  /\ escrowed' = FALSE
  /\ UNCHANGED <<role, root, roster, dependencies, configured, staged, context, depth,
                 maintaining, calls>>

SettleMarketEscrow ==
  /\ ForeignCode /\ ConfigurationIdle /\ escrowed
  /\ IF root = None
     THEN /\ staged' = NothingStaged /\ escrowed' = FALSE
          /\ UNCHANGED <<configured, context, depth, maintaining, calls>>
     ELSE CleanRoot("settle", None) /\ UNCHANGED <<staged, escrowed>>
  /\ UNCHANGED <<role, root, roster, dependencies>>

-----------------------------------------------------------------------------
(* Calls of plugins, staged and then confirmed *)

(* TryConfirmPendingModuleCall: a call that is not the staged one takes its *)
(* place, one that is and whose time has come is made.                      *)
IsStaged(call) == IF staged.call = None THEN FALSE ELSE staged.call.what = call

Stages(call) ==
  /\ ~IsStaged(call)
  /\ staged' = [staged EXCEPT !.call = [what |-> call, aged |-> FALSE]]
  /\ UNCHANGED <<configured, roster, context, depth, maintaining, calls>>

Confirms(call) ==
  /\ IsStaged(call) /\ staged.call.aged
  /\ staged' = [staged EXCEPT !.call = None]

Call(method, child, children) ==
  [of |-> root, method |-> method, child |-> child, children |-> children]

EnsureLegacyDependencies_NotKept == UNCHANGED dependencies
EnsureLegacyDependencies ==
  dependencies' = IF dependencies = None /\ roster[root] # {} THEN roster[root]
                  ELSE dependencies

Dropped(children) == IF dependencies' = None THEN {} ELSE dependencies' \ children

(* SetHooks or SetConfig: the root stores its roster and has the wallet     *)
(* clean up those who are no longer in it.                                  *)
SetChildren(children) ==
  LET call == Call("setChildren", None, children)
  IN /\ OwnerMayConfigure /\ root \in Composite
     /\ role = "verifier" => children # {}
     /\ EnsureLegacyDependencies
     /\ \/ Stages(call)
        \/ /\ Confirms(call)
           /\ roster' = [roster EXCEPT ![root] = children]
           /\ maintaining' = TRUE
           /\ Enter("set", root, children, root, Dropped(children), None)
           /\ UNCHANGED configured
     /\ UNCHANGED <<role, root, escrowed>>

(* CallHook or CallVerifier with clearAccount: the root stays installed. *)
ClearRoot ==
  LET call == Call("clearAccount", None, {})
  IN /\ OwnerMayConfigure /\ root # None
     /\ \/ Stages(call)
        \/ Confirms(call) /\ CleanRoot("clear", root) /\ UNCHANGED roster
     /\ UNCHANGED <<role, root, dependencies, escrowed>>

(* CallHookChild or CallVerifierChild, which binds the roster it was staged *)
(* under; CallHook or CallVerifier if the root is no composite.             *)
IsCurrentChild(child) == root \in Composite /\ child \in roster[root]

Configure(child) ==
  LET call == Call("configure", child, IF root \in Composite THEN roster[root] ELSE {})
  IN /\ OwnerMayConfigure /\ root # None
     /\ IsCurrentChild(child) \/ child = root
     /\ \/ Stages(call)
        \/ /\ Confirms(call)
           /\ Enter("configure", child, {}, root, {}, child)
           /\ configured' = configured \cup {child}
           /\ UNCHANGED <<roster, maintaining>>
     /\ UNCHANGED <<role, root, dependencies, escrowed>>

-----------------------------------------------------------------------------
(* What a maintenance call does, child by child *)

(* CleanupDependency: the child checks that it is in the context, deletes   *)
(* what it holds for the account, and may do anything else.                 *)
CleanupDependency(child) ==
  /\ calls # <<>> /\ Top.running = None /\ child \in Top.dropped
  /\ context' = child /\ depth' = depth + 1
  /\ configured' = configured \ {child}
  /\ calls' = [calls EXCEPT ![Len(calls)].running = child,
                            ![Len(calls)].dropped = @ \ {child}]
  /\ UNCHANGED <<role, root, roster, dependencies, staged, escrowed, maintaining>>

(* The context is deleted with it, the root's own too: the root is not      *)
(* configured again in this call.                                           *)
CleanupReturns ==
  /\ calls # <<>> /\ Top.running \notin {None, Top.callee}
  /\ context' = None /\ depth' = depth - 1
  /\ calls' = [calls EXCEPT ![Len(calls)].running = None]
  /\ UNCHANGED <<role, root, roster, dependencies, configured, staged, escrowed, maintaining>>

Returns(whats) ==
  /\ calls # <<>> /\ Top.what \in whats
  /\ Top.running \in {None, Top.callee} /\ Top.dropped = {}
  /\ Leave
  /\ UNCHANGED <<role, configured>>

ConfigureReturns ==
  Returns({"configure"}) /\ UNCHANGED <<root, roster, dependencies, staged, escrowed, maintaining>>

SetChildrenReturns ==
  /\ Returns({"set"})
  /\ dependencies' = Top.children /\ maintaining' = FALSE
  /\ UNCHANGED <<root, roster, staged, escrowed>>

(* The lists are deleted, the account's plugin is what the caller decided,  *)
(* and what was staged goes with a sale and with an escape.                 *)
CleanRootReturns ==
  /\ Returns({"replace", "escape", "settle", "clear"})
  /\ maintaining' = FALSE
  /\ IF root \in Composite
     THEN dependencies' = None /\ roster' = [roster EXCEPT ![root] = {}]
     ELSE UNCHANGED <<dependencies, roster>>
  /\ root' = Top.next
  /\ staged' = IF Top.what = "replace" THEN [staged EXCEPT !.update = None]
               ELSE IF Top.what = "clear" THEN staged ELSE NothingStaged
  /\ escrowed' = IF Top.what = "settle" THEN FALSE ELSE escrowed

-----------------------------------------------------------------------------
(* Operations *)

(* The children that run now, before the target, are noted in "children". *)
ExecuteUserOp ==
  /\ ForeignCode /\ ~IsExecutionActive /\ ~escrowed
  /\ root \in Composite
  /\ Enter("operate", root, roster[root], root, {}, root)
  /\ UNCHANGED <<role, root, roster, dependencies, configured, staged, escrowed, maintaining>>

(* The children run again after the target. *)
ExecuteReturns ==
  Returns({"operate"}) /\ UNCHANGED <<root, roster, dependencies, staged, escrowed, maintaining>>

(* An exception that whoever made a call catches, or a fault. *)
Throw(i) ==
  LET was == calls[i].saved
  IN /\ root' = was.root /\ roster' = was.roster /\ dependencies' = was.dependencies
     /\ configured' = was.configured /\ staged' = was.staged /\ escrowed' = was.escrowed
     /\ context' = was.context /\ depth' = was.depth /\ maintaining' = was.maintaining
     /\ calls' = SubSeq(calls, 1, i - 1)
     /\ UNCHANGED role

(* Timelocks elapse between transactions. *)
TimelocksElapse ==
  LET Aged(cell) == IF cell = None THEN None ELSE [cell EXCEPT !.aged = TRUE]
  IN /\ calls = <<>> /\ staged # NothingStaged
     /\ staged' = [update |-> Aged(staged.update), call |-> Aged(staged.call)]
     /\ UNCHANGED <<role, root, roster, dependencies, configured, escrowed, context, depth,
                    maintaining, calls>>

Maintain ==
  \/ \E new \in Plugin \cup {None} : UpdateRoot(new) \/ FinalizeEscape(new)
  \/ CancelUpdate \/ ConfirmUpdate
  \/ EnterMarketEscrow \/ CancelMarketEscrow \/ SettleMarketEscrow
  \/ \E children \in SUBSET Child : SetChildren(children)
  \/ ClearRoot
  \/ \E child \in Child : Configure(child)

Run ==
  \/ \E child \in Child : CleanupDependency(child)
  \/ CleanupReturns \/ ConfigureReturns \/ SetChildrenReturns \/ CleanRootReturns
  \/ ExecuteUserOp \/ ExecuteReturns
  \/ \E i \in DOMAIN calls : Throw(i)
  \/ TimelocksElapse

Next == Maintain \/ Run

Spec == Init /\ [][Next]_vars

-----------------------------------------------------------------------------
(* Properties *)

(* When no call is in progress, only the root and its children hold         *)
(* something for the account, only the root has a roster, and the wallet's  *)
(* list is that roster, or is missing for a composite of former times.      *)
ListsAgree ==
  /\ configured \subseteq {root} \cup (IF root \in Composite THEN roster[root] ELSE {})
  /\ \A r \in Composite \ {root} : roster[r] = {}
  /\ dependencies # None => root \in Composite /\ dependencies = roster[root]
  /\ staged.update # None => root # None
  /\ context = None /\ depth = 0 /\ ~maintaining

(* An operation's children are the same after the target as before it.      *)
OperationsKeepTheirChildren ==
  \A i \in DOMAIN calls :
    calls[i].what = "operate" => root = calls[i].callee /\ roster[root] = calls[i].children

(* Whoever was a child of the account and is not any more holds nothing for *)
(* it, whatever children do while they are cleaned up.                      *)
ChildrenFollowRoot == (calls = <<>> => ListsAgree) /\ OperationsKeepTheirChildren
=============================================================================
