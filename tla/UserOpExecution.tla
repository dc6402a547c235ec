-------------------------- MODULE UserOpExecution --------------------------
(***************************************************************************)
(* What happens inside one transaction of the UnifiedSmartWallet: user     *)
(* operations and plugin maintenance call contracts the wallet does not    *)
(* trust (hooks, verifiers, targets), and those may call the wallet again, *)
(* throw, and catch what a nested call threw.                              *)
(*                                                                         *)
(* A wallet call that leaves the wallet is a frame on a stack.  Its field  *)
(* "todo" is what the call still has to do, in the order of the source:    *)
(* open a context, call a contract, write storage, close the context.      *)
(* While the next thing is a call, that contract is running; the machine   *)
(* is Neo's, single-threaded, so only the newest frame moves.              *)
(*                                                                         *)
(* An assertion that fails cannot be caught: it faults the transaction     *)
(* (Abort).  An exception can; the calls it unwinds leave no trace, so     *)
(* closing contexts in a "finally" matters to calls that return.           *)
(*                                                                         *)
(* Block time and the timelocks are module SmartWallet's: here a staged    *)
(* replacement or an escape may mature between any two transactions.  An   *)
(* operation that is malformed, past its deadline or not accepted by the   *)
(* verifier is one that is not executed; verifiers are otherwise free to   *)
(* accept anything.                                                        *)
(***************************************************************************)
EXTENDS Naturals, Sequences, FiniteSetsExt

CONSTANTS
  Account,        \* account ids
  Owner,          \* principals that may be backup owners
  Verifier, Hook, \* deployed plugins
  Target,         \* contracts that operations call
  Core,           \* the wallet's own script hash
  Zero, None,     \* UInt160.Zero and a missing storage entry
  Chains,         \* what there may be at the start: account records, the
                  \* plugins deployed, a bound on the operations of a batch
                  \* (MaxUserOperationBatchLength)
  Channel,        \* nonce channels in use (of 2^192)
  SeqLimit,       \* sequences of a channel (2^64)
  MaxDepth,       \* bound on wallet calls open at once
  MaxCalls        \* bound on wallet calls made in one transaction (its gas)

ASSUME LimitsAssumption ==
  /\ SeqLimit \in Nat \ {0}
  /\ MaxDepth \in Nat /\ MaxCalls \in Nat
  /\ Zero \notin Verifier \cup Hook
  /\ None \notin Verifier \cup Hook \cup Target \cup {Core, Zero}

VARIABLES
  chain,     \* one of Chains
  account,   \* AccountState
  pending,   \* staged replacement of the verifier and of the hook
  escrow,    \* accounts held by a market
  cursor,    \* next sequence per account and channel
  context,   \* execution lock and contexts, per account
  depth,     \* Prefix_ConfigurationContextDepth
  ran,       \* history: sequences in the order their targets were called
  stack,     \* wallet calls in progress, newest last
  tx         \* witnesses of the transaction, calls so far, storage at its start

storage == <<account, pending, escrow, cursor, context, depth, ran>>
vars == <<chain, storage, stack, tx>>

AccountState ==
  [verifier: Verifier \cup {Zero}, hook: Hook \cup {Zero},
   backupOwner: Owner, escaping: BOOLEAN]

ASSUME ChainsAssumption ==
  \A c \in Chains : /\ c.installed \in [Account -> AccountState \cup {None}]
                    /\ c.plugins \subseteq Verifier \cup Hook
                    /\ c.batch \in Nat

Registered == {a \in Account : account[a] # None}

Nonce == [channel: Channel, sequence: 0 .. SeqLimit - 1]

(* Storage keys that exist only while a call is in progress. *)
ContextField == {"lock", "verify", "verifierConfig", "hookConfig",
                 "verifierExecution", "hookExecution"}
Contract == Verifier \cup Hook \cup Target \cup {Core}

Snapshot ==
  [account |-> account, pending |-> pending, escrow |-> escrow,
   cursor |-> cursor, context |-> context, depth |-> depth, ran |-> ran]

Snapshots ==
  [account: [Account -> AccountState \cup {None}],
   pending: [Account -> [verifier: Verifier \cup {Zero, None},
                         hook: Hook \cup {Zero, None}]],
   escrow: SUBSET Account,
   cursor: [Account -> [Channel -> 0 .. SeqLimit]],
   context: [Account -> [ContextField -> Contract \cup {None}]],
   depth: Nat,
   ran: [Account -> [Channel -> Seq(0 .. SeqLimit - 1)]]]

Transactions == [witnesses: SUBSET Owner, calls: Nat, saved: Snapshots]

(* None stands for what is not there: it is no nonce and no transaction. *)
ASSUME NoneAssumption == None \notin Nonce \cup Transactions

Restore(snapshot) ==
  /\ account' = snapshot.account /\ pending' = snapshot.pending
  /\ escrow' = snapshot.escrow   /\ cursor' = snapshot.cursor
  /\ context' = snapshot.context /\ depth' = snapshot.depth
  /\ ran' = snapshot.ran

Init ==
  /\ chain \in Chains
  /\ account = chain.installed
  /\ pending = [a \in Account |-> [verifier |-> None, hook |-> None]]
  /\ escrow = {}
  /\ cursor = [a \in Account |-> [c \in Channel |-> 0]]
  /\ context = [a \in Account |-> [f \in ContextField |-> None]]
  /\ depth = 0
  /\ ran = [a \in Account |-> [c \in Channel |-> <<>>]]
  /\ stack = <<>>
  /\ tx = None

-----------------------------------------------------------------------------
(* What a wallet call still has to do. *)
Enter(field, value) == [do |-> "enter", field |-> field, value |-> value]
Exit(field)         == [do |-> "exit", field |-> field]
CallOut(contract)   == [do |-> "call", contract |-> contract]
Store(state)        == [do |-> "store", state |-> state]
Forget(fields)      == [do |-> "forget", fields |-> fields]
Release             == [do |-> "release"]
Execute(nonce, target) == [do |-> "execute", nonce |-> nonce, target |-> target]

(* A context guards what comes between. *)
Within(field, value, steps) == <<Enter(field, value)>> \o steps \o <<Exit(field)>>

Unless(zero, steps) == IF zero = Zero THEN <<>> ELSE steps

Idle == tx = None
IsUserOp(frame) == frame.nonce # None
Top == stack[Len(stack)]

(* Code outside the wallet has the processor: the transaction's script or a *)
(* contract that the wallet has called.                                     *)
Calling(frame) == frame.todo # <<>> /\ Head(frame.todo).do = "call"
Outside == ~Idle /\ (stack # <<>> => Calling(Top))

(* A call to the wallet; "caught" says whether the caller stands in a try.  *)
Frame(a, nonce, todo, caught) ==
  [account |-> a, nonce |-> nonce, todo |-> todo,
   saved |-> IF caught THEN Snapshot ELSE None]

Push(a, nonce, todo, caught) == stack' = Append(stack, Frame(a, nonce, todo, caught))

Room == Outside /\ Len(stack) < MaxDepth /\ tx.calls < MaxCalls
Count == tx' = [tx EXCEPT !.calls = @ + 1]

AssertBackupOwner(a) == account[a].backupOwner \in tx.witnesses

AssertIdle_OwnAccountOnly(a) == \A f \in ContextField : context[a][f] = None
AssertIdle(a) == depth = 0 /\ \A f \in ContextField : context[a][f] = None

AssertNoMarketEscrow_Skipped(a) == TRUE
AssertNoMarketEscrow(a) == a \notin escrow

-----------------------------------------------------------------------------
(* User operations *)

IsExecutionActive(a) == context[a]["lock"] # None

IsNonceAcceptable_NotReplayed(a, nonce) == nonce.sequence >= cursor[a][nonce.channel]
IsNonceAcceptable(a, nonce) == nonce.sequence = cursor[a][nonce.channel]

ConsumeNonce_Wraps(a, nonce) ==
  cursor' = [cursor EXCEPT ![a][nonce.channel] = (@ + 1) % SeqLimit]
ConsumeNonce(a, nonce) == cursor' = [cursor EXCEPT ![a][nonce.channel] = @ + 1]

(* The rest of ExecuteUserOp once the operation is accepted: v and h are    *)
(* the plugins of the state it has read.                                    *)
UserOpSteps_HookContextLeftOpen(v, h, target) ==
     Unless(h, <<Enter("hookExecution", h), CallOut(h)>>)
  \o Within("verify", target, <<CallOut(target)>> \o Unless(h, <<CallOut(h)>>)
                                \o Unless(v, <<CallOut(v)>>))
  \o Unless(v, <<Exit("verifierExecution")>>)
  \o <<Exit("lock")>>
UserOpSteps(v, h, target) ==
     Unless(h, <<Enter("hookExecution", h), CallOut(h)>>)
  \o Within("verify", target, <<CallOut(target)>> \o Unless(h, <<CallOut(h)>>)
                                \o Unless(v, <<CallOut(v)>>))
  \o Unless(h, <<Exit("hookExecution")>>)
  \o Unless(v, <<Exit("verifierExecution")>>)
  \o <<Exit("lock")>>

(* Validation: the lock and the verifier's context open, the verifier (or,  *)
(* without one, the owner's witness) accepts, an escape in flight ends if   *)
(* the owner signed, the nonce is consumed.                                 *)
ValidateUserOp(a, nonce) ==
  LET v == account[a].verifier IN
  /\ ~IsExecutionActive(a)
  /\ AssertNoMarketEscrow(a)
  /\ IsNonceAcceptable(a, nonce)
  /\ v = Zero \/ account[a].escaping => AssertBackupOwner(a)
  /\ account' = [account EXCEPT ![a].escaping = FALSE]
  /\ ConsumeNonce(a, nonce)
  /\ context' = [context EXCEPT ![a]["lock"] = Core,
                   ![a]["verifierExecution"] = IF v = Zero THEN @ ELSE v]
  /\ depth' = depth + (IF v = Zero THEN 1 ELSE 2)
  /\ UNCHANGED <<pending, escrow, ran>>

UserOpFrame(a, nonce, target, caught) ==
  Frame(a, nonce, UserOpSteps(account[a].verifier, account[a].hook, target), caught)

ExecuteUserOp(a, nonce, target, caught) ==
  /\ Room
  /\ ValidateUserOp(a, nonce)
  /\ stack' = Append(stack, UserOpFrame(a, nonce, target, caught))
  /\ Count

(* A batch: its operations run in order, nothing in between, and one that   *)
(* is not accepted faults the whole transaction.                            *)
ExecuteUserOps(a, ops, caught) ==
  /\ Room
  /\ Push(a, None, [k \in DOMAIN ops |-> Execute(ops[k][1], ops[k][2])], caught)
  /\ Count
  /\ UNCHANGED storage

-----------------------------------------------------------------------------
(* Plugin maintenance: calls that run a plugin inside a configuration       *)
(* context, and write the account record they read before it.               *)

OwnerConfigures(a) ==
  Room /\ AssertBackupOwner(a) /\ AssertIdle(a) /\ AssertNoMarketEscrow(a)

Maintain(a, todo, caught) ==
  /\ Push(a, None, todo, caught)
  /\ Count
  /\ UNCHANGED storage

ClearAccount(state) ==
     Unless(state.verifier,
            Within("verifierConfig", state.verifier, <<CallOut(state.verifier)>>))
  \o Unless(state.hook, Within("hookConfig", state.hook, <<CallOut(state.hook)>>))

SetPublicKey(v, params) ==
  Unless(v, IF params THEN Within("verifierConfig", v, <<CallOut(v)>>) ELSE <<>>)

(* UpdateVerifier without a verifier to replace: the record first. *)
InstallVerifier(a, v, params, caught) ==
  /\ OwnerConfigures(a)
  /\ account[a].verifier = Zero
  /\ Maintain(a, <<Store([account[a] EXCEPT !.verifier = v])>>
                   \o SetPublicKey(v, params), caught)

(* UpdateHook without a hook to replace; no plugin runs. *)
InstallHook(a, h) ==
  /\ OwnerConfigures(a)
  /\ account[a].hook = Zero
  /\ account' = [account EXCEPT ![a].hook = h]
  /\ Count
  /\ UNCHANGED <<pending, escrow, cursor, context, depth, ran, stack>>

(* UpdateVerifier and UpdateHook with one. *)
StageUpdate(a, slot, module) ==
  /\ OwnerConfigures(a)
  /\ module \in (IF slot = "verifier" THEN Verifier ELSE Hook) \cup {Zero}
  /\ account[a][slot] # Zero
  /\ pending[a][slot] = None
  /\ pending' = [pending EXCEPT ![a][slot] = module]
  /\ Count
  /\ UNCHANGED <<account, escrow, cursor, context, depth, ran, stack>>

ConfirmVerifierUpdate(a, params, caught) ==
  LET state == account[a]
      new   == pending[a].verifier
  IN
  /\ OwnerConfigures(a)
  /\ new # None
  /\ Maintain(a, ClearAccount([state EXCEPT !.hook = Zero])
                   \o <<Store([state EXCEPT !.verifier = new])>>
                   \o SetPublicKey(new, params)
                   \o <<Forget({"verifier"})>>, caught)

ConfirmHookUpdate(a, caught) ==
  LET state == account[a] IN
  /\ OwnerConfigures(a)
  /\ pending[a].hook # None
  /\ Maintain(a, ClearAccount([state EXCEPT !.verifier = Zero])
                   \o <<Store([state EXCEPT !.hook = pending[a].hook]),
                        Forget({"hook"})>>, caught)

(* CallVerifier and CallHook once the staged call has matured. *)
CallPlugin(a, field, module, caught) ==
  /\ OwnerConfigures(a)
  /\ module # Zero
  /\ <<field, module>> \in {<<"verifierConfig", account[a].verifier>>,
                            <<"hookConfig", account[a].hook>>}
  /\ Maintain(a, Within(field, module, <<CallOut(module)>>), caught)

InitiateEscape(a) ==
  /\ OwnerConfigures(a)
  /\ account' = [account EXCEPT ![a].escaping = TRUE]
  /\ Count
  /\ UNCHANGED <<pending, escrow, cursor, context, depth, ran, stack>>

FinalizeEscape(a, v, params, caught) ==
  LET state == account[a] IN
  /\ OwnerConfigures(a)
  /\ state.escaping
  /\ Maintain(a, ClearAccount(state)
                   \o <<Store([state EXCEPT !.verifier = v, !.hook = Zero,
                                            !.escaping = FALSE])>>
                   \o SetPublicKey(v, params)
                   \o <<Forget({"verifier", "hook"})>>, caught)

EnterMarketEscrow(a) ==
  /\ OwnerConfigures(a)
  /\ escrow' = escrow \cup {a}
  /\ Count
  /\ UNCHANGED <<account, pending, cursor, context, depth, ran, stack>>

(* By the market, which has the processor again afterwards; the owner's     *)
(* forced cancellation, once mature, does the same to these variables.      *)
CancelMarketEscrow(a) ==
  /\ Room /\ AssertIdle(a) /\ a \in escrow
  /\ escrow' = escrow \ {a}
  /\ Count
  /\ UNCHANGED <<account, pending, cursor, context, depth, ran, stack>>

(* The escrow ends last, after the plugins have cleared the account. *)
SettlementSteps(state, newOwner) ==
  ClearAccount(state)
  \o <<Store([verifier |-> Zero, hook |-> Zero, backupOwner |-> newOwner,
              escaping |-> FALSE]),
       Forget({"verifier", "hook"}), Release>>

SettleMarketEscrow(a, newOwner, caught) ==
  /\ Room /\ AssertIdle(a) /\ a \in escrow
  /\ Maintain(a, SettlementSteps(account[a], newOwner), caught)

-----------------------------------------------------------------------------
(* The machine *)

Begin(witnesses) ==
  /\ Idle
  /\ tx' = [witnesses |-> witnesses, calls |-> 0, saved |-> Snapshot]
  /\ UNCHANGED <<storage, stack>>

Commit ==
  /\ ~Idle /\ stack = <<>>
  /\ tx' = None
  /\ UNCHANGED <<storage, stack>>

Abort ==
  /\ ~Idle
  /\ Restore(tx.saved)
  /\ stack' = <<>>
  /\ tx' = None

(* A contract throws; the newest call with a try around it takes the        *)
(* exception, with everything it unwinds undone.                            *)
Throw ==
  /\ Outside
  /\ \E i \in DOMAIN stack :
       /\ stack[i].saved # None
       /\ \A j \in i + 1 .. Len(stack) : stack[j].saved = None
       /\ Restore(stack[i].saved)
       /\ stack' = SubSeq(stack, 1, i - 1)
  /\ UNCHANGED tx

Proceed == stack' = [stack EXCEPT ![Len(stack)].todo = Tail(@)]

Doing(kind) == ~Idle /\ stack # <<>> /\ Top.todo # <<>> /\ Head(Top.todo).do = kind

SetContext ==
  LET step == Head(Top.todo)
      a    == Top.account
  IN
  /\ Doing("enter")
  /\ context' = [context EXCEPT ![a][step.field] = step.value]
  /\ depth' = depth + 1
  /\ Proceed
  /\ ran' = IF step.field # "verify" THEN ran
            ELSE [ran EXCEPT ![a][Top.nonce.channel] = Append(@, Top.nonce.sequence)]
  /\ UNCHANGED <<account, pending, escrow, cursor, tx>>

(* ExitConfigurationContext asserts that the depth does not underflow. *)
ClearContext ==
  /\ Doing("exit")
  /\ depth > 0
  /\ context' = [context EXCEPT ![Top.account][Head(Top.todo).field] = None]
  /\ depth' = depth - 1
  /\ Proceed
  /\ UNCHANGED <<account, pending, escrow, cursor, ran, tx>>

WriteStorage ==
  LET step == Head(Top.todo)
      a    == Top.account
  IN
  /\ \/ /\ Doing("store")
        /\ account' = [account EXCEPT ![a] = step.state]
        /\ UNCHANGED <<pending, escrow>>
     \/ /\ Doing("forget")
        /\ pending' = [pending EXCEPT ![a] =
             [slot \in DOMAIN @ |-> IF slot \in step.fields THEN None ELSE @[slot]]]
        /\ UNCHANGED <<account, escrow>>
     \/ /\ Doing("release")
        /\ escrow' = escrow \ {a}
        /\ UNCHANGED <<account, pending>>
  /\ Proceed
  /\ UNCHANGED <<cursor, context, depth, ran, tx>>

ExecuteNext ==
  LET op == Head(Top.todo)
      a  == Top.account
  IN
  /\ Doing("execute")
  /\ Len(stack) < MaxDepth
  /\ ValidateUserOp(a, op.nonce)
  /\ stack' = Append([stack EXCEPT ![Len(stack)].todo = Tail(@)],
                     UserOpFrame(a, op.nonce, op.target, FALSE))
  /\ UNCHANGED tx

(* The contract that is running returns to the wallet. *)
ContractReturns ==
  /\ Doing("call")
  /\ Proceed
  /\ UNCHANGED <<storage, tx>>

(* The wallet returns to its caller. *)
WalletReturns ==
  /\ ~Idle /\ stack # <<>> /\ Top.todo = <<>>
  /\ stack' = SubSeq(stack, 1, Len(stack) - 1)
  /\ UNCHANGED <<storage, tx>>

WalletStep ==
  SetContext \/ ClearContext \/ WriteStorage \/ ExecuteNext \/ WalletReturns

Maintenance(a, caught) ==
  \/ \E v \in (Verifier \cap chain.plugins) \cup {Zero}, params \in BOOLEAN :
       InstallVerifier(a, v, params, caught) \/ FinalizeEscape(a, v, params, caught)
  \/ \E h \in Hook \cap chain.plugins : InstallHook(a, h)
  \/ \E slot \in {"verifier", "hook"}, m \in chain.plugins \cup {Zero} :
       StageUpdate(a, slot, m)
  \/ \E params \in BOOLEAN : ConfirmVerifierUpdate(a, params, caught)
  \/ ConfirmHookUpdate(a, caught)
  \/ \E field \in {"verifierConfig", "hookConfig"}, m \in chain.plugins :
       CallPlugin(a, field, m, caught)
  \/ InitiateEscape(a)
  \/ EnterMarketEscrow(a)
  \/ CancelMarketEscrow(a)
  \/ \E o \in Owner : SettleMarketEscrow(a, o, caught)

Act ==
  \/ \E witnesses \in SUBSET Owner : Begin(witnesses)
  \/ Commit \/ Abort \/ Throw
  \/ WalletStep \/ ContractReturns
  \/ \E a \in Registered, caught \in BOOLEAN :
       \/ \E nonce \in Nonce, target \in Target : ExecuteUserOp(a, nonce, target, caught)
       \/ \E n \in 2 .. chain.batch : \E ops \in [1 .. n -> Nonce \X Target] :
            ExecuteUserOps(a, ops, caught)
       \/ Maintenance(a, caught)

Next == Act /\ UNCHANGED chain

Spec == Init /\ [][Next]_vars
-----------------------------------------------------------------------------
(* Safety *)

Step ==
       [do: {"enter"}, field: ContextField, value: Contract]
  \cup [do: {"exit"}, field: ContextField]
  \cup [do: {"call"}, contract: Contract]
  \cup [do: {"store"}, state: AccountState]
  \cup [do: {"forget"}, fields: SUBSET {"verifier", "hook"}]
  \cup [do: {"release"}]
  \cup [do: {"execute"}, nonce: Nonce, target: Target]

(* Cursors stay in the 64-bit sequence space and frames well formed: no     *)
(* order of nested and unwound calls leaves a partial record behind.        *)
ExecutionTypeOK ==
  /\ Snapshot \in Snapshots
  /\ Len(stack) <= MaxDepth
  /\ \A i \in DOMAIN stack :
       /\ stack[i].account \in Account
       /\ stack[i].nonce \in Nonce \cup {None}
       /\ stack[i].todo \in Seq(Step)
  /\ Idle => stack = <<>>

(* A frame has a context open if it still has to close it, and not to open  *)
(* it first.                                                                *)
HasOpen(frame, f) ==
  \E k \in DOMAIN frame.todo :
    /\ frame.todo[k] = Exit(f)
    /\ \A j \in 1 .. k - 1 :
         ~(frame.todo[j].do = "enter" /\ frame.todo[j].field = f)

(* A lock or context is set exactly while one call in progress will close   *)
(* it, and the depth counts them.  A context left behind, or closed by the  *)
(* wrong call, would refuse every later configuration of every account, or  *)
(* let one through inside an operation.                                     *)
ContextsBalanced ==
  /\ \A a \in Account, f \in ContextField :
       (context[a][f] # None)
         <=> \E i \in DOMAIN stack : stack[i].account = a /\ HasOpen(stack[i], f)
  /\ depth = Cardinality({set \in Account \X ContextField :
                            context[set[1]][set[2]] # None})
  /\ depth = Cardinality({open \in (DOMAIN stack) \X ContextField :
                            HasOpen(stack[open[1]], open[2])})

(* Nested, unwound and caught calls leave neither a partial record nor an   *)
(* open context behind.                                                     *)
CallsPaired == ExecutionTypeOK /\ ContextsBalanced

(* No operation runs on an account that a market holds, not even from the   *)
(* plugins that a settlement runs.                                          *)
EscrowStopsExecution ==
  \A i \in DOMAIN stack :
    IsUserOp(stack[i]) => stack[i].account \notin escrow

-----------------------------------------------------------------------------
(* What a step may never do *)

Authority(a) ==
  <<account[a].verifier, account[a].hook, account[a].backupOwner, pending[a],
    a \in escrow>>

(* While an operation runs, or any contract called by the wallet, nobody's  *)
(* owner, plugins, staged replacements or escrow change: that code cannot   *)
(* reuse the witness in the transaction to reconfigure an account, and what *)
(* a maintenance call read before it called out is what it then overwrites. *)
AuthorityStillDuringCalls ==
  [][\A i \in DOMAIN stack :
       /\ IsUserOp(stack[i]) \/ Calling(stack[i])
       /\ i <= Len(stack')
       => \A a \in Registered : Authority(a)' = Authority(a)
    ]_vars

-----------------------------------------------------------------------------
(* Refinement: what has run once the transaction that ran it is in a block. *)
Executed == IF Idle THEN ran ELSE tx.saved.ran
Replay == INSTANCE ReplayProtection WITH executed <- Executed

(* The wallet implements ReplayProtection: nested calls, exceptions caught  *)
(* and uncaught, and a channel at its limit never run an operation twice or *)
(* out of the order of its channel.                                         *)
ImplementsReplayProtection == Replay!Spec
=============================================================================
