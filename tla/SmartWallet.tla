---------------------------- MODULE SmartWallet ----------------------------
(***************************************************************************)
(* The account book of the UnifiedSmartWallet contract: one record per     *)
(* abstract account, its timelocked module replacements, the backup        *)
(* owner's escape hatch, the wallet side of the market escrow and the      *)
(* platform registrar's accounts.                                          *)
(*                                                                         *)
(* A contract call is one step.  A Neo transaction that faults changes     *)
(* nothing, so a call whose assertion fails is a call that is not enabled. *)
(* Every operation here asserts that no execution or configuration context *)
(* is open (AssertAccountConfigurationIdle), hence none of them can run    *)
(* inside another: steps interleave, they do not nest.  The one call that  *)
(* may nest, ExecuteUserOp, is module UserOpExecution.                     *)
(*                                                                         *)
(* The parameter "signer" is the principal whose witness the transaction   *)
(* carries.  Fields "by" and the variable "tenure" are history: they name  *)
(* the principal behind a stored value, which the contract does not keep.  *)
(***************************************************************************)
EXTENDS Naturals

CONSTANTS
  Account,          \* account ids
  Owner,            \* principals that may be backup owners
  Verifier, Hook,   \* deployed plugins with the V3 lifecycle
  NonV3,            \* contracts without it: AssertV3Verifier/Hook reject them
  Call,             \* hashes of allowlisted plugin calls (method and arguments)
  ClearCall,        \* those of them that call clearAccount
  Market,           \* market contracts
  Listing,          \* their listing ids
  Zero,             \* UInt160.Zero
  None,             \* a missing storage entry
  Registration,     \* the parameters that hash to each account id
  EscapeCooldown,   \* EscapeCooldownMs
  ConfigTimelock,   \* ConfigUpdateTimelockMs
  CancelTimelock,   \* MarketEscrowOwnerCancelTimelockMs
  MaxTime           \* bound on the block time of a behaviour

EscapeTimelocks == {Registration[a].escapeTimelock : a \in Account}

(* An account id is the hash of its registration parameters; the hash is    *)
(* injective, so an id stands for one parameter tuple.  A "stable" id is    *)
(* derived without the owner, by RegisterStablePlatformAccount.             *)
RegistrationParams ==
  [verifier: Verifier \cup {Zero}, hook: Hook \cup {Zero}, params: BOOLEAN,
   backupOwner: Owner, escapeTimelock: Nat, stable: BOOLEAN]

ASSUME ConstantsAssumption ==
  /\ Registration \in [Account -> RegistrationParams]
  /\ Zero \notin Verifier \cup Hook \cup NonV3
  /\ None \notin Owner
  /\ ClearCall \subseteq Call
  /\ EscapeCooldown \in Nat /\ ConfigTimelock \in Nat
  /\ CancelTimelock \in Nat /\ MaxTime \in Nat \ {0}

VARIABLES
  now,                  \* Runtime.Time; time 0 is before the first block
  account,              \* AccountState
  pendingVerifier,      \* PendingConfigUpdate of the verifier
  pendingHook,          \* PendingConfigUpdate of the hook
  pendingVerifierCall,  \* PendingModuleCall of the verifier
  pendingHookCall,      \* PendingModuleCall of the hook
  escapeLastInitiated,  \* cooldown stamp, 0 when absent
  metadata,             \* metadata URI, abstracted to who wrote it
  escrow,               \* market and listing holding the account
  cancelInitiated,      \* owner's escrow cancellation, 0 when absent
  platform,             \* accounts with a platform binding
  verifierConfig,       \* per verifier and account: who configured it
  hookConfig,           \* per hook and account: who configured it
  tenure                \* history: owners since registration or last sale

walletVars == <<now, account, pendingVerifier, pendingHook,
  pendingVerifierCall, pendingHookCall, escapeLastInitiated, metadata,
  escrow, cancelInitiated, platform, verifierConfig, hookConfig, tenure>>

Time == 0 .. MaxTime

AccountState ==
  [verifier: Verifier \cup {Zero}, hook: Hook \cup {Zero},
   backupOwner: Owner, escapeTimelock: Nat,
   escapeTriggeredAt: Time, escapeBy: Owner \cup {None}]

PendingUpdate ==
  [module: Verifier \cup Hook \cup NonV3 \cup {Zero}, params: BOOLEAN,
   initiatedAt: Time, by: Owner]

PendingCall ==
  [module: Verifier \cup Hook, call: Call, initiatedAt: Time, by: Owner]

Escrow == [market: Market, listing: Listing, by: Owner]

(* A missing entry is not an entry. *)
ASSUME NoneAssumption ==
  /\ None \notin AccountState
  /\ None \notin PendingUpdate
  /\ None \notin PendingCall
  /\ None \notin Escrow

(* Storage that exists only for registered accounts keeps well formed.      *)
TypeOK ==
  /\ now \in Time
  /\ account \in [Account -> AccountState \cup {None}]
  /\ pendingVerifier \in [Account -> PendingUpdate \cup {None}]
  /\ pendingHook \in [Account -> PendingUpdate \cup {None}]
  /\ pendingVerifierCall \in [Account -> PendingCall \cup {None}]
  /\ pendingHookCall \in [Account -> PendingCall \cup {None}]
  /\ escapeLastInitiated \in [Account -> Time]
  /\ metadata \in [Account -> Owner \cup {None}]
  /\ escrow \in [Account -> Escrow \cup {None}]
  /\ cancelInitiated \in [Account -> Time]
  /\ platform \in SUBSET Account
  /\ verifierConfig \in [Verifier -> [Account -> Owner \cup {None}]]
  /\ hookConfig \in [Hook -> [Account -> Owner \cup {None}]]
  /\ tenure \in [Account -> SUBSET Owner]
-----------------------------------------------------------------------------
updates == <<pendingVerifier, pendingHook>>
calls   == <<pendingVerifierCall, pendingHookCall>>
markers == <<escapeLastInitiated, metadata>>
escrows == <<escrow, cancelInitiated>>
configs == <<verifierConfig, hookConfig>>
history == <<platform, tenure>>

Init ==
  /\ now = 1
  /\ account = [a \in Account |-> None]
  /\ pendingVerifier = [a \in Account |-> None]
  /\ pendingHook = [a \in Account |-> None]
  /\ pendingVerifierCall = [a \in Account |-> None]
  /\ pendingHookCall = [a \in Account |-> None]
  /\ escapeLastInitiated = [a \in Account |-> 0]
  /\ metadata = [a \in Account |-> None]
  /\ escrow = [a \in Account |-> None]
  /\ cancelInitiated = [a \in Account |-> 0]
  /\ platform = {}
  /\ verifierConfig = [v \in Verifier |-> [a \in Account |-> None]]
  /\ hookConfig = [h \in Hook |-> [a \in Account |-> None]]
  /\ tenure = [a \in Account |-> {}]

(* The next block carries a later timestamp. *)
Tick ==
  /\ now < MaxTime
  /\ now' = now + 1
  /\ UNCHANGED <<account, updates, calls, markers, escrows, configs, history>>

(* GetAccountState faults on an unknown id. *)
AssertBackupOwner(a, signer) ==
  /\ account[a] # None
  /\ signer = account[a].backupOwner

AssertNoMarketEscrow_Skipped(a) == TRUE
AssertNoMarketEscrow(a) == escrow[a] = None

AssertNoEscape_Skipped(a) == TRUE
AssertNoEscape(a) == account[a].escapeTriggeredAt = 0

AssertV3Verifier_Skipped(v) == TRUE
AssertV3Verifier(v) == v \in Verifier \cup {Zero}

AssertV3Hook(h) == h \in Hook \cup {Zero}

OwnerConfigures(a, signer) ==
  AssertBackupOwner(a, signer) /\ AssertNoMarketEscrow(a)

(* What a plugin keeps for an account: setPublicKey stores it for the       *)
(* accounts in S, those whose call carries parameters; clearAccount deletes *)
(* it.  Zero is no plugin: nothing happens.                                 *)
SetPublicKey(config, module, S, who) ==
  [m \in DOMAIN config |-> [a \in Account |->
     IF a \in S /\ m = module THEN who ELSE config[m][a]]]

ClearAccount_Skipped(config, module, a) == config
ClearAccount(config, module, a) ==
  [m \in DOMAIN config |-> [b \in Account |->
     IF m = module /\ b = a THEN None ELSE config[m][b]]]

(* Finalizing an escape and settling a sale wipe every per-account entry a  *)
(* previous configuration may have left.                                    *)
WipeEntries_KeepUpdates(a) ==
  /\ pendingVerifierCall' = [pendingVerifierCall EXCEPT ![a] = None]
  /\ pendingHookCall' = [pendingHookCall EXCEPT ![a] = None]
  /\ escapeLastInitiated' = [escapeLastInitiated EXCEPT ![a] = 0]
  /\ metadata' = [metadata EXCEPT ![a] = None]
  /\ UNCHANGED updates
WipeEntries(a) ==
  /\ pendingVerifier' = [pendingVerifier EXCEPT ![a] = None]
  /\ pendingHook' = [pendingHook EXCEPT ![a] = None]
  /\ pendingVerifierCall' = [pendingVerifierCall EXCEPT ![a] = None]
  /\ pendingHookCall' = [pendingHookCall EXCEPT ![a] = None]
  /\ escapeLastInitiated' = [escapeLastInitiated EXCEPT ![a] = 0]
  /\ metadata' = [metadata EXCEPT ![a] = None]

-----------------------------------------------------------------------------
(* Registration *)

NewAccount(a, owner) ==
  [verifier |-> Registration[a].verifier, hook |-> Registration[a].hook,
   backupOwner |-> owner, escapeTimelock |-> Registration[a].escapeTimelock,
   escapeTriggeredAt |-> 0, escapeBy |-> None]

(* S is one account, or the accounts of one batch; a batch shares verifier. *)
RegisterAccountCore(S, verifier, owner) ==
  /\ \A a \in S : account[a] = None /\ Registration[a].verifier = verifier
  /\ account' = [a \in Account |->
                   IF a \in S THEN NewAccount(a, owner) ELSE account[a]]
  /\ verifierConfig' = SetPublicKey(verifierConfig, verifier,
                          {a \in S : Registration[a].params}, owner)
  /\ tenure' = [a \in Account |-> IF a \in S THEN {owner} ELSE tenure[a]]
  /\ UNCHANGED <<now, updates, calls, markers, escrows, hookConfig>>

(* The owner signs the registration of ids derived from himself; one id is  *)
(* RegisterAccount, several with one hook and timelock are a batch.         *)
RegisterAccounts(S, signer) ==
  /\ S # {}
  /\ \A a, b \in S : /\ Registration[a].hook = Registration[b].hook
                      /\ Registration[a].escapeTimelock
                           = Registration[b].escapeTimelock
  /\ \A a \in S : /\ ~Registration[a].stable
                   /\ Registration[a].backupOwner = signer
  /\ \E v \in Verifier \cup {Zero} : RegisterAccountCore(S, v, signer)
  /\ UNCHANGED platform

(* RegisterPlatformAccount, RegisterStablePlatformAccount: the platform      *)
(* registrar opens an account without verifier and hook for an owner who    *)
(* does not sign; an id that is not stable hashes one owner.                *)
RegisterPlatformAccount(a, owner) ==
  /\ Registration[a].stable \/ owner = Registration[a].backupOwner
  /\ Registration[a].hook = Zero
  /\ Registration[a].params
  /\ RegisterAccountCore({a}, Zero, owner)
  /\ platform' = platform \cup {a}

(* The registrar replaces the owner and nothing else: whatever the previous *)
(* owner had pending stays.                                                 *)
RotatePlatformAccountOwner(a, newOwner) ==
  /\ a \in platform
  /\ AssertNoMarketEscrow(a)
  /\ account[a] # None
  /\ AssertNoEscape(a)
  /\ account[a].backupOwner # newOwner
  /\ account' = [account EXCEPT ![a].backupOwner = newOwner]
  /\ tenure' = [tenure EXCEPT ![a] = @ \cup {newOwner}]
  /\ UNCHANGED <<now, updates, calls, markers, escrows, configs, platform>>

-----------------------------------------------------------------------------
(* Module replacement *)

(* First installation is immediate; a replacement is staged. *)
UpdateVerifier(a, signer, v, params) ==
  /\ OwnerConfigures(a, signer)
  /\ \/ /\ account[a].verifier = Zero
        /\ AssertV3Verifier(v)
        /\ account' = [account EXCEPT ![a].verifier = v]
        /\ verifierConfig' = SetPublicKey(verifierConfig, v, {x \in {a} : params}, signer)
        /\ UNCHANGED pendingVerifier
     \/ /\ account[a].verifier # Zero
        /\ pendingVerifier[a] = None
        /\ pendingVerifier' = [pendingVerifier EXCEPT ![a] =
              [module |-> v, params |-> params, initiatedAt |-> now, by |-> signer]]
        /\ UNCHANGED <<account, verifierConfig>>
  /\ UNCHANGED <<now, pendingHook, calls, markers, escrows, hookConfig, history>>

(* AssertV3Hook precedes both branches here, unlike UpdateVerifier. *)
UpdateHook(a, signer, h) ==
  /\ OwnerConfigures(a, signer)
  /\ AssertV3Hook(h)
  /\ \/ /\ account[a].hook = Zero
        /\ account' = [account EXCEPT ![a].hook = h]
        /\ UNCHANGED pendingHook
     \/ /\ account[a].hook # Zero
        /\ pendingHook[a] = None
        /\ pendingHook' = [pendingHook EXCEPT ![a] =
              [module |-> h, params |-> FALSE, initiatedAt |-> now, by |-> signer]]
        /\ UNCHANGED account
  /\ UNCHANGED <<now, pendingVerifier, calls, markers, escrows, configs, history>>

TimelockElapsed_Skipped(pending) == TRUE
TimelockElapsed(pending) == now >= pending.initiatedAt + ConfigTimelock

ConfirmVerifierUpdate(a, signer) ==
  LET pending == pendingVerifier[a]
      cleared == ClearAccount(verifierConfig, account[a].verifier, a)
  IN
  /\ OwnerConfigures(a, signer)
  /\ pending # None
  /\ TimelockElapsed(pending)
  /\ AssertV3Verifier(pending.module)
  /\ account' = [account EXCEPT ![a].verifier = pending.module]
  /\ verifierConfig' =
       SetPublicKey(cleared, pending.module, {x \in {a} : pending.params}, signer)
  /\ pendingVerifier' = [pendingVerifier EXCEPT ![a] = None]
  /\ UNCHANGED <<now, pendingHook, calls, markers, escrows, hookConfig, history>>

ConfirmHookUpdate(a, signer) ==
  LET pending == pendingHook[a] IN
  /\ OwnerConfigures(a, signer)
  /\ pending # None
  /\ TimelockElapsed(pending)
  /\ AssertV3Hook(pending.module)
  /\ account' = [account EXCEPT ![a].hook = pending.module]
  /\ hookConfig' = ClearAccount(hookConfig, account[a].hook, a)
  /\ pendingHook' = [pendingHook EXCEPT ![a] = None]
  /\ UNCHANGED <<now, pendingVerifier, calls, markers, escrows, verifierConfig,
                 history>>

(* Cancelling is allowed while the account is escrowed. *)
CancelVerifierUpdate(a, signer) ==
  /\ AssertBackupOwner(a, signer)
  /\ pendingVerifier' = [pendingVerifier EXCEPT ![a] = None]
  /\ UNCHANGED <<now, account, pendingHook, calls, markers, escrows, configs,
                 history>>

CancelHookUpdate(a, signer) ==
  /\ AssertBackupOwner(a, signer)
  /\ pendingHook' = [pendingHook EXCEPT ![a] = None]
  /\ UNCHANGED <<now, account, pendingVerifier, calls, markers, escrows, configs,
                 history>>

-----------------------------------------------------------------------------
(* Plugin calls: the first request stages the call, the same request after  *)
(* the timelock performs it, a different one replaces it.                   *)

Staged(pending, module, c) ==
  pending # None /\ pending.module = module /\ pending.call = c

PendingModuleCall(module, c, signer) ==
  [module |-> module, call |-> c, initiatedAt |-> now, by |-> signer]

PerformCall(config, module, a, c, signer) ==
  [config EXCEPT ![module][a] = IF c \in ClearCall THEN None ELSE signer]

CallVerifier(a, signer, c) ==
  LET module == account[a].verifier IN
  /\ OwnerConfigures(a, signer)
  /\ module # Zero
  /\ \/ /\ ~Staged(pendingVerifierCall[a], module, c)
        /\ pendingVerifierCall' = [pendingVerifierCall EXCEPT ![a] =
              PendingModuleCall(module, c, signer)]
        /\ UNCHANGED verifierConfig
     \/ /\ Staged(pendingVerifierCall[a], module, c)
        /\ TimelockElapsed(pendingVerifierCall[a])
        /\ pendingVerifierCall' = [pendingVerifierCall EXCEPT ![a] = None]
        /\ verifierConfig' = PerformCall(verifierConfig, module, a, c, signer)
  /\ UNCHANGED <<now, account, updates, pendingHookCall, markers, escrows,
                 hookConfig, history>>

CallHook(a, signer, c) ==
  LET module == account[a].hook IN
  /\ OwnerConfigures(a, signer)
  /\ module # Zero
  /\ \/ /\ ~Staged(pendingHookCall[a], module, c)
        /\ pendingHookCall' = [pendingHookCall EXCEPT ![a] =
              PendingModuleCall(module, c, signer)]
        /\ UNCHANGED hookConfig
     \/ /\ Staged(pendingHookCall[a], module, c)
        /\ TimelockElapsed(pendingHookCall[a])
        /\ pendingHookCall' = [pendingHookCall EXCEPT ![a] = None]
        /\ hookConfig' = PerformCall(hookConfig, module, a, c, signer)
  /\ UNCHANGED <<now, account, updates, pendingVerifierCall, markers, escrows,
                 verifierConfig, history>>

(* The URI may be written or removed while the account is escrowed. *)
SetMetadataUri(a, signer, uri) ==
  /\ AssertBackupOwner(a, signer)
  /\ metadata' = [metadata EXCEPT ![a] = IF uri THEN signer ELSE None]
  /\ UNCHANGED <<now, account, updates, calls, escapeLastInitiated, escrows,
                 configs, history>>
-----------------------------------------------------------------------------
(* Escape hatch *)

InitiateEscape(a, signer) ==
  /\ OwnerConfigures(a, signer)
  /\ \/ escapeLastInitiated[a] = 0
     \/ now >= escapeLastInitiated[a] + EscapeCooldown
  /\ account' = [account EXCEPT ![a].escapeTriggeredAt = now,
                               ![a].escapeBy = signer]
  /\ escapeLastInitiated' = [escapeLastInitiated EXCEPT ![a] = now]
  /\ UNCHANGED <<now, updates, calls, metadata, escrows, configs, history>>

FinalizeEscape(a, signer, v, params) ==
  LET cleared == ClearAccount(verifierConfig, account[a].verifier, a) IN
  /\ OwnerConfigures(a, signer)
  /\ account[a].escapeTriggeredAt > 0
  /\ now >= account[a].escapeTriggeredAt + account[a].escapeTimelock
  /\ AssertV3Verifier(v)
  /\ account' = [account EXCEPT ![a].verifier = v, ![a].hook = Zero,
                   ![a].escapeTriggeredAt = 0, ![a].escapeBy = None]
  /\ verifierConfig' = SetPublicKey(cleared, v, {x \in {a} : params}, signer)
  /\ hookConfig' = ClearAccount(hookConfig, account[a].hook, a)
  /\ WipeEntries(a)
  /\ UNCHANGED <<now, escrows, history>>

(* What ExecuteUserOp does to the account record: an operation that runs    *)
(* while an escape is in flight needs the owner's witness and ends it.      *)
ExecuteUserOpEscape(a, signer) ==
  /\ OwnerConfigures(a, signer)
  /\ account[a].escapeTriggeredAt > 0
  /\ account' = [account EXCEPT ![a].escapeTriggeredAt = 0, ![a].escapeBy = None]
  /\ UNCHANGED <<now, updates, calls, markers, escrows, configs, history>>

-----------------------------------------------------------------------------
(* Market escrow *)

(* The market contract itself must be the caller. *)
EnterMarketEscrow(a, signer, market, listing) ==
  /\ OwnerConfigures(a, signer)
  /\ escrow' = [escrow EXCEPT ![a] =
                  [market |-> market, listing |-> listing, by |-> signer]]
  /\ UNCHANGED <<now, account, updates, calls, markers, cancelInitiated, configs,
                 history>>

AssertEscrowMarket(a, caller, listing) ==
  /\ escrow[a] # None
  /\ escrow[a].market = caller
  /\ escrow[a].listing = listing

ClearMarketEscrow_KeepTimer(a) ==
  /\ escrow' = [escrow EXCEPT ![a] = None]
  /\ UNCHANGED cancelInitiated
ClearMarketEscrow(a) ==
  /\ escrow' = [escrow EXCEPT ![a] = None]
  /\ cancelInitiated' = [cancelInitiated EXCEPT ![a] = 0]

CancelMarketEscrow(a, caller, listing) ==
  /\ AssertEscrowMarket(a, caller, listing)
  /\ ClearMarketEscrow(a)
  /\ UNCHANGED <<now, account, updates, calls, markers, configs, history>>

SettleMarketEscrow(a, caller, listing, newOwner) ==
  /\ AssertEscrowMarket(a, caller, listing)
  /\ account' = [account EXCEPT ![a].backupOwner = newOwner,
                   ![a].verifier = Zero, ![a].hook = Zero,
                   ![a].escapeTriggeredAt = 0, ![a].escapeBy = None]
  /\ verifierConfig' = ClearAccount(verifierConfig, account[a].verifier, a)
  /\ hookConfig' = ClearAccount(hookConfig, account[a].hook, a)
  /\ WipeEntries(a)
  /\ ClearMarketEscrow(a)
  /\ tenure' = [tenure EXCEPT ![a] = {newOwner}]
  /\ UNCHANGED <<now, platform>>

(* Re-invoking restarts the timer. *)
InitiateMarketEscrowCancel(a, signer) ==
  /\ AssertBackupOwner(a, signer)
  /\ escrow[a] # None
  /\ cancelInitiated' = [cancelInitiated EXCEPT ![a] = now]
  /\ UNCHANGED <<now, account, updates, calls, markers, escrow, configs, history>>

ForceCancelMarketEscrow(a, signer) ==
  /\ AssertBackupOwner(a, signer)
  /\ escrow[a] # None
  /\ cancelInitiated[a] > 0
  /\ now >= cancelInitiated[a] + CancelTimelock
  /\ ClearMarketEscrow(a)
  /\ UNCHANGED <<now, account, updates, calls, markers, configs, history>>

-----------------------------------------------------------------------------
RegistrarNext(a) ==
  \E o \in Owner : RegisterPlatformAccount(a, o) \/ RotatePlatformAccountOwner(a, o)

ModuleNext(a, signer) ==
  \/ \E v \in Verifier \cup NonV3 \cup {Zero}, params \in BOOLEAN :
       UpdateVerifier(a, signer, v, params)
  \/ \E h \in Hook \cup {Zero} : UpdateHook(a, signer, h)
  \/ ConfirmVerifierUpdate(a, signer)
  \/ ConfirmHookUpdate(a, signer)
  \/ CancelVerifierUpdate(a, signer)
  \/ CancelHookUpdate(a, signer)
  \/ \E c \in Call : CallVerifier(a, signer, c) \/ CallHook(a, signer, c)
  \/ \E uri \in BOOLEAN : SetMetadataUri(a, signer, uri)

EscapeNext(a, signer) ==
  \/ InitiateEscape(a, signer)
  \/ \E v \in Verifier \cup {Zero}, params \in BOOLEAN :
       FinalizeEscape(a, signer, v, params)
  \/ ExecuteUserOpEscape(a, signer)

EscrowNext(a, signer) ==
  \/ \E m \in Market, l \in Listing :
       \/ EnterMarketEscrow(a, signer, m, l)
       \/ CancelMarketEscrow(a, m, l)
       \/ SettleMarketEscrow(a, m, l, signer)
  \/ InitiateMarketEscrowCancel(a, signer)
  \/ ForceCancelMarketEscrow(a, signer)

Next ==
  \/ Tick
  \/ \E S \in SUBSET Account, signer \in Owner : RegisterAccounts(S, signer)
  \/ \E a \in Account :
       \/ RegistrarNext(a)
       \/ \E signer \in Owner :
            ModuleNext(a, signer) \/ EscapeNext(a, signer) \/ EscrowNext(a, signer)

Spec == Init /\ [][Next]_walletVars
-----------------------------------------------------------------------------
(* Safety *)

(* A replacement is pending only while there is a module to replace.  The   *)
(* immediate branch of UpdateVerifier/UpdateHook does not look at the       *)
(* pending entry, so an entry beside an empty slot would let its owner      *)
(* install a module now and have the older, already matured proposal        *)
(* overwrite it at once.                                                    *)
PendingReplacesAModule ==
  \A a \in Account :
    /\ pendingVerifier[a] # None =>
         account[a] # None /\ account[a].verifier # Zero
    /\ pendingHook[a] # None =>
         account[a] # None /\ account[a].hook # Zero

(* A plugin keeps configuration only for accounts it is installed on: every *)
(* path that takes a plugin off an account (replacement, escape, sale) also *)
(* runs its clearAccount.                                                   *)
ConfiguredOnlyWhereInstalled ==
  \A a \in Account :
    /\ \A v \in Verifier : verifierConfig[v][a] # None =>
         account[a] # None /\ account[a].verifier = v
    /\ \A h \in Hook : hookConfig[h][a] # None =>
         account[a] # None /\ account[a].hook = h

(* Every order of replacements, escapes and sales leaves neither a          *)
(* proposal nor a configuration behind that a later one could bring to life.*)
NoModuleStateAstray == PendingReplacesAModule /\ ConfiguredOnlyWhereInstalled

(* An escape in flight was started by the principal who is owner now, so no *)
(* former owner's escape matures against the current one.                   *)
EscapeByCurrentOwner ==
  \A a \in Account :
    account[a] # None /\ account[a].escapeTriggeredAt > 0 =>
      account[a].escapeBy = account[a].backupOwner

(* The escrow that lets a market sell the account was entered by the        *)
(* principal who is owner now: ownership cannot move under an open escrow.  *)
EscrowByCurrentOwner ==
  \A a \in Account :
    escrow[a] # None => account[a] # None /\ escrow[a].by = account[a].backupOwner

(* Neither an escape nor an escrow outlives the ownership it was made under.*)
OnlyCurrentOwnerActs == EscapeByCurrentOwner /\ EscrowByCurrentOwner

(* A sold account carries nothing of the seller: every staged replacement   *)
(* or call, plugin configuration, metadata and escape on an account comes   *)
(* from an owner it has had since it was registered or last sold.           *)
NothingOutlivesTheSale ==
  \A a \in Account :
    /\ \A p \in {pendingVerifier[a], pendingHook[a],
                 pendingVerifierCall[a], pendingHookCall[a]} :
         p # None => p.by \in tenure[a]
    /\ metadata[a] # None => metadata[a] \in tenure[a]
    /\ \A v \in Verifier :
         verifierConfig[v][a] # None => verifierConfig[v][a] \in tenure[a]
    /\ \A h \in Hook : hookConfig[h][a] # None => hookConfig[h][a] \in tenure[a]
    /\ account[a] # None => account[a].backupOwner \in tenure[a]

(* The cooldown stamp records the escape in flight, and an owner's escrow   *)
(* cancellation runs only while there is an escrow to cancel: a stale one   *)
(* would let the next escrow be cancelled without its seven days.           *)
TimersBelongToWhatTheyTime ==
  \A a \in Account :
    /\ account[a] # None /\ account[a].escapeTriggeredAt > 0 =>
         escapeLastInitiated[a] = account[a].escapeTriggeredAt
    /\ cancelInitiated[a] > 0 => escrow[a] # None

-----------------------------------------------------------------------------
(* What a step may never do *)

Matured(pending) == pending # None /\ now >= pending.initiatedAt + ConfigTimelock

EscapeMatured(a) ==
  /\ account[a].escapeTriggeredAt > 0
  /\ now >= account[a].escapeTriggeredAt + account[a].escapeTimelock

Sold(a) == escrow[a] # None /\ escrow'[a] = None

(* A change of the verifier, of the hook, or of what either holds for the   *)
(* account.                                                                 *)
Announced(a) ==
  LET v == account[a].verifier
      h == account[a].hook
  IN /\ v # Zero /\ ( \/ account'[a].verifier # v
                      \/ verifierConfig'[v][a] # verifierConfig[v][a]) =>
          \/ Matured(pendingVerifier[a]) \/ Matured(pendingVerifierCall[a])
          \/ EscapeMatured(a) \/ Sold(a)
     /\ h # Zero /\ ( \/ account'[a].hook # h
                      \/ hookConfig'[h][a] # hookConfig[h][a]) =>
          \/ Matured(pendingHook[a]) \/ Matured(pendingHookCall[a])
          \/ EscapeMatured(a) \/ Sold(a)

(* Once an account has a verifier (hook), neither the module nor what it    *)
(* holds for the account changes without notice: the change was staged for  *)
(* ConfigTimelock, or an escape ran its full timelock, or a market sells    *)
(* the account.                                                             *)
AuthorityChangesAreAnnounced ==
  [][\A a \in Account : account[a] # None => Announced(a)]_walletVars

(* From the moment it is listed until the escrow ends, nothing a buyer can  *)
(* inspect changes: owner, modules, their configuration and the escape.     *)
EscrowFreezesTheAccount ==
  [][\A a \in Account : escrow[a] # None /\ escrow'[a] # None =>
       /\ account'[a] = account[a]
       /\ escrow'[a] = escrow[a]
       /\ \A v \in Verifier : verifierConfig'[v][a] = verifierConfig[v][a]
       /\ \A h \in Hook : hookConfig'[h][a] = hookConfig[h][a]
    ]_walletVars
-----------------------------------------------------------------------------
(* Refinement: an open escrow is its owner's standing consent to a sale. *)
Custody == INSTANCE AccountCustody WITH
  owner   <- [a \in Account |->
               IF account[a] = None THEN None ELSE account[a].backupOwner],
  consent <- [a \in Account |-> IF escrow[a] = None THEN None ELSE escrow[a].by],
  managed <- platform

(* The wallet implements AccountCustody: whatever the order of listings,    *)
(* cancellations, escapes and rotations, an account changes hands only by a *)
(* sale its present owner consented to or by its platform.                  *)
ImplementsCustody == Custody!Spec
=============================================================================
