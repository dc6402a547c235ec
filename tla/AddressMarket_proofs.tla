------------------------- MODULE AddressMarket_proofs -------------------------
(***************************************************************************)
(* The wallet's account book, on its own and under the market that sells   *)
(* from it, for every set of accounts, owners, modules, markets, listings  *)
(* and prices and every timelock.                                          *)
(*                                                                         *)
(* First the theorems of SmartWallet, of any market that may hold an       *)
(* escrow: present owners, modules in place, timers, sales, notice; and    *)
(* that it implements AccountCustody.  Then this market.  A state keeps    *)
(* the invariant of its listings, its deposits and its money at any        *)
(* moment, in the middle of a settlement too, and so does the state an     *)
(* abort would put back.  Sums are folds over finite sets: their laws come *)
(* first, by induction on the subsets of a finite set.                     *)
(***************************************************************************)
EXTENDS AddressMarket, FiniteSetTheorems, WellFoundedInduction, TLAPS

(* The helpers keep the type of what plugins store. *)
LEMMA ClearAccountType ==
  ASSUME NEW M, NEW config \in [M -> [Account -> Owner \cup {None}]],
         NEW module, NEW a \in Account
  PROVE  ClearAccount(config, module, a) \in [M -> [Account -> Owner \cup {None}]]
BY DEF ClearAccount

LEMMA SetPublicKeyType ==
  ASSUME NEW M, NEW config \in [M -> [Account -> Owner \cup {None}]],
         NEW module, NEW S, NEW who \in Owner
  PROVE  SetPublicKey(config, module, S, who) \in [M -> [Account -> Owner \cup {None}]]
BY DEF SetPublicKey

LEMMA PerformCallType ==
  ASSUME NEW M, NEW config \in [M -> [Account -> Owner \cup {None}]],
         NEW module \in M, NEW a \in Account, NEW c, NEW signer \in Owner
  PROVE  PerformCall(config, module, a, c, signer)
           \in [M -> [Account -> Owner \cup {None}]]
<1>1. [config[module] EXCEPT ![a] = IF c \in ClearCall THEN None ELSE signer]
        \in [Account -> Owner \cup {None}]
  OBVIOUS
<1> QED BY <1>1 DEF PerformCall

(* An account record keeps its type when a module is replaced. *)
LEMMA SetModuleType ==
  ASSUME NEW s \in AccountState,
         NEW v \in Verifier \cup {Zero}, NEW h \in Hook \cup {Zero}
  PROVE  /\ [s EXCEPT !.verifier = v] \in AccountState
         /\ [s EXCEPT !.hook = h] \in AccountState
BY DEF AccountState

(* Time 0, "never", is a time. *)
LEMMA ZeroIsTime == 0 \in Time
BY ConstantsAssumption DEF Time

LEMMA InitType == Init => TypeOK
BY ConstantsAssumption DEF Init, TypeOK, Time

LEMMA RegistrarType ==
  ASSUME TypeOK, NEW a \in Account, RegistrarNext(a)
  PROVE  TypeOK'
<1>1. ASSUME NEW o \in Owner, RegisterPlatformAccount(a, o)
      PROVE  TypeOK'
  <2> DEFINE S == {x \in {a} : Registration[x].params}
  <2>1. NewAccount(a, o) \in AccountState
    BY ConstantsAssumption DEF NewAccount, AccountState, RegistrationParams, Time
  <2>2. /\ account' = [x \in Account |-> IF x \in {a} THEN NewAccount(x, o) ELSE account[x]]
        /\ verifierConfig' = SetPublicKey(verifierConfig, Zero, S, o)
        /\ tenure' = [x \in Account |-> IF x \in {a} THEN {o} ELSE tenure[x]]
        /\ platform' = platform \cup {a}
        /\ UNCHANGED <<now, updates, calls, markers, escrows, hookConfig>>
    BY <1>1 DEF RegisterPlatformAccount, RegisterAccountCore
  <2>3. verifierConfig' \in [Verifier -> [Account -> Owner \cup {None}]]
    BY <2>2, SetPublicKeyType DEF TypeOK
  <2>4. account' \in [Account -> AccountState \cup {None}]
    BY <2>1, <2>2 DEF TypeOK
  <2> QED BY <2>2, <2>3, <2>4 DEF TypeOK, updates, calls, markers, escrows
<1>2. ASSUME NEW o \in Owner, RotatePlatformAccountOwner(a, o)
      PROVE  TypeOK'
  <2>1. account' \in [Account -> AccountState \cup {None}]
    <3>1. account[a] \in AccountState
      BY <1>2 DEF RotatePlatformAccountOwner, TypeOK
    <3>2. [account[a] EXCEPT !.backupOwner = o] \in AccountState
      BY <3>1 DEF AccountState
    <3> QED
      BY <1>2, <3>2 DEF RotatePlatformAccountOwner, TypeOK
  <2>2. tenure[a] \cup {o} \in SUBSET Owner
    BY DEF TypeOK
  <2>3. tenure' \in [Account -> SUBSET Owner]
    BY <1>2, <2>2 DEF RotatePlatformAccountOwner, TypeOK
  <2> QED
    BY <1>2, <2>1, <2>3 DEF RotatePlatformAccountOwner, TypeOK, updates, calls, markers,
       escrows, configs
<1> QED BY <1>1, <1>2 DEF RegistrarNext

LEMMA ModuleType ==
  ASSUME TypeOK, NEW a \in Account, NEW signer \in Owner, ModuleNext(a, signer)
  PROVE  TypeOK'
<1>1. ASSUME NEW v \in Verifier \cup NonV3 \cup {Zero}, NEW params \in BOOLEAN,
             UpdateVerifier(a, signer, v, params)
      PROVE  TypeOK'
  <2>1. account' \in [Account -> AccountState \cup {None}]
    <3>1. account[a] \in AccountState
      BY <1>1 DEF UpdateVerifier, OwnerConfigures, AssertBackupOwner, TypeOK
    <3>2. CASE account[a].verifier = Zero
      <4>1. [account[a] EXCEPT !.verifier = v] \in AccountState
        BY <1>1, <3>1, <3>2, SetModuleType DEF UpdateVerifier, AssertV3Verifier
      <4> QED
        <5>1. account' = [account EXCEPT ![a] = [account[a] EXCEPT !.verifier = v]]
          BY <1>1, <3>2 DEF UpdateVerifier
        <5>2. account \in [Account -> AccountState \cup {None}]
          BY DEF TypeOK
        <5> QED BY ONLY <4>1, <5>1, <5>2, a \in Account
    <3>3. CASE account[a].verifier # Zero
      BY <1>1, <3>3 DEF UpdateVerifier, TypeOK
    <3> QED
      BY <3>2, <3>3
  <2>2. verifierConfig' \in [Verifier -> [Account -> Owner \cup {None}]]
    BY <1>1, SetPublicKeyType DEF UpdateVerifier, TypeOK
  <2>3. [module |-> v, params |-> params, initiatedAt |-> now, by |-> signer]
          \in PendingUpdate
    BY DEF PendingUpdate, TypeOK
  <2>4. pendingVerifier' \in [Account -> PendingUpdate \cup {None}]
    BY <1>1, <2>3 DEF UpdateVerifier, TypeOK
  <2> QED
    BY <1>1, <2>1, <2>2, <2>4 DEF UpdateVerifier, TypeOK, calls, markers, escrows,
       history
<1>2. ASSUME NEW h \in Hook \cup {Zero}, UpdateHook(a, signer, h)
      PROVE  TypeOK'
  <2>1. account' \in [Account -> AccountState \cup {None}]
    <3>1. account[a] \in AccountState
      BY <1>2 DEF UpdateHook, OwnerConfigures, AssertBackupOwner, TypeOK
    <3>2. [account[a] EXCEPT !.hook = h] \in AccountState
      BY <3>1, SetModuleType
    <3> QED
      BY <1>2, <3>2 DEF UpdateHook, TypeOK
  <2>2. [module |-> h, params |-> FALSE, initiatedAt |-> now, by |-> signer]
          \in PendingUpdate
    BY DEF PendingUpdate, TypeOK
  <2>3. pendingHook' \in [Account -> PendingUpdate \cup {None}]
    BY <1>2, <2>2 DEF UpdateHook, TypeOK
  <2> QED
    BY <1>2, <2>1, <2>3 DEF UpdateHook, TypeOK, calls, markers, escrows, configs,
       history
<1>3. CASE ConfirmVerifierUpdate(a, signer)
  <2>1. account' \in [Account -> AccountState \cup {None}]
    <3>1. account[a] \in AccountState
      BY <1>3 DEF ConfirmVerifierUpdate, OwnerConfigures, AssertBackupOwner, TypeOK
    <3>2. [account[a] EXCEPT !.verifier = pendingVerifier[a].module] \in AccountState
      BY <1>3, <3>1, SetModuleType DEF ConfirmVerifierUpdate, AssertV3Verifier
    <3> QED
      BY <1>3, <3>2 DEF ConfirmVerifierUpdate, TypeOK
  <2>2. verifierConfig' \in [Verifier -> [Account -> Owner \cup {None}]]
    BY <1>3, SetPublicKeyType, ClearAccountType DEF ConfirmVerifierUpdate, TypeOK
  <2> QED
    BY <1>3, <2>1, <2>2 DEF ConfirmVerifierUpdate, TypeOK, calls, markers, escrows,
       history
<1>4. CASE ConfirmHookUpdate(a, signer)
  <2>1. account' \in [Account -> AccountState \cup {None}]
    <3>1. account[a] \in AccountState
      BY <1>4 DEF ConfirmHookUpdate, OwnerConfigures, AssertBackupOwner, TypeOK
    <3>2. [account[a] EXCEPT !.hook = pendingHook[a].module] \in AccountState
      BY <1>4, <3>1, SetModuleType DEF ConfirmHookUpdate, AssertV3Hook
    <3> QED
      BY <1>4, <3>2 DEF ConfirmHookUpdate, TypeOK
  <2>2. hookConfig' \in [Hook -> [Account -> Owner \cup {None}]]
    BY <1>4, ClearAccountType DEF ConfirmHookUpdate, TypeOK
  <2> QED
    BY <1>4, <2>1, <2>2 DEF ConfirmHookUpdate, TypeOK, calls, markers, escrows,
       history
<1>5. CASE CancelVerifierUpdate(a, signer)
  BY <1>5 DEF CancelVerifierUpdate, TypeOK, calls, markers, escrows, configs, history
<1>6. CASE CancelHookUpdate(a, signer)
  BY <1>6 DEF CancelHookUpdate, TypeOK, calls, markers, escrows, configs, history
<1>7. ASSUME NEW c \in Call, CallVerifier(a, signer, c)
      PROVE  TypeOK'
  <2>1. account[a].verifier \in Verifier
    BY <1>7 DEF CallVerifier, OwnerConfigures, AssertBackupOwner, TypeOK, AccountState
  <2>2. PendingModuleCall(account[a].verifier, c, signer) \in PendingCall
    BY <2>1 DEF PendingModuleCall, PendingCall, TypeOK
  <2>3. pendingVerifierCall' \in [Account -> PendingCall \cup {None}]
    BY <1>7, <2>2 DEF CallVerifier, TypeOK
  <2>4. verifierConfig' \in [Verifier -> [Account -> Owner \cup {None}]]
    <3>1. verifierConfig \in [Verifier -> [Account -> Owner \cup {None}]]
      BY DEF TypeOK
    <3>2. PerformCall(verifierConfig, account[a].verifier, a, c, signer)
            \in [Verifier -> [Account -> Owner \cup {None}]]
      BY ONLY <2>1, <3>1, a \in Account, signer \in Owner, PerformCallType
    <3>3. \/ verifierConfig' = verifierConfig
          \/ verifierConfig' = PerformCall(verifierConfig, account[a].verifier, a, c, signer)
      BY <1>7, Zenon DEF CallVerifier
    <3> QED BY ONLY <3>1, <3>2, <3>3, Zenon
  <2> QED
    BY <1>7, <2>3, <2>4 DEF CallVerifier, TypeOK, updates, markers, escrows, history
<1>8. ASSUME NEW c \in Call, CallHook(a, signer, c)
      PROVE  TypeOK'
  <2>1. account[a].hook \in Hook
    BY <1>8 DEF CallHook, OwnerConfigures, AssertBackupOwner, TypeOK, AccountState
  <2>2. PendingModuleCall(account[a].hook, c, signer) \in PendingCall
    BY <2>1 DEF PendingModuleCall, PendingCall, TypeOK
  <2>3. pendingHookCall' \in [Account -> PendingCall \cup {None}]
    BY <1>8, <2>2 DEF CallHook, TypeOK
  <2>4. hookConfig' \in [Hook -> [Account -> Owner \cup {None}]]
    <3>1. hookConfig \in [Hook -> [Account -> Owner \cup {None}]]
      BY DEF TypeOK
    <3>2. PerformCall(hookConfig, account[a].hook, a, c, signer)
            \in [Hook -> [Account -> Owner \cup {None}]]
      BY ONLY <2>1, <3>1, a \in Account, signer \in Owner, PerformCallType
    <3>3. hookConfig' = hookConfig \/ hookConfig' = PerformCall(hookConfig, account[a].hook, a, c, signer)
      BY <1>8, Zenon DEF CallHook
    <3> QED BY ONLY <3>1, <3>2, <3>3, Zenon
  <2> QED
    BY <1>8, <2>3, <2>4 DEF CallHook, TypeOK, updates, markers, escrows, history
<1>9. ASSUME NEW uri \in BOOLEAN, SetMetadataUri(a, signer, uri)
      PROVE  TypeOK'
  BY <1>9 DEF SetMetadataUri, TypeOK, updates, calls, escrows, configs, history
<1> QED
  BY <1>1, <1>2, <1>3, <1>4, <1>5, <1>6, <1>7, <1>8, <1>9 DEF ModuleNext

LEMMA WipeEntriesType ==
  ASSUME TypeOK, NEW a \in Account, WipeEntries(a)
  PROVE  /\ pendingVerifier' \in [Account -> PendingUpdate \cup {None}]
         /\ pendingHook' \in [Account -> PendingUpdate \cup {None}]
         /\ pendingVerifierCall' \in [Account -> PendingCall \cup {None}]
         /\ pendingHookCall' \in [Account -> PendingCall \cup {None}]
         /\ escapeLastInitiated' \in [Account -> Time]
         /\ metadata' \in [Account -> Owner \cup {None}]
BY ConstantsAssumption DEF WipeEntries, TypeOK, Time

LEMMA EscapeType ==
  ASSUME TypeOK, NEW a \in Account, NEW signer \in Owner, EscapeNext(a, signer)
  PROVE  TypeOK'
<1>1. CASE InitiateEscape(a, signer)
  <2>1. account[a] \in AccountState
    BY <1>1 DEF InitiateEscape, OwnerConfigures, AssertBackupOwner, TypeOK
  <2>2. [account[a] EXCEPT !.escapeTriggeredAt = now, !.escapeBy = signer]
          \in AccountState
    BY <2>1 DEF AccountState, TypeOK
  <2>3. account' \in [Account -> AccountState \cup {None}]
    BY <1>1, <2>2 DEF InitiateEscape, TypeOK
  <2> QED
    BY <1>1, <2>3 DEF InitiateEscape, TypeOK, updates, calls, escrows, configs,
       history
<1>2. ASSUME NEW v \in Verifier \cup {Zero}, NEW params \in BOOLEAN,
             FinalizeEscape(a, signer, v, params)
      PROVE  TypeOK'
  <2>1. account[a] \in AccountState
    BY <1>2 DEF FinalizeEscape, OwnerConfigures, AssertBackupOwner, TypeOK
  <2>2. [account[a] EXCEPT !.verifier = v, !.hook = Zero,
                           !.escapeTriggeredAt = 0, !.escapeBy = None]
          \in AccountState
    BY <2>1, ZeroIsTime DEF AccountState
  <2>3. account' \in [Account -> AccountState \cup {None}]
    BY <1>2, <2>2 DEF FinalizeEscape, TypeOK
  <2>4. /\ verifierConfig' \in [Verifier -> [Account -> Owner \cup {None}]]
        /\ hookConfig' \in [Hook -> [Account -> Owner \cup {None}]]
    BY <1>2, SetPublicKeyType, ClearAccountType DEF FinalizeEscape, TypeOK
  <2>5. WipeEntries(a) /\ UNCHANGED <<now, escrows, history>>
    BY <1>2 DEF FinalizeEscape
  <2>6. /\ pendingVerifier' \in [Account -> PendingUpdate \cup {None}]
        /\ pendingHook' \in [Account -> PendingUpdate \cup {None}]
        /\ pendingVerifierCall' \in [Account -> PendingCall \cup {None}]
        /\ pendingHookCall' \in [Account -> PendingCall \cup {None}]
        /\ escapeLastInitiated' \in [Account -> Time]
        /\ metadata' \in [Account -> Owner \cup {None}]
    BY <2>5, WipeEntriesType
  <2> QED
    BY <2>3, <2>4, <2>5, <2>6 DEF TypeOK, escrows, history
<1>3. CASE ExecuteUserOpEscape(a, signer)
  <2>1. account[a] \in AccountState
    BY <1>3 DEF ExecuteUserOpEscape, OwnerConfigures, AssertBackupOwner, TypeOK
  <2>2. [account[a] EXCEPT !.escapeTriggeredAt = 0, !.escapeBy = None]
          \in AccountState
    BY <2>1, ZeroIsTime DEF AccountState
  <2>3. account' \in [Account -> AccountState \cup {None}]
    BY <1>3, <2>2 DEF ExecuteUserOpEscape, TypeOK
  <2> QED
    BY <1>3, <2>3 DEF ExecuteUserOpEscape, TypeOK, updates, calls, markers, escrows,
       configs, history
<1> QED BY <1>1, <1>2, <1>3 DEF EscapeNext

LEMMA ClearMarketEscrowType ==
  ASSUME TypeOK, NEW a \in Account, ClearMarketEscrow(a)
  PROVE  /\ escrow' \in [Account -> Escrow \cup {None}]
         /\ cancelInitiated' \in [Account -> Time]
BY ConstantsAssumption DEF ClearMarketEscrow, TypeOK, Time

LEMMA EscrowType ==
  ASSUME TypeOK, NEW a \in Account, NEW signer \in Owner, EscrowNext(a, signer),
         EscrowByCurrentOwner
  PROVE  TypeOK'
<1>1. ASSUME NEW m \in Market, NEW l \in Listing, EnterMarketEscrow(a, signer, m, l)
      PROVE  TypeOK'
  <2>1. [market |-> m, listing |-> l, by |-> signer] \in Escrow
    BY DEF Escrow
  <2> QED
    BY <1>1, <2>1 DEF EnterMarketEscrow, TypeOK, updates, calls, markers, configs,
       history
<1>2. ASSUME NEW m \in Market, NEW l \in Listing, CancelMarketEscrow(a, m, l)
      PROVE  TypeOK'
  BY <1>2, ClearMarketEscrowType DEF CancelMarketEscrow, TypeOK, updates, calls,
     markers, configs, history
<1>3. ASSUME NEW m \in Market, NEW l \in Listing, SettleMarketEscrow(a, m, l, signer)
      PROVE  TypeOK'
  <2>1. account[a] \in AccountState
    BY <1>3 DEF SettleMarketEscrow, AssertEscrowMarket, EscrowByCurrentOwner, TypeOK
  <2>2. [account[a] EXCEPT !.backupOwner = signer, !.verifier = Zero, !.hook = Zero,
                           !.escapeTriggeredAt = 0, !.escapeBy = None]
          \in AccountState
    BY <2>1, ZeroIsTime DEF AccountState
  <2>3. account' \in [Account -> AccountState \cup {None}]
    BY <1>3, <2>2 DEF SettleMarketEscrow, TypeOK
  <2>4. /\ verifierConfig' \in [Verifier -> [Account -> Owner \cup {None}]]
        /\ hookConfig' \in [Hook -> [Account -> Owner \cup {None}]]
    BY <1>3, ClearAccountType DEF SettleMarketEscrow, TypeOK
  <2>5. /\ WipeEntries(a) /\ ClearMarketEscrow(a)
        /\ UNCHANGED <<now, platform>>
        /\ tenure' = [tenure EXCEPT ![a] = {signer}]
    BY <1>3 DEF SettleMarketEscrow
  <2>6. /\ pendingVerifier' \in [Account -> PendingUpdate \cup {None}]
        /\ pendingHook' \in [Account -> PendingUpdate \cup {None}]
        /\ pendingVerifierCall' \in [Account -> PendingCall \cup {None}]
        /\ pendingHookCall' \in [Account -> PendingCall \cup {None}]
        /\ escapeLastInitiated' \in [Account -> Time]
        /\ metadata' \in [Account -> Owner \cup {None}]
    BY <2>5, WipeEntriesType
  <2>7. escrow' \in [Account -> Escrow \cup {None}] /\ cancelInitiated' \in [Account -> Time]
    BY <2>5, ClearMarketEscrowType
  <2> QED
    BY <2>3, <2>4, <2>5, <2>6, <2>7 DEF TypeOK
<1>4. CASE InitiateMarketEscrowCancel(a, signer)
  BY <1>4 DEF InitiateMarketEscrowCancel, TypeOK, updates, calls, markers, configs,
     history
<1>5. CASE ForceCancelMarketEscrow(a, signer)
  BY <1>5, ClearMarketEscrowType DEF ForceCancelMarketEscrow, TypeOK, updates, calls,
     markers, configs, history
<1> QED BY <1>1, <1>2, <1>3, <1>4, <1>5 DEF EscrowNext

LEMMA RegisterType ==
  ASSUME TypeOK, NEW S \in SUBSET Account, NEW signer \in Owner,
         RegisterAccounts(S, signer)
  PROVE  TypeOK'
<1>1. PICK v \in Verifier \cup {Zero} : RegisterAccountCore(S, v, signer)
  BY DEF RegisterAccounts
<1>2. ASSUME NEW a \in S
      PROVE  NewAccount(a, signer) \in AccountState
  BY ConstantsAssumption DEF NewAccount, AccountState, RegistrationParams, Time
<1>3. account' \in [Account -> AccountState \cup {None}]
  BY <1>1, <1>2 DEF RegisterAccountCore, TypeOK
<1>4. verifierConfig' \in [Verifier -> [Account -> Owner \cup {None}]]
  BY <1>1, SetPublicKeyType DEF RegisterAccountCore, TypeOK
<1>5. tenure' \in [Account -> SUBSET Owner]
  BY <1>1 DEF RegisterAccountCore, TypeOK
<1> QED
  BY <1>1, <1>3, <1>4, <1>5 DEF RegisterAccounts, RegisterAccountCore, TypeOK,
     updates, calls, markers, escrows

(* Between them the actions keep the type, given that only registered       *)
(* accounts are in escrow (a settlement writes the account record).         *)
LEMMA NextType ==
  ASSUME TypeOK, EscrowByCurrentOwner, [Next]_walletVars
  PROVE  TypeOK'
<1>1. ASSUME Tick PROVE TypeOK'
  <2>1. now' \in Time
    BY <1>1, ConstantsAssumption DEF Tick, TypeOK, Time
  <2> QED
    BY <1>1, <2>1 DEF Tick, TypeOK, updates, calls, markers, escrows, configs, history
<1>2. ASSUME UNCHANGED walletVars PROVE TypeOK'
  BY <1>2 DEF walletVars, TypeOK
<1>3. /\ \A S \in SUBSET Account, o \in Owner : RegisterAccounts(S, o) => TypeOK'
      /\ \A a \in Account : RegistrarNext(a) => TypeOK'
      /\ \A a \in Account, o \in Owner : ModuleNext(a, o) => TypeOK'
      /\ \A a \in Account, o \in Owner : EscapeNext(a, o) => TypeOK'
      /\ \A a \in Account, o \in Owner : EscrowNext(a, o) => TypeOK'
  BY RegisterType, RegistrarType, ModuleType, EscapeType, EscrowType
<1> QED
  BY <1>1, <1>2, <1>3 DEF Next
-----------------------------------------------------------------------------
(* What a step of each kind does to the account record: module operations   *)
(* touch the modules, the escape hatch touches modules and escape, and only *)
(* a rotation and a sale replace the owner.                                 *)
LEMMA ModuleRecord ==
  ASSUME TypeOK, NEW a \in Account, NEW signer \in Owner, ModuleNext(a, signer)
  PROVE  \A b \in Account : account[b] # None =>
           /\ account'[b] # None
           /\ account'[b].backupOwner = account[b].backupOwner
           /\ account'[b].escapeTriggeredAt = account[b].escapeTriggeredAt
           /\ account'[b].escapeBy = account[b].escapeBy
<1> DEFINE P == \A b \in Account : account[b] # None =>
                  /\ account'[b] # None
                  /\ account'[b].backupOwner = account[b].backupOwner
                  /\ account'[b].escapeTriggeredAt = account[b].escapeTriggeredAt
                  /\ account'[b].escapeBy = account[b].escapeBy
<1>0. account[a] # None
  BY DEF ModuleNext, UpdateVerifier, UpdateHook, ConfirmVerifierUpdate,
     ConfirmHookUpdate, CancelVerifierUpdate, CancelHookUpdate, CallVerifier,
     CallHook, SetMetadataUri, OwnerConfigures, AssertBackupOwner
<1>1. account \in [Account -> AccountState \cup {None}] /\ account[a] \in AccountState
  BY <1>0 DEF TypeOK
<1>2. ASSUME NEW v \in Verifier \cup {Zero},
             account' = [account EXCEPT ![a].verifier = v]
      PROVE  P
  <2>1. [account[a] EXCEPT !.verifier = v] \in AccountState
    BY <1>1, ZeroIsTime DEF AccountState
  <2> QED
    BY <1>0, <1>1, <1>2, <2>1, NoneAssumption DEF AccountState
<1>3. ASSUME NEW h \in Hook \cup {Zero},
             account' = [account EXCEPT ![a].hook = h]
      PROVE  P
  <2>1. [account[a] EXCEPT !.hook = h] \in AccountState
    BY <1>1, ZeroIsTime DEF AccountState
  <2> QED
    BY <1>0, <1>1, <1>3, <2>1, NoneAssumption DEF AccountState
<1>4. CASE UNCHANGED account
  BY <1>4
<1>5. \/ UNCHANGED account
      \/ \E v \in Verifier \cup {Zero} : account' = [account EXCEPT ![a].verifier = v]
      \/ \E h \in Hook \cup {Zero} : account' = [account EXCEPT ![a].hook = h]
  BY DEF ModuleNext, UpdateVerifier, UpdateHook, ConfirmVerifierUpdate,
     ConfirmHookUpdate, CancelVerifierUpdate, CancelHookUpdate, CallVerifier,
     CallHook, SetMetadataUri, AssertV3Verifier, AssertV3Hook
<1> QED
  BY <1>2, <1>3, <1>4, <1>5

LEMMA EscapeRecord ==
  ASSUME TypeOK, NEW a \in Account, NEW signer \in Owner, EscapeNext(a, signer)
  PROVE  /\ account[a] # None /\ account'[a] # None
         /\ account'[a].backupOwner = account[a].backupOwner
         /\ \A b \in Account \ {a} : account'[b] = account[b]
         /\ \/ account'[a].escapeTriggeredAt = 0
            \/ /\ account'[a].escapeTriggeredAt = now
               /\ account'[a].escapeBy = signer
               /\ signer = account[a].backupOwner
               /\ escapeLastInitiated'[a] = now
<1>0. account[a] # None
  BY DEF EscapeNext, InitiateEscape, FinalizeEscape, ExecuteUserOpEscape,
     OwnerConfigures, AssertBackupOwner
<1>1. account \in [Account -> AccountState \cup {None}] /\ account[a] \in AccountState
  BY <1>0 DEF TypeOK
<1>2. CASE InitiateEscape(a, signer)
  <2>1. [account[a] EXCEPT !.escapeTriggeredAt = now, !.escapeBy = signer] \in AccountState
    BY <1>1, ZeroIsTime DEF AccountState, TypeOK
  <2> QED
    BY <1>0, <1>1, <1>2, <2>1, NoneAssumption
       DEF InitiateEscape, AccountState, OwnerConfigures, AssertBackupOwner, TypeOK
<1>3. ASSUME NEW v \in Verifier \cup {Zero}, NEW params \in BOOLEAN,
             FinalizeEscape(a, signer, v, params)
      PROVE  /\ account'[a] # None
             /\ account'[a].backupOwner = account[a].backupOwner
             /\ \A b \in Account \ {a} : account'[b] = account[b]
             /\ account'[a].escapeTriggeredAt = 0
  <2>1. [account[a] EXCEPT !.verifier = v, !.hook = Zero,
                           !.escapeTriggeredAt = 0, !.escapeBy = None] \in AccountState
    BY <1>1, ZeroIsTime DEF AccountState
  <2> QED
    BY <1>0, <1>1, <1>3, <2>1, NoneAssumption DEF FinalizeEscape, AccountState
<1>4. CASE ExecuteUserOpEscape(a, signer)
  <2>1. [account[a] EXCEPT !.escapeTriggeredAt = 0, !.escapeBy = None] \in AccountState
    BY <1>1, ZeroIsTime DEF AccountState
  <2> QED
    BY <1>0, <1>1, <1>4, <2>1, NoneAssumption DEF ExecuteUserOpEscape, AccountState
<1> QED
  BY <1>0, <1>2, <1>3, <1>4 DEF EscapeNext

LEMMA RotationRecord ==
  ASSUME TypeOK, NEW a \in Account, NEW o \in Owner, RotatePlatformAccountOwner(a, o)
  PROVE  /\ account[a] # None /\ account'[a] # None
         /\ account'[a] = [account[a] EXCEPT !.backupOwner = o]
         /\ account'[a].backupOwner = o
         /\ account'[a].escapeTriggeredAt = 0
         /\ \A b \in Account \ {a} : account'[b] = account[b]
<1>1. account[a] # None /\ account[a] \in AccountState
  BY DEF RotatePlatformAccountOwner, TypeOK
<1>2. [account[a] EXCEPT !.backupOwner = o] \in AccountState
  BY <1>1, ZeroIsTime DEF AccountState
<1> QED
  BY <1>1, <1>2, NoneAssumption DEF RotatePlatformAccountOwner, TypeOK, AccountState, AssertNoEscape

LEMMA SettlementRecord ==
  ASSUME TypeOK, NEW a \in Account, NEW m, NEW l, NEW o \in Owner,
         SettleMarketEscrow(a, m, l, o), account[a] # None
  PROVE  /\ account'[a] # None
         /\ account'[a].backupOwner = o
         /\ account'[a].verifier = Zero /\ account'[a].hook = Zero
         /\ account'[a].escapeTriggeredAt = 0
         /\ \A b \in Account \ {a} : account'[b] = account[b]
<1>1. account[a] \in AccountState
  BY DEF TypeOK
<1>2. [account[a] EXCEPT !.backupOwner = o, !.verifier = Zero, !.hook = Zero,
         !.escapeTriggeredAt = 0, !.escapeBy = None] \in AccountState
  BY <1>1, ZeroIsTime DEF AccountState
<1> QED
  BY <1>1, <1>2, NoneAssumption, ZenonT(60) DEF SettleMarketEscrow, TypeOK, AccountState

LEMMA RegistrationRecord ==
  ASSUME NEW S \in SUBSET Account, NEW v, NEW o \in Owner,
         RegisterAccountCore(S, v, o)
  PROVE  /\ \A b \in S : /\ account[b] = None /\ account'[b] # None
                        /\ account'[b].backupOwner = o
                        /\ account'[b].escapeTriggeredAt = 0
                        /\ account'[b].verifier = v
                        /\ account'[b].hook = Registration[b].hook
         /\ \A b \in Account \ S : account'[b] = account[b]
<1>1. ASSUME NEW b \in S
      PROVE  NewAccount(b, o) \in AccountState
  BY ConstantsAssumption, ZeroIsTime DEF NewAccount, AccountState, RegistrationParams
<1> QED
  BY <1>1, NoneAssumption DEF RegisterAccountCore, NewAccount

(* Every way to open accounts registers some set of them for one owner.     *)
LEMMA RegistrarCases ==
  ASSUME NEW a \in Account, RegistrarNext(a)
  PROVE  \E o \in Owner : \/ /\ RegisterAccountCore({a}, Zero, o)
                              /\ platform' = platform \cup {a}
                           \/ RotatePlatformAccountOwner(a, o)
BY DEF RegistrarNext, RegisterPlatformAccount
-----------------------------------------------------------------------------
(* Ownership under escrow *)

LEMMA EscrowOwnerStep ==
  ASSUME TypeOK, EscrowByCurrentOwner, [Next]_walletVars
  PROVE  EscrowByCurrentOwner'
<1>1. ASSUME Tick \/ UNCHANGED walletVars
      PROVE  EscrowByCurrentOwner'
  BY <1>1 DEF EscrowByCurrentOwner, Tick, walletVars, escrows
<1>2. ASSUME NEW S \in SUBSET Account, NEW v, NEW o \in Owner,
             RegisterAccountCore(S, v, o)
      PROVE  EscrowByCurrentOwner'
  <2>1. escrow' = escrow
    BY <1>2 DEF RegisterAccountCore, escrows
  <2>2. /\ \A b \in S : account[b] = None
        /\ \A b \in Account \ S : account'[b] = account[b]
    BY <1>2, RegistrationRecord
  <2> QED
    BY <2>1, <2>2 DEF EscrowByCurrentOwner
<1>3. ASSUME NEW a \in Account, RegistrarNext(a)
      PROVE  EscrowByCurrentOwner'
  <2>1. ASSUME NEW o \in Owner, RotatePlatformAccountOwner(a, o)
        PROVE  EscrowByCurrentOwner'
    <3>1. escrow' = escrow /\ escrow[a] = None
      BY <2>1 DEF RotatePlatformAccountOwner, AssertNoMarketEscrow, escrows
    <3> QED
      BY <2>1, <3>1, RotationRecord, ZenonT(60) DEF EscrowByCurrentOwner
  <2>2. PICK o \in Owner : \/ RegisterAccountCore({a}, Zero, o)
                           \/ RotatePlatformAccountOwner(a, o)
    BY <1>3, RegistrarCases
  <2>3. {a} \in SUBSET Account
    OBVIOUS
  <2> QED
    BY <1>2, <2>1, <2>2, <2>3
<1>4. ASSUME NEW a \in Account, NEW o \in Owner, ModuleNext(a, o)
      PROVE  EscrowByCurrentOwner'
  <2>1. escrow' = escrow
    BY <1>4 DEF ModuleNext, UpdateVerifier, UpdateHook, ConfirmVerifierUpdate,
       ConfirmHookUpdate, CancelVerifierUpdate, CancelHookUpdate, CallVerifier,
       CallHook, SetMetadataUri, escrows
  <2> QED
    BY <1>4, <2>1, ModuleRecord DEF EscrowByCurrentOwner
<1>5. ASSUME NEW a \in Account, NEW o \in Owner, EscapeNext(a, o)
      PROVE  EscrowByCurrentOwner'
  <2>1. escrow' = escrow
    BY <1>5 DEF EscapeNext, InitiateEscape, FinalizeEscape, ExecuteUserOpEscape,
       escrows
  <2> QED
    BY <1>5, <2>1, EscapeRecord DEF EscrowByCurrentOwner
<1>6. ASSUME NEW a \in Account, NEW o \in Owner, EscrowNext(a, o)
      PROVE  EscrowByCurrentOwner'
  <2>1. ASSUME NEW m \in Market, NEW l \in Listing, EnterMarketEscrow(a, o, m, l)
        PROVE  EscrowByCurrentOwner'
    BY <2>1 DEF EnterMarketEscrow, OwnerConfigures, AssertBackupOwner,
       EscrowByCurrentOwner, TypeOK
  <2>2. ASSUME UNCHANGED account,
               \/ UNCHANGED escrow
               \/ escrow' = [escrow EXCEPT ![a] = None]
        PROVE  EscrowByCurrentOwner'
    BY <2>2 DEF EscrowByCurrentOwner, TypeOK
  <2>3. ASSUME NEW m \in Market, NEW l \in Listing, SettleMarketEscrow(a, m, l, o)
        PROVE  EscrowByCurrentOwner'
    <3>1. escrow' = [escrow EXCEPT ![a] = None] /\ account[a] # None
      BY <2>3 DEF SettleMarketEscrow, AssertEscrowMarket, ClearMarketEscrow,
         EscrowByCurrentOwner
    <3> QED
      BY <2>3, <3>1, SettlementRecord DEF EscrowByCurrentOwner, TypeOK
  <2> QED
    BY <1>6, <2>1, <2>2, <2>3 DEF EscrowNext, CancelMarketEscrow,
       InitiateMarketEscrowCancel, ForceCancelMarketEscrow, ClearMarketEscrow
<1> QED
  BY <1>1, <1>2, <1>3, <1>4, <1>5, <1>6 DEF Next, RegisterAccounts

(* The inductive invariant of ownership. *)
Ownership == TypeOK /\ EscrowByCurrentOwner /\ EscapeByCurrentOwner

LEMMA EscapeOwnerStep ==
  ASSUME Ownership, [Next]_walletVars
  PROVE  EscapeByCurrentOwner'
<1> USE DEF Ownership
<1>1. ASSUME UNCHANGED account
      PROVE  EscapeByCurrentOwner'
  BY <1>1 DEF EscapeByCurrentOwner
<1>2. ASSUME NEW S \in SUBSET Account, NEW v, NEW o \in Owner,
             RegisterAccountCore(S, v, o)
      PROVE  EscapeByCurrentOwner'
  <2>1. /\ \A b \in S : account'[b].escapeTriggeredAt = 0
        /\ \A b \in Account \ S : account'[b] = account[b]
    BY <1>2, RegistrationRecord
  <2> QED
    BY <2>1 DEF EscapeByCurrentOwner
<1>3. ASSUME NEW a \in Account, RegistrarNext(a)
      PROVE  EscapeByCurrentOwner'
  <2>1. PICK o \in Owner : \/ RegisterAccountCore({a}, Zero, o)
                           \/ RotatePlatformAccountOwner(a, o)
    BY <1>3, RegistrarCases
  <2>2. {a} \in SUBSET Account
    OBVIOUS
  <2>3. CASE RotatePlatformAccountOwner(a, o)
    <3>1. /\ account'[a].escapeTriggeredAt = 0
          /\ \A b \in Account \ {a} : account'[b] = account[b]
      BY <2>3, RotationRecord
    <3> QED
      BY <3>1 DEF EscapeByCurrentOwner
  <2> QED
    BY <1>2, <2>1, <2>2, <2>3
<1>4. ASSUME NEW a \in Account, NEW o \in Owner, ModuleNext(a, o)
      PROVE  EscapeByCurrentOwner'
  <2> SUFFICES ASSUME NEW b \in Account, account'[b] # None,
                      account'[b].escapeTriggeredAt > 0
               PROVE  account'[b].escapeBy = account'[b].backupOwner
    BY DEF EscapeByCurrentOwner
  <2>1. CASE account[b] # None
    BY <1>4, <2>1, ModuleRecord DEF EscapeByCurrentOwner
  <2>2. CASE account[b] = None
    <3>1. account'[b] = account[b]
      BY <1>4, <2>2 DEF ModuleNext, UpdateVerifier, UpdateHook, ConfirmVerifierUpdate,
         ConfirmHookUpdate, CancelVerifierUpdate, CancelHookUpdate, CallVerifier,
         CallHook, SetMetadataUri, OwnerConfigures, AssertBackupOwner, TypeOK
    <3> QED
      BY <2>2, <3>1
  <2> QED
    BY <2>1, <2>2
<1>5. ASSUME NEW a \in Account, NEW o \in Owner, EscapeNext(a, o)
      PROVE  EscapeByCurrentOwner'
  <2>1. /\ account[a] # None /\ account'[a] # None
        /\ account'[a].backupOwner = account[a].backupOwner
        /\ \A b \in Account \ {a} : account'[b] = account[b]
        /\ \/ account'[a].escapeTriggeredAt = 0
           \/ account'[a].escapeBy = account'[a].backupOwner
    BY <1>5, EscapeRecord
  <2>2. ASSUME NEW b \in Account, account'[b] # None,
               account'[b].escapeTriggeredAt > 0
        PROVE  account'[b].escapeBy = account'[b].backupOwner
    BY <2>1, <2>2 DEF EscapeByCurrentOwner
  <2> QED
    BY <2>2 DEF EscapeByCurrentOwner
<1>6. ASSUME NEW a \in Account, NEW o \in Owner, EscrowNext(a, o)
      PROVE  EscapeByCurrentOwner'
  <2>1. ASSUME NEW m \in Market, NEW l \in Listing, SettleMarketEscrow(a, m, l, o)
        PROVE  EscapeByCurrentOwner'
    <3>1. account[a] # None
      BY <2>1 DEF SettleMarketEscrow, AssertEscrowMarket, EscrowByCurrentOwner
    <3>2. /\ account'[a].escapeTriggeredAt = 0
          /\ \A b \in Account \ {a} : account'[b] = account[b]
      BY <2>1, <3>1, SettlementRecord
    <3> QED
      BY <3>2 DEF EscapeByCurrentOwner
  <2> QED
    BY <1>1, <1>6, <2>1 DEF EscrowNext, EnterMarketEscrow, CancelMarketEscrow,
       InitiateMarketEscrowCancel, ForceCancelMarketEscrow
<1> QED
  BY <1>1, <1>2, <1>3, <1>4, <1>5, <1>6
     DEF Next, RegisterAccounts, Tick, walletVars

LEMMA OwnershipInductive ==
  /\ Init => Ownership
  /\ Ownership /\ [Next]_walletVars => Ownership'
<1>1. Init => Ownership
  BY InitType DEF Init, Ownership, EscrowByCurrentOwner, EscapeByCurrentOwner
<1>2. Ownership /\ [Next]_walletVars => Ownership'
  BY NextType, EscrowOwnerStep, EscapeOwnerStep DEF Ownership
<1> QED
  BY <1>1, <1>2

LEMMA OwnershipInvariant == Spec => []Ownership
BY OwnershipInductive, PTL DEF Spec

(* Every reachable state of the account book is well formed, whatever the   *)
(* accounts, owners, plugins and timelocks.                                 *)
THEOREM TypeCorrect == Spec => []TypeOK
BY OwnershipInvariant, PTL DEF Ownership

(* No step of registration, configuration, rotation, escape or sale lets    *)
(* ownership move while a market holds the account, and no former owner's   *)
(* escape is ever in flight against the current owner.                      *)
THEOREM CurrentOwnership == Spec => []OnlyCurrentOwnerActs
BY OwnershipInvariant, PTL DEF Ownership, OnlyCurrentOwnerActs
-----------------------------------------------------------------------------
(* Steps touch the account they name and no other *)

(* A step leaves alone what wallet and plugins store for an account. *)
LeavesAlone(b) ==
  /\ account'[b] = account[b]
  /\ pendingVerifier'[b] = pendingVerifier[b]
  /\ pendingHook'[b] = pendingHook[b]
  /\ pendingVerifierCall'[b] = pendingVerifierCall[b]
  /\ pendingHookCall'[b] = pendingHookCall[b]
  /\ escapeLastInitiated'[b] = escapeLastInitiated[b]
  /\ metadata'[b] = metadata[b]
  /\ escrow'[b] = escrow[b]
  /\ cancelInitiated'[b] = cancelInitiated[b]
  /\ tenure'[b] = tenure[b]
  /\ \A v \in Verifier : verifierConfig'[v][b] = verifierConfig[v][b]
  /\ \A h \in Hook : hookConfig'[h][b] = hookConfig[h][b]

LEMMA RegistrarLeavesAlone ==
  ASSUME TypeOK, NEW a \in Account, RegistrarNext(a), NEW b \in Account, b # a
  PROVE  LeavesAlone(b)
<1>1. ASSUME NEW o \in Owner, RegisterPlatformAccount(a, o)
      PROVE  LeavesAlone(b)
  BY <1>1 DEF SetPublicKey, RegisterPlatformAccount, RegisterAccountCore, TypeOK,
     LeavesAlone, updates, calls, markers, escrows
<1>2. ASSUME NEW o \in Owner, RotatePlatformAccountOwner(a, o)
      PROVE  LeavesAlone(b)
  BY <1>2 DEF RotatePlatformAccountOwner, TypeOK, LeavesAlone, updates,
     calls, markers, escrows, configs
<1> QED
  BY <1>1, <1>2 DEF RegistrarNext

LEMMA ModuleLeavesAlone ==
  ASSUME TypeOK, NEW a \in Account, NEW signer \in Owner, ModuleNext(a, signer),
         NEW b \in Account, b # a
  PROVE  LeavesAlone(b)
<1>1. ASSUME NEW v, NEW params, UpdateVerifier(a, signer, v, params)
      PROVE  LeavesAlone(b)
  BY <1>1 DEF SetPublicKey, ClearAccount, UpdateVerifier, TypeOK, LeavesAlone,
     calls, markers, escrows, history
<1>2. ASSUME NEW h, UpdateHook(a, signer, h)
      PROVE  LeavesAlone(b)
  BY <1>2 DEF UpdateHook, TypeOK, LeavesAlone, calls, markers, escrows, configs, history
<1>3. CASE ConfirmVerifierUpdate(a, signer)
  BY <1>3 DEF SetPublicKey, ClearAccount, ConfirmVerifierUpdate, TypeOK, LeavesAlone,
     calls, markers, escrows, history
<1>4. CASE ConfirmHookUpdate(a, signer)
  BY <1>4 DEF ClearAccount, ConfirmHookUpdate, TypeOK, LeavesAlone,
     calls, markers, escrows, history
<1>5. CASE CancelVerifierUpdate(a, signer) \/ CancelHookUpdate(a, signer)
  BY <1>5 DEF CancelVerifierUpdate, CancelHookUpdate, TypeOK, LeavesAlone,
     calls, markers, escrows, configs, history
<1>6. ASSUME NEW c, CallVerifier(a, signer, c)
      PROVE  LeavesAlone(b)
  <2>1. account[a].verifier \in Verifier
    BY <1>6 DEF CallVerifier, OwnerConfigures, AssertBackupOwner, TypeOK, AccountState
  <2> QED
    BY <1>6, <2>1 DEF PerformCall, CallVerifier, TypeOK, LeavesAlone, updates,
       markers, escrows, history
<1>7. ASSUME NEW c, CallHook(a, signer, c)
      PROVE  LeavesAlone(b)
  <2>1. account[a].hook \in Hook
    BY <1>7 DEF CallHook, OwnerConfigures, AssertBackupOwner, TypeOK, AccountState
  <2> QED
    BY <1>7, <2>1 DEF PerformCall, CallHook, TypeOK, LeavesAlone, updates,
       markers, escrows, history
<1>8. ASSUME NEW uri, SetMetadataUri(a, signer, uri)
      PROVE  LeavesAlone(b)
  BY <1>8 DEF SetMetadataUri, TypeOK, LeavesAlone, updates, calls, escrows, configs, history
<1> QED
  BY <1>1, <1>2, <1>3, <1>4, <1>5, <1>6, <1>7, <1>8 DEF ModuleNext

LEMMA EscapeLeavesAlone ==
  ASSUME TypeOK, NEW a \in Account, NEW signer \in Owner, EscapeNext(a, signer),
         NEW b \in Account, b # a
  PROVE  LeavesAlone(b)
<1>1. CASE InitiateEscape(a, signer)
  BY <1>1 DEF InitiateEscape, TypeOK, LeavesAlone, updates, calls, escrows, configs, history
<1>2. ASSUME NEW v, NEW params, FinalizeEscape(a, signer, v, params)
      PROVE  LeavesAlone(b)
  BY <1>2 DEF SetPublicKey, ClearAccount, FinalizeEscape, WipeEntries, TypeOK,
     LeavesAlone, escrows, history
<1>3. CASE ExecuteUserOpEscape(a, signer)
  BY <1>3 DEF ExecuteUserOpEscape, TypeOK, LeavesAlone, updates, calls, markers, escrows,
     configs, history
<1> QED
  BY <1>1, <1>2, <1>3 DEF EscapeNext

LEMMA EscrowLeavesAlone ==
  ASSUME TypeOK, NEW a \in Account, NEW signer \in Owner, EscrowNext(a, signer),
         NEW b \in Account, b # a
  PROVE  LeavesAlone(b)
<1>1. ASSUME NEW m, NEW l, SettleMarketEscrow(a, m, l, signer)
      PROVE  LeavesAlone(b)
  BY <1>1 DEF ClearAccount, SettleMarketEscrow, WipeEntries, ClearMarketEscrow,
     TypeOK, LeavesAlone
<1>2. ASSUME NEW m, NEW l, EnterMarketEscrow(a, signer, m, l) \/ CancelMarketEscrow(a, m, l)
      PROVE  LeavesAlone(b)
  BY <1>2 DEF EnterMarketEscrow, CancelMarketEscrow, ClearMarketEscrow, TypeOK,
     LeavesAlone, updates, calls, markers, configs, history
<1>3. CASE InitiateMarketEscrowCancel(a, signer) \/ ForceCancelMarketEscrow(a, signer)
  BY <1>3 DEF InitiateMarketEscrowCancel, ForceCancelMarketEscrow, ClearMarketEscrow,
     TypeOK, LeavesAlone, updates, calls, markers, configs, history
<1> QED
  BY <1>1, <1>2, <1>3 DEF EscrowNext

(* Registering, or nothing at all. *)
LEMMA RestLeavesAlone ==
  ASSUME TypeOK, NEW b \in Account
  PROVE  /\ Tick \/ UNCHANGED walletVars => LeavesAlone(b)
         /\ \A S \in SUBSET Account, o \in Owner :
              RegisterAccounts(S, o) /\ b \notin S => LeavesAlone(b)
<1>1. ASSUME Tick \/ UNCHANGED walletVars
      PROVE  LeavesAlone(b)
  BY <1>1 DEF Tick, walletVars, LeavesAlone, updates, calls, markers, escrows, configs, history
<1>2. ASSUME NEW S \in SUBSET Account, NEW o \in Owner, RegisterAccounts(S, o), b \notin S
      PROVE  LeavesAlone(b)
  <2>1. PICK v \in Verifier \cup {Zero} : RegisterAccountCore(S, v, o)
    BY <1>2 DEF RegisterAccounts
  <2> QED
    BY <1>2, <2>1 DEF SetPublicKey, RegisterAccountCore, TypeOK, LeavesAlone, updates,
       calls, markers, escrows
<1> QED
  BY <1>1, <1>2

-----------------------------------------------------------------------------
(* What is stored for an account belongs to its modules and owners *)

(* The conditions on one account. *)
ModulesInPlace(a) ==
  /\ pendingVerifier[a] # None => account[a] # None /\ account[a].verifier # Zero
  /\ pendingHook[a] # None => account[a] # None /\ account[a].hook # Zero
  /\ \A v \in Verifier : verifierConfig[v][a] # None =>
       account[a] # None /\ account[a].verifier = v
  /\ \A h \in Hook : hookConfig[h][a] # None =>
       account[a] # None /\ account[a].hook = h

OfATenant(a) ==
  /\ pendingVerifier[a] # None => pendingVerifier[a].by \in tenure[a]
  /\ pendingHook[a] # None => pendingHook[a].by \in tenure[a]
  /\ pendingVerifierCall[a] # None => pendingVerifierCall[a].by \in tenure[a]
  /\ pendingHookCall[a] # None => pendingHookCall[a].by \in tenure[a]
  /\ metadata[a] # None => metadata[a] \in tenure[a]
  /\ \A v \in Verifier : verifierConfig[v][a] # None => verifierConfig[v][a] \in tenure[a]
  /\ \A h \in Hook : hookConfig[h][a] # None => hookConfig[h][a] \in tenure[a]
  /\ IF account[a] = None THEN tenure[a] = {} ELSE account[a].backupOwner \in tenure[a]

TimersInPlace(a) ==
  /\ account[a] # None /\ account[a].escapeTriggeredAt > 0 =>
       escapeLastInitiated[a] = account[a].escapeTriggeredAt
  /\ cancelInitiated[a] > 0 => escrow[a] # None

Tidy(a) == ModulesInPlace(a) /\ OfATenant(a) /\ TimersInPlace(a)

LEMMA LeftAloneStaysTidy ==
  ASSUME NEW a, LeavesAlone(a), Tidy(a)
  PROVE  Tidy(a)'
<1>1. ModulesInPlace(a)'
  BY DEF Tidy, LeavesAlone, ModulesInPlace
<1>2. OfATenant(a)'
  BY DEF Tidy, LeavesAlone, OfATenant
<1>3. TimersInPlace(a)'
  BY DEF Tidy, LeavesAlone, TimersInPlace
<1> QED
  BY <1>1, <1>2, <1>3 DEF Tidy

LEMMA RegistrationTidy ==
  ASSUME Ownership, NEW S \in SUBSET Account, NEW v \in Verifier \cup {Zero}, NEW o \in Owner,
         RegisterAccountCore(S, v, o), NEW a \in S, Tidy(a)
  PROVE  Tidy(a)'
<1> USE DEF Ownership
<1>1. /\ account[a] = None /\ account'[a] # None
      /\ account'[a].backupOwner = o /\ account'[a].escapeTriggeredAt = 0
      /\ account'[a].verifier = v
  BY RegistrationRecord
<1>2. /\ pendingVerifier'[a] = None /\ pendingHook'[a] = None
      /\ pendingVerifierCall'[a] = None /\ pendingHookCall'[a] = None
      /\ metadata'[a] = None /\ escrow' = escrow /\ cancelInitiated' = cancelInitiated
      /\ hookConfig' = hookConfig
      /\ tenure[a] = {} /\ tenure'[a] = {o}
  BY <1>1 DEF RegisterAccountCore, Tidy, OfATenant, updates, calls, markers, escrows
<1>3. /\ \A h \in Hook : hookConfig'[h][a] = None
      /\ \A w \in Verifier : verifierConfig'[w][a] # None => w = v /\ verifierConfig'[w][a] = o
  BY <1>1, <1>2 DEF RegisterAccountCore, Tidy, ModulesInPlace, SetPublicKey, TypeOK
<1> QED
  BY <1>1, <1>2, <1>3 DEF Tidy, ModulesInPlace, OfATenant, TimersInPlace

LEMMA RotationTidy ==
  ASSUME Ownership, NEW a \in Account, NEW o \in Owner,
         RotatePlatformAccountOwner(a, o), Tidy(a)
  PROVE  Tidy(a)'
<1> USE DEF Ownership
<1>1. /\ account[a] # None /\ account[a] \in AccountState /\ account'[a] # None
      /\ account'[a] = [account[a] EXCEPT !.backupOwner = o]
      /\ account'[a].escapeTriggeredAt = 0
  BY RotationRecord DEF TypeOK
<1>2. /\ account'[a].backupOwner = o
      /\ account'[a].verifier = account[a].verifier /\ account'[a].hook = account[a].hook
  BY <1>1 DEF AccountState
<1>3. /\ tenure'[a] = tenure[a] \cup {o}
      /\ UNCHANGED <<updates, calls, markers, escrows, configs>>
  BY DEF RotatePlatformAccountOwner, TypeOK
<1>4. ModulesInPlace(a)'
  BY <1>1, <1>2, <1>3 DEF Tidy, ModulesInPlace, updates, configs
<1>5. OfATenant(a)'
  BY <1>1, <1>2, <1>3 DEF Tidy, OfATenant, updates, calls, markers, configs
<1>6. TimersInPlace(a)'
  BY <1>1, <1>3 DEF Tidy, TimersInPlace, markers, escrows
<1> QED
  BY <1>4, <1>5, <1>6 DEF Tidy

(* Replacing a module changes that field of the record alone. *)
LEMMA SetModuleFields ==
  ASSUME TypeOK, NEW a \in Account, account[a] # None,
         NEW v \in Verifier \cup {Zero}, NEW h \in Hook \cup {Zero}
  PROVE  /\ account' = [account EXCEPT ![a].verifier = v] =>
              /\ account'[a] # None
              /\ account'[a].verifier = v
              /\ account'[a].hook = account[a].hook
              /\ account'[a].backupOwner = account[a].backupOwner
              /\ account'[a].escapeTriggeredAt = account[a].escapeTriggeredAt
         /\ account' = [account EXCEPT ![a].hook = h] =>
              /\ account'[a] # None
              /\ account'[a].hook = h
              /\ account'[a].verifier = account[a].verifier
              /\ account'[a].backupOwner = account[a].backupOwner
              /\ account'[a].escapeTriggeredAt = account[a].escapeTriggeredAt
<1>1. account[a] \in AccountState /\ a \in DOMAIN account
  BY DEF TypeOK
<1>2. ASSUME account' = [account EXCEPT ![a].verifier = v]
      PROVE  /\ account'[a] = [account[a] EXCEPT !.verifier = v]
             /\ account'[a] \in AccountState
  BY <1>1, <1>2, SetModuleType DEF TypeOK
<1>3. ASSUME account' = [account EXCEPT ![a].hook = h]
      PROVE  /\ account'[a] = [account[a] EXCEPT !.hook = h]
             /\ account'[a] \in AccountState
  BY <1>1, <1>3, SetModuleType DEF TypeOK
<1> QED
  BY <1>1, <1>2, <1>3, NoneAssumption DEF AccountState

LEMMA ModuleTidy ==
  ASSUME Ownership, NEW a \in Account, NEW signer \in Owner, ModuleNext(a, signer), Tidy(a)
  PROVE  Tidy(a)'
<1> USE DEF Ownership
<1>0. /\ account[a] # None /\ signer = account[a].backupOwner
      /\ signer \in tenure[a] /\ account[a] \in AccountState
      /\ now \in Time /\ signer # None
  BY ConstantsAssumption DEF ModuleNext, UpdateVerifier, UpdateHook, ConfirmVerifierUpdate,
     ConfirmHookUpdate, CancelVerifierUpdate, CancelHookUpdate, CallVerifier,
     CallHook, SetMetadataUri, OwnerConfigures, AssertBackupOwner, Tidy, OfATenant, TypeOK
<1>1. ASSUME NEW v \in Verifier \cup NonV3 \cup {Zero}, NEW params \in BOOLEAN,
             UpdateVerifier(a, signer, v, params)
      PROVE  Tidy(a)'
  <2>0. UNCHANGED <<pendingHook, calls, markers, escrows, hookConfig, history>>
    BY <1>1 DEF UpdateVerifier
  <2>1. CASE account[a].verifier = Zero
    <3>1. /\ v \in Verifier \cup {Zero}
          /\ account' = [account EXCEPT ![a].verifier = v]
          /\ verifierConfig' = SetPublicKey(verifierConfig, v, {x \in {a} : params}, signer)
          /\ pendingVerifier' = pendingVerifier
      BY <1>1, <2>1 DEF UpdateVerifier, AssertV3Verifier
    <3>2. /\ account'[a] # None /\ account'[a].verifier = v
          /\ account'[a].hook = account[a].hook
          /\ account'[a].backupOwner = account[a].backupOwner
          /\ account'[a].escapeTriggeredAt = account[a].escapeTriggeredAt
      BY <1>0, <3>1, SetModuleFields
    <3>3. \A w \in Verifier : verifierConfig'[w][a] # None =>
                                w = v /\ verifierConfig'[w][a] = signer
      BY <2>1, <3>1, ConstantsAssumption DEF SetPublicKey, Tidy, ModulesInPlace, TypeOK
    <3>4. ModulesInPlace(a)'
      BY <2>0, <2>1, <3>1, <3>2, <3>3 DEF Tidy, ModulesInPlace
    <3>5. OfATenant(a)'
      BY <1>0, <2>0, <3>1, <3>2, <3>3 DEF Tidy, OfATenant, calls, markers, history
    <3>6. TimersInPlace(a)'
      BY <1>0, <2>0, <3>2 DEF Tidy, TimersInPlace, markers, escrows
    <3> QED
      BY <3>4, <3>5, <3>6 DEF Tidy
  <2>2. CASE account[a].verifier # Zero
    <3>1. /\ UNCHANGED <<account, verifierConfig>>
          /\ pendingVerifier' = [pendingVerifier EXCEPT ![a] =
                [module |-> v, params |-> params, initiatedAt |-> now, by |-> signer]]
      BY <1>1, <2>2 DEF UpdateVerifier
    <3>2. pendingVerifier'[a].by = signer
      BY <3>1 DEF TypeOK
    <3>3. ModulesInPlace(a)'
      BY <1>0, <2>0, <2>2, <3>1 DEF Tidy, ModulesInPlace
    <3>4. OfATenant(a)'
      BY <1>0, <2>0, <3>1, <3>2 DEF Tidy, OfATenant, calls, markers, history
    <3>5. TimersInPlace(a)'
      BY <2>0, <3>1 DEF Tidy, TimersInPlace, markers, escrows
    <3> QED
      BY <3>3, <3>4, <3>5 DEF Tidy
  <2> QED
    BY <2>1, <2>2
<1>2. ASSUME NEW h \in Hook \cup {Zero}, UpdateHook(a, signer, h)
      PROVE  Tidy(a)'
  <2>0. UNCHANGED <<pendingVerifier, calls, markers, escrows, configs, history>>
    BY <1>2 DEF UpdateHook
  <2>1. CASE account[a].hook = Zero
    <3>1. account' = [account EXCEPT ![a].hook = h] /\ pendingHook' = pendingHook
      BY <1>2, <2>1 DEF UpdateHook
    <3>2. /\ account'[a] # None /\ account'[a].hook = h
          /\ account'[a].verifier = account[a].verifier
          /\ account'[a].backupOwner = account[a].backupOwner
          /\ account'[a].escapeTriggeredAt = account[a].escapeTriggeredAt
      BY <1>0, <3>1, SetModuleFields, ZenonT(60)
    <3>3. \A g \in Hook : hookConfig[g][a] = None
      BY <2>1, ConstantsAssumption DEF Tidy, ModulesInPlace
    <3>4. ModulesInPlace(a)'
      BY <2>0, <2>1, <3>1, <3>2, <3>3 DEF Tidy, ModulesInPlace, configs
    <3>5. OfATenant(a)'
      BY <1>0, <2>0, <3>1, <3>2 DEF Tidy, OfATenant, calls, markers, configs, history
    <3>6. TimersInPlace(a)'
      BY <1>0, <2>0, <3>2 DEF Tidy, TimersInPlace, markers, escrows
    <3> QED
      BY <3>4, <3>5, <3>6 DEF Tidy
  <2>2. CASE account[a].hook # Zero
    <3>1. /\ account' = account
          /\ pendingHook' = [pendingHook EXCEPT ![a] =
                [module |-> h, params |-> FALSE, initiatedAt |-> now, by |-> signer]]
      BY <1>2, <2>2 DEF UpdateHook
    <3>2. pendingHook'[a].by = signer
      BY <3>1 DEF TypeOK
    <3>3. ModulesInPlace(a)'
      BY <1>0, <2>0, <2>2, <3>1 DEF Tidy, ModulesInPlace, configs
    <3>4. OfATenant(a)'
      BY <1>0, <2>0, <3>1, <3>2 DEF Tidy, OfATenant, calls, markers, configs, history
    <3>5. TimersInPlace(a)'
      BY <2>0, <3>1 DEF Tidy, TimersInPlace, markers, escrows
    <3> QED
      BY <3>3, <3>4, <3>5 DEF Tidy
  <2> QED
    BY <2>1, <2>2
<1>3. CASE ConfirmVerifierUpdate(a, signer)
  <2> DEFINE v == pendingVerifier[a].module
             cleared == ClearAccount(verifierConfig, account[a].verifier, a)
             S == {x \in {a} : pendingVerifier[a].params}
  <2>1. /\ v \in Verifier \cup {Zero}
        /\ account' = [account EXCEPT ![a].verifier = v]
        /\ verifierConfig' = SetPublicKey(cleared, v, S, signer)
        /\ pendingVerifier'[a] = None
        /\ UNCHANGED <<pendingHook, calls, markers, escrows, hookConfig, history>>
    BY <1>3 DEF ConfirmVerifierUpdate, AssertV3Verifier, TypeOK
  <2>2. /\ account'[a] # None /\ account'[a].verifier = v
        /\ account'[a].hook = account[a].hook
        /\ account'[a].backupOwner = account[a].backupOwner
        /\ account'[a].escapeTriggeredAt = account[a].escapeTriggeredAt
    BY <1>0, <2>1, SetModuleFields
  <2>3. \A w \in Verifier : cleared[w][a] = None
    BY DEF ClearAccount, Tidy, ModulesInPlace, TypeOK
  <2>4. DOMAIN cleared = Verifier
    BY DEF ClearAccount, TypeOK
  <2>5. \A w \in Verifier : verifierConfig'[w][a] # None =>
                              w = v /\ verifierConfig'[w][a] = signer
    BY <2>1, <2>3, <2>4 DEF SetPublicKey
  <2>6. ModulesInPlace(a)'
    BY <2>1, <2>2, <2>5 DEF Tidy, ModulesInPlace
  <2>7. OfATenant(a)'
    BY <1>0, <2>1, <2>2, <2>5 DEF Tidy, OfATenant, calls, markers, history
  <2>8. TimersInPlace(a)'
    BY <1>0, <2>1, <2>2 DEF Tidy, TimersInPlace, markers, escrows
  <2> QED
    BY <2>6, <2>7, <2>8 DEF Tidy
<1>4. CASE ConfirmHookUpdate(a, signer)
  <2> DEFINE h == pendingHook[a].module
  <2>1. /\ h \in Hook \cup {Zero}
        /\ account' = [account EXCEPT ![a].hook = h]
        /\ hookConfig' = ClearAccount(hookConfig, account[a].hook, a)
        /\ pendingHook'[a] = None
        /\ UNCHANGED <<pendingVerifier, calls, markers, escrows, verifierConfig, history>>
    BY <1>4 DEF ConfirmHookUpdate, AssertV3Hook, TypeOK
  <2>2. /\ account'[a] # None /\ account'[a].hook = h
        /\ account'[a].verifier = account[a].verifier
        /\ account'[a].backupOwner = account[a].backupOwner
        /\ account'[a].escapeTriggeredAt = account[a].escapeTriggeredAt
    BY <1>0, <2>1, SetModuleFields
  <2>3. \A g \in Hook : hookConfig'[g][a] = None
    BY <2>1 DEF ClearAccount, Tidy, ModulesInPlace, TypeOK
  <2>4. ModulesInPlace(a)'
    BY <2>1, <2>2, <2>3 DEF Tidy, ModulesInPlace
  <2>5. OfATenant(a)'
    BY <1>0, <2>1, <2>2, <2>3 DEF Tidy, OfATenant, calls, markers, history
  <2>6. TimersInPlace(a)'
    BY <1>0, <2>1, <2>2 DEF Tidy, TimersInPlace, markers, escrows
  <2> QED
    BY <2>4, <2>5, <2>6 DEF Tidy
<1>5. CASE CancelVerifierUpdate(a, signer)
  <2>1. /\ pendingVerifier'[a] = None
        /\ UNCHANGED <<account, pendingHook, calls, markers, escrows, configs, history>>
    BY <1>5 DEF CancelVerifierUpdate, TypeOK
  <2> QED
    BY <2>1 DEF Tidy, ModulesInPlace, OfATenant, TimersInPlace, calls, markers, escrows,
       configs, history
<1>6. CASE CancelHookUpdate(a, signer)
  <2>1. /\ pendingHook'[a] = None
        /\ UNCHANGED <<account, pendingVerifier, calls, markers, escrows, configs, history>>
    BY <1>6 DEF CancelHookUpdate, TypeOK
  <2> QED
    BY <2>1 DEF Tidy, ModulesInPlace, OfATenant, TimersInPlace, calls, markers, escrows,
       configs, history
<1>7. ASSUME NEW c \in Call, CallVerifier(a, signer, c)
      PROVE  Tidy(a)'
  <2>1. UNCHANGED <<account, updates, pendingHookCall, markers, escrows, hookConfig, history>>
    BY <1>7 DEF CallVerifier
  <2>2. account[a].verifier \in Verifier
    BY <1>0, <1>7 DEF CallVerifier, AccountState
  <2>3. pendingVerifierCall'[a] # None => pendingVerifierCall'[a].by = signer
    BY <1>7 DEF CallVerifier, PendingModuleCall, TypeOK
  <2>4. \A w \in Verifier :
          \/ verifierConfig'[w][a] = verifierConfig[w][a]
          \/ w = account[a].verifier /\ verifierConfig'[w][a] \in {signer, None}
    BY <1>7, <2>2 DEF CallVerifier, PerformCall, TypeOK
  <2>5. ModulesInPlace(a)'
    BY <1>0, <2>1, <2>4 DEF Tidy, ModulesInPlace, updates
  <2>6. OfATenant(a)'
    BY <1>0, <2>1, <2>3, <2>4 DEF Tidy, OfATenant, updates, markers, history
  <2>7. TimersInPlace(a)'
    BY <2>1 DEF Tidy, TimersInPlace, markers, escrows
  <2> QED
    BY <2>5, <2>6, <2>7 DEF Tidy
<1>8. ASSUME NEW c \in Call, CallHook(a, signer, c)
      PROVE  Tidy(a)'
  <2>1. UNCHANGED <<account, updates, pendingVerifierCall, markers, escrows, verifierConfig,
                    history>>
    BY <1>8 DEF CallHook
  <2>2. account[a].hook \in Hook
    BY <1>0, <1>8 DEF CallHook, AccountState
  <2>3. pendingHookCall'[a] # None => pendingHookCall'[a].by = signer
    BY <1>8 DEF CallHook, PendingModuleCall, TypeOK
  <2>4. \A g \in Hook :
          \/ hookConfig'[g][a] = hookConfig[g][a]
          \/ g = account[a].hook /\ hookConfig'[g][a] \in {signer, None}
    BY <1>8, <2>2 DEF CallHook, PerformCall, TypeOK
  <2>5. ModulesInPlace(a)'
    BY <1>0, <2>1, <2>4 DEF Tidy, ModulesInPlace, updates
  <2>6. OfATenant(a)'
    BY <1>0, <2>1, <2>3, <2>4 DEF Tidy, OfATenant, updates, markers, history
  <2>7. TimersInPlace(a)'
    BY <2>1 DEF Tidy, TimersInPlace, markers, escrows
  <2> QED
    BY <2>5, <2>6, <2>7 DEF Tidy
<1>9. ASSUME NEW uri \in BOOLEAN, SetMetadataUri(a, signer, uri)
      PROVE  Tidy(a)'
  <2>1. /\ metadata'[a] \in {signer, None}
        /\ UNCHANGED <<account, updates, calls, escapeLastInitiated, escrows, configs, history>>
    BY <1>9 DEF SetMetadataUri, TypeOK
  <2> QED
    BY <1>0, <2>1 DEF Tidy, ModulesInPlace, OfATenant, TimersInPlace, updates, calls,
       escrows, configs, history
<1> QED
  BY <1>1, <1>2, <1>3, <1>4, <1>5, <1>6, <1>7, <1>8, <1>9 DEF ModuleNext

(* What a plugin holds after both its slots were cleared. *)
LEMMA WipedTidy ==
  ASSUME Ownership, NEW a \in Account, Tidy(a), WipeEntries(a),
         account'[a] # None, account'[a].escapeTriggeredAt = 0,
         cancelInitiated'[a] > 0 => escrow'[a] # None,
         \A v \in Verifier : verifierConfig'[v][a] # None =>
            account'[a].verifier = v /\ verifierConfig'[v][a] \in tenure'[a],
         \A h \in Hook : hookConfig'[h][a] = None,
         account'[a].backupOwner \in tenure'[a]
  PROVE  Tidy(a)'
<1>1. /\ pendingVerifier'[a] = None /\ pendingHook'[a] = None
      /\ pendingVerifierCall'[a] = None /\ pendingHookCall'[a] = None
      /\ metadata'[a] = None
  BY DEF Ownership, TypeOK, WipeEntries
<1> QED
  BY <1>1 DEF Tidy, ModulesInPlace, OfATenant, TimersInPlace

LEMMA EscapeTidy ==
  ASSUME Ownership, NEW a \in Account, NEW signer \in Owner, EscapeNext(a, signer), Tidy(a)
  PROVE  Tidy(a)'
<1> USE DEF Ownership
<1>0. /\ account[a] # None /\ signer = account[a].backupOwner
      /\ signer \in tenure[a] /\ account[a] \in AccountState
  BY DEF EscapeNext, InitiateEscape, FinalizeEscape, ExecuteUserOpEscape,
     OwnerConfigures, AssertBackupOwner, Tidy, OfATenant, TypeOK
<1>1. CASE InitiateEscape(a, signer)
  <2>1. /\ account'[a] = [account[a] EXCEPT !.escapeTriggeredAt = now, !.escapeBy = signer]
        /\ escapeLastInitiated'[a] = now
        /\ UNCHANGED <<updates, calls, metadata, escrows, configs, history>>
    BY <1>1 DEF InitiateEscape, TypeOK
  <2>2. account'[a] \in AccountState
    BY <1>0, <2>1 DEF AccountState, TypeOK
  <2>3. /\ account'[a] # None /\ account'[a].escapeTriggeredAt = now
        /\ account'[a].verifier = account[a].verifier
        /\ account'[a].hook = account[a].hook
        /\ account'[a].backupOwner = account[a].backupOwner
    BY <1>0, <2>1, <2>2, NoneAssumption DEF AccountState
  <2>4. ModulesInPlace(a)'
    BY <2>1, <2>3 DEF Tidy, ModulesInPlace, updates, configs
  <2>5. OfATenant(a)'
    BY <1>0, <2>1, <2>3 DEF Tidy, OfATenant, updates, calls, configs, history
  <2>6. TimersInPlace(a)'
    BY <2>1, <2>3 DEF Tidy, TimersInPlace, escrows
  <2> QED
    BY <2>4, <2>5, <2>6 DEF Tidy
<1>2. ASSUME NEW v \in Verifier \cup {Zero}, NEW params \in BOOLEAN,
             FinalizeEscape(a, signer, v, params)
      PROVE  Tidy(a)'
  <2> DEFINE cleared == ClearAccount(verifierConfig, account[a].verifier, a)
             S == {x \in {a} : params}
  <2>1. /\ account'[a] = [account[a] EXCEPT !.verifier = v, !.hook = Zero,
                            !.escapeTriggeredAt = 0, !.escapeBy = None]
        /\ verifierConfig' = SetPublicKey(cleared, v, S, signer)
        /\ hookConfig' = ClearAccount(hookConfig, account[a].hook, a)
        /\ WipeEntries(a)
        /\ UNCHANGED <<escrows, history>>
    BY <1>2 DEF FinalizeEscape, TypeOK
  <2>2. account'[a] \in AccountState
    BY <1>0, <2>1, ZeroIsTime DEF AccountState
  <2>3. /\ account'[a] # None /\ account'[a].escapeTriggeredAt = 0
        /\ account'[a].verifier = v
        /\ account'[a].backupOwner = account[a].backupOwner
    BY <1>0, <2>1, <2>2, NoneAssumption DEF AccountState
  <2>4. (\A w \in Verifier : cleared[w][a] = None) /\ DOMAIN cleared = Verifier
    BY DEF ClearAccount, Tidy, ModulesInPlace, TypeOK
  <2>5. \A w \in Verifier : verifierConfig'[w][a] # None =>
                              w = v /\ verifierConfig'[w][a] = signer
    BY <2>1, <2>4 DEF SetPublicKey
  <2>6. \A h \in Hook : hookConfig'[h][a] = None
    BY <2>1 DEF ClearAccount, Tidy, ModulesInPlace, TypeOK
  <2>7. /\ escrow' = escrow /\ cancelInitiated' = cancelInitiated /\ tenure' = tenure
        /\ cancelInitiated[a] > 0 => escrow[a] # None
    BY <2>1 DEF escrows, history, Tidy, TimersInPlace
  <2> QED
    BY <1>0, <2>1, <2>3, <2>5, <2>6, <2>7, WipedTidy
<1>3. CASE ExecuteUserOpEscape(a, signer)
  <2>1. /\ account'[a] = [account[a] EXCEPT !.escapeTriggeredAt = 0, !.escapeBy = None]
        /\ UNCHANGED <<updates, calls, markers, escrows, configs, history>>
    BY <1>3 DEF ExecuteUserOpEscape, TypeOK
  <2>2. account'[a] \in AccountState
    BY <1>0, <2>1, ZeroIsTime DEF AccountState
  <2>3. /\ account'[a] # None /\ account'[a].escapeTriggeredAt = 0
        /\ account'[a].verifier = account[a].verifier
        /\ account'[a].hook = account[a].hook
        /\ account'[a].backupOwner = account[a].backupOwner
    BY <1>0, <2>1, <2>2, NoneAssumption DEF AccountState
  <2>4. ModulesInPlace(a)'
    BY <2>1, <2>3 DEF Tidy, ModulesInPlace, updates, configs
  <2>5. OfATenant(a)'
    BY <1>0, <2>1, <2>3 DEF Tidy, OfATenant, updates, calls, markers, configs, history
  <2>6. TimersInPlace(a)'
    BY <2>1, <2>3 DEF Tidy, TimersInPlace, escrows
  <2> QED
    BY <2>4, <2>5, <2>6 DEF Tidy
<1> QED
  BY <1>1, <1>2, <1>3 DEF EscapeNext

LEMMA EscrowTidy ==
  ASSUME Ownership, NEW a \in Account, NEW signer \in Owner, EscrowNext(a, signer), Tidy(a)
  PROVE  Tidy(a)'
<1> USE DEF Ownership
<1>1. ASSUME UNCHANGED <<account, updates, calls, markers, configs, history>>,
             cancelInitiated'[a] > 0 => escrow'[a] # None
      PROVE  Tidy(a)'
  BY <1>1 DEF Tidy, ModulesInPlace, OfATenant, TimersInPlace, updates, calls, markers,
     configs, history
<1>2. ASSUME NEW m \in Market, NEW l \in Listing, EnterMarketEscrow(a, signer, m, l)
      PROVE  Tidy(a)'
  <2>1. [market |-> m, listing |-> l, by |-> signer] # None
    BY NoneAssumption DEF Escrow
  <2>2. escrow'[a] # None
    BY <1>2, <2>1 DEF EnterMarketEscrow, TypeOK
  <2> QED
    BY <1>1, <1>2, <2>2 DEF EnterMarketEscrow
<1>3. ASSUME NEW m \in Market, NEW l \in Listing, CancelMarketEscrow(a, m, l)
      PROVE  Tidy(a)'
  BY <1>1, <1>3 DEF CancelMarketEscrow, ClearMarketEscrow, TypeOK
<1>4. ASSUME NEW m \in Market, NEW l \in Listing, SettleMarketEscrow(a, m, l, signer)
      PROVE  Tidy(a)'
  <2>0. account[a] # None
    BY <1>4 DEF SettleMarketEscrow, AssertEscrowMarket, EscrowByCurrentOwner
  <2>1. /\ account'[a] # None /\ account'[a].backupOwner = signer
        /\ account'[a].escapeTriggeredAt = 0
    BY <1>4, <2>0, SettlementRecord
  <2>2. /\ \A v \in Verifier : verifierConfig'[v][a] = None
        /\ \A h \in Hook : hookConfig'[h][a] = None
    BY <1>4 DEF SettleMarketEscrow, ClearAccount, Tidy, ModulesInPlace, TypeOK
  <2>3. tenure'[a] = {signer} /\ cancelInitiated'[a] = 0 /\ WipeEntries(a)
    BY <1>4 DEF SettleMarketEscrow, ClearMarketEscrow, TypeOK
  <2> QED
    BY <2>1, <2>2, <2>3, WipedTidy
<1>5. CASE InitiateMarketEscrowCancel(a, signer)
  BY <1>1, <1>5 DEF InitiateMarketEscrowCancel
<1>6. CASE ForceCancelMarketEscrow(a, signer)
  BY <1>1, <1>6 DEF ForceCancelMarketEscrow, ClearMarketEscrow, TypeOK
<1> QED
  BY <1>2, <1>3, <1>4, <1>5, <1>6 DEF EscrowNext

(* The inductive invariant of the whole book. *)
Keeping == Ownership /\ \A a \in Account : Tidy(a)

LEMMA TidyStep ==
  ASSUME Keeping, [Next]_walletVars, NEW b \in Account
  PROVE  Tidy(b)'
<1>0. TypeOK /\ Ownership /\ Tidy(b)
  BY DEF Keeping, Ownership
<1>1. CASE Tick \/ UNCHANGED walletVars
  BY <1>0, <1>1, RestLeavesAlone, LeftAloneStaysTidy
<1>2. ASSUME NEW S \in SUBSET Account, NEW o \in Owner, RegisterAccounts(S, o)
      PROVE  Tidy(b)'
  <2>1. CASE b \in S
    <3>1. PICK v \in Verifier \cup {Zero} : RegisterAccountCore(S, v, o)
      BY <1>2 DEF RegisterAccounts
    <3> QED
      BY <1>0, <2>1, <3>1, RegistrationTidy
  <2>2. CASE b \notin S
    BY <1>0, <1>2, <2>2, RestLeavesAlone, LeftAloneStaysTidy
  <2> QED
    BY <2>1, <2>2
<1>3. ASSUME NEW a \in Account, RegistrarNext(a)
      PROVE  Tidy(b)'
  <2>1. CASE b = a
    <3>1. PICK o \in Owner : \/ RegisterAccountCore({a}, Zero, o)
                             \/ RotatePlatformAccountOwner(a, o)
      BY <1>3, RegistrarCases
    <3>2. {a} \in SUBSET Account /\ Zero \in Verifier \cup {Zero} /\ b \in {a}
      BY <2>1
    <3> QED
      BY <1>0, <2>1, <3>1, <3>2, RegistrationTidy, RotationTidy
  <2> QED
    BY <1>0, <1>3, <2>1, RegistrarLeavesAlone, LeftAloneStaysTidy
<1>4. ASSUME NEW a \in Account, NEW o \in Owner, ModuleNext(a, o)
      PROVE  Tidy(b)'
  BY <1>0, <1>4, ModuleTidy, ModuleLeavesAlone, LeftAloneStaysTidy
<1>5. ASSUME NEW a \in Account, NEW o \in Owner, EscapeNext(a, o)
      PROVE  Tidy(b)'
  BY <1>0, <1>5, EscapeTidy, EscapeLeavesAlone, LeftAloneStaysTidy
<1>6. ASSUME NEW a \in Account, NEW o \in Owner, EscrowNext(a, o)
      PROVE  Tidy(b)'
  BY <1>0, <1>6, EscrowTidy, EscrowLeavesAlone, LeftAloneStaysTidy
<1> QED
  BY <1>1, <1>2, <1>3, <1>4, <1>5, <1>6 DEF Next

LEMMA KeepingInductive ==
  /\ Init => Keeping
  /\ Keeping /\ [Next]_walletVars => Keeping'
<1>1. Init => Keeping
  BY OwnershipInductive
     DEF Init, Keeping, Tidy, ModulesInPlace, OfATenant, TimersInPlace
<1>2. Keeping /\ [Next]_walletVars => Keeping'
  BY OwnershipInductive, TidyStep DEF Keeping
<1> QED
  BY <1>1, <1>2

LEMMA KeepingInvariant == Spec => []Keeping
BY KeepingInductive, PTL DEF Spec

LEMMA KeepingImplies ==
  ASSUME Keeping
  PROVE  NoModuleStateAstray /\ NothingOutlivesTheSale /\ TimersBelongToWhatTheyTime
<1>1. NoModuleStateAstray
  BY DEF Keeping, Tidy, ModulesInPlace, NoModuleStateAstray, PendingReplacesAModule,
     ConfiguredOnlyWhereInstalled
<1>2. NothingOutlivesTheSale
  BY DEF Keeping, Tidy, OfATenant, NothingOutlivesTheSale
<1>3. TimersBelongToWhatTheyTime
  BY DEF Keeping, Tidy, TimersInPlace, TimersBelongToWhatTheyTime
<1> QED
  BY <1>1, <1>2, <1>3

(* Whatever the order of replacements, escapes and sales, no proposal and   *)
(* no plugin configuration is left where a later installation would find it.*)
THEOREM NothingAstray == Spec => []NoModuleStateAstray
BY KeepingInvariant, KeepingImplies, PTL

(* A sold account holds nothing its seller staged, configured or wrote.     *)
THEOREM CleanSale == Spec => []NothingOutlivesTheSale
BY KeepingInvariant, KeepingImplies, PTL

(* The cooldown stamp and the owner's cancellation timer never outlive the  *)
(* escape and the escrow they time.                                         *)
THEOREM TimersInOrder == Spec => []TimersBelongToWhatTheyTime
BY KeepingInvariant, KeepingImplies, PTL

-----------------------------------------------------------------------------
(* What no step does *)

(* The second action property, for one account. *)
Frozen(a) ==
  escrow[a] # None /\ escrow'[a] # None =>
    /\ account'[a] = account[a]
    /\ escrow'[a] = escrow[a]
    /\ \A v \in Verifier : verifierConfig'[v][a] = verifierConfig[v][a]
    /\ \A h \in Hook : hookConfig'[h][a] = hookConfig[h][a]

LEMMA LeftAloneIsAnnounced ==
  ASSUME TypeOK, NEW a \in Account, LeavesAlone(a)
  PROVE  (account[a] # None => Announced(a)) /\ Frozen(a)
<1>1. account[a] # None => /\ account[a].verifier \in Verifier \cup {Zero}
                           /\ account[a].hook \in Hook \cup {Zero}
  BY DEF TypeOK, AccountState
<1> QED
  BY <1>1 DEF LeavesAlone, Announced, Frozen

LEMMA ModuleAnnounced ==
  ASSUME Ownership, NEW a \in Account, NEW signer \in Owner, ModuleNext(a, signer)
  PROVE  (account[a] # None => Announced(a)) /\ Frozen(a)
<1> USE DEF Ownership
<1>0. /\ account[a] # None /\ account[a] \in AccountState
      /\ account[a].verifier \in Verifier \cup {Zero}
      /\ account[a].hook \in Hook \cup {Zero}
  BY DEF ModuleNext, UpdateVerifier, UpdateHook, ConfirmVerifierUpdate,
     ConfirmHookUpdate, CancelVerifierUpdate, CancelHookUpdate, CallVerifier,
     CallHook, SetMetadataUri, OwnerConfigures, AssertBackupOwner, TypeOK, AccountState
<1>1. ASSUME NEW v \in Verifier \cup NonV3 \cup {Zero}, NEW params \in BOOLEAN,
             UpdateVerifier(a, signer, v, params)
      PROVE  (account[a] # None => Announced(a)) /\ escrow[a] = None
  <2>1. UNCHANGED hookConfig /\ escrow[a] = None
    BY <1>1 DEF UpdateVerifier, OwnerConfigures, AssertNoMarketEscrow
  <2>2. CASE account[a].verifier = Zero
    <3>1. v \in Verifier \cup {Zero} /\ account' = [account EXCEPT ![a].verifier = v]
      BY <1>1, <2>2 DEF UpdateVerifier, AssertV3Verifier
    <3>2. account'[a].hook = account[a].hook
      BY <1>0, <3>1, SetModuleFields
    <3> QED
      BY <2>1, <2>2, <3>2 DEF Announced
  <2>3. CASE account[a].verifier # Zero
    <3>1. UNCHANGED <<account, verifierConfig>>
      BY <1>1, <2>3 DEF UpdateVerifier
    <3> QED
      BY <2>1, <3>1 DEF Announced
  <2> QED
    BY <2>2, <2>3
<1>2. ASSUME NEW h \in Hook \cup {Zero}, UpdateHook(a, signer, h)
      PROVE  (account[a] # None => Announced(a)) /\ escrow[a] = None
  <2>1. UNCHANGED configs /\ escrow[a] = None
    BY <1>2 DEF UpdateHook, OwnerConfigures, AssertNoMarketEscrow
  <2>2. CASE account[a].hook = Zero
    <3>1. account' = [account EXCEPT ![a].hook = h]
      BY <1>2, <2>2 DEF UpdateHook
    <3>2. account'[a].verifier = account[a].verifier
      BY <1>0, <3>1, SetModuleFields
    <3> QED
      BY <2>1, <2>2, <3>2 DEF Announced, configs
  <2>3. CASE account[a].hook # Zero
    <3>1. UNCHANGED account
      BY <1>2, <2>3 DEF UpdateHook
    <3> QED
      BY <2>1, <3>1 DEF Announced, configs
  <2> QED
    BY <2>2, <2>3
<1>3. CASE ConfirmVerifierUpdate(a, signer)
  <2>1. /\ UNCHANGED hookConfig /\ escrow[a] = None /\ Matured(pendingVerifier[a])
        /\ pendingVerifier[a].module \in Verifier \cup {Zero}
        /\ account' = [account EXCEPT ![a].verifier = pendingVerifier[a].module]
    BY <1>3 DEF ConfirmVerifierUpdate, OwnerConfigures, AssertNoMarketEscrow, Matured,
       TimelockElapsed, AssertV3Verifier
  <2>2. account'[a].hook = account[a].hook
    BY <1>0, <2>1, SetModuleFields
  <2> QED
    BY <2>1, <2>2 DEF Announced, Frozen
<1>4. CASE ConfirmHookUpdate(a, signer)
  <2>1. /\ UNCHANGED verifierConfig /\ escrow[a] = None /\ Matured(pendingHook[a])
        /\ pendingHook[a].module \in Hook \cup {Zero}
        /\ account' = [account EXCEPT ![a].hook = pendingHook[a].module]
    BY <1>4 DEF ConfirmHookUpdate, OwnerConfigures, AssertNoMarketEscrow, Matured,
       TimelockElapsed, AssertV3Hook
  <2>2. account'[a].verifier = account[a].verifier
    BY <1>0, <2>1, SetModuleFields
  <2> QED
    BY <2>1, <2>2 DEF Announced, Frozen
<1>5. ASSUME UNCHANGED <<account, escrow, configs>>
      PROVE  (account[a] # None => Announced(a)) /\ Frozen(a)
  BY <1>5 DEF Announced, Frozen, configs
<1>6. ASSUME NEW c \in Call, CallVerifier(a, signer, c)
      PROVE  (account[a] # None => Announced(a)) /\ escrow[a] = None
  <2>1. UNCHANGED <<account, hookConfig>> /\ escrow[a] = None
    BY <1>6 DEF CallVerifier, OwnerConfigures, AssertNoMarketEscrow
  <2>2. UNCHANGED verifierConfig \/ Matured(pendingVerifierCall[a])
    BY <1>6 DEF CallVerifier, Matured, Staged, TimelockElapsed
  <2> QED
    BY <2>1, <2>2 DEF Announced
<1>7. ASSUME NEW c \in Call, CallHook(a, signer, c)
      PROVE  (account[a] # None => Announced(a)) /\ escrow[a] = None
  <2>1. UNCHANGED <<account, verifierConfig>> /\ escrow[a] = None
    BY <1>7 DEF CallHook, OwnerConfigures, AssertNoMarketEscrow
  <2>2. UNCHANGED hookConfig \/ Matured(pendingHookCall[a])
    BY <1>7 DEF CallHook, Matured, Staged, TimelockElapsed
  <2> QED
    BY <2>1, <2>2 DEF Announced
<1>8. escrow[a] = None => Frozen(a)
  BY DEF Frozen
<1>9. \/ \E v \in Verifier \cup NonV3 \cup {Zero}, params \in BOOLEAN :
           UpdateVerifier(a, signer, v, params)
      \/ \E h \in Hook \cup {Zero} : UpdateHook(a, signer, h)
      \/ ConfirmVerifierUpdate(a, signer)
      \/ ConfirmHookUpdate(a, signer)
      \/ UNCHANGED <<account, escrow, configs>>
      \/ \E c \in Call : CallVerifier(a, signer, c) \/ CallHook(a, signer, c)
  BY DEF ModuleNext, CancelVerifierUpdate, CancelHookUpdate, SetMetadataUri, escrows
<1> QED
  BY <1>1, <1>2, <1>3, <1>4, <1>5, <1>6, <1>7, <1>8, <1>9

LEMMA EscapeAnnounced ==
  ASSUME Ownership, NEW a \in Account, NEW signer \in Owner, EscapeNext(a, signer)
  PROVE  (account[a] # None => Announced(a)) /\ Frozen(a)
<1> USE DEF Ownership
<1>0. /\ escrow[a] = None /\ account[a] \in AccountState
  BY DEF EscapeNext, InitiateEscape, FinalizeEscape, ExecuteUserOpEscape,
     OwnerConfigures, AssertBackupOwner, AssertNoMarketEscrow, TypeOK
<1>1. CASE InitiateEscape(a, signer)
  <2>1. /\ account'[a] = [account[a] EXCEPT !.escapeTriggeredAt = now, !.escapeBy = signer]
        /\ UNCHANGED configs
    BY <1>1 DEF InitiateEscape, TypeOK
  <2>2. account'[a] \in AccountState
    BY <1>0, <2>1 DEF AccountState, TypeOK
  <2>3. account'[a].verifier = account[a].verifier /\ account'[a].hook = account[a].hook
    BY <1>0, <2>1, <2>2 DEF AccountState
  <2> QED
    BY <1>0, <2>1, <2>3 DEF Announced, Frozen, configs
<1>2. ASSUME NEW v \in Verifier \cup {Zero}, NEW params \in BOOLEAN,
             FinalizeEscape(a, signer, v, params)
      PROVE  (account[a] # None => Announced(a)) /\ Frozen(a)
  BY <1>0, <1>2 DEF FinalizeEscape, EscapeMatured, Announced, Frozen
<1>3. CASE ExecuteUserOpEscape(a, signer)
  <2>1. /\ account'[a] = [account[a] EXCEPT !.escapeTriggeredAt = 0, !.escapeBy = None]
        /\ UNCHANGED configs
    BY <1>3 DEF ExecuteUserOpEscape, TypeOK
  <2>2. account'[a] \in AccountState
    BY <1>0, <2>1, ZeroIsTime DEF AccountState
  <2>3. account'[a].verifier = account[a].verifier /\ account'[a].hook = account[a].hook
    BY <1>0, <2>1, <2>2 DEF AccountState
  <2> QED
    BY <1>0, <2>1, <2>3 DEF Announced, Frozen, configs
<1> QED
  BY <1>1, <1>2, <1>3 DEF EscapeNext

LEMMA EscrowAnnounced ==
  ASSUME Ownership, NEW a \in Account, NEW signer \in Owner, EscrowNext(a, signer)
  PROVE  (account[a] # None => Announced(a)) /\ Frozen(a)
<1> USE DEF Ownership
<1>1. ASSUME UNCHANGED <<account, configs>>,
             escrow[a] = None \/ escrow'[a] \in {escrow[a], None}
      PROVE  (account[a] # None => Announced(a)) /\ Frozen(a)
  BY <1>1 DEF Announced, Frozen, configs
<1>2. ASSUME NEW m \in Market, NEW l \in Listing, SettleMarketEscrow(a, m, l, signer)
      PROVE  (account[a] # None => Announced(a)) /\ Frozen(a)
  <2>1. escrow[a] # None /\ escrow'[a] = None
    BY <1>2 DEF SettleMarketEscrow, AssertEscrowMarket, ClearMarketEscrow, TypeOK
  <2> QED
    BY <2>1 DEF Announced, Frozen, Sold
<1>3. ASSUME NEW m \in Market, NEW l \in Listing,
             EnterMarketEscrow(a, signer, m, l) \/ CancelMarketEscrow(a, m, l)
      PROVE  (account[a] # None => Announced(a)) /\ Frozen(a)
  BY <1>1, <1>3 DEF EnterMarketEscrow, OwnerConfigures, AssertNoMarketEscrow,
     CancelMarketEscrow, ClearMarketEscrow, TypeOK
<1>4. CASE InitiateMarketEscrowCancel(a, signer) \/ ForceCancelMarketEscrow(a, signer)
  BY <1>1, <1>4 DEF InitiateMarketEscrowCancel, ForceCancelMarketEscrow, ClearMarketEscrow,
     TypeOK
<1> QED
  BY <1>2, <1>3, <1>4 DEF EscrowNext

LEMMA AnnouncedStep ==
  ASSUME Ownership, [Next]_walletVars, NEW b \in Account
  PROVE  (account[b] # None => Announced(b)) /\ Frozen(b)
<1> USE DEF Ownership
<1>1. CASE Tick \/ UNCHANGED walletVars
  BY <1>1, RestLeavesAlone, LeftAloneIsAnnounced
<1>2. ASSUME NEW S \in SUBSET Account, NEW v, NEW o \in Owner, RegisterAccountCore(S, v, o),
             b \in S
      PROVE  (account[b] # None => Announced(b)) /\ Frozen(b)
  <2>1. account[b] = None /\ escrow[b] = None
    BY <1>2, RegistrationRecord DEF EscrowByCurrentOwner
  <2> QED
    BY <2>1 DEF Announced, Frozen
<1>3. ASSUME NEW S \in SUBSET Account, NEW o \in Owner, RegisterAccounts(S, o)
      PROVE  (account[b] # None => Announced(b)) /\ Frozen(b)
  BY <1>2, <1>3, RestLeavesAlone, LeftAloneIsAnnounced DEF RegisterAccounts
<1>4. ASSUME NEW a \in Account, RegistrarNext(a)
      PROVE  (account[b] # None => Announced(b)) /\ Frozen(b)
  <2>1. CASE b # a
    BY <1>4, <2>1, RegistrarLeavesAlone, LeftAloneIsAnnounced
  <2>2. ASSUME b = a, NEW o \in Owner, RotatePlatformAccountOwner(a, o)
        PROVE  (account[b] # None => Announced(b)) /\ Frozen(b)
    <3>1. /\ account[a] \in AccountState /\ account'[a] = [account[a] EXCEPT !.backupOwner = o]
          /\ escrow[a] = None /\ UNCHANGED configs
      BY <2>2, RotationRecord DEF RotatePlatformAccountOwner, AssertNoMarketEscrow, TypeOK
    <3>2. account'[a].verifier = account[a].verifier /\ account'[a].hook = account[a].hook
      BY <3>1 DEF AccountState
    <3> QED
      BY <2>2, <3>1, <3>2 DEF Announced, Frozen, configs
  <2>3. PICK o \in Owner : \/ RegisterAccountCore({a}, Zero, o)
                           \/ RotatePlatformAccountOwner(a, o)
    BY <1>4, RegistrarCases
  <2>4. {a} \in SUBSET Account /\ (b = a => b \in {a})
    OBVIOUS
  <2> QED
    BY <1>2, <2>1, <2>2, <2>3, <2>4
<1>5. ASSUME NEW a \in Account, NEW o \in Owner, ModuleNext(a, o)
      PROVE  (account[b] # None => Announced(b)) /\ Frozen(b)
  BY <1>5, ModuleAnnounced, ModuleLeavesAlone, LeftAloneIsAnnounced
<1>6. ASSUME NEW a \in Account, NEW o \in Owner, EscapeNext(a, o)
      PROVE  (account[b] # None => Announced(b)) /\ Frozen(b)
  BY <1>6, EscapeAnnounced, EscapeLeavesAlone, LeftAloneIsAnnounced
<1>7. ASSUME NEW a \in Account, NEW o \in Owner, EscrowNext(a, o)
      PROVE  (account[b] # None => Announced(b)) /\ Frozen(b)
  BY <1>7, EscrowAnnounced, EscrowLeavesAlone, LeftAloneIsAnnounced
<1> QED
  BY <1>1, <1>3, <1>4, <1>5, <1>6, <1>7 DEF Next

(* No step of any kind changes an installed plugin or what it holds for the *)
(* account unless the change matured through its notice or the account is   *)
(* sold.                                                                    *)
THEOREM AuthorityAnnounced == Spec => AuthorityChangesAreAnnounced
<1>1. Ownership /\ [Next]_walletVars => \A a \in Account : account[a] # None => Announced(a)
  BY AnnouncedStep
<1> QED
  BY <1>1, OwnershipInvariant, PTL DEF Spec, AuthorityChangesAreAnnounced

(* No step changes what is for sale while the account stays in escrow.      *)
THEOREM EscrowFrozen == Spec => EscrowFreezesTheAccount
<1>1. Ownership /\ [Next]_walletVars => \A a \in Account : Frozen(a)
  BY AnnouncedStep
<1> QED
  BY <1>1, OwnershipInvariant, PTL DEF Spec, EscrowFreezesTheAccount, Frozen
-----------------------------------------------------------------------------
(* The account book implements AccountCustody *)

OwnerOf == [a \in Account |->
              IF account[a] = None THEN None ELSE account[a].backupOwner]
ConsentOf == [a \in Account |-> IF escrow[a] = None THEN None ELSE escrow[a].by]

(* Steps that keep owners, escrows and the platform's accounts are stutters. *)
LEMMA CustodyStutter ==
  ASSUME UNCHANGED platform, UNCHANGED escrow,
         \A b \in Account : /\ (account'[b] = None) <=> (account[b] = None)
                            /\ account[b] # None =>
                                 account'[b].backupOwner = account[b].backupOwner
  PROVE  UNCHANGED Custody!vars
<1>1. OwnerOf' = OwnerOf /\ ConsentOf' = ConsentOf
  BY DEF OwnerOf, ConsentOf
<1> QED
  BY <1>1 DEF Custody!vars, OwnerOf, ConsentOf

LEMMA CustodyOpen ==
  ASSUME Ownership, NEW S \in SUBSET Account, NEW v, NEW o \in Owner,
         RegisterAccountCore(S, v, o),
         \/ UNCHANGED platform
         \/ \E a \in Account : S = {a} /\ platform' = platform \cup S
  PROVE  Custody!Next
<1>1. /\ \A b \in S : /\ account[b] = None /\ account'[b] # None
                      /\ account'[b].backupOwner = o
      /\ \A b \in Account \ S : account'[b] = account[b]
  BY RegistrationRecord
<1>0. escrow' = escrow
  BY DEF RegisterAccountCore, escrows
<1>2. /\ \A b \in S : OwnerOf[b] = None
      /\ OwnerOf' = [b \in Account |-> IF b \in S THEN o ELSE OwnerOf[b]]
      /\ ConsentOf' = ConsentOf
  BY <1>0, <1>1 DEF OwnerOf, ConsentOf
<1>3. Custody!Open(S, o)
  BY <1>2 DEF Custody!Open, OwnerOf, ConsentOf
<1> QED
  BY <1>3 DEF Custody!Next

LEMMA CustodyReassign ==
  ASSUME Ownership, NEW a \in Account, NEW o \in Owner,
         RotatePlatformAccountOwner(a, o)
  PROVE  Custody!Next
<1>1. /\ account[a] # None /\ account'[a] # None
      /\ account'[a].backupOwner = o
      /\ \A b \in Account \ {a} : account'[b] = account[b]
      /\ escrow' = escrow /\ escrow[a] = None
      /\ platform' = platform /\ a \in platform
  BY RotationRecord
     DEF Ownership, RotatePlatformAccountOwner, AssertNoMarketEscrow, escrows
<1>2. account[a].backupOwner # None
  BY <1>1, ConstantsAssumption DEF Ownership, TypeOK, AccountState
<1>3. /\ OwnerOf[a] # None /\ ConsentOf[a] = None
      /\ OwnerOf' = [OwnerOf EXCEPT ![a] = o]
      /\ ConsentOf' = ConsentOf
  BY <1>1, <1>2 DEF OwnerOf, ConsentOf
<1>4. Custody!Reassign(a, o)
  BY <1>1, <1>3 DEF Custody!Reassign, OwnerOf, ConsentOf
<1> QED
  BY <1>4 DEF Custody!Next

LEMMA CustodyEscrow ==
  ASSUME Ownership, NEW a \in Account, NEW o \in Owner, EscrowNext(a, o)
  PROVE  Custody!Next \/ UNCHANGED Custody!vars
<1>1. ASSUME NEW m \in Market, NEW l \in Listing, EnterMarketEscrow(a, o, m, l)
      PROVE  Custody!Next
  <2>1. /\ account' = account /\ platform' = platform
        /\ account[a] # None /\ account[a].backupOwner = o
        /\ escrow' = [escrow EXCEPT ![a] = [market |-> m, listing |-> l, by |-> o]]
    BY <1>1 DEF EnterMarketEscrow, OwnerConfigures, AssertBackupOwner, history
  <2>2. [market |-> m, listing |-> l, by |-> o] # None
    BY NoneAssumption DEF Escrow
  <2>3. /\ OwnerOf' = OwnerOf /\ OwnerOf[a] = o /\ o # None
        /\ ConsentOf' = [ConsentOf EXCEPT ![a] = o]
    BY <2>1, <2>2, ConstantsAssumption DEF OwnerOf, ConsentOf, Ownership, TypeOK
  <2>4. Custody!Consent(a)
    BY <2>1, <2>3 DEF Custody!Consent, OwnerOf, ConsentOf
  <2> QED
    BY <2>4 DEF Custody!Next
<1>2. ASSUME account' = account, platform' = platform,
             escrow' = [escrow EXCEPT ![a] = None]
      PROVE  Custody!Next
  <2>1. OwnerOf' = OwnerOf /\ ConsentOf' = [ConsentOf EXCEPT ![a] = None]
    BY <1>2 DEF OwnerOf, ConsentOf, Ownership, TypeOK
  <2>2. Custody!Withdraw(a)
    BY <1>2, <2>1 DEF Custody!Withdraw, OwnerOf, ConsentOf
  <2> QED
    BY <2>2 DEF Custody!Next
<1>3. ASSUME NEW m \in Market, NEW l \in Listing, SettleMarketEscrow(a, m, l, o)
      PROVE  Custody!Next
  <2>1. /\ escrow' = [escrow EXCEPT ![a] = None] /\ platform' = platform
        /\ escrow[a] # None /\ account[a] # None
        /\ escrow[a].by = account[a].backupOwner
    BY <1>3 DEF SettleMarketEscrow, AssertEscrowMarket, ClearMarketEscrow,
       Ownership, EscrowByCurrentOwner
  <2>2. /\ account'[a] # None /\ account'[a].backupOwner = o
        /\ \A b \in Account \ {a} : account'[b] = account[b]
    BY <1>3, <2>1, SettlementRecord DEF Ownership
  <2>3. account[a].backupOwner # None
    BY <2>1, ConstantsAssumption DEF Ownership, TypeOK, AccountState
  <2>4. /\ ConsentOf[a] # None /\ ConsentOf[a] = OwnerOf[a]
        /\ OwnerOf' = [OwnerOf EXCEPT ![a] = o]
        /\ ConsentOf' = [ConsentOf EXCEPT ![a] = None]
    BY <2>1, <2>2, <2>3 DEF OwnerOf, ConsentOf, Ownership, TypeOK
  <2>5. Custody!Sell(a, o)
    BY <2>1, <2>4 DEF Custody!Sell, OwnerOf, ConsentOf
  <2> QED
    BY <2>5 DEF Custody!Next
<1>4. CASE InitiateMarketEscrowCancel(a, o)
  BY <1>4, CustodyStutter DEF InitiateMarketEscrowCancel, history
<1> QED
  BY <1>1, <1>2, <1>3, <1>4 DEF EscrowNext, CancelMarketEscrow,
     ForceCancelMarketEscrow, ClearMarketEscrow, history

LEMMA CustodyStep ==
  ASSUME Ownership, [Next]_walletVars
  PROVE  [Custody!Next]_Custody!vars
<1>1. ASSUME Tick \/ UNCHANGED walletVars
      PROVE  UNCHANGED Custody!vars
  BY <1>1, CustodyStutter DEF Tick, walletVars, escrows, history
<1>2. ASSUME NEW S \in SUBSET Account, NEW o \in Owner, RegisterAccounts(S, o)
      PROVE  Custody!Next
  BY <1>2, CustodyOpen DEF RegisterAccounts
<1>3. ASSUME NEW a \in Account, RegistrarNext(a)
      PROVE  Custody!Next
  <2>1. PICK o \in Owner : \/ /\ RegisterAccountCore({a}, Zero, o)
                              /\ platform' = platform \cup {a}
                           \/ RotatePlatformAccountOwner(a, o)
    BY <1>3, RegistrarCases
  <2>2. {a} \in SUBSET Account
    OBVIOUS
  <2>3. CASE RegisterAccountCore({a}, Zero, o) /\ platform' = platform \cup {a}
    BY <2>2, <2>3, CustodyOpen
  <2>4. CASE RotatePlatformAccountOwner(a, o)
    BY <2>4, CustodyReassign
  <2> QED
    BY <2>1, <2>3, <2>4
<1>4. ASSUME NEW a \in Account, NEW o \in Owner, ModuleNext(a, o)
      PROVE  UNCHANGED Custody!vars
  <2>1. escrow' = escrow /\ platform' = platform
    BY <1>4 DEF ModuleNext, UpdateVerifier, UpdateHook, ConfirmVerifierUpdate,
       ConfirmHookUpdate, CancelVerifierUpdate, CancelHookUpdate, CallVerifier,
       CallHook, SetMetadataUri, escrows, history
  <2>2. \A b \in Account : account[b] = None => account'[b] = None
    BY <1>4 DEF ModuleNext, UpdateVerifier, UpdateHook, ConfirmVerifierUpdate,
       ConfirmHookUpdate, CancelVerifierUpdate, CancelHookUpdate, CallVerifier,
       CallHook, SetMetadataUri, OwnerConfigures, AssertBackupOwner, Ownership, TypeOK
  <2>3. \A b \in Account : account[b] # None =>
          /\ account'[b] # None
          /\ account'[b].backupOwner = account[b].backupOwner
    BY <1>4, ModuleRecord DEF Ownership
  <2> QED
    BY <2>1, <2>2, <2>3, CustodyStutter
<1>5. ASSUME NEW a \in Account, NEW o \in Owner, EscapeNext(a, o)
      PROVE  UNCHANGED Custody!vars
  <2>1. escrow' = escrow /\ platform' = platform
    BY <1>5 DEF EscapeNext, InitiateEscape, FinalizeEscape, ExecuteUserOpEscape,
       escrows, history
  <2>2. /\ account[a] # None /\ account'[a] # None
        /\ account'[a].backupOwner = account[a].backupOwner
        /\ \A b \in Account \ {a} : account'[b] = account[b]
    BY <1>5, EscapeRecord DEF Ownership
  <2> QED
    BY <2>1, <2>2, CustodyStutter
<1>6. ASSUME NEW a \in Account, NEW o \in Owner, EscrowNext(a, o)
      PROVE  Custody!Next \/ UNCHANGED Custody!vars
  BY <1>6, CustodyEscrow
<1> QED
  BY <1>1, <1>2, <1>3, <1>4, <1>5, <1>6 DEF Next

LEMMA CustodyInit == Init => Custody!Init
BY DEF Init, Custody!Init

(* Every behaviour of the account book is a behaviour of AccountCustody: an *)
(* account changes hands only by a sale its present owner consented to or   *)
(* by its platform.                                                         *)
THEOREM CustodyRefinement == Spec => ImplementsCustody
<1>1. Ownership /\ [Next]_walletVars => [Custody!Next]_Custody!vars
  BY CustodyStep
<1> QED
  BY <1>1, CustodyInit, OwnershipInvariant, PTL
     DEF Spec, ImplementsCustody, Custody!Spec

-----------------------------------------------------------------------------
(* The market *)

(* Induction on the naturals, with a set in the place of a predicate.       *)
LEMMA SetInduction ==
  ASSUME NEW N, 0 \in N, \A n \in Nat : n \in N => n + 1 \in N
  PROVE  Nat \subseteq N
<1> SUFFICES ASSUME Nat \ N # {} PROVE FALSE
  OBVIOUS
<1>1. PICK m \in Nat \ N : \A k \in Nat \ N : <<k, m>> \notin OpToRel(<, Nat)
  BY NatLessThanWellFounded, WFMin
<1>2. \A k \in Nat \ N : ~(k < m)
  BY <1>1 DEF OpToRel
<1>3. m # 0 /\ m - 1 \in Nat /\ m - 1 < m /\ (m - 1) + 1 = m
  OBVIOUS
<1> QED BY <1>2, <1>3

-----------------------------------------------------------------------------
(* The function by which the fold of the community modules adds up f.       *)
Some(s) == CHOOSE x \in s : TRUE
Adds(f, g, T) ==
  g = [s \in T |-> IF s = {} THEN 0 ELSE f[Some(s)] + g[s \ {Some(s)}]]
Adder(f, S) == CHOOSE g : Adds(f, g, SUBSET S)

LEMMA SumOverAdder ==
  ASSUME NEW f, NEW S
  PROVE  SumOver(f, S) = Adder(f, S)[S]
BY DEF SumOver, MapThenSumSet, MapThenFoldSet, Adds, Adder, Some

LEMMA SomeElement ==
  ASSUME NEW s, s # {}
  PROVE  Some(s) \in s
BY DEF Some

(* There is such a function: it can be built up from the smaller sets.      *)
LEMMA AdderExists ==
  ASSUME NEW f, NEW S, IsFiniteSet(S)
  PROVE  Adds(f, Adder(f, S), SUBSET S)
<1> DEFINE Upto(n) == {s \in SUBSET S : Cardinality(s) <= n}
           N == {n \in Nat : \E g : Adds(f, g, Upto(n))}
<1>1. 0 \in N
  <2>1. Adds(f, [s \in Upto(0) |-> 0], Upto(0))
    <3>1. \A s \in Upto(0) : s = {}
      BY FS_Subset, FS_CardinalityType, FS_EmptySet
    <3> HIDE DEF Upto
    <3> QED BY <3>1 DEF Adds
  <2> QED BY <2>1
<1>2. ASSUME NEW n \in Nat, n \in N PROVE n + 1 \in N
  <2>1. PICK g : Adds(f, g, Upto(n))
    BY <1>2
  <2> DEFINE h == [s \in Upto(n + 1) |->
                     IF s \in Upto(n) THEN g[s] ELSE f[Some(s)] + g[s \ {Some(s)}]]
  <2>2. /\ \A s \in Upto(n) : s \in Upto(n + 1)
        /\ \A s \in Upto(n + 1) : s # {} => s \ {Some(s)} \in Upto(n)
        /\ {} \in Upto(n)
    <3>1. \A s \in SUBSET S : IsFiniteSet(s) /\ Cardinality(s) \in Nat
      BY FS_Subset, FS_CardinalityType
    <3>2. ASSUME NEW s \in SUBSET S, s # {}
          PROVE  Cardinality(s \ {Some(s)}) = Cardinality(s) - 1
      BY <3>1, <3>2, SomeElement, FS_RemoveElement
    <3> QED BY <3>1, <3>2, FS_EmptySet
  <2>3. Adds(f, h, Upto(n + 1))
    <3> SUFFICES ASSUME NEW s \in Upto(n + 1)
                 PROVE  h[s] = IF s = {} THEN 0 ELSE f[Some(s)] + h[s \ {Some(s)}]
      BY DEF Adds
    <3>1. CASE s \in Upto(n)
      <4> HIDE DEF Upto
      <4>1. g[s] = IF s = {} THEN 0 ELSE f[Some(s)] + g[s \ {Some(s)}]
        BY <2>1, <3>1 DEF Adds
      <4> QED BY <4>1, <2>2, <3>1
    <3>2. CASE s \notin Upto(n)
      <4> HIDE DEF Upto
      <4> QED BY <2>2, <3>2
    <3> QED BY <3>1, <3>2
  <2> HIDE DEF Upto, h
  <2> QED BY <2>3
<1>3. Cardinality(S) \in N
  <2> HIDE DEF N
  <2> QED BY <1>1, <1>2, SetInduction, FS_CardinalityType
<1>4. Upto(Cardinality(S)) = SUBSET S
  BY FS_Subset
<1> HIDE DEF Upto
<1> QED BY <1>3, <1>4 DEF Adder

(* Induction on the subsets of a finite set.                                *)
LEMMA SubsetInduction ==
  ASSUME NEW S, IsFiniteSet(S), NEW G,
         \A s \in SUBSET S : (\A t \in SUBSET s : t # s => t \in G) => s \in G
  PROVE  SUBSET S \subseteq G
<1> SUFFICES ASSUME (SUBSET S) \ G # {} PROVE FALSE
  OBVIOUS
<1>1. IsWellFoundedOn(StrictSubsetOrdering(S), SUBSET S)
  <2>1. IsWellFoundedOn(StrictSubsetOrdering(S), FiniteSubsetsOf(S))
    BY FS_StrictSubsetOrderingWellFounded
  <2>2. FiniteSubsetsOf(S) = SUBSET S
    BY FS_FiniteSubsetsOfFinite
  <2> QED BY <2>1, <2>2
<1> DEFINE T == (SUBSET S) \ G
<1>2. T \subseteq SUBSET S /\ T # {}
  OBVIOUS
<1> HIDE DEF T
<1>3. PICK s \in T : \A t \in T : <<t, s>> \notin StrictSubsetOrdering(S)
  BY <1>1, <1>2, WFMin
<1>4. \A t \in SUBSET s : t # s => t \in G
  BY <1>3 DEF T, StrictSubsetOrdering
<1> QED BY <1>3, <1>4 DEF T

(* The order in which elements are chosen does not matter.                  *)
LEMMA AdderRemoves ==
  ASSUME NEW f, NEW S, IsFiniteSet(S), \A x \in S : f[x] \in Nat, NEW s \in SUBSET S
  PROVE  /\ Adder(f, S)[s] \in Nat
         /\ \A x \in s : Adder(f, S)[s] = f[x] + Adder(f, S)[s \ {x}]
<1>a. PICK g : g = Adder(f, S)
  OBVIOUS
<1>b. Adds(f, g, SUBSET S)
  BY <1>a, AdderExists
<1> DEFINE G == {t \in SUBSET S : g[t] \in Nat /\ \A x \in t : g[t] = f[x] + g[t \ {x}]}
<1>1. \A t \in SUBSET S :
        g[t] = IF t = {} THEN 0 ELSE f[Some(t)] + g[t \ {Some(t)}]
  BY <1>b DEF Adds
<1>2. ASSUME NEW w \in SUBSET S, \A t \in SUBSET w : t # w => t \in G
      PROVE  w \in G
  <2>1. CASE w = {}
    <3>1. g[w] = 0
      BY <1>1, <2>1
    <3> QED BY <2>1, <3>1
  <2>2. CASE w # {}
    <3>1. PICK y \in w : y = Some(w)
      BY <2>2, SomeElement
    <3>2. g[w] = f[y] + g[w \ {y}]
      BY <1>1, <2>2, <3>1
    <3>3. ASSUME NEW x \in w PROVE w \ {x} \in G
      BY <1>2
    <3>4. ASSUME NEW x \in w PROVE g[w] = f[x] + g[w \ {x}]
      <4>1. CASE x = y
        BY <4>1, <3>2
      <4>2. CASE x # y
        <5>1. g[w \ {y}] = f[x] + g[(w \ {y}) \ {x}]
          BY <3>1, <3>3, <4>2
        <5>2. g[w \ {x}] = f[y] + g[(w \ {x}) \ {y}]
          BY <3>1, <3>3, <4>2
        <5>3. (w \ {x}) \ {y} = (w \ {y}) \ {x}
          OBVIOUS
        <5>4. (w \ {y}) \ {x} \in SUBSET w /\ (w \ {y}) \ {x} # w
          OBVIOUS
        <5>5. g[(w \ {y}) \ {x}] \in Nat
          BY <1>2, <5>4
        <5>6. f[x] \in Nat /\ f[y] \in Nat
          OBVIOUS
        <5>7. PICK r : r = g[(w \ {y}) \ {x}]
          OBVIOUS
        <5>8. r \in Nat /\ g[w \ {x}] = f[y] + r /\ g[w \ {y}] = f[x] + r
          BY <5>1, <5>2, <5>3, <5>5, <5>7
        <5> HIDE DEF G
        <5> QED BY <5>6, <5>8, <3>2
      <4> QED BY <4>1, <4>2
    <3>5. g[w] \in Nat
      <4>1. g[w \ {y}] \in Nat /\ f[y] \in Nat
        BY <3>3
      <4> HIDE DEF G
      <4> QED BY <4>1, <3>2
    <3> QED BY <3>4, <3>5
  <2> QED BY <2>1, <2>2
<1>3. SUBSET S \subseteq G
  <2> HIDE DEF G
  <2> QED BY <1>2, SubsetInduction
<1> QED BY <1>a, <1>3

(* Functions that agree on a set have one sum over it, whatever larger set  *)
(* the fold comes from.                                                     *)
LEMMA AddersAgree ==
  ASSUME NEW f, NEW S, IsFiniteSet(S), NEW h, NEW T, IsFiniteSet(T),
         NEW R, R \subseteq S, R \subseteq T, \A x \in R : f[x] = h[x]
  PROVE  Adder(f, S)[R] = Adder(h, T)[R]
<1>a. PICK g : g = Adder(f, S)
  OBVIOUS
<1>b. PICK k : k = Adder(h, T)
  OBVIOUS
<1>c. Adds(f, g, SUBSET S) /\ Adds(h, k, SUBSET T)
  BY <1>a, <1>b, AdderExists
<1> DEFINE G == {s \in SUBSET R : g[s] = k[s]}
<1>1. \A s \in SUBSET R :
        /\ g[s] = IF s = {} THEN 0 ELSE f[Some(s)] + g[s \ {Some(s)}]
        /\ k[s] = IF s = {} THEN 0 ELSE h[Some(s)] + k[s \ {Some(s)}]
  <2>1. \A s \in SUBSET R : s \in SUBSET S /\ s \in SUBSET T
    OBVIOUS
  <2> QED BY <1>c, <2>1 DEF Adds
<1>2. ASSUME NEW s \in SUBSET R, \A t \in SUBSET s : t # s => t \in G
      PROVE  s \in G
  <2>1. CASE s = {}
    BY <1>1, <2>1
  <2>2. CASE s # {}
    <3>1. Some(s) \in s
      BY <2>2, SomeElement
    <3>2. g[s \ {Some(s)}] = k[s \ {Some(s)}]
      BY <1>2, <3>1
    <3> QED BY <1>1, <2>2, <3>1, <3>2
  <2> QED BY <2>1, <2>2
<1>3. IsFiniteSet(R)
  BY FS_Subset
<1>4. SUBSET R \subseteq G
  <2> HIDE DEF G
  <2> QED BY <1>2, <1>3, SubsetInduction
<1> QED BY <1>a, <1>b, <1>4

-----------------------------------------------------------------------------
(* A sum depends on its terms only.                                         *)
LEMMA SumSame ==
  ASSUME NEW f, NEW h, NEW S, IsFiniteSet(S), \A x \in S : f[x] = h[x]
  PROVE  SumOver(f, S) = SumOver(h, S)
<1>1. Adder(f, S)[S] = Adder(h, S)[S]
  BY AddersAgree
<1> QED BY <1>1, SumOverAdder

(* Sums of naturals are naturals.                                           *)
LEMMA SumNat ==
  ASSUME NEW f, NEW S, IsFiniteSet(S), \A x \in S : f[x] \in Nat
  PROVE  SumOver(f, S) \in Nat
BY AdderExists, AdderRemoves, SumOverAdder

(* One term can be taken out.                                               *)
LEMMA SumSplit ==
  ASSUME NEW f, NEW S, IsFiniteSet(S), \A x \in S : f[x] \in Nat, NEW x \in S
  PROVE  SumOver(f, S) = f[x] + SumOver(f, S \ {x})
<1>1. IsFiniteSet(S \ {x})
  BY FS_RemoveElement
<1>2. Adder(f, S)[S \ {x}] = Adder(f, S \ {x})[S \ {x}]
  BY <1>1, AddersAgree
<1>3. Adder(f, S)[S] = f[x] + Adder(f, S)[S \ {x}]
  <2>1. S \in SUBSET S
    OBVIOUS
  <2>2. \A y \in S : Adder(f, S)[S] = f[y] + Adder(f, S)[S \ {y}]
    BY <2>1, AdderRemoves
  <2> QED BY <2>2
<1> QED BY <1>2, <1>3, SumOverAdder

(* Only one term changes.                                                   *)
LEMMA SumChange ==
  ASSUME NEW f, NEW h, NEW S, IsFiniteSet(S), NEW x \in S,
         \A y \in S : f[y] \in Nat /\ h[y] \in Nat,
         \A y \in S \ {x} : f[y] = h[y]
  PROVE  SumOver(h, S) + f[x] = SumOver(f, S) + h[x]
<1>1. IsFiniteSet(S \ {x})
  BY FS_RemoveElement
<1>2. SumOver(f, S \ {x}) = SumOver(h, S \ {x})
  BY <1>1, SumSame
<1>3. SumOver(f, S \ {x}) \in Nat
  BY <1>1, SumNat
<1> QED BY <1>2, <1>3, SumSplit

(* Nothing adds up to nothing.                                              *)
LEMMA SumZero ==
  ASSUME NEW f, NEW S, IsFiniteSet(S), \A x \in S : f[x] = 0
  PROVE  SumOver(f, S) = 0
<1> DEFINE G == {s \in SUBSET S : SumOver(f, s) = 0}
<1>1. ASSUME NEW s \in SUBSET S, \A t \in SUBSET s : t # s => t \in G
      PROVE  s \in G
  <2>1. CASE s = {}
    <3>1. PICK g : g = Adder(f, {})
      OBVIOUS
    <3>2. Adds(f, g, SUBSET {})
      BY <3>1, AdderExists, FS_EmptySet
    <3>3. SumOver(f, {}) = 0
      BY <3>1, <3>2, SumOverAdder DEF Adds
    <3> QED BY <2>1, <3>3
  <2>2. CASE s # {}
    <3>1. PICK x \in s : TRUE
      BY <2>2
    <3>2. SumOver(f, s \ {x}) = 0
      BY <1>1, <3>1
    <3>3. IsFiniteSet(s) /\ \A y \in s : f[y] \in Nat
      BY FS_Subset
    <3> QED BY <3>1, <3>2, <3>3, SumSplit
  <2> QED BY <2>1, <2>2
<1>2. SUBSET S \subseteq G
  <2> HIDE DEF G
  <2> QED BY <1>1, SubsetInduction
<1> QED BY <1>2

-----------------------------------------------------------------------------
(* What an aborted transaction puts back is well formed.                    *)
TypedBook(s) ==
  /\ s.account \in [Account -> AccountState \cup {None}]
  /\ s.updates[1] \in [Account -> PendingUpdate \cup {None}]
  /\ s.updates[2] \in [Account -> PendingUpdate \cup {None}]
  /\ s.calls[1] \in [Account -> PendingCall \cup {None}]
  /\ s.calls[2] \in [Account -> PendingCall \cup {None}]
  /\ s.markers[1] \in [Account -> Time]
  /\ s.markers[2] \in [Account -> Owner \cup {None}]
  /\ s.escrow \in [Account -> Escrow \cup {None}]
  /\ s.cancelInitiated \in [Account -> Time]
  /\ s.configs[1] \in [Verifier -> [Account -> Owner \cup {None}]]
  /\ s.configs[2] \in [Hook -> [Account -> Owner \cup {None}]]
  /\ s.history[1] \in SUBSET Account
  /\ s.history[2] \in [Account -> SUBSET Owner]
  /\ s.nextListingId \in Nat
  /\ s.listing \in [Listing -> ListingRecord \cup {None}]
  /\ s.pending \in [Listing -> [Owner -> Price \cup {0}]]
  /\ s.pendingCount \in [Listing -> Nat]
  /\ s.gas \in [Owner \cup {AAMarket} -> Nat]
  /\ s.allowedAA \in BOOLEAN

(* An escrow is the present owner's.                                        *)
OwnedBook(s) ==
  \A a \in Account : s.escrow[a] # None =>
    s.account[a] # None /\ s.escrow[a].by = s.account[a].backupOwner

MarketTypes ==
  /\ MarketTypeOK /\ EscrowByCurrentOwner
  /\ ~Idle => TypedBook(saved) /\ OwnedBook(saved)

(* But for an abort, what the market does to the wallet is what the wallet  *)
(* allows any market.                                                       *)
LEMMA MarketWalletStep ==
  ASSUME MarketAssumption, [SaleNext]_vars, ~Abort, MarketTypeOK
  PROVE  [Next]_walletVars
<1>1. CASE UNCHANGED vars
  BY <1>1 DEF vars
<1>2. CASE OwnershipNext
  BY <1>2 DEF OwnershipNext, Next, EscrowNext
<1>3. CASE UNCHANGED escrowVars
  BY <1>3 DEF escrowVars, walletVars, updates, calls, markers, configs, history
<1>4. ASSUME NEW a \in Account, NEW price \in Price, CreateListing(a, price)
      PROVE  [Next]_walletVars
  <2>1. account[a] \in AccountState
    BY <1>4 DEF CreateListing, MarketTypeOK, TypeOK
  <2>2. account[a].backupOwner \in Owner
    BY <2>1 DEF AccountState
  <2>3. EscrowNext(a, account[a].backupOwner)
    BY <1>4, <2>2 DEF CreateListing, EscrowNext, MarketAssumption
  <2> QED BY <2>2, <2>3 DEF Next
<1>5. ASSUME NEW l \in Listing, CancelListing(l) PROVE [Next]_walletVars
  <2>1. listing[l] \in ListingRecord
    BY <1>5 DEF CancelListing, Active, MarketTypeOK
  <2>2. listing[l].account \in Account /\ listing[l].seller \in Owner
    BY <2>1 DEF ListingRecord
  <2>3. EscrowNext(listing[l].account, listing[l].seller)
    BY <1>5, <2>2 DEF CancelListing, EscrowNext, MarketAssumption
  <2> QED BY <2>2, <2>3 DEF Next
<1>6. ASSUME SettleClose PROVE [Next]_walletVars
  <2> DEFINE frame == settling[Len(settling)]
  <2>1. frame \in Frame
    BY <1>6 DEF SettleClose, Idle, MarketTypeOK
  <2>2. /\ frame.listing.account \in Account
        /\ frame.id \in Listing /\ frame.newOwner \in Owner
    BY <2>1 DEF Frame, ListingRecord
  <2>3. SettleMarketEscrow(frame.listing.account, AAMarket, frame.id, frame.newOwner)
    BY <1>6 DEF SettleClose
  <2> HIDE DEF frame
  <2>4. EscrowNext(frame.listing.account, frame.newOwner)
    BY <2>2, <2>3 DEF EscrowNext, MarketAssumption
  <2> QED BY <2>2, <2>4 DEF Next
<1>7. ASSUME NEW a \in Account, NEW o \in Owner, ForceCancelListing(a, o)
      PROVE  [Next]_walletVars
  BY <1>7 DEF ForceCancelListing, EscrowNext, Next
<1>8. CASE \E allowed \in BOOLEAN : SetAllowedAA(allowed)
  BY <1>3, <1>8 DEF SetAllowedAA
<1>9. CASE \E l \in Listing, price \in Price : UpdateListingPrice(l, price)
  BY <1>3, <1>9 DEF UpdateListingPrice
<1>10. ASSUME NEW l \in Listing, NEW p \in Owner,
              \/ \E amount \in Price : OnNEP17Payment(l, p, amount)
              \/ RefundPendingPayment(l, p)
              \/ \E o \in Owner : SettleListing(l, p, o)
       PROVE  [Next]_walletVars
  BY <1>3, <1>10 DEF OnNEP17Payment, RefundPendingPayment, SettleListing
<1> QED
  BY <1>1, <1>2, <1>4, <1>5, <1>6, <1>7, <1>8, <1>9, <1>10 DEF SaleNext, MarketNext

-----------------------------------------------------------------------------
(* Types *)

(* The market's own variables keep their types.                             *)
OwnTypes ==
  /\ nextListingId \in Nat
  /\ listing \in [Listing -> ListingRecord \cup {None}]
  /\ pending \in [Listing -> [Owner -> Price \cup {0}]]
  /\ pendingCount \in [Listing -> Nat]
  /\ gas \in [Owner \cup {AAMarket} -> Nat]
  /\ allowedAA \in BOOLEAN
  /\ settling \in Seq(Frame) /\ Len(settling) <= MaxNesting

(* A listing is rewritten in its status, its buyer or its price only.       *)
LEMMA ListingFields ==
  ASSUME NEW r \in ListingRecord, NEW price \in Price, NEW buyer \in Owner
  PROVE  /\ [r EXCEPT !.price = price] \in ListingRecord
         /\ [r EXCEPT !.status = "cancelled"] \in ListingRecord
         /\ [r EXCEPT !.status = "sold", !.buyer = buyer] \in ListingRecord
         /\ [r EXCEPT !.status = "sold", !.buyer = buyer].account = r.account
         /\ [r EXCEPT !.status = "sold", !.buyer = buyer].status = "sold"
         /\ [r EXCEPT !.status = "sold", !.buyer = buyer].seller = r.seller
         /\ [r EXCEPT !.status = "sold", !.buyer = buyer].price = r.price
         /\ [r EXCEPT !.status = "sold", !.buyer = buyer].buyer = buyer
BY DEF ListingRecord

LEMMA TransferType ==
  ASSUME gas \in [Owner \cup {AAMarket} -> Nat],
         NEW from \in Owner \cup {AAMarket}, NEW to \in Owner \cup {AAMarket},
         NEW amount \in Nat, Transfer(from, to, amount)
  PROVE  gas' \in [Owner \cup {AAMarket} -> Nat]
BY DEF Transfer

LEMMA PendingType ==
  ASSUME pending \in [Listing -> [Owner -> Price \cup {0}]],
         pendingCount \in [Listing -> Nat],
         NEW l \in Listing, NEW p \in Owner, NEW amount \in Price,
         PutPendingPayment(l, p, amount) \/ ClearPendingPayment(l, p)
  PROVE  /\ pending' \in [Listing -> [Owner -> Price \cup {0}]]
         /\ pendingCount' \in [Listing -> Nat]
<1>1. \A x \in Price \cup {0} : [pending[l] EXCEPT ![p] = x] \in [Owner -> Price \cup {0}]
  OBVIOUS
<1>2. pending' \in [Listing -> [Owner -> Price \cup {0}]]
  BY <1>1, SMTT(30) DEF PutPendingPayment, ClearPendingPayment
<1>3. pendingCount' \in [Listing -> Nat]
  BY DEF PutPendingPayment, ClearPendingPayment
<1> QED BY <1>2, <1>3

LEMMA OwnTypesStep ==
  ASSUME MarketAssumption, MarketTypeOK, [SaleNext]_vars, ~Abort
  PROVE  OwnTypes'
<1>0. OwnTypes
  BY DEF MarketTypeOK, OwnTypes
<1>1. CASE UNCHANGED vars
  BY <1>0, <1>1 DEF vars, marketVars, OwnTypes
<1>2. CASE OwnershipNext
  BY <1>0, <1>2 DEF OwnershipNext, marketVars, OwnTypes
<1>3. ASSUME NEW allowed \in BOOLEAN, SetAllowedAA(allowed) PROVE OwnTypes'
  BY <1>0, <1>3 DEF SetAllowedAA, funds, frames, OwnTypes
<1>4. ASSUME NEW a \in Account, NEW price \in Price, CreateListing(a, price)
      PROVE  OwnTypes'
  <2>1. account[a].backupOwner \in Owner
    BY <1>4 DEF CreateListing, MarketTypeOK, TypeOK, AccountState
  <2>2. [account |-> a, seller |-> account[a].backupOwner, price |-> price,
         status |-> "active", buyer |-> Zero] \in ListingRecord
    BY <2>1 DEF ListingRecord
  <2>3. listing' \in [Listing -> ListingRecord \cup {None}] /\ nextListingId' \in Nat
    BY <1>0, <1>4, <2>2 DEF CreateListing, OwnTypes
  <2> QED BY <1>0, <1>4, <2>3 DEF CreateListing, funds, frames, OwnTypes
<1>5. ASSUME NEW l \in Listing, NEW price \in Price, UpdateListingPrice(l, price)
      PROVE  OwnTypes'
  <2>1. listing[l] \in ListingRecord
    BY <1>0, <1>5 DEF UpdateListingPrice, Active, OwnTypes
  <2>2. [listing[l] EXCEPT !.price = price] \in ListingRecord
    BY <2>1 DEF ListingRecord
  <2>3. listing' \in [Listing -> ListingRecord \cup {None}]
    BY <1>0, <1>5, <2>2 DEF UpdateListingPrice, OwnTypes
  <2> QED BY <1>0, <1>5, <2>3 DEF UpdateListingPrice, funds, frames, OwnTypes
<1>6. ASSUME NEW l \in Listing, CancelListing(l) PROVE OwnTypes'
  <2>1. listing[l] \in ListingRecord
    BY <1>0, <1>6 DEF CancelListing, Active, OwnTypes
  <2>2. [listing[l] EXCEPT !.status = "cancelled"] \in ListingRecord
    BY <2>1 DEF ListingRecord
  <2>3. listing' \in [Listing -> ListingRecord \cup {None}]
    BY <1>0, <1>6, <2>2 DEF CancelListing, OwnTypes
  <2> QED BY <1>0, <1>6, <2>3 DEF CancelListing, funds, frames, OwnTypes
<1>7. ASSUME NEW l \in Listing, NEW p \in Owner, NEW amount \in Price,
             OnNEP17Payment(l, p, amount)
      PROVE  OwnTypes'
  <2>1. gas' \in [Owner \cup {AAMarket} -> Nat]
    BY <1>0, <1>7, TransferType DEF OnNEP17Payment, OwnTypes, MarketAssumption
  <2>2. /\ pending' \in [Listing -> [Owner -> Price \cup {0}]]
        /\ pendingCount' \in [Listing -> Nat]
    BY <1>0, <1>7, PendingType DEF OnNEP17Payment, OwnTypes
  <2> QED BY <1>0, <1>7, <2>1, <2>2 DEF OnNEP17Payment, frames, OwnTypes
<1>8. ASSUME NEW l \in Listing, NEW p \in Owner, RefundPendingPayment(l, p)
      PROVE  OwnTypes'
  <2>0. pending[l][p] \in Price
    BY <1>0, <1>8 DEF RefundPendingPayment, OwnTypes
  <2>1. gas' \in [Owner \cup {AAMarket} -> Nat]
    BY <1>0, <1>8, <2>0, TransferType DEF RefundPendingPayment, OwnTypes, MarketAssumption
  <2>2. /\ pending' \in [Listing -> [Owner -> Price \cup {0}]]
        /\ pendingCount' \in [Listing -> Nat]
    BY <1>0, <1>8, <2>0, PendingType DEF RefundPendingPayment, OwnTypes
  <2> QED BY <1>0, <1>8, <2>1, <2>2 DEF RefundPendingPayment, frames, OwnTypes
<1>9. ASSUME NEW l \in Listing, NEW p \in Owner, NEW o \in Owner, SettleListing(l, p, o)
      PROVE  OwnTypes'
  <2>0. listing[l] \in ListingRecord
    BY <1>0, <1>9 DEF SettleListing, Active, OwnTypes
  <2>1. listing[l].price \in Price /\ listing[l].seller \in Owner
    BY <2>0 DEF ListingRecord
  <2>2. gas' \in [Owner \cup {AAMarket} -> Nat]
    BY <1>0, <1>9, <2>1, TransferType DEF SettleListing, OwnTypes, MarketAssumption
  <2>3. /\ pending' \in [Listing -> [Owner -> Price \cup {0}]]
        /\ pendingCount' \in [Listing -> Nat]
    BY <1>0, <1>9, <2>1, PendingType DEF SettleListing, OwnTypes
  <2>4. [id |-> l, listing |-> listing[l], payer |-> p, newOwner |-> o] \in Frame
    BY <2>0 DEF Frame
  <2>5. settling' \in Seq(Frame) /\ Len(settling') <= MaxNesting
    BY <1>0, <1>9, <2>4 DEF SettleListing, OwnTypes, MarketAssumption
  <2> QED BY <1>0, <1>9, <2>2, <2>3, <2>5 DEF SettleListing, OwnTypes
<1>10. ASSUME SettleClose PROVE OwnTypes'
  <2>1. PICK frame \in Frame : frame = settling[Len(settling)]
    BY <1>0, <1>10 DEF SettleClose, Idle, OwnTypes
  <2>2. SoldListing(frame) \in ListingRecord
    BY <2>1, ListingFields DEF SoldListing, Frame, ListingRecord
  <2>3. listing' = [listing EXCEPT ![frame.id] = SoldListing(frame)]
    BY <1>10, <2>1 DEF SettleClose
  <2>4. listing' \in [Listing -> ListingRecord \cup {None}]
    BY <1>0, <2>2, <2>3 DEF OwnTypes
  <2>5. settling' \in Seq(Frame) /\ Len(settling') <= MaxNesting
    BY <1>0, <1>10 DEF SettleClose, Idle, OwnTypes, MarketAssumption
  <2> QED BY <1>0, <1>10, <2>4, <2>5 DEF SettleClose, funds, OwnTypes
<1>11. ASSUME NEW a \in Account, NEW o \in Owner, ForceCancelListing(a, o)
       PROVE  OwnTypes'
  <2>1. PICK l : l = escrow[a].listing /\ AbandonListing(a, l)
    BY <1>11 DEF ForceCancelListing
  <2>2. l \in Listing
    BY <1>11, <2>1 DEF ForceCancelListing, MarketTypeOK, TypeOK, Escrow
  <2>3. listing[l] # None => [listing[l] EXCEPT !.status = "cancelled"] \in ListingRecord
    BY <1>0, <2>2, ZenonT(40) DEF OwnTypes, ListingRecord
  <2>4. listing' \in [Listing -> ListingRecord \cup {None}]
    BY <1>0, <2>1, <2>2, <2>3 DEF AbandonListing, Active, OwnTypes
  <2> QED BY <1>0, <1>11, <2>4 DEF ForceCancelListing, funds, frames, OwnTypes
<1> QED
  BY <1>1, <1>2, <1>3, <1>4, <1>5, <1>6, <1>7, <1>8, <1>9, <1>10, <1>11
     DEF SaleNext, MarketNext

LEMMA SnapshotTyped ==
  ASSUME MarketTypeOK, EscrowByCurrentOwner
  PROVE  TypedBook(Snapshot) /\ OwnedBook(Snapshot)
BY DEF MarketTypeOK, TypeOK, EscrowByCurrentOwner, TypedBook, OwnedBook, Snapshot,
   updates, calls, markers, configs, history

(* What is put back after an abort was saved when the transaction's first   *)
(* settlement began.                                                        *)
LEMMA SavedStep ==
  ASSUME MarketTypeOK, [SaleNext]_vars
  PROVE  \/ Idle'
         \/ Idle /\ saved' = Snapshot
         \/ ~Idle /\ saved' = saved
<1>1. CASE UNCHANGED vars
  BY <1>1 DEF vars, marketVars, Idle
<1>2. CASE UNCHANGED frames
  BY <1>2 DEF frames, Idle
<1>3. CASE OwnershipNext
  BY <1>3 DEF OwnershipNext, marketVars, Idle
<1>4. ASSUME NEW l \in Listing, NEW p \in Owner, NEW o \in Owner, SettleListing(l, p, o)
      PROVE  (Idle /\ saved' = Snapshot) \/ (~Idle /\ saved' = saved)
  <2>1. saved' = IF Idle THEN Snapshot ELSE saved
    BY <1>4 DEF SettleListing
  <2> QED BY <2>1, Zenon
<1>5. ASSUME SettleClose PROVE Idle' \/ (~Idle /\ saved' = saved)
  <2>1. Len(settling) # 1 => saved' = saved
    BY <1>5 DEF SettleClose
  <2>2. Len(settling) = 1 => settling' = <<>>
    BY <1>5 DEF SettleClose, MarketTypeOK
  <2>3. ~Idle /\ (settling' = <<>> => Idle')
    BY <1>5 DEF SettleClose, Idle
  <2> QED BY <2>1, <2>2, <2>3
<1> QED
  BY <1>1, <1>2, <1>3, <1>4, <1>5 DEF SaleNext, MarketNext, SetAllowedAA, CreateListing,
     UpdateListingPrice, CancelListing, OnNEP17Payment, RefundPendingPayment, Abort,
     ForceCancelListing, Idle

LEMMA MarketTypesStep ==
  ASSUME MarketAssumption, MarketTypes, [SaleNext]_vars
  PROVE  MarketTypes'
<1>1. CASE Abort
  <2>1. TypedBook(saved) /\ OwnedBook(saved)
    BY <1>1 DEF Abort, MarketTypes
  <2>2. settling' = <<>> /\ now' = now
    BY <1>1 DEF Abort
  <2>3. settling' \in Seq(Frame) /\ Len(settling') <= MaxNesting
    BY <2>2 DEF MarketAssumption
  <2>4. MarketTypeOK'
    BY <1>1, <2>1, <2>2, <2>3 DEF Abort, TypedBook, MarketTypes, MarketTypeOK, TypeOK
  <2>5. EscrowByCurrentOwner'
    BY <1>1, <2>1 DEF Abort, OwnedBook, EscrowByCurrentOwner
  <2> QED BY <2>2, <2>4, <2>5 DEF MarketTypes, Idle
<1>2. CASE ~Abort
  <2>1. TypeOK' /\ EscrowByCurrentOwner'
    BY <1>2, MarketWalletStep, NextType, EscrowOwnerStep DEF MarketTypes, MarketTypeOK
  <2>2. OwnTypes'
    BY <1>2, OwnTypesStep DEF MarketTypes
  <2>3. MarketTypeOK'
    BY <2>1, <2>2 DEF OwnTypes, MarketTypeOK
  <2>4. ~Idle' => TypedBook(saved') /\ OwnedBook(saved')
    BY SavedStep, SnapshotTyped DEF MarketTypes
  <2> QED BY <2>1, <2>3, <2>4 DEF MarketTypes
<1> QED BY <1>1, <1>2

LEMMA MarketTypesInit ==
  ASSUME MarketAssumption, MarketInit
  PROVE  MarketTypes
<1>1. TypeOK /\ EscrowByCurrentOwner
  BY InitType DEF MarketInit, Init, EscrowByCurrentOwner
<1>2. gas \in [Owner \cup {AAMarket} -> Nat]
  BY DEF MarketInit, MarketAssumption
<1>3. settling \in Seq(Frame) /\ Len(settling) <= MaxNesting /\ Idle
  BY DEF MarketInit, MarketAssumption, Idle
<1>4. /\ listing \in [Listing -> ListingRecord \cup {None}]
      /\ pending \in [Listing -> [Owner -> Price \cup {0}]]
      /\ pendingCount \in [Listing -> Nat]
      /\ nextListingId \in Nat /\ allowedAA \in BOOLEAN
  BY DEF MarketInit
<1> QED BY <1>1, <1>2, <1>3, <1>4 DEF MarketTypes, MarketTypeOK

-----------------------------------------------------------------------------
(* Listings and escrows *)

(* What is true of listings and escrows at any moment, in transactions too. *)
Listed ==
  /\ \A l \in Listing : listing[l] # None => l < nextListingId
  /\ \A l \in Listing : Active(l) =>
       /\ escrow[listing[l].account] # None
       /\ escrow[listing[l].account].market = AAMarket
       /\ escrow[listing[l].account].listing = l
       /\ listing[l].seller = account[listing[l].account].backupOwner
  /\ \A a \in Account : escrow[a] # None /\ escrow[a].market = AAMarket =>
       Active(escrow[a].listing) /\ listing[escrow[a].listing].account = a

(* The same of what an abort puts back.                                     *)
ActiveIn(s, l) == s.listing[l] # None /\ s.listing[l].status = "active"
ListedBook(s) ==
  /\ \A l \in Listing : s.listing[l] # None => l < s.nextListingId
  /\ \A l \in Listing : ActiveIn(s, l) =>
       /\ s.escrow[s.listing[l].account] # None
       /\ s.escrow[s.listing[l].account].market = AAMarket
       /\ s.escrow[s.listing[l].account].listing = l
       /\ s.listing[l].seller = s.account[s.listing[l].account].backupOwner
  /\ \A a \in Account : s.escrow[a] # None /\ s.escrow[a].market = AAMarket =>
       ActiveIn(s, s.escrow[a].listing) /\ s.listing[s.escrow[a].listing].account = a

LEMMA SnapshotListed == Listed => ListedBook(Snapshot)
BY DEF Listed, ListedBook, Active, ActiveIn, Snapshot

LEMMA AbortListed == ListedBook(saved) /\ Abort => Listed'
<1> SUFFICES ASSUME ListedBook(saved), Abort PROVE Listed'
  OBVIOUS
<1>1. /\ account' = saved.account /\ escrow' = saved.escrow
      /\ listing' = saved.listing /\ nextListingId' = saved.nextListingId
  BY DEF Abort
<1>2. \A l : Active(l)' = ActiveIn(saved, l)
  BY <1>1 DEF Active, ActiveIn
<1> QED
  BY ONLY <1>1, <1>2, ListedBook(saved) DEF Listed, ListedBook

(* Steps that touch neither the listings nor what an escrow names.          *)
LEMMA ListedUntouched ==
  ASSUME MarketTypeOK, Listed, listing' = listing, nextListingId' = nextListingId,
         escrow' = escrow,
         \A a \in Account : escrow[a] # None =>
           account'[a].backupOwner = account[a].backupOwner
  PROVE  Listed'
<1>1. \A l \in Listing : Active(l) => listing[l].account \in Account
  BY DEF MarketTypeOK, Active, ListingRecord
<1>2. \A l : Active(l)' <=> Active(l)
  BY DEF Active
<1> HIDE DEF Active
<1> QED BY <1>1, <1>2 DEF Listed

(* An account leaves escrow when its listing is closed.                     *)
LEMMA ListedClosed ==
  ASSUME MarketTypeOK, Listed, NEW a \in Account, NEW l \in Listing, NEW r \in ListingRecord,
         listing[l] # None, Active(l) => listing[l].account = a, r.status # "active",
         listing' = [listing EXCEPT ![l] = r] \/ (~Active(l) /\ listing' = listing),
         nextListingId' = nextListingId,
         escrow[a] # None, escrow[a].market = AAMarket => escrow[a].listing = l,
         escrow' = [escrow EXCEPT ![a] = None],
         \A b \in Account \ {a} : account'[b] = account[b]
  PROVE  Listed'
<1>1. \A k \in Listing : Active(k) => listing[k].account \in Account
  BY DEF MarketTypeOK, Active, ListingRecord
<1>2. \A k \in Listing : Active(k)' => k # l /\ Active(k) /\ listing'[k] = listing[k]
  BY DEF Active, MarketTypeOK
<1>3. \A k \in Listing \ {l} : Active(k) => Active(k)' /\ listing'[k] = listing[k]
  BY DEF Active, MarketTypeOK
<1>4. /\ escrow'[a] = None
      /\ \A b \in Account \ {a} : escrow'[b] = escrow[b]
  BY DEF MarketTypeOK, TypeOK
<1>5. \A k \in Listing : listing'[k] # None => listing[k] # None
  BY DEF MarketTypeOK
<1>6. \A k \in Listing : Active(k) /\ listing[k].account = a => k = l
  BY DEF Listed
<1>7. \A b \in Account : escrow[b] # None => escrow[b].listing \in Listing
  BY DEF MarketTypeOK, TypeOK, Escrow
<1>8. \A k \in Listing : listing'[k] # None => k < nextListingId'
  BY <1>5 DEF Listed
<1> HIDE DEF Active
<1>9. ASSUME NEW k \in Listing, Active(k)'
      PROVE  /\ escrow'[listing'[k].account] # None
             /\ escrow'[listing'[k].account].market = AAMarket
             /\ escrow'[listing'[k].account].listing = k
             /\ listing'[k].seller = account'[listing'[k].account].backupOwner
  <2>1. k # l /\ Active(k) /\ listing'[k] = listing[k]
    BY <1>2, <1>9
  <2>2. listing[k].account \in Account \ {a}
    BY <1>1, <1>6, <2>1
  <2> QED BY <1>4, <2>1, <2>2 DEF Listed
<1>10. ASSUME NEW b \in Account, escrow'[b] # None, escrow'[b].market = AAMarket,
              NEW k, k = escrow'[b].listing
       PROVE  Active(k)' /\ listing'[k].account = b
  <2>1. b # a /\ escrow'[b] = escrow[b]
    BY <1>4, <1>10
  <2>2. Active(k) /\ listing[k].account = b
    BY <1>10, <2>1 DEF Listed
  <2>3. k \in Listing \ {l}
    BY <1>7, <1>10, <2>1, <2>2
  <2> QED BY <1>3, <2>2, <2>3
<1> QED BY <1>8, <1>9, <1>10 DEF Listed, Active

LEMMA ListedCreated ==
  ASSUME NoListingAssumption, MarketAssumption, MarketTypeOK, Listed,
         NEW a \in Account, NEW price \in Price, CreateListing(a, price)
  PROVE  Listed'
<1>1. PICK l \in Listing : l = nextListingId
  BY DEF CreateListing
<1>2. PICK new : new = [account |-> a, seller |-> account[a].backupOwner,
                        price |-> price, status |-> "active", buyer |-> Zero]
  OBVIOUS
<1>3. PICK held : held = [market |-> AAMarket, listing |-> l,
                          by |-> account[a].backupOwner]
  OBVIOUS
<1>4. account[a].backupOwner \in Owner
  BY DEF CreateListing, MarketTypeOK, TypeOK, AccountState
<1>5. /\ listing' = [listing EXCEPT ![l] = new] /\ nextListingId' = l + 1
      /\ escrow[a] = None /\ escrow' = [escrow EXCEPT ![a] = held]
      /\ account' = account
  BY <1>1, <1>2, <1>3 DEF CreateListing, EnterMarketEscrow, OwnerConfigures,
     AssertNoMarketEscrow
<1>6. /\ new # None /\ new.account = a /\ new.seller = account[a].backupOwner
      /\ new.status = "active"
  BY <1>2, <1>4 DEF NoListingAssumption, ListingRecord
<1>7. held # None /\ held.market = AAMarket /\ held.listing = l
  <2>1. held \in Escrow
    BY <1>3, <1>4 DEF Escrow, MarketAssumption
  <2> QED BY <1>3, <2>1, NoneAssumption
<1>8. /\ listing'[l] = new /\ \A k \in Listing \ {l} : listing'[k] = listing[k]
      /\ escrow'[a] = held /\ \A b \in Account \ {a} : escrow'[b] = escrow[b]
  BY <1>5 DEF MarketTypeOK, TypeOK
<1>9. \A k \in Listing : listing[k] # None => k < l
  BY <1>1 DEF Listed
<1>10. \A k \in Listing : Active(k) => listing[k].account \in Account \ {a}
  <2>1. \A k \in Listing : Active(k) => listing[k].account \in Account
    BY DEF MarketTypeOK, Active, ListingRecord
  <2>2. \A k \in Listing : Active(k) => escrow[listing[k].account] # None
    BY DEF Listed
  <2> QED BY <1>5, <2>1, <2>2
<1>11. \A k \in Listing : listing'[k] # None => k < nextListingId'
  BY <1>5, <1>8, <1>9 DEF MarketAssumption
<1>12. ASSUME NEW k \in Listing, Active(k)'
       PROVE  /\ escrow'[listing'[k].account] # None
              /\ escrow'[listing'[k].account].market = AAMarket
              /\ escrow'[listing'[k].account].listing = k
              /\ listing'[k].seller = account'[listing'[k].account].backupOwner
  <2>1. CASE k = l
    BY <1>5, <1>6, <1>7, <1>8, <2>1
  <2>2. CASE k # l
    <3>1. listing'[k] = listing[k] /\ Active(k)
      BY <1>8, <1>12, <2>2 DEF Active
    <3>2. listing[k].account \in Account \ {a}
      BY <1>10, <3>1
    <3> QED BY <1>5, <1>8, <3>1, <3>2 DEF Listed
  <2> QED BY <2>1, <2>2
<1>13. ASSUME NEW b \in Account, escrow'[b] # None, escrow'[b].market = AAMarket,
              NEW k, k = escrow'[b].listing
       PROVE  Active(k)' /\ listing'[k].account = b
  <2>1. CASE b = a
    BY <1>6, <1>7, <1>8, <1>13, <2>1 DEF Active
  <2>2. CASE b # a
    <3>1. escrow'[b] = escrow[b]
      BY <1>8, <2>2
    <3>2. Active(k) /\ listing[k].account = b /\ k \in Listing
      <4>1. escrow[b] # None /\ escrow[b].market = AAMarket /\ k = escrow[b].listing
        BY <1>13, <3>1
      <4>2. escrow[b].listing \in Listing
        BY <4>1 DEF MarketTypeOK, TypeOK, Escrow
      <4> QED BY <4>1, <4>2 DEF Listed
    <3>3. k # l
      <4>1. ~(l < l)
        BY DEF MarketAssumption
      <4>2. k < l
        BY <1>9, <3>2 DEF Active
      <4> QED BY <4>1, <4>2
    <3> QED BY <1>8, <3>2, <3>3 DEF Active
  <2> QED BY <2>1, <2>2
<1> QED BY <1>11, <1>12, <1>13 DEF Listed, Active

LEMMA ListedStep ==
  ASSUME MarketAssumption, NoListingAssumption, MarketTypes, Listed, [SaleNext]_vars, ~Abort
  PROVE  Listed'
<1>0. MarketTypeOK /\ EscrowByCurrentOwner
  BY DEF MarketTypes
<1>1. CASE UNCHANGED <<account, escrow, listing, nextListingId>>
  BY <1>0, <1>1, ListedUntouched
<1>2. CASE OwnershipNext
  <2>1. listing' = listing /\ nextListingId' = nextListingId
    BY <1>2 DEF OwnershipNext, marketVars
  <2>2. escrow' = escrow
    BY <1>2 DEF OwnershipNext, Tick, RegisterAccounts, RegistrarNext,
       RegisterPlatformAccount, RegisterAccountCore, RotatePlatformAccountOwner,
       InitiateMarketEscrowCancel, escrows
  <2>3. ASSUME NEW a \in Account, escrow[a] # None PROVE account'[a] = account[a]
    <3>1. account[a] # None
      BY <1>0, <2>3 DEF EscrowByCurrentOwner
    <3>2. ASSUME NEW S, NEW v, NEW o, RegisterAccountCore(S, v, o)
          PROVE  account'[a] = account[a]
      BY <3>1, <3>2 DEF RegisterAccountCore
    <3>3. ASSUME NEW b \in Account, NEW o \in Owner, RotatePlatformAccountOwner(b, o)
          PROVE  account'[a] = account[a]
      BY <1>0, <2>3, <3>3
         DEF RotatePlatformAccountOwner, AssertNoMarketEscrow, MarketTypeOK, TypeOK
    <3> QED
      BY <1>2, <3>2, <3>3 DEF OwnershipNext, Tick, RegisterAccounts, RegistrarNext,
         RegisterPlatformAccount, InitiateMarketEscrowCancel
  <2> QED BY <1>0, <2>1, <2>2, <2>3, ListedUntouched
<1>3. ASSUME NEW a \in Account, NEW price \in Price, CreateListing(a, price)
      PROVE  Listed'
  BY <1>0, <1>3, ListedCreated
<1>4. ASSUME NEW l \in Listing, NEW price \in Price, UpdateListingPrice(l, price)
      PROVE  Listed'
  <2>1. /\ listing' = [listing EXCEPT ![l].price = price] /\ listing[l] \in ListingRecord
        /\ UNCHANGED <<account, escrow, nextListingId>> /\ Active(l)
    BY <1>0, <1>4 DEF UpdateListingPrice, escrowVars, MarketTypeOK, Active
  <2>2. PICK new : new = [listing[l] EXCEPT !.price = price]
    OBVIOUS
  <2>3. new.account = listing[l].account /\ new.seller = listing[l].seller
        /\ new.status = listing[l].status /\ new # None
    BY <2>1, <2>2 DEF ListingRecord, NoListingAssumption
  <2>4. listing'[l] = new /\ \A k \in Listing \ {l} : listing'[k] = listing[k]
    BY <1>0, <2>1, <2>2 DEF MarketTypeOK
  <2>5. \A k \in Listing : /\ Active(k)' <=> Active(k)
                           /\ listing'[k] # None <=> listing[k] # None
                           /\ Active(k) => listing'[k].account = listing[k].account
                           /\ Active(k) => listing'[k].seller = listing[k].seller
    BY <2>1, <2>3, <2>4 DEF Active
  <2>6. \A a \in Account : escrow[a] # None => escrow[a].listing \in Listing
    BY <1>0 DEF MarketTypeOK, TypeOK, Escrow
  <2>7. ASSUME NEW a \in Account, escrow[a] # None, escrow[a].market = AAMarket,
               NEW k, k = escrow[a].listing
        PROVE  Active(k)' /\ listing'[k].account = a
    BY <2>5, <2>6, <2>7 DEF Listed
  <2>8. ASSUME NEW k \in Listing, Active(k)'
        PROVE  /\ escrow[listing'[k].account] # None
               /\ escrow[listing'[k].account].market = AAMarket
               /\ escrow[listing'[k].account].listing = k
               /\ listing'[k].seller = account[listing'[k].account].backupOwner
    BY <2>5, <2>8 DEF Listed
  <2>9. \A k \in Listing : listing'[k] # None => k < nextListingId'
    BY <2>1, <2>5 DEF Listed
  <2> QED BY <2>1, <2>7, <2>8, <2>9 DEF Listed, Active
<1>5. ASSUME NEW l \in Listing, CancelListing(l) PROVE Listed'
  <2>1. PICK a : a = listing[l].account
    OBVIOUS
  <2>2. PICK r : r = [listing[l] EXCEPT !.status = "cancelled"]
    OBVIOUS
  <2>3. listing[l] \in ListingRecord /\ Active(l)
    BY <1>0, <1>5 DEF CancelListing, Active, MarketTypeOK
  <2>4. a \in Account /\ r \in ListingRecord /\ r.status # "active"
    BY <2>1, <2>2, <2>3 DEF ListingRecord
  <2>5. /\ listing' = [listing EXCEPT ![l] = r] /\ nextListingId' = nextListingId
        /\ escrow[a] # None /\ escrow[a].listing = l
        /\ escrow' = [escrow EXCEPT ![a] = None] /\ account' = account
    BY <1>5, <2>1, <2>2 DEF CancelListing, CancelMarketEscrow, AssertEscrowMarket,
       ClearMarketEscrow
  <2> QED BY <1>0, <2>1, <2>3, <2>4, <2>5, ListedClosed DEF Active
<1>6. ASSUME SettleClose PROVE Listed'
  <2>1. PICK frame \in Frame : frame = settling[Len(settling)]
    BY <1>0, <1>6 DEF SettleClose, Idle, MarketTypeOK
  <2>2. PICK l \in Listing, a \in Account : l = frame.id /\ a = frame.listing.account
    BY <2>1 DEF Frame, ListingRecord
  <2>3. PICK r : r = SoldListing(frame)
    OBVIOUS
  <2>4. r \in ListingRecord /\ r.status # "active"
    BY <2>1, <2>3, ListingFields DEF SoldListing, Frame, ListingRecord
  <2>5. /\ listing' = [listing EXCEPT ![l] = r] /\ nextListingId' = nextListingId
        /\ escrow[a] # None /\ escrow[a].market = AAMarket /\ escrow[a].listing = l
        /\ escrow' = [escrow EXCEPT ![a] = None]
        /\ \A b \in Account \ {a} : account'[b] = account[b]
    BY <1>0, <1>6, <2>1, <2>2, <2>3 DEF SettleClose, SettleMarketEscrow,
       AssertEscrowMarket, ClearMarketEscrow, MarketTypeOK, TypeOK
  <2>6. Active(l) /\ listing[l].account = a
    BY <2>5 DEF Listed
  <2> QED BY <1>0, <2>4, <2>5, <2>6, ListedClosed DEF Active
<1>7. ASSUME NEW a \in Account, NEW o \in Owner, ForceCancelListing(a, o)
      PROVE  Listed'
  <2>1. PICK l : l = escrow[a].listing
    OBVIOUS
  <2>2. PICK r : r = [listing[l] EXCEPT !.status = "cancelled"]
    OBVIOUS
  <2>3. escrow[a] # None /\ escrow[a].market = AAMarket /\ l \in Listing
    BY <1>0, <1>7, <2>1 DEF ForceCancelListing, MarketTypeOK, TypeOK, Escrow
  <2>4. Active(l) /\ listing[l].account = a /\ listing[l] \in ListingRecord
    BY <1>0, <2>1, <2>3 DEF Listed, MarketTypeOK, Active
  <2>5. r \in ListingRecord /\ r.status # "active"
    BY <2>2, <2>4 DEF ListingRecord
  <2>6. /\ listing' = [listing EXCEPT ![l] = r] /\ nextListingId' = nextListingId
        /\ escrow' = [escrow EXCEPT ![a] = None] /\ account' = account
    BY <1>7, <2>1, <2>2, <2>4 DEF ForceCancelListing, AbandonListing,
       ForceCancelMarketEscrow, ClearMarketEscrow
  <2> QED BY <1>0, <2>1, <2>3, <2>4, <2>5, <2>6, ListedClosed DEF Active
<1>8. UNCHANGED vars => Listed'
  BY <1>1 DEF vars, walletVars, marketVars
<1>9. ASSUME \/ \E allowed \in BOOLEAN : SetAllowedAA(allowed)
             \/ \E l \in Listing, p \in Owner :
                  \/ \E amount \in Price : OnNEP17Payment(l, p, amount)
                  \/ RefundPendingPayment(l, p)
                  \/ \E o \in Owner : SettleListing(l, p, o)
      PROVE  Listed'
  BY <1>1, <1>9, ZenonT(90) DEF SetAllowedAA, OnNEP17Payment, RefundPendingPayment, SettleListing,
     escrowVars
<1> QED
  BY <1>2, <1>3, <1>4, <1>5, <1>6, <1>7, <1>8, <1>9 DEF SaleNext, MarketNext

-----------------------------------------------------------------------------
(* Deposits *)

(* What is true of deposits at any moment: they are counted, at the price   *)
(* of an open listing, and for no listing that was not created.             *)
Counted ==
  /\ \A l \in Listing, p \in Owner : pending[l][p] > 0 => listing[l] # None
  /\ PendingCountExact
  /\ PaymentsMatchPrice

CountedBook(s) ==
  \A l \in Listing :
    /\ \A p \in Owner : s.pending[l][p] > 0 => s.listing[l] # None
    /\ s.pendingCount[l] = Cardinality({p \in Owner : s.pending[l][p] > 0})
    /\ \A p \in Owner : ActiveIn(s, l) /\ s.pending[l][p] > 0 =>
         s.pending[l][p] = s.listing[l].price

LEMMA SnapshotCounted == Counted => CountedBook(Snapshot)
BY DEF Counted, CountedBook, PendingCountExact, PaymentsMatchPrice, Active, ActiveIn,
   Snapshot

LEMMA AbortCounted ==
  ASSUME CountedBook(saved), Abort
  PROVE  Counted'
<1>1. /\ pending' = saved.pending /\ pendingCount' = saved.pendingCount
      /\ listing' = saved.listing
  BY DEF Abort
<1>2. \A l \in Listing, p \in Owner : pending'[l][p] > 0 => listing'[l] # None
  BY <1>1 DEF CountedBook
<1>3. \A l \in Listing :
         pendingCount'[l] = Cardinality({p \in Owner : pending'[l][p] > 0})
  BY <1>1, Zenon DEF CountedBook
<1>4. \A l \in Listing, p \in Owner :
         Active(l)' /\ pending'[l][p] > 0 => pending'[l][p] = listing'[l].price
  BY <1>1 DEF CountedBook, Active, ActiveIn
<1> QED BY <1>2, <1>3, <1>4 DEF Counted, PendingCountExact, PaymentsMatchPrice

(* Deposits stay, and so do the listings they are for.                      *)
LEMMA CountedUntouched ==
  ASSUME Counted, pending' = pending, pendingCount' = pendingCount,
         \A l \in Listing :
           /\ listing[l] # None => listing'[l] # None
           /\ Active(l)' =>
                \/ Active(l) /\ listing'[l].price = listing[l].price
                \/ \A p \in Owner : ~(pending[l][p] > 0)
  PROVE  Counted'
<1>1. \A l \in Listing, p \in Owner : pending'[l][p] > 0 => listing'[l] # None
  BY DEF Counted
<1>2. PendingCountExact'
  BY DEF Counted, PendingCountExact
<1>3. PaymentsMatchPrice'
  BY DEF Counted, PaymentsMatchPrice
<1> QED BY <1>1, <1>2, <1>3 DEF Counted

(* One deposit is made or taken out.                                        *)
LEMMA CountedPayment ==
  ASSUME MarketAssumption, MarketTypeOK, Counted, listing' = listing,
         NEW l \in Listing, NEW p \in Owner,
         \/ /\ \E amount \in Price : PutPendingPayment(l, p, amount) /\ amount = listing[l].price
            /\ pending[l][p] = 0 /\ Active(l)
         \/ ClearPendingPayment(l, p) /\ pending[l][p] > 0
  PROVE  Counted'
<1> DEFINE Paid == {q \in Owner : pending[l][q] > 0}
<1>0. pending \in [Listing -> [Owner -> Price \cup {0}]] /\ pendingCount \in [Listing -> Nat]
  BY DEF MarketTypeOK
<1>1. PICK x \in Price \cup {0} : pending' = [pending EXCEPT ![l][p] = x]
  BY DEF PutPendingPayment, ClearPendingPayment
<1>2. /\ \A k \in Listing \ {l} : pending'[k] = pending[k]
      /\ \A q \in Owner \ {p} : pending'[l][q] = pending[l][q]
      /\ pending'[l][p] = x
  BY <1>1 DEF MarketTypeOK
<1>3. \A k \in Listing \ {l} : pendingCount'[k] = pendingCount[k]
  BY DEF PutPendingPayment, ClearPendingPayment, MarketTypeOK
<1>4. IsFiniteSet(Paid) /\ pendingCount[l] = Cardinality(Paid)
  BY FS_Subset DEF MarketAssumption, Counted, PendingCountExact
<1>5. \A k \in Listing : k # l =>
        pendingCount'[k] = Cardinality({q \in Owner : pending'[k][q] > 0})
  <2>1. ASSUME NEW k \in Listing, k # l
        PROVE  pendingCount'[k] = Cardinality({q \in Owner : pending'[k][q] > 0})
    <3>1. pendingCount[k] = Cardinality({q \in Owner : pending[k][q] > 0})
      BY Zenon DEF Counted, PendingCountExact
    <3>2. pending'[k] = pending[k] /\ pendingCount'[k] = pendingCount[k]
      BY <1>2, <1>3, <2>1
    <3>3. {q \in Owner : pending'[k][q] > 0} = {q \in Owner : pending[k][q] > 0}
      BY ONLY <3>2
    <3> QED BY ONLY <3>1, <3>2, <3>3, Zenon
  <2> QED BY <2>1
<1>6. CASE PutPendingPayment(l, p, x) /\ x = listing[l].price /\ x \in Price
            /\ pending[l][p] = 0 /\ Active(l)
  <2>1. {q \in Owner : pending'[l][q] > 0} = Paid \cup {p} /\ p \notin Paid
    <3>1. x > 0
      BY <1>6 DEF MarketAssumption
    <3>2. \A q \in Owner : pending'[l][q] > 0 <=> q \in Paid \/ q = p
      BY <1>2, <3>1
    <3>3. p \notin Paid
      BY <1>6
    <3> QED BY <3>2, <3>3
  <2>2. pendingCount'[l] = pendingCount[l] + 1
    BY <1>6 DEF PutPendingPayment, MarketTypeOK
  <2> HIDE DEF Paid
  <2>3. pendingCount'[l] = Cardinality({q \in Owner : pending'[l][q] > 0})
    BY <1>4, <2>1, <2>2, FS_AddElement
  <2>4. PendingCountExact'
    BY ONLY <1>5, <2>3, Zenon DEF PendingCountExact
  <2>5. \A k \in Listing, q \in Owner : pending'[k][q] > 0 =>
           (k = l /\ q = p) \/ (pending[k][q] > 0 /\ pending'[k][q] = pending[k][q])
    BY <1>2
  <2>6. \A k \in Listing, q \in Owner : pending'[k][q] > 0 => listing'[k] # None
    BY <1>6, <2>5 DEF Counted, Active
  <2>7. PaymentsMatchPrice'
    BY <1>2, <1>6, <2>5 DEF Counted, PaymentsMatchPrice, Active
  <2> QED BY <2>4, <2>6, <2>7 DEF Counted
<1>7. CASE ClearPendingPayment(l, p) /\ pending[l][p] > 0
  <2>0. x = 0
    <3>1. pending' = [pending EXCEPT ![l][p] = 0]
      BY <1>7 DEF ClearPendingPayment
    <3>2. pending'[l][p] = 0
      BY <1>0, <3>1
    <3> QED BY <1>2, <3>2
  <2>1. {q \in Owner : pending'[l][q] > 0} = Paid \ {p} /\ p \in Paid
    BY <1>2, <1>7, <2>0
  <2>2. pendingCount'[l] = IF pendingCount[l] <= 1 THEN 0 ELSE pendingCount[l] - 1
    BY <1>7 DEF ClearPendingPayment, MarketTypeOK
  <2> HIDE DEF Paid
  <2>3. Cardinality(Paid) \in Nat \ {0}
    BY <1>4, <2>1, FS_CardinalityType, FS_EmptySet
  <2>4. Cardinality(Paid \ {p}) = Cardinality(Paid) - 1
    BY <1>4, <2>1, FS_RemoveElement
  <2>5. pendingCount'[l] = Cardinality({q \in Owner : pending'[l][q] > 0})
    <3>1. PICK c \in Nat \ {0} : c = Cardinality(Paid)
      BY <2>3
    <3>2. pendingCount'[l] = c - 1
      BY <1>4, <2>2, <3>1
    <3> QED BY <2>1, <2>4, <3>1, <3>2
  <2>6. PendingCountExact'
    BY ONLY <1>5, <2>5, Zenon DEF PendingCountExact
  <2>7. \A k \in Listing, q \in Owner : pending'[k][q] > 0 => pending[k][q] = pending'[k][q]
    BY <1>2, <2>0
  <2>8. \A k \in Listing, q \in Owner : pending'[k][q] > 0 => listing'[k] # None
    BY <2>7 DEF Counted
  <2>9. PaymentsMatchPrice'
    BY <2>7 DEF Counted, PaymentsMatchPrice, Active
  <2> QED BY <2>6, <2>8, <2>9 DEF Counted
<1> QED
  <2>1. CASE ClearPendingPayment(l, p) /\ pending[l][p] > 0
    BY <1>7, <2>1
  <2>2. CASE /\ \E amount \in Price : PutPendingPayment(l, p, amount) /\ amount = listing[l].price
             /\ pending[l][p] = 0 /\ Active(l)
    <3>1. PICK amount \in Price : PutPendingPayment(l, p, amount) /\ amount = listing[l].price
      BY <2>2
    <3>2. amount = x
      <4>1. pending'[l][p] = amount
        <5>1. pending' = [pending EXCEPT ![l][p] = amount]
          BY <3>1 DEF PutPendingPayment
        <5> QED BY ONLY <1>0, <5>1, l \in Listing, p \in Owner
      <4> QED BY ONLY <1>2, <4>1
    <3> QED BY <1>6, <2>2, <3>1, <3>2, Zenon
  <2> QED BY <2>1, <2>2


LEMMA NoDeposits ==
  ASSUME MarketAssumption, PendingCountExact, NEW l \in Listing, NoPendingPayment(l)
  PROVE  \A p \in Owner : ~(pending[l][p] > 0)
<1> DEFINE Paid == {q \in Owner : pending[l][q] > 0}
<1>1. IsFiniteSet(Paid) /\ Cardinality(Paid) = 0
  BY FS_Subset DEF MarketAssumption, PendingCountExact, NoPendingPayment
<1>2. Paid = {}
  <2> HIDE DEF Paid
  <2> QED BY <1>1, FS_EmptySet
<1> QED BY <1>2

LEMMA CountedStep ==
  ASSUME MarketAssumption, NoListingAssumption, MarketTypes, Listed, Counted,
         [SaleNext]_vars, ~Abort
  PROVE  Counted'
<1>0. MarketTypeOK
  BY DEF MarketTypes
<1>1. CASE UNCHANGED <<pending, pendingCount, listing>>
  <2>1. \A l \in Listing : (listing[l] # None => listing'[l] # None)
                        /\ (Active(l)' => Active(l) /\ listing'[l].price = listing[l].price)
    BY <1>1 DEF Active
  <2> QED BY <1>1, <2>1, CountedUntouched
<1>2. ASSUME NEW a \in Account, NEW price \in Price, CreateListing(a, price)
      PROVE  Counted'
  <2>1. PICK l \in Listing : l = nextListingId
    BY <1>2 DEF CreateListing
  <2>2. listing[l] = None
    <3>1. l \in Nat /\ (listing[l] # None => l < l)
      BY <2>1 DEF Listed, MarketAssumption
    <3> QED BY <3>1
  <2>3. \A p \in Owner : ~(pending[l][p] > 0)
    BY <2>2 DEF Counted
  <2>4. PICK new : new = [account |-> a, seller |-> account[a].backupOwner,
                          price |-> price, status |-> "active", buyer |-> Zero]
    OBVIOUS
  <2>5. /\ listing' = [listing EXCEPT ![l] = new]
        /\ UNCHANGED <<pending, pendingCount>>
    BY <1>2, <2>1, <2>4 DEF CreateListing, funds
  <2>6. account[a].backupOwner \in Owner
    BY <1>0, <1>2 DEF CreateListing, MarketTypeOK, TypeOK, AccountState
  <2>7. new # None
    BY <2>4, <2>6 DEF NoListingAssumption, ListingRecord
  <2>8. listing'[l] # None /\ \A k \in Listing \ {l} : listing'[k] = listing[k]
    BY <1>0, <2>5, <2>7 DEF MarketTypeOK
  <2> QED BY <2>3, <2>5, <2>8, CountedUntouched DEF Active
<1>3. ASSUME NEW l \in Listing, NEW price \in Price, UpdateListingPrice(l, price)
      PROVE  Counted'
  <2>1. \A p \in Owner : ~(pending[l][p] > 0)
    BY <1>3, NoDeposits DEF UpdateListingPrice, Counted
  <2>2. listing[l] \in ListingRecord
    BY <1>0, <1>3 DEF UpdateListingPrice, Active, MarketTypeOK
  <2>3. [listing[l] EXCEPT !.price = price] # None
    <3>1. [listing[l] EXCEPT !.price = price] \in ListingRecord
      BY <2>2 DEF ListingRecord
    <3> QED BY <3>1 DEF NoListingAssumption
  <2>4. listing'[l] # None /\ \A k \in Listing \ {l} : listing'[k] = listing[k]
    BY <1>0, <1>3, <2>3 DEF UpdateListingPrice, MarketTypeOK
  <2>5. UNCHANGED <<pending, pendingCount>>
    BY <1>3 DEF UpdateListingPrice, funds
  <2> QED BY <2>1, <2>4, <2>5, CountedUntouched DEF Active
<1>4. ASSUME NEW l \in Listing, NEW r \in ListingRecord, r.status # "active",
             listing' = [listing EXCEPT ![l] = r], UNCHANGED <<pending, pendingCount>>
      PROVE  Counted'
  <2>1. r # None
    BY DEF NoListingAssumption
  <2>2. listing'[l] = r /\ \A k \in Listing \ {l} : listing'[k] = listing[k]
    BY <1>0, <1>4 DEF MarketTypeOK
  <2> QED BY <1>4, <2>1, <2>2, CountedUntouched DEF Active
<1>5. ASSUME NEW l \in Listing, CancelListing(l) PROVE Counted'
  <2>1. listing[l] \in ListingRecord
    BY <1>0, <1>5 DEF CancelListing, Active, MarketTypeOK
  <2>2. PICK r \in ListingRecord : r = [listing[l] EXCEPT !.status = "cancelled"]
    BY <2>1 DEF ListingRecord
  <2>3. r.status # "active"
    BY <2>1, <2>2 DEF ListingRecord
  <2> QED BY <1>4, <1>5, <2>2, <2>3 DEF CancelListing, funds
<1>6. ASSUME SettleClose PROVE Counted'
  <2>1. PICK frame \in Frame : frame = settling[Len(settling)]
    BY <1>0, <1>6 DEF SettleClose, Idle, MarketTypeOK
  <2>2. frame.id \in Listing
    BY <2>1 DEF Frame
  <2>3. PICK r : r = SoldListing(frame)
    OBVIOUS
  <2>4. r \in ListingRecord /\ r.status # "active"
    BY <2>1, <2>3, ListingFields DEF SoldListing, Frame, ListingRecord
  <2> QED BY <1>4, <1>6, <2>1, <2>2, <2>3, <2>4 DEF SettleClose, funds
<1>7. ASSUME NEW a \in Account, NEW o \in Owner, ForceCancelListing(a, o)
      PROVE  Counted'
  <2>1. PICK l : l = escrow[a].listing
    OBVIOUS
  <2>2. AbandonListing(a, l) /\ UNCHANGED <<pending, pendingCount>>
    BY <1>7, <2>1 DEF ForceCancelListing, funds
  <2>3. CASE listing' = listing
    BY <1>1, <2>2, <2>3
  <2>4. CASE Active(l) /\ listing' = [listing EXCEPT ![l].status = "cancelled"]
    <3>1. l \in Listing
      BY <1>0, <1>7, <2>1 DEF ForceCancelListing, MarketTypeOK, TypeOK, Escrow
    <3>2. listing[l] \in ListingRecord
      BY <1>0, <2>4, <3>1 DEF Active, MarketTypeOK
    <3>3. PICK r \in ListingRecord : r = [listing[l] EXCEPT !.status = "cancelled"]
      BY <3>2 DEF ListingRecord
    <3>4. r.status # "active"
      BY <3>2, <3>3 DEF ListingRecord
    <3> QED BY <1>4, <2>2, <2>4, <3>1, <3>3, <3>4
  <2> QED BY <2>2, <2>3, <2>4 DEF AbandonListing
<1>8. ASSUME NEW l \in Listing, NEW p \in Owner, NEW amount \in Price,
             OnNEP17Payment(l, p, amount)
      PROVE  Counted'
  BY <1>0, <1>8, CountedPayment DEF OnNEP17Payment, AcceptsPayment
<1>9. ASSUME NEW l \in Listing, NEW p \in Owner,
             \/ RefundPendingPayment(l, p)
             \/ \E o \in Owner : SettleListing(l, p, o)
      PROVE  Counted'
  <2>1. ClearPendingPayment(l, p) /\ listing' = listing
    BY <1>9 DEF RefundPendingPayment, SettleListing
  <2>2. pending[l][p] > 0
    <3>1. CASE RefundPendingPayment(l, p)
      BY <3>1 DEF RefundPendingPayment
    <3>2. CASE \E o \in Owner : SettleListing(l, p, o)
      <4>1. listing[l] \in ListingRecord /\ pending[l][p] = listing[l].price
        BY <1>0, <3>2 DEF SettleListing, Active, MarketTypeOK
      <4>2. listing[l].price \in Nat \ {0}
        BY <4>1 DEF ListingRecord, MarketAssumption
      <4> QED BY <4>1, <4>2
    <3> QED BY <1>9, <3>1, <3>2
  <2> QED BY <1>0, <2>1, <2>2, CountedPayment
<1>10. CASE UNCHANGED vars
  BY <1>1, <1>10 DEF vars, marketVars
<1>11. CASE OwnershipNext
  BY <1>1, <1>11 DEF OwnershipNext, marketVars
<1>12. CASE \E allowed \in BOOLEAN : SetAllowedAA(allowed)
  BY <1>1, <1>12 DEF SetAllowedAA, funds
<1> QED
  BY <1>2, <1>3, <1>5, <1>6, <1>7, <1>8, <1>9, <1>10, <1>11, <1>12
     DEF SaleNext, MarketNext

-----------------------------------------------------------------------------

(* Money *)

(* All deposits, those of one principal, what he bought and what he sold.   *)
Deposits(P) == SumOver([l \in Listing |-> SumOver(P[l], Owner)], Listing)
Held(P, p) == SumOver([l \in Listing |-> P[l][p]], Listing)

PaidFor(r, p) == IF r # None /\ r.buyer = p THEN r.price ELSE 0
EarnedBy(r, p) == IF r # None /\ r.status = "sold" /\ r.seller = p THEN r.price ELSE 0
Bought(L, p) == SumOver([l \in Listing |-> PaidFor(L[l], p)], Listing)
SoldBy(L, p) == SumOver([l \in Listing |-> EarnedBy(L[l], p)], Listing)

(* Settlements in progress: the seller is paid, the listing not yet sold.   *)
PaidIn(frame, p) == IF frame.payer = p THEN frame.listing.price ELSE 0
EarnedIn(frame, p) == IF frame.listing.seller = p THEN frame.listing.price ELSE 0
Paying(S, p) == SumOver([i \in 1..Len(S) |-> PaidIn(S[i], p)], 1..Len(S))
Earning(S, p) == SumOver([i \in 1..Len(S) |-> EarnedIn(S[i], p)], 1..Len(S))

Balances == [Listing -> [Owner -> Nat]]
Listings == [Listing -> ListingRecord \cup {None}]

LEMMA PendingBalances ==
  ASSUME MarketAssumption, NEW P \in [Listing -> [Owner -> Price \cup {0}]]
  PROVE  P \in Balances
<1>0. Price \cup {0} \subseteq Nat
  BY DEF MarketAssumption
<1>1. \A l \in Listing : P[l] \in [Owner -> Nat]
  BY <1>0
<1> QED BY <1>1 DEF Balances

LEMMA DepositsChange ==
  ASSUME MarketAssumption, NEW P \in Balances, NEW Q \in Balances,
         NEW l \in Listing, NEW p \in Owner,
         \A k \in Listing \ {l} : Q[k] = P[k],
         \A q \in Owner \ {p} : Q[l][q] = P[l][q]
  PROVE  /\ Deposits(P) \in Nat /\ Deposits(Q) \in Nat
         /\ Deposits(Q) + P[l][p] = Deposits(P) + Q[l][p]
<1>0. IsFiniteSet(Owner) /\ IsFiniteSet(Listing)
  BY DEF MarketAssumption
<1>1. \A k \in Listing : SumOver(P[k], Owner) \in Nat /\ SumOver(Q[k], Owner) \in Nat
  BY <1>0, SumNat DEF Balances
<1> DEFINE f == [k \in Listing |-> SumOver(P[k], Owner)]
           h == [k \in Listing |-> SumOver(Q[k], Owner)]
<1>2. /\ \A k \in Listing : f[k] \in Nat /\ h[k] \in Nat
      /\ \A k \in Listing \ {l} : f[k] = h[k]
      /\ f[l] = SumOver(P[l], Owner) /\ h[l] = SumOver(Q[l], Owner)
      /\ SumOver(f, Listing) = Deposits(P) /\ SumOver(h, Listing) = Deposits(Q)
  BY <1>1 DEF Deposits
<1> HIDE DEF f, h
<1>3. SumOver(h, Listing) + f[l] = SumOver(f, Listing) + h[l]
  BY <1>0, <1>2, SumChange
<1>4. SumOver(Q[l], Owner) + P[l][p] = SumOver(P[l], Owner) + Q[l][p]
  <2>1. \A q \in Owner : P[l][q] \in Nat /\ Q[l][q] \in Nat
    BY DEF Balances
  <2> QED BY <1>0, <2>1, SumChange
<1>5. SumOver(f, Listing) \in Nat /\ SumOver(h, Listing) \in Nat
  BY <1>0, <1>2, SumNat
<1>6. P[l][p] \in Nat /\ Q[l][p] \in Nat
  BY DEF Balances
<1>7. f[l] \in Nat /\ h[l] \in Nat /\ h[l] + P[l][p] = f[l] + Q[l][p]
  BY <1>2, <1>4
<1>8. SumOver(h, Listing) + P[l][p] = SumOver(f, Listing) + Q[l][p]
  BY <1>3, <1>5, <1>6, <1>7
<1> QED BY <1>2, <1>5, <1>8

LEMMA HeldChange ==
  ASSUME MarketAssumption, NEW P \in Balances, NEW Q \in Balances,
         NEW l \in Listing, NEW p \in Owner,
         \A k \in Listing \ {l} : Q[k] = P[k],
         \A q \in Owner \ {p} : Q[l][q] = P[l][q]
  PROVE  /\ Held(P, p) \in Nat /\ Held(Q, p) \in Nat
         /\ Held(Q, p) + P[l][p] = Held(P, p) + Q[l][p]
         /\ \A q \in Owner \ {p} : Held(Q, q) = Held(P, q)
<1>0. IsFiniteSet(Listing)
  BY DEF MarketAssumption
<1> DEFINE f(q) == [k \in Listing |-> P[k][q]]
           h(q) == [k \in Listing |-> Q[k][q]]
<1>1. /\ \A k \in Listing : f(p)[k] \in Nat /\ h(p)[k] \in Nat
      /\ \A k \in Listing \ {l} : f(p)[k] = h(p)[k]
      /\ f(p)[l] = P[l][p] /\ h(p)[l] = Q[l][p]
  BY DEF Balances
<1>2. \A q \in Owner \ {p} : \A k \in Listing : h(q)[k] = f(q)[k]
  OBVIOUS
<1>3. \A q : SumOver(f(q), Listing) = Held(P, q) /\ SumOver(h(q), Listing) = Held(Q, q)
  BY DEF Held
<1> HIDE DEF f, h
<1>4. SumOver(h(p), Listing) + f(p)[l] = SumOver(f(p), Listing) + h(p)[l]
  <2>1. \A k \in Listing : f(p)[k] \in Nat /\ h(p)[k] \in Nat
    BY <1>1
  <2>2. \A k \in Listing \ {l} : f(p)[k] = h(p)[k]
    BY <1>1
  <2> QED BY ONLY <1>0, <2>1, <2>2, SumChange, l \in Listing
<1>5. SumOver(f(p), Listing) \in Nat /\ SumOver(h(p), Listing) \in Nat
  BY <1>0, <1>1, SumNat
<1>6. \A q \in Owner \ {p} : SumOver(h(q), Listing) = SumOver(f(q), Listing)
  BY <1>0, <1>2, SumSame
<1>7. Held(Q, p) + P[l][p] = Held(P, p) + Q[l][p]
  BY <1>1, <1>3, <1>4
<1>8. \A q \in Owner \ {p} : Held(Q, q) = Held(P, q)
  BY <1>3, <1>6
<1> QED BY <1>3, <1>5, <1>7, <1>8

LEMMA ListingTerms ==
  ASSUME MarketAssumption, NEW r \in ListingRecord \cup {None}, NEW p
  PROVE  PaidFor(r, p) \in Nat /\ EarnedBy(r, p) \in Nat
BY DEF MarketAssumption, PaidFor, EarnedBy, ListingRecord

LEMMA SalesChange ==
  ASSUME MarketAssumption, NEW L \in Listings, NEW M \in Listings,
         NEW l \in Listing, NEW p, \A k \in Listing \ {l} : M[k] = L[k]
  PROVE  /\ Bought(L, p) \in Nat /\ Bought(M, p) \in Nat
         /\ Bought(M, p) + PaidFor(L[l], p) = Bought(L, p) + PaidFor(M[l], p)
         /\ SoldBy(L, p) \in Nat /\ SoldBy(M, p) \in Nat
         /\ SoldBy(M, p) + EarnedBy(L[l], p) = SoldBy(L, p) + EarnedBy(M[l], p)
<1>0. IsFiniteSet(Listing)
  BY DEF MarketAssumption
<1>1. \A k \in Listing : /\ PaidFor(L[k], p) \in Nat /\ PaidFor(M[k], p) \in Nat
                         /\ EarnedBy(L[k], p) \in Nat /\ EarnedBy(M[k], p) \in Nat
  BY ListingTerms DEF Listings
<1>2. /\ Bought(L, p) \in Nat /\ Bought(M, p) \in Nat
      /\ Bought(M, p) + PaidFor(L[l], p) = Bought(L, p) + PaidFor(M[l], p)
  <2> DEFINE f == [k \in Listing |-> PaidFor(L[k], p)]
             h == [k \in Listing |-> PaidFor(M[k], p)]
  <2>1. /\ \A k \in Listing : f[k] \in Nat /\ h[k] \in Nat
        /\ \A k \in Listing \ {l} : f[k] = h[k]
        /\ f[l] = PaidFor(L[l], p) /\ h[l] = PaidFor(M[l], p)
        /\ SumOver(f, Listing) = Bought(L, p) /\ SumOver(h, Listing) = Bought(M, p)
    BY <1>1 DEF Bought
  <2> HIDE DEF f, h
  <2>2. SumOver(h, Listing) + f[l] = SumOver(f, Listing) + h[l]
    <3>1. \A k \in Listing : f[k] \in Nat /\ h[k] \in Nat
      BY <2>1
    <3>2. \A k \in Listing \ {l} : f[k] = h[k]
      BY <2>1
    <3> QED BY ONLY <1>0, <3>1, <3>2, SumChange, l \in Listing
  <2>3. SumOver(f, Listing) \in Nat /\ SumOver(h, Listing) \in Nat
    BY <1>0, <2>1, SumNat
  <2> QED BY <2>1, <2>2, <2>3
<1>3. /\ SoldBy(L, p) \in Nat /\ SoldBy(M, p) \in Nat
      /\ SoldBy(M, p) + EarnedBy(L[l], p) = SoldBy(L, p) + EarnedBy(M[l], p)
  <2> DEFINE f == [k \in Listing |-> EarnedBy(L[k], p)]
             h == [k \in Listing |-> EarnedBy(M[k], p)]
  <2>1. /\ \A k \in Listing : f[k] \in Nat /\ h[k] \in Nat
        /\ \A k \in Listing \ {l} : f[k] = h[k]
        /\ f[l] = EarnedBy(L[l], p) /\ h[l] = EarnedBy(M[l], p)
        /\ SumOver(f, Listing) = SoldBy(L, p) /\ SumOver(h, Listing) = SoldBy(M, p)
    BY <1>1 DEF SoldBy
  <2> HIDE DEF f, h
  <2>2. SumOver(h, Listing) + f[l] = SumOver(f, Listing) + h[l]
    <3>1. \A k \in Listing : f[k] \in Nat /\ h[k] \in Nat
      BY <2>1
    <3>2. \A k \in Listing \ {l} : f[k] = h[k]
      BY <2>1
    <3> QED BY ONLY <1>0, <3>1, <3>2, SumChange, l \in Listing
  <2>3. SumOver(f, Listing) \in Nat /\ SumOver(h, Listing) \in Nat
    BY <1>0, <2>1, SumNat
  <2> QED BY <2>1, <2>2, <2>3
<1> QED BY <1>2, <1>3

(* One more settlement on the stack.                                        *)
LEMMA FramesChange ==
  ASSUME MarketAssumption, NEW S \in Seq(Frame), NEW T \in Seq(Frame), NEW p,
         Len(T) = Len(S) + 1, \A i \in 1..Len(S) : T[i] = S[i]
  PROVE  /\ Paying(S, p) \in Nat /\ Earning(S, p) \in Nat
         /\ Paying(T, p) = Paying(S, p) + PaidIn(T[Len(T)], p)
         /\ Earning(T, p) = Earning(S, p) + EarnedIn(T[Len(T)], p)
<1>1. PICK n \in Nat : n = Len(S)
  OBVIOUS
<1>2. Len(T) = n + 1 /\ n + 1 \in 1..(n + 1) /\ (1..(n + 1)) \ {n + 1} = 1..n
  BY <1>1
<1>3. IsFiniteSet(1..n) /\ IsFiniteSet(1..(n + 1))
  <2>1. 1 \in Int /\ n \in Int /\ n + 1 \in Int
    OBVIOUS
  <2>2. IsFiniteSet(1..n)
    BY <2>1, FS_Interval
  <2>3. \A m \in Int : IsFiniteSet(1..m)
    BY <2>1, FS_Interval
  <2> QED BY <2>1, <2>3
<1>4. \A frame \in Frame : PaidIn(frame, p) \in Nat /\ EarnedIn(frame, p) \in Nat
  <2>1. \A frame \in Frame : frame.listing.price \in Nat
    BY DEF Frame, ListingRecord, MarketAssumption
  <2> QED BY <2>1 DEF PaidIn, EarnedIn
<1>5. Paying(S, p) \in Nat /\ Paying(T, p) = Paying(S, p) + PaidIn(T[n + 1], p)
  <2> DEFINE f == [i \in 1..n |-> PaidIn(S[i], p)]
             h == [i \in 1..(n + 1) |-> PaidIn(T[i], p)]
  <2>1. /\ \A i \in 1..n : f[i] \in Nat /\ f[i] = h[i]
        /\ \A i \in 1..(n + 1) : h[i] \in Nat
        /\ h[n + 1] = PaidIn(T[n + 1], p)
        /\ SumOver(f, 1..n) = Paying(S, p) /\ SumOver(h, 1..(n + 1)) = Paying(T, p)
    <3>1. \A i \in 1..n : S[i] \in Frame /\ T[i] = S[i]
      BY <1>1
    <3>2. \A i \in 1..(n + 1) : T[i] \in Frame
      BY <1>2
    <3>3. SumOver(f, 1..n) = Paying(S, p) /\ SumOver(h, 1..(n + 1)) = Paying(T, p)
      BY <1>1, <1>2 DEF Paying
    <3>4. \A i \in 1..n : i \in 1..(n + 1)
      OBVIOUS
    <3>5. \A i \in 1..n : f[i] \in Nat /\ f[i] = h[i]
      BY <1>4, <3>1, <3>4
    <3>6. \A i \in 1..(n + 1) : h[i] \in Nat
      BY <1>4, <3>2
    <3> QED BY <1>2, <3>3, <3>5, <3>6
  <2> HIDE DEF f, h
  <2>2. SumOver(f, 1..n) \in Nat
    BY <1>3, <2>1, SumNat
  <2>4. SumOver(f, 1..n) = SumOver(h, 1..n)
    BY <1>3, <2>1, SumSame
  <2>3. SumOver(h, 1..(n + 1)) = h[n + 1] + SumOver(h, (1..(n + 1)) \ {n + 1})
    <3>1. \A i \in 1..(n + 1) : h[i] \in Nat
      BY <2>1
    <3>2. IsFiniteSet(1..(n + 1)) /\ n + 1 \in 1..(n + 1)
      BY <1>2, <1>3
    <3>3. PICK I, k : I = 1..(n + 1) /\ k = n + 1
      OBVIOUS
    <3>4. IsFiniteSet(I) /\ k \in I /\ \A i \in I : h[i] \in Nat
      BY ONLY <3>1, <3>2, <3>3
    <3>5. SumOver(h, I) = h[k] + SumOver(h, I \ {k})
      BY ONLY <3>4, SumSplit
    <3> QED BY ONLY <3>3, <3>5
  <2>5. SumOver(h, (1..(n + 1)) \ {n + 1}) = SumOver(h, 1..n)
    BY <1>2
  <2>6. h[n + 1] \in Nat /\ h[n + 1] = PaidIn(T[n + 1], p)
    BY <1>2, <2>1
  <2>7. SumOver(f, 1..n) = Paying(S, p) /\ SumOver(h, 1..(n + 1)) = Paying(T, p)
    BY <2>1
  <2> QED BY <2>2, <2>3, <2>4, <2>5, <2>6, <2>7
<1>6. Earning(S, p) \in Nat /\ Earning(T, p) = Earning(S, p) + EarnedIn(T[n + 1], p)
  <2> DEFINE f == [i \in 1..n |-> EarnedIn(S[i], p)]
             h == [i \in 1..(n + 1) |-> EarnedIn(T[i], p)]
  <2>1. /\ \A i \in 1..n : f[i] \in Nat /\ f[i] = h[i]
        /\ \A i \in 1..(n + 1) : h[i] \in Nat
        /\ h[n + 1] = EarnedIn(T[n + 1], p)
        /\ SumOver(f, 1..n) = Earning(S, p) /\ SumOver(h, 1..(n + 1)) = Earning(T, p)
    <3>1. \A i \in 1..n : S[i] \in Frame /\ T[i] = S[i]
      BY <1>1
    <3>2. \A i \in 1..(n + 1) : T[i] \in Frame
      BY <1>2
    <3>3. SumOver(f, 1..n) = Earning(S, p) /\ SumOver(h, 1..(n + 1)) = Earning(T, p)
      BY <1>1, <1>2 DEF Earning
    <3>4. \A i \in 1..n : i \in 1..(n + 1)
      OBVIOUS
    <3>5. \A i \in 1..n : f[i] \in Nat /\ f[i] = h[i]
      BY <1>4, <3>1, <3>4
    <3>6. \A i \in 1..(n + 1) : h[i] \in Nat
      BY <1>4, <3>2
    <3> QED BY <1>2, <3>3, <3>5, <3>6
  <2> HIDE DEF f, h
  <2>2. SumOver(f, 1..n) \in Nat
    BY <1>3, <2>1, SumNat
  <2>4. SumOver(f, 1..n) = SumOver(h, 1..n)
    BY <1>3, <2>1, SumSame
  <2>3. SumOver(h, 1..(n + 1)) = h[n + 1] + SumOver(h, (1..(n + 1)) \ {n + 1})
    BY <1>2, <1>3, <2>1, SumSplit, SMTT(60)
  <2>5. SumOver(h, (1..(n + 1)) \ {n + 1}) = SumOver(h, 1..n)
    BY <1>2
  <2>6. h[n + 1] \in Nat /\ h[n + 1] = EarnedIn(T[n + 1], p)
    BY <1>2, <2>1
  <2>7. SumOver(f, 1..n) = Earning(S, p) /\ SumOver(h, 1..(n + 1)) = Earning(T, p)
    BY <2>1
  <2> QED BY <2>2, <2>3, <2>4, <2>5, <2>6, <2>7
<1> QED BY <1>2, <1>5, <1>6

LEMMA NoFrames ==
  ASSUME NEW p
  PROVE  Paying(<<>>, p) = 0 /\ Earning(<<>>, p) = 0
<1>1. 1..Len(<<>>) = {} /\ IsFiniteSet({})
  BY FS_EmptySet
<1> QED BY <1>1, SumZero DEF Paying, Earning

(* The market owes its deposits; a listing has a buyer when it is sold;     *)
(* the GAS of every principal is accounted for, settlements in progress     *)
(* included.                                                                *)
Unsold ==
  \A l \in Listing : listing[l] # None /\ listing[l].status # "sold" =>
    listing[l].buyer = Zero
Ledger ==
  \A p \in Owner :
    gas[p] + Held(pending, p) + Bought(listing, p) + Paying(settling, p)
      = Funds + SoldBy(listing, p) + Earning(settling, p)
Money == PaymentsBacked /\ Unsold /\ Ledger

MoneyBook(s) ==
  /\ s.gas[AAMarket] = Deposits(s.pending)
  /\ \A l \in Listing : s.listing[l] # None /\ s.listing[l].status # "sold" =>
       s.listing[l].buyer = Zero
  /\ \A p \in Owner :
       s.gas[p] + Held(s.pending, p) + Bought(s.listing, p) = Funds + SoldBy(s.listing, p)

LEMMA BackedByDeposits == PaymentsBacked <=> gas[AAMarket] = Deposits(pending)
BY DEF PaymentsBacked, Deposits

LEMMA MoneyTypes ==
  ASSUME MarketAssumption, NEW P \in [Listing -> [Owner -> Price \cup {0}]],
         NEW L \in Listings, NEW S \in Seq(Frame)
  PROVE  /\ P \in Balances /\ Deposits(P) \in Nat
         /\ \A p \in Owner :
              /\ Held(P, p) \in Nat
              /\ Bought(L, p) \in Nat /\ SoldBy(L, p) \in Nat
              /\ Paying(S, p) \in Nat /\ Earning(S, p) \in Nat
<1>0. IsFiniteSet(Owner) /\ IsFiniteSet(Listing)
  BY DEF MarketAssumption
<1>1. P \in Balances
  BY PendingBalances
<1>4. Deposits(P) \in Nat
  <2> DEFINE f == [l \in Listing |-> SumOver(P[l], Owner)]
  <2>1. \A l \in Listing, p \in Owner : P[l][p] \in Nat
    BY <1>1 DEF Balances
  <2>2. \A l \in Listing : f[l] \in Nat
    BY <1>0, <2>1, SumNat
  <2>3. Deposits(P) = SumOver(f, Listing)
    BY DEF Deposits
  <2> HIDE DEF f
  <2> QED BY ONLY <1>0, <2>2, <2>3, SumNat
<1>5. ASSUME NEW p \in Owner PROVE Held(P, p) \in Nat
  <2> DEFINE f == [l \in Listing |-> P[l][p]]
  <2>1. \A l \in Listing : f[l] \in Nat
    BY <1>1 DEF Balances
  <2>2. Held(P, p) = SumOver(f, Listing)
    BY DEF Held
  <2> HIDE DEF f
  <2> QED BY ONLY <1>0, <2>1, <2>2, SumNat
<1>6. ASSUME NEW p \in Owner PROVE Bought(L, p) \in Nat
  <2> DEFINE f == [l \in Listing |-> PaidFor(L[l], p)]
  <2>1. \A l \in Listing : f[l] \in Nat
    BY ListingTerms DEF Listings
  <2>2. Bought(L, p) = SumOver(f, Listing)
    BY DEF Bought
  <2> HIDE DEF f
  <2> QED BY ONLY <1>0, <2>1, <2>2, SumNat
<1>7. ASSUME NEW p \in Owner PROVE SoldBy(L, p) \in Nat
  <2> DEFINE f == [l \in Listing |-> EarnedBy(L[l], p)]
  <2>1. \A l \in Listing : f[l] \in Nat
    BY ListingTerms DEF Listings
  <2>2. SoldBy(L, p) = SumOver(f, Listing)
    BY DEF SoldBy
  <2> HIDE DEF f
  <2> QED BY ONLY <1>0, <2>1, <2>2, SumNat
<1>8. PICK n \in Nat : n = Len(S)
  OBVIOUS
<1>9. IsFiniteSet(1..n)
  BY FS_Interval
<1>10. \A i \in 1..n : S[i] \in Frame
  BY <1>8
<1>11. \A frame \in Frame : frame.listing.price \in Nat
  BY DEF Frame, ListingRecord, MarketAssumption
<1>12. ASSUME NEW p \in Owner PROVE Paying(S, p) \in Nat
  <2> DEFINE f == [i \in 1..n |-> PaidIn(S[i], p)]
  <2>1. \A i \in 1..n : f[i] \in Nat
    BY <1>10, <1>11 DEF PaidIn
  <2>2. Paying(S, p) = SumOver(f, 1..n)
    BY <1>8 DEF Paying
  <2> HIDE DEF f
  <2> QED BY ONLY <1>9, <2>1, <2>2, SumNat
<1>13. ASSUME NEW p \in Owner PROVE Earning(S, p) \in Nat
  <2> DEFINE f == [i \in 1..n |-> EarnedIn(S[i], p)]
  <2>1. \A i \in 1..n : f[i] \in Nat
    BY <1>10, <1>11 DEF EarnedIn
  <2>2. Earning(S, p) = SumOver(f, 1..n)
    BY <1>8 DEF Earning
  <2> HIDE DEF f
  <2> QED BY ONLY <1>9, <2>1, <2>2, SumNat
<1> QED BY <1>1, <1>4, <1>5, <1>6, <1>7, <1>12, <1>13

LEMMA MarketMoneyTypes ==
  ASSUME MarketTypeOK
  PROVE  /\ pending \in [Listing -> [Owner -> Price \cup {0}]]
         /\ listing \in Listings /\ settling \in Seq(Frame)
         /\ gas[AAMarket] \in Nat /\ \A p \in Owner : gas[p] \in Nat
BY DEF MarketTypeOK, Listings

LEMMA SnapshotMoney ==
  ASSUME MarketAssumption, MarketTypeOK, Money, Idle
  PROVE  MoneyBook(Snapshot)
<1>1. gas[AAMarket] = Deposits(pending)
  BY BackedByDeposits DEF Money
<1>2. ASSUME NEW p \in Owner
      PROVE  gas[p] + Held(pending, p) + Bought(listing, p) = Funds + SoldBy(listing, p)
  <2>1. Paying(settling, p) = 0 /\ Earning(settling, p) = 0
    BY NoFrames DEF Idle
  <2>2. Funds \in Nat
    BY DEF MarketAssumption
  <2>3. /\ gas[p] \in Nat /\ Held(pending, p) \in Nat
        /\ Bought(listing, p) \in Nat /\ SoldBy(listing, p) \in Nat
    BY MoneyTypes, MarketMoneyTypes
  <2> QED BY <2>1, <2>2, <2>3 DEF Money, Ledger
<1>3. /\ Snapshot.gas = gas /\ Snapshot.pending = pending /\ Snapshot.listing = listing
  BY DEF Snapshot
<1> QED BY <1>1, <1>2, <1>3 DEF MoneyBook, Money, Unsold

LEMMA AbortMoney ==
  ASSUME MarketAssumption, MarketTypeOK', MoneyBook(saved), Abort
  PROVE  Money'
<1>1. /\ gas' = saved.gas /\ pending' = saved.pending /\ listing' = saved.listing
      /\ settling' = <<>>
  BY DEF Abort
<1>2. gas'[AAMarket] = Deposits(pending')
  BY <1>1 DEF MoneyBook
<1>3. PaymentsBacked'
  BY <1>2 DEF PaymentsBacked, Deposits
<1>4. Unsold'
  BY <1>1 DEF MoneyBook, Unsold
<1>5. ASSUME NEW p \in Owner
      PROVE  gas'[p] + Held(pending', p) + Bought(listing', p) + Paying(settling', p)
               = Funds + SoldBy(listing', p) + Earning(settling', p)
  <2>1. Paying(settling', p) = 0 /\ Earning(settling', p) = 0
    BY <1>1, NoFrames
  <2>2. gas'[p] + Held(pending', p) + Bought(listing', p) = Funds + SoldBy(listing', p)
    BY <1>1 DEF MoneyBook
  <2>3. /\ gas'[p] \in Nat /\ Held(pending', p) \in Nat
        /\ Bought(listing', p) \in Nat /\ SoldBy(listing', p) \in Nat
    <3>1. /\ pending' \in [Listing -> [Owner -> Price \cup {0}]] /\ gas'[p] \in Nat
          /\ listing' \in Listings /\ settling' \in Seq(Frame)
      BY DEF MarketTypeOK, Listings
    <3> QED BY <3>1, MoneyTypes
  <2>4. Funds \in Nat
    BY DEF MarketAssumption
  <2> QED BY <2>1, <2>2, <2>3, <2>4
<1> QED BY <1>3, <1>4, <1>5 DEF Money, Ledger

LEMMA OpenTerms ==
  ASSUME MarketAssumption, NEW r, r = None \/ (r.status # "sold" /\ r.buyer = Zero),
         NEW p \in Owner
  PROVE  PaidFor(r, p) = 0 /\ EarnedBy(r, p) = 0
BY DEF MarketAssumption, PaidFor, EarnedBy

(* A listing is opened, changed or cancelled: no money moves.               *)
LEMMA MoneyListing ==
  ASSUME MarketAssumption, MarketTypeOK, MarketTypeOK', Money,
         UNCHANGED <<gas, pending, settling>>, NEW l \in Listing,
         \A k \in Listing \ {l} : listing'[k] = listing[k],
         listing[l] = None \/ listing[l].status # "sold",
         listing'[l].status # "sold", listing'[l].buyer = Zero
  PROVE  Money'
<1>1. PaymentsBacked'
  BY DEF Money, PaymentsBacked
<1>2. Unsold'
  BY DEF Money, Unsold
<1>3. listing[l] = None \/ (listing[l].status # "sold" /\ listing[l].buyer = Zero)
  BY DEF Money, Unsold
<1>4. listing \in Listings /\ listing' \in Listings
  BY DEF MarketTypeOK, Listings
<1>5. ASSUME NEW p \in Owner
      PROVE  gas'[p] + Held(pending', p) + Bought(listing', p) + Paying(settling', p)
               = Funds + SoldBy(listing', p) + Earning(settling', p)
  <2>1. /\ PaidFor(listing[l], p) = 0 /\ PaidFor(listing'[l], p) = 0
        /\ EarnedBy(listing[l], p) = 0 /\ EarnedBy(listing'[l], p) = 0
    BY <1>3, OpenTerms
  <2>2. /\ Bought(listing, p) \in Nat /\ Bought(listing', p) \in Nat
        /\ Bought(listing', p) + PaidFor(listing[l], p)
             = Bought(listing, p) + PaidFor(listing'[l], p)
        /\ SoldBy(listing, p) \in Nat /\ SoldBy(listing', p) \in Nat
        /\ SoldBy(listing', p) + EarnedBy(listing[l], p)
             = SoldBy(listing, p) + EarnedBy(listing'[l], p)
    BY <1>4, SalesChange
  <2>3. Bought(listing', p) = Bought(listing, p) /\ SoldBy(listing', p) = SoldBy(listing, p)
    BY <2>1, <2>2
  <2> QED BY <2>3 DEF Money, Ledger
<1> QED BY <1>1, <1>2, <1>5 DEF Money, Ledger

LEMMA MoneyUntouched ==
  ASSUME Money, UNCHANGED <<gas, pending, settling, listing>>
  PROVE  Money'
BY DEF Money, PaymentsBacked, Unsold, Ledger

(* A deposit comes in or goes back.                                         *)
LEMMA MoneyPayment ==
  ASSUME MarketAssumption, MarketTypeOK, MarketTypeOK', Money,
         UNCHANGED <<settling, listing>>, NEW l \in Listing, NEW p \in Owner,
         NEW x \in Nat, NEW y \in Nat, pending[l][p] = x,
         pending' = [pending EXCEPT ![l][p] = y],
         gas'[p] + y = gas[p] + x, gas'[AAMarket] + x = gas[AAMarket] + y,
         \A q \in Owner \ {p} : gas'[q] = gas[q]
  PROVE  Money'
<1>1. /\ pending \in [Listing -> [Owner -> Price \cup {0}]]
      /\ pending' \in [Listing -> [Owner -> Price \cup {0}]]
      /\ listing \in Listings /\ settling \in Seq(Frame)
      /\ gas \in [Owner \cup {AAMarket} -> Nat] /\ gas' \in [Owner \cup {AAMarket} -> Nat]
  BY DEF MarketTypeOK, Listings
<1>2. pending \in Balances /\ pending' \in Balances
  BY <1>1, MoneyTypes
<1>3. /\ \A k \in Listing \ {l} : pending'[k] = pending[k]
      /\ \A q \in Owner \ {p} : pending'[l][q] = pending[l][q]
      /\ pending'[l][p] = y
  BY <1>1
<1>a. PICK P \in Balances, Q \in Balances : P = pending /\ Q = pending'
  BY <1>2
<1>b. /\ P[l][p] = x /\ Q[l][p] = y /\ \A k \in Listing \ {l} : Q[k] = P[k]
      /\ \A q \in Owner \ {p} : Q[l][q] = P[l][q]
  BY <1>a, <1>3
<1>4. PaymentsBacked'
  <2>1. /\ Deposits(pending) \in Nat /\ Deposits(pending') \in Nat
        /\ Deposits(pending') + x = Deposits(pending) + y
    <3>1. /\ Deposits(P) \in Nat /\ Deposits(Q) \in Nat
          /\ Deposits(Q) + P[l][p] = Deposits(P) + Q[l][p]
      BY <1>b, DepositsChange
    <3> QED BY ONLY <1>a, <1>b, <3>1
  <2>2. gas[AAMarket] = Deposits(pending)
    BY DEF Money, PaymentsBacked, Deposits
  <2>3. gas'[AAMarket] \in Nat
    BY <1>1
  <2>4. gas'[AAMarket] = Deposits(pending')
    <3>1. PICK d \in Nat, e \in Nat : d = Deposits(pending) /\ e = Deposits(pending')
      BY <2>1
    <3>2. PICK b \in Nat : b = gas'[AAMarket]
      BY <2>3
    <3>3. e + x = d + y /\ b + x = d + y
      BY <2>1, <2>2, <3>1, <3>2
    <3> QED BY ONLY <3>1, <3>2, <3>3, x \in Nat, y \in Nat
  <2> QED BY <2>4 DEF PaymentsBacked, Deposits
<1>5. /\ Held(pending, p) \in Nat /\ Held(pending', p) \in Nat
      /\ Held(pending', p) + x = Held(pending, p) + y
      /\ \A q \in Owner \ {p} : Held(pending', q) = Held(pending, q)
  <2>1. /\ Held(P, p) \in Nat /\ Held(Q, p) \in Nat
        /\ Held(Q, p) + P[l][p] = Held(P, p) + Q[l][p]
        /\ \A q \in Owner \ {p} : Held(Q, q) = Held(P, q)
    BY <1>b, HeldChange
  <2> QED BY ONLY <1>a, <1>b, <2>1
<1>6. gas'[p] + Held(pending', p) = gas[p] + Held(pending, p)
  <2>1. gas[p] \in Nat /\ gas'[p] \in Nat
    BY <1>1
  <2> QED BY <1>5, <2>1
<1>7. ASSUME NEW q \in Owner
      PROVE  gas'[q] + Held(pending', q) + Bought(listing', q) + Paying(settling', q)
               = Funds + SoldBy(listing', q) + Earning(settling', q)
  <2>1. gas'[q] + Held(pending', q) = gas[q] + Held(pending, q)
    BY <1>5, <1>6
  <2>2. gas[q] + Held(pending, q) + Bought(listing, q) + Paying(settling, q)
          = Funds + SoldBy(listing, q) + Earning(settling, q)
    BY DEF Money, Ledger
  <2>3. listing' = listing /\ settling' = settling
    OBVIOUS
  <2> QED BY ONLY <2>1, <2>2, <2>3
<1>8. Unsold'
  BY DEF Money, Unsold
<1> QED BY <1>4, <1>7, <1>8 DEF Money, Ledger

LEMMA MoneyTransfer ==
  ASSUME MarketAssumption, gas \in [Owner \cup {AAMarket} -> Nat],
         NEW from \in Owner \cup {AAMarket}, NEW to \in Owner \cup {AAMarket}, from # to,
         NEW amount, Transfer(from, to, amount)
  PROVE  /\ gas'[from] = gas[from] - amount /\ gas'[to] = gas[to] + amount
         /\ \A q \in (Owner \cup {AAMarket}) \ {from, to} : gas'[q] = gas[q]
BY DEF Transfer

(* The seller is paid from the buyer's deposit.                             *)
LEMMA MoneySettle ==
  ASSUME MarketAssumption, MarketTypeOK, MarketTypeOK', Money,
         NEW l \in Listing, NEW p \in Owner, NEW o \in Owner, SettleListing(l, p, o)
  PROVE  Money'
<1>1. listing[l] \in ListingRecord /\ listing' = listing
  BY DEF SettleListing, Active, MarketTypeOK
<1>2. PICK x \in Nat, s \in Owner : x = listing[l].price /\ s = listing[l].seller
  BY <1>1 DEF ListingRecord, MarketAssumption
<1>3. PICK frame : frame = [id |-> l, listing |-> listing[l], payer |-> p, newOwner |-> o]
  OBVIOUS
<1>4. frame \in Frame /\ frame.listing = listing[l] /\ frame.payer = p
  BY <1>1, <1>3 DEF Frame
<1>5. /\ pending \in [Listing -> [Owner -> Price \cup {0}]]
      /\ pending' \in [Listing -> [Owner -> Price \cup {0}]]
      /\ listing \in Listings /\ settling \in Seq(Frame) /\ settling' \in Seq(Frame)
      /\ gas \in [Owner \cup {AAMarket} -> Nat] /\ gas' \in [Owner \cup {AAMarket} -> Nat]
  BY DEF MarketTypeOK, Listings
<1>6. PICK P \in Balances, Q \in Balances : P = pending /\ Q = pending'
  BY <1>5, MoneyTypes
<1>7. P[l][p] = x /\ pending' = [pending EXCEPT ![l][p] = 0]
  BY <1>2, <1>6 DEF SettleListing, ClearPendingPayment
<1>8. /\ Q[l][p] = 0 /\ \A k \in Listing \ {l} : Q[k] = P[k]
      /\ \A q \in Owner \ {p} : Q[l][q] = P[l][q]
  BY <1>5, <1>6, <1>7
<1>9. /\ gas'[AAMarket] = gas[AAMarket] - x /\ gas'[s] = gas[s] + x
      /\ \A q \in Owner \ {s} : gas'[q] = gas[q]
  <2>1. Transfer(AAMarket, s, x) /\ s # AAMarket
    BY <1>2 DEF SettleListing, MarketAssumption
  <2> QED BY <1>5, <2>1, MoneyTransfer, SMTT(30) DEF MarketAssumption
<1>10. PaymentsBacked'
  <2>1. /\ Deposits(P) \in Nat /\ Deposits(Q) \in Nat
        /\ Deposits(Q) + P[l][p] = Deposits(P) + Q[l][p]
    BY <1>8, DepositsChange
  <2>2. gas[AAMarket] = Deposits(P)
    BY <1>6 DEF Money, PaymentsBacked, Deposits
  <2>3. gas'[AAMarket] = Deposits(Q)
    BY ONLY <1>7, <1>8, <1>9, <2>1, <2>2, x \in Nat
  <2> QED BY <1>6, <2>3 DEF PaymentsBacked, Deposits
<1>11. /\ Held(P, p) \in Nat /\ Held(Q, p) \in Nat
       /\ Held(Q, p) + P[l][p] = Held(P, p) + Q[l][p]
       /\ \A q \in Owner \ {p} : Held(Q, q) = Held(P, q)
  BY <1>8, HeldChange
<1>12. settling' = Append(settling, frame)
  BY <1>3 DEF SettleListing
<1>13. /\ Len(settling') = Len(settling) + 1 /\ settling'[Len(settling')] = frame
       /\ \A i \in 1..Len(settling) : settling'[i] = settling[i]
  BY <1>4, <1>5, <1>12
<1>14. ASSUME NEW q \in Owner
       PROVE  gas'[q] + Held(pending', q) + Bought(listing', q) + Paying(settling', q)
                = Funds + SoldBy(listing', q) + Earning(settling', q)
  <2>1. /\ Paying(settling', q) = Paying(settling, q) + PaidIn(frame, q)
        /\ Earning(settling', q) = Earning(settling, q) + EarnedIn(frame, q)
    <3>1. PICK S \in Seq(Frame), T \in Seq(Frame) : S = settling /\ T = settling'
      BY <1>5
    <3>2. /\ Len(T) = Len(S) + 1 /\ T[Len(T)] = frame /\ \A i \in 1..Len(S) : T[i] = S[i]
      BY <1>13, <3>1
    <3>3. /\ Paying(T, q) = Paying(S, q) + PaidIn(T[Len(T)], q)
          /\ Earning(T, q) = Earning(S, q) + EarnedIn(T[Len(T)], q)
      BY <3>2, FramesChange
    <3> QED BY ONLY <3>1, <3>2, <3>3
  <2>2. PICK paid \in Nat, earned \in Nat : paid = PaidIn(frame, q) /\ earned = EarnedIn(frame, q)
    BY <1>2, <1>4 DEF PaidIn, EarnedIn
  <2>3. paid = IF q = p THEN x ELSE 0
    BY <1>2, <1>4, <2>2 DEF PaidIn
  <2>4. earned = IF q = s THEN x ELSE 0
    BY <1>2, <1>4, <2>2 DEF EarnedIn
  <2>5. gas'[q] = gas[q] + earned
    BY <1>5, <1>9, <2>4, SMTT(60)
  <2>6. Held(Q, q) + paid = Held(P, q)
    <3>1. CASE q = p
      BY ONLY <1>7, <1>8, <1>11, <2>3, <3>1, x \in Nat
    <3>2. CASE q # p
      <4>1. Held(Q, q) = Held(P, q) /\ paid = 0
        BY <1>11, <2>3, <3>2
      <4>2. Held(P, q) \in Nat
        BY <1>5, <1>6, MoneyTypes
      <4> QED BY ONLY <4>1, <4>2
    <3> QED BY <3>1, <3>2
  <2>7. /\ gas[q] \in Nat /\ Held(Q, q) \in Nat /\ Held(P, q) \in Nat
        /\ Bought(listing, q) \in Nat /\ SoldBy(listing, q) \in Nat
        /\ Paying(settling, q) \in Nat /\ Earning(settling, q) \in Nat
    BY <1>5, <1>6, MoneyTypes
  <2>8. gas[q] + Held(P, q) + Bought(listing, q) + Paying(settling, q)
          = Funds + SoldBy(listing, q) + Earning(settling, q)
    BY <1>6 DEF Money, Ledger
  <2>9. PICK g \in Nat, h \in Nat, b \in Nat, d \in Nat, y \in Nat, e \in Nat :
          /\ g = gas[q] /\ h = Held(Q, q) /\ b = Bought(listing, q)
          /\ d = SoldBy(listing, q) /\ y = Paying(settling, q) /\ e = Earning(settling, q)
    BY <2>7
  <2>10. g + (h + paid) + b + y = Funds + d + e
    BY <2>6, <2>8, <2>9
  <2>11. Funds \in Nat
    BY DEF MarketAssumption
  <2>12. (g + earned) + h + b + (y + paid) = Funds + d + (e + earned)
    BY ONLY <2>10, <2>11, paid \in Nat, earned \in Nat, g \in Nat, h \in Nat, b \in Nat,
       d \in Nat, y \in Nat, e \in Nat
  <2> QED BY <1>1, <1>6, <2>1, <2>2, <2>5, <2>9, <2>12
<1>15. Unsold'
  BY <1>1 DEF Money, Unsold
<1> QED BY <1>10, <1>14, <1>15 DEF Money, Ledger

(* The listing is sold to who paid for it.                                  *)
LEMMA MoneyClose ==
  ASSUME MarketAssumption, NoListingAssumption, MarketTypeOK, MarketTypeOK', Listed, Money,
         SettleClose
  PROVE  Money'
<1>1. /\ listing \in Listings /\ listing' \in Listings
      /\ settling \in Seq(Frame) /\ settling' \in Seq(Frame)
      /\ gas \in [Owner \cup {AAMarket} -> Nat]
      /\ pending \in [Listing -> [Owner -> Price \cup {0}]]
  BY DEF MarketTypeOK, Listings
<1>2. PICK frame \in Frame : frame = settling[Len(settling)]
  BY <1>1 DEF SettleClose, Idle
<1>3. PICK l \in Listing, a \in Account : l = frame.id /\ a = frame.listing.account
  BY <1>2 DEF Frame, ListingRecord
<1>4. PICK r : r = SoldListing(frame)
  OBVIOUS
<1>5. /\ r \in ListingRecord /\ r.status = "sold" /\ r.buyer = frame.payer
      /\ r.seller = frame.listing.seller /\ r.price = frame.listing.price
  <2>1. PICK o \in ListingRecord, p \in Owner : o = frame.listing /\ p = frame.payer
    BY <1>2 DEF Frame
  <2>2. r = [o EXCEPT !.status = "sold", !.buyer = p]
    BY <1>4, <2>1 DEF SoldListing
  <2>3. /\ r \in ListingRecord /\ r.status = "sold" /\ r.buyer = p
        /\ r.seller = o.seller /\ r.price = o.price
    BY ONLY <2>2, o \in ListingRecord, p \in Owner DEF ListingRecord
  <2> QED BY <2>1, <2>3
<1>6. /\ listing' = [listing EXCEPT ![l] = r] /\ UNCHANGED <<gas, pending>>
      /\ settling' = SubSeq(settling, 1, Len(settling) - 1)
      /\ escrow[a] # None /\ escrow[a].market = AAMarket /\ escrow[a].listing = l
  BY <1>2, <1>3, <1>4 DEF SettleClose, SettleMarketEscrow, AssertEscrowMarket, funds
<1>7. Active(l)
  BY <1>6 DEF Listed
<1>8. listing'[l] = r /\ \A k \in Listing \ {l} : listing'[k] = listing[k]
  BY <1>1, <1>6 DEF Listings
<1>9. Len(settling) # 0 /\ Len(settling) \in Nat
  BY <1>1 DEF SettleClose, Idle
<1>10. /\ Len(settling) = Len(settling') + 1
       /\ \A i \in 1..Len(settling') : settling[i] = settling'[i]
  <2>1. PICK S \in Seq(Frame), n \in Nat \ {0} : S = settling /\ n = Len(S)
    BY <1>1, <1>9
  <2>2. /\ Len(SubSeq(S, 1, n - 1)) = n - 1
        /\ \A i \in 1..(n - 1) : SubSeq(S, 1, n - 1)[i] = S[i]
    BY <2>1
  <2>3. settling' = SubSeq(S, 1, n - 1)
    BY <1>6, <2>1
  <2> QED BY <2>1, <2>2, <2>3
<1>11. listing[l].status # "sold" /\ listing[l].buyer = Zero
  BY <1>7 DEF Active, Money, Unsold
<1>12. ASSUME NEW q \in Owner
       PROVE  gas'[q] + Held(pending', q) + Bought(listing', q) + Paying(settling', q)
                = Funds + SoldBy(listing', q) + Earning(settling', q)
  <2>1. PaidFor(listing[l], q) = 0 /\ EarnedBy(listing[l], q) = 0
    BY <1>11, OpenTerms
  <2>2. r # None
    BY <1>5 DEF NoListingAssumption
  <2>3. PICK paid \in Nat, earned \in Nat : paid = PaidIn(frame, q) /\ earned = EarnedIn(frame, q)
    <3>1. frame.listing.price \in Nat
      BY DEF Frame, ListingRecord, MarketAssumption
    <3> QED BY <3>1 DEF PaidIn, EarnedIn
  <2>4. PaidFor(listing'[l], q) = paid /\ EarnedBy(listing'[l], q) = earned
    BY <1>5, <1>8, <2>2, <2>3 DEF PaidFor, EarnedBy, PaidIn, EarnedIn
  <2>5. /\ Bought(listing, q) \in Nat /\ Bought(listing', q) \in Nat
        /\ Bought(listing', q) + PaidFor(listing[l], q)
             = Bought(listing, q) + PaidFor(listing'[l], q)
        /\ SoldBy(listing, q) \in Nat /\ SoldBy(listing', q) \in Nat
        /\ SoldBy(listing', q) + EarnedBy(listing[l], q)
             = SoldBy(listing, q) + EarnedBy(listing'[l], q)
    <3>1. PICK L \in Listings, M \in Listings : L = listing /\ M = listing'
      BY <1>1
    <3>2. \A k \in Listing \ {l} : M[k] = L[k]
      BY <1>8, <3>1
    <3>3. /\ Bought(L, q) \in Nat /\ Bought(M, q) \in Nat
          /\ Bought(M, q) + PaidFor(L[l], q) = Bought(L, q) + PaidFor(M[l], q)
          /\ SoldBy(L, q) \in Nat /\ SoldBy(M, q) \in Nat
          /\ SoldBy(M, q) + EarnedBy(L[l], q) = SoldBy(L, q) + EarnedBy(M[l], q)
      BY <3>2, SalesChange
    <3> QED BY ONLY <3>1, <3>3
  <2>6. /\ Bought(listing', q) = Bought(listing, q) + paid
        /\ SoldBy(listing', q) = SoldBy(listing, q) + earned
    BY <2>1, <2>4, <2>5
  <2>7. /\ Paying(settling, q) = Paying(settling', q) + paid
        /\ Earning(settling, q) = Earning(settling', q) + earned
        /\ Paying(settling', q) \in Nat /\ Earning(settling', q) \in Nat
    <3>1. PICK S \in Seq(Frame), T \in Seq(Frame) : S = settling' /\ T = settling
      BY <1>1
    <3>2. /\ Len(T) = Len(S) + 1 /\ T[Len(T)] = frame /\ \A i \in 1..Len(S) : T[i] = S[i]
      BY <1>2, <1>10, <3>1
    <3>3. /\ Paying(S, q) \in Nat /\ Earning(S, q) \in Nat
          /\ Paying(T, q) = Paying(S, q) + PaidIn(T[Len(T)], q)
          /\ Earning(T, q) = Earning(S, q) + EarnedIn(T[Len(T)], q)
      BY <3>2, FramesChange
    <3> QED BY ONLY <2>3, <3>1, <3>2, <3>3
  <2>8. gas[q] \in Nat /\ Held(pending, q) \in Nat
    BY <1>1, MoneyTypes
  <2>9. gas[q] + Held(pending, q) + Bought(listing, q) + Paying(settling, q)
          = Funds + SoldBy(listing, q) + Earning(settling, q)
    BY DEF Money, Ledger
  <2>10. PICK g \in Nat, h \in Nat, b \in Nat, d \in Nat, y \in Nat, e \in Nat :
          /\ g = gas[q] /\ h = Held(pending, q) /\ b = Bought(listing, q)
          /\ d = SoldBy(listing, q) /\ y = Paying(settling', q) /\ e = Earning(settling', q)
    BY <2>5, <2>7, <2>8
  <2>11. g + h + b + (y + paid) = Funds + d + (e + earned)
    BY <2>7, <2>9, <2>10
  <2>12. Funds \in Nat
    BY DEF MarketAssumption
  <2>13. g + h + (b + paid) + y = Funds + (d + earned) + e
    BY ONLY <2>11, <2>12, paid \in Nat, earned \in Nat, g \in Nat, h \in Nat, b \in Nat,
       d \in Nat, y \in Nat, e \in Nat
  <2> QED BY <1>6, <2>6, <2>10, <2>13
<1>13. PaymentsBacked'
  BY <1>6 DEF Money, PaymentsBacked
<1>14. Unsold'
  BY <1>5, <1>8 DEF Money, Unsold
<1> QED BY <1>12, <1>13, <1>14 DEF Money, Ledger

LEMMA MoneyStep ==
  ASSUME MarketAssumption, NoListingAssumption, MarketTypeOK, MarketTypeOK', Listed, Money,
         [SaleNext]_vars, ~Abort
  PROVE  Money'
<1>0. /\ listing \in Listings /\ listing' \in Listings
      /\ gas \in [Owner \cup {AAMarket} -> Nat]
      /\ pending \in [Listing -> [Owner -> Price \cup {0}]]
  BY DEF MarketTypeOK, Listings
<1>1. CASE UNCHANGED <<gas, pending, settling, listing>>
  BY <1>1, MoneyUntouched
<1>2. ASSUME NEW a \in Account, NEW price \in Price, CreateListing(a, price)
      PROVE  Money'
  <2>1. PICK l \in Listing : l = nextListingId
    BY <1>2 DEF CreateListing
  <2>2. listing[l] = None
    <3>1. l \in Nat /\ (listing[l] # None => l < l)
      BY <2>1 DEF Listed, MarketAssumption
    <3> QED BY <3>1
  <2>3. PICK new : new = [account |-> a, seller |-> account[a].backupOwner,
                          price |-> price, status |-> "active", buyer |-> Zero]
    OBVIOUS
  <2>4. listing' = [listing EXCEPT ![l] = new] /\ UNCHANGED <<gas, pending, settling>>
    BY <1>2, <2>1, <2>3 DEF CreateListing, funds, frames
  <2>5. /\ listing'[l].status # "sold" /\ listing'[l].buyer = Zero
        /\ \A k \in Listing \ {l} : listing'[k] = listing[k]
    BY <1>0, <2>3, <2>4 DEF Listings
  <2> QED BY <2>2, <2>4, <2>5, MoneyListing
<1>3. ASSUME NEW l \in Listing, NEW price \in Price, UpdateListingPrice(l, price)
      PROVE  Money'
  <2>1. listing[l] \in ListingRecord /\ listing[l].status = "active"
    BY <1>0, <1>3 DEF UpdateListingPrice, Active, Listings
  <2>2. listing[l].buyer = Zero
    BY <1>3, <2>1 DEF UpdateListingPrice, Active, Money, Unsold
  <2>3. PICK r : r = [listing[l] EXCEPT !.price = price]
    OBVIOUS
  <2>4. r.status = "active" /\ r.buyer = Zero
    BY <2>1, <2>2, <2>3 DEF ListingRecord
  <2>5. listing' = [listing EXCEPT ![l] = r] /\ UNCHANGED <<gas, pending, settling>>
    BY <1>3, <2>3 DEF UpdateListingPrice, funds, frames
  <2>6. listing'[l] = r /\ \A k \in Listing \ {l} : listing'[k] = listing[k]
    BY <1>0, <2>5 DEF Listings
  <2> QED BY <2>1, <2>4, <2>5, <2>6, MoneyListing
<1>4. ASSUME NEW l \in Listing, Active(l), UNCHANGED <<gas, pending, settling>>,
             listing' = [listing EXCEPT ![l].status = "cancelled"]
      PROVE  Money'
  <2>1. listing[l] \in ListingRecord /\ listing[l].status = "active"
    BY <1>0, <1>4 DEF Active, Listings
  <2>2. listing[l].buyer = Zero
    BY <1>4, <2>1 DEF Active, Money, Unsold
  <2>3. PICK r : r = [listing[l] EXCEPT !.status = "cancelled"]
    OBVIOUS
  <2>4. r.status = "cancelled" /\ r.buyer = Zero
    BY <2>1, <2>2, <2>3 DEF ListingRecord
  <2>5. listing'[l] = r /\ \A k \in Listing \ {l} : listing'[k] = listing[k]
    BY <1>0, <1>4, <2>3 DEF Listings
  <2> QED BY <1>4, <2>1, <2>4, <2>5, MoneyListing
<1>5. ASSUME NEW l \in Listing, CancelListing(l) PROVE Money'
  BY <1>4, <1>5 DEF CancelListing, funds, frames
<1>6. ASSUME NEW a \in Account, NEW o \in Owner, ForceCancelListing(a, o)
      PROVE  Money'
  <2>1. PICK l : l = escrow[a].listing
    OBVIOUS
  <2>2. AbandonListing(a, l) /\ UNCHANGED <<gas, pending, settling>>
    BY <1>6, <2>1 DEF ForceCancelListing, funds, frames
  <2>3. l \in Listing
    BY <1>6, <2>1 DEF ForceCancelListing, MarketTypeOK, TypeOK, Escrow
  <2>4. CASE listing' = listing
    BY <1>1, <2>2, <2>4
  <2>5. CASE Active(l) /\ listing' = [listing EXCEPT ![l].status = "cancelled"]
    BY <1>4, <2>2, <2>3, <2>5
  <2> QED BY <2>2, <2>4, <2>5 DEF AbandonListing
<1>7. ASSUME NEW l \in Listing, NEW p \in Owner, NEW amount \in Price,
             OnNEP17Payment(l, p, amount)
      PROVE  Money'
  <2>1. amount \in Nat /\ p # AAMarket
    BY DEF MarketAssumption
  <2>2. /\ gas'[p] = gas[p] - amount /\ gas'[AAMarket] = gas[AAMarket] + amount
        /\ \A q \in Owner \ {p} : gas'[q] = gas[q]
    <3>1. Transfer(p, AAMarket, amount)
      BY <1>7 DEF OnNEP17Payment
    <3> QED BY <1>0, <2>1, <3>1, MoneyTransfer DEF MarketAssumption
  <2>3. /\ pending[l][p] = 0 /\ pending' = [pending EXCEPT ![l][p] = amount]
        /\ UNCHANGED <<settling, listing>>
    BY <1>7 DEF OnNEP17Payment, AcceptsPayment, PutPendingPayment, frames
  <2>4. gas'[p] + amount = gas[p] /\ gas'[AAMarket] = gas[AAMarket] + amount
    BY <1>0, <2>1, <2>2
  <2>5. gas[p] \in Nat /\ gas'[p] \in Nat /\ gas[AAMarket] \in Nat /\ gas'[AAMarket] \in Nat
    <3>1. gas' \in [Owner \cup {AAMarket} -> Nat]
      BY DEF MarketTypeOK
    <3> QED BY <1>0, <3>1
  <2>6. PICK z \in Nat : z = 0
    OBVIOUS
  <2>7. gas'[p] + amount = gas[p] + z /\ gas'[AAMarket] + z = gas[AAMarket] + amount
    BY ONLY <2>1, <2>4, <2>5, <2>6
  <2>8. pending[l][p] = z
    BY ONLY <2>3, <2>6
  <2> QED BY <2>1, <2>2, <2>3, <2>7, <2>8, MoneyPayment
<1>8. ASSUME NEW l \in Listing, NEW p \in Owner, RefundPendingPayment(l, p)
      PROVE  Money'
  <2>0. pending[l][p] \in Price \cup {0}
    BY <1>0
  <2>1. PICK x \in Nat : x = pending[l][p]
    BY <2>0 DEF MarketAssumption
  <2>2. p # AAMarket
    BY DEF MarketAssumption
  <2>3. /\ gas'[p] = gas[p] + x /\ gas'[AAMarket] = gas[AAMarket] - x
        /\ \A q \in Owner \ {p} : gas'[q] = gas[q]
    <3>1. Transfer(AAMarket, p, x)
      BY <1>8, <2>1 DEF RefundPendingPayment
    <3> QED BY <1>0, <2>2, <3>1, MoneyTransfer DEF MarketAssumption
  <2>4. pending' = [pending EXCEPT ![l][p] = 0] /\ UNCHANGED <<settling, listing>>
    BY <1>8 DEF RefundPendingPayment, ClearPendingPayment, frames
  <2>5. gas'[p] + 0 = gas[p] + x /\ gas'[AAMarket] + x = gas[AAMarket] + 0
    BY <1>0, <2>3
  <2> QED BY <2>1, <2>3, <2>4, <2>5, MoneyPayment
<1>9. ASSUME NEW l \in Listing, NEW p \in Owner, NEW o \in Owner, SettleListing(l, p, o)
      PROVE  Money'
  BY <1>9, MoneySettle
<1>10. ASSUME SettleClose PROVE Money'
  BY <1>10, MoneyClose
<1>11. CASE UNCHANGED vars
  BY <1>1, <1>11 DEF vars, marketVars
<1>12. CASE OwnershipNext
  BY <1>1, <1>12 DEF OwnershipNext, marketVars
<1>13. CASE \E allowed \in BOOLEAN : SetAllowedAA(allowed)
  BY <1>1, <1>13 DEF SetAllowedAA, funds, frames
<1> QED
  BY <1>2, <1>3, <1>5, <1>6, <1>7, <1>8, <1>9, <1>10, <1>11, <1>12, <1>13
     DEF SaleNext, MarketNext

-----------------------------------------------------------------------------
(* The invariant of the market: what holds now, and what an abort would put *)
(* back.                                                                    *)
MarketInv ==
  /\ MarketTypes /\ Listed /\ Counted /\ Money
  /\ ~Idle => ListedBook(saved) /\ CountedBook(saved) /\ MoneyBook(saved)

LEMMA MarketInvInit ==
  ASSUME MarketAssumption, MarketInit
  PROVE  MarketInv
<1>0. IsFiniteSet(Owner) /\ IsFiniteSet(Listing)
  BY DEF MarketAssumption
<1>1. MarketTypes /\ Idle
  BY MarketTypesInit DEF MarketInit, Idle
<1>2. MarketTypeOK
  BY <1>1 DEF MarketTypes
<1>3. /\ \A l \in Listing : listing[l] = None
      /\ \A l \in Listing, p \in Owner : pending[l][p] = 0
      /\ \A l \in Listing : pendingCount[l] = 0
      /\ \A a \in Account : escrow[a] = None
      /\ gas[AAMarket] = 0 /\ \A p \in Owner : gas[p] = Funds
      /\ settling = <<>>
  <2>1. /\ \A l \in Listing : listing[l] = None
        /\ \A l \in Listing, p \in Owner : pending[l][p] = 0
        /\ \A l \in Listing : pendingCount[l] = 0
        /\ settling = <<>>
    BY DEF MarketInit
  <2>2. \A a \in Account : escrow[a] = None
    BY DEF MarketInit, Init
  <2>3. gas = [p \in Owner \cup {AAMarket} |-> IF p = AAMarket THEN 0 ELSE Funds]
    BY DEF MarketInit
  <2>4. gas[AAMarket] = 0
    BY <2>3
  <2>5. \A p \in Owner : gas[p] = Funds
    BY <2>3 DEF MarketAssumption
  <2> QED BY <2>1, <2>2, <2>4, <2>5
<1>4. Listed
  BY <1>3 DEF Listed, Active
<1>5. Counted
  <2>1. \A l \in Listing : {p \in Owner : pending[l][p] > 0} = {}
    BY <1>3
  <2>2. PendingCountExact
    BY <1>3, <2>1, FS_EmptySet DEF PendingCountExact
  <2>3. ASSUME NEW l \in Listing, NEW p \in Owner PROVE ~(pending[l][p] > 0)
    <3>1. pending[l][p] = 0
      BY <1>3
    <3> QED BY ONLY <3>1
  <2> QED BY <2>2, <2>3 DEF Counted, PaymentsMatchPrice
<1>6. PaymentsBacked
  <2> DEFINE f == [l \in Listing |-> SumOver(pending[l], Owner)]
  <2>1. \A l \in Listing : SumOver(pending[l], Owner) = 0
    BY <1>0, <1>3, SumZero
  <2>2. \A l \in Listing : f[l] = 0
    BY <2>1
  <2>3. PaymentsBacked <=> gas[AAMarket] = SumOver(f, Listing)
    BY DEF PaymentsBacked
  <2> HIDE DEF f
  <2>4. SumOver(f, Listing) = 0
    BY ONLY <1>0, <2>2, SumZero
  <2> QED BY <1>3, <2>3, <2>4
<1>7. ASSUME NEW p \in Owner
      PROVE  gas[p] + Held(pending, p) + Bought(listing, p) + Paying(settling, p)
               = Funds + SoldBy(listing, p) + Earning(settling, p)
  <2> DEFINE f == [l \in Listing |-> pending[l][p]]
             g == [l \in Listing |-> PaidFor(listing[l], p)]
             h == [l \in Listing |-> EarnedBy(listing[l], p)]
  <2>1. \A l \in Listing : f[l] = 0 /\ g[l] = 0 /\ h[l] = 0
    BY <1>3 DEF PaidFor, EarnedBy
  <2>2. /\ Held(pending, p) = SumOver(f, Listing) /\ Bought(listing, p) = SumOver(g, Listing)
        /\ SoldBy(listing, p) = SumOver(h, Listing)
    BY DEF Held, Bought, SoldBy
  <2> HIDE DEF f, g, h
  <2>3. SumOver(f, Listing) = 0 /\ SumOver(g, Listing) = 0 /\ SumOver(h, Listing) = 0
    BY ONLY <1>0, <2>1, SumZero
  <2>4. Paying(settling, p) = 0 /\ Earning(settling, p) = 0
    BY <1>3, NoFrames
  <2>5. Funds \in Nat
    BY DEF MarketAssumption
  <2> QED BY ONLY <1>3, <2>2, <2>3, <2>4, <2>5, p \in Owner
<1>8. Unsold
  BY <1>3 DEF Unsold
<1> QED BY <1>1, <1>4, <1>5, <1>6, <1>7, <1>8 DEF MarketInv, Money, Ledger

LEMMA MarketInvStep ==
  ASSUME MarketAssumption, NoListingAssumption, MarketInv, [SaleNext]_vars
  PROVE  MarketInv'
<1>1. MarketTypes'
  BY MarketTypesStep DEF MarketInv
<1>2. MarketTypeOK /\ MarketTypeOK'
  BY <1>1 DEF MarketInv, MarketTypes
<1>3. CASE Abort
  <2>1. ~Idle
    BY <1>3 DEF Abort
  <2>2. Listed'
    BY <1>3, <2>1, AbortListed DEF MarketInv
  <2>3. Counted'
    BY <1>3, <2>1, AbortCounted DEF MarketInv
  <2>4. Money'
    BY <1>2, <1>3, <2>1, AbortMoney DEF MarketInv
  <2>5. Idle'
    BY <1>3 DEF Abort, Idle
  <2> QED BY <1>1, <2>2, <2>3, <2>4, <2>5 DEF MarketInv
<1>4. CASE ~Abort
  <2>1. Listed'
    BY <1>4, ListedStep DEF MarketInv
  <2>2. Counted'
    BY <1>4, CountedStep DEF MarketInv
  <2>3. Money'
    BY <1>2, <1>4, MoneyStep DEF MarketInv
  <2>4. Idle => ListedBook(Snapshot) /\ CountedBook(Snapshot) /\ MoneyBook(Snapshot)
    BY <1>2, SnapshotListed, SnapshotCounted, SnapshotMoney DEF MarketInv
  <2>5. ~Idle' => ListedBook(saved') /\ CountedBook(saved') /\ MoneyBook(saved')
    BY <1>2, <2>4, SavedStep DEF MarketInv
  <2> QED BY <1>1, <2>1, <2>2, <2>3, <2>5 DEF MarketInv
<1> QED BY <1>3, <1>4

LEMMA MarketInvariant == MarketSpec => []MarketInv
<1>1. MarketInit => MarketInv
  BY MarketInvInit, MarketAssumption
<1>2. MarketInv /\ [SaleNext]_vars => MarketInv'
  BY MarketInvStep, MarketAssumption, NoListingAssumption
<1> QED BY <1>1, <1>2, PTL DEF MarketSpec

(* Between transactions a listing is open exactly while the wallet holds    *)
(* its account in escrow for it (ListedIffEscrowed), for any number of      *)
(* accounts and listings and any depth of nested settlements: creation,     *)
(* cancellation, settlement and the owner's forced exit open and close the  *)
(* two together, and an aborted settlement puts both back.                  *)
THEOREM ListingsMatchEscrows == MarketSpec => []ListedIffEscrowed
<1>1. MarketInv => ListedIffEscrowed
  BY DEF MarketInv, Listed, ListedIffEscrowed
<1> QED BY <1>1, MarketInvariant, PTL

(* Every deposit is backed by the market's GAS, counted, and at the price   *)
(* of its listing while that is open (DepositsInOrder), in the middle of a  *)
(* settlement too: AAAddressMarket can always refund all of its buyers.     *)
THEOREM DepositsSafe == MarketSpec => []DepositsInOrder
<1>1. MarketInv => DepositsInOrder
  BY DEF MarketInv, MarketTypes, Counted, Money, DepositsInOrder
<1> QED BY <1>1, MarketInvariant, PTL

(* Nobody's GAS is lost or made: between transactions what a principal has  *)
(* spent is on deposit or bought an account at its price, and what he has   *)
(* gained was paid for one he sold (SalesPaidAtPrice).                      *)
THEOREM SalesAccounted == MarketSpec => []SalesPaidAtPrice
<1>1. MarketInv => SalesPaidAtPrice
  <2> SUFFICES ASSUME MarketInv, Idle, NEW p \in Owner
               PROVE  gas[p] + Held(pending, p) + Bought(listing, p)
                        = Funds + SoldBy(listing, p)
    BY DEF SalesPaidAtPrice, Held, Bought, SoldBy, PaidFor, EarnedBy
  <2>1. MoneyBook(Snapshot)
    BY SnapshotMoney, MarketAssumption DEF MarketInv, MarketTypes
  <2>2. Snapshot.gas = gas /\ Snapshot.pending = pending /\ Snapshot.listing = listing
    BY DEF Snapshot
  <2> QED BY <2>1, <2>2 DEF MoneyBook
<1> QED BY <1>1, MarketInvariant, PTL
=============================================================================
