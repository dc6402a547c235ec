-------------------------- MODULE ContractAuthority --------------------------
(***************************************************************************)
(* The administration of one deployed contract: the wallet core            *)
(* (UnifiedSmartWallet.Admin, PlatformRegistrar), a hook (HookAuthority), a *)
(* verifier (VerifierAuthority), the paymaster (PaymasterAuthority), the   *)
(* address market or the recovery verifier.  They share one discipline,    *)
(* written out six times in the code: a proposal and the time it was made  *)
(* lie in two storage cells, a confirmation seven days later applies and   *)
(* deletes both.  A slot is one thing that is administered.                *)
(*                                                                         *)
(* Every action is one transaction; signer is the witness it checks.       *)
(***************************************************************************)
EXTENDS Integers

CONSTANTS
    Keys,          \* addresses somebody can sign for
    LostKeys,      \* addresses nobody can sign for
    Contracts,     \* cores, registries and registrars
    Nefs, Manifests,
    Zero, None,
    Delay,         \* AdminRotationTimelockMs, MinUpgradeDelayMs: seven days
    MaxTime,       \* bound on the clock
    MaxProposals   \* bound on the proposals made

ASSUME DelayAssumption == Delay \in Nat \ {0}
ASSUME NamesAssumption == /\ Zero \notin Keys \cup Contracts
                          /\ None \notin Keys \cup LostKeys \cup Contracts \cup {Zero}
ASSUME CodeAssumption == /\ None \notin [nef : Nefs, manifest : Manifests]
                         /\ Zero \notin [nef : Nefs, manifest : Manifests]
ASSUME BoundsAssumption == MaxTime \in Nat /\ MaxProposals \in Nat

Addresses == Keys \cup LostKeys \cup {Zero}
Code == [nef : Nefs, manifest : Manifests]
Settings == {"core", "registry", "registrar"}
Slots == Settings \cup {"admin", "code"}

Kinds == {"wallet", "hook", "verifier", "paymaster", "market", "recovery"}

\* The settings a kind of contract has beside its administrator and its code.
SettingsOf(k) ==
    CASE k = "wallet" -> {"registrar"}
      [] k = "hook" -> {"core", "registry"}
      [] k = "market" -> {}
      [] OTHER -> {"core"}

\* The registrar has no immediate first setting; core and registry have.
SetAtOnce == {"core", "registry"}

\* RotateAdmin of a hook, a verifier and the paymaster accepts the zero address
\* (nobody can confirm it); the other contracts refuse it.
RefusesZero == {"wallet", "market", "recovery"}

ValuesOf(s) ==
    IF s = "admin" THEN Addresses ELSE IF s = "code" THEN Code ELSE Contracts \cup {Zero}

AllValues == Addresses \cup Code \cup Contracts

VARIABLES
    kind,      \* the contract under administration
    value,     \* what is in force in each slot
    pending,   \* Prefix_Pending*: what is proposed, None when nothing is
    timelock,  \* Prefix_*Timelock: when it was proposed
    now,       \* Runtime.Time
    since,     \* history: since when the pending value has stood unaltered
    namedBy,   \* history: the administrator who proposed the succession
    proposals  \* proposals made, to bound the runs

vars == <<kind, value, pending, timelock, now, since, namedBy, proposals>>

TypeOK ==
    /\ kind \in Kinds
    /\ value \in [Slots -> AllValues]
    /\ pending \in [Slots -> AllValues \cup {None}]
    /\ \A s \in Slots : value[s] \in ValuesOf(s) /\ pending[s] \in ValuesOf(s) \cup {None}
    /\ timelock \in [Slots -> Nat \cup {None}]
    /\ since \in [Slots -> Nat \cup {None}]
    /\ now \in Nat
    /\ namedBy \in Addresses \cup {None}
    /\ proposals \in Nat

\* The deployer becomes administrator; the core may be given at deployment.
Init ==
    /\ kind \in Kinds
    /\ value \in [Slots -> AllValues]
    /\ value["admin"] \in Keys
    /\ value["code"] \in Code
    /\ value["core"] \in Contracts \cup {Zero}
    /\ kind \notin {"hook", "verifier", "paymaster"} => value["core"] = Zero
    /\ value["registry"] = Zero
    /\ value["registrar"] = Zero
    /\ pending = [s \in Slots |-> None]
    /\ timelock = [s \in Slots |-> None]
    /\ since = [s \in Slots |-> None]
    /\ now = 0
    /\ namedBy = None
    /\ proposals = 0

ValidateAdmin(signer) == value["admin"] # Zero /\ value["admin"] = signer

---------------------------------------------------------------------------
(* The two cells of a proposal.                                            *)

\* (Mutant: a second proposal keeps the clock of the first.)
PutProposal_KeepsClock(s, v) ==
    /\ proposals < MaxProposals
    /\ pending' = [pending EXCEPT ![s] = v]
    /\ timelock' = [timelock EXCEPT ![s] = IF @ = None THEN now ELSE @]
    /\ since' = [since EXCEPT ![s] = IF pending[s] = v THEN @ ELSE now]
    /\ proposals' = proposals + 1
    /\ UNCHANGED <<kind, value, now>>

PutProposal(s, v) ==
    /\ proposals < MaxProposals
    /\ pending' = [pending EXCEPT ![s] = v]
    /\ timelock' = [timelock EXCEPT ![s] = now]
    /\ since' = [since EXCEPT ![s] = IF pending[s] = v THEN @ ELSE now]
    /\ proposals' = proposals + 1
    /\ UNCHANGED <<kind, value, now>>

\* (Mutant: only the proposal is deleted, its clock runs on.)
DeleteProposal_KeepsClock(s) ==
    /\ pending' = [pending EXCEPT ![s] = None]
    /\ since' = [since EXCEPT ![s] = None]
    /\ UNCHANGED timelock

DeleteProposal(s) ==
    /\ pending' = [pending EXCEPT ![s] = None]
    /\ timelock' = [timelock EXCEPT ![s] = None]
    /\ since' = [since EXCEPT ![s] = None]

Matured(s) ==
    /\ pending[s] # None
    /\ timelock[s] # None
    /\ now >= timelock[s] + Delay

Apply(s) ==
    /\ value' = [value EXCEPT ![s] = pending[s]]
    /\ DeleteProposal(s)

Withdraw(s) == DeleteProposal(s) /\ UNCHANGED <<kind, value, now, proposals>>

---------------------------------------------------------------------------
(* Core, registry and registrar.                                           *)

\* SetAuthorizedCore, SetRegistry: at once, but only over an empty setting.
\* A proposal that is already pending stays.
SetAuthorizedCore(s, c, signer) ==
    /\ s \in SettingsOf(kind) \cap SetAtOnce
    /\ ValidateAdmin(signer)
    /\ value[s] = Zero
    /\ value' = [value EXCEPT ![s] = c]
    /\ UNCHANGED <<kind, pending, timelock, now, since, namedBy, proposals>>

\* ProposeAuthorizedCore, ProposeRegistry, ProposePlatformRegistrar.  Only the
\* registrar's refuses the value in force.
ProposeAuthorizedCore(s, c, signer) ==
    /\ s \in SettingsOf(kind)
    /\ ValidateAdmin(signer)
    /\ s = "registrar" => c # value[s]
    /\ PutProposal(s, c)
    /\ UNCHANGED namedBy

ConfirmAuthorizedCore(s, c, signer) ==
    /\ s \in SettingsOf(kind)
    /\ ValidateAdmin(signer)
    /\ Matured(s)
    /\ pending[s] = c
    /\ Apply(s)
    /\ UNCHANGED <<kind, now, namedBy, proposals>>

CancelAuthorizedCoreChange(s, signer) ==
    /\ s \in SettingsOf(kind)
    /\ ValidateAdmin(signer)
    /\ Withdraw(s)
    /\ UNCHANGED namedBy

---------------------------------------------------------------------------
(* The contract's own code.                                                *)

ProposeUpdate(nef, manifest, signer) ==
    /\ ValidateAdmin(signer)
    /\ PutProposal("code", [nef |-> nef, manifest |-> manifest])
    /\ UNCHANGED namedBy

CancelUpdate(signer) ==
    /\ ValidateAdmin(signer)
    /\ Withdraw("code")
    /\ UNCHANGED namedBy

\* The proposal is deleted before ContractManagement.Update replaces the code.
\* The new code is taken to administer itself as the old one did.
Update(nef, manifest, signer) ==
    /\ ValidateAdmin(signer)
    /\ Matured("code")
    /\ pending["code"].nef = nef
    /\ pending["code"].manifest = manifest
    /\ Apply("code")
    /\ UNCHANGED <<kind, now, namedBy, proposals>>

---------------------------------------------------------------------------
(* The administrator's succession.                                         *)

RotateAdmin(newAdmin, signer) ==
    /\ ValidateAdmin(signer)
    /\ kind \in RefusesZero => newAdmin # Zero
    /\ newAdmin # value["admin"]
    /\ PutProposal("admin", newAdmin)
    /\ namedBy' = value["admin"]

\* (Mutant: the proposal is not deleted.)
ConfirmAdminRotation_KeepsProposal(newAdmin, signer) ==
    /\ Matured("admin")
    /\ pending["admin"] = newAdmin
    /\ newAdmin = signer
    /\ value' = [value EXCEPT !["admin"] = newAdmin]
    /\ UNCHANGED <<kind, pending, timelock, now, since, namedBy, proposals>>

\* (Mutant: the incumbent confirms instead of the successor.)
ConfirmAdminRotation_ByIncumbent(newAdmin, signer) ==
    /\ ValidateAdmin(signer)
    /\ Matured("admin")
    /\ pending["admin"] = newAdmin
    /\ Apply("admin")
    /\ namedBy' = None
    /\ UNCHANGED <<kind, now, proposals>>

\* The successor confirms; the incumbent is not asked again.  Every other
\* proposal stays as the incumbent left it.
ConfirmAdminRotation(newAdmin, signer) ==
    /\ Matured("admin")
    /\ pending["admin"] = newAdmin
    /\ newAdmin = signer
    /\ Apply("admin")
    /\ namedBy' = None
    /\ UNCHANGED <<kind, now, proposals>>

CancelAdminRotation(signer) ==
    /\ ValidateAdmin(signer)
    /\ Withdraw("admin")
    /\ namedBy' = None

Tick ==
    /\ now < MaxTime
    /\ now' = now + 1
    /\ UNCHANGED <<kind, value, pending, timelock, since, namedBy, proposals>>

SettingsNext(signer) ==
    \E s \in Settings :
        \/ \E c \in Contracts : \/ SetAuthorizedCore(s, c, signer)
                                \/ ProposeAuthorizedCore(s, c, signer)
                                \/ ConfirmAuthorizedCore(s, c, signer)
        \/ CancelAuthorizedCoreChange(s, signer)

CodeNext(signer) ==
    \/ \E nef \in Nefs, manifest \in Manifests : \/ ProposeUpdate(nef, manifest, signer)
                                                 \/ Update(nef, manifest, signer)
    \/ CancelUpdate(signer)

AdminNext(signer) ==
    \/ \E a \in Addresses : RotateAdmin(a, signer) \/ ConfirmAdminRotation(a, signer)
    \/ CancelAdminRotation(signer)

Next ==
    \/ Tick
    \/ \E signer \in Keys :
           SettingsNext(signer) \/ CodeNext(signer) \/ AdminNext(signer)

Spec == Init /\ [][Next]_vars

---------------------------------------------------------------------------
(* Properties.                                                             *)

\* Nothing a contract's users rely on changes before it has stood announced,
\* unaltered, for seven days: not by a proposal replaced while its clock runs,
\* not by one applied twice, not by one left behind by an earlier administrator
\* (HookAuthority.cs:73-76, UnifiedSmartWallet.Admin.cs:60-65,89-94).
Notice == INSTANCE PublicNotice WITH
    Values <- AllValues,
    Unset <- Zero,
    notice <- [s \in Slots |-> IF pending[s] = None THEN {}
                               ELSE {[to |-> pending[s], since |-> since[s]]}]

ImplementsPublicNotice == Notice!Spec

\* The two cells of a proposal are written and deleted together: a clock runs
\* exactly while something is proposed, and it was not started before that
\* proposal stood (HookAuthority.cs:81-108,162-178).
ProposalsTimed ==
    \A s \in Slots :
        IF pending[s] = None
        THEN timelock[s] = None
        ELSE /\ timelock[s] \in Nat /\ since[s] \in Nat
             /\ since[s] <= timelock[s] /\ timelock[s] <= now

CellsConsistent == TypeOK /\ ProposalsTimed

\* A succession in progress was proposed by the administrator in office: a
\* former administrator's choice never comes back to unseat the successor
\* (ConfirmAdminTransfer deletes what it applied, UnifiedSmartWallet.Admin.cs:184-186).
SuccessorNamedByIncumbent == pending["admin"] # None => namedBy = value["admin"]

\* The role never moves to an address nobody can sign for, although it may be
\* proposed to one (UnifiedSmartWallet.Admin.cs:31-35: a rotation must not
\* "burn the role to an address nobody controls").
RoleNeverBurnt == value["admin"] \in Keys

\* The role passes only to somebody its holder named and who can sign.
OrderlySuccession == SuccessorNamedByIncumbent /\ RoleNeverBurnt

=============================================================================
