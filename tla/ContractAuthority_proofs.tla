----------------------- MODULE ContractAuthority_proofs -----------------------
(* Machine-checked theorems about ContractAuthority, for every kind of      *)
(* contract, all keys, contracts and artifacts, every delay and without the *)
(* bounds of the runs mattering.                                            *)
EXTENDS ContractAuthority, TLAPS

(* The inductive invariant. *)
Administration ==
  /\ TypeOK
  /\ ProposalsTimed
  /\ SuccessorNamedByIncumbent
  /\ RoleNeverBurnt

(* No value is None, so that a slot is empty exactly when it holds None. *)
LEMMA ValuesAreNotNone ==
  \A s \in Slots : None \notin ValuesOf(s) /\ ValuesOf(s) \subseteq AllValues
BY NamesAssumption, CodeAssumption DEF ValuesOf, AllValues, Addresses, Code, Slots, Settings

LEMMA SlotsDistinct ==
  /\ "admin" \in Slots /\ "code" \in Slots
  /\ \A s \in Settings : s \in Slots /\ s # "admin" /\ s # "code"
BY DEF Slots, Settings

(* The three things a transaction does to a slot keep the invariant's part  *)
(* about slots, whatever happens to the rest of the state.                  *)
LEMMA ProposalKept ==
  ASSUME TypeOK, ProposalsTimed, NEW s \in Slots, NEW v \in ValuesOf(s),
         PutProposal(s, v), namedBy' \in Addresses \cup {None}
  PROVE  TypeOK' /\ ProposalsTimed'
<1>1. v # None /\ v \in AllValues
  BY ValuesAreNotNone
<1>2. TypeOK'
  BY <1>1 DEF TypeOK, PutProposal
<1>3. ASSUME NEW t \in Slots
      PROVE  IF pending'[t] = None
             THEN timelock'[t] = None
             ELSE /\ timelock'[t] \in Nat /\ since'[t] \in Nat
                  /\ since'[t] <= timelock'[t] /\ timelock'[t] <= now'
  <2>1. CASE t # s
    BY <2>1 DEF PutProposal, TypeOK, ProposalsTimed
  <2>2. CASE t = s /\ pending[s] = v
    BY <1>1, <2>2 DEF PutProposal, TypeOK, ProposalsTimed
  <2>3. CASE t = s /\ pending[s] # v
    BY <1>1, <2>3 DEF PutProposal, TypeOK
  <2> QED
    BY <2>1, <2>2, <2>3
<1> QED
  BY <1>2, <1>3 DEF ProposalsTimed

LEMMA DeletionKept ==
  ASSUME TypeOK, ProposalsTimed, NEW s \in Slots, DeleteProposal(s),
         value' \in [Slots -> AllValues], \A t \in Slots : value'[t] \in ValuesOf(t),
         UNCHANGED <<kind, now, proposals>>, namedBy' \in Addresses \cup {None}
  PROVE  TypeOK' /\ ProposalsTimed'
<1>1. TypeOK'
  BY DEF TypeOK, DeleteProposal
<1>2. ProposalsTimed'
  BY DEF TypeOK, ProposalsTimed, DeleteProposal
<1> QED
  BY <1>1, <1>2

LEMMA ApplicationKept ==
  ASSUME TypeOK, ProposalsTimed, NEW s \in Slots, Matured(s), Apply(s),
         UNCHANGED <<kind, now, proposals>>, namedBy' \in Addresses \cup {None}
  PROVE  TypeOK' /\ ProposalsTimed'
<1>1. pending[s] \in ValuesOf(s) /\ pending[s] \in AllValues
  BY ValuesAreNotNone DEF TypeOK, Matured
<1>2. /\ value' \in [Slots -> AllValues]
      /\ \A t \in Slots : value'[t] \in ValuesOf(t)
  BY <1>1 DEF TypeOK, Apply
<1> QED
  BY <1>2, DeletionKept DEF Apply

LEMMA WithdrawalKept ==
  ASSUME TypeOK, ProposalsTimed, NEW s \in Slots, Withdraw(s),
         namedBy' \in Addresses \cup {None}
  PROVE  TypeOK' /\ ProposalsTimed'
BY DeletionKept DEF Withdraw, TypeOK

LEMMA AdministrationInit == Init => Administration
<1> SUFFICES ASSUME Init PROVE Administration
  OBVIOUS
<1>1. \A s \in Slots : value[s] \in ValuesOf(s)
  BY DEF Init, Slots, Settings, ValuesOf, Addresses
<1>2. TypeOK
  BY <1>1 DEF Init, TypeOK
<1> QED
  BY <1>2, SlotsDistinct
     DEF Init, Administration, ProposalsTimed, SuccessorNamedByIncumbent, RoleNeverBurnt

(* A transaction about the settings leaves the administrator and his        *)
(* succession alone.                                                        *)
LEMMA SettingsStep ==
  ASSUME Administration, NEW signer \in Keys, SettingsNext(signer)
  PROVE  Administration'
<1>1. PICK s \in Settings :
        \/ \E c \in Contracts : \/ SetAuthorizedCore(s, c, signer)
                                \/ ProposeAuthorizedCore(s, c, signer)
                                \/ ConfirmAuthorizedCore(s, c, signer)
        \/ CancelAuthorizedCoreChange(s, signer)
  BY DEF SettingsNext
<1>2. s \in Slots /\ s # "admin" /\ "admin" \in Slots /\ Contracts \subseteq ValuesOf(s)
  BY SlotsDistinct DEF ValuesOf, Settings
<1>3. namedBy' = namedBy /\ namedBy \in Addresses \cup {None}
  BY <1>1 DEF SetAuthorizedCore, ProposeAuthorizedCore, ConfirmAuthorizedCore,
     CancelAuthorizedCoreChange, Administration, TypeOK
<1>4. TypeOK' /\ ProposalsTimed'
  <2>1. ASSUME NEW c \in Contracts, SetAuthorizedCore(s, c, signer)
        PROVE  TypeOK' /\ ProposalsTimed'
    <3>1. c \in ValuesOf(s) /\ c \in AllValues
      BY <1>2, ValuesAreNotNone
    <3>2. TypeOK'
      BY <1>2, <2>1, <3>1 DEF SetAuthorizedCore, Administration, TypeOK
    <3> QED
      BY <2>1, <3>2 DEF SetAuthorizedCore, Administration, ProposalsTimed
  <2>2. ASSUME NEW c \in Contracts, ProposeAuthorizedCore(s, c, signer)
        PROVE  TypeOK' /\ ProposalsTimed'
    BY <1>2, <1>3, <2>2, ProposalKept DEF ProposeAuthorizedCore, Administration
  <2>3. ASSUME NEW c \in Contracts, ConfirmAuthorizedCore(s, c, signer)
        PROVE  TypeOK' /\ ProposalsTimed'
    BY <1>2, <1>3, <2>3, ApplicationKept DEF ConfirmAuthorizedCore, Administration
  <2>4. CASE CancelAuthorizedCoreChange(s, signer)
    BY <1>2, <1>3, <2>4, WithdrawalKept DEF CancelAuthorizedCoreChange, Administration
  <2> QED
    BY <1>1, <2>1, <2>2, <2>3, <2>4
<1>5. value'["admin"] = value["admin"] /\ pending'["admin"] = pending["admin"]
  BY <1>1, <1>2 DEF SetAuthorizedCore, ProposeAuthorizedCore, ConfirmAuthorizedCore,
     CancelAuthorizedCoreChange, PutProposal, Apply, Withdraw, DeleteProposal,
     Administration, TypeOK
<1> QED
  BY <1>3, <1>4, <1>5
     DEF Administration, SuccessorNamedByIncumbent, RoleNeverBurnt

LEMMA CodeStep ==
  ASSUME Administration, NEW signer \in Keys, CodeNext(signer)
  PROVE  Administration'
<1>1. namedBy' = namedBy /\ namedBy \in Addresses \cup {None}
  BY DEF CodeNext, ProposeUpdate, Update, CancelUpdate, Administration, TypeOK
<1>2. TypeOK' /\ ProposalsTimed'
  <2>1. ASSUME NEW nef \in Nefs, NEW manifest \in Manifests,
               ProposeUpdate(nef, manifest, signer)
        PROVE  TypeOK' /\ ProposalsTimed'
    <3>1. [nef |-> nef, manifest |-> manifest] \in ValuesOf("code")
      BY DEF ValuesOf, Code
    <3> QED
      BY <1>1, <2>1, <3>1, SlotsDistinct, ProposalKept DEF ProposeUpdate, Administration
  <2>2. ASSUME NEW nef \in Nefs, NEW manifest \in Manifests, Update(nef, manifest, signer)
        PROVE  TypeOK' /\ ProposalsTimed'
    BY <1>1, <2>2, SlotsDistinct, ApplicationKept DEF Update, Administration
  <2>3. CASE CancelUpdate(signer)
    BY <1>1, <2>3, SlotsDistinct, WithdrawalKept DEF CancelUpdate, Administration
  <2> QED
    BY <2>1, <2>2, <2>3 DEF CodeNext
<1>3. value'["admin"] = value["admin"] /\ pending'["admin"] = pending["admin"]
  BY SlotsDistinct DEF CodeNext, ProposeUpdate, Update, CancelUpdate, PutProposal, Apply,
     Withdraw, DeleteProposal, Administration, TypeOK
<1> QED
  BY <1>1, <1>2, <1>3
     DEF Administration, SuccessorNamedByIncumbent, RoleNeverBurnt

(* The role moves to whoever signs the confirmation, and a proposal is gone *)
(* once applied.                                                            *)
LEMMA AdminStep ==
  ASSUME Administration, NEW signer \in Keys, AdminNext(signer)
  PROVE  Administration'
<1>0. "admin" \in Slots /\ ValuesOf("admin") = Addresses /\ Keys \subseteq Addresses
  BY SlotsDistinct DEF ValuesOf, Addresses
<1>1. ASSUME NEW a \in Addresses, RotateAdmin(a, signer)
      PROVE  Administration'
  <2>1. value["admin"] \in Addresses
    BY <1>0 DEF Administration, TypeOK
  <2>2. TypeOK' /\ ProposalsTimed'
    BY <1>0, <1>1, <2>1, ProposalKept DEF RotateAdmin, Administration
  <2>3. value' = value /\ namedBy' = value["admin"]
    BY <1>1 DEF RotateAdmin, PutProposal
  <2> QED
    BY <2>2, <2>3 DEF Administration, SuccessorNamedByIncumbent, RoleNeverBurnt
<1>2. ASSUME NEW a \in Addresses, ConfirmAdminRotation(a, signer)
      PROVE  Administration'
  <2>1. TypeOK' /\ ProposalsTimed'
    BY <1>0, <1>2, ApplicationKept DEF ConfirmAdminRotation, Administration
  <2>2. value'["admin"] = signer /\ pending'["admin"] = None
    BY <1>0, <1>2
       DEF ConfirmAdminRotation, Apply, DeleteProposal, Administration, TypeOK
  <2> QED
    BY <2>1, <2>2 DEF Administration, SuccessorNamedByIncumbent, RoleNeverBurnt
<1>3. CASE CancelAdminRotation(signer)
  <2>1. TypeOK' /\ ProposalsTimed'
    BY <1>0, <1>3, WithdrawalKept DEF CancelAdminRotation, Administration
  <2>2. value' = value /\ pending'["admin"] = None
    BY <1>0, <1>3
       DEF CancelAdminRotation, Withdraw, DeleteProposal, Administration, TypeOK
  <2> QED
    BY <2>1, <2>2 DEF Administration, SuccessorNamedByIncumbent, RoleNeverBurnt
<1> QED
  BY <1>1, <1>2, <1>3 DEF AdminNext

LEMMA AdministrationStep == Administration /\ [Next]_vars => Administration'
<1> SUFFICES ASSUME Administration, [Next]_vars
             PROVE  Administration'
  OBVIOUS
<1>1. CASE Tick
  BY <1>1 DEF Tick, Administration, TypeOK, ProposalsTimed,
     SuccessorNamedByIncumbent, RoleNeverBurnt
<1>2. CASE UNCHANGED vars
  BY <1>2 DEF vars, Administration, TypeOK, ProposalsTimed,
     SuccessorNamedByIncumbent, RoleNeverBurnt
<1> QED
  BY <1>1, <1>2, SettingsStep, CodeStep, AdminStep DEF Next

LEMMA AdministrationInvariant == Spec => []Administration
BY AdministrationInit, AdministrationStep, PTL DEF Spec

(* The cells of every slot hold what belongs into them, and belong to each  *)
(* other.                                                                   *)
THEOREM CellsCorrect == Spec => []CellsConsistent
<1>1. Administration => CellsConsistent
  BY DEF Administration, CellsConsistent
<1> QED
  BY <1>1, AdministrationInvariant, PTL

(* Only the administrator in office names a successor, so that a former     *)
(* administrator's choice is never pending, and the administrator is always *)
(* somebody who can sign.                                                   *)
THEOREM SuccessionByIncumbent == Spec => []OrderlySuccession
<1>1. Administration => OrderlySuccession
  BY DEF Administration, OrderlySuccession
<1> QED
  BY <1>1, AdministrationInvariant, PTL

(* The announcement a slot carries, as PublicNotice sees it.                *)
Announced ==
  [s \in Slots |-> IF pending[s] = None THEN {}
                   ELSE {[to |-> pending[s], since |-> since[s]]}]

(* A proposal announces; the same one again announces nothing new.          *)
LEMMA ProposalAnnounces ==
  ASSUME Administration, NEW s \in Slots, NEW v \in ValuesOf(s), PutProposal(s, v)
  PROVE  Notice!Next \/ UNCHANGED Notice!vars
<1>1. v # None /\ v \in AllValues
  BY ValuesAreNotNone
<1>2. value' = value /\ now' = now
  BY DEF PutProposal
<1>3. CASE pending[s] = v
  <2>1. pending' = pending /\ since' = since
    BY <1>3 DEF PutProposal, Administration, TypeOK
  <2> QED
    BY <1>2, <2>1 DEF Notice!vars
<1>4. CASE pending[s] # v
  <2>1. Announced' = [Announced EXCEPT ![s] = {[to |-> v, since |-> now]}]
    BY <1>1, <1>4 DEF PutProposal, Announced, Administration, TypeOK
  <2>2. Notice!Announce(s)
    BY <1>1, <1>2, <2>1 DEF Notice!Announce, Announced
  <2> QED
    BY <2>2 DEF Notice!Next
<1> QED
  BY <1>3, <1>4

LEMMA DeletionWithdraws ==
  ASSUME Administration, NEW s \in Slots, DeleteProposal(s)
  PROVE  Announced' = [Announced EXCEPT ![s] = {}]
BY DEF DeleteProposal, Announced, Administration, TypeOK

LEMMA WithdrawalWithdraws ==
  ASSUME Administration, NEW s \in Slots, Withdraw(s)
  PROVE  Notice!Next
<1>1. Announced' = [Announced EXCEPT ![s] = {}] /\ value' = value /\ now' = now
  BY DeletionWithdraws DEF Withdraw
<1>2. Notice!Withdraw(s)
  BY <1>1 DEF Notice!Withdraw, Announced
<1> QED
  BY <1>2 DEF Notice!Next

(* What is applied has stood for the delay: the clock started no earlier    *)
(* than the announcement.                                                   *)
LEMMA ApplicationTakesEffect ==
  ASSUME Administration, NEW s \in Slots, Matured(s), Apply(s), now' = now
  PROVE  Notice!Next
<1>1. [to |-> pending[s], since |-> since[s]] \in Announced[s]
  BY DEF Matured, Announced
<1>2. now >= since[s] + Delay
  BY DelayAssumption DEF Matured, Administration, ProposalsTimed, TypeOK
<1>3. value' = [value EXCEPT ![s] = pending[s]]
  BY DEF Apply
<1>4. Announced' = [Announced EXCEPT ![s] = {}]
  BY DeletionWithdraws DEF Apply
<1>5. Notice!TakeEffect(s)
  BY <1>1, <1>2, <1>3, <1>4 DEF Notice!TakeEffect, Announced
<1> QED
  BY <1>5 DEF Notice!Next

LEMMA NoticeStep ==
  ASSUME Administration, [Next]_vars
  PROVE  [Notice!Next]_Notice!vars
<1>1. CASE Tick
  <2>1. now' \in Nat /\ now' > now
    BY <1>1 DEF Tick, Administration, TypeOK
  <2>2. value' = value /\ Announced' = Announced
    BY <1>1 DEF Tick, Announced
  <2>3. Notice!TimePasses
    BY <2>1, <2>2 DEF Notice!TimePasses, Announced
  <2> QED
    BY <2>3 DEF Notice!Next
<1>2. ASSUME NEW signer \in Keys, SettingsNext(signer)
      PROVE  Notice!Next \/ UNCHANGED Notice!vars
  <2>1. PICK s \in Settings :
          \/ \E c \in Contracts : \/ SetAuthorizedCore(s, c, signer)
                                  \/ ProposeAuthorizedCore(s, c, signer)
                                  \/ ConfirmAuthorizedCore(s, c, signer)
          \/ CancelAuthorizedCoreChange(s, signer)
    BY <1>2 DEF SettingsNext
  <2>2. s \in Slots /\ Contracts \subseteq ValuesOf(s) /\ Contracts \subseteq AllValues
    BY SlotsDistinct DEF ValuesOf, Settings, AllValues
  <2>3. ASSUME NEW c \in Contracts, SetAuthorizedCore(s, c, signer)
        PROVE  Notice!Next
    <3>1. Notice!Install(s)
      BY <2>2, <2>3 DEF SetAuthorizedCore, Notice!Install
    <3> QED
      BY <2>2, <3>1 DEF Notice!Next
  <2>4. ASSUME NEW c \in Contracts, ProposeAuthorizedCore(s, c, signer)
        PROVE  Notice!Next \/ UNCHANGED Notice!vars
    BY <2>2, <2>4, ProposalAnnounces DEF ProposeAuthorizedCore
  <2>5. ASSUME NEW c \in Contracts, ConfirmAuthorizedCore(s, c, signer)
        PROVE  Notice!Next
    BY <2>2, <2>5, ApplicationTakesEffect DEF ConfirmAuthorizedCore
  <2>6. CASE CancelAuthorizedCoreChange(s, signer)
    BY <2>2, <2>6, WithdrawalWithdraws DEF CancelAuthorizedCoreChange
  <2> QED
    BY <2>1, <2>3, <2>4, <2>5, <2>6
<1>3. ASSUME NEW signer \in Keys, CodeNext(signer)
      PROVE  Notice!Next \/ UNCHANGED Notice!vars
  <2>1. ASSUME NEW nef \in Nefs, NEW manifest \in Manifests,
               ProposeUpdate(nef, manifest, signer)
        PROVE  Notice!Next \/ UNCHANGED Notice!vars
    <3>1. [nef |-> nef, manifest |-> manifest] \in ValuesOf("code")
      BY DEF ValuesOf, Code
    <3> QED
      BY <2>1, <3>1, SlotsDistinct, ProposalAnnounces DEF ProposeUpdate
  <2>2. ASSUME NEW nef \in Nefs, NEW manifest \in Manifests, Update(nef, manifest, signer)
        PROVE  Notice!Next
    BY <2>2, SlotsDistinct, ApplicationTakesEffect DEF Update
  <2>3. CASE CancelUpdate(signer)
    BY <2>3, SlotsDistinct, WithdrawalWithdraws DEF CancelUpdate
  <2> QED
    BY <1>3, <2>1, <2>2, <2>3 DEF CodeNext
<1>4. ASSUME NEW signer \in Keys, AdminNext(signer)
      PROVE  Notice!Next \/ UNCHANGED Notice!vars
  <2>1. ASSUME NEW a \in Addresses, RotateAdmin(a, signer)
        PROVE  Notice!Next \/ UNCHANGED Notice!vars
    BY <2>1, SlotsDistinct, ProposalAnnounces DEF RotateAdmin, ValuesOf
  <2>2. ASSUME NEW a \in Addresses, ConfirmAdminRotation(a, signer)
        PROVE  Notice!Next
    BY <2>2, SlotsDistinct, ApplicationTakesEffect DEF ConfirmAdminRotation
  <2>3. CASE CancelAdminRotation(signer)
    BY <2>3, SlotsDistinct, WithdrawalWithdraws DEF CancelAdminRotation
  <2> QED
    BY <1>4, <2>1, <2>2, <2>3 DEF AdminNext
<1>5. CASE UNCHANGED vars
  BY <1>5 DEF vars, Notice!vars
<1> QED
  BY <1>1, <1>2, <1>3, <1>4, <1>5 DEF Next

LEMMA NoticeInit == Init => Notice!Init
BY DEF Init, Notice!Init

(* Every behaviour of a contract's administration is a behaviour of         *)
(* PublicNotice: nothing set changes before it has stood announced,         *)
(* unaltered, for the delay.                                                *)
THEOREM NoticeRefinement == Spec => ImplementsPublicNotice
<1>1. Administration /\ [Next]_vars => [Notice!Next]_Notice!vars
  BY NoticeStep
<1> QED
  BY <1>1, NoticeInit, AdministrationInvariant, PTL
     DEF Spec, ImplementsPublicNotice, Notice!Spec
=============================================================================
