--------------------------- MODULE SocialRecovery ---------------------------
(***************************************************************************)
(* The SocialRecoveryVerifier: an account's owner, as this plugin knows    *)
(* him, is replaced when a threshold of identity factors supports somebody *)
(* else and the owner does not object within a timelock; and an executor   *)
(* may act for the account in a session that an enrolled identity or the   *)
(* owner has allowed.                                                      *)
(*                                                                         *)
(* Factors and identities speak through tickets that the Morpheus oracle   *)
(* signs.  A ticket is submitted by anyone, or delivered as the answer to  *)
(* a request, any time later: after the attempt was cancelled or finished, *)
(* after the oracle was replaced, after the account left the plugin and    *)
(* came back.  What the oracle signs is its free choice; a signature that  *)
(* does not fit is a call that fails.                                      *)
(*                                                                         *)
(* Three calls leave the contract in the middle of what they do: both      *)
(* requests (the oracle runs before the request is stored) and the cleanup *)
(* (the refund runs a contract that owns the account).  They are frames on *)
(* a stack; anything may happen above a frame.                             *)
(***************************************************************************)
EXTENDS Naturals, FiniteSets, Sequences

CONSTANTS
  Account,      \* accounts that use the plugin
  Principal,    \* who may own an account
  Factor,       \* master nullifiers of recovery factors
  Identity,     \* master nullifiers enrolled for sessions
  Executor,     \* who may act in a session
  Nullifier,    \* action nullifiers: one for each ticket
  Config,       \* [oracle, factors, threshold, timelock] in use
  RequestId,    \* numbers that oracles give to requests
  Expiry,       \* times at which tickets and sessions end
  Amount,       \* GAS sent to the contract or to an oracle
  MaxTime, MaxNonce, MaxEpoch, MaxCredit, \* bounds of a behaviour
  MaxDepth,     \* bound on calls in progress
  MaxRequests,  \* bound on requests that wait for an answer
  None

(* An attempt to replace an owner: who shall succeed him, how many factors  *)
(* are for it, and from when on it may be finalized (0: not yet).           *)
Attempt == [newOwner : Principal, nonce : Nat, approved : Nat, executable : Nat]

ASSUME ConfigAssumption ==
  \A c \in Config : /\ c.factors \in SUBSET Factor /\ IsFiniteSet(c.factors)
                    /\ c.threshold \in Nat \ {0} /\ c.timelock \in Nat \ {0}

ASSUME NoneAssumption == None \notin Principal /\ None \notin Config /\ None \notin Attempt

ASSUME BoundsAssumption ==
  /\ MaxTime \in Nat /\ MaxNonce \in Nat /\ MaxEpoch \in Nat
  /\ MaxCredit \in Nat /\ MaxDepth \in Nat /\ MaxRequests \in Nat /\ Amount \subseteq Nat \ {0}

VARIABLES
  now,             \* Runtime.Time
  backupOwner,     \* the wallet's registry
  held,            \* what the plugin holds for each account
  used,            \* PREFIX_USED_ACTION
  recoveryRequest, \* PREFIX_ORACLE_REQUEST
  actionRequest,   \* PREFIX_ORACLE_ACTION_REQUEST, PREFIX_ACTION_REQUEST_EPOCH
  credit,          \* PREFIX_ORACLE_CREDIT
  calls,           \* calls in progress, newest last
  support,         \* history: who spoke for whom, and when, in this attempt
  executed,        \* history: how often each ticket took effect
  grant            \* history: the terms under which the session was allowed

history == <<support, executed, grant>>
vars == <<now, backupOwner, held, used, recoveryRequest, actionRequest, credit,
          calls, history>>

NotSetUp ==
  [owner |-> None, config |-> None, nonce |-> 0, pending |-> None, approvals |-> {},
   epoch |-> 0, identities |-> {}, session |-> None, authorization |-> None,
   sessionNonce |-> 0]

(* Set up, and perhaps in a session, before sessions had epochs.            *)
Upgraded(o, c, s) ==
  [NotSetUp EXCEPT !.owner = o, !.config = c, !.session = s,
                   !.sessionNonce = IF s = None THEN 0 ELSE 1]

Session(e, expires, n) == [executor |-> e, expires |-> expires, nullifier |-> n]

Init ==
  /\ now = 1
  /\ backupOwner \in [Account -> Principal]
  /\ held \in [Account ->
       {NotSetUp} \cup {Upgraded(o, c, s) : o \in Principal, c \in Config,
          s \in {None} \cup {Session(e, t, n) : e \in Executor, t \in Expiry, n \in Nullifier}}]
  /\ used = [a \in Account |-> IF held[a].session = None THEN {}
                               ELSE {held[a].session.nullifier}]
  /\ recoveryRequest = [id \in RequestId |-> None]
  /\ actionRequest = [id \in RequestId |-> None]
  /\ credit = [a \in Account |-> 0]
  /\ calls = <<>>
  /\ support = [a \in Account |-> {}]
  /\ executed = [a \in Account |-> [n \in Nullifier |-> IF n \in used[a] THEN 1 ELSE 0]]
  /\ grant = [a \in Account |-> None]

-----------------------------------------------------------------------------
(* Epochs: everything a session was allowed under. *)

AdvanceActionAuthorizationEpoch(r) ==
  [r EXCEPT !.epoch = @ + 1, !.authorization = None]

ResetActionAuthorization(r) ==
  [AdvanceActionAuthorizationEpoch(r) EXCEPT !.identities = {}]

EpochsLeft(a) == held[a].epoch < MaxEpoch

Authorization(identity, epoch, sessionNonce, consent) ==
  [identity |-> identity, epoch |-> epoch, sessionNonce |-> sessionNonce,
   ownerConsent |-> consent]

IsActiveActionSessionAuthorized(r) ==
  /\ r.authorization # None
  /\ r.authorization.epoch > 0
  /\ r.authorization.epoch = r.epoch
  /\ r.authorization.sessionNonce = r.sessionNonce
  /\ \/ r.authorization.ownerConsent
     \/ r.owner # None /\ r.authorization.identity \in r.identities

(* VerifyExecution for whoever is not the owner. *)
IsActionSessionAuthorized(a) ==
  LET r == held[a] IN
  r.session # None /\ r.session.expires > now /\ IsActiveActionSessionAuthorized(r)

(* What a session is good under: the owner, what he trusts, whom he lets in. *)
Terms(r) == [owner |-> r.owner, config |-> r.config, identities |-> r.identities]

IsOwned(a) == held[a].owner # None

Put(a, r) == held' = [held EXCEPT ![a] = r]

requests == <<recoveryRequest, actionRequest>>
rest == <<now, backupOwner, credit, calls>>

-----------------------------------------------------------------------------
(* Setup *)

(* The core's registry says that whoever signs owns the account. *)
SetupRecovery(a, c) ==
  /\ ~IsOwned(a) /\ EpochsLeft(a)
  /\ Put(a, ResetActionAuthorization(
       [held[a] EXCEPT !.owner = backupOwner[a], !.config = c, !.nonce = 0]))
  /\ UNCHANGED <<rest, used, requests, history>>

UpdateRecoveryConfig(a, c) ==
  /\ IsOwned(a) /\ EpochsLeft(a)
  /\ held[a].pending = None
  /\ Put(a, AdvanceActionAuthorizationEpoch([held[a] EXCEPT !.config = c]))
  /\ UNCHANGED <<rest, used, requests, history>>

SetActionIdentity(a, i, enabled) ==
  /\ IsOwned(a) /\ EpochsLeft(a)
  /\ enabled = (i \notin held[a].identities)
  /\ Put(a, [AdvanceActionAuthorizationEpoch(held[a]) EXCEPT
               !.identities = IF enabled THEN @ \cup {i} ELSE @ \ {i}])
  /\ UNCHANGED <<rest, used, requests, history>>

RevokeAllActionIdentities(a) ==
  /\ IsOwned(a) /\ EpochsLeft(a)
  /\ Put(a, ResetActionAuthorization(held[a]))
  /\ UNCHANGED <<rest, used, requests, history>>

-----------------------------------------------------------------------------
(* Recovery *)

HasApprovedFactor(r, f) == <<r.nonce, f>> \in r.approvals

OpenAttempt(r, o) ==
  IF r.pending # None THEN r.pending
  ELSE [newOwner |-> o, nonce |-> r.nonce, approved |-> 0, executable |-> 0]

(* One more factor; with the last one that was missing the timelock starts. *)
Approved(pending, c) ==
  LET count == pending.approved + 1 IN
  [pending EXCEPT !.approved = count,
                  !.executable = IF count >= c.threshold THEN now + c.timelock ELSE @]

(* An attempt takes further support for the same successor, until it is ready. *)
Supports_AnySuccessor(pending, r, o) ==
  pending.nonce = r.nonce /\ pending.executable = 0
Supports(pending, r, o) ==
  pending.nonce = r.nonce /\ pending.newOwner = o /\ pending.executable = 0

(* SubmitRecoveryTicketInternal, for a ticket that supports o as successor  *)
(* to what the attempt "nonce" is about.                                    *)
AcceptRecoveryTicket(a, o, nonce, f, n) ==
  LET r == held[a]
      pending == OpenAttempt(r, o)
  IN
  /\ IsOwned(a)
  /\ f \in r.config.factors
  /\ n \notin used[a]
  /\ nonce = r.nonce
  /\ ~HasApprovedFactor(r, f)
  /\ Supports(pending, r, o)
  /\ Put(a, [r EXCEPT !.approvals = @ \cup {<<r.nonce, f>>},
                      !.pending = Approved(pending, r.config)])
  /\ used' = [used EXCEPT ![a] = @ \cup {n}]
  /\ support' = [support EXCEPT ![a] = @ \cup {[factor |-> f, newOwner |-> o, at |-> now]}]
  /\ executed' = [executed EXCEPT ![a][n] = @ + 1]
  /\ UNCHANGED <<rest, grant>>

(* By anyone who has an unexpired ticket. *)
SubmitRecoveryTicket(a, o, f, n) ==
  /\ AcceptRecoveryTicket(a, o, held[a].nonce, f, n)
  /\ UNCHANGED requests

(* The oracle's answer to a request; a failed one undoes itself, and can    *)
(* come again.                                                              *)
OnOracleRecovery(oracle, id, f, n) ==
  LET request == recoveryRequest[id] IN
  /\ request # None
  /\ IsOwned(request.account) /\ oracle = held[request.account].config.oracle
  /\ request.expires >= now
  /\ recoveryRequest' = [recoveryRequest EXCEPT ![id] = None]
  /\ AcceptRecoveryTicket(request.account, request.newOwner, request.nonce, f, n)
  /\ UNCHANGED actionRequest

CloseAttempt_SameNonce(r) == [r EXCEPT !.pending = None]
CloseAttempt(r) == [r EXCEPT !.pending = None, !.nonce = r.pending.nonce + 1]

FinalizeRecovery(a) ==
  LET r == held[a] IN
  /\ r.pending # None
  /\ r.pending.executable > 0 /\ now >= r.pending.executable
  /\ EpochsLeft(a) /\ r.nonce < MaxNonce
  /\ Put(a, [CloseAttempt(ResetActionAuthorization(r)) EXCEPT
               !.owner = r.pending.newOwner, !.session = None])
  /\ support' = [support EXCEPT ![a] = {}]
  /\ UNCHANGED <<rest, used, requests, executed, grant>>

CancelRecovery(a) ==
  LET r == held[a] IN
  /\ IsOwned(a) /\ r.pending # None /\ r.nonce < MaxNonce
  /\ Put(a, CloseAttempt(r))
  /\ support' = [support EXCEPT ![a] = {}]
  /\ UNCHANGED <<rest, used, requests, executed, grant>>

-----------------------------------------------------------------------------
(* Sessions *)

(* ActivateActionSessionInternal, for a ticket about the session of this    *)
(* nonce; "terms" are those under which it was asked for.                   *)
ActivateActionSession(a, e, expires, sessionNonce, n, auth, r, terms) ==
  /\ expires > now
  /\ n \notin used[a]
  /\ sessionNonce = r.sessionNonce
  /\ Put(a, [r EXCEPT !.authorization = auth, !.session = Session(e, expires, n),
                      !.sessionNonce = @ + 1])
  /\ used' = [used EXCEPT ![a] = @ \cup {n}]
  /\ executed' = [executed EXCEPT ![a][n] = @ + 1]
  /\ grant' = [grant EXCEPT ![a] = terms]
  /\ UNCHANGED <<rest, support>>

IsPresentEpoch_AnyEpoch(r, epoch) == epoch > 0
IsPresentEpoch(r, epoch) == epoch > 0 /\ epoch = r.epoch

(* A ticket of an enrolled identity, about one epoch. *)
ActivateEnrolled(a, e, expires, sessionNonce, i, epoch, n, terms) ==
  LET r == held[a] IN
  /\ IsPresentEpoch(r, epoch)
  /\ IsOwned(a) /\ i \in r.identities
  /\ ActivateActionSession(a, e, expires, sessionNonce, n,
       Authorization(i, r.epoch, r.sessionNonce + 1, FALSE), r, terms)

SubmitActionTicketV4(a, e, expires, i, n) ==
  /\ ActivateEnrolled(a, e, expires, held[a].sessionNonce, i, held[a].epoch, n, Terms(held[a]))
  /\ UNCHANGED requests

(* Without an identity, if the owner signs too. *)
SubmitActionTicket(a, e, expires, n) ==
  LET r == IF held[a].epoch = 0 THEN AdvanceActionAuthorizationEpoch(held[a]) ELSE held[a] IN
  /\ IsOwned(a) /\ r.epoch <= MaxEpoch
  /\ ActivateActionSession(a, e, expires, r.sessionNonce, n,
       Authorization(None, r.epoch, r.sessionNonce + 1, TRUE), r, Terms(r))
  /\ UNCHANGED requests

OnOracleAction(oracle, id, i, n) ==
  LET request == actionRequest[id] IN
  /\ request # None
  /\ IsOwned(request.account) /\ oracle = held[request.account].config.oracle
  /\ actionRequest' = [actionRequest EXCEPT ![id] = None]
  /\ ActivateEnrolled(request.account, request.executor, request.expires,
       request.sessionNonce, i, request.epoch, n, request.terms)
  /\ UNCHANGED recoveryRequest

(* The owner names the session he has seen, so that no other one profits.   *)
ReauthorizeActiveActionSession(a, seen) ==
  LET r == IF held[a].epoch = 0 THEN AdvanceActionAuthorizationEpoch(held[a]) ELSE held[a] IN
  /\ IsOwned(a) /\ r.epoch <= MaxEpoch
  /\ r.session # None /\ r.session = seen /\ seen.expires > now
  /\ Put(a, [r EXCEPT !.authorization = Authorization(None, r.epoch, r.sessionNonce, TRUE)])
  /\ grant' = [grant EXCEPT ![a] = Terms(r)]
  /\ UNCHANGED <<rest, used, requests, support, executed>>

RevokeActionSession(a) ==
  /\ IsOwned(a) /\ held[a].session # None /\ EpochsLeft(a)
  /\ Put(a, [AdvanceActionAuthorizationEpoch(held[a]) EXCEPT !.session = None])
  /\ UNCHANGED <<rest, used, requests, history>>

-----------------------------------------------------------------------------
(* Calls that leave the contract *)

Waiting == ({1} \X {id \in RequestId : recoveryRequest[id] # None})
             \cup ({2} \X {id \in RequestId : actionRequest[id] # None})
Push(frame) == Len(calls) < MaxDepth /\ calls' = Append(calls, frame)
Top == calls[Len(calls)]
Pop == calls' = SubSeq(calls, 1, Len(calls) - 1)
InCall(kind) == calls # <<>> /\ Top.kind = kind

(* Asked for by the would-be owner himself. *)
RequestRecoveryTicket(a, o, expires) ==
  LET r == held[a] IN
  /\ IsOwned(a)
  /\ r.pending # None => r.pending.nonce = r.nonce /\ r.pending.newOwner = o
  /\ Cardinality(Waiting) < MaxRequests
  /\ Push([kind |-> "recovery",
           saves |-> [account |-> a, newOwner |-> o, nonce |-> r.nonce, expires |-> expires]])
  /\ UNCHANGED <<now, backupOwner, held, used, requests, credit, history>>

RequestActionSession(a, e, expires) ==
  LET r == held[a] IN
  /\ IsOwned(a)
  /\ expires > now /\ r.epoch > 0
  /\ Cardinality(Waiting) < MaxRequests
  /\ Push([kind |-> "action",
           saves |-> [account |-> a, executor |-> e, expires |-> expires,
                      sessionNonce |-> r.sessionNonce, epoch |-> r.epoch,
                      terms |-> Terms(r)]])
  /\ UNCHANGED <<now, backupOwner, held, used, requests, credit, history>>

(* The oracle returns the number it has given to the request. *)
OracleReturns(id) ==
  /\ \/ /\ InCall("recovery")
        /\ recoveryRequest' = [recoveryRequest EXCEPT ![id] = Top.saves]
        /\ UNCHANGED actionRequest
     \/ /\ InCall("action")
        /\ actionRequest' = [actionRequest EXCEPT ![id] = Top.saves]
        /\ UNCHANGED recoveryRequest
  /\ Pop
  /\ UNCHANGED <<now, backupOwner, held, used, credit, history>>

(* While the core cleans up it configures nothing else: a second cleanup or  *)
(* a change of owner fails.                                                  *)
CoreIdle == \A i \in DOMAIN calls : calls[i].kind # "clear"

Cleared(r) ==
  [NotSetUp EXCEPT !.epoch = r.epoch, !.identities = r.identities,
                   !.authorization = r.authorization]

(* The account leaves the plugin; the refund, if there is one, is sent      *)
(* before the records go.                                                   *)
ClearAccount(a) ==
  /\ CoreIdle /\ EpochsLeft(a)
  /\ credit[a] > 0 => IsOwned(a)
  /\ credit' = [credit EXCEPT ![a] = 0]
  /\ \/ /\ credit[a] = 0
        /\ Put(a, Cleared(ResetActionAuthorization(held[a])))
        /\ support' = [support EXCEPT ![a] = {}]
        /\ UNCHANGED calls
     \/ /\ credit[a] > 0
        /\ Put(a, ResetActionAuthorization(held[a]))
        /\ Push([kind |-> "clear", account |-> a])
        /\ UNCHANGED support
  /\ UNCHANGED <<now, backupOwner, used, requests, executed, grant>>

RefundReturns ==
  /\ InCall("clear")
  /\ Put(Top.account, Cleared(held[Top.account]))
  /\ support' = [support EXCEPT ![Top.account] = {}]
  /\ Pop
  /\ UNCHANGED <<now, backupOwner, used, requests, credit, executed, grant>>

-----------------------------------------------------------------------------
(* GAS earmarked for an account's oracle *)

OnNEP17Payment(a, amount) ==
  /\ IsOwned(a)
  /\ credit[a] + amount <= MaxCredit
  /\ credit' = [credit EXCEPT ![a] = @ + amount]
  /\ UNCHANGED <<now, backupOwner, held, used, requests, calls, history>>

DepositOracleCredits(a, amount) ==
  /\ IsOwned(a)
  /\ credit[a] >= amount
  /\ credit' = [credit EXCEPT ![a] = @ - amount]
  /\ UNCHANGED <<now, backupOwner, held, used, requests, calls, history>>

-----------------------------------------------------------------------------
(* The world outside *)

(* A sale, an escape or the platform's registrar; the plugin is not told.   *)
CoreChangesOwner(a, o) ==
  /\ CoreIdle /\ backupOwner[a] # o
  /\ backupOwner' = [backupOwner EXCEPT ![a] = o]
  /\ UNCHANGED <<now, held, used, requests, credit, calls, history>>

Tick ==
  /\ calls = <<>> /\ now < MaxTime
  /\ now' = now + 1
  /\ UNCHANGED <<backupOwner, held, used, requests, credit, calls, history>>

Oracle == {c.oracle : c \in Config}

Owned(a) ==
  \/ \E c \in Config : SetupRecovery(a, c) \/ UpdateRecoveryConfig(a, c)
  \/ \E i \in Identity, enabled \in BOOLEAN : SetActionIdentity(a, i, enabled)
  \/ RevokeAllActionIdentities(a)
  \/ CancelRecovery(a)
  \/ RevokeActionSession(a)
  \/ ReauthorizeActiveActionSession(a, held[a].session)
  \/ \E amount \in Amount : DepositOracleCredits(a, amount)

Recovery(a) ==
  \/ \E o \in Principal :
       \/ \E f \in Factor, n \in Nullifier : SubmitRecoveryTicket(a, o, f, n)
       \/ \E expires \in Expiry : RequestRecoveryTicket(a, o, expires)
  \/ FinalizeRecovery(a)

Sessions(a) ==
  \E e \in Executor, expires \in Expiry :
    \/ \E n \in Nullifier : \/ SubmitActionTicket(a, e, expires, n)
                            \/ \E i \in Identity : SubmitActionTicketV4(a, e, expires, i, n)
    \/ RequestActionSession(a, e, expires)

Oracles ==
  \E id \in RequestId :
    \/ OracleReturns(id)
    \/ \E oracle \in Oracle, n \in Nullifier :
         \/ \E f \in Factor : OnOracleRecovery(oracle, id, f, n)
         \/ \E i \in Identity : OnOracleAction(oracle, id, i, n)

Next ==
  \/ \E a \in Account :
       \/ Owned(a) \/ Recovery(a) \/ Sessions(a) \/ ClearAccount(a)
       \/ \E amount \in Amount : OnNEP17Payment(a, amount)
       \/ \E o \in Principal : CoreChangesOwner(a, o)
  \/ Oracles
  \/ RefundReturns
  \/ Tick

Spec == Init /\ [][Next]_vars
-----------------------------------------------------------------------------
(* What must hold *)

(* The factors whose tickets count in the attempt that is open. *)
Approving(a) == {f \in Factor : HasApprovedFactor(held[a], f)}

(* One attempt counts each factor once, for one successor, among those now  *)
(* trusted, and is ready exactly with the threshold; a closed attempt       *)
(* leaves no approval that a later one would count.                         *)
ApprovalsOfOneAttempt(a) ==
  LET r == held[a] IN
  IF r.pending = None THEN Approving(a) = {}
  ELSE /\ r.pending.nonce = r.nonce
       /\ Approving(a) \subseteq r.config.factors
       /\ r.pending.approved = Cardinality(Approving(a))
       /\ r.pending.executable > 0 <=> r.pending.approved >= r.config.threshold
       /\ \A s \in support[a] : s.newOwner = r.pending.newOwner

(* A ticket counts once: no factor twice in an attempt, none in an attempt  *)
(* it was not for, and no ticket again, not even after the account has left *)
(* the plugin and come back.                                                *)
TicketsCountOnce ==
  \A a \in Account : /\ ApprovalsOfOneAttempt(a)
                    /\ \A n \in Nullifier : executed[a][n] <= 1

(* An owner is replaced by whom a threshold of the factors he trusts has    *)
(* supported in one attempt, a timelock ago, while he could object.         *)
SuccessionByThreshold ==
  [][\A a \in Account :
       LET r == held[a]
           o == held'[a].owner
           behind == {s.factor : s \in {t \in support[a] :
                        t.newOwner = o /\ t.at + r.config.timelock <= now}}
       IN r.owner # None /\ o \notin {None, r.owner} =>
            Cardinality(behind \cap r.config.factors) >= r.config.threshold
    ]_vars

(* A session stands only while the owner, the oracle and factors he trusts  *)
(* and the enrolled identities are those it was asked for under.            *)
SessionsKeepTheirTerms ==
  \A a \in Account : IsActionSessionAuthorized(a) => grant[a] = Terms(held[a])

=============================================================================
