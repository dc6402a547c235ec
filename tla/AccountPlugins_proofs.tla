------------------------- MODULE AccountPlugins_proofs -------------------------
(***************************************************************************)
(* The plugins of an account, one by one and beside each other.  First the *)
(* theorems of SocialRecovery: the types of what it stores, the invariant  *)
(* of its attempts, the histories of tickets and sessions.  Then those of  *)
(* CompositePlugins, of its instance "Composites": whoever leaves a        *)
(* composite, or with it, forgets the account.  Then those of              *)
(* SpendingPolicies, of its instance "Spending": the caps of session keys, *)
(* the periods of subscriptions, the limits of the daily hook.  Last, what *)
(* is proved of the plugins one by one is shown to hold of an account that *)
(* uses any of them: they share no state, so a step of one is a step of    *)
(* its own module or leaves the others' alone.                             *)
(***************************************************************************)
EXTENDS AccountPlugins, FiniteSetTheorems, SequenceTheorems, WellFoundedInduction, TLAPS

OrNone(S) == S \cup {None}

SessionRecord == [executor : Executor, expires : Expiry, nullifier : Nullifier]

AuthorizationRecord ==
  [identity : OrNone(Identity), epoch : Nat, sessionNonce : Nat, ownerConsent : BOOLEAN]

(* What the plugin may hold for an account. *)
Entry ==
  [owner : OrNone(Principal), config : OrNone(Config), nonce : Nat,
   pending : OrNone(Attempt), approvals : SUBSET (Nat \X Factor), epoch : Nat,
   identities : SUBSET Identity, session : OrNone(SessionRecord),
   authorization : OrNone(AuthorizationRecord), sessionNonce : Nat]

TermsRecord ==
  [owner : OrNone(Principal), config : OrNone(Config), identities : SUBSET Identity]

RecoveryRequest ==
  [account : Account, newOwner : Principal, nonce : Nat, expires : Expiry]

ActionRequest ==
  [account : Account, executor : Executor, expires : Expiry, sessionNonce : Nat,
   epoch : Nat, terms : TermsRecord]

RequestCall ==
  [kind : {"recovery"}, saves : RecoveryRequest] \cup [kind : {"action"}, saves : ActionRequest]

Frame == RequestCall \cup [kind : {"clear"}, account : Account]

Support == [factor : Factor, newOwner : Principal, at : Nat]

TypeInv ==
  /\ now \in Nat
  /\ backupOwner \in [Account -> Principal]
  /\ held \in [Account -> Entry]
  /\ used \in [Account -> SUBSET Nullifier]
  /\ recoveryRequest \in [RequestId -> OrNone(RecoveryRequest)]
  /\ actionRequest \in [RequestId -> OrNone(ActionRequest)]
  /\ calls \in Seq(Frame)
  /\ support \in [Account -> SUBSET Support]
  /\ executed \in [Account -> [Nullifier -> Nat]]
  /\ grant \in [Account -> OrNone(TermsRecord)]

(* An account is set up entirely or not at all. *)
BookInv(a) ==
  LET r == held[a] IN
  IF r.owner = None
  THEN r.nonce = 0 /\ r.approvals = {} /\ r.pending = None /\ r.session = None
  ELSE r.config # None

-----------------------------------------------------------------------------
(* Types *)

LEMMA NotSetUpType == NotSetUp \in Entry
BY DEF NotSetUp, Entry, OrNone

LEMMA UpgradedType ==
  ASSUME NEW o \in Principal, NEW c \in Config, NEW s \in OrNone(SessionRecord)
  PROVE  /\ Upgraded(o, c, s) \in Entry
         /\ Upgraded(o, c, s).owner = o /\ Upgraded(o, c, s).config = c
         /\ Upgraded(o, c, s).session = s
         /\ Upgraded(o, c, s).pending = None /\ Upgraded(o, c, s).approvals = {}
         /\ Upgraded(o, c, s).authorization = None
<1> DEFINE n == IF s = None THEN 0 ELSE 1
<1>1. Upgraded(o, c, s) =
        [owner |-> o, config |-> c, nonce |-> 0, pending |-> None, approvals |-> {},
         epoch |-> 0, identities |-> {}, session |-> s, authorization |-> None,
         sessionNonce |-> n]
  <2>1. Upgraded(o, c, s) =
          [NotSetUp EXCEPT !.owner = o, !.config = c, !.session = s, !.sessionNonce = n]
    BY DEF Upgraded
  <2> HIDE DEF n
  <2> QED BY <2>1 DEF NotSetUp
<1>2. n \in Nat
  OBVIOUS
<1> HIDE DEF n
<1> QED BY <1>1, <1>2 DEF Entry, OrNone

(* What the updates of an entry leave of it. *)
LEMMA Advanced ==
  ASSUME NEW r \in Entry, NEW q, q = AdvanceActionAuthorizationEpoch(r)
  PROVE  /\ q \in Entry
         /\ q.owner = r.owner /\ q.config = r.config /\ q.nonce = r.nonce
         /\ q.pending = r.pending /\ q.approvals = r.approvals
         /\ q.epoch = r.epoch + 1 /\ q.identities = r.identities
         /\ q.session = r.session /\ q.authorization = None
<1> DEFINE e == r.epoch + 1
<1>1. q = [r EXCEPT !.epoch = e, !.authorization = None]
  BY DEF AdvanceActionAuthorizationEpoch
<1>2. e \in Nat /\ None \in OrNone(AuthorizationRecord)
  BY DEF Entry, OrNone
<1> HIDE DEF e
<1>3. q \in Entry
  BY <1>1, <1>2 DEF Entry
<1>4. /\ q.owner = r.owner /\ q.config = r.config /\ q.nonce = r.nonce
      /\ q.pending = r.pending /\ q.approvals = r.approvals /\ q.epoch = e
      /\ q.identities = r.identities /\ q.session = r.session /\ q.authorization = None
  BY <1>1 DEF Entry
<1> QED BY <1>3, <1>4 DEF e

LEMMA Reset ==
  ASSUME NEW r \in Entry, NEW q, q = ResetActionAuthorization(r)
  PROVE  /\ q \in Entry
         /\ q.owner = r.owner /\ q.config = r.config /\ q.nonce = r.nonce
         /\ q.pending = r.pending /\ q.approvals = r.approvals
         /\ q.epoch = r.epoch + 1 /\ q.identities = {}
         /\ q.session = r.session /\ q.authorization = None
<1> DEFINE p == AdvanceActionAuthorizationEpoch(r)
<1>1. q = [p EXCEPT !.identities = {}]
  BY DEF ResetActionAuthorization
<1>2. p \in Entry
  BY Advanced
<1>3. q \in Entry
  <2> HIDE DEF p
  <2> QED BY <1>1, <1>2 DEF Entry
<1>4. /\ q.owner = p.owner /\ q.config = p.config /\ q.nonce = p.nonce
      /\ q.pending = p.pending /\ q.approvals = p.approvals /\ q.epoch = p.epoch
      /\ q.identities = {} /\ q.session = p.session /\ q.authorization = p.authorization
  <2> HIDE DEF p
  <2> QED BY <1>1, <1>2 DEF Entry
<1> QED BY <1>3, <1>4, Advanced

LEMMA Cleaned ==
  ASSUME NEW r \in Entry, NEW q, q = Cleared(r)
  PROVE  /\ q \in Entry
         /\ q.owner = None /\ q.config = None /\ q.pending = None
         /\ q.nonce = 0 /\ q.approvals = {} /\ q.epoch = r.epoch
         /\ q.identities = r.identities /\ q.session = None
         /\ q.authorization = r.authorization
<1> DEFINE e == r.epoch
           i == r.identities
           z == r.authorization
<1>1. e \in Nat /\ i \in SUBSET Identity /\ z \in OrNone(AuthorizationRecord)
  BY DEF Entry
<1>2. q = [NotSetUp EXCEPT !.epoch = e, !.identities = i, !.authorization = z]
  BY DEF Cleared
<1> HIDE DEF e, i, z
<1>3. q \in Entry
  BY <1>1, <1>2, NotSetUpType DEF Entry
<1>4. /\ q.owner = NotSetUp.owner /\ q.config = NotSetUp.config
      /\ q.pending = NotSetUp.pending /\ q.nonce = NotSetUp.nonce
      /\ q.approvals = NotSetUp.approvals /\ q.session = NotSetUp.session
      /\ q.epoch = e /\ q.identities = i /\ q.authorization = z
  BY <1>2, NotSetUpType DEF Entry
<1> QED BY <1>3, <1>4 DEF NotSetUp, e, i, z

LEMMA InitType == Init => TypeInv
<1> SUFFICES ASSUME Init PROVE TypeInv
  OBVIOUS
<1>1. held \in [Account -> Entry]
  <2>1. \A e \in Executor, t \in Expiry, n \in Nullifier : Session(e, t, n) \in SessionRecord
    BY DEF Session, SessionRecord
  <2> QED BY <2>1, NotSetUpType, UpgradedType, SMTT(60) DEF Init, OrNone
<1>2. \A a \in Account : held[a].session # None => held[a].session.nullifier \in Nullifier
  BY <1>1 DEF Entry, OrNone, SessionRecord
<1>3. used \in [Account -> SUBSET Nullifier]
  BY <1>2 DEF Init
<1>4. executed \in [Account -> [Nullifier -> Nat]]
  BY DEF Init
<1> QED BY <1>1, <1>3, <1>4 DEF Init, TypeInv, OrNone, Frame

-----------------------------------------------------------------------------
(* What each operation makes of the entry of its account *)

SameAttempt(r, q) ==
  /\ q.owner = r.owner /\ q.config = r.config /\ q.nonce = r.nonce
  /\ q.pending = r.pending /\ q.approvals = r.approvals

(* An operation that withdraws everything sessions were allowed under.      *)
Withdrawn(r, q) == q.epoch = r.epoch + 1 /\ q.authorization = None

SameTerms(r, q) == q.epoch = r.epoch /\ Terms(q) = Terms(r)

LEMMA EntryOf ==
  ASSUME TypeInv, NEW a \in Account
  PROVE  held[a] \in Entry
BY DEF TypeInv

LEMMA SetupShape ==
  ASSUME TypeInv, NEW a \in Account, NEW c \in Config, SetupRecovery(a, c)
  PROVE  \E q \in Entry :
           /\ Put(a, q) /\ Withdrawn(held[a], q)
           /\ q.owner = backupOwner[a] /\ q.config = c /\ q.nonce = 0
           /\ q.pending = held[a].pending /\ q.approvals = held[a].approvals
           /\ q.session = held[a].session
<1> DEFINE r == held[a]
           o == backupOwner[a]
           p == [r EXCEPT !.owner = o, !.config = c, !.nonce = 0]
           q == ResetActionAuthorization(p)
<1>1. r \in Entry /\ o \in OrNone(Principal) /\ c \in OrNone(Config)
  BY EntryOf DEF TypeInv, OrNone
<1>2. Put(a, q)
  BY DEF SetupRecovery
<1> HIDE DEF r, o
<1>3. p \in Entry
  BY <1>1 DEF Entry
<1>4. /\ p.owner = o /\ p.config = c /\ p.nonce = 0 /\ p.pending = r.pending
      /\ p.approvals = r.approvals /\ p.session = r.session /\ p.epoch = r.epoch
  BY <1>1 DEF Entry
<1> HIDE DEF p
<1>5. /\ q \in Entry /\ Withdrawn(r, q)
      /\ q.owner = o /\ q.config = c /\ q.nonce = 0
      /\ q.pending = r.pending /\ q.approvals = r.approvals /\ q.session = r.session
  BY <1>3, <1>4, Reset DEF Withdrawn
<1> HIDE DEF q
<1> QED BY <1>2, <1>5 DEF r, o

LEMMA UpdateShape ==
  ASSUME TypeInv, NEW a \in Account, NEW c \in Config, UpdateRecoveryConfig(a, c)
  PROVE  \E q \in Entry :
           /\ Put(a, q) /\ Withdrawn(held[a], q)
           /\ q.owner = held[a].owner /\ q.config = c /\ q.nonce = held[a].nonce
           /\ q.pending = held[a].pending /\ q.approvals = held[a].approvals
           /\ q.session = held[a].session
<1> DEFINE r == held[a]
           p == [r EXCEPT !.config = c]
           q == AdvanceActionAuthorizationEpoch(p)
<1>1. r \in Entry /\ c \in OrNone(Config)
  BY EntryOf DEF OrNone
<1>2. Put(a, q)
  BY DEF UpdateRecoveryConfig
<1> HIDE DEF r
<1>3. p \in Entry
  BY <1>1 DEF Entry
<1>4. /\ p.owner = r.owner /\ p.config = c /\ p.nonce = r.nonce /\ p.pending = r.pending
      /\ p.approvals = r.approvals /\ p.session = r.session /\ p.epoch = r.epoch
  BY <1>1 DEF Entry
<1> HIDE DEF p
<1>5. /\ q \in Entry /\ Withdrawn(r, q)
      /\ q.owner = r.owner /\ q.config = c /\ q.nonce = r.nonce
      /\ q.pending = r.pending /\ q.approvals = r.approvals /\ q.session = r.session
  BY <1>3, <1>4, Advanced DEF Withdrawn
<1> HIDE DEF q
<1> QED BY <1>2, <1>5 DEF r

LEMMA IdentityShape ==
  ASSUME TypeInv, NEW a \in Account, NEW i \in Identity, NEW enabled,
         SetActionIdentity(a, i, enabled)
  PROVE  \E q \in Entry : /\ Put(a, q) /\ Withdrawn(held[a], q)
                          /\ SameAttempt(held[a], q) /\ q.session = held[a].session
<1> DEFINE r == held[a]
           p == AdvanceActionAuthorizationEpoch(r)
           s == IF enabled THEN p.identities \cup {i} ELSE p.identities \ {i}
           q == [p EXCEPT !.identities = s]
<1>1. Put(a, q)
  BY DEF SetActionIdentity
<1>2. r \in Entry
  BY EntryOf
<1> HIDE DEF r
<1>3. p \in Entry /\ Withdrawn(r, p) /\ SameAttempt(r, p) /\ p.session = r.session
  BY <1>2, Advanced DEF Withdrawn, SameAttempt
<1> HIDE DEF p
<1>4. s \in SUBSET Identity
  BY <1>3 DEF Entry
<1> HIDE DEF s
<1>5. q \in Entry
  BY <1>3, <1>4 DEF Entry
<1>6. Withdrawn(r, q) /\ SameAttempt(r, q) /\ q.session = r.session
  BY <1>3 DEF Entry, Withdrawn, SameAttempt
<1> HIDE DEF q
<1> QED BY <1>1, <1>5, <1>6 DEF r

LEMMA RevokeAllShape ==
  ASSUME TypeInv, NEW a \in Account, RevokeAllActionIdentities(a)
  PROVE  \E q \in Entry : /\ Put(a, q) /\ Withdrawn(held[a], q)
                          /\ SameAttempt(held[a], q) /\ q.session = held[a].session
<1> DEFINE q == ResetActionAuthorization(held[a])
<1>1. q \in Entry /\ Withdrawn(held[a], q) /\ SameAttempt(held[a], q) /\ q.session = held[a].session
  BY EntryOf, Reset DEF Withdrawn, SameAttempt
<1>2. Put(a, q)
  BY DEF RevokeAllActionIdentities
<1> HIDE DEF q
<1> QED BY <1>1, <1>2

LEMMA RevokeShape ==
  ASSUME TypeInv, NEW a \in Account, RevokeActionSession(a)
  PROVE  \E q \in Entry : /\ Put(a, q) /\ Withdrawn(held[a], q)
                          /\ SameAttempt(held[a], q) /\ q.session = None
<1> DEFINE p == AdvanceActionAuthorizationEpoch(held[a])
           q == [p EXCEPT !.session = None]
<1>1. Put(a, q)
  BY DEF RevokeActionSession
<1>2. p \in Entry /\ Withdrawn(held[a], p) /\ SameAttempt(held[a], p)
  BY EntryOf, Advanced DEF Withdrawn, SameAttempt
<1> HIDE DEF p
<1>3. q \in Entry
  BY <1>2 DEF Entry, OrNone
<1>4. Withdrawn(held[a], q) /\ SameAttempt(held[a], q) /\ q.session = None
  BY <1>2 DEF Entry, Withdrawn, SameAttempt
<1> HIDE DEF q
<1> QED BY <1>1, <1>3, <1>4

LEMMA AcceptShape ==
  ASSUME TypeInv, NEW a \in Account, BookInv(a), NEW o \in Principal, NEW nonce,
         NEW f \in Factor, NEW n \in Nullifier, AcceptRecoveryTicket(a, o, nonce, f, n)
  PROVE  LET r == held[a] IN
         \E q \in Entry, p \in Attempt :
           /\ Put(a, q) /\ SameTerms(r, q)
           /\ q.owner = r.owner /\ q.config = r.config /\ q.nonce = r.nonce
           /\ q.session = r.session /\ q.authorization = r.authorization
           /\ q.pending = p /\ q.approvals = r.approvals \cup {<<r.nonce, f>>}
           /\ p.newOwner = o /\ p.nonce = r.nonce
           /\ p.approved = 1 + (IF r.pending = None THEN 0 ELSE r.pending.approved)
           /\ p.executable = IF p.approved >= r.config.threshold
                             THEN now + r.config.timelock ELSE 0
           /\ r.pending # None => r.pending.newOwner = o
           /\ r.owner # None /\ f \in r.config.factors /\ n \notin used[a]
           /\ <<r.nonce, f>> \notin r.approvals
<1> DEFINE r == held[a]
           b == OpenAttempt(r, o)
           k == b.approved + 1
           x == IF k >= r.config.threshold THEN now + r.config.timelock ELSE b.executable
           p == [b EXCEPT !.approved = k, !.executable = x]
           s == r.approvals \cup {<<r.nonce, f>>}
           q == [r EXCEPT !.approvals = s, !.pending = p]
<1>1. r \in Entry /\ now \in Nat
  BY EntryOf DEF TypeInv
<1>2. r.owner # None /\ r.config \in Config /\ r.nonce \in Nat
  BY <1>1 DEF AcceptRecoveryTicket, IsOwned, BookInv, Entry, OrNone
<1>3. r.config.threshold \in Nat /\ r.config.timelock \in Nat
  BY <1>2, ConfigAssumption
<1>4. b \in Attempt /\ b.newOwner = o /\ b.nonce = r.nonce /\ b.executable = 0
  <2>1. r.pending # None => r.pending \in Attempt
    BY <1>1 DEF Entry, OrNone
  <2>2. Supports(b, r, o)
    BY DEF AcceptRecoveryTicket
  <2>3. b \in Attempt
    BY <1>2, <2>1 DEF OpenAttempt, Attempt
  <2> QED BY <2>2, <2>3 DEF Supports
<1>5. b.approved = IF r.pending = None THEN 0 ELSE r.pending.approved
  BY DEF OpenAttempt
<1>6. r.pending # None => r.pending.newOwner = o
  BY <1>4 DEF OpenAttempt
<1>7. Approved(b, r.config) = p
  BY DEF Approved
<1>8. Put(a, q)
  BY <1>7 DEF AcceptRecoveryTicket
<1>9. f \in r.config.factors /\ n \notin used[a] /\ <<r.nonce, f>> \notin r.approvals
  BY DEF AcceptRecoveryTicket, HasApprovedFactor
<1>10. k \in Nat /\ x \in Nat /\ s \in SUBSET (Nat \X Factor)
  BY <1>1, <1>2, <1>3, <1>4 DEF Attempt, Entry
<1>11. x = IF k >= r.config.threshold THEN now + r.config.timelock ELSE 0
  BY <1>4
<1> HIDE DEF b, k, x, s, r
<1>12. p \in Attempt /\ p.newOwner = o /\ p.nonce = r.nonce /\ p.approved = k /\ p.executable = x
  BY <1>4, <1>10 DEF Attempt
<1> HIDE DEF p
<1>13. q \in Entry
  BY <1>1, <1>10, <1>12 DEF Entry, OrNone
<1>14. /\ q.owner = r.owner /\ q.config = r.config /\ q.nonce = r.nonce
       /\ q.session = r.session /\ q.authorization = r.authorization
       /\ q.pending = p /\ q.approvals = s /\ SameTerms(r, q)
  BY <1>1 DEF Entry, SameTerms, Terms
<1> HIDE DEF q
<1>15. k = 1 + (IF r.pending = None THEN 0 ELSE r.pending.approved)
  BY <1>4, <1>5, <1>10 DEF k, Attempt
<1> QED BY <1>2, <1>6, <1>8, <1>9, <1>11, <1>12, <1>13, <1>14, <1>15 DEF r, s

LEMMA CloseShape ==
  ASSUME NEW r \in Entry, r.pending # None, NEW q, q = CloseAttempt(r)
  PROVE  /\ q \in Entry
         /\ q.owner = r.owner /\ q.config = r.config /\ q.pending = None
         /\ q.nonce = r.pending.nonce + 1 /\ q.approvals = r.approvals
         /\ q.epoch = r.epoch /\ q.identities = r.identities
         /\ q.session = r.session /\ q.authorization = r.authorization
<1> DEFINE k == r.pending.nonce + 1
<1>1. k \in Nat
  BY DEF Entry, OrNone, Attempt
<1>2. q = [r EXCEPT !.pending = None, !.nonce = k]
  BY DEF CloseAttempt
<1> HIDE DEF k
<1>3. q \in Entry
  BY <1>1, <1>2 DEF Entry, OrNone
<1>4. /\ q.owner = r.owner /\ q.config = r.config /\ q.pending = None
      /\ q.nonce = k /\ q.approvals = r.approvals
      /\ q.epoch = r.epoch /\ q.identities = r.identities
      /\ q.session = r.session /\ q.authorization = r.authorization
  BY <1>2 DEF Entry
<1> QED BY <1>3, <1>4 DEF k

LEMMA FinalizeShape ==
  ASSUME TypeInv, NEW a \in Account, FinalizeRecovery(a)
  PROVE  LET r == held[a] IN
         \E q \in Entry :
           /\ Put(a, q) /\ Withdrawn(r, q)
           /\ r.pending \in Attempt /\ q.owner = r.pending.newOwner /\ q.config = r.config
           /\ q.pending = None /\ q.nonce = r.pending.nonce + 1 /\ q.approvals = r.approvals
<1> DEFINE r == held[a]
           u == ResetActionAuthorization(r)
           p == CloseAttempt(u)
           o == r.pending.newOwner
           q == [p EXCEPT !.owner = o, !.session = None]
<1>1. Put(a, q) /\ r.pending # None
  BY DEF FinalizeRecovery
<1>2. r \in Entry /\ r.pending \in Attempt
  BY <1>1, EntryOf DEF Entry, OrNone
<1> HIDE DEF r
<1>3. o \in Principal
  BY <1>2 DEF Attempt
<1> HIDE DEF o
<1>4. u \in Entry /\ Withdrawn(r, u) /\ SameAttempt(r, u)
  BY <1>2, Reset DEF Withdrawn, SameAttempt
<1> HIDE DEF u
<1>5. /\ p \in Entry /\ Withdrawn(r, p) /\ p.config = r.config /\ p.pending = None
      /\ p.nonce = r.pending.nonce + 1 /\ p.approvals = r.approvals
  BY <1>1, <1>4, CloseShape DEF Withdrawn, SameAttempt
<1> HIDE DEF p
<1>6. q \in Entry
  BY <1>3, <1>5, ZenonT(60) DEF Entry, OrNone
<1>7. /\ Withdrawn(r, q) /\ q.owner = o /\ q.config = r.config
      /\ q.pending = None /\ q.nonce = r.pending.nonce + 1 /\ q.approvals = r.approvals
  BY <1>5 DEF Entry, Withdrawn
<1> HIDE DEF q
<1> QED BY <1>1, <1>2, <1>6, <1>7 DEF r, o

LEMMA CancelShape ==
  ASSUME TypeInv, NEW a \in Account, CancelRecovery(a)
  PROVE  LET r == held[a] IN
         \E q \in Entry :
           /\ Put(a, q) /\ SameTerms(r, q)
           /\ r.owner # None /\ r.pending \in Attempt /\ q.owner = r.owner /\ q.config = r.config
           /\ q.pending = None /\ q.nonce = r.pending.nonce + 1 /\ q.approvals = r.approvals
           /\ q.session = r.session /\ q.authorization = r.authorization
<1> DEFINE r == held[a]
           q == CloseAttempt(r)
<1>1. Put(a, q) /\ r.pending # None /\ r.owner # None
  BY DEF CancelRecovery, IsOwned
<1>2. r \in Entry /\ r.pending \in Attempt
  BY <1>1, EntryOf DEF Entry, OrNone
<1>3. /\ q \in Entry /\ SameTerms(r, q) /\ q.owner = r.owner /\ q.config = r.config
      /\ q.pending = None /\ q.nonce = r.pending.nonce + 1 /\ q.approvals = r.approvals
      /\ q.session = r.session /\ q.authorization = r.authorization
  <2> HIDE DEF r
  <2> QED BY <1>1, <1>2, CloseShape DEF SameTerms, Terms
<1> HIDE DEF q
<1> QED BY <1>1, <1>2, <1>3

LEMMA ActivateShape ==
  ASSUME NEW a \in Account, NEW e \in Executor, NEW expires \in Expiry, NEW nonce,
         NEW n \in Nullifier, NEW auth \in AuthorizationRecord, NEW r \in Entry,
         NEW terms, ActivateActionSession(a, e, expires, nonce, n, auth, r, terms)
  PROVE  \E q \in Entry : /\ Put(a, q) /\ SameAttempt(r, q) /\ SameTerms(r, q)
                          /\ q.authorization = auth
<1> DEFINE s == Session(e, expires, n)
           k == r.sessionNonce + 1
           q == [r EXCEPT !.authorization = auth, !.session = s, !.sessionNonce = k]
<1>1. Put(a, q)
  BY DEF ActivateActionSession
<1>2. s \in SessionRecord /\ k \in Nat
  BY DEF Session, SessionRecord, Entry
<1> HIDE DEF s, k
<1>3. q \in Entry
  BY <1>2 DEF Entry, OrNone
<1>4. SameAttempt(r, q) /\ SameTerms(r, q) /\ q.authorization = auth
  BY DEF Entry, SameAttempt, SameTerms, Terms
<1> HIDE DEF q
<1> QED BY <1>1, <1>3, <1>4

LEMMA EnrolledShape ==
  ASSUME TypeInv, NEW a \in Account, NEW e \in Executor, NEW expires \in Expiry,
         NEW nonce, NEW i \in Identity, NEW epoch, NEW n \in Nullifier, NEW terms,
         ActivateEnrolled(a, e, expires, nonce, i, epoch, n, terms)
  PROVE  \E q \in Entry : /\ Put(a, q) /\ SameAttempt(held[a], q) /\ SameTerms(held[a], q)
                          /\ held[a].owner # None /\ epoch = held[a].epoch
<1> DEFINE r == held[a]
           auth == Authorization(i, r.epoch, r.sessionNonce + 1, FALSE)
<1>1. r \in Entry
  BY EntryOf
<1>2. auth \in AuthorizationRecord
  BY <1>1 DEF Authorization, AuthorizationRecord, Entry, OrNone
<1>3. /\ ActivateActionSession(a, e, expires, nonce, n, auth, r, terms)
      /\ r.owner # None /\ epoch = r.epoch
  BY DEF ActivateEnrolled, IsOwned, IsPresentEpoch
<1> HIDE DEF r, auth
<1>4. \E q \in Entry : Put(a, q) /\ SameAttempt(r, q) /\ SameTerms(r, q)
  BY <1>1, <1>2, <1>3, ActivateShape
<1> QED BY <1>3, <1>4 DEF r

(* The owner lets somebody in: as the epoch is, or with the first one.      *)
LEMMA PresentEntry ==
  ASSUME TypeInv, NEW a \in Account,
         NEW r, r = IF held[a].epoch = 0 THEN AdvanceActionAuthorizationEpoch(held[a])
                    ELSE held[a]
  PROVE  /\ r \in Entry /\ SameAttempt(held[a], r) /\ Terms(r) = Terms(held[a])
         /\ r.epoch = held[a].epoch \/ r.epoch = held[a].epoch + 1
<1>1. CASE held[a].epoch = 0
  BY <1>1, EntryOf, Advanced DEF SameAttempt, Terms
<1>2. CASE held[a].epoch # 0
  BY <1>2, EntryOf DEF SameAttempt
<1> QED BY <1>1, <1>2

OwnerGrants(a) ==
  \E q \in Entry :
    /\ Put(a, q) /\ SameAttempt(held[a], q) /\ held[a].owner # None
    /\ Terms(q) = Terms(held[a]) /\ grant' = [grant EXCEPT ![a] = Terms(q)]
    /\ q.epoch = held[a].epoch \/ q.epoch = held[a].epoch + 1

LEMMA OwnerTicketShape ==
  ASSUME TypeInv, NEW a \in Account, NEW e \in Executor, NEW expires \in Expiry,
         NEW n \in Nullifier, SubmitActionTicket(a, e, expires, n)
  PROVE  OwnerGrants(a)
<1> DEFINE r == IF held[a].epoch = 0 THEN AdvanceActionAuthorizationEpoch(held[a]) ELSE held[a]
           auth == Authorization(None, r.epoch, r.sessionNonce + 1, TRUE)
<1>1. /\ held[a].owner # None
      /\ ActivateActionSession(a, e, expires, r.sessionNonce, n, auth, r, Terms(r))
  BY DEF SubmitActionTicket, IsOwned
<1>2. /\ r \in Entry /\ SameAttempt(held[a], r) /\ Terms(r) = Terms(held[a])
      /\ r.epoch = held[a].epoch \/ r.epoch = held[a].epoch + 1
  <2> HIDE DEF auth
  <2> QED BY PresentEntry
<1> HIDE DEF r
<1>3. auth \in AuthorizationRecord
  BY <1>2 DEF Authorization, AuthorizationRecord, Entry, OrNone
<1> HIDE DEF auth
<1>4. PICK q \in Entry : Put(a, q) /\ SameAttempt(r, q) /\ SameTerms(r, q)
  BY <1>1, <1>2, <1>3, ActivateShape
<1>5. grant' = [grant EXCEPT ![a] = Terms(r)]
  BY <1>1 DEF ActivateActionSession
<1> QED BY <1>1, <1>2, <1>4, <1>5 DEF OwnerGrants, SameAttempt, SameTerms

LEMMA ReauthorizeShape ==
  ASSUME TypeInv, NEW a \in Account, NEW seen, ReauthorizeActiveActionSession(a, seen)
  PROVE  OwnerGrants(a)
<1> DEFINE r == IF held[a].epoch = 0 THEN AdvanceActionAuthorizationEpoch(held[a]) ELSE held[a]
           auth == Authorization(None, r.epoch, r.sessionNonce, TRUE)
           q == [r EXCEPT !.authorization = auth]
<1>1. held[a].owner # None /\ Put(a, q) /\ grant' = [grant EXCEPT ![a] = Terms(r)]
  BY DEF ReauthorizeActiveActionSession, IsOwned
<1>2. /\ r \in Entry /\ SameAttempt(held[a], r) /\ Terms(r) = Terms(held[a])
      /\ r.epoch = held[a].epoch \/ r.epoch = held[a].epoch + 1
  <2> HIDE DEF auth
  <2> QED BY PresentEntry
<1> HIDE DEF r
<1>3. auth \in AuthorizationRecord
  BY <1>2 DEF Authorization, AuthorizationRecord, Entry, OrNone
<1> HIDE DEF auth
<1>4. q \in Entry
  BY <1>2, <1>3 DEF Entry, OrNone
<1>5. SameAttempt(r, q) /\ q.epoch = r.epoch /\ Terms(q) = Terms(r)
  BY <1>2 DEF Entry, SameAttempt, Terms
<1> HIDE DEF q
<1> QED BY <1>1, <1>2, <1>4, <1>5 DEF OwnerGrants, SameAttempt

(* A cleanup leaves the entry reset or cleared. *)
LEMMA ClearShape ==
  ASSUME TypeInv, NEW a \in Account, ClearAccount(a)
  PROVE  \E q \in Entry :
           /\ Put(a, q) /\ Withdrawn(held[a], q)
           /\ \/ /\ q.owner = None /\ q.nonce = 0 /\ q.approvals = {} /\ q.pending = None
                 /\ q.session = None /\ support' = [support EXCEPT ![a] = {}] /\ calls' = calls
              \/ /\ SameAttempt(held[a], q) /\ support' = support /\ q.session = held[a].session
                 /\ calls' = Append(calls, [kind |-> "clear", account |-> a])
<1> DEFINE u == ResetActionAuthorization(held[a])
           c == Cleared(u)
<1>1. u \in Entry /\ Withdrawn(held[a], u) /\ SameAttempt(held[a], u) /\ u.session = held[a].session
  BY EntryOf, Reset DEF Withdrawn, SameAttempt
<1>2. \/ Put(a, c) /\ support' = [support EXCEPT ![a] = {}] /\ calls' = calls
      \/ /\ Put(a, u) /\ support' = support
         /\ calls' = Append(calls, [kind |-> "clear", account |-> a])
  BY DEF ClearAccount, Push
<1> HIDE DEF u
<1>3. /\ c \in Entry /\ Withdrawn(held[a], c) /\ c.owner = None /\ c.nonce = 0
      /\ c.approvals = {} /\ c.pending = None /\ c.session = None
  BY <1>1, Cleaned DEF Withdrawn
<1> HIDE DEF c
<1>4. CASE Put(a, c) /\ support' = [support EXCEPT ![a] = {}] /\ calls' = calls
  BY <1>3, <1>4
<1>5. CASE /\ Put(a, u) /\ support' = support
           /\ calls' = Append(calls, [kind |-> "clear", account |-> a])
  BY <1>1, <1>5
<1> QED BY <1>2, <1>4, <1>5

LEMMA RefundShape ==
  ASSUME TypeInv, RefundReturns
  PROVE  \E a \in Account, q \in Entry :
           /\ Put(a, q) /\ support' = [support EXCEPT ![a] = {}]
           /\ q.owner = None /\ q.nonce = 0 /\ q.approvals = {} /\ q.pending = None
           /\ q.session = None /\ q.epoch = held[a].epoch
           /\ q.authorization = held[a].authorization
<1> DEFINE a == Top.account
           q == Cleared(held[a])
<1>1. Put(a, q) /\ support' = [support EXCEPT ![a] = {}]
  BY DEF RefundReturns
<1>2. Top \in Frame /\ Top.kind = "clear"
  BY DEF RefundReturns, InCall, Top, TypeInv
<1>3. a \in Account
  BY <1>2 DEF Frame, RequestCall
<1> HIDE DEF a
<1>4. /\ q \in Entry /\ q.owner = None /\ q.nonce = 0 /\ q.approvals = {} /\ q.pending = None
      /\ q.session = None /\ q.epoch = held[a].epoch /\ q.authorization = held[a].authorization
  BY <1>3, EntryOf, Cleaned
<1> HIDE DEF q
<1> QED BY <1>1, <1>3, <1>4

-----------------------------------------------------------------------------
(* Types, and accounts that are set up entirely or not at all *)

BooksInv == TypeInv /\ \A a \in Account : BookInv(a)

LEMMA PutEntry ==
  ASSUME TypeInv, NEW a \in Account, NEW q \in Entry, Put(a, q)
  PROVE  /\ held' \in [Account -> Entry] /\ held'[a] = q
         /\ \A b \in Account : b # a => held'[b] = held[b]
BY DEF TypeInv, Put

(* An entry keeps its book if the account stays set up, or leaves entirely. *)
LEMMA BookStep ==
  ASSUME BooksInv, NEW a \in Account, NEW q \in Entry, Put(a, q),
         IF q.owner = None
         THEN q.nonce = 0 /\ q.approvals = {} /\ q.pending = None /\ q.session = None
         ELSE q.config # None
  PROVE  \A b \in Account : BookInv(b)'
<1> SUFFICES ASSUME NEW b \in Account PROVE BookInv(b)'
  OBVIOUS
<1>1. CASE b = a
  BY <1>1, PutEntry DEF BooksInv, BookInv
<1>2. CASE b # a
  BY <1>2, PutEntry DEF BooksInv, BookInv
<1> QED BY <1>1, <1>2

(* The same entry but for its session. *)
LEMMA BookKept ==
  ASSUME BooksInv, NEW a \in Account, NEW q \in Entry, Put(a, q), SameAttempt(held[a], q),
         q.owner = None => q.session = None
  PROVE  \A b \in Account : BookInv(b)'
<1>1. BookInv(a)
  BY DEF BooksInv
<1>2. IF q.owner = None
      THEN q.nonce = 0 /\ q.approvals = {} /\ q.pending = None /\ q.session = None
      ELSE q.config # None
  BY <1>1 DEF BookInv, SameAttempt
<1> QED BY <1>2, BookStep

(* What is left alone keeps its type. *)
LEMMA TypeStep ==
  ASSUME TypeInv, NEW a \in Account, NEW q \in Entry, Put(a, q),
         UNCHANGED <<now, backupOwner, used, requests, executed, grant>>,
         calls' \in Seq(Frame), support' \in [Account -> SUBSET Support]
  PROVE  TypeInv'
BY PutEntry DEF TypeInv, requests

LEMMA PushPop ==
  ASSUME TypeInv
  PROVE  /\ \A frame \in Frame : Append(calls, frame) \in Seq(Frame)
         /\ calls # <<>> => SubSeq(calls, 1, Len(calls) - 1) \in Seq(Frame)
BY DEF TypeInv

LEMMA BooksStep == BooksInv /\ [Next]_vars => BooksInv'
<1> SUFFICES ASSUME BooksInv, [Next]_vars PROVE BooksInv'
  OBVIOUS
<1> USE DEF BooksInv
<1>1. ASSUME NEW a \in Account, NEW c \in Config, SetupRecovery(a, c) PROVE BooksInv'
  <2>1. PICK q \in Entry : Put(a, q) /\ q.owner = backupOwner[a] /\ q.config = c
    BY <1>1, SetupShape
  <2>2. q.owner # None /\ q.config # None
    BY <2>1, NoneAssumption DEF TypeInv
  <2>3. TypeInv'
    BY <1>1, <2>1, TypeStep DEF SetupRecovery, rest, history, TypeInv
  <2> QED BY <2>1, <2>2, <2>3, BookStep
<1>2. ASSUME NEW a \in Account, NEW c \in Config, UpdateRecoveryConfig(a, c) PROVE BooksInv'
  <2>1. PICK q \in Entry : Put(a, q) /\ q.owner = held[a].owner /\ q.config = c
    BY <1>2, UpdateShape
  <2>2. q.owner # None /\ q.config # None
    BY <1>2, <2>1, NoneAssumption DEF UpdateRecoveryConfig, IsOwned
  <2>3. TypeInv'
    BY <1>2, <2>1, TypeStep DEF UpdateRecoveryConfig, rest, history, TypeInv
  <2> QED BY <2>1, <2>2, <2>3, BookStep
<1>3. ASSUME NEW a \in Account, NEW i \in Identity, NEW enabled \in BOOLEAN,
             SetActionIdentity(a, i, enabled)
      PROVE  BooksInv'
  <2>1. PICK q \in Entry : Put(a, q) /\ SameAttempt(held[a], q)
    BY <1>3, IdentityShape
  <2>2. q.owner # None
    BY <1>3, <2>1 DEF SetActionIdentity, IsOwned, SameAttempt
  <2>3. TypeInv'
    BY <1>3, <2>1, TypeStep DEF SetActionIdentity, rest, history, TypeInv
  <2> QED BY <2>1, <2>2, <2>3, BookKept
<1>4. ASSUME NEW a \in Account, RevokeAllActionIdentities(a) PROVE BooksInv'
  <2>1. PICK q \in Entry : Put(a, q) /\ SameAttempt(held[a], q)
    BY <1>4, RevokeAllShape
  <2>2. q.owner # None
    BY <1>4, <2>1 DEF RevokeAllActionIdentities, IsOwned, SameAttempt
  <2>3. TypeInv'
    BY <1>4, <2>1, TypeStep DEF RevokeAllActionIdentities, rest, history, TypeInv
  <2> QED BY <2>1, <2>2, <2>3, BookKept
<1>5. ASSUME NEW a \in Account, RevokeActionSession(a) PROVE BooksInv'
  <2>1. PICK q \in Entry : Put(a, q) /\ SameAttempt(held[a], q)
    BY <1>5, RevokeShape
  <2>2. q.owner # None
    BY <1>5, <2>1 DEF RevokeActionSession, IsOwned, SameAttempt
  <2>3. TypeInv'
    BY <1>5, <2>1, TypeStep DEF RevokeActionSession, rest, history, TypeInv
  <2> QED BY <2>1, <2>2, <2>3, BookKept
<1>6. ASSUME NEW a \in Account, NEW o \in Principal, NEW nonce, NEW f \in Factor,
             NEW n \in Nullifier, AcceptRecoveryTicket(a, o, nonce, f, n),
             recoveryRequest' \in [RequestId -> OrNone(RecoveryRequest)], UNCHANGED actionRequest
      PROVE  BooksInv'
  <2>1. PICK q \in Entry : /\ Put(a, q) /\ q.owner = held[a].owner /\ q.config = held[a].config
                           /\ held[a].owner # None
    BY <1>6, AcceptShape
  <2>2. held[a].config # None
    BY <2>1 DEF BookInv
  <2>3. held' \in [Account -> Entry]
    BY <2>1, PutEntry
  <2>4. support' \in [Account -> SUBSET Support]
    BY <1>6 DEF AcceptRecoveryTicket, Support, TypeInv
  <2>5. used' \in [Account -> SUBSET Nullifier] /\ executed' \in [Account -> [Nullifier -> Nat]]
    BY <1>6 DEF AcceptRecoveryTicket, TypeInv
  <2>6. TypeInv'
    BY <1>6, <2>3, <2>4, <2>5 DEF AcceptRecoveryTicket, rest, TypeInv
  <2> QED BY <2>1, <2>2, <2>6, BookStep
<1>7. ASSUME NEW a \in Account, FinalizeRecovery(a) PROVE BooksInv'
  <2>1. PICK q \in Entry : /\ Put(a, q) /\ held[a].pending \in Attempt
                           /\ q.owner = held[a].pending.newOwner /\ q.config = held[a].config
    BY <1>7, FinalizeShape
  <2>2. q.owner # None
    BY <2>1, NoneAssumption DEF Attempt
  <2>3. q.config # None
    BY <2>1, NoneAssumption DEF BookInv
  <2>4. TypeInv'
    BY <1>7, <2>1, TypeStep DEF FinalizeRecovery, rest, TypeInv
  <2> QED BY <2>1, <2>2, <2>3, <2>4, BookStep
<1>8. ASSUME NEW a \in Account, CancelRecovery(a) PROVE BooksInv'
  <2>1. PICK q \in Entry : /\ Put(a, q) /\ held[a].owner # None /\ q.owner = held[a].owner
                           /\ q.config = held[a].config
    BY <1>8, CancelShape
  <2>2. q.owner # None /\ q.config # None
    BY <2>1 DEF BookInv
  <2>3. TypeInv'
    BY <1>8, <2>1, TypeStep DEF CancelRecovery, rest, TypeInv
  <2> QED BY <2>1, <2>2, <2>3, BookStep
<1>9. ASSUME NEW a \in Account, NEW e \in Executor, NEW expires \in Expiry, NEW nonce,
             NEW i \in Identity, NEW epoch, NEW n \in Nullifier, NEW terms \in TermsRecord,
             ActivateEnrolled(a, e, expires, nonce, i, epoch, n, terms),
             actionRequest' \in [RequestId -> OrNone(ActionRequest)], UNCHANGED recoveryRequest
      PROVE  BooksInv'
  <2>1. PICK q \in Entry : Put(a, q) /\ SameAttempt(held[a], q) /\ held[a].owner # None
    BY <1>9, EnrolledShape
  <2>2. held' \in [Account -> Entry]
    BY <2>1, PutEntry
  <2>3. /\ used' \in [Account -> SUBSET Nullifier] /\ executed' \in [Account -> [Nullifier -> Nat]]
        /\ grant' \in [Account -> OrNone(TermsRecord)] /\ UNCHANGED <<rest, support>>
    BY <1>9 DEF ActivateEnrolled, ActivateActionSession, TypeInv, OrNone
  <2>4. TypeInv'
    BY <1>9, <2>2, <2>3 DEF rest, TypeInv
  <2> QED BY <2>1, <2>4, BookKept DEF SameAttempt
<1>10. ASSUME NEW a \in Account, NEW e \in Executor, NEW expires \in Expiry,
              NEW n \in Nullifier, SubmitActionTicket(a, e, expires, n)
       PROVE  BooksInv'
  <2>1. PICK q \in Entry : /\ Put(a, q) /\ SameAttempt(held[a], q) /\ held[a].owner # None
                           /\ grant' = [grant EXCEPT ![a] = Terms(q)]
    BY <1>10, OwnerTicketShape DEF OwnerGrants
  <2>2. held' \in [Account -> Entry] /\ Terms(q) \in TermsRecord
    BY <2>1, PutEntry DEF Terms, TermsRecord, Entry
  <2>3. /\ used' \in [Account -> SUBSET Nullifier] /\ executed' \in [Account -> [Nullifier -> Nat]]
        /\ grant' \in [Account -> OrNone(TermsRecord)] /\ UNCHANGED <<rest, support>>
    BY <1>10, <2>1, <2>2 DEF SubmitActionTicket, ActivateActionSession, TypeInv, OrNone
  <2>4. TypeInv'
    BY <1>10, <2>2, <2>3 DEF SubmitActionTicket, requests, rest, TypeInv
  <2> QED BY <2>1, <2>4, BookKept DEF SameAttempt
<1>11. ASSUME NEW a \in Account, NEW seen, ReauthorizeActiveActionSession(a, seen)
       PROVE  BooksInv'
  <2>1. PICK q \in Entry : /\ Put(a, q) /\ SameAttempt(held[a], q) /\ held[a].owner # None
                           /\ grant' = [grant EXCEPT ![a] = Terms(q)]
    BY <1>11, ReauthorizeShape DEF OwnerGrants
  <2>2. held' \in [Account -> Entry] /\ Terms(q) \in TermsRecord
    BY <2>1, PutEntry DEF Terms, TermsRecord, Entry
  <2>3. grant' \in [Account -> OrNone(TermsRecord)]
    BY <2>1, <2>2 DEF TypeInv, OrNone
  <2>4. TypeInv'
    BY <1>11, <2>2, <2>3 DEF ReauthorizeActiveActionSession, requests, rest, TypeInv
  <2> QED BY <2>1, <2>4, BookKept DEF SameAttempt
<1>12. ASSUME NEW a \in Account, NEW o \in Principal, NEW f \in Factor, NEW n \in Nullifier,
              SubmitRecoveryTicket(a, o, f, n)
       PROVE  BooksInv'
  BY <1>6, <1>12 DEF SubmitRecoveryTicket, requests, TypeInv
<1>13. ASSUME NEW oracle, NEW id \in RequestId, NEW f \in Factor, NEW n \in Nullifier,
              OnOracleRecovery(oracle, id, f, n)
       PROVE  BooksInv'
  <2>1. recoveryRequest[id] \in RecoveryRequest
    BY <1>13 DEF OnOracleRecovery, TypeInv, OrNone
  <2>2. recoveryRequest' \in [RequestId -> OrNone(RecoveryRequest)]
    BY <1>13 DEF OnOracleRecovery, TypeInv, OrNone
  <2> QED BY <1>6, <1>13, <2>1, <2>2 DEF OnOracleRecovery, RecoveryRequest
<1>14. ASSUME NEW a \in Account, NEW e \in Executor, NEW expires \in Expiry,
              NEW i \in Identity, NEW n \in Nullifier, SubmitActionTicketV4(a, e, expires, i, n)
       PROVE  BooksInv'
  <2>1. Terms(held[a]) \in TermsRecord
    BY EntryOf DEF Terms, TermsRecord, Entry
  <2> QED BY <1>9, <1>14, <2>1 DEF SubmitActionTicketV4, requests, TypeInv
<1>15. ASSUME NEW oracle, NEW id \in RequestId, NEW i \in Identity, NEW n \in Nullifier,
              OnOracleAction(oracle, id, i, n)
       PROVE  BooksInv'
  <2>1. actionRequest[id] \in ActionRequest
    BY <1>15 DEF OnOracleAction, TypeInv, OrNone
  <2>2. actionRequest' \in [RequestId -> OrNone(ActionRequest)]
    BY <1>15 DEF OnOracleAction, TypeInv, OrNone
  <2> QED BY <1>9, <1>15, <2>1, <2>2 DEF OnOracleAction, ActionRequest
<1>16. ASSUME NEW a \in Account, ClearAccount(a) PROVE BooksInv'
  <2>1. PICK q \in Entry :
          /\ Put(a, q)
          /\ \/ /\ q.owner = None /\ q.nonce = 0 /\ q.approvals = {} /\ q.pending = None
                /\ q.session = None /\ support' = [support EXCEPT ![a] = {}] /\ calls' = calls
             \/ /\ SameAttempt(held[a], q) /\ support' = support /\ q.session = held[a].session
                /\ calls' = Append(calls, [kind |-> "clear", account |-> a])
    BY <1>16, ClearShape
  <2>2. calls' \in Seq(Frame) /\ support' \in [Account -> SUBSET Support]
    <3>1. [kind |-> "clear", account |-> a] \in Frame
      BY DEF Frame
    <3> QED BY <2>1, <3>1, PushPop DEF TypeInv
  <2>3. TypeInv'
    BY <1>16, <2>1, <2>2, TypeStep DEF ClearAccount
  <2>4. CASE q.owner = None /\ q.nonce = 0 /\ q.approvals = {} /\ q.pending = None /\ q.session = None
    BY <2>1, <2>3, <2>4, BookStep
  <2>5. CASE SameAttempt(held[a], q) /\ q.session = held[a].session
    BY <2>1, <2>3, <2>5, BookKept DEF BookInv, SameAttempt
  <2> QED BY <2>1, <2>4, <2>5
<1>17. CASE RefundReturns
  <2>1. PICK a \in Account, q \in Entry :
          /\ Put(a, q) /\ support' = [support EXCEPT ![a] = {}]
          /\ q.owner = None /\ q.nonce = 0 /\ q.approvals = {} /\ q.pending = None
          /\ q.session = None
    BY <1>17, RefundShape
  <2>2. calls' \in Seq(Frame) /\ support' \in [Account -> SUBSET Support]
    BY <1>17, <2>1, PushPop DEF RefundReturns, InCall, Pop, TypeInv
  <2>3. TypeInv'
    BY <1>17, <2>1, <2>2, TypeStep DEF RefundReturns
  <2> QED BY <2>1, <2>3, BookStep
<1>18. ASSUME held' = held, TypeInv' PROVE BooksInv'
  BY <1>18 DEF BookInv
<1>19. ASSUME NEW a \in Account, NEW o \in Principal, NEW expires \in Expiry,
              RequestRecoveryTicket(a, o, expires)
       PROVE  BooksInv'
  <2> DEFINE s == [account |-> a, newOwner |-> o, nonce |-> held[a].nonce, expires |-> expires]
  <2>1. s \in RecoveryRequest
    BY EntryOf DEF RecoveryRequest, Entry
  <2>2. calls' = Append(calls, [kind |-> "recovery", saves |-> s])
    BY <1>19 DEF RequestRecoveryTicket, Push
  <2>3. calls' \in Seq(Frame)
    BY <2>1, <2>2, PushPop DEF Frame, RequestCall
  <2> QED BY <1>18, <1>19, <2>3 DEF RequestRecoveryTicket, requests, history, TypeInv
<1>20. ASSUME NEW a \in Account, NEW e \in Executor, NEW expires \in Expiry,
              RequestActionSession(a, e, expires)
       PROVE  BooksInv'
  <2> DEFINE s == [account |-> a, executor |-> e, expires |-> expires,
                   sessionNonce |-> held[a].sessionNonce, epoch |-> held[a].epoch,
                   terms |-> Terms(held[a])]
  <2>1. s \in ActionRequest
    BY EntryOf DEF ActionRequest, Entry, Terms, TermsRecord
  <2>2. calls' = Append(calls, [kind |-> "action", saves |-> s])
    BY <1>20 DEF RequestActionSession, Push
  <2>3. calls' \in Seq(Frame)
    BY <2>1, <2>2, PushPop DEF Frame, RequestCall
  <2> QED BY <1>18, <1>20, <2>3 DEF RequestActionSession, requests, history, TypeInv
<1>21. ASSUME NEW id \in RequestId, OracleReturns(id) PROVE BooksInv'
  <2>1. Top \in Frame /\ calls' \in Seq(Frame)
    BY <1>21, PushPop DEF OracleReturns, InCall, Top, Pop, TypeInv
  <2>2. /\ Top.kind = "recovery" => Top.saves \in RecoveryRequest
        /\ Top.kind = "action" => Top.saves \in ActionRequest
    BY <2>1 DEF Frame, RequestCall
  <2>3. /\ recoveryRequest' \in [RequestId -> OrNone(RecoveryRequest)]
        /\ actionRequest' \in [RequestId -> OrNone(ActionRequest)]
    BY <1>21, <2>2 DEF OracleReturns, InCall, TypeInv, OrNone
  <2> QED BY <1>18, <1>21, <2>1, <2>3 DEF OracleReturns, history, TypeInv
<1>22. ASSUME NEW a \in Account, NEW amount, OnNEP17Payment(a, amount) \/ DepositOracleCredits(a, amount)
       PROVE  BooksInv'
  BY <1>18, <1>22 DEF OnNEP17Payment, DepositOracleCredits, requests, history, TypeInv
<1>23. ASSUME NEW a \in Account, NEW o \in Principal, CoreChangesOwner(a, o) PROVE BooksInv'
  BY <1>18, <1>23 DEF CoreChangesOwner, requests, history, TypeInv
<1>24. CASE Tick
  BY <1>18, <1>24 DEF Tick, requests, history, TypeInv
<1>25. CASE UNCHANGED vars
  BY <1>18, <1>25 DEF vars, history, TypeInv
<1> QED
  BY <1>1, <1>2, <1>3, <1>4, <1>5, <1>7, <1>8, <1>10, <1>11, <1>12, <1>13, <1>14, <1>15,
     <1>16, <1>17, <1>19, <1>20, <1>21, <1>22, <1>23, <1>24, <1>25
  DEF Next, Owned, Recovery, Sessions, Oracles

LEMMA InitBooks == Init => BooksInv
<1> SUFFICES ASSUME Init PROVE BooksInv
  OBVIOUS
<1>1. TypeInv
  BY InitType
<1>2. ASSUME NEW a \in Account PROVE BookInv(a)
  <2>1. CASE held[a] = NotSetUp
    BY <2>1 DEF BookInv, NotSetUp
  <2>2. ASSUME NEW o \in Principal, NEW c \in Config, NEW s \in OrNone(SessionRecord),
               held[a] = Upgraded(o, c, s)
        PROVE  BookInv(a)
    BY <2>2, UpgradedType, NoneAssumption DEF BookInv
  <2>3. \A e \in Executor, t \in Expiry, n \in Nullifier : Session(e, t, n) \in SessionRecord
    BY DEF Session, SessionRecord
  <2> QED BY <2>1, <2>2, <2>3 DEF Init, OrNone
<1> QED BY <1>1, <1>2 DEF BooksInv

(* Every reachable state of the plugin is well typed, and an account is set *)
(* up entirely or not at all (StoreConfig, ClearAccount).                   *)
THEOREM BooksCorrect == Spec => []BooksInv
BY InitBooks, BooksStep, PTL DEF Spec

-----------------------------------------------------------------------------
(* Attempts *)

Backing(a) == {s.factor : s \in support[a]}

(* The attempt that is open counts the factors that back it, and its        *)
(* timelock runs from the last of them.                                     *)
OpenAttemptInv(a) ==
  LET r == held[a] IN
  /\ r.pending.nonce = r.nonce
  /\ Approving(a) \subseteq r.config.factors
  /\ r.pending.approved = Cardinality(Approving(a))
  /\ r.pending.executable > 0 <=> r.pending.approved >= r.config.threshold
  /\ Approving(a) = Backing(a)
  /\ \A s \in support[a] :
       /\ s.newOwner = r.pending.newOwner /\ s.at <= now
       /\ r.pending.executable > 0 => s.at + r.config.timelock <= r.pending.executable

AttemptInv(a) ==
  /\ \A p \in held[a].approvals : p[1] <= held[a].nonce
  /\ IF held[a].pending = None THEN Approving(a) = {} /\ support[a] = {}
     ELSE OpenAttemptInv(a)

AttemptsInv == BooksInv /\ \A a \in Account : AttemptInv(a)

(* Time may pass over an attempt. *)
LEMMA AttemptKept ==
  ASSUME AttemptsInv, NEW b \in Account, SameAttempt(held[b], held'[b]),
         support'[b] = support[b], now' \in Nat, now <= now'
  PROVE  AttemptInv(b)'
<1>1. Approving(b)' = Approving(b) /\ Backing(b)' = Backing(b)
  BY DEF Approving, HasApprovedFactor, SameAttempt, Backing
<1>2. \A s \in support[b] : s.at <= now => s.at <= now'
  BY DEF AttemptsInv, BooksInv, TypeInv, Support
<1>3. AttemptInv(b)
  BY DEF AttemptsInv
<1>4. OpenAttemptInv(b) => OpenAttemptInv(b)'
  BY <1>1, <1>2 DEF OpenAttemptInv, SameAttempt
<1> QED BY <1>1, <1>3, <1>4 DEF AttemptInv, SameAttempt

LEMMA AttemptStep ==
  ASSUME AttemptsInv, NEW a \in Account, NEW q \in Entry, Put(a, q), now' = now,
         \A b \in Account : b # a => support'[b] = support[b],
         AttemptInv(a)'
  PROVE  \A b \in Account : AttemptInv(b)'
<1> SUFFICES ASSUME NEW b \in Account, b # a PROVE AttemptInv(b)'
  OBVIOUS
<1>1. SameAttempt(held[b], held'[b])
  BY PutEntry DEF AttemptsInv, BooksInv, SameAttempt
<1> QED BY <1>1, AttemptKept DEF AttemptsInv, BooksInv, TypeInv

(* An operation that has nothing to do with attempts. *)
LEMMA AttemptsKept ==
  ASSUME AttemptsInv, NEW a \in Account, NEW q \in Entry, Put(a, q), SameAttempt(held[a], q),
         now' = now, support' = support
  PROVE  \A b \in Account : AttemptInv(b)'
<1>1. AttemptInv(a)'
  BY AttemptKept, PutEntry DEF AttemptsInv, BooksInv, TypeInv
<1> QED BY <1>1, AttemptStep

(* An attempt that is closed leaves no approval of the next one's.          *)
LEMMA AttemptClosed ==
  ASSUME AttemptsInv, NEW a \in Account, NEW q \in Entry, Put(a, q), now' = now,
         held[a].pending \in Attempt, q.nonce = held[a].pending.nonce + 1,
         q.pending = None, q.approvals = held[a].approvals,
         support' = [support EXCEPT ![a] = {}]
  PROVE  \A b \in Account : AttemptInv(b)'
<1>1. AttemptInv(a) /\ held[a].nonce \in Nat /\ held'[a] = q /\ support'[a] = {}
  BY EntryOf, PutEntry DEF AttemptsInv, BooksInv, TypeInv, Entry
<1>2. held[a].pending # None
  BY NoneAssumption
<1>3. q.nonce = held[a].nonce + 1
  BY <1>1, <1>2 DEF AttemptInv, OpenAttemptInv
<1>4. \A p \in q.approvals : p[1] \in Nat /\ p[1] <= held[a].nonce
  BY <1>1, EntryOf DEF AttemptInv, AttemptsInv, BooksInv, Entry
<1>5. Approving(a)' = {}
  BY <1>1, <1>3, <1>4 DEF Approving, HasApprovedFactor
<1>6. AttemptInv(a)'
  BY <1>1, <1>3, <1>4, <1>5 DEF AttemptInv
<1>7. \A b \in Account : b # a => support'[b] = support[b]
  BY DEF AttemptsInv, BooksInv, TypeInv
<1> QED BY <1>6, <1>7, AttemptStep

LEMMA AttemptAccepted ==
  ASSUME AttemptsInv, NEW a \in Account, NEW o \in Principal, NEW nonce, NEW f \in Factor,
         NEW n \in Nullifier, AcceptRecoveryTicket(a, o, nonce, f, n)
  PROVE  \A b \in Account : AttemptInv(b)'
<1> DEFINE r == held[a]
           e == [factor |-> f, newOwner |-> o, at |-> now]
<1>1. BookInv(a) /\ AttemptInv(a) /\ TypeInv
  BY DEF AttemptsInv, BooksInv
<1>2. PICK q \in Entry, p \in Attempt :
        /\ Put(a, q)
        /\ q.owner = r.owner /\ q.config = r.config /\ q.nonce = r.nonce
        /\ q.pending = p /\ q.approvals = r.approvals \cup {<<r.nonce, f>>}
        /\ p.newOwner = o /\ p.nonce = r.nonce
        /\ p.approved = 1 + (IF r.pending = None THEN 0 ELSE r.pending.approved)
        /\ p.executable = IF p.approved >= r.config.threshold
                          THEN now + r.config.timelock ELSE 0
        /\ r.pending # None => r.pending.newOwner = o
        /\ r.owner # None /\ f \in r.config.factors
        /\ <<r.nonce, f>> \notin r.approvals
  BY <1>1, AcceptShape
<1>3. r \in Entry /\ r.nonce \in Nat /\ now \in Nat
  BY EntryOf, <1>1 DEF Entry, TypeInv
<1>4. r.config \in Config
  BY <1>1, <1>2, <1>3 DEF BookInv, Entry, OrNone
<1>5. /\ r.config.threshold \in Nat /\ r.config.timelock \in Nat \ {0}
      /\ IsFiniteSet(r.config.factors)
  BY <1>4, ConfigAssumption
<1>6. support'[a] = support[a] \cup {e} /\ now' = now
  BY <1>1 DEF AcceptRecoveryTicket, rest, TypeInv
<1>7. held'[a] = q
  BY <1>1, <1>2, PutEntry
<1>8. Approving(a)' = Approving(a) \cup {f} /\ f \notin Approving(a)
  BY <1>2, <1>7 DEF Approving, HasApprovedFactor
<1>9. Backing(a)' = Backing(a) \cup {f}
  <2>1. e.factor = f
    OBVIOUS
  <2> HIDE DEF e
  <2> QED BY <1>6, <2>1 DEF Backing
<1>10. Approving(a) \subseteq r.config.factors /\ Approving(a) = Backing(a)
  BY <1>1 DEF AttemptInv, OpenAttemptInv, Backing
<1>11. Cardinality(Approving(a)) = (IF r.pending = None THEN 0 ELSE r.pending.approved)
  BY <1>1, FS_EmptySet DEF AttemptInv, OpenAttemptInv
<1>12. IsFiniteSet(Approving(a))
  BY <1>5, <1>10, FS_Subset
<1>13. p.approved = Cardinality(Approving(a)')
  <2>1. Cardinality(Approving(a) \cup {f}) = Cardinality(Approving(a)) + 1
    BY <1>8, <1>12, FS_AddElement
  <2>2. Cardinality(Approving(a)) \in Nat
    BY <1>12, FS_CardinalityType
  <2>3. p.approved = 1 + Cardinality(Approving(a))
    BY <1>2, <1>11
  <2> QED BY <1>8, <2>1, <2>2, <2>3
<1>14. \A s \in support'[a] : s.newOwner = o /\ s.at \in Nat /\ s.at <= now
  <2>1. \A s \in support[a] : s.newOwner = o /\ s.at \in Nat /\ s.at <= now
    BY <1>1, <1>2 DEF AttemptInv, OpenAttemptInv, TypeInv, Support
  <2> QED BY <1>3, <1>6, <2>1
<1>15. p.executable > 0 <=> p.approved >= r.config.threshold
  <2>1. now + r.config.timelock > 0
    BY <1>3, <1>5
  <2> QED BY <1>2, <2>1
<1>16. p.executable > 0 => p.executable = now + r.config.timelock
  BY <1>2
<1>17. \A s \in support'[a] : p.executable > 0 => s.at + r.config.timelock <= p.executable
  BY <1>3, <1>5, <1>14, <1>16
<1>18. \A s \in q.approvals : s[1] <= q.nonce
  <2>1. \A s \in r.approvals : s[1] <= r.nonce
    BY <1>1 DEF AttemptInv
  <2> QED BY <1>2, <1>3, <2>1
<1> HIDE DEF r, e
<1>19. OpenAttemptInv(a)'
  <2>1. Approving(a)' \subseteq q.config.factors /\ Approving(a)' = Backing(a)'
    BY <1>2, <1>8, <1>9, <1>10
  <2> QED BY <1>2, <1>6, <1>7, <1>13, <1>14, <1>15, <1>17, <2>1 DEF OpenAttemptInv
<1>20. AttemptInv(a)'
  BY <1>2, <1>7, <1>18, <1>19, NoneAssumption DEF AttemptInv
<1>21. \A b \in Account : b # a => support'[b] = support[b]
  BY <1>1 DEF AcceptRecoveryTicket, TypeInv
<1> QED BY <1>2, <1>6, <1>20, <1>21, AttemptStep

(* A call that only starts or stops to wait. *)
LEMMA AttemptsUntouched ==
  ASSUME AttemptsInv, held' = held, support' = support, now' \in Nat, now <= now'
  PROVE  \A b \in Account : AttemptInv(b)'
BY AttemptKept DEF SameAttempt

LEMMA AttemptsStep == AttemptsInv /\ [Next]_vars => AttemptsInv'
<1> SUFFICES ASSUME AttemptsInv, [Next]_vars PROVE \A b \in Account : AttemptInv(b)'
  BY BooksStep DEF AttemptsInv
<1>0. BooksInv /\ TypeInv /\ now \in Nat
  BY DEF AttemptsInv, BooksInv, TypeInv
<1> DEFINE Goal == \A b \in Account : AttemptInv(b)'
<1>1. ASSUME NEW a \in Account, NEW c \in Config, SetupRecovery(a, c) PROVE Goal
  <2>1. PICK q \in Entry : /\ Put(a, q) /\ q.nonce = 0 /\ q.pending = held[a].pending
                           /\ q.approvals = held[a].approvals
    BY <1>0, <1>1, SetupShape
  <2>2. held[a].approvals = {} /\ held[a].pending = None
    BY <1>0, <1>1 DEF SetupRecovery, IsOwned, BooksInv, BookInv
  <2>3. held'[a] = q /\ support' = support /\ now' = now
    BY <1>0, <1>1, <2>1, PutEntry DEF SetupRecovery, history, rest
  <2>4. support[a] = {}
    BY <2>2 DEF AttemptsInv, AttemptInv
  <2>5. Approving(a)' = {}
    BY <2>1, <2>2, <2>3 DEF Approving, HasApprovedFactor
  <2>6. AttemptInv(a)'
    BY <2>1, <2>2, <2>3, <2>4, <2>5 DEF AttemptInv
  <2> QED BY <2>1, <2>3, <2>6, AttemptStep
<1>2. ASSUME NEW a \in Account, NEW c \in Config, UpdateRecoveryConfig(a, c) PROVE Goal
  <2>1. PICK q \in Entry : /\ Put(a, q) /\ q.nonce = held[a].nonce /\ q.pending = held[a].pending
                           /\ q.approvals = held[a].approvals
    BY <1>0, <1>2, UpdateShape
  <2>2. held[a].pending = None
    BY <1>2 DEF UpdateRecoveryConfig
  <2>3. held'[a] = q /\ support' = support /\ now' = now
    BY <1>0, <1>2, <2>1, PutEntry DEF UpdateRecoveryConfig, history, rest
  <2>4. /\ Approving(a) = {} /\ support[a] = {}
        /\ \A p \in held[a].approvals : p[1] <= held[a].nonce
    BY <2>2 DEF AttemptsInv, AttemptInv
  <2>5. Approving(a)' = Approving(a)
    BY <2>1, <2>3 DEF Approving, HasApprovedFactor
  <2>6. AttemptInv(a)'
    BY <2>1, <2>2, <2>3, <2>4, <2>5 DEF AttemptInv
  <2> QED BY <2>1, <2>3, <2>6, AttemptStep
<1>3. ASSUME NEW a \in Account, NEW i \in Identity, NEW enabled, SetActionIdentity(a, i, enabled)
      PROVE  Goal
  <2>1. PICK q \in Entry : Put(a, q) /\ SameAttempt(held[a], q)
    BY <1>0, <1>3, IdentityShape
  <2> QED BY <1>3, <2>1, AttemptsKept DEF SetActionIdentity, rest, history
<1>4. ASSUME NEW a \in Account, RevokeAllActionIdentities(a) PROVE Goal
  <2>1. PICK q \in Entry : Put(a, q) /\ SameAttempt(held[a], q)
    BY <1>0, <1>4, RevokeAllShape
  <2> QED BY <1>4, <2>1, AttemptsKept DEF RevokeAllActionIdentities, rest, history
<1>5. ASSUME NEW a \in Account, RevokeActionSession(a) PROVE Goal
  <2>1. PICK q \in Entry : Put(a, q) /\ SameAttempt(held[a], q)
    BY <1>0, <1>5, RevokeShape
  <2> QED BY <1>5, <2>1, AttemptsKept DEF RevokeActionSession, rest, history
<1>6. ASSUME NEW a \in Account, NEW o \in Principal, NEW f \in Factor, NEW n \in Nullifier,
             SubmitRecoveryTicket(a, o, f, n)
      PROVE  Goal
  BY <1>6, AttemptAccepted DEF SubmitRecoveryTicket
<1>7. ASSUME NEW oracle, NEW id \in RequestId, NEW f \in Factor, NEW n \in Nullifier,
             OnOracleRecovery(oracle, id, f, n)
      PROVE  Goal
  <2>1. recoveryRequest[id] \in RecoveryRequest
    BY <1>0, <1>7 DEF OnOracleRecovery, TypeInv, OrNone
  <2> QED BY <1>7, <2>1, AttemptAccepted DEF OnOracleRecovery, RecoveryRequest
<1>8. ASSUME NEW a \in Account, FinalizeRecovery(a) PROVE Goal
  <2>1. PICK q \in Entry : /\ Put(a, q) /\ held[a].pending \in Attempt /\ q.pending = None
                           /\ q.nonce = held[a].pending.nonce + 1 /\ q.approvals = held[a].approvals
    BY <1>0, <1>8, FinalizeShape
  <2> QED BY <1>8, <2>1, AttemptClosed DEF FinalizeRecovery, rest
<1>9. ASSUME NEW a \in Account, CancelRecovery(a) PROVE Goal
  <2>1. PICK q \in Entry : /\ Put(a, q) /\ held[a].pending \in Attempt /\ q.pending = None
                           /\ q.nonce = held[a].pending.nonce + 1 /\ q.approvals = held[a].approvals
    BY <1>0, <1>9, CancelShape
  <2> QED BY <1>9, <2>1, AttemptClosed DEF CancelRecovery, rest
<1>10. ASSUME NEW a \in Account, NEW e \in Executor, NEW expires \in Expiry, NEW nonce,
              NEW i \in Identity, NEW epoch, NEW n \in Nullifier, NEW terms,
              ActivateEnrolled(a, e, expires, nonce, i, epoch, n, terms)
       PROVE  Goal
  <2>1. PICK q \in Entry : Put(a, q) /\ SameAttempt(held[a], q)
    BY <1>0, <1>10, EnrolledShape
  <2> QED BY <1>10, <2>1, AttemptsKept DEF ActivateEnrolled, ActivateActionSession, rest
<1>11. ASSUME NEW a \in Account, NEW e \in Executor, NEW expires \in Expiry, NEW i \in Identity,
              NEW n \in Nullifier, SubmitActionTicketV4(a, e, expires, i, n)
       PROVE  Goal
  BY <1>10, <1>11 DEF SubmitActionTicketV4
<1>12. ASSUME NEW oracle, NEW id \in RequestId, NEW i \in Identity, NEW n \in Nullifier,
              OnOracleAction(oracle, id, i, n)
       PROVE  Goal
  <2>1. actionRequest[id] \in ActionRequest
    BY <1>0, <1>12 DEF OnOracleAction, TypeInv, OrNone
  <2> QED BY <1>10, <1>12, <2>1 DEF OnOracleAction, ActionRequest
<1>13. ASSUME NEW a \in Account, OwnerGrants(a), UNCHANGED <<rest, support>> PROVE Goal
  BY <1>13, AttemptsKept DEF OwnerGrants, rest
<1>14. ASSUME NEW a \in Account, NEW e \in Executor, NEW expires \in Expiry, NEW n \in Nullifier,
              SubmitActionTicket(a, e, expires, n)
       PROVE  Goal
  BY <1>0, <1>13, <1>14, OwnerTicketShape DEF SubmitActionTicket, ActivateActionSession
<1>15. ASSUME NEW a \in Account, NEW seen, ReauthorizeActiveActionSession(a, seen) PROVE Goal
  BY <1>0, <1>13, <1>15, ReauthorizeShape DEF ReauthorizeActiveActionSession
<1>16. ASSUME NEW a \in Account, NEW q \in Entry, Put(a, q), now' = now,
              support' = [support EXCEPT ![a] = {}],
              q.nonce = 0, q.approvals = {}, q.pending = None
       PROVE  Goal
  <2>1. held'[a] = q /\ support'[a] = {} /\ \A b \in Account : b # a => support'[b] = support[b]
    BY <1>0, <1>16, PutEntry DEF TypeInv
  <2>2. AttemptInv(a)'
    BY <1>16, <2>1 DEF AttemptInv, Approving, HasApprovedFactor
  <2> QED BY <1>16, <2>1, <2>2, AttemptStep
<1>17. ASSUME NEW a \in Account, ClearAccount(a) PROVE Goal
  <2>1. PICK q \in Entry :
          /\ Put(a, q)
          /\ \/ /\ q.owner = None /\ q.nonce = 0 /\ q.approvals = {} /\ q.pending = None
                /\ q.session = None /\ support' = [support EXCEPT ![a] = {}] /\ calls' = calls
             \/ /\ SameAttempt(held[a], q) /\ support' = support /\ q.session = held[a].session
                /\ calls' = Append(calls, [kind |-> "clear", account |-> a])
    BY <1>0, <1>17, ClearShape
  <2>2. now' = now
    BY <1>17 DEF ClearAccount
  <2> QED BY <1>16, <2>1, <2>2, AttemptsKept
<1>18. CASE RefundReturns
  BY <1>0, <1>16, <1>18, RefundShape DEF RefundReturns
<1>19. ASSUME held' = held, support' = support, now' = now PROVE Goal
  BY <1>0, <1>19, AttemptsUntouched
<1>20. ASSUME NEW a \in Account, NEW o \in Principal, NEW expires \in Expiry,
              RequestRecoveryTicket(a, o, expires)
       PROVE  Goal
  BY <1>19, <1>20 DEF RequestRecoveryTicket, history
<1>21. ASSUME NEW a \in Account, NEW e \in Executor, NEW expires \in Expiry,
              RequestActionSession(a, e, expires)
       PROVE  Goal
  BY <1>19, <1>21 DEF RequestActionSession, history
<1>22. ASSUME NEW id \in RequestId, OracleReturns(id) PROVE Goal
  BY <1>19, <1>22 DEF OracleReturns, history
<1>23. ASSUME NEW a \in Account, NEW amount,
              OnNEP17Payment(a, amount) \/ DepositOracleCredits(a, amount)
       PROVE  Goal
  BY <1>19, <1>23 DEF OnNEP17Payment, DepositOracleCredits, history
<1>24. ASSUME NEW a \in Account, NEW o \in Principal, CoreChangesOwner(a, o) PROVE Goal
  BY <1>19, <1>24 DEF CoreChangesOwner, history
<1>25. CASE Tick
  BY <1>0, <1>25, AttemptsUntouched DEF Tick, history
<1>26. CASE UNCHANGED vars
  BY <1>19, <1>26 DEF vars, history
<1> QED
  BY <1>1, <1>2, <1>3, <1>4, <1>5, <1>6, <1>7, <1>8, <1>9, <1>11, <1>12, <1>14, <1>15, <1>17,
     <1>18, <1>20, <1>21, <1>22, <1>23, <1>24, <1>25, <1>26
  DEF Next, Owned, Recovery, Sessions, Oracles

(* At every moment the open attempt of an account counts the factors whose  *)
(* tickets were accepted in it, all for one successor, and its timelock     *)
(* starts with the one that completes the threshold                         *)
(* (SubmitRecoveryTicketInternal, FinalizeRecovery, CancelRecovery).        *)
THEOREM AttemptsCorrect == Spec => []AttemptsInv
<1>1. Init => AttemptsInv
  <2> SUFFICES ASSUME Init PROVE AttemptsInv
    OBVIOUS
  <2>1. BooksInv
    BY InitBooks
  <2>2. ASSUME NEW a \in Account PROVE AttemptInv(a)
    <3>1. \A e \in Executor, t \in Expiry, n \in Nullifier : Session(e, t, n) \in SessionRecord
      BY DEF Session, SessionRecord
    <3>2. held[a].pending = None /\ held[a].approvals = {}
      BY <3>1, UpgradedType DEF Init, OrNone, NotSetUp
    <3>3. support[a] = {}
      BY DEF Init
    <3> QED BY <3>2, <3>3 DEF AttemptInv, Approving, HasApprovedFactor
  <2> QED BY <2>1, <2>2 DEF AttemptsInv
<1> QED BY <1>1, AttemptsStep, PTL DEF Spec

-----------------------------------------------------------------------------
(* Succession *)

(* Nobody but who finishes an attempt replaces an owner. *)
LEMMA OwnerStep ==
  ASSUME BooksInv, [Next]_vars, NEW a \in Account
  PROVE  \/ held[a].owner = None \/ held'[a].owner \in {None, held[a].owner}
         \/ FinalizeRecovery(a)
<1>0. TypeInv
  BY DEF BooksInv
<1> DEFINE Goal == \/ held[a].owner = None \/ held'[a].owner \in {None, held[a].owner}
                   \/ FinalizeRecovery(a)
<1>1. ASSUME NEW b \in Account, NEW q \in Entry, Put(b, q),
             held[b].owner = None \/ q.owner \in {None, held[b].owner}
      PROVE  Goal
  BY <1>0, <1>1, PutEntry
<1>2. ASSUME held' = held PROVE Goal
  BY <1>2
<1>3. ASSUME NEW b \in Account, NEW c \in Config, SetupRecovery(b, c) PROVE Goal
  BY <1>0, <1>1, <1>3, SetupShape DEF SetupRecovery, IsOwned
<1>4. ASSUME NEW b \in Account, NEW c \in Config, UpdateRecoveryConfig(b, c) PROVE Goal
  BY <1>0, <1>1, <1>4, UpdateShape
<1>5. ASSUME NEW b \in Account, NEW i \in Identity, NEW enabled, SetActionIdentity(b, i, enabled)
      PROVE  Goal
  BY <1>0, <1>1, <1>5, IdentityShape DEF SameAttempt
<1>6. ASSUME NEW b \in Account, RevokeAllActionIdentities(b) \/ RevokeActionSession(b) PROVE Goal
  BY <1>0, <1>1, <1>6, RevokeAllShape, RevokeShape DEF SameAttempt
<1>7. ASSUME NEW b \in Account, NEW o \in Principal, NEW nonce, NEW f \in Factor,
             NEW n \in Nullifier, AcceptRecoveryTicket(b, o, nonce, f, n)
      PROVE  Goal
  BY <1>0, <1>1, <1>7, AcceptShape, ZenonT(90) DEF BooksInv
<1>8. ASSUME NEW oracle, NEW id \in RequestId, NEW f \in Factor, NEW n \in Nullifier,
             OnOracleRecovery(oracle, id, f, n)
      PROVE  Goal
  <2>1. recoveryRequest[id] \in RecoveryRequest
    BY <1>0, <1>8 DEF OnOracleRecovery, TypeInv, OrNone
  <2> QED BY <1>7, <1>8, <2>1 DEF OnOracleRecovery, RecoveryRequest
<1>9. ASSUME NEW b \in Account, FinalizeRecovery(b) PROVE Goal
  <2>1. CASE b = a
    BY <1>9, <2>1
  <2>2. CASE b # a
    <3>1. PICK q \in Entry : Put(b, q)
      BY <1>0, <1>9, FinalizeShape
    <3> QED BY <1>0, <2>2, <3>1, PutEntry
  <2> QED BY <2>1, <2>2
<1>10. ASSUME NEW b \in Account, CancelRecovery(b) PROVE Goal
  BY <1>0, <1>1, <1>10, CancelShape
<1>11. ASSUME NEW b \in Account, NEW e \in Executor, NEW expires \in Expiry, NEW nonce,
              NEW i \in Identity, NEW epoch, NEW n \in Nullifier, NEW terms,
              ActivateEnrolled(b, e, expires, nonce, i, epoch, n, terms)
       PROVE  Goal
  BY <1>0, <1>1, <1>11, EnrolledShape DEF SameAttempt
<1>12. ASSUME NEW oracle, NEW id \in RequestId, NEW i \in Identity, NEW n \in Nullifier,
              OnOracleAction(oracle, id, i, n)
       PROVE  Goal
  <2>1. actionRequest[id] \in ActionRequest
    BY <1>0, <1>12 DEF OnOracleAction, TypeInv, OrNone
  <2> QED BY <1>11, <1>12, <2>1 DEF OnOracleAction, ActionRequest
<1>13. ASSUME NEW b \in Account, NEW e \in Executor, NEW expires \in Expiry, NEW i \in Identity,
              NEW n \in Nullifier, SubmitActionTicketV4(b, e, expires, i, n)
       PROVE  Goal
  BY <1>11, <1>13 DEF SubmitActionTicketV4
<1>14. ASSUME NEW b \in Account, OwnerGrants(b) PROVE Goal
  BY <1>0, <1>1, <1>14 DEF OwnerGrants, SameAttempt
<1>15. ASSUME NEW b \in Account, NEW e \in Executor, NEW expires \in Expiry, NEW n \in Nullifier,
              SubmitActionTicket(b, e, expires, n)
       PROVE  Goal
  BY <1>0, <1>14, <1>15, OwnerTicketShape
<1>16. ASSUME NEW b \in Account, NEW seen, ReauthorizeActiveActionSession(b, seen) PROVE Goal
  BY <1>0, <1>14, <1>16, ReauthorizeShape
<1>17. ASSUME NEW b \in Account, ClearAccount(b) PROVE Goal
  <2>1. PICK q \in Entry : Put(b, q) /\ (q.owner = None \/ SameAttempt(held[b], q))
    BY <1>0, <1>17, ClearShape
  <2> QED BY <1>1, <2>1 DEF SameAttempt
<1>18. CASE RefundReturns
  <2>1. PICK b \in Account, q \in Entry : Put(b, q) /\ q.owner = None
    BY <1>0, <1>18, RefundShape
  <2> QED BY <1>1, <2>1
<1>19. ASSUME NEW b \in Account, NEW o \in Principal, NEW expires \in Expiry,
              RequestRecoveryTicket(b, o, expires)
       PROVE  Goal
  BY <1>2, <1>19 DEF RequestRecoveryTicket
<1>20. ASSUME NEW b \in Account, NEW e \in Executor, NEW expires \in Expiry,
              RequestActionSession(b, e, expires)
       PROVE  Goal
  BY <1>2, <1>20 DEF RequestActionSession
<1>21. ASSUME NEW b \in Account, NEW amount,
              OnNEP17Payment(b, amount) \/ DepositOracleCredits(b, amount)
       PROVE  Goal
  BY <1>2, <1>21 DEF OnNEP17Payment, DepositOracleCredits
<1>22. ASSUME NEW b \in Account, NEW o \in Principal, CoreChangesOwner(b, o) PROVE Goal
  BY <1>2, <1>22 DEF CoreChangesOwner
<1>23. ASSUME NEW id \in RequestId, OracleReturns(id) PROVE Goal
  BY <1>2, <1>23 DEF OracleReturns
<1>24. CASE Tick \/ UNCHANGED vars
  BY <1>2, <1>24 DEF Tick, vars
<1> QED
  BY <1>3, <1>4, <1>5, <1>6, <1>7, <1>8, <1>9, <1>10, <1>12, <1>13, <1>15, <1>16, <1>17,
     <1>18, <1>19, <1>20, <1>21, <1>22, <1>23, <1>24
  DEF Next, Owned, Recovery, Sessions, Oracles, SubmitRecoveryTicket

(* What a ready attempt has behind it once its timelock is over. *)
LEMMA ReadyAttempt ==
  ASSUME AttemptsInv, NEW a \in Account, held[a].owner # None, FinalizeRecovery(a)
  PROVE  LET r == held[a]
             behind == {s.factor : s \in {t \in support[a] :
                          t.newOwner = r.pending.newOwner /\ t.at + r.config.timelock <= now}}
         IN Cardinality(behind \cap r.config.factors) >= r.config.threshold
<1> DEFINE r == held[a]
           on == {t \in support[a] :
                    t.newOwner = r.pending.newOwner /\ t.at + r.config.timelock <= now}
<1>1. r \in Entry /\ r.pending \in Attempt /\ now \in Nat /\ support[a] \subseteq Support
  BY EntryOf, FinalizeShape DEF AttemptsInv, BooksInv, TypeInv
<1>2. r.config \in Config
  BY <1>1 DEF AttemptsInv, BooksInv, BookInv, Entry, OrNone
<1>3. OpenAttemptInv(a)
  BY <1>1, NoneAssumption DEF AttemptsInv, AttemptInv
<1>4. r.pending.executable > 0 /\ now >= r.pending.executable /\ r.pending.executable \in Nat
  BY <1>1 DEF FinalizeRecovery, Attempt
<1>5. r.config.timelock \in Nat
  BY <1>2, ConfigAssumption
<1>6. \A s \in support[a] : s.newOwner = r.pending.newOwner /\ s.at + r.config.timelock <= now
  <2> SUFFICES ASSUME NEW s \in support[a]
               PROVE  s.newOwner = r.pending.newOwner /\ s.at + r.config.timelock <= now
    OBVIOUS
  <2>1. s.at \in Nat
    BY <1>1 DEF Support
  <2>2. s.newOwner = r.pending.newOwner /\ s.at + r.config.timelock <= r.pending.executable
    BY <1>3, <1>4 DEF OpenAttemptInv
  <2> QED BY <1>1, <1>4, <1>5, <2>1, <2>2
<1>7. on = support[a]
  BY <1>6
<1>8. {s.factor : s \in on} = Approving(a)
  BY <1>3, <1>7 DEF OpenAttemptInv, Backing
<1>9. Approving(a) \cap r.config.factors = Approving(a)
  BY <1>3 DEF OpenAttemptInv
<1>10. Cardinality(Approving(a)) >= r.config.threshold
  BY <1>3, <1>4 DEF OpenAttemptInv
<1> QED BY <1>8, <1>9, <1>10

(* For every configuration: an owner is replaced only by the successor that *)
(* a threshold of the trusted factors supports in one attempt, each of them *)
(* at least a timelock ago (FinalizeRecovery).                              *)
THEOREM SuccessionHeld == Spec => SuccessionByThreshold
<1>1. AttemptsInv /\ [Next]_vars =>
        [\A a \in Account :
           LET r == held[a]
               o == held'[a].owner
               behind == {s.factor : s \in {t \in support[a] :
                            t.newOwner = o /\ t.at + r.config.timelock <= now}}
           IN r.owner # None /\ o \notin {None, r.owner} =>
                Cardinality(behind \cap r.config.factors) >= r.config.threshold]_vars
  <2> SUFFICES ASSUME AttemptsInv, [Next]_vars, NEW a \in Account,
                      held[a].owner # None, held'[a].owner \notin {None, held[a].owner}
               PROVE  LET r == held[a]
                          o == held'[a].owner
                          behind == {s.factor : s \in {t \in support[a] :
                                       t.newOwner = o /\ t.at + r.config.timelock <= now}}
                      IN Cardinality(behind \cap r.config.factors) >= r.config.threshold
    OBVIOUS
  <2>1. FinalizeRecovery(a)
    BY OwnerStep DEF AttemptsInv
  <2>2. held'[a].owner = held[a].pending.newOwner
    BY <2>1, FinalizeShape, PutEntry DEF AttemptsInv, BooksInv
  <2> QED BY <2>1, <2>2, ReadyAttempt
<1> QED BY <1>1, AttemptsCorrect, PTL DEF Spec, SuccessionByThreshold

-----------------------------------------------------------------------------
(* Tickets *)

(* Used tickets stay used, and only unused ones take effect. *)
TicketsInv ==
  \A a \in Account, n \in Nullifier : executed[a][n] = IF n \in used[a] THEN 1 ELSE 0

LEMMA TicketsStep == TypeInv /\ TicketsInv /\ [Next]_vars => TicketsInv'
<1> SUFFICES ASSUME TypeInv, TicketsInv, [Next]_vars PROVE TicketsInv'
  OBVIOUS
<1>1. ASSUME NEW a \in Account, NEW n \in Nullifier, n \notin used[a],
             used' = [used EXCEPT ![a] = @ \cup {n}],
             executed' = [executed EXCEPT ![a][n] = @ + 1]
      PROVE  TicketsInv'
  <2> SUFFICES ASSUME NEW b \in Account, NEW m \in Nullifier
               PROVE  executed'[b][m] = IF m \in used'[b] THEN 1 ELSE 0
    BY DEF TicketsInv
  <2>1. executed[a][n] = 0 /\ executed[b][m] = IF m \in used[b] THEN 1 ELSE 0
    BY <1>1 DEF TicketsInv
  <2>2. CASE b = a /\ m = n
    BY <1>1, <2>1, <2>2 DEF TypeInv
  <2>3. CASE ~(b = a /\ m = n)
    BY <1>1, <2>1, <2>3 DEF TypeInv
  <2> QED BY <2>2, <2>3
<1>2. ASSUME UNCHANGED <<used, executed>> PROVE TicketsInv'
  BY <1>2 DEF TicketsInv
<1>3. ASSUME NEW a \in Account, NEW o, NEW nonce, NEW f, NEW n \in Nullifier,
             AcceptRecoveryTicket(a, o, nonce, f, n)
      PROVE  TicketsInv'
  BY <1>1, <1>3 DEF AcceptRecoveryTicket
<1>4. ASSUME NEW a \in Account, NEW e, NEW expires, NEW nonce, NEW n \in Nullifier, NEW auth,
             NEW r, NEW terms, ActivateActionSession(a, e, expires, nonce, n, auth, r, terms)
      PROVE  TicketsInv'
  BY <1>1, <1>4 DEF ActivateActionSession
<1>5. \A id \in RequestId :
        /\ recoveryRequest[id] # None => recoveryRequest[id].account \in Account
        /\ actionRequest[id] # None => actionRequest[id].account \in Account
  BY DEF TypeInv, OrNone, RecoveryRequest, ActionRequest
<1>6. ASSUME NEW a \in Account, Owned(a) PROVE TicketsInv'
  BY <1>2, <1>6 DEF Owned, SetupRecovery, UpdateRecoveryConfig, SetActionIdentity,
     RevokeAllActionIdentities, CancelRecovery, RevokeActionSession,
     ReauthorizeActiveActionSession, DepositOracleCredits, history
<1>7. ASSUME NEW a \in Account, Recovery(a) PROVE TicketsInv'
  BY <1>2, <1>3, <1>7 DEF Recovery, SubmitRecoveryTicket, RequestRecoveryTicket,
     FinalizeRecovery, history
<1>8. ASSUME NEW a \in Account, Sessions(a) PROVE TicketsInv'
  BY <1>2, <1>4, <1>8 DEF Sessions, SubmitActionTicket, SubmitActionTicketV4,
     ActivateEnrolled, RequestActionSession, history
<1>9. CASE Oracles
  BY <1>2, <1>3, <1>4, <1>5, <1>9, ZenonT(90) DEF Oracles, OracleReturns, OnOracleRecovery,
     OnOracleAction, ActivateEnrolled, history
<1>10. ASSUME NEW a \in Account, NEW x, \/ ClearAccount(a) \/ OnNEP17Payment(a, x)
                                        \/ CoreChangesOwner(a, x)
       PROVE  TicketsInv'
  BY <1>2, <1>10 DEF ClearAccount, OnNEP17Payment, CoreChangesOwner, history
<1>11. CASE RefundReturns \/ Tick \/ UNCHANGED vars
  BY <1>2, <1>11 DEF RefundReturns, Tick, vars, history
<1> QED BY <1>6, <1>7, <1>8, <1>9, <1>10, <1>11 DEF Next

(* A factor counts once in the attempt its ticket was for, and no ticket    *)
(* takes effect twice, whatever becomes of the account in between           *)
(* (MarkActionUsed, approvals by nonce).                                    *)
THEOREM TicketsCount == Spec => []TicketsCountOnce
<1>1. Init => TicketsInv
  BY DEF Init, TicketsInv
<1>2. AttemptsInv => TypeInv
  BY DEF AttemptsInv, BooksInv
<1>3. AttemptsInv /\ TicketsInv => TicketsCountOnce
  <2> SUFFICES ASSUME AttemptsInv, TicketsInv, NEW a \in Account
               PROVE  ApprovalsOfOneAttempt(a) /\ \A n \in Nullifier : executed[a][n] <= 1
    BY DEF TicketsCountOnce
  <2>1. \A n \in Nullifier : executed[a][n] <= 1
    BY DEF TicketsInv
  <2>2. ApprovalsOfOneAttempt(a)
    BY DEF AttemptsInv, AttemptInv, OpenAttemptInv, ApprovalsOfOneAttempt
  <2> QED BY <2>1, <2>2
<1> QED BY <1>1, <1>2, <1>3, AttemptsCorrect, TicketsStep, PTL DEF Spec

-----------------------------------------------------------------------------
(* Sessions *)

(* Requests that are out of date, or were made under the present terms. *)
Current ==
  {q \in ActionRequest :
     LET r == held[q.account] IN
     /\ q.epoch <= r.epoch
     /\ r.owner # None /\ q.epoch = r.epoch => q.terms = Terms(r)}

GrantInv(a) ==
  held[a].owner # None /\ held[a].authorization # None => grant[a] = Terms(held[a])

TermsInv ==
  /\ \A a \in Account : GrantInv(a)
  /\ actionRequest \in [RequestId -> OrNone(Current)]
  /\ \A i \in DOMAIN calls : calls[i].kind = "action" => calls[i].saves \in Current

(* New terms, new epoch: but for who leaves, and can only come back to a    *)
(* further one.                                                             *)
Moves(r, q) ==
  \/ q.epoch > r.epoch
  \/ q.epoch = r.epoch /\ (q.owner = None \/ Terms(q) = Terms(r))

LEMMA CurrentKept ==
  ASSUME TypeInv, NEW a \in Account, NEW q \in Entry, Put(a, q), Moves(held[a], q)
  PROVE  Current \subseteq Current'
<1> SUFFICES ASSUME NEW s \in Current PROVE s \in Current'
  OBVIOUS
<1>1. s \in ActionRequest /\ s.account \in Account /\ s.epoch \in Nat
  BY DEF Current, ActionRequest
<1>2. held[a] \in Entry /\ held[a].epoch \in Nat /\ q.epoch \in Nat
  BY EntryOf DEF Entry
<1>3. CASE s.account = a
  <2>1. held'[s.account] = q
    BY <1>3, PutEntry
  <2>2. /\ s.epoch <= held[a].epoch
        /\ held[a].owner # None /\ s.epoch = held[a].epoch => s.terms = Terms(held[a])
    BY <1>3 DEF Current
  <2>3. /\ s.epoch <= q.epoch
        /\ q.owner # None /\ s.epoch = q.epoch => s.terms = Terms(q)
    BY <1>1, <1>2, <2>2 DEF Moves, Terms
  <2> QED BY <1>1, <2>1, <2>3 DEF Current
<1>4. CASE s.account # a
  <2>1. held'[s.account] = held[s.account]
    BY <1>1, <1>4, PutEntry
  <2> QED BY <1>1, <2>1 DEF Current
<1> QED BY <1>3, <1>4

LEMMA GrantStep ==
  ASSUME TypeInv, TermsInv, NEW a \in Account, NEW q \in Entry, Put(a, q),
         \A b \in Account : b # a => grant'[b] = grant[b],
         q.owner # None /\ q.authorization # None => grant'[a] = Terms(q)
  PROVE  \A b \in Account : GrantInv(b)'
<1> SUFFICES ASSUME NEW b \in Account PROVE GrantInv(b)'
  OBVIOUS
<1>1. CASE b = a
  BY <1>1, PutEntry DEF GrantInv
<1>2. CASE b # a
  BY <1>2, PutEntry DEF GrantInv, TermsInv
<1> QED BY <1>1, <1>2

(* An operation that grants nothing and leaves the requests alone. *)
LEMMA TermsStep ==
  ASSUME TypeInv, TermsInv, NEW a \in Account, NEW q \in Entry, Put(a, q), Moves(held[a], q),
         grant' = grant, UNCHANGED <<actionRequest, calls>>,
         q.owner # None /\ q.authorization # None =>
           /\ held[a].owner # None /\ held[a].authorization # None
           /\ Terms(q) = Terms(held[a])
  PROVE  TermsInv'
<1>1. Current \subseteq Current'
  BY CurrentKept
<1>2. \A b \in Account : GrantInv(b)'
  BY GrantStep DEF GrantInv, TermsInv
<1> QED BY <1>1, <1>2 DEF TermsInv, OrNone

(* Everything sessions were allowed under is withdrawn. *)
LEMMA WithdrawnMoves ==
  ASSUME TypeInv, NEW a \in Account, NEW q \in Entry, Withdrawn(held[a], q)
  PROVE  Moves(held[a], q)
<1>1. held[a].epoch \in Nat
  BY EntryOf DEF Entry
<1> QED BY <1>1 DEF Withdrawn, Moves

LEMMA TermsWithdrawn ==
  ASSUME TypeInv, TermsInv, NEW a \in Account, NEW q \in Entry, Put(a, q),
         Withdrawn(held[a], q), grant' = grant, UNCHANGED <<actionRequest, calls>>
  PROVE  TermsInv'
<1>1. Moves(held[a], q)
  BY WithdrawnMoves
<1> QED BY <1>1, TermsStep DEF Withdrawn

(* Calls that start and end keep what they save in the set it is in.        *)
LEMMA SavedCalls ==
  ASSUME TypeInv, NEW S, \A i \in DOMAIN calls : calls[i].kind = "action" => calls[i].saves \in S
  PROVE  /\ \A frame \in Frame : (frame.kind = "action" => frame.saves \in S) =>
              \A i \in DOMAIN Append(calls, frame) :
                Append(calls, frame)[i].kind = "action" => Append(calls, frame)[i].saves \in S
         /\ calls # <<>> =>
              \A i \in DOMAIN SubSeq(calls, 1, Len(calls) - 1) :
                SubSeq(calls, 1, Len(calls) - 1)[i].kind = "action" =>
                  SubSeq(calls, 1, Len(calls) - 1)[i].saves \in S
<1>1. calls \in Seq(Frame)
  BY DEF TypeInv
<1>2. ASSUME NEW frame \in Frame, frame.kind = "action" => frame.saves \in S,
             NEW i \in DOMAIN Append(calls, frame), Append(calls, frame)[i].kind = "action"
      PROVE  Append(calls, frame)[i].saves \in S
  <2>1. CASE i \in DOMAIN calls
    BY <1>1, <1>2, <2>1
  <2>2. CASE i = Len(calls) + 1
    BY <1>1, <1>2, <2>2
  <2> QED BY <1>1, <1>2, <2>1, <2>2
<1>3. ASSUME calls # <<>>, NEW i \in DOMAIN SubSeq(calls, 1, Len(calls) - 1)
      PROVE  i \in DOMAIN calls /\ SubSeq(calls, 1, Len(calls) - 1)[i] = calls[i]
  BY <1>1, <1>3
<1> QED BY <1>2, <1>3

(* The account's session is allowed under the terms of this moment.         *)
LEMMA TermsGranted ==
  ASSUME TypeInv, TermsInv, NEW a \in Account, NEW q \in Entry, Put(a, q), Moves(held[a], q),
         grant' = [grant EXCEPT ![a] = Terms(q)], calls' = calls,
         actionRequest' \in [RequestId -> OrNone(Current)]
  PROVE  TermsInv'
<1>1. Current \subseteq Current'
  BY CurrentKept
<1>2. \A b \in Account : GrantInv(b)'
  BY GrantStep DEF TypeInv
<1> QED BY <1>1, <1>2 DEF TermsInv, OrNone

LEMMA SessionsStep == BooksInv /\ TermsInv /\ [Next]_vars => TermsInv'
<1> SUFFICES ASSUME BooksInv, TermsInv, [Next]_vars PROVE TermsInv'
  OBVIOUS
<1>0. TypeInv
  BY DEF BooksInv
<1>1. ASSUME NEW a \in Account, NEW q \in Entry, Put(a, q), Withdrawn(held[a], q),
             UNCHANGED <<rest, requests, grant>>
      PROVE  TermsInv'
  BY <1>0, <1>1, TermsWithdrawn DEF rest, requests
<1>2. ASSUME NEW a \in Account, NEW c \in Config, SetupRecovery(a, c) PROVE TermsInv'
  <2>1. PICK q \in Entry : Put(a, q) /\ Withdrawn(held[a], q)
    BY <1>0, <1>2, SetupShape
  <2> QED BY <1>1, <1>2, <2>1 DEF SetupRecovery, history
<1>3. ASSUME NEW a \in Account, NEW c \in Config, UpdateRecoveryConfig(a, c) PROVE TermsInv'
  <2>1. PICK q \in Entry : Put(a, q) /\ Withdrawn(held[a], q)
    BY <1>0, <1>3, UpdateShape
  <2> QED BY <1>1, <1>3, <2>1 DEF UpdateRecoveryConfig, history
<1>4. ASSUME NEW a \in Account, NEW i \in Identity, NEW enabled, SetActionIdentity(a, i, enabled)
      PROVE  TermsInv'
  <2>1. PICK q \in Entry : Put(a, q) /\ Withdrawn(held[a], q)
    BY <1>0, <1>4, IdentityShape
  <2> QED BY <1>1, <1>4, <2>1 DEF SetActionIdentity, history
<1>5. ASSUME NEW a \in Account, RevokeAllActionIdentities(a) PROVE TermsInv'
  <2>1. PICK q \in Entry : Put(a, q) /\ Withdrawn(held[a], q)
    BY <1>0, <1>5, RevokeAllShape
  <2> QED BY <1>1, <1>5, <2>1 DEF RevokeAllActionIdentities, history
<1>6. ASSUME NEW a \in Account, RevokeActionSession(a) PROVE TermsInv'
  <2>1. PICK q \in Entry : Put(a, q) /\ Withdrawn(held[a], q)
    BY <1>0, <1>6, RevokeShape
  <2> QED BY <1>1, <1>6, <2>1 DEF RevokeActionSession, history
<1>7. ASSUME NEW a \in Account, FinalizeRecovery(a) PROVE TermsInv'
  <2>1. PICK q \in Entry : Put(a, q) /\ Withdrawn(held[a], q)
    BY <1>0, <1>7, FinalizeShape
  <2> QED BY <1>1, <1>7, <2>1 DEF FinalizeRecovery
<1>8. ASSUME NEW a \in Account, NEW q \in Entry, Put(a, q), SameTerms(held[a], q),
             q.owner = held[a].owner, q.authorization = held[a].authorization,
             UNCHANGED <<calls, actionRequest, grant>>
      PROVE  TermsInv'
  <2>1. Moves(held[a], q)
    BY <1>8 DEF SameTerms, Moves
  <2> QED BY <1>0, <1>8, <2>1, TermsStep DEF SameTerms
<1>9. ASSUME NEW a \in Account, CancelRecovery(a) PROVE TermsInv'
  <2>1. PICK q \in Entry : /\ Put(a, q) /\ SameTerms(held[a], q) /\ q.owner = held[a].owner
                           /\ q.authorization = held[a].authorization
    BY <1>0, <1>9, CancelShape
  <2> QED BY <1>8, <1>9, <2>1 DEF CancelRecovery, rest, requests
<1>10. ASSUME NEW a \in Account, NEW o \in Principal, NEW nonce, NEW f \in Factor,
              NEW n \in Nullifier, AcceptRecoveryTicket(a, o, nonce, f, n),
              UNCHANGED actionRequest
       PROVE  TermsInv'
  <2> DEFINE r == held[a]
  <2>1. BookInv(a)
    BY DEF BooksInv
  <2>2. PICK q \in Entry, p \in Attempt :
          /\ Put(a, q) /\ SameTerms(r, q)
          /\ q.authorization = r.authorization
          /\ q.pending = p /\ q.approvals = r.approvals \cup {<<r.nonce, f>>}
          /\ p.newOwner = o /\ p.nonce = r.nonce
          /\ p.approved = 1 + (IF r.pending = None THEN 0 ELSE r.pending.approved)
          /\ p.executable = IF p.approved >= r.config.threshold
                            THEN now + r.config.timelock ELSE 0
          /\ r.pending # None => r.pending.newOwner = o
          /\ r.owner # None /\ f \in r.config.factors /\ n \notin used[a]
          /\ <<r.nonce, f>> \notin r.approvals
    BY <1>0, <1>10, <2>1, AcceptShape
  <2>3. q.owner = r.owner
    BY <2>2 DEF SameTerms, Terms
  <2> QED BY <1>8, <1>10, <2>2, <2>3 DEF AcceptRecoveryTicket, rest
<1>11. ASSUME NEW a \in Account, NEW o \in Principal, NEW f \in Factor, NEW n \in Nullifier,
              SubmitRecoveryTicket(a, o, f, n)
       PROVE  TermsInv'
  BY <1>10, <1>11 DEF SubmitRecoveryTicket, requests
<1>12. ASSUME NEW oracle, NEW id \in RequestId, NEW f \in Factor, NEW n \in Nullifier,
              OnOracleRecovery(oracle, id, f, n)
       PROVE  TermsInv'
  <2>1. recoveryRequest[id] \in RecoveryRequest
    BY <1>0, <1>12 DEF OnOracleRecovery, TypeInv, OrNone
  <2> QED BY <1>10, <1>12, <2>1 DEF OnOracleRecovery, RecoveryRequest
<1>13. ASSUME NEW a \in Account, NEW e \in Executor, NEW expires \in Expiry, NEW nonce,
              NEW i \in Identity, NEW epoch, NEW n \in Nullifier,
              ActivateEnrolled(a, e, expires, nonce, i, epoch, n, Terms(held[a])),
              actionRequest' \in [RequestId -> OrNone(Current)]
       PROVE  TermsInv'
  <2>1. PICK q \in Entry : Put(a, q) /\ SameTerms(held[a], q)
    BY <1>0, <1>13, EnrolledShape
  <2>2. Moves(held[a], q) /\ Terms(q) = Terms(held[a])
    BY <2>1 DEF Moves, SameTerms
  <2>3. grant' = [grant EXCEPT ![a] = Terms(q)] /\ calls' = calls
    BY <1>13, <2>2 DEF ActivateEnrolled, ActivateActionSession, rest
  <2> QED BY <1>0, <1>13, <2>1, <2>2, <2>3, TermsGranted
<1>14. ASSUME NEW a \in Account, NEW e \in Executor, NEW expires \in Expiry, NEW i \in Identity,
              NEW n \in Nullifier, SubmitActionTicketV4(a, e, expires, i, n)
       PROVE  TermsInv'
  BY <1>13, <1>14 DEF SubmitActionTicketV4, requests, TermsInv
<1>15. ASSUME NEW oracle, NEW id \in RequestId, NEW i \in Identity, NEW n \in Nullifier,
              OnOracleAction(oracle, id, i, n)
       PROVE  TermsInv'
  <2> DEFINE s == actionRequest[id]
  <2>1. s \in Current
    BY <1>15 DEF OnOracleAction, TermsInv, OrNone
  <2>2. /\ s.account \in Account /\ s.executor \in Executor /\ s.expires \in Expiry
        /\ ActivateEnrolled(s.account, s.executor, s.expires, s.sessionNonce, i, s.epoch, n, s.terms)
    BY <1>15, <2>1 DEF OnOracleAction, Current, ActionRequest
  <2>3. actionRequest' \in [RequestId -> OrNone(Current)]
    BY <1>15 DEF OnOracleAction, TermsInv, OrNone
  <2> HIDE DEF s
  <2>4. s.epoch = held[s.account].epoch /\ held[s.account].owner # None
    BY <2>2 DEF ActivateEnrolled, IsPresentEpoch, IsOwned
  <2>5. s.terms = Terms(held[s.account])
    BY <2>1, <2>4 DEF Current
  <2> QED BY <1>13, <2>2, <2>3, <2>5
<1>16. ASSUME NEW a \in Account, OwnerGrants(a), UNCHANGED <<calls, actionRequest>> PROVE TermsInv'
  <2>1. PICK q \in Entry :
          /\ Put(a, q) /\ Terms(q) = Terms(held[a]) /\ grant' = [grant EXCEPT ![a] = Terms(q)]
          /\ q.epoch = held[a].epoch \/ q.epoch = held[a].epoch + 1
    BY <1>16 DEF OwnerGrants
  <2>2. Moves(held[a], q)
    <3>1. held[a].epoch \in Nat
      BY <1>0, EntryOf DEF Entry
    <3> QED BY <2>1, <3>1 DEF Moves
  <2>3. actionRequest' \in [RequestId -> OrNone(Current)] /\ calls' = calls
    BY <1>16 DEF TermsInv
  <2> QED BY <1>0, <2>1, <2>2, <2>3, TermsGranted
<1>17. ASSUME NEW a \in Account, NEW e \in Executor, NEW expires \in Expiry, NEW n \in Nullifier,
              SubmitActionTicket(a, e, expires, n)
       PROVE  TermsInv'
  BY <1>0, <1>16, <1>17, OwnerTicketShape
  DEF SubmitActionTicket, ActivateActionSession, rest, requests
<1>18. ASSUME NEW a \in Account, NEW seen, ReauthorizeActiveActionSession(a, seen) PROVE TermsInv'
  BY <1>0, <1>16, <1>18, ReauthorizeShape DEF ReauthorizeActiveActionSession, rest, requests
<1>19. ASSUME NEW a \in Account, NEW q \in Entry, Put(a, q), Moves(held[a], q),
              q.owner = None \/ q.authorization = None, grant' = grant,
              actionRequest' = actionRequest,
              \A i \in DOMAIN calls' : calls'[i].kind = "action" => calls'[i].saves \in Current
       PROVE  TermsInv'
  <2>1. Current \subseteq Current'
    BY <1>0, <1>19, CurrentKept
  <2>2. \A b \in Account : GrantInv(b)'
    BY <1>0, <1>19, GrantStep
  <2> QED BY <1>19, <2>1, <2>2 DEF TermsInv, OrNone
<1>20. ASSUME NEW a \in Account, ClearAccount(a) PROVE TermsInv'
  <2>1. PICK q \in Entry : /\ Put(a, q) /\ Withdrawn(held[a], q)
                           /\ \/ calls' = calls
                              \/ calls' = Append(calls, [kind |-> "clear", account |-> a])
    BY <1>0, <1>20, ClearShape
  <2>2. Moves(held[a], q) /\ q.authorization = None
    BY <1>0, <2>1, WithdrawnMoves DEF Withdrawn
  <2>3. [kind |-> "clear", account |-> a] \in Frame
    BY DEF Frame
  <2>4. \A i \in DOMAIN calls' : calls'[i].kind = "action" => calls'[i].saves \in Current
    BY <1>0, <2>1, <2>3, SavedCalls DEF TermsInv
  <2> QED BY <1>19, <1>20, <2>1, <2>2, <2>4 DEF ClearAccount, requests
<1>21. CASE RefundReturns
  <2>1. PICK a \in Account, q \in Entry : Put(a, q) /\ q.owner = None /\ q.epoch = held[a].epoch
    BY <1>0, <1>21, RefundShape
  <2>2. Moves(held[a], q)
    BY <2>1 DEF Moves
  <2>3. \A i \in DOMAIN calls' : calls'[i].kind = "action" => calls'[i].saves \in Current
    BY <1>0, <1>21, SavedCalls DEF RefundReturns, InCall, Pop, TermsInv
  <2> QED BY <1>19, <1>21, <2>1, <2>2, <2>3 DEF RefundReturns, requests
<1>22. ASSUME held' = held, grant' = grant, actionRequest' \in [RequestId -> OrNone(Current)],
              \A i \in DOMAIN calls' : calls'[i].kind = "action" => calls'[i].saves \in Current
       PROVE  TermsInv'
  <2>1. Current' = Current /\ \A b \in Account : GrantInv(b)' = GrantInv(b)
    BY <1>22 DEF Current, GrantInv
  <2> QED BY <1>22, <2>1 DEF TermsInv
<1>23. ASSUME UNCHANGED <<held, grant, actionRequest, calls>> PROVE TermsInv'
  BY <1>22, <1>23 DEF TermsInv
<1>24. ASSUME NEW a \in Account, NEW o \in Principal, NEW expires \in Expiry,
              RequestRecoveryTicket(a, o, expires)
       PROVE  TermsInv'
  <2> DEFINE s == [account |-> a, newOwner |-> o, nonce |-> held[a].nonce, expires |-> expires]
             frame == [kind |-> "recovery", saves |-> s]
  <2>1. frame \in Frame /\ frame.kind # "action"
    BY <1>0, EntryOf DEF RecoveryRequest, Entry, Frame, RequestCall
  <2>2. calls' = Append(calls, frame)
    BY <1>24 DEF RequestRecoveryTicket, Push
  <2> HIDE DEF frame
  <2>3. \A i \in DOMAIN calls' : calls'[i].kind = "action" => calls'[i].saves \in Current
    BY <1>0, <2>1, <2>2, SavedCalls DEF TermsInv
  <2> QED BY <1>22, <1>24, <2>3 DEF RequestRecoveryTicket, requests, history, TermsInv
<1>25. ASSUME NEW a \in Account, NEW e \in Executor, NEW expires \in Expiry,
              RequestActionSession(a, e, expires)
       PROVE  TermsInv'
  <2> DEFINE s == [account |-> a, executor |-> e, expires |-> expires,
                   sessionNonce |-> held[a].sessionNonce, epoch |-> held[a].epoch,
                   terms |-> Terms(held[a])]
             frame == [kind |-> "action", saves |-> s]
  <2>1. s \in Current
    <3>1. s \in ActionRequest /\ held[a].epoch \in Nat
      BY <1>0, EntryOf DEF ActionRequest, Entry, Terms, TermsRecord
    <3>2. s.account = a /\ s.epoch = held[a].epoch /\ s.terms = Terms(held[a])
      OBVIOUS
    <3> HIDE DEF s
    <3> QED BY <3>1, <3>2 DEF Current
  <2>2. calls' = Append(calls, frame)
    BY <1>25 DEF RequestActionSession, Push
  <2> HIDE DEF s
  <2>3. frame \in Frame /\ frame.saves \in Current
    BY <2>1 DEF Current, Frame, RequestCall
  <2> HIDE DEF frame
  <2>4. \A i \in DOMAIN calls' : calls'[i].kind = "action" => calls'[i].saves \in Current
    BY <1>0, <2>2, <2>3, SavedCalls DEF TermsInv
  <2> QED BY <1>22, <1>25, <2>4 DEF RequestActionSession, requests, history, TermsInv
<1>26. ASSUME NEW id \in RequestId, OracleReturns(id) PROVE TermsInv'
  <2>1. \A i \in DOMAIN calls' : calls'[i].kind = "action" => calls'[i].saves \in Current
    BY <1>0, <1>26, SavedCalls DEF OracleReturns, InCall, Pop, TermsInv
  <2>2. Top.kind = "action" /\ calls # <<>> => Top.saves \in Current
    BY <1>0 DEF Top, TermsInv, TypeInv
  <2>3. actionRequest' \in [RequestId -> OrNone(Current)]
    BY <1>26, <2>2 DEF OracleReturns, InCall, TermsInv, OrNone
  <2> QED BY <1>22, <1>26, <2>1, <2>3 DEF OracleReturns, history
<1>27. ASSUME NEW a \in Account, NEW x, \/ OnNEP17Payment(a, x) \/ DepositOracleCredits(a, x)
                                        \/ CoreChangesOwner(a, x)
       PROVE  TermsInv'
  BY <1>23, <1>27 DEF OnNEP17Payment, DepositOracleCredits, CoreChangesOwner, requests, history
<1>28. CASE Tick \/ UNCHANGED vars
  BY <1>23, <1>28 DEF Tick, vars, requests, history
<1> QED
  BY <1>2, <1>3, <1>4, <1>5, <1>6, <1>7, <1>9, <1>11, <1>12, <1>14, <1>15, <1>17, <1>18, <1>20,
     <1>21, <1>24, <1>25, <1>26, <1>27, <1>28
  DEF Next, Owned, Recovery, Sessions, Oracles

(* A session that still opens the account was allowed under exactly the     *)
(* owner, the oracle, the factors and the identities of this moment, also   *)
(* when the oracle answered an old request                                  *)
(* (IsActiveActionSessionAuthorized, OnOracleAction, the epochs).           *)
THEOREM SessionTerms == Spec => []SessionsKeepTheirTerms
<1>1. Init => TermsInv
  <2> SUFFICES ASSUME Init PROVE TermsInv
    OBVIOUS
  <2>1. ASSUME NEW a \in Account PROVE held[a].authorization = None
    <3>1. \A e \in Executor, t \in Expiry, n \in Nullifier : Session(e, t, n) \in SessionRecord
      BY DEF Session, SessionRecord
    <3> QED BY <3>1, UpgradedType DEF Init, OrNone, NotSetUp
  <2> QED BY <2>1 DEF Init, TermsInv, GrantInv, OrNone
<1>2. BooksInv /\ TermsInv => SessionsKeepTheirTerms
  <2> SUFFICES ASSUME BooksInv, TermsInv, NEW a \in Account, IsActionSessionAuthorized(a)
               PROVE  grant[a] = Terms(held[a])
    BY DEF SessionsKeepTheirTerms
  <2>1. held[a].session # None /\ held[a].authorization # None
    BY DEF IsActionSessionAuthorized, IsActiveActionSessionAuthorized
  <2>2. held[a].owner # None
    BY <2>1 DEF BooksInv, BookInv
  <2> QED BY <2>1, <2>2 DEF TermsInv, GrantInv
<1> QED BY <1>1, <1>2, BooksCorrect, SessionsStep, PTL DEF Spec
-----------------------------------------------------------------------------
(* An account that uses any plugin uses the recovery plugin as its module   *)
(* says, if it does at all.                                                 *)
LEMMA RecoveryStep ==
  [PluginNext]_<<plugin, vars, spending, composing>> => [Next]_vars
BY DEF PluginNext, UsesRecovery, UsesSpending, UsesComposite

(* Whichever plugin the account uses: tickets count once, sessions keep to  *)
(* the terms they were allowed under, and an owner is replaced only by a    *)
(* threshold of factors whose timelock has run.                             *)
THEOREM PluginRecovery ==
  PluginSpec => /\ []TicketsCountOnce
                /\ []SessionsKeepTheirTerms
                /\ SuccessionByThreshold
<1>1. PluginInit => Init
  BY DEF PluginInit
<1>2. PluginSpec => Spec
  BY <1>1, RecoveryStep, PTL DEF PluginSpec, Spec
<1> QED
  BY <1>2, TicketsCount, SessionTerms, SuccessionHeld, PTL

-----------------------------------------------------------------------------
(* The composite plugin and its children.  Maintenance begins only when no  *)
(* call is in progress, and beneath one of its frames nothing but a single  *)
(* operation can run, which writes none of the lists.  Of any number of     *)
(* composites, children and calls nothing is assumed but that they differ.  *)
CompositeAssumption ==
  None \notin Composites!Plugin /\ None \notin SUBSET Child /\ Composite \cap Child = {}

(* What the wallet and the plugins store agrees: ListsAgree of a given      *)
(* store, with the types that its steps need.                               *)
Agree(r, rs, ds, cs, st) ==
  /\ rs \in [Composite -> SUBSET Child] /\ cs \subseteq Child
  /\ st = [update |-> st.update, call |-> st.call]
  /\ cs \subseteq {r} \cup (IF r \in Composite THEN rs[r] ELSE {})
  /\ \A c \in Composite \ {r} : rs[c] = {}
  /\ ds # None => r \in Composite /\ ds = rs[r]
  /\ st.update # None => r # None

Agreed == Agree(root, roster, dependencies, configured, staged)

CompositesIdle == Agreed /\ context = None /\ depth = 0 /\ maintaining = FALSE

SavedIdle(s) ==
  /\ Agree(s.root, s.roster, s.dependencies, s.configured, s.staged)
  /\ s.context = None /\ s.depth = 0 /\ s.maintaining = FALSE

IsFrame(m) ==
  m = [what |-> m.what, callee |-> m.callee, children |-> m.children, next |-> m.next,
       dropped |-> m.dropped, running |-> m.running, saved |-> m.saved]

(* The store while a call of the wallet is in progress with nothing above   *)
(* it: by what the call is for, and which children it has left to clean up. *)
Setting(m) ==
  /\ root \in Composite /\ m.callee = root /\ m.children = roster[root]
  /\ roster \in [Composite -> SUBSET Child]
  /\ configured \subseteq Child \cap (roster[root] \cup m.dropped)
  /\ \A c \in Composite \ {root} : roster[c] = {}

Cleaning(m) ==
  /\ root # None /\ m.callee = root
  /\ roster \in [Composite -> SUBSET Child]
  /\ configured \subseteq m.dropped
  /\ \A c \in Composite \ {root} : roster[c] = {}
  /\ dependencies # None => root \in Composite
  /\ m.what = "clear" => m.next = root

Operating(m) ==
  /\ Agreed /\ root \in Composite /\ m.callee = root /\ m.children = roster[root]
  /\ context = None /\ maintaining = FALSE

Configuring == Agreed /\ maintaining = FALSE

Bottom(m, d) ==
  /\ IsFrame(m) /\ SavedIdle(m.saved)
  /\ m.what \in {"set", "replace", "escape", "settle", "clear", "operate", "configure"}
  /\ staged = [update |-> staged.update, call |-> staged.call]
  /\ m.dropped \subseteq Child
  /\ m.callee \in Composite \/ m.dropped = {}
  /\ d = IF m.running \in {None, m.callee} THEN 1 ELSE 2
  /\ m.what \in {"operate", "configure"} => m.running = m.callee /\ m.dropped = {}
  /\ m.what = "set" => Setting(m)
  /\ m.what \in {"replace", "escape", "settle", "clear"} => Cleaning(m)
  /\ m.what = "operate" => Operating(m)
  /\ m.what = "configure" => Configuring

(* An operation above it leaves everything as it is.                        *)
Above(m, o) ==
  /\ IsFrame(o) /\ o.what = "operate" /\ m.what # "operate" /\ m.running # None
  /\ root \in Composite /\ o.callee = root /\ o.children = roster[root]
  /\ o.running = root /\ o.dropped = {}
  /\ o.saved = [root |-> root, roster |-> roster, dependencies |-> dependencies,
                configured |-> configured, staged |-> staged, escrowed |-> escrowed,
                context |-> context, depth |-> depth - 1, maintaining |-> maintaining]

CompositesInv ==
  \/ walletCalls = <<>> /\ CompositesIdle
  \/ \E m : walletCalls = <<m>> /\ Bottom(m, depth)
  \/ \E m, o : /\ walletCalls = <<m, o>> /\ depth \in Nat
               /\ Bottom(m, depth - 1) /\ Above(m, o)

-----------------------------------------------------------------------------
(* No maintenance begins while a call is in progress.                       *)
LEMMA BusyIsNotIdle ==
  ASSUME CompositesInv, walletCalls # <<>>
  PROVE  ~Composites!ConfigurationIdle
<1>1. depth # 0
  BY SMT DEF CompositesInv, Bottom
<1> QED
  BY <1>1 DEF Composites!ConfigurationIdle

LEMMA InitIdle ==
  ASSUME CompositeAssumption, Composites!Init
  PROVE  CompositesInv
<1>1. root \in Composite \cup {None} /\ dependencies = None
  BY DEF Composites!Init
<1>2. PICK children \in SUBSET Child :
        /\ root = None => children = {}
        /\ roster = [r \in Composite |-> IF r = root THEN children ELSE {}]
        /\ configured \in SUBSET children
  BY DEF Composites!Init
<1>3. staged = [update |-> None, call |-> None]
  BY DEF Composites!Init, Composites!NothingStaged
<1>4. Agreed
  BY <1>1, <1>2, <1>3 DEF Agreed, Agree, CompositeAssumption, Composites!Plugin
<1> QED
  BY <1>4 DEF Composites!Init, CompositesInv, CompositesIdle

(* A frame entered on an empty stack is the only one, and remembers an idle *)
(* wallet.                                                                  *)
LEMMA EnterFirst ==
  ASSUME walletCalls = <<>>, CompositesIdle, NEW what, NEW callee, NEW children,
     NEW next, NEW dropped,
         NEW running, Composites!Enter(what, callee, children, next, dropped, running)
  PROVE  \E m : /\ walletCalls' = <<m>> /\ IsFrame(m) /\ SavedIdle(m.saved)
                /\ m.what = what /\ m.callee = callee /\ m.children = children
                /\ m.next = next /\ m.dropped = dropped /\ m.running = running
                /\ depth' = 1
                /\ context' = IF what = "operate" THEN None ELSE callee
<1> DEFINE m == [what |-> what, callee |-> callee, children |-> children, next |-> next,
                 dropped |-> dropped, running |-> running, saved |-> Composites!Snapshot]
<1>1. walletCalls' = Append(<<>>, m)
  BY DEF Composites!Enter
<1>2. walletCalls' = <<m>>
  BY <1>1, Append(<<>>, m) = <<m>>
<1>3. IsFrame(m)
  BY DEF IsFrame
<1>4. SavedIdle(m.saved)
  BY DEF SavedIdle, Composites!Snapshot, CompositesIdle, Agreed
<1>5. depth' = 1 /\ context' = IF what = "operate" THEN None ELSE callee
  BY DEF Composites!Enter, CompositesIdle
<1> QED
  BY <1>2, <1>3, <1>4, <1>5

-----------------------------------------------------------------------------
(* What may happen while no call is in progress *)

(* A cell of what is staged stays a cell.                                   *)
LEMMA StagedKept ==
  ASSUME CompositesIdle
  PROVE  /\ staged = [update |-> staged.update, call |-> staged.call]
         /\ staged.update # None => root # None
         /\ \A v : [staged EXCEPT !.call = v] = [update |-> staged.update, call |-> v]
         /\ \A v : [staged EXCEPT !.update = v] = [update |-> v, call |-> staged.call]
<1>1. /\ staged = [update |-> staged.update, call |-> staged.call]
      /\ staged.update # None => root # None
  BY DEF CompositesIdle, Agreed, Agree
<1> QED
  BY <1>1

LEMMA UpdateRootStep ==
  ASSUME CompositeAssumption, walletCalls = <<>>, CompositesIdle,
     NEW new \in Composites!Plugin \cup {None}, Composites!UpdateRoot(new)
  PROVE  CompositesInv'
<1>1. walletCalls' = <<>> /\ context' = None /\ depth' = 0 /\ maintaining' = FALSE
  BY DEF Composites!UpdateRoot, CompositesIdle
<1>2. CASE root = None
  <2>1. configured = {} /\ (\A c \in Composite : roster[c] = {}) /\ dependencies = None
    BY <1>2, SMT DEF CompositesIdle, Agreed, Agree, CompositeAssumption, Composites!Plugin
  <2>2. root' = new /\ UNCHANGED <<staged, roster, dependencies, configured>>
    BY <1>2 DEF Composites!UpdateRoot
  <2>3. Agreed'
    BY <1>2, <2>1, <2>2, SMT DEF CompositesIdle, Agreed, Agree
  <2> QED
    BY <1>1, <2>3 DEF CompositesInv, CompositesIdle
<1>3. CASE root # None
  <2>1. UNCHANGED <<root, roster, dependencies, configured>>
    BY <1>3 DEF Composites!UpdateRoot
  <2>2. staged' = [staged EXCEPT !.update = [new |-> new, aged |-> FALSE]]
    BY <1>3 DEF Composites!UpdateRoot
  <2>3. staged' = [update |-> [new |-> new, aged |-> FALSE], call |-> staged.call]
    BY <2>2, StagedKept
  <2>4. Agreed'
    BY <1>3, <2>1, <2>3, SMT DEF CompositesIdle, Agreed, Agree
  <2> QED
    BY <1>1, <2>4 DEF CompositesInv, CompositesIdle
<1> QED
  BY <1>2, <1>3

(* The steps that only change what is staged, or whether it is escrowed.    *)
LEMMA StagingStep ==
  ASSUME walletCalls = <<>>, CompositesIdle,
         UNCHANGED <<root, roster, dependencies, configured, context, depth, maintaining,
            walletCalls>>,
         staged' = [update |-> staged'.update, call |-> staged'.call],
         staged'.update # None => root # None
  PROVE  CompositesInv'
<1>1. Agreed'
  BY SMT DEF CompositesIdle, Agreed, Agree
<1> QED
  BY <1>1 DEF CompositesInv, CompositesIdle

LEMMA CleanRootStep ==
  ASSUME CompositeAssumption, walletCalls = <<>>, CompositesIdle, root # None, NEW next,
         NEW what \in {"replace", "escape", "settle", "clear"},
            Composites!CleanRoot(what, next),
         what = "clear" => next = root,
         staged' = [update |-> staged'.update, call |-> staged'.call],
         UNCHANGED <<root, roster, dependencies>>
  PROVE  CompositesInv'
<1>1. CASE root \in Composite
  <2>1. /\ Composites!Enter(what, root, {}, next, Composites!ReadDependencyChildren, None)
        /\ UNCHANGED configured
    BY <1>1 DEF Composites!CleanRoot
  <2>2. PICK m : /\ walletCalls' = <<m>> /\ IsFrame(m) /\ SavedIdle(m.saved)
                 /\ m.what = what /\ m.callee = root /\ m.children = {}
                 /\ m.next = next /\ m.dropped = Composites!ReadDependencyChildren
                 /\ m.running = None
                 /\ depth' = 1
    BY <2>1, EnterFirst
  <2>3. Composites!ReadDependencyChildren = roster[root] /\ roster[root] \subseteq Child
    BY <1>1, SMT DEF Composites!ReadDependencyChildren, CompositesIdle, Agreed, Agree
  <2>4. configured \subseteq roster[root]
    BY <1>1, SMT DEF CompositesIdle, Agreed, Agree, CompositeAssumption
  <2>5. Cleaning(m)'
    BY <1>1, <2>1, <2>2, <2>3, <2>4, SMT DEF CompositesIdle, Agreed, Agree, Cleaning
  <2>6. Bottom(m, depth)'
    BY <1>1, <2>2, <2>3, <2>5, SMT DEF Bottom
  <2> QED
    BY <2>2, <2>6 DEF CompositesInv
<1>2. CASE root \notin Composite
  <2>1. /\ Composites!Enter(what, root, {}, next, {}, root)
        /\ configured' = configured \ {root}
    BY <1>2 DEF Composites!CleanRoot
  <2>2. PICK m : /\ walletCalls' = <<m>> /\ IsFrame(m) /\ SavedIdle(m.saved)
                 /\ m.what = what /\ m.callee = root /\ m.children = {}
                 /\ m.next = next /\ m.dropped = {} /\ m.running = root
                 /\ depth' = 1
    BY <2>1, EnterFirst
  <2>3. configured' = {} /\ dependencies = None
    BY <1>2, <2>1, SMT DEF CompositesIdle, Agreed, Agree
  <2>4. Cleaning(m)'
    BY <1>2, <2>2, <2>3, SMT DEF CompositesIdle, Agreed, Agree, Cleaning
  <2>5. Bottom(m, depth)'
    BY <2>2, <2>4, SMT DEF Bottom
  <2> QED
    BY <2>2, <2>5 DEF CompositesInv
<1> QED
  BY <1>1, <1>2

LEMMA SetChildrenStep ==
  ASSUME CompositeAssumption, walletCalls = <<>>, CompositesIdle,
     NEW children \in SUBSET Child,
         Composites!SetChildren(children)
  PROVE  CompositesInv'
<1> DEFINE call == Composites!Call("setChildren", None, children)
<1>1. root \in Composite /\ UNCHANGED <<root, escrowed>> /\ root # None
  BY DEF Composites!SetChildren, CompositeAssumption, Composites!Plugin
<1>2. dependencies' = None \/ dependencies' = roster[root]
  BY <1>1, SMT DEF Composites!SetChildren, Composites!EnsureLegacyDependencies,
     CompositesIdle, Agreed, Agree
<1>3. dependencies' = None => roster[root] = {}
  BY <1>1, SMT DEF Composites!SetChildren, Composites!EnsureLegacyDependencies,
     CompositesIdle, Agreed, Agree, CompositeAssumption, Composites!Plugin
<1>4. CASE Composites!Stages(call)
  <2>1. UNCHANGED <<configured, roster, context, depth, maintaining, walletCalls>>
    BY <1>4 DEF Composites!Stages
  <2>2. staged' = [update |-> staged.update, call |-> [what |-> call, aged |-> FALSE]]
    BY <1>4, StagedKept DEF Composites!Stages
  <2>3. Agreed'
    BY <1>1, <1>2, <2>1, <2>2, SMT DEF CompositesIdle, Agreed, Agree
  <2> QED
    BY <2>1, <2>3 DEF CompositesInv, CompositesIdle
<1>5. CASE /\ Composites!Confirms(call)
           /\ roster' = [roster EXCEPT ![root] = children]
           /\ maintaining' = TRUE
           /\ Composites!Enter("set", root, children, root, Composites!Dropped(children),
              None)
           /\ UNCHANGED configured
  <2>1. PICK m : /\ walletCalls' = <<m>> /\ IsFrame(m) /\ SavedIdle(m.saved)
                 /\ m.what = "set" /\ m.callee = root /\ m.children = children
                 /\ m.next = root /\ m.dropped = Composites!Dropped(children)
                 /\ m.running = None
                 /\ depth' = 1
    BY <1>5, EnterFirst
  <2>2. /\ roster[root] \subseteq children \cup Composites!Dropped(children)
        /\ Composites!Dropped(children) \subseteq Child
    BY <1>1, <1>2, <1>3, SMT DEF Composites!Dropped, CompositesIdle, Agreed, Agree
  <2>3. configured \subseteq roster[root] /\ roster[root] \subseteq Child
    BY <1>1, SMT DEF CompositesIdle, Agreed, Agree, CompositeAssumption
  <2>4. /\ roster' \in [Composite -> SUBSET Child] /\ roster'[root] = children
        /\ \A c \in Composite \ {root} : roster'[c] = {}
    BY <1>1, <1>5, SMT DEF CompositesIdle, Agreed, Agree
  <2>5. Setting(m)'
    BY <1>1, <1>5, <2>1, <2>2, <2>3, <2>4, SMT DEF Setting
  <2>6. staged' = [update |-> staged.update, call |-> None]
    BY <1>5, StagedKept DEF Composites!Confirms
  <2>7. Bottom(m, depth)'
    BY <1>1, <2>1, <2>2, <2>5, <2>6, SMT DEF Bottom
  <2> QED
    BY <2>1, <2>7 DEF CompositesInv
<1> QED
  BY <1>4, <1>5 DEF Composites!SetChildren

LEMMA ClearRootStep ==
  ASSUME CompositeAssumption, walletCalls = <<>>, CompositesIdle, Composites!ClearRoot
  PROVE  CompositesInv'
<1> DEFINE call == Composites!Call("clearAccount", None, {})
<1>1. root # None /\ UNCHANGED <<root, dependencies, escrowed>>
  BY DEF Composites!ClearRoot
<1>2. CASE Composites!Stages(call)
  <2>1. staged' = [update |-> staged.update, call |-> [what |-> call, aged |-> FALSE]]
    BY <1>2, StagedKept DEF Composites!Stages
  <2> QED
    BY <1>1, <1>2, <2>1, StagedKept, StagingStep DEF Composites!Stages
<1>3. CASE /\ Composites!Confirms(call) /\ Composites!CleanRoot("clear", root)
           /\ UNCHANGED roster
  <2>1. staged' = [update |-> staged.update, call |-> None]
    BY <1>3, StagedKept DEF Composites!Confirms
  <2> QED
    BY <1>1, <1>3, <2>1, CleanRootStep
<1> QED
  BY <1>2, <1>3 DEF Composites!ClearRoot

LEMMA ConfigureStep ==
  ASSUME CompositeAssumption, walletCalls = <<>>, CompositesIdle, NEW child \in Child,
     Composites!Configure(child)
  PROVE  CompositesInv'
<1> DEFINE call == Composites!Call("configure", child,
                                IF root \in Composite THEN roster[root] ELSE {})
<1>1. root # None /\ UNCHANGED <<root, dependencies, escrowed>>
  BY DEF Composites!Configure
<1>2. CASE Composites!Stages(call)
  <2>1. staged' = [update |-> staged.update, call |-> [what |-> call, aged |-> FALSE]]
    BY <1>2, StagedKept DEF Composites!Stages
  <2> QED
    BY <1>1, <1>2, <2>1, StagedKept, StagingStep DEF Composites!Stages
<1>3. CASE /\ Composites!Confirms(call)
           /\ Composites!Enter("configure", child, {}, root, {}, child)
           /\ configured' = configured \cup {child}
           /\ UNCHANGED <<roster, maintaining>>
  <2>1. PICK m : /\ walletCalls' = <<m>> /\ IsFrame(m) /\ SavedIdle(m.saved)
                 /\ m.what = "configure" /\ m.callee = child /\ m.children = {}
                 /\ m.next = root /\ m.dropped = {} /\ m.running = child
                 /\ depth' = 1
    BY <1>3, EnterFirst
  <2>2. staged' = [update |-> staged.update, call |-> None]
    BY <1>3, StagedKept DEF Composites!Confirms
  <2>3. child \in {root} \cup (IF root \in Composite THEN roster[root] ELSE {})
    BY SMT DEF Composites!Configure, Composites!IsCurrentChild
  <2>4. Agreed'
    BY <1>1, <1>3, <2>2, <2>3, SMT DEF CompositesIdle, Agreed, Agree
  <2>5. Bottom(m, depth)'
    BY <1>3, <2>1, <2>2, <2>4, SMT DEF Bottom, Configuring, CompositesIdle
  <2> QED
    BY <2>1, <2>5 DEF CompositesInv
<1> QED
  BY <1>2, <1>3 DEF Composites!Configure

LEMMA MaintainStep ==
  ASSUME CompositeAssumption, CompositesInv, Composites!Maintain
  PROVE  CompositesInv'
<1>1. Composites!ConfigurationIdle
  BY DEF Composites!Maintain, Composites!UpdateRoot, Composites!FinalizeEscape,
     Composites!CancelUpdate, Composites!ConfirmUpdate, Composites!EnterMarketEscrow,
         Composites!CancelMarketEscrow, Composites!SettleMarketEscrow,
            Composites!SetChildren, Composites!ClearRoot, Composites!Configure,
         Composites!OwnerMayConfigure
<1>2. walletCalls = <<>>
  BY <1>1, BusyIsNotIdle
<1>3. CompositesIdle
  BY <1>2, SMT DEF CompositesInv
<1>4. ASSUME NEW new \in Composites!Plugin \cup {None}, Composites!FinalizeEscape(new)
      PROVE  CompositesInv'
  <2>1. CASE root = None
    <3>1. /\ configured = {} /\ \A c \in Composite : roster[c] = {}
          /\ dependencies = None
      BY <1>3, <2>1, SMT DEF CompositesIdle, Agreed, Agree, CompositeAssumption,
         Composites!Plugin
    <3>2. /\ root' = new /\ staged' = [update |-> None, call |-> None]
          /\ UNCHANGED <<roster, dependencies, configured, context, depth, maintaining,
             walletCalls>>
      BY <1>4, <2>1 DEF Composites!FinalizeEscape, Composites!NothingStaged
    <3>3. Agreed'
      BY <1>3, <3>1, <3>2, SMT DEF CompositesIdle, Agreed, Agree
    <3> QED
      BY <1>2, <1>3, <3>2, <3>3 DEF CompositesInv, CompositesIdle
  <2>2. CASE root # None
    <3>1. /\ Composites!CleanRoot("escape", new)
          /\ UNCHANGED <<root, staged, roster, dependencies>>
      BY <1>4, <2>2 DEF Composites!FinalizeEscape
    <3> QED
      BY <1>2, <1>3, <2>2, <3>1, StagedKept, CleanRootStep
  <2> QED
    BY <2>1, <2>2
<1>5. CASE Composites!CancelUpdate
  <2>1. staged' = [update |-> None, call |-> staged.call]
    BY <1>3, <1>5, StagedKept DEF Composites!CancelUpdate
  <2> QED
    BY <1>2, <1>3, <1>5, <2>1, StagingStep DEF Composites!CancelUpdate
<1>6. CASE Composites!ConfirmUpdate
  <2>1. /\ Composites!CleanRoot("replace", staged.update.new) /\ root # None
        /\ UNCHANGED <<root, staged, roster, dependencies>>
    BY <1>6 DEF Composites!ConfirmUpdate
  <2> QED
    BY <1>2, <1>3, <2>1, StagedKept, CleanRootStep
<1>7. CASE Composites!EnterMarketEscrow
  BY <1>2, <1>3, <1>7, StagedKept, StagingStep DEF Composites!EnterMarketEscrow
<1>8. CASE Composites!CancelMarketEscrow
  BY <1>2, <1>3, <1>8, StagedKept, StagingStep DEF Composites!CancelMarketEscrow
<1>9. CASE Composites!SettleMarketEscrow
  <2>1. CASE root = None
    <3>1. staged' = [update |-> None, call |-> None]
      BY <1>9, <2>1 DEF Composites!SettleMarketEscrow, Composites!NothingStaged
    <3> QED
      BY <1>2, <1>3, <1>9, <2>1, <3>1, StagingStep DEF Composites!SettleMarketEscrow
  <2>2. CASE root # None
    <3>1. /\ Composites!CleanRoot("settle", None)
          /\ UNCHANGED <<root, staged, roster, dependencies>>
      BY <1>9, <2>2 DEF Composites!SettleMarketEscrow
    <3> QED
      BY <1>2, <1>3, <2>2, <3>1, StagedKept, CleanRootStep
  <2> QED
    BY <2>1, <2>2
<1> QED
  BY <1>2, <1>3, <1>4, <1>5, <1>6, <1>7, <1>8, <1>9, UpdateRootStep, SetChildrenStep,
     ClearRootStep, ConfigureStep DEF Composites!Maintain

-----------------------------------------------------------------------------
(* What happens in a frame with nothing above it *)

LEMMA AppendSecond ==
  ASSUME NEW m, NEW n
  PROVE  Append(<<m>>, n) = <<m, n>>
<1> DEFINE S == {m, n}
<1>1. m \in S /\ n \in S
  OBVIOUS
<1> HIDE DEF S
<1>2. <<m, n>> \in Seq(S) /\ Append(<<m>>, n) \in Seq(S)
  BY <1>1
<1>3. /\ Len(Append(<<m>>, n)) = 2
      /\ Append(<<m>>, n)[1] = m /\ Append(<<m>>, n)[2] = n
  BY <1>1
<1>4. \A i \in 1 .. Len(Append(<<m>>, n)) : Append(<<m>>, n)[i] = <<m, n>>[i]
  BY <1>3
<1> QED
  BY <1>2, <1>3, <1>4, SeqEqual

LEMMA SubSeqFirst ==
  ASSUME NEW m, NEW o
  PROVE  SubSeq(<<m, o>>, 1, 1) = <<m>>
<1> DEFINE S == {m, o}
<1>1. m \in S /\ o \in S
  OBVIOUS
<1> HIDE DEF S
<1>2. <<m>> \in Seq(S) /\ SubSeq(<<m, o>>, 1, 1) \in Seq(S)
  BY <1>1
<1>3. Len(SubSeq(<<m, o>>, 1, 1)) = 1 /\ SubSeq(<<m, o>>, 1, 1)[1] = m
  BY <1>1
<1>4. \A i \in 1 .. 1 : SubSeq(<<m, o>>, 1, 1)[i] = <<m>>[i]
  BY <1>3
<1> QED
  BY <1>2, <1>3, <1>4, SeqEqual

LEMMA OneFrame ==
  ASSUME NEW m, walletCalls = <<m>>
  PROVE  /\ Composites!Top = m /\ Len(walletCalls) = 1 /\ walletCalls # <<>>
         /\ DOMAIN walletCalls = {1}
         /\ SubSeq(walletCalls, 1, Len(walletCalls) - 1) = <<>>
         /\ SubSeq(walletCalls, 1, 0) = <<>>
         /\ \A n : [walletCalls EXCEPT ![1] = n] = <<n>>
         /\ \A n : Append(walletCalls, n) = <<m, n>>
<1>1. /\ Len(walletCalls) = 1 /\ walletCalls # <<>> /\ DOMAIN walletCalls = {1}
      /\ walletCalls[1] = m
  OBVIOUS
<1>2. SubSeq(<<m>>, 1, 0) = <<>>
  OBVIOUS
<1>3. \A n : [walletCalls EXCEPT ![1] = n] = <<n>>
  OBVIOUS
<1>4. \A n : Append(<<m>>, n) = <<m, n>>
  BY AppendSecond
<1> QED
  BY <1>1, <1>2, <1>3, <1>4 DEF Composites!Top

LEMMA CleanupDependencyStep ==
  ASSUME CompositeAssumption, NEW m, walletCalls = <<m>>, Bottom(m, depth),
         NEW child \in Child, Composites!CleanupDependency(child)
  PROVE  CompositesInv'
<1> DEFINE n == [m EXCEPT !.running = child, !.dropped = @ \ {child}]
<1>1. /\ m.running = None /\ child \in m.dropped /\ depth' = depth + 1
      /\ configured' = configured \ {child}
      /\ UNCHANGED <<role, root, roster, dependencies, staged, escrowed, maintaining>>
  BY OneFrame DEF Composites!CleanupDependency
<1>2. walletCalls' = <<n>>
  BY OneFrame DEF Composites!CleanupDependency
<1>3. n = [what |-> m.what, callee |-> m.callee, children |-> m.children, next |-> m.next,
           dropped |-> m.dropped \ {child}, running |-> child, saved |-> m.saved]
  <2>1. IsFrame(m)
    BY DEF Bottom
  <2>2. [m EXCEPT !.running = child] =
          [what |-> m.what, callee |-> m.callee, children |-> m.children, next |-> m.next,
           dropped |-> m.dropped, running |-> child, saved |-> m.saved]
    BY <2>1 DEF IsFrame
  <2>3. n = [[m EXCEPT !.running = child] EXCEPT !.dropped = m.dropped \ {child}]
    BY <2>2
  <2>4. \A x : [[what |-> m.what, callee |-> m.callee, children |-> m.children,
     next |-> m.next,
                 dropped |-> m.dropped, running |-> child,
                    saved |-> m.saved] EXCEPT !.dropped = x]
              = [what |-> m.what, callee |-> m.callee, children |-> m.children,
                 next |-> m.next,
                 dropped |-> x, running |-> child, saved |-> m.saved]
    OBVIOUS
  <2> QED
    BY <2>2, <2>3, <2>4
<1>4. m.callee \in Composite /\ m.dropped \subseteq Child
  BY <1>1, SMT DEF Bottom
<1>5. child \notin {None, m.callee}
  BY <1>4 DEF CompositeAssumption, Composites!Plugin
<1>6. depth = 1
  BY <1>1 DEF Bottom
<1>7. m.what \notin {"operate", "configure"}
  BY <1>1, SMT DEF Bottom
<1>8. m.what = "set" => Setting(n)'
  BY <1>1, <1>3, SMT DEF Bottom, Setting
<1>9. m.what \in {"replace", "escape", "settle", "clear"} => Cleaning(n)'
  BY <1>1, <1>3, SMT DEF Bottom, Cleaning
<1>10. IsFrame(n)
  BY <1>3 DEF IsFrame
<1>11. Bottom(n, depth)'
  BY <1>1, <1>3, <1>4, <1>5, <1>6, <1>7, <1>8, <1>9, <1>10, SMT DEF Bottom
<1> QED
  BY <1>2, <1>11 DEF CompositesInv

LEMMA CleanupReturnsStep ==
  ASSUME CompositeAssumption, NEW m, walletCalls = <<m>>, Bottom(m, depth),
     Composites!CleanupReturns
  PROVE  CompositesInv'
<1> DEFINE n == [m EXCEPT !.running = None]
<1>1. /\ m.running \notin {None, m.callee} /\ depth' = depth - 1
      /\ UNCHANGED <<role, root, roster, dependencies, configured, staged, escrowed,
                     maintaining>>
  BY OneFrame DEF Composites!CleanupReturns
<1>2. walletCalls' = <<n>>
  BY OneFrame DEF Composites!CleanupReturns
<1>3. n = [what |-> m.what, callee |-> m.callee, children |-> m.children, next |-> m.next,
           dropped |-> m.dropped, running |-> None, saved |-> m.saved]
  <2>1. IsFrame(m)
    BY DEF Bottom
  <2> QED
    BY <2>1 DEF IsFrame
<1>4. depth = 2 /\ m.what \notin {"operate", "configure"}
  BY <1>1, SMT DEF Bottom
<1>5. m.what = "set" => Setting(n)'
  BY <1>1, <1>3, SMT DEF Bottom, Setting
<1>6. m.what \in {"replace", "escape", "settle", "clear"} => Cleaning(n)'
  BY <1>1, <1>3, SMT DEF Bottom, Cleaning
<1>7. IsFrame(n)
  BY <1>3 DEF IsFrame
<1>8. Bottom(n, depth)'
  BY <1>1, <1>3, <1>4, <1>5, <1>6, <1>7, SMT DEF Bottom
<1> QED
  BY <1>2, <1>8 DEF CompositesInv

(* The stack is empty again, and the wallet idle.                           *)
LEMMA ReturnsFirst ==
  ASSUME NEW m, walletCalls = <<m>>, Bottom(m, depth), NEW whats, Composites!Returns(whats)
  PROVE  /\ walletCalls' = <<>> /\ depth' = 0 /\ context' = None /\ UNCHANGED configured
         /\ m.what \in whats /\ m.dropped = {} /\ m.running \in {None, m.callee}
<1>1. m.what \in whats /\ m.running \in {None,
   m.callee} /\ m.dropped = {} /\ Composites!Leave
      /\ UNCHANGED configured
  BY OneFrame DEF Composites!Returns
<1>2. depth = 1
  BY <1>1 DEF Bottom
<1>3. walletCalls' = <<>> /\ depth' = 0
  BY <1>1, <1>2, OneFrame DEF Composites!Leave
<1>4. context' = None
  BY <1>1, OneFrame DEF Composites!Leave, Bottom, Operating
<1> QED
  BY <1>1, <1>3, <1>4

LEMMA ReturnStep ==
  ASSUME CompositeAssumption, NEW m, walletCalls = <<m>>, Bottom(m, depth),
         Composites!ConfigureReturns \/ Composites!SetChildrenReturns
      \/ Composites!CleanRootReturns \/ Composites!ExecuteReturns
  PROVE  CompositesInv'
<1>1. CASE Composites!ConfigureReturns
  <2>1. /\ Composites!Returns({"configure"})
        /\ UNCHANGED <<root, roster, dependencies, staged, escrowed, maintaining>>
    BY <1>1 DEF Composites!ConfigureReturns
  <2>2. m.what = "configure"
    BY <2>1, ReturnsFirst
  <2>3. Agreed /\ maintaining = FALSE
    BY <2>2 DEF Bottom, Configuring
  <2> QED
    BY <2>1, <2>3, ReturnsFirst DEF CompositesInv, CompositesIdle, Agreed
<1>2. CASE Composites!SetChildrenReturns
  <2>1. /\ Composites!Returns({"set"}) /\ dependencies' = m.children /\ maintaining' = FALSE
        /\ UNCHANGED <<root, roster, staged, escrowed>>
    BY <1>2, OneFrame DEF Composites!SetChildrenReturns
  <2>2. m.what = "set" /\ m.dropped = {} /\ UNCHANGED configured
    BY <2>1, ReturnsFirst
  <2>3. Setting(m) /\ staged = [update |-> staged.update, call |-> staged.call]
    BY <2>2 DEF Bottom
  <2>4. Agreed'
    BY <2>1, <2>2, <2>3, SMT DEF Setting, Agreed, Agree, CompositeAssumption,
       Composites!Plugin
  <2> QED
    BY <2>1, <2>4, ReturnsFirst DEF CompositesInv, CompositesIdle
<1>3. CASE Composites!CleanRootReturns
  <2>1. /\ Composites!Returns({"replace", "escape", "settle", "clear"})
        /\ maintaining' = FALSE
        /\ root' = m.next
        /\ staged' = IF m.what = "replace" THEN [staged EXCEPT !.update = None]
                     ELSE IF m.what = "clear" THEN staged ELSE Composites!NothingStaged
        /\ IF root \in Composite
           THEN dependencies' = None /\ roster' = [roster EXCEPT ![root] = {}]
           ELSE UNCHANGED <<dependencies, roster>>
    BY <1>3, OneFrame DEF Composites!CleanRootReturns
  <2>2. m.what \in {"replace", "escape", "settle", "clear"} /\ m.dropped = {}
        /\ UNCHANGED configured
    BY <2>1, ReturnsFirst
  <2>3. Cleaning(m) /\ staged = [update |-> staged.update, call |-> staged.call]
    BY <2>2 DEF Bottom
  <2>4. configured' = {}
    BY <2>2, <2>3 DEF Cleaning
  <2>5. dependencies' = None
    BY <2>1, <2>3 DEF Cleaning
  <2>6. roster' \in [Composite -> SUBSET Child] /\ \A c \in Composite : roster'[c] = {}
    BY <2>1, <2>3, SMT DEF Cleaning
  <2>7. /\ staged' = [update |-> staged'.update, call |-> staged'.call]
        /\ staged'.update # None => root' # None
    <3>1. CASE m.what = "clear"
      BY <2>1, <2>3, <3>1 DEF Cleaning
    <3>2. CASE m.what = "replace"
      <4>1. [staged EXCEPT !.update = None] = [update |-> None, call |-> staged.call]
        BY <2>3
      <4> QED
        BY <2>1, <3>2, <4>1
    <3>3. CASE m.what \in {"escape", "settle"}
      BY <2>1, <3>3 DEF Composites!NothingStaged
    <3> QED
      BY <2>2, <3>1, <3>2, <3>3
  <2>8. Agreed'
    BY <2>4, <2>5, <2>6, <2>7, SMT DEF Agreed, Agree
  <2> QED
    BY <2>1, <2>8, ReturnsFirst DEF CompositesInv, CompositesIdle
<1>4. CASE Composites!ExecuteReturns
  <2>1. /\ Composites!Returns({"operate"})
        /\ UNCHANGED <<root, roster, dependencies, staged, escrowed, maintaining>>
    BY <1>4 DEF Composites!ExecuteReturns
  <2>2. m.what = "operate"
    BY <2>1, ReturnsFirst
  <2>3. Agreed /\ maintaining = FALSE
    BY <2>2 DEF Bottom, Operating
  <2> QED
    BY <2>1, <2>3, ReturnsFirst DEF CompositesInv, CompositesIdle, Agreed
<1> QED
  BY <1>1, <1>2, <1>3, <1>4

-----------------------------------------------------------------------------
(* Operations, exceptions and timelocks *)

LEMMA ExecuteStep ==
  ASSUME CompositeAssumption, CompositesInv, Composites!ExecuteUserOp
  PROVE  CompositesInv'
<1>1. /\ Composites!ForeignCode /\ ~Composites!IsExecutionActive /\ root \in Composite
      /\ Composites!Enter("operate", root, roster[root], root, {}, root)
      /\ UNCHANGED <<root, roster, dependencies, configured, staged, escrowed, maintaining>>
  BY DEF Composites!ExecuteUserOp
<1>2. CASE walletCalls = <<>> /\ CompositesIdle
  <2>1. PICK m : /\ walletCalls' = <<m>> /\ IsFrame(m) /\ SavedIdle(m.saved)
                 /\ m.what = "operate" /\ m.callee = root /\ m.children = roster[root]
                 /\ m.dropped = {} /\ m.running = root
                 /\ depth' = 1 /\ context' = None
    BY <1>1, <1>2, EnterFirst
  <2>2. Operating(m)'
    BY <1>1, <1>2, <2>1 DEF Operating, CompositesIdle, Agreed
  <2>3. staged' = [update |-> staged'.update, call |-> staged'.call]
    BY <1>1, <1>2, StagedKept
  <2>4. Bottom(m, depth)'
    BY <1>1, <2>1, <2>2, <2>3, SMT DEF Bottom
  <2> QED
    BY <2>1, <2>4 DEF CompositesInv
<1>3. ASSUME NEW m, walletCalls = <<m>>, Bottom(m, depth)
      PROVE  CompositesInv'
  <2>1. PICK o : o = [what |-> "operate", callee |-> root, children |-> roster[root],
                      next |-> root, dropped |-> {}, running |-> root,
                         saved |-> Composites!Snapshot]
    OBVIOUS
  <2>2. walletCalls' = <<m, o>>
    BY <1>1, <1>3, <2>1, OneFrame DEF Composites!Enter
  <2>3. depth' = depth + 1 /\ context' = context
    BY <1>1 DEF Composites!Enter
  <2>4. m.what # "operate" /\ m.running # None
    BY <1>1, <1>3, OneFrame DEF Composites!IsExecutionActive, Composites!ForeignCode
  <2>5. depth \in Nat
    BY <1>3, SMT DEF Bottom
  <2>6. depth' - 1 = depth /\ depth' \in Nat
    BY <2>3, <2>5
  <2>7. Bottom(m, depth - 1)'
    BY <1>1, <1>3, <2>4, <2>6 DEF Bottom, Setting, Cleaning, Configuring, Agreed
  <2>8. Above(m, o)'
    BY <1>1, <2>1, <2>3, <2>4, <2>6 DEF Above, IsFrame, Composites!Snapshot
  <2> QED
    BY <2>2, <2>6, <2>7, <2>8 DEF CompositesInv
<1>4. ASSUME NEW m, NEW o, walletCalls = <<m, o>>, Above(m, o)
      PROVE  CompositesInv'
  <2>1. walletCalls[2].what = "operate" /\ 2 \in DOMAIN walletCalls
    BY <1>4 DEF Above
  <2> QED
    BY <1>1, <2>1 DEF Composites!IsExecutionActive
<1> QED
  BY <1>2, <1>3, <1>4 DEF CompositesInv

LEMMA ThrowStep ==
  ASSUME CompositeAssumption, CompositesInv, NEW i \in DOMAIN walletCalls,
     Composites!Throw(i)
  PROVE  CompositesInv'
<1> DEFINE was == walletCalls[i].saved
<1>1. /\ root' = was.root /\ roster' = was.roster /\ dependencies' = was.dependencies
      /\ configured' = was.configured /\ staged' = was.staged /\ escrowed' = was.escrowed
      /\ context' = was.context /\ depth' = was.depth /\ maintaining' = was.maintaining
      /\ walletCalls' = SubSeq(walletCalls, 1, i - 1)
  BY DEF Composites!Throw
<1>2. ASSUME i = 1, SavedIdle(walletCalls[1].saved)
      PROVE  CompositesInv'
  <2>1. walletCalls' = <<>>
    BY <1>1, <1>2, SubSeqEmpty
  <2>2. CompositesIdle'
    BY <1>1, <1>2 DEF SavedIdle, CompositesIdle, Agreed
  <2> QED
    BY <2>1, <2>2 DEF CompositesInv
<1>3. CASE walletCalls = <<>>
  BY <1>3
<1>4. ASSUME NEW m, walletCalls = <<m>>, Bottom(m, depth)
      PROVE  CompositesInv'
  <2>1. i = 1 /\ walletCalls[1] = m
    BY <1>4
  <2>2. SavedIdle(m.saved)
    BY <1>4 DEF Bottom
  <2> QED
    BY <1>2, <2>1, <2>2
<1>5. ASSUME NEW m, NEW o, walletCalls = <<m, o>>, depth \in Nat, Bottom(m, depth - 1),
             Above(m, o)
      PROVE  CompositesInv'
  <2>1. /\ i \in {1, 2} /\ walletCalls[1] = m /\ walletCalls[2] = o
    BY <1>5
  <2>2. CASE i = 1
    BY <1>2, <1>5, <2>1, <2>2 DEF Bottom
  <2>3. CASE i = 2
    <3>1. walletCalls' = <<m>>
      <4>1. SubSeq(<<m, o>>, 1, 1) = <<m>>
        BY SubSeqFirst
      <4> QED
        BY <1>1, <1>5, <2>3, <4>1
    <3>2. /\ UNCHANGED <<root, roster, dependencies, configured, staged, context,
                        maintaining>>
          /\ depth' = depth - 1
      BY <1>1, <1>5, <2>1, <2>3 DEF Above
    <3>3. m.what # "operate"
      BY <1>5 DEF Above
    <3>4. Bottom(m, depth)'
      BY <1>5, <3>2, <3>3 DEF Bottom, Setting, Cleaning, Configuring, Agreed
    <3> QED
      BY <3>1, <3>4 DEF CompositesInv
  <2> QED
    BY <2>1, <2>2, <2>3
<1> QED
  BY <1>3, <1>4, <1>5 DEF CompositesInv

LEMMA TimelocksStep ==
  ASSUME CompositesInv, Composites!TimelocksElapse
  PROVE  CompositesInv'
<1>1. /\ walletCalls = <<>>
      /\ UNCHANGED <<root, roster, dependencies, configured, context, depth, maintaining,
                     walletCalls>>
  BY DEF Composites!TimelocksElapse
<1>2. CompositesIdle
  BY <1>1, SMT DEF CompositesInv
<1>3. /\ staged' = [update |-> staged'.update, call |-> staged'.call]
      /\ staged.update = None => staged'.update = None
  BY DEF Composites!TimelocksElapse
<1> QED
  BY <1>1, <1>2, <1>3, StagedKept, StagingStep

(* Above a call that maintains, only the operation itself moves.            *)
LEMMA TwoFrames ==
  ASSUME NEW m, NEW o, walletCalls = <<m, o>>
  PROVE  /\ Composites!Top = o /\ walletCalls # <<>> /\ Len(walletCalls) = 2
         /\ SubSeq(walletCalls, 1, Len(walletCalls) - 1) = <<m>>
<1>1. Len(walletCalls) = 2 /\ walletCalls[2] = o /\ walletCalls # <<>>
  OBVIOUS
<1>2. SubSeq(<<m, o>>, 1, 1) = <<m>>
  BY SubSeqFirst
<1> QED
  BY <1>1, <1>2 DEF Composites!Top

LEMMA ReturnsSecond ==
  ASSUME CompositeAssumption, NEW m, NEW o, walletCalls = <<m, o>>, depth \in Nat,
         Bottom(m, depth - 1), Above(m, o), Composites!ExecuteReturns
  PROVE  CompositesInv'
<1>1. /\ Composites!Leave
      /\ UNCHANGED <<root, roster, dependencies, configured, staged, escrowed, maintaining>>
  BY DEF Composites!ExecuteReturns, Composites!Returns
<1>2. o.what = "operate" /\ m.what # "operate"
  BY DEF Above
<1>3. walletCalls' = <<m>> /\ depth' = depth - 1
  BY <1>1, TwoFrames DEF Composites!Leave
<1>4. Bottom(m, depth)'
  BY <1>1, <1>2, <1>3 DEF Bottom, Setting, Cleaning, Configuring, Agreed
<1> QED
  BY <1>3, <1>4 DEF CompositesInv

LEMMA RunStep ==
  ASSUME CompositeAssumption, CompositesInv, Composites!Run
  PROVE  CompositesInv'
<1>1. CASE walletCalls = <<>> /\ CompositesIdle
  <2>1. /\ \A child \in Child : ~Composites!CleanupDependency(child)
        /\ ~Composites!CleanupReturns /\ ~Composites!ConfigureReturns
        /\ ~Composites!SetChildrenReturns /\ ~Composites!CleanRootReturns
        /\ ~Composites!ExecuteReturns
    BY <1>1 DEF Composites!CleanupDependency, Composites!CleanupReturns,
       Composites!ConfigureReturns, Composites!SetChildrenReturns,
                Composites!CleanRootReturns, Composites!ExecuteReturns, Composites!Returns
  <2> QED
    BY <2>1, ExecuteStep, ThrowStep, TimelocksStep DEF Composites!Run
<1>2. ASSUME NEW m, walletCalls = <<m>>, Bottom(m, depth)
      PROVE  CompositesInv'
  BY <1>2, CleanupDependencyStep, CleanupReturnsStep, ReturnStep, ExecuteStep, ThrowStep,
     TimelocksStep DEF Composites!Run
<1>3. ASSUME NEW m, NEW o, walletCalls = <<m, o>>, depth \in Nat, Bottom(m, depth - 1),
             Above(m, o)
      PROVE  CompositesInv'
  <2>1. /\ Composites!Top = o /\ o.what = "operate" /\ o.running = o.callee
        /\ o.running \in Composite
    BY <1>3, TwoFrames DEF Above
  <2>2. /\ \A child \in Child : ~Composites!CleanupDependency(child)
        /\ ~Composites!CleanupReturns /\ ~Composites!ConfigureReturns
        /\ ~Composites!SetChildrenReturns /\ ~Composites!CleanRootReturns
    BY <2>1 DEF Composites!CleanupDependency, Composites!CleanupReturns,
       Composites!ConfigureReturns, Composites!SetChildrenReturns,
                Composites!CleanRootReturns, Composites!Returns, CompositeAssumption,
                   Composites!Plugin
  <2> QED
    BY <1>3, <2>2, ReturnsSecond, ExecuteStep, ThrowStep, TimelocksStep DEF Composites!Run
<1> QED
  BY <1>1, <1>2, <1>3 DEF CompositesInv

LEMMA CompositesStutter ==
  ASSUME CompositesInv, UNCHANGED Composites!vars
  PROVE  CompositesInv'
<1>1. CASE walletCalls = <<>> /\ CompositesIdle
  BY <1>1 DEF CompositesInv, CompositesIdle, Agreed, Composites!vars, Composites!stored
<1>2. ASSUME NEW m, walletCalls = <<m>>, Bottom(m, depth)
      PROVE  CompositesInv'
  <2>1. Bottom(m, depth)'
    BY <1>2 DEF Bottom, Setting, Cleaning, Configuring, Operating, Agreed,
       Composites!vars, Composites!stored
  <2> QED
    BY <1>2, <2>1 DEF CompositesInv, Composites!vars
<1>3. ASSUME NEW m, NEW o, walletCalls = <<m, o>>, depth \in Nat, Bottom(m, depth - 1),
             Above(m, o)
      PROVE  CompositesInv'
  <2>1. Bottom(m, depth - 1)' /\ Above(m, o)'
    BY <1>3 DEF Bottom, Setting, Cleaning, Configuring, Operating, Agreed, Above,
       Composites!vars, Composites!stored
  <2> QED
    BY <1>3, <2>1 DEF CompositesInv, Composites!vars, Composites!stored
<1> QED
  BY <1>1, <1>2, <1>3 DEF CompositesInv

-----------------------------------------------------------------------------
(* Whoever was a child of the account and is not any more holds nothing for *)
(* it, and an operation finds the same children after its target as before  *)
(* (UnifiedSmartWallet.Composite.cs, MultiHook.cs, MultiSigVerifier.cs).    *)
THEOREM ChildrenForget ==
  ASSUME CompositeAssumption
  PROVE  Composites!Spec => []Composites!ChildrenFollowRoot
<1>1. Composites!Init => CompositesInv
  BY InitIdle
<1>2. CompositesInv /\ [Composites!Next]_(Composites!vars) => CompositesInv'
  BY MaintainStep, RunStep, CompositesStutter DEF Composites!Next
<1>3. CompositesInv => Composites!ChildrenFollowRoot
  <2> SUFFICES ASSUME CompositesInv PROVE Composites!ChildrenFollowRoot
    OBVIOUS
  <2>1. CASE walletCalls = <<>> /\ CompositesIdle
    BY <2>1 DEF CompositesIdle, Agreed, Agree, Composites!ListsAgree,
       Composites!OperationsKeepTheirChildren, Composites!ChildrenFollowRoot
  <2>2. ASSUME NEW m, walletCalls = <<m>>, Bottom(m, depth)
        PROVE  Composites!ChildrenFollowRoot
    <3>1. walletCalls # <<>> /\ \A i \in DOMAIN walletCalls : walletCalls[i] = m
      BY <2>2
    <3>2. m.what = "operate" => root = m.callee /\ roster[root] = m.children
      BY <2>2 DEF Bottom, Operating
    <3> QED
      BY <3>1, <3>2 DEF Composites!OperationsKeepTheirChildren,
         Composites!ChildrenFollowRoot
  <2>3. ASSUME NEW m, NEW o, walletCalls = <<m, o>>, Bottom(m, depth - 1), Above(m, o)
        PROVE  Composites!ChildrenFollowRoot
    <3>1. walletCalls # <<>> /\ \A i \in DOMAIN walletCalls : walletCalls[i] \in {m, o}
      BY <2>3
    <3>2. m.what # "operate" /\ root = o.callee /\ roster[root] = o.children
      BY <2>3 DEF Above
    <3> QED
      BY <3>1, <3>2 DEF Composites!OperationsKeepTheirChildren,
         Composites!ChildrenFollowRoot
  <2> QED
    BY <2>1, <2>2, <2>3 DEF CompositesInv
<1> QED
  BY <1>1, <1>2, <1>3, PTL DEF Composites!Spec

(* Whichever plugin the account uses: whoever was a child of a composite    *)
(* and is not any more holds nothing for it, and operations meet the same   *)
(* children after the target as before.                                     *)
THEOREM PluginChildrenForget ==
  ASSUME CompositeAssumption
  PROVE  PluginSpec => []ChildrenFollowRoot
<1>1. PluginInit => Composites!Init
  BY DEF PluginInit
<1>2. [PluginNext]_<<plugin, vars, spending,
   composing>> => [Composites!Next]_(Composites!vars)
  BY DEF PluginNext, UsesRecovery, UsesSpending, UsesComposite, composing, Composites!vars,
     Composites!stored
<1> QED
  BY <1>1, <1>2, ChildrenForget, PTL DEF PluginSpec, Composites!Spec, ChildrenFollowRoot

-----------------------------------------------------------------------------
LEMMA SpendingSize == \A S : Spending!Cardinality(S) = Cardinality(S)
BY DEF Spending!Cardinality, Cardinality

(* Spending: what session keys and subscriptions spend, and what leaves an  *)
(* account under a limit.  Of amounts, limits, periods and times nothing is *)
(* assumed but that they are natural numbers and neither a day nor a period *)
(* is empty.                                                                *)

Key == [cap : Nat, method : {"transfer", "*"}, until : Int, since : Nat]
Grant == [since : Nat, cap : Nat, total : Nat]
Charge == [at : Nat, period : Nat \ {0}]

SpendingAssumption ==
  /\ Day \in Nat \ {0} /\ Value \subseteq Nat /\ Cap \subseteq Nat /\ MaxClock \in Nat
  /\ Plan \subseteq [amount : Nat, period : Nat \ {0}]
  /\ None \notin Nat /\ None \notin Key /\ None \notin Plan
  /\ \A c, a, r, k, s :
       None # [call |-> c, amount |-> a, returned |-> r, key |-> k, saved |-> s]

IsOperation(o) ==
  /\ o = [call |-> o.call, amount |-> o.amount, returned |-> o.returned,
          key |-> o.key, saved |-> o.saved]
  /\ o.amount \in Nat

OpInv == clock \in Nat /\ (op = None \/ IsOperation(op))

(* What the SessionKeyVerifier holds agrees with the keys there have been:  *)
(* they came a day apart, each one kept to its cap, and what the present    *)
(* one spent is counted.                                                    *)
KeysInOrder(s, gs) ==
  /\ s \in [key : Key \cup {None}, spent : Nat, rotated : Nat \cup {None}]
  /\ gs \subseteq Grant
  /\ IF s.rotated = None THEN gs = {}
     ELSE s.rotated <= clock /\ \A g \in gs : g.since <= s.rotated
  /\ \A g, h \in gs : g # h => g.since + Day <= h.since \/ h.since + Day <= g.since
  /\ \A g \in gs : g.cap > 0 => g.total <= g.cap
  /\ s.key # None =>
       /\ s.rotated # None /\ s.key.since = s.rotated
       /\ \A g \in gs : g.since = s.key.since =>
            g.cap = s.key.cap /\ (g.cap > 0 => g.total <= s.spent)

(* A transfer in progress is within the cap of the key that signed it.      *)
TransferWithinCap ==
  op.call = "transfer" =>
    \A g \in grants : g.since = op.key.since /\ g.cap > 0 => g.total + op.amount <= g.cap

KeysInv ==
  /\ KeysInOrder(session, grants)
  /\ op # None =>
       /\ KeysInOrder(op.saved.session, op.saved.grants)
       /\ installed = "session" => TransferWithinCap
       /\ installed = "session" => /\ op.key \in Key /\ session.rotated # None
                                   /\ op.key.since <= session.rotated

PeriodOf(c) == c.at \div c.period

(* The periods charged increase, and unless the subscription was cleared    *)
(* since the last charge, its record tells the last of them.  The wallet's  *)
(* cursor counts the charges, cleared or not.                               *)
ChargesInv ==
  /\ charges \in Seq(Charge) /\ cursor \in Nat
  /\ billing \in [plan : Plan \cup {None}, lastPeriod : Nat, counter : Nat]
  /\ \A i, j \in DOMAIN charges : i < j => PeriodOf(charges[i]) < PeriodOf(charges[j])
  /\ billing.counter <= Len(charges)
  /\ billing.counter = Len(charges) =>
       \A i \in DOMAIN charges : PeriodOf(charges[i]) <= billing.lastPeriod
  /\ op = None => cursor = Len(charges)
  /\ op # None => op.saved.cursor = Len(charges)
  /\ op # None /\ installed = "subscription" =>
       /\ billing.counter = Len(charges) /\ cursor = Len(charges) + 1
       /\ billing.plan # None /\ Spending!CurrentPeriod > billing.lastPeriod
  /\ op # None /\ installed # "subscription" => cursor = Len(charges)

LimitsAssumption ==
  /\ SpendingAssumption
  /\ Limit \subseteq Nat /\ MaxHistory \in Nat /\ MaxBalance \in Nat
  /\ \A m, r : None # [max |-> m, rolling |-> r]

IsHistory(h) ==
  /\ h \in [DOMAIN h -> [at : Nat, amount : Nat]] /\ IsFiniteSet(DOMAIN h)

IsSpending(f, c) ==
  f \in [DOMAIN f -> [amount : Nat, max : Nat]] /\ DOMAIN f \subseteq c - Day .. c

After(h, t) == {k \in DOMAIN h : h[k].at >= t}

(* From whatever time of the last day on, the hook's records of a rolling   *)
(* window add up to what left, or to more.                                  *)
RollingOk(c, h, f) ==
  /\ IsHistory(h) /\ IsSpending(f, c)
  /\ \A t \in c - Day .. c : Spending!Total(f, Spending!Since(f, t)) <= Spending!Total(h, After(h, t))

(* What left at some times is within the limit that stood at one of them.   *)
Covered(f, times) == times # {} => \E at \in times : Spending!Total(f, times) <= f[at].max

InWindow(f, reset, t) == {at \in DOMAIN f : at >= reset /\ at >= t}
BeforeWindow(f, reset, t) == {at \in DOMAIN f : at < reset /\ at >= t}

(* What left in the present fixed window is recorded, and within a limit,   *)
(* and so is what left in the last day before this window.                  *)
FixedOk(c, spent, reset, f) ==
  /\ spent \in Nat /\ reset \in Nat /\ reset <= c /\ IsSpending(f, c)
  /\ \A at \in DOMAIN f : at < reset + Day
  /\ Spending!Total(f, InWindow(f, reset, c - Day)) <= spent
  /\ \A t \in c - Day .. c :
       Covered(f, InWindow(f, reset, t)) /\ Covered(f, BeforeWindow(f, reset, t))

LimitsOk(c, d, s) ==
  /\ d = [limit |-> d.limit, spent |-> d.spent, lastReset |-> d.lastReset,
          history |-> d.history, snapshot |-> d.snapshot]
  /\ d.limit = None \/ (d.limit.max \in Nat /\ d.limit.rolling \in BOOLEAN)
  /\ d.snapshot = None \/ d.snapshot \in Nat
  /\ RollingOk(c, d.history, s.rolling) /\ FixedOk(c, d.spent, d.lastReset, s.fixed)

RollingWithin(f) ==
  \A last \in DOMAIN f : (\A at \in DOMAIN f : at <= last) => Spending!Total(f, DOMAIN f) <= f[last].max

(* An operation's snapshot is the balance that it began with, unless it     *)
(* calls the hook, which may meter and forget it; then nothing leaves.      *)
LimitsInv ==
  /\ spends = [rolling |-> spends.rolling, fixed |-> spends.fixed]
  /\ LimitsOk(clock, daily, spends) /\ RollingWithin(spends.rolling)
  /\ balance \in Nat
  /\ op # None =>
       /\ LimitsOk(clock, op.saved.daily, spends) /\ op.saved.balance \in Nat
       /\ IF op.call = "hook" THEN balance >= op.saved.balance
          ELSE daily.limit # None => daily.snapshot = op.saved.balance

-----------------------------------------------------------------------------
(* The operation in progress *)

(* Configuring a plugin leaves the operation and the wallet alone.          *)
LEMMA ConfigureKeepsOp ==
  Spending!Configure => UNCHANGED <<clock, installed, balance, cursor, op>>
BY Zenon DEF Spending!Configure, Spending!SetDailyLimit, Spending!RemoveDailyLimit,
  Spending!ClearHookAccount, Spending!SetSessionKey,
   Spending!ClearSessionKey, Spending!CreateSubscription, Spending!ClearSubscriptions,
   Spending!Configured

(* ExecuteUserOp begins an operation, its run changes what it returned, and *)
(* Finish and Fault end it.                                                 *)
LEMMA OpStep ==
  ASSUME SpendingAssumption, OpInv, [Spending!Next]_(Spending!vars)
  PROVE  OpInv'
<1>1. CASE Spending!Configure
  <2>1. UNCHANGED <<clock, op>>
    BY <1>1, ConfigureKeepsOp
  <2> QED
    BY <2>1, Zenon DEF OpInv, IsOperation
<1>2. ASSUME NEW call, NEW amount \in Value \cup {0}, Spending!ExecuteUserOp(call, amount) PROVE OpInv'
  BY <1>2, SMT DEF OpInv, IsOperation, SpendingAssumption, Spending!ExecuteUserOp
<1>3. CASE Spending!TransferRuns
  BY <1>3, SMT DEF OpInv, IsOperation, SpendingAssumption, Spending!TransferRuns,
    Spending!Returns, Spending!Idle
<1>4. ASSUME NEW amount, Spending!OtherCallRuns(amount) \/ Spending!HookCallRuns(amount) PROVE OpInv'
  BY <1>4, SMT DEF OpInv, IsOperation, SpendingAssumption, Spending!OtherCallRuns,
    Spending!HookCallRuns, Spending!Returns, Spending!Idle
<1>5. ASSUME NEW amount, Spending!Receive(amount) PROVE OpInv'
  BY <1>5, SMT DEF OpInv, IsOperation, SpendingAssumption, Spending!Receive
<1>6. CASE Spending!Finish \/ Spending!Fault \/ Spending!Tick
  BY <1>6, SMT DEF OpInv, IsOperation, SpendingAssumption, Spending!Finish, Spending!Fault,
    Spending!Tick
<1>7. CASE UNCHANGED Spending!vars
  BY <1>7, SMT DEF OpInv, IsOperation, SpendingAssumption, Spending!vars
<1> QED
  BY <1>1, <1>2, <1>3, <1>4, <1>5, <1>6, <1>7, Zenon DEF Spending!Next, Spending!Operate

-----------------------------------------------------------------------------
(* Session keys *)

(* A new key begins with nothing, a day or more after the former one.       *)
LEMMA NewKey ==
  ASSUME SpendingAssumption, clock \in Nat,
         NEW s, NEW gs, KeysInOrder(s, gs),
         NEW cap \in Cap, NEW method \in {"transfer", "*"}, NEW until \in Int,
         s.rotated # None => clock >= s.rotated + Day
  PROVE  KeysInOrder([s EXCEPT !.rotated = clock,
            !.key = [cap |-> cap, method |-> method, until |-> until, since |-> clock]],
            gs \cup {[since |-> clock, cap |-> cap, total |-> 0]})
<1> DEFINE k == [cap |-> cap, method |-> method, until |-> until, since |-> clock]
           t == [s EXCEPT !.rotated = clock, !.key = k]
           n == [since |-> clock, cap |-> cap, total |-> 0]
<1>1. k \in Key /\ n \in Grant /\ k.since = clock /\ k.cap = cap /\ k # None
  BY DEF SpendingAssumption, Key, Grant
<1>2. t \in [key : Key \cup {None}, spent : Nat, rotated : Nat \cup {None}]
      /\ t.rotated = clock /\ t.key = k /\ t.spent = s.spent /\ clock # None
  BY <1>1 DEF KeysInOrder, SpendingAssumption
<1>3. n.since = clock /\ n.cap = cap /\ n.total = 0
  OBVIOUS
<1>4. \A g \in gs : g.since + Day <= clock
  BY DEF KeysInOrder, SpendingAssumption, Grant
<1> HIDE DEF k, t, n
<1>5. \A g \in gs \cup {n} : g.since = clock => g = n
  BY <1>4 DEF KeysInOrder, SpendingAssumption, Grant
<1>6. \A g, h \in gs \cup {n} : g # h => g.since + Day <= h.since \/ h.since + Day <= g.since
  BY <1>3, <1>4 DEF KeysInOrder
<1>7. \A g \in gs \cup {n} : g.since <= clock
  BY <1>3, <1>4 DEF KeysInOrder, SpendingAssumption, Grant
<1>8. \A g \in gs \cup {n} : g.cap > 0 => g.total <= g.cap
  BY <1>1, <1>3 DEF KeysInOrder, Grant
<1>9. \A g \in gs \cup {n} : g.since = clock => g.cap = k.cap /\ (g.cap > 0 => g.total <= t.spent)
  BY <1>1, <1>2, <1>3, <1>5
<1>10. gs \cup {n} \subseteq Grant
  BY <1>1 DEF KeysInOrder
<1>11. KeysInOrder(t, gs \cup {n})
  BY <1>1, <1>2, <1>6, <1>7, <1>8, <1>9, <1>10 DEF KeysInOrder, SpendingAssumption
<1> QED
  BY <1>11 DEF t, k, n

(* Without a key nothing need be counted. *)
LEMMA NoKey ==
  ASSUME SpendingAssumption, NEW s, NEW gs, KeysInOrder(s, gs)
  PROVE  KeysInOrder([s EXCEPT !.key = None, !.spent = 0], gs)
BY DEF KeysInOrder, SpendingAssumption

(* What an operation transferred is counted for the key that signed it and, *)
(* if that is still the present one, in the verifier.                       *)
LEMMA FinishedTransfer ==
  ASSUME SpendingAssumption, OpInv, KeysInv, ~Spending!Idle, installed = "session",
         op.call = "transfer", op.returned,
         Spending!SessionCharged(op.call, op.amount, op.returned),
         grants' = {Spending!Credited(g) : g \in grants}, clock' = clock
  PROVE  KeysInOrder(session, grants)'
<1>1. /\ op.amount \in Nat /\ op.key \in Key
      /\ \A g \in grants : g.since = op.key.since /\ g.cap > 0 => g.total + op.amount <= g.cap
      /\ KeysInOrder(session, grants)
  BY DEF OpInv, KeysInv, IsOperation, TransferWithinCap, Spending!Idle
<1>2. \A g \in grants : /\ Spending!Credited(g) \in Grant
                        /\ Spending!Credited(g).since = g.since /\ Spending!Credited(g).cap = g.cap
                        /\ Spending!Credited(g).total = IF g.since = op.key.since /\ g.cap > 0
                                               THEN g.total + op.amount ELSE g.total
  BY <1>1 DEF Spending!Credited, KeysInOrder, Grant
<1>3. /\ session' \in [key : Key \cup {None}, spent : Nat, rotated : Nat \cup {None}]
      /\ session'.rotated = session.rotated /\ session'.key = session.key
      /\ session'.spent >= session.spent
      /\ session.key # None /\ session.key.cap > 0 => session'.spent = session.spent + op.amount
  <2>1. CASE session.key = None \/ session.key.cap = 0
    BY <1>1, <2>1 DEF Spending!SessionCharged, KeysInOrder
  <2>2. CASE session.key # None /\ session.key.cap # 0
    BY <1>1, <2>2 DEF Spending!SessionCharged, KeysInOrder
  <2> QED
    BY <2>1, <2>2
<1>4. grants' \subseteq Grant
  BY <1>2
<1>5. IF session'.rotated = None THEN grants' = {}
      ELSE session'.rotated <= clock' /\ \A g \in grants' : g.since <= session'.rotated
  BY <1>1, <1>2, <1>3 DEF KeysInOrder
<1>6. \A g, h \in grants' : g # h => g.since + Day <= h.since \/ h.since + Day <= g.since
  BY <1>1, <1>2 DEF KeysInOrder
<1>7. \A g \in grants' : g.cap > 0 => g.total <= g.cap
  BY <1>1, <1>2 DEF KeysInOrder
<1>8. session'.key # None =>
        /\ session'.rotated # None /\ session'.key.since = session'.rotated
        /\ \A g \in grants' : g.since = session'.key.since =>
             g.cap = session'.key.cap /\ (g.cap > 0 => g.total <= session'.spent)
  <2> SUFFICES ASSUME session.key # None
               PROVE  /\ session.rotated # None /\ session.key.since = session.rotated
                      /\ \A g \in grants : g.since = session.key.since =>
                           /\ g.cap = session.key.cap
                           /\ g.cap > 0 => Spending!Credited(g).total <= session'.spent
    BY <1>2, <1>3
  <2>1. session.rotated # None /\ session.key.since = session.rotated
    BY <1>1 DEF KeysInOrder
  <2>2. ASSUME NEW g \in grants, g.since = session.key.since
        PROVE  g.cap = session.key.cap /\ (g.cap > 0 => Spending!Credited(g).total <= session'.spent)
    <3>1. g.cap = session.key.cap /\ (g.cap > 0 => g.total <= session.spent)
      BY <1>1, <2>2 DEF KeysInOrder
    <3>2. g \in Grant /\ session.spent \in Nat /\ session'.spent \in Nat
      BY <1>1, <1>3 DEF KeysInOrder
    <3> QED
      BY <1>1, <1>2, <1>3, <3>1, <3>2 DEF Grant
  <2> QED
    BY <2>1, <2>2
<1> QED
  BY <1>3, <1>4, <1>5, <1>6, <1>7, <1>8 DEF KeysInOrder

(* The owner may install or clear a key while an operation runs: it is not  *)
(* the key that signed the operation, which was installed a day before.     *)
LEMMA KeysConfigured ==
  ASSUME SpendingAssumption, OpInv, KeysInv, Spending!Configure
  PROVE  KeysInv'
<1>1. UNCHANGED <<clock, installed, op>>
  BY ConfigureKeepsOp
<1>2. clock \in Nat /\ KeysInOrder(session, grants)
  BY DEF OpInv, KeysInv
<1>3. ASSUME KeysInOrder(session, grants)',
             op # None /\ installed = "session" =>
               /\ session'.rotated # None /\ op.key.since <= session'.rotated
               /\ TransferWithinCap'
      PROVE  KeysInv'
  <2>1. op # None => KeysInOrder(op.saved.session, op.saved.grants)'
    BY <1>1 DEF KeysInv, KeysInOrder
  <2> QED
    BY <1>1, <1>3, <2>1 DEF KeysInv
<1>4. ASSUME NEW cap \in Cap, NEW method \in {"transfer", "*"}, NEW until \in clock + 1 .. MaxClock,
             Spending!SetSessionKey(cap, method, until)
      PROVE  KeysInv'
  <2> DEFINE k == [cap |-> cap, method |-> method, until |-> until, since |-> clock]
             n == [since |-> clock, cap |-> cap, total |-> 0]
  <2>1. /\ session.rotated # None => clock >= session.rotated + Day
        /\ session' = [session EXCEPT !.rotated = clock, !.key = k]
        /\ grants' = grants \cup {n}
    BY <1>4, Zenon DEF Spending!SetSessionKey
  <2>2. until \in Int
    BY <1>2 DEF SpendingAssumption
  <2>3. KeysInOrder([session EXCEPT !.rotated = clock, !.key = k], grants \cup {n})
    BY <1>2, <2>1, <2>2, NewKey
  <2>4. KeysInOrder(session, grants)'
    BY <1>1, <2>1, <2>3 DEF KeysInOrder
  <2>5. ASSUME op # None, installed = "session"
        PROVE  /\ session'.rotated # None /\ op.key.since <= session'.rotated
               /\ TransferWithinCap'
    <3>1. /\ TransferWithinCap /\ op.key \in Key
          /\ session.rotated # None /\ op.key.since <= session.rotated
      BY <2>5 DEF KeysInv
    <3>2. /\ session.rotated \in Nat /\ op.key.since \in Nat /\ Day \in Nat \ {0}
          /\ session'.rotated = clock
      BY <1>2, <2>1, <3>1 DEF KeysInOrder, Key, SpendingAssumption
    <3>3. op.key.since < clock
      BY <1>2, <2>1, <3>1, <3>2
    <3>4. clock # None
      BY <1>2 DEF SpendingAssumption
    <3>5. \A g \in grants' : g.since = op.key.since => g \in grants
      BY <2>1, <3>3, <1>2, <3>2
    <3> QED
      BY <1>1, <1>2, <3>1, <3>2, <3>3, <3>4, <3>5 DEF TransferWithinCap
  <2> QED
    BY <1>3, <2>4, <2>5
<1>5. CASE Spending!ClearSessionKey
  <2>1. session' = [session EXCEPT !.key = None, !.spent = 0] /\ grants' = grants
    BY <1>5, Zenon DEF Spending!ClearSessionKey, Spending!ledger
  <2>2. KeysInOrder([session EXCEPT !.key = None, !.spent = 0], grants)
    BY <1>2, NoKey
  <2>3. KeysInOrder(session, grants)' /\ session'.rotated = session.rotated
    BY <1>1, <1>2, <2>1, <2>2 DEF KeysInOrder
  <2> QED
    BY <1>1, <1>3, <2>1, <2>3 DEF KeysInv, TransferWithinCap
<1>6. ASSUME UNCHANGED <<session, grants>> PROVE KeysInv'
  <2>1. KeysInOrder(session, grants)'
    BY <1>1, <1>2, <1>6 DEF KeysInOrder
  <2> QED
    BY <1>1, <1>3, <1>6, <2>1 DEF KeysInv, TransferWithinCap
<1>7. \/ Spending!ClearSessionKey \/ UNCHANGED <<session, grants>>
      \/ \E cap \in Cap, method \in {"transfer", "*"}, until \in clock + 1 .. MaxClock :
           Spending!SetSessionKey(cap, method, until)
  BY Zenon DEF Spending!Configure, Spending!SetDailyLimit, Spending!RemoveDailyLimit,
    Spending!ClearHookAccount,
     Spending!CreateSubscription, Spending!ClearSubscriptions, Spending!ledger
<1> QED
  BY <1>4, <1>5, <1>6, <1>7, Zenon

(* Nothing in an operation or between two disturbs the keys but the end of  *)
(* a transfer.                                                              *)
LEMMA KeysStep ==
  ASSUME SpendingAssumption, OpInv, KeysInv, [Spending!Next]_(Spending!vars)
  PROVE  KeysInv'
<1>1. clock \in Nat /\ KeysInOrder(session, grants)
  BY DEF OpInv, KeysInv
<1>2. CASE Spending!Configure
  BY <1>2, KeysConfigured
<1>3. ASSUME NEW call, NEW amount \in Value \cup {0}, Spending!ExecuteUserOp(call, amount) PROVE KeysInv'
  <2>1. UNCHANGED <<clock, installed, session, grants>>
    BY <1>3, Zenon DEF Spending!ExecuteUserOp, Spending!ledger
  <2>2. /\ op'.call = call /\ op'.amount = amount /\ op'.key = session.key
        /\ op'.saved.session = session /\ op'.saved.grants = grants
    BY <1>3, SMT DEF Spending!ExecuteUserOp
  <2>3. installed = "session" => Spending!SessionAllows(call, amount)
    BY <1>3, Zenon DEF Spending!ExecuteUserOp, Spending!ValidateSignature
  <2>4. KeysInOrder(session, grants)' /\ KeysInOrder(op.saved.session, op.saved.grants)'
    BY <1>1, <2>1, <2>2 DEF KeysInOrder
  <2>5. ASSUME installed = "session"
        PROVE  /\ TransferWithinCap' /\ op'.key \in Key
               /\ session'.rotated # None /\ op'.key.since <= session'.rotated
    <3>1. /\ session.key \in Key /\ session.rotated \in Nat /\ session.key.since = session.rotated
          /\ session.rotated # None
          /\ \A g \in grants : g.since = session.key.since =>
               g.cap = session.key.cap /\ (g.cap > 0 => g.total <= session.spent)
      BY <1>1, <2>3, <2>5 DEF KeysInOrder, Spending!SessionAllows
    <3>2. ASSUME call = "transfer", NEW g \in grants, g.since = session.key.since, g.cap > 0
          PROVE  g.total + amount <= g.cap
      <4>1. g.cap = session.key.cap /\ g.total <= session.spent
        BY <3>1, <3>2
      <4>2. session.spent + amount <= session.key.cap
        BY <2>3, <2>5, <3>2, <4>1 DEF Spending!SessionAllows
      <4>3. amount \in Nat /\ g \in Grant /\ session.spent \in Nat /\ session.key.cap \in Nat
        BY <1>1, <3>1 DEF KeysInOrder, SpendingAssumption, Key
      <4> QED
        BY <4>1, <4>2, <4>3 DEF Grant
    <3> QED
      BY <2>1, <2>2, <3>1, <3>2 DEF TransferWithinCap
  <2> QED
    BY <2>1, <2>4, <2>5 DEF KeysInv
<1>4. ASSUME UNCHANGED <<clock, installed, session, grants>>,
             op' # None => op # None /\ op'.saved = op.saved /\ op'.key = op.key
                           /\ op'.call = op.call /\ op'.amount = op.amount
      PROVE  KeysInv'
  BY <1>1, <1>4 DEF KeysInv, KeysInOrder, TransferWithinCap
<1>5. ASSUME Spending!TransferRuns \/ \E amount : Spending!OtherCallRuns(amount) \/ Spending!Receive(amount) \/ Spending!HookCallRuns(amount)
      PROVE  KeysInv'
  <2>1. UNCHANGED <<clock, installed, session, grants>>
    BY <1>5, Zenon DEF Spending!TransferRuns, Spending!OtherCallRuns, Spending!Receive,
      Spending!HookCallRuns, Spending!policies, Spending!ledger
  <2>2. UNCHANGED op \/ (~Spending!Idle /\ \E result : Spending!Returns(result))
    BY <1>5, Zenon DEF Spending!TransferRuns, Spending!OtherCallRuns, Spending!Receive,
      Spending!HookCallRuns
  <2>3. op' # None => op # None /\ op'.saved = op.saved /\ op'.key = op.key
                      /\ op'.call = op.call /\ op'.amount = op.amount
    BY <2>2 DEF Spending!Returns, Spending!Idle, OpInv, IsOperation
  <2> QED
    BY <1>4, <2>1, <2>3
<1>6. CASE Spending!Finish
  <2>1. UNCHANGED <<clock, installed>> /\ op' = None /\ ~Spending!Idle
    BY <1>6, Zenon DEF Spending!Finish
  <2>2. KeysInOrder(session, grants)'
    <3>1. CASE installed = "session" /\ op.call = "transfer" /\ op.returned
      <4>1. Spending!SessionCharged(op.call, op.amount, op.returned) /\ grants' = {Spending!Credited(g) : g \in grants}
        BY <1>6, <3>1, Zenon DEF Spending!Finish
      <4> QED
        BY <2>1, <3>1, <4>1, FinishedTransfer
    <3>2. CASE ~(installed = "session" /\ op.call = "transfer" /\ op.returned)
      <4>1. UNCHANGED <<session, grants>>
        BY <1>6, <3>2, Zenon DEF Spending!Finish, Spending!SessionCharged
      <4> QED
        BY <1>1, <2>1, <4>1 DEF KeysInOrder
    <3> QED
      BY <3>1, <3>2, Zenon
  <2> QED
    BY <2>1, <2>2 DEF KeysInv
<1>7. CASE Spending!Fault
  <2>1. /\ op # None /\ op' = None /\ clock' = clock
        /\ session' = op.saved.session /\ grants' = op.saved.grants
    BY <1>7, Zenon DEF Spending!Fault, Spending!Idle
  <2>2. KeysInOrder(op.saved.session, op.saved.grants)
    BY <2>1 DEF KeysInv
  <2> QED
    BY <2>1, <2>2 DEF KeysInv, KeysInOrder
<1>8. CASE Spending!Tick
  <2>1. /\ op = None /\ op' = None /\ clock' = clock + 1
        /\ UNCHANGED <<session, grants>>
    BY <1>8, Zenon DEF Spending!Tick, Spending!Idle, Spending!policies
  <2>2. KeysInOrder(session, grants)'
    BY <1>1, <2>1 DEF KeysInOrder
  <2> QED
    BY <2>1, <2>2 DEF KeysInv
<1>9. CASE UNCHANGED Spending!vars
  BY <1>4, <1>9 DEF Spending!vars, Spending!policies, Spending!ledger
<1> QED
  BY <1>2, <1>3, <1>5, <1>6, <1>7, <1>8, <1>9, Zenon DEF Spending!Next, Spending!Operate


(* SessionCapsHold: whatever the days, caps and amounts are, no session key *)
(* transfers more than its cap, and keys follow each other a day apart.     *)
THEOREM SessionCaps ==
  ASSUME SpendingAssumption
  PROVE  Spending!Spec => []Spending!SessionCapsHold
<1>1. Spending!Init => OpInv /\ KeysInv
  <2> SUFFICES ASSUME Spending!Init PROVE OpInv /\ KeysInv
    OBVIOUS
  <2>1. clock = Day /\ op = None /\ session = Spending!NoSession /\ grants = {}
    BY Zenon DEF Spending!Init
  <2> QED
    BY <2>1 DEF OpInv, KeysInv, KeysInOrder, Spending!NoSession, SpendingAssumption
<1>2. OpInv /\ KeysInv /\ [Spending!Next]_(Spending!vars) => OpInv' /\ KeysInv'
  BY OpStep, KeysStep
<1>3. KeysInv => Spending!SessionCapsHold
  BY DEF KeysInv, KeysInOrder, Spending!SessionCapsHold
<1> QED
  BY <1>1, <1>2, <1>3, PTL DEF Spending!Spec

-----------------------------------------------------------------------------
(* Subscriptions *)

LEMMA DivIsNat ==
  ASSUME NEW a \in Nat, NEW p \in Nat \ {0}
  PROVE  a \div p \in Nat
OBVIOUS

(* A charge is made in a later period than all before it. *)
LEMMA NewCharge ==
  ASSUME SpendingAssumption, OpInv, ChargesInv, op # None, installed = "subscription",
         billing' = [billing EXCEPT !.lastPeriod = Spending!CurrentPeriod, !.counter = @ + 1],
         charges' = Append(charges, [at |-> clock, period |-> billing.plan.period]),
         op' = None, UNCHANGED <<clock, installed, cursor>>
  PROVE  ChargesInv'
<1> DEFINE c == [at |-> clock, period |-> billing.plan.period]
<1>1. /\ charges \in Seq(Charge) /\ clock \in Nat
      /\ billing.counter = Len(charges) /\ cursor = Len(charges) + 1
      /\ billing.plan \in [amount : Nat, period : Nat \ {0}]
      /\ billing.lastPeriod \in Nat /\ Spending!CurrentPeriod > billing.lastPeriod
      /\ \A i \in DOMAIN charges : PeriodOf(charges[i]) <= billing.lastPeriod
  BY DEF OpInv, ChargesInv, SpendingAssumption
<1>2. c \in Charge /\ PeriodOf(c) = Spending!CurrentPeriod /\ Spending!CurrentPeriod \in Nat
  <2>1. billing.plan.period \in Nat \ {0} /\ c.at = clock /\ c.period = billing.plan.period
    BY <1>1
  <2>2. c \in Charge
    BY <1>1, <2>1 DEF Charge
  <2> HIDE DEF c
  <2>3. clock \div billing.plan.period \in Nat
    BY <1>1, <2>1, DivIsNat
  <2> QED
    BY <2>1, <2>2, <2>3, Zenon DEF PeriodOf, Spending!CurrentPeriod
<1>3. \A i \in DOMAIN charges : PeriodOf(charges[i]) \in Nat
  <2> TAKE i \in DOMAIN charges
  <2>0. charges[i] \in Charge
    <3>1. charges \in Seq(Charge)
      BY <1>1
    <3> QED
      BY <3>1
  <2>1. charges[i].at \in Nat /\ charges[i].period \in Nat \ {0}
    BY <2>0 DEF Charge
  <2> QED
    BY <2>1, DivIsNat, Zenon DEF PeriodOf
<1> HIDE DEF c
<1>4. /\ charges' \in Seq(Charge) /\ Len(charges') = Len(charges) + 1
      /\ \A i \in DOMAIN charges' :
           charges'[i] = IF i = Len(charges') THEN c ELSE charges[i]
      /\ DOMAIN charges' = 1 .. Len(charges) + 1 /\ DOMAIN charges = 1 .. Len(charges)
    <2>1. charges' = Append(charges, c)
      BY DEF c
    <2> QED
      BY <1>1, <1>2, <2>1
<1>5. \A i \in DOMAIN charges' :
        PeriodOf(charges'[i]) = IF i = Len(charges') THEN Spending!CurrentPeriod ELSE PeriodOf(charges[i])
  BY <1>2, <1>4
<1>6. \A i, j \in DOMAIN charges' : i < j => PeriodOf(charges'[i]) < PeriodOf(charges'[j])
  <2>0. \A i, j \in DOMAIN charges : i < j => PeriodOf(charges[i]) < PeriodOf(charges[j])
    BY DEF ChargesInv
  <2> QED
    BY <1>1, <1>2, <1>3, <1>4, <1>5, <2>0
<1>7. \A i \in DOMAIN charges' : PeriodOf(charges'[i]) <= Spending!CurrentPeriod
  BY <1>1, <1>2, <1>3, <1>4, <1>5
<1>8. /\ billing' \in [plan : Plan \cup {None}, lastPeriod : Nat, counter : Nat]
      /\ billing'.lastPeriod = Spending!CurrentPeriod /\ billing'.counter = Len(charges')
  BY <1>1, <1>2, <1>4 DEF ChargesInv
<1>9. cursor' \in Nat /\ cursor' = Len(charges') /\ billing'.counter <= Len(charges')
  BY <1>1, <1>4, <1>8
<1> QED
  BY <1>4, <1>6, <1>7, <1>8, <1>9, Zenon DEF ChargesInv, PeriodOf

(* Only the end of an operation charges. *)
LEMMA ChargesStep ==
  ASSUME SpendingAssumption, OpInv, ChargesInv, [Spending!Next]_(Spending!vars)
  PROVE  ChargesInv'
<1>1. CASE Spending!Configure
  <2>1. UNCHANGED <<clock, installed, cursor, op>>
    BY <1>1, ConfigureKeepsOp
  <2>2. CASE UNCHANGED <<billing, charges>>
    BY <2>1, <2>2, Zenon DEF ChargesInv, Spending!CurrentPeriod, PeriodOf
  <2>3. ASSUME NEW plan \in Plan, Spending!CreateSubscription(plan) PROVE ChargesInv'
    <3>1. op = None /\ billing' = [billing EXCEPT !.plan = plan] /\ charges' = charges
      BY <2>3, Zenon DEF Spending!CreateSubscription, Spending!Idle, Spending!ledger
    <3> QED
      BY <2>1, <3>1 DEF ChargesInv, PeriodOf
  <2>4. CASE Spending!ClearSubscriptions
    <3>1. op = None /\ billing' = Spending!NoBilling /\ charges' = charges
      BY <2>4, Zenon DEF Spending!ClearSubscriptions, Spending!Idle, Spending!ledger
    <3>2. /\ billing' \in [plan : Plan \cup {None}, lastPeriod : Nat, counter : Nat]
          /\ billing'.counter = 0
      BY <3>1 DEF Spending!NoBilling
    <3>3. charges \in Seq(Charge) /\ (Len(charges) = 0 => DOMAIN charges = {})
      BY DEF ChargesInv
    <3>4. 0 <= Len(charges)
      BY <3>3
    <3>5. billing'.counter <= Len(charges) /\ (billing'.counter = Len(charges) => DOMAIN charges = {})
      BY <3>2, <3>3, <3>4
    <3> QED
      BY <2>1, <3>1, <3>2, <3>5, Zenon DEF ChargesInv, PeriodOf
  <2> QED
    BY <1>1, <2>2, <2>3, <2>4, Zenon DEF Spending!Configure, Spending!SetDailyLimit,
      Spending!RemoveDailyLimit,
       Spending!ClearHookAccount, Spending!SetSessionKey, Spending!ClearSessionKey,
       Spending!ledger
<1>2. ASSUME NEW call, NEW amount, Spending!ExecuteUserOp(call, amount) PROVE ChargesInv'
  <2>1. op = None /\ UNCHANGED <<clock, installed, billing, charges>>
    BY <1>2, Zenon DEF Spending!ExecuteUserOp, Spending!Idle, Spending!ledger
  <2>2. installed = "subscription" =>
          /\ billing.plan # None /\ Spending!CurrentPeriod > billing.lastPeriod
          /\ billing.counter = cursor
    BY <1>2, Zenon DEF Spending!ExecuteUserOp, Spending!ValidateSignature,
      Spending!SubscriptionAllows
  <2>3. /\ op'.saved.cursor = cursor
        /\ cursor' = IF installed = "subscription" THEN cursor + 1 ELSE cursor
    BY <1>2, SMT DEF Spending!ExecuteUserOp
  <2>4. cursor = Len(charges) /\ cursor' \in Nat /\ op'.saved.cursor = Len(charges)
    BY <2>1, <2>3 DEF ChargesInv
  <2>5. installed = "subscription" => cursor' = Len(charges) + 1 /\ billing.counter = Len(charges)
    BY <2>2, <2>3, <2>4
  <2>6. installed # "subscription" => cursor' = Len(charges)
    BY <2>3, <2>4
  <2>7. Spending!CurrentPeriod' = Spending!CurrentPeriod
    BY <2>1, Zenon DEF Spending!CurrentPeriod
  <2>8. (Spending!CurrentPeriod > billing.lastPeriod)' = (Spending!CurrentPeriod > billing.lastPeriod)
    BY <2>1, <2>7, Zenon
  <2>9. op' = None => FALSE
    BY <1>2, SMT DEF Spending!ExecuteUserOp, SpendingAssumption
  <2> QED
    BY <2>1, <2>2, <2>4, <2>5, <2>6, <2>8, <2>9, Zenon DEF ChargesInv, PeriodOf
<1>3. ASSUME UNCHANGED <<clock, installed, cursor, billing, charges>>,
             UNCHANGED op \/ (op # None /\ op' # None /\ op'.saved = op.saved)
      PROVE  ChargesInv'
  BY <1>3, Zenon DEF ChargesInv, Spending!CurrentPeriod, PeriodOf
<1>4. ASSUME Spending!TransferRuns \/ \E amount : Spending!OtherCallRuns(amount) \/ Spending!Receive(amount) \/ Spending!HookCallRuns(amount)
      PROVE  ChargesInv'
  <2>1. UNCHANGED <<clock, installed, cursor, billing, charges>>
    BY <1>4, Zenon DEF Spending!TransferRuns, Spending!OtherCallRuns, Spending!Receive,
      Spending!HookCallRuns, Spending!policies, Spending!ledger
  <2>2. UNCHANGED op \/ (~Spending!Idle /\ \E result : Spending!Returns(result))
    BY <1>4, Zenon DEF Spending!TransferRuns, Spending!OtherCallRuns, Spending!Receive,
      Spending!HookCallRuns
  <2>3. UNCHANGED op \/ (op # None /\ op' # None /\ op'.saved = op.saved)
    BY <2>2 DEF Spending!Returns, Spending!Idle, OpInv, IsOperation, SpendingAssumption
  <2> QED
    BY <1>3, <2>1, <2>3
<1>5. CASE Spending!Finish
  <2>1. op # None /\ op' = None /\ UNCHANGED <<clock, installed, cursor>>
    BY <1>5, Zenon DEF Spending!Finish, Spending!Idle
  <2>2. CASE installed = "subscription"
    <3>1. /\ charges' = Append(charges, [at |-> clock, period |-> billing.plan.period])
          /\ billing' = [billing EXCEPT !.lastPeriod = Spending!CurrentPeriod, !.counter = @ + 1]
      BY <1>5, <2>2, Zenon DEF Spending!Finish, Spending!SubscriptionCharged
    <3> QED
      BY <2>1, <2>2, <3>1, NewCharge
  <2>3. CASE installed # "subscription"
    <3>1. UNCHANGED <<billing, charges>>
      BY <1>5, <2>3, Zenon DEF Spending!Finish
    <3> QED
      BY <2>1, <2>3, <3>1, Zenon DEF ChargesInv, PeriodOf
  <2> QED
    BY <2>2, <2>3
<1>6. CASE Spending!Fault
  <2>1. /\ op # None /\ op' = None /\ cursor' = op.saved.cursor
        /\ UNCHANGED <<clock, installed, billing, charges>>
    BY <1>6, Zenon DEF Spending!Fault, Spending!Idle
  <2>2. cursor' = Len(charges) /\ cursor' \in Nat
    BY <2>1 DEF ChargesInv
  <2> QED
    BY <2>1, <2>2, Zenon DEF ChargesInv, PeriodOf
<1>7. CASE Spending!Tick
  <2>1. op = None /\ op' = None /\ UNCHANGED <<installed, billing, cursor, charges>>
    BY <1>7, Zenon DEF Spending!Tick, Spending!Idle, Spending!policies
  <2> QED
    BY <2>1, Zenon DEF ChargesInv, PeriodOf
<1>8. CASE UNCHANGED Spending!vars
  BY <1>3, <1>8, Zenon DEF Spending!vars, Spending!policies, Spending!ledger
<1> QED
  BY <1>1, <1>2, <1>4, <1>5, <1>6, <1>7, <1>8, Zenon DEF Spending!Next, Spending!Operate

(* OneChargeAPeriod: whatever amounts and periods the owner sets, replaces  *)
(* and clears, no two charges of a subscription fall in one billing period. *)
THEOREM ChargesOncePerPeriod ==
  ASSUME SpendingAssumption
  PROVE  Spending!Spec => []Spending!OneChargeAPeriod
<1>1. Spending!Init => OpInv /\ ChargesInv
  <2> SUFFICES ASSUME Spending!Init PROVE OpInv /\ ChargesInv
    OBVIOUS
  <2>1. /\ clock = Day /\ op = None /\ charges = <<>>
        /\ cursor = 0 /\ billing = Spending!NoBilling
    BY Zenon DEF Spending!Init
  <2> QED
    BY <2>1 DEF OpInv, ChargesInv, Spending!NoBilling, SpendingAssumption
<1>2. OpInv /\ ChargesInv /\ [Spending!Next]_(Spending!vars) => OpInv' /\ ChargesInv'
  BY OpStep, ChargesStep
<1>3. ChargesInv => Spending!OneChargeAPeriod
  <2> SUFFICES ASSUME ChargesInv, NEW i \in DOMAIN charges, NEW j \in DOMAIN charges,
                      i < j, charges[j].period = charges[i].period
               PROVE  charges[i].at \div charges[i].period # charges[j].at \div charges[i].period
    BY Zenon DEF Spending!OneChargeAPeriod
  <2>1. PeriodOf(charges[i]) < PeriodOf(charges[j])
    BY DEF ChargesInv
  <2>2. charges[i] \in Charge /\ charges[j] \in Charge
    BY DEF ChargesInv
  <2> QED
    BY <2>1, <2>2 DEF PeriodOf, Charge
<1> QED
  BY <1>1, <1>2, <1>3, PTL DEF Spending!Spec

-----------------------------------------------------------------------------
(* Sums of amounts.  The laws are shown by induction on the subsets of a    *)
(* finite set, with the set of those for which they hold.                   *)

LEMMA SetInduction ==
  ASSUME NEW N, 0 \in N, \A n \in Nat : n \in N => n + 1 \in N
  PROVE  Nat \subseteq N
<1> SUFFICES ASSUME Nat \ N # {} PROVE FALSE
  OBVIOUS
<1>1. PICK m \in Nat \ N : \A k \in Nat \ N : <<k, m>> \notin OpToRel(<, Nat)
  BY NatLessThanWellFounded, WFMin
<1>2. \A k \in Nat \ N : ~(k < m)
  BY <1>1 DEF OpToRel
<1>3. m # 0 /\ m - 1 \in Nat /\ m - 1 < m /\ (m - 1) + 1 = m
  OBVIOUS
<1> QED BY <1>2, <1>3

-----------------------------------------------------------------------------
(* The function by which the fold of the community modules adds up f.       *)
Some(s) == CHOOSE x \in s : TRUE
Adds(f, g, T) ==
  g = [s \in T |-> IF s = {} THEN 0 ELSE f[Some(s)].amount + g[s \ {Some(s)}]]
Adder(f, S) == CHOOSE g : Adds(f, g, SUBSET S)

LEMMA TotalAdder ==
  ASSUME NEW f, NEW S
  PROVE  Spending!Total(f, S) = Adder(f, S)[S]
BY DEF Spending!Total, Spending!MapThenSumSet, Spending!MapThenFoldSet, Adds, Adder, Some

LEMMA SomeElement ==
  ASSUME NEW s, s # {}
  PROVE  Some(s) \in s
BY DEF Some

(* There is such a function: it can be built up from the smaller sets.      *)
LEMMA AdderExists ==
  ASSUME NEW f, NEW S, IsFiniteSet(S)
  PROVE  Adds(f, Adder(f, S), SUBSET S)
<1> DEFINE Upto(n) == {s \in SUBSET S : Cardinality(s) <= n}
           N == {n \in Nat : \E g : Adds(f, g, Upto(n))}
<1>1. 0 \in N
  <2>1. Adds(f, [s \in Upto(0) |-> 0], Upto(0))
    <3>1. \A s \in Upto(0) : s = {}
      BY FS_Subset, FS_CardinalityType, FS_EmptySet
    <3> HIDE DEF Upto
    <3> QED BY <3>1 DEF Adds
  <2> QED BY <2>1
<1>2. ASSUME NEW n \in Nat, n \in N PROVE n + 1 \in N
  <2>1. PICK g : Adds(f, g, Upto(n))
    BY <1>2
  <2> DEFINE h == [s \in Upto(n + 1) |->
                     IF s \in Upto(n) THEN g[s] ELSE f[Some(s)].amount + g[s \ {Some(s)}]]
  <2>2. /\ \A s \in Upto(n) : s \in Upto(n + 1)
        /\ \A s \in Upto(n + 1) : s # {} => s \ {Some(s)} \in Upto(n)
        /\ {} \in Upto(n)
    <3>1. \A s \in SUBSET S : IsFiniteSet(s) /\ Cardinality(s) \in Nat
      BY FS_Subset, FS_CardinalityType
    <3>2. ASSUME NEW s \in SUBSET S, s # {}
          PROVE  Cardinality(s \ {Some(s)}) = Cardinality(s) - 1
      BY <3>1, <3>2, SomeElement, FS_RemoveElement
    <3> QED BY <3>1, <3>2, FS_EmptySet
  <2>3. Adds(f, h, Upto(n + 1))
    <3> SUFFICES ASSUME NEW s \in Upto(n + 1)
                 PROVE  h[s] = IF s = {} THEN 0 ELSE f[Some(s)].amount + h[s \ {Some(s)}]
      BY DEF Adds
    <3>1. CASE s \in Upto(n)
      <4> HIDE DEF Upto
      <4>1. g[s] = IF s = {} THEN 0 ELSE f[Some(s)].amount + g[s \ {Some(s)}]
        BY <2>1, <3>1 DEF Adds
      <4> QED BY <4>1, <2>2, <3>1
    <3>2. CASE s \notin Upto(n)
      <4> HIDE DEF Upto
      <4> QED BY <2>2, <3>2
    <3> QED BY <3>1, <3>2
  <2> HIDE DEF Upto, h
  <2> QED BY <2>3
<1>3. Cardinality(S) \in N
  <2> HIDE DEF N
  <2> QED BY <1>1, <1>2, SetInduction, FS_CardinalityType
<1>4. Upto(Cardinality(S)) = SUBSET S
  BY FS_Subset
<1> HIDE DEF Upto
<1> QED BY <1>3, <1>4 DEF Adder

(* Induction on the subsets of a finite set.                                *)
LEMMA SubsetInduction ==
  ASSUME NEW S, IsFiniteSet(S), NEW G,
         \A s \in SUBSET S : (\A t \in SUBSET s : t # s => t \in G) => s \in G
  PROVE  SUBSET S \subseteq G
<1> SUFFICES ASSUME (SUBSET S) \ G # {} PROVE FALSE
  OBVIOUS
<1>1. IsWellFoundedOn(StrictSubsetOrdering(S), SUBSET S)
  <2>1. IsWellFoundedOn(StrictSubsetOrdering(S), FiniteSubsetsOf(S))
    BY FS_StrictSubsetOrderingWellFounded
  <2>2. FiniteSubsetsOf(S) = SUBSET S
    BY FS_FiniteSubsetsOfFinite
  <2> QED BY <2>1, <2>2
<1> DEFINE T == (SUBSET S) \ G
<1>2. T \subseteq SUBSET S /\ T # {}
  OBVIOUS
<1> HIDE DEF T
<1>3. PICK s \in T : \A t \in T : <<t, s>> \notin StrictSubsetOrdering(S)
  BY <1>1, <1>2, WFMin
<1>4. \A t \in SUBSET s : t # s => t \in G
  BY <1>3 DEF T, StrictSubsetOrdering
<1> QED BY <1>3, <1>4 DEF T

(* The order in which elements are chosen does not matter.                  *)
LEMMA AdderRemoves ==
  ASSUME NEW f, NEW S, IsFiniteSet(S), \A x \in S : f[x].amount \in Nat, NEW s \in SUBSET S
  PROVE  /\ Adder(f, S)[s] \in Nat
         /\ \A x \in s : Adder(f, S)[s] = f[x].amount + Adder(f, S)[s \ {x}]
<1>a. PICK g : g = Adder(f, S)
  OBVIOUS
<1>b. Adds(f, g, SUBSET S)
  BY <1>a, AdderExists
<1> DEFINE G == {t \in SUBSET S : g[t] \in Nat /\ \A x \in t : g[t] = f[x].amount + g[t \ {x}]}
<1>1. \A t \in SUBSET S :
        g[t] = IF t = {} THEN 0 ELSE f[Some(t)].amount + g[t \ {Some(t)}]
  BY <1>b DEF Adds
<1>2. ASSUME NEW w \in SUBSET S, \A t \in SUBSET w : t # w => t \in G
      PROVE  w \in G
  <2>1. CASE w = {}
    <3>1. g[w] = 0
      BY <1>1, <2>1
    <3> QED BY <2>1, <3>1
  <2>2. CASE w # {}
    <3>1. PICK y \in w : y = Some(w)
      BY <2>2, SomeElement
    <3>2. g[w] = f[y].amount + g[w \ {y}]
      BY <1>1, <2>2, <3>1
    <3>3. ASSUME NEW x \in w PROVE w \ {x} \in G
      BY <1>2
    <3>4. ASSUME NEW x \in w PROVE g[w] = f[x].amount + g[w \ {x}]
      <4>1. CASE x = y
        BY <4>1, <3>2
      <4>2. CASE x # y
        <5>1. g[w \ {y}] = f[x].amount + g[(w \ {y}) \ {x}]
          BY <3>1, <3>3, <4>2
        <5>2. g[w \ {x}] = f[y].amount + g[(w \ {x}) \ {y}]
          BY <3>1, <3>3, <4>2
        <5>3. (w \ {x}) \ {y} = (w \ {y}) \ {x}
          OBVIOUS
        <5>4. (w \ {y}) \ {x} \in SUBSET w /\ (w \ {y}) \ {x} # w
          OBVIOUS
        <5>5. g[(w \ {y}) \ {x}] \in Nat
          BY <1>2, <5>4
        <5>6. f[x].amount \in Nat /\ f[y].amount \in Nat
          OBVIOUS
        <5>7. PICK r : r = g[(w \ {y}) \ {x}]
          OBVIOUS
        <5>8. r \in Nat /\ g[w \ {x}] = f[y].amount + r /\ g[w \ {y}] = f[x].amount + r
          BY <5>1, <5>2, <5>3, <5>5, <5>7
        <5> HIDE DEF G
        <5> QED BY <5>6, <5>8, <3>2
      <4> QED BY <4>1, <4>2
    <3>5. g[w] \in Nat
      <4>1. g[w \ {y}] \in Nat /\ f[y].amount \in Nat
        BY <3>3
      <4> HIDE DEF G
      <4> QED BY <4>1, <3>2
    <3> QED BY <3>4, <3>5
  <2> QED BY <2>1, <2>2
<1>3. SUBSET S \subseteq G
  <2> HIDE DEF G
  <2> QED BY <1>2, SubsetInduction
<1> QED BY <1>a, <1>3

(* Functions that agree on a set have one sum over it, whatever larger set  *)
(* the fold comes from.                                                     *)
LEMMA AddersAgree ==
  ASSUME NEW f, NEW S, IsFiniteSet(S), NEW h, NEW T, IsFiniteSet(T),
         NEW R, R \subseteq S, R \subseteq T, \A x \in R : f[x].amount = h[x].amount
  PROVE  Adder(f, S)[R] = Adder(h, T)[R]
<1>a. PICK g : g = Adder(f, S)
  OBVIOUS
<1>b. PICK k : k = Adder(h, T)
  OBVIOUS
<1>c. Adds(f, g, SUBSET S) /\ Adds(h, k, SUBSET T)
  BY <1>a, <1>b, AdderExists
<1> DEFINE G == {s \in SUBSET R : g[s] = k[s]}
<1>1. \A s \in SUBSET R :
        /\ g[s] = IF s = {} THEN 0 ELSE f[Some(s)].amount + g[s \ {Some(s)}]
        /\ k[s] = IF s = {} THEN 0 ELSE h[Some(s)].amount + k[s \ {Some(s)}]
  <2>1. \A s \in SUBSET R : s \in SUBSET S /\ s \in SUBSET T
    OBVIOUS
  <2> QED BY <1>c, <2>1 DEF Adds
<1>2. ASSUME NEW s \in SUBSET R, \A t \in SUBSET s : t # s => t \in G
      PROVE  s \in G
  <2>1. CASE s = {}
    BY <1>1, <2>1
  <2>2. CASE s # {}
    <3>1. Some(s) \in s
      BY <2>2, SomeElement
    <3>2. g[s \ {Some(s)}] = k[s \ {Some(s)}]
      BY <1>2, <3>1
    <3> QED BY <1>1, <2>2, <3>1, <3>2
  <2> QED BY <2>1, <2>2
<1>3. IsFiniteSet(R)
  BY FS_Subset
<1>4. SUBSET R \subseteq G
  <2> HIDE DEF G
  <2> QED BY <1>2, <1>3, SubsetInduction
<1> QED BY <1>a, <1>b, <1>4

-----------------------------------------------------------------------------
(* A sum depends on its terms only.                                         *)
LEMMA TotalSame ==
  ASSUME NEW f, NEW h, NEW S, IsFiniteSet(S), \A x \in S : f[x].amount = h[x].amount
  PROVE  Spending!Total(f, S) = Spending!Total(h, S)
<1>1. Adder(f, S)[S] = Adder(h, S)[S]
  BY AddersAgree
<1> QED BY <1>1, TotalAdder

(* Sums of naturals are naturals.                                           *)
LEMMA TotalNat ==
  ASSUME NEW f, NEW S, IsFiniteSet(S), \A x \in S : f[x].amount \in Nat
  PROVE  Spending!Total(f, S) \in Nat
BY AdderExists, AdderRemoves, TotalAdder

(* One term can be taken out.                                               *)
LEMMA TotalSplit ==
  ASSUME NEW f, NEW S, IsFiniteSet(S), \A x \in S : f[x].amount \in Nat, NEW x \in S
  PROVE  Spending!Total(f, S) = f[x].amount + Spending!Total(f, S \ {x})
<1>1. IsFiniteSet(S \ {x})
  BY FS_RemoveElement
<1>2. Adder(f, S)[S \ {x}] = Adder(f, S \ {x})[S \ {x}]
  BY <1>1, AddersAgree
<1>3. Adder(f, S)[S] = f[x].amount + Adder(f, S)[S \ {x}]
  <2>1. S \in SUBSET S
    OBVIOUS
  <2>2. \A y \in S : Adder(f, S)[S] = f[y].amount + Adder(f, S)[S \ {y}]
    BY <2>1, AdderRemoves
  <2> QED BY <2>2
<1> QED BY <1>2, <1>3, TotalAdder

(* A record more adds its amount.                                           *)
LEMMA TotalAdd ==
  ASSUME NEW f, NEW S, IsFiniteSet(S), NEW x, x \notin S,
         \A y \in S \cup {x} : f[y].amount \in Nat
  PROVE  Spending!Total(f, S \cup {x}) = Spending!Total(f, S) + f[x].amount
<1>1. IsFiniteSet(S \cup {x}) /\ (S \cup {x}) \ {x} = S /\ x \in S \cup {x}
  BY FS_AddElement
<1>2. PICK T : T = S \cup {x}
  OBVIOUS
<1>3. Spending!Total(f, T) = f[x].amount + Spending!Total(f, T \ {x})
  BY <1>1, <1>2, TotalSplit
<1>4. Spending!Total(f, T) = f[x].amount + Spending!Total(f, S)
  BY <1>1, <1>2, <1>3
<1>5. \A m, n, s \in Nat : m = n + s => m = s + n
  OBVIOUS
<1>6. Spending!Total(f, S) \in Nat /\ f[x].amount \in Nat /\ Spending!Total(f, T) \in Nat
  BY <1>1, <1>2, TotalNat
<1>7. Spending!Total(f, T) = Spending!Total(f, S) + f[x].amount
  BY ONLY <1>4, <1>5, <1>6
<1> QED BY <1>2, <1>7

(* The empty sum.                                                           *)
LEMMA TotalEmpty ==
  ASSUME NEW f
  PROVE  Spending!Total(f, {}) = 0
<1>1. PICK g : g = Adder(f, {})
  OBVIOUS
<1>2. Adds(f, g, SUBSET {})
  BY <1>1, AdderExists, FS_EmptySet
<1>3. g[{}] = 0
  BY <1>2 DEF Adds
<1> QED BY <1>1, <1>3, TotalAdder

(* Fewer records have no larger sum.                                        *)
LEMMA TotalMonotone ==
  ASSUME NEW f, NEW S, IsFiniteSet(S), \A y \in S : f[y].amount \in Nat, NEW R \in SUBSET S
  PROVE  Spending!Total(f, R) <= Spending!Total(f, S)
<1> DEFINE G == {s \in SUBSET S : \A t \in SUBSET s : Spending!Total(f, t) <= Spending!Total(f, s)}
<1>0. \A s \in SUBSET S : IsFiniteSet(s) /\ Spending!Total(f, s) \in Nat
  BY FS_Subset, TotalNat
<1>1. ASSUME NEW s \in SUBSET S, \A t \in SUBSET s : t # s => t \in G
      PROVE  s \in G
  <2> SUFFICES ASSUME NEW t \in SUBSET s, t # s PROVE Spending!Total(f, t) <= Spending!Total(f, s)
    BY <1>0
  <2>1. PICK x \in s : x \notin t
    OBVIOUS
  <2>2. Spending!Total(f, s) = f[x].amount + Spending!Total(f, s \ {x})
    BY <1>0, TotalSplit
  <2>3. s \ {x} \in G /\ t \in SUBSET (s \ {x})
    BY <1>1, <2>1
  <2>4. Spending!Total(f, t) <= Spending!Total(f, s \ {x}) /\ f[x].amount \in Nat
    BY <2>3
  <2> HIDE DEF G
  <2>5. Spending!Total(f, t) \in Nat /\ Spending!Total(f, s \ {x}) \in Nat
    BY <1>0
  <2> QED BY <2>2, <2>4, <2>5
<1>2. SUBSET S \subseteq G
  <2> HIDE DEF G
  <2> QED BY <1>1, SubsetInduction
<1> QED BY <1>2


(* Sums over sets with nothing in common add up.                            *)
LEMMA TotalUnion ==
  ASSUME NEW f, NEW S, IsFiniteSet(S), NEW T, IsFiniteSet(T), S \cap T = {},
         \A y \in S \cup T : f[y].amount \in Nat
  PROVE  Spending!Total(f, S \cup T) = Spending!Total(f, S) + Spending!Total(f, T)
<1> DEFINE G == {t \in SUBSET T : Spending!Total(f, S \cup t) = Spending!Total(f, S) + Spending!Total(f, t)}
<1>1. ASSUME NEW t \in SUBSET T, \A u \in SUBSET t : u # t => u \in G
      PROVE  t \in G
  <2>1. IsFiniteSet(t) /\ Spending!Total(f, S) \in Nat
    BY FS_Subset, TotalNat
  <2>2. CASE t = {}
    BY <2>1, <2>2, TotalEmpty
  <2>3. CASE t # {}
    <3>1. PICK x \in t : TRUE
      BY <2>3
    <3>2. PICK u : u = t \ {x}
      OBVIOUS
    <3>3. PICK v : v = S \cup u
      OBVIOUS
    <3>4. u \in SUBSET t /\ u # t /\ t = u \cup {x} /\ x \notin u
      BY <3>1, <3>2
    <3>5. S \cup t = v \cup {x} /\ x \notin v
      BY <3>1, <3>3, <3>4
    <3>6. u \in G
      BY <1>1, <3>4
    <3>7. IsFiniteSet(u) /\ IsFiniteSet(v)
      BY <2>1, <3>3, <3>4, FS_Subset, FS_Union
    <3>8. \A y \in v \cup {x} : f[y].amount \in Nat
      BY <3>1, <3>3, <3>4
    <3>9. Spending!Total(f, u \cup {x}) = Spending!Total(f, u) + f[x].amount
      BY <3>4, <3>7, <3>8, <3>3, TotalAdd
    <3>10. Spending!Total(f, v \cup {x}) = Spending!Total(f, v) + f[x].amount
      BY <3>5, <3>7, <3>8, TotalAdd
    <3>11. Spending!Total(f, u) \in Nat /\ f[x].amount \in Nat
      BY <3>3, <3>7, <3>8, TotalNat
    <3>12. Spending!Total(f, v) = Spending!Total(f, S) + Spending!Total(f, u)
      BY <3>3, <3>6
    <3> HIDE DEF G
    <3>13. PICK w : w = S \cup t
      OBVIOUS
    <3>14. w = v \cup {x}
      BY <3>5, <3>13
    <3>15. Spending!Total(f, w) = Spending!Total(f, S) + Spending!Total(f, t)
      BY ONLY <2>1, <3>4, <3>9, <3>10, <3>11, <3>12, <3>14
    <3> QED BY <3>13, <3>15 DEF G
  <2> QED BY <2>2, <2>3
<1>2. SUBSET T \subseteq G
  <2> HIDE DEF G
  <2> QED BY <1>1, SubsetInduction
<1> QED BY <1>2

-----------------------------------------------------------------------------
(* Spending limits *)

(* Keeping a record deletes what is older than a day and adds its amount.   *)
LEMMA RecordAdds ==
  ASSUME NEW c \in Nat, Day \in Nat, NEW h, IsHistory(h), NEW live, live = After(h, c - Day),
         NEW n, n \notin live, NEW amount \in Nat,
         NEW g, g = Spending!With(Spending!Restrict(h, live), n, [at |-> c, amount |-> amount])
  PROVE  /\ IsHistory(g)
         /\ \A t \in c - Day .. c : Spending!Total(g, After(g, t)) = Spending!Total(h, After(h, t)) + amount
<1>1. /\ DOMAIN g = live \cup {n} /\ live \subseteq DOMAIN h
      /\ \A k \in live : g[k] = h[k] /\ k # n
  BY DEF Spending!With, Spending!Restrict, After
<1>2. g[n] = [at |-> c, amount |-> amount]
  BY DEF Spending!With, Spending!Restrict
<1>3. IsFiniteSet(live)
  BY <1>1, FS_Subset DEF IsHistory
<1>4. \A k \in DOMAIN g : g[k] \in [at : Nat, amount : Nat]
  BY <1>1, <1>2 DEF IsHistory
<1>5. IsHistory(g)
  <2>1. IsFiniteSet(DOMAIN g)
    BY <1>1, <1>3, FS_AddElement
  <2>2. g = [k \in DOMAIN g |-> g[k]]
    BY DEF Spending!With
  <2> QED
    BY <1>4, <2>1, <2>2 DEF IsHistory
<1>6. ASSUME NEW t \in c - Day .. c
      PROVE  Spending!Total(g, After(g, t)) = Spending!Total(h, After(h, t)) + amount
  <2>1. PICK A : A = After(h, t)
    OBVIOUS
  <2>2. A \subseteq live /\ n \notin A
    BY <2>1 DEF After, IsHistory
  <2>3. After(g, t) = A \cup {n}
    <3>1. n \in After(g, t)
      BY <1>1, <1>2 DEF After
    <3>2. \A k \in live : k \in After(g, t) <=> k \in A
      BY <1>1, <2>1 DEF After
    <3>3. After(g, t) \subseteq live \cup {n}
      BY <1>1 DEF After
    <3> QED
      BY <2>2, <3>1, <3>2, <3>3
  <2>4. IsFiniteSet(A)
    BY <1>3, <2>2, FS_Subset
  <2>5. \A k \in A \cup {n} : g[k].amount \in Nat
    BY <1>1, <1>4, <2>2
  <2>6. Spending!Total(g, A \cup {n}) = Spending!Total(g, A) + g[n].amount
    BY <2>2, <2>4, <2>5, TotalAdd
  <2>7. Spending!Total(g, A) = Spending!Total(h, A)
    BY <1>1, <2>2, <2>4, TotalSame
  <2> QED
    BY <1>2, <2>1, <2>3, <2>6, <2>7
<1> QED
  BY <1>5, <1>6

NotedAs(f, c, left, max) ==
  Spending!With(f, c, [amount |-> (IF c \in DOMAIN f THEN f[c].amount ELSE 0) + left,
  max |-> max])

IsNote(g, f, c, left, max) ==
  /\ IsSpending(g, c) /\ DOMAIN g = DOMAIN f \cup {c}
  /\ g[c].max = max /\ \A at \in DOMAIN f : at # c => g[at] = f[at]
  /\ \A times \in SUBSET (DOMAIN f \ {c}) : Spending!Total(g, times) = Spending!Total(f, times)
  /\ \A times \in SUBSET DOMAIN g, before \in SUBSET DOMAIN f :
       c \in times /\ before = times \cap DOMAIN f =>
         Spending!Total(g, times) = Spending!Total(f, before) + left

(* What leaves now adds to every sum that includes the present.             *)
LEMMA NoteAdds ==
  ASSUME NEW c \in Nat, Day \in Nat, NEW f, IsSpending(f, c), NEW left \in Nat, NEW max \in Nat,
         NEW g, g = NotedAs(f, c, left, max)
  PROVE  IsNote(g, f, c, left, max)
<1>1. PICK was : was = IF c \in DOMAIN f THEN f[c].amount ELSE 0
  OBVIOUS
<1>2. was \in Nat
  BY <1>1 DEF IsSpending
<1>3. /\ DOMAIN g = DOMAIN f \cup {c} /\ g[c] = [amount |-> was + left, max |-> max]
      /\ \A at \in DOMAIN f : at # c => g[at] = f[at]
      /\ g = [at \in DOMAIN g |-> g[at]]
  BY <1>1 DEF NotedAs, Spending!With
<1>4. c \in c - Day .. c
  OBVIOUS
<1>5. \A at \in DOMAIN g : g[at] \in [amount : Nat, max : Nat]
  BY <1>2, <1>3 DEF IsSpending
<1>6. IsSpending(g, c)
  BY <1>3, <1>4, <1>5 DEF IsSpending
<1>7. IsFiniteSet(DOMAIN f)
  <2>1. IsFiniteSet(c - Day .. c)
    BY FS_Interval
  <2> QED
    BY <2>1, FS_Subset DEF IsSpending
<1>8. ASSUME NEW times \in SUBSET (DOMAIN f \ {c})
      PROVE  Spending!Total(g, times) = Spending!Total(f, times)
  <2>1. IsFiniteSet(times) /\ \A at \in times : g[at].amount = f[at].amount
    BY <1>3, <1>7, FS_Subset
  <2> QED
    BY <2>1, TotalSame
<1>9. ASSUME NEW times \in SUBSET DOMAIN g, NEW before \in SUBSET DOMAIN f,
             c \in times, before = times \cap DOMAIN f
      PROVE  Spending!Total(g, times) = Spending!Total(f, before) + left
  <2>1. PICK others : others = times \ {c}
    OBVIOUS
  <2>2. /\ others \in SUBSET (DOMAIN f \ {c}) /\ c \notin others /\ times = others \cup {c}
        /\ IsFiniteSet(others)
    BY <1>3, <1>7, <1>9, <2>1, FS_Subset
  <2>3. Spending!Total(g, times) = Spending!Total(f, others) + (was + left)
    <3>1. \A at \in others \cup {c} : g[at].amount \in Nat
      BY <1>3, <1>5, <2>2
    <3>2. Spending!Total(g, others \cup {c}) = Spending!Total(g, others) + g[c].amount
      BY <2>2, <3>1, TotalAdd
    <3> QED
      BY <1>3, <1>8, <2>2, <3>2
  <2>4. Spending!Total(f, others) \in Nat
    BY <2>2, TotalNat DEF IsSpending
  <2>5. Spending!Total(f, before) = Spending!Total(f, others) + was
    <3>1. CASE c \in DOMAIN f
      <4>1. before = others \cup {c} /\ was = f[c].amount
        BY <1>1, <1>9, <2>2, <3>1
      <4>2. \A at \in others \cup {c} : f[at].amount \in Nat
        BY <2>2, <3>1 DEF IsSpending
      <4>3. Spending!Total(f, others \cup {c}) = Spending!Total(f, others) + f[c].amount
        BY <2>2, <4>2, TotalAdd
      <4> QED
        BY <4>1, <4>3
    <3>2. CASE c \notin DOMAIN f
      <4>1. before = others /\ was = 0
        BY <1>1, <1>9, <2>2, <3>2
      <4> QED
        BY <2>4, <4>1
    <3> QED
      BY <3>1, <3>2
  <2> QED
    BY <1>2, <2>3, <2>4, <2>5
<1>10. g[c].max = max
  BY <1>3
<1> QED
  BY <1>3, <1>6, <1>8, <1>9, <1>10 DEF IsNote

(* Restricting spending to a later day changes no sum within it.            *)
LEMMA RestrictedSame ==
  ASSUME NEW c \in Nat, Day \in Nat, NEW f, IsSpending(f, c), NEW times \in SUBSET DOMAIN f,
         NEW g, g = Spending!Restrict(f, times), NEW some \in SUBSET times
  PROVE  Spending!Total(g, some) = Spending!Total(f, some)
<1>1. IsFiniteSet(some)
  <2>1. IsFiniteSet(c - Day .. c)
    BY FS_Interval
  <2> QED
    BY <2>1, FS_Subset DEF IsSpending
<1>2. \A at \in some : g[at].amount = f[at].amount
  BY DEF Spending!Restrict
<1> QED
  BY <1>1, <1>2, TotalSame


(* A record of a rolling window, with or without something that left.       *)
LEMMA RollingRecorded ==
  ASSUME NEW c \in Nat, Day \in Nat, NEW h, NEW f, RollingOk(c, h, f), RollingWithin(f),
         NEW amount \in Nat, NEW left \in Nat, left <= amount, NEW max \in Nat,
         Spending!Total(h, After(h, c - Day)) + amount <= max,
         NEW n, n \notin After(h, c - Day),
         NEW g, g = Spending!With(Spending!Restrict(h, After(h, c - Day)), n, [at |-> c, amount |-> amount]),
         NEW e, e = f \/ e = NotedAs(f, c, left, max)
  PROVE  RollingOk(c, g, e) /\ RollingWithin(e)
<1>1. /\ IsHistory(g)
      /\ \A t \in c - Day .. c : Spending!Total(g, After(g, t)) = Spending!Total(h, After(h, t)) + amount
  BY RecordAdds DEF RollingOk
<1>2. \A t \in c - Day .. c : /\ Spending!Total(h, After(h, t)) \in Nat /\ Spending!Total(f, Spending!Since(f, t)) \in Nat
                              /\ Spending!Total(f, Spending!Since(f, t)) <= Spending!Total(h, After(h, t))
  <2> SUFFICES ASSUME NEW t \in c - Day .. c
               PROVE  Spending!Total(h, After(h, t)) \in Nat /\ Spending!Total(f, Spending!Since(f, t)) \in Nat
    BY DEF RollingOk
  <2>1. IsFiniteSet(After(h, t)) /\ \A k \in After(h, t) : h[k].amount \in Nat
    BY FS_Subset DEF RollingOk, IsHistory, After
  <2>2. IsFiniteSet(c - Day .. c)
    BY FS_Interval
  <2>3. IsFiniteSet(Spending!Since(f, t)) /\ \A at \in Spending!Since(f, t) : f[at].amount \in Nat
    BY <2>2, FS_Subset DEF RollingOk, IsSpending, Spending!Since
  <2> QED
    BY <2>1, <2>3, TotalNat
<1>3. CASE e = f
  <2>1. IsSpending(f, c)
    BY DEF RollingOk
  <2>2. \A t \in c - Day .. c : Spending!Total(f, Spending!Since(f, t)) <= Spending!Total(g, After(g, t))
    BY <1>1, <1>2
  <2> QED
    BY <1>1, <1>3, <2>1, <2>2, Zenon DEF RollingOk
<1>4. CASE e = NotedAs(f, c, left, max)
  <2>1. /\ IsSpending(e, c) /\ DOMAIN e = DOMAIN f \cup {c} /\ e[c].max = max
        /\ \A times \in SUBSET DOMAIN e, before \in SUBSET DOMAIN f :
             c \in times /\ before = times \cap DOMAIN f =>
               Spending!Total(e, times) = Spending!Total(f, before) + left
    <3>1. IsSpending(f, c)
      BY DEF RollingOk
    <3>2. IsNote(e, f, c, left, max)
      BY <1>4, <3>1, NoteAdds
    <3> QED
      BY <3>2 DEF IsNote
  <2>2. ASSUME NEW t \in c - Day .. c
        PROVE  Spending!Total(e, Spending!Since(e, t)) = Spending!Total(f, Spending!Since(f, t)) + left
    <3>1. Spending!Since(e, t) \in SUBSET DOMAIN e /\ c \in Spending!Since(e, t)
      BY <2>1 DEF Spending!Since
    <3>2. Spending!Since(e, t) \cap DOMAIN f = Spending!Since(f, t) /\ Spending!Since(f, t) \in SUBSET DOMAIN f
      BY <2>1 DEF Spending!Since
    <3> QED
      BY <2>1, <3>1, <3>2
  <2>3. RollingOk(c, g, e)
    BY <1>1, <1>2, <2>1, <2>2 DEF RollingOk
  <2>4. DOMAIN e = Spending!Since(e, c - Day)
    BY <2>1 DEF Spending!Since, IsSpending
  <2>5. c - Day \in c - Day .. c
    OBVIOUS
  <2>6. Spending!Total(e, DOMAIN e) <= e[c].max
    <3>1. Spending!Total(e, DOMAIN e) = Spending!Total(f, Spending!Since(f, c - Day)) + left
      BY <2>2, <2>4, <2>5, Zenon
    <3> QED
      BY <1>2, <2>1, <2>5, <3>1
  <2>7. \A last \in DOMAIN e : (\A at \in DOMAIN e : at <= last) => last = c
    BY <2>1 DEF IsSpending
  <2> QED
    BY <2>3, <2>6, <2>7 DEF RollingWithin
<1> QED
  BY <1>3, <1>4

(* What is spent in the present fixed window.                               *)
FixedSpent(c, spent, reset) == IF c >= reset + Day THEN 0 ELSE spent

(* Adding to what is spent in a fixed window, with or without something     *)
(* that left.  When a window ends, what left in it is what left before the  *)
(* new one; what left before that is older than a day.                      *)
LEMMA FixedRecorded ==
  ASSUME NEW c \in Nat, Day \in Nat \ {0}, NEW spent, NEW reset, NEW f, FixedOk(c, spent, reset, f),
         NEW amount \in Nat, NEW left \in Nat, left <= amount, NEW max \in Nat,
         FixedSpent(c, spent, reset) + amount <= max,
         NEW stamp, stamp = IF c >= reset + Day THEN c ELSE reset,
         NEW e, e = f \/ e = NotedAs(f, c, left, max)
  PROVE  FixedOk(c, FixedSpent(c, spent, reset) + amount, stamp, e)
<1>1. /\ spent \in Nat /\ reset \in Nat /\ reset <= c /\ IsSpending(f, c)
      /\ \A at \in DOMAIN f : at < reset + Day
      /\ Spending!Total(f, InWindow(f, reset, c - Day)) <= spent
      /\ \A t \in c - Day .. c :
           Covered(f, InWindow(f, reset, t)) /\ Covered(f, BeforeWindow(f, reset, t))
  BY DEF FixedOk
<1>2. IsFiniteSet(DOMAIN f) /\ \A at \in DOMAIN f : f[at].amount \in Nat /\ at \in Int /\ at <= c /\ at >= c - Day
  <2>1. IsFiniteSet(c - Day .. c)
    BY FS_Interval
  <2> QED
    BY <1>1, <2>1, FS_Subset DEF IsSpending
<1>3. /\ stamp \in Nat /\ stamp <= c /\ c < stamp + Day
      /\ FixedSpent(c, spent, reset) \in Nat
  BY <1>1 DEF FixedSpent
(* The sums of what left before this record. *)
<1>4. /\ Spending!Total(f, InWindow(f, stamp, c - Day)) <= FixedSpent(c, spent, reset)
      /\ \A t \in c - Day .. c :
           /\ Covered(f, InWindow(f, stamp, t)) /\ Covered(f, BeforeWindow(f, stamp, t))
           /\ Spending!Total(f, InWindow(f, stamp, t)) \in Nat
           /\ Spending!Total(f, InWindow(f, stamp, t)) <= FixedSpent(c, spent, reset)
  <2>1. CASE c >= reset + Day
    <3>1. stamp = c /\ FixedSpent(c, spent, reset) = 0
      BY <2>1 DEF FixedSpent
    <3>2. \A t \in c - Day .. c : InWindow(f, stamp, t) = {}
      BY <1>1, <1>2, <2>1, <3>1 DEF InWindow
    <3>3. \A t \in c - Day .. c : BeforeWindow(f, stamp, t) = InWindow(f, reset, t)
      BY <1>1, <1>2, <2>1, <3>1 DEF InWindow, BeforeWindow
    <3>4. Spending!Total(f, {}) = 0 /\ c - Day \in c - Day .. c
      BY TotalEmpty
    <3>5. \A t \in c - Day .. c :
            Spending!Total(f, InWindow(f, stamp, t)) = 0 /\ Covered(f, InWindow(f, stamp,
            t))
      BY <3>2, <3>4 DEF Covered
    <3>6. \A t \in c - Day .. c : Covered(f, BeforeWindow(f, stamp, t))
      BY <1>1, <3>3, Zenon
    <3> QED
      BY <3>1, <3>4, <3>5, <3>6
  <2>2. CASE ~(c >= reset + Day)
    <3>1. stamp = reset /\ FixedSpent(c, spent, reset) = spent
      BY <2>2 DEF FixedSpent
    <3>2. ASSUME NEW t \in c - Day .. c
          PROVE  /\ Spending!Total(f, InWindow(f, stamp, t)) \in Nat
                 /\ Spending!Total(f, InWindow(f, stamp, t)) <= spent
      <4>1. PICK all : all = InWindow(f, stamp, c - Day)
        OBVIOUS
      <4>2. /\ IsFiniteSet(all) /\ InWindow(f, stamp, t) \in SUBSET all
            /\ IsFiniteSet(InWindow(f, stamp, t)) /\ all \subseteq DOMAIN f
        BY <1>2, <4>1, FS_Subset DEF InWindow
      <4>3. Spending!Total(f, InWindow(f, stamp, t)) <= Spending!Total(f, all)
        BY <1>2, <4>2, TotalMonotone
      <4>4. Spending!Total(f, InWindow(f, stamp, t)) \in Nat /\ Spending!Total(f, all) \in Nat
        BY <1>2, <4>2, TotalNat
      <4>5. Spending!Total(f, all) <= spent
        BY <1>1, <3>1, <4>1
      <4> QED
        BY <1>1, <4>3, <4>4, <4>5
    <3> QED
      BY <1>1, <3>1, <3>2
  <2> QED
    BY <2>1, <2>2
<1>5. \A at \in DOMAIN f : at < stamp + Day
  BY <1>1, <1>2, <1>3
<1>6. CASE e = f
  BY <1>1, <1>3, <1>4, <1>5, <1>6 DEF FixedOk
<1>7. CASE e = NotedAs(f, c, left, max)
  <2>1. /\ IsSpending(e, c) /\ DOMAIN e = DOMAIN f \cup {c} /\ e[c].max = max
        /\ \A at \in DOMAIN f : at # c => e[at] = f[at]
        /\ \A times \in SUBSET (DOMAIN f \ {c}) : Spending!Total(e, times) = Spending!Total(f, times)
        /\ \A times \in SUBSET DOMAIN e, before \in SUBSET DOMAIN f :
             c \in times /\ before = times \cap DOMAIN f =>
               Spending!Total(e, times) = Spending!Total(f, before) + left
    <3>1. IsSpending(f, c) /\ Day \in Nat
      BY <1>1
    <3>2. IsNote(e, f, c, left, max)
      BY <1>7, <3>1, NoteAdds
    <3> QED
      BY <3>2 DEF IsNote
  <2>2. ASSUME NEW t \in c - Day .. c
        PROVE  /\ c \in InWindow(e, stamp, t)
               /\ Spending!Total(e, InWindow(e, stamp, t)) = Spending!Total(f, InWindow(f, stamp, t)) + left
    <3>1. InWindow(e, stamp, t) \in SUBSET DOMAIN e /\ c \in InWindow(e, stamp, t)
      BY <1>3, <2>1 DEF InWindow
    <3>2. /\ InWindow(e, stamp, t) \cap DOMAIN f = InWindow(f, stamp, t)
          /\ InWindow(f, stamp, t) \in SUBSET DOMAIN f
      BY <2>1 DEF InWindow
    <3> QED
      BY <2>1, <3>1, <3>2
  <2>3. ASSUME NEW t \in c - Day .. c PROVE Covered(e, InWindow(e, stamp, t))
    <3>1. Spending!Total(e, InWindow(e, stamp, t)) <= e[c].max
      BY <1>3, <1>4, <2>1, <2>2
    <3> QED
      BY <2>2, <3>1 DEF Covered
  <2>4. ASSUME NEW t \in c - Day .. c PROVE Covered(e, BeforeWindow(e, stamp, t))
    <3>1. BeforeWindow(e, stamp, t) = BeforeWindow(f, stamp, t)
      BY <1>3, <2>1 DEF BeforeWindow
    <3>2. BeforeWindow(f, stamp, t) \in SUBSET (DOMAIN f \ {c})
      BY <1>3 DEF BeforeWindow
    <3>3. Covered(f, BeforeWindow(f, stamp, t))
      BY <1>4
    <3>4. PICK times : times = BeforeWindow(f, stamp, t)
      OBVIOUS
    <3>5. Spending!Total(e, times) = Spending!Total(f, times) /\ \A at \in times : e[at] = f[at]
      BY <2>1, <3>2, <3>4
    <3> QED
      BY <3>1, <3>3, <3>4, <3>5 DEF Covered
  <2>5. Spending!Total(e, InWindow(e, stamp, c - Day)) <= FixedSpent(c, spent, reset) + amount
    <3>1. c - Day \in c - Day .. c
      OBVIOUS
    <3> QED
      BY <1>3, <1>4, <2>2, <3>1
  <2>6. \A at \in DOMAIN e : at < stamp + Day
    BY <1>3, <1>5, <2>1
  <2> QED
    BY <1>3, <2>1, <2>3, <2>4, <2>5, <2>6 DEF FixedOk
<1> QED
  BY <1>6, <1>7


(* There is room for a record, and so a key that no record has.             *)
LEMMA UnusedKey ==
  ASSUME MaxHistory \in Nat, NEW live, IsFiniteSet(live), Cardinality(live) < MaxHistory
  PROVE  (CHOOSE k \in 1 .. MaxHistory : k \notin live) \notin live
<1>1. \E k \in 1 .. MaxHistory : k \notin live
  <2> SUFFICES ASSUME 1 .. MaxHistory \subseteq live PROVE FALSE
    OBVIOUS
  <2>1. Cardinality(1 .. MaxHistory) = MaxHistory
    BY FS_Interval
  <2>2. Cardinality(1 .. MaxHistory) <= Cardinality(live) /\ Cardinality(live) \in Nat
    BY FS_Subset, FS_CardinalityType
  <2> QED
    BY <2>1, <2>2
<1> QED
  BY <1>1

(* The records of what left, with this one in the kind of window that the   *)
(* limit has.                                                               *)
NotedIn(s, d, left) ==
  IF d.limit.rolling
  THEN [s EXCEPT !.rolling = NotedAs(@, clock, left, d.limit.max)]
  ELSE [s EXCEPT !.fixed = NotedAs(@, clock, left, d.limit.max)]

(* Recording what an operation took out, noted or not.                      *)
LEMMA Recording ==
  ASSUME LimitsAssumption, clock \in Nat,
         LimitsOk(clock, daily, spends), RollingWithin(spends.rolling),
         spends = [rolling |-> spends.rolling, fixed |-> spends.fixed],
         daily.limit # None, NEW amount \in Nat, Spending!Admits(amount),
         NEW d, d = Spending!Recorded(amount),
         NEW left \in Nat, left <= amount,
         NEW s, s = spends \/ s = NotedIn(spends, daily, left)
  PROVE  LimitsOk(clock, d, s) /\ RollingWithin(s.rolling)
<1>1. /\ daily = [limit |-> daily.limit, spent |-> daily.spent, lastReset |-> daily.lastReset,
                  history |-> daily.history, snapshot |-> daily.snapshot]
      /\ daily.limit.max \in Nat /\ daily.limit.rolling \in BOOLEAN
      /\ RollingOk(clock, daily.history, spends.rolling)
      /\ FixedOk(clock, daily.spent, daily.lastReset, spends.fixed)
      /\ Day \in Nat /\ Day \in Nat \ {0} /\ MaxHistory \in Nat
  BY DEF LimitsOk, LimitsAssumption, SpendingAssumption
<1>2. CASE daily.limit.rolling
  <2>1. PICK live : live = After(daily.history, clock - Day)
    OBVIOUS
  <2>2. Spending!Live(daily.history) = live
    BY <2>1 DEF Spending!Live, After
  <2>3. IsFiniteSet(live)
    BY <1>1, <2>1, FS_Subset DEF RollingOk, IsHistory, After
  <2>4. /\ Spending!Total(daily.history, live) + amount <= daily.limit.max
        /\ Cardinality(live) < MaxHistory
    BY <1>2, <2>2, SpendingSize DEF Spending!Admits, Spending!RollingWindowSpent
  <2>5. PICK n : n = CHOOSE k \in 1 .. MaxHistory : k \notin live
    OBVIOUS
  <2>6. n \notin live
    BY <1>1, <2>3, <2>4, <2>5, UnusedKey
  <2>7. PICK g : g = Spending!With(Spending!Restrict(daily.history, live), n, [at |-> clock, amount |-> amount])
    OBVIOUS
  <2>8. Spending!RecordTransaction(amount) = g
    <3>1. DOMAIN Spending!Restrict(daily.history, live) = live
      BY DEF Spending!Restrict
    <3> QED
      BY <2>2, <2>5, <2>7, <3>1, Zenon DEF Spending!RecordTransaction
  <2>9. d = [daily EXCEPT !.snapshot = None, !.history = g]
    BY <1>2, <2>8, Zenon DEF Spending!Recorded
  <2>10. /\ d = [limit |-> daily.limit, spent |-> daily.spent, lastReset |-> daily.lastReset,
                 history |-> g, snapshot |-> None]
    BY <1>1, <2>9
  <2>11. /\ s.fixed = spends.fixed
         /\ \/ s.rolling = spends.rolling
            \/ s.rolling = NotedAs(spends.rolling, clock, left, daily.limit.max)
    BY <1>2 DEF NotedIn
  <2>12. RollingOk(clock, g, s.rolling) /\ RollingWithin(s.rolling)
    BY <1>1, <2>1, <2>4, <2>6, <2>7, <2>11, RollingRecorded
  <2> QED
    BY <1>1, <2>10, <2>11, <2>12 DEF LimitsOk
<1>3. CASE ~daily.limit.rolling
  <2>1. Spending!FixedWindowSpent = FixedSpent(clock, daily.spent, daily.lastReset)
    BY DEF Spending!FixedWindowSpent, Spending!WindowIsOver, FixedSpent
  <2>2. FixedSpent(clock, daily.spent, daily.lastReset) + amount <= daily.limit.max
    BY <1>3, <2>1 DEF Spending!Admits
  <2>3. PICK stamp : stamp = IF clock >= daily.lastReset + Day THEN clock ELSE daily.lastReset
    OBVIOUS
  <2>4. d = [daily EXCEPT !.snapshot = None,
               !.spent = FixedSpent(clock, daily.spent, daily.lastReset) + amount,
               !.lastReset = stamp]
    BY <1>1, <1>3, <2>1, <2>3 DEF Spending!Recorded, Spending!WindowIsOver
  <2>5. d = [limit |-> daily.limit,
             spent |-> FixedSpent(clock, daily.spent, daily.lastReset) + amount,
             lastReset |-> stamp, history |-> daily.history, snapshot |-> None]
    BY <1>1, <2>4
  <2>6. /\ s.rolling = spends.rolling
        /\ \/ s.fixed = spends.fixed
           \/ s.fixed = NotedAs(spends.fixed, clock, left, daily.limit.max)
    BY <1>3 DEF NotedIn
  <2>7. FixedOk(clock, FixedSpent(clock, daily.spent, daily.lastReset) + amount, stamp, s.fixed)
    BY <1>1, <2>2, <2>3, <2>6, FixedRecorded
  <2> QED
    BY <1>1, <2>5, <2>6, <2>7 DEF LimitsOk
<1> QED
  BY <1>2, <1>3

(* What the hook's postExecute leaves, if nothing is noted.                 *)
LEMMA Metered ==
  ASSUME LimitsAssumption, clock \in Nat, balance \in Nat,
         LimitsOk(clock, daily, spends), RollingWithin(spends.rolling),
         spends = [rolling |-> spends.rolling, fixed |-> spends.fixed],
         NEW declared \in Nat, Spending!PostExecute(declared)
  PROVE  LimitsOk(clock, daily', spends) /\ (daily'.snapshot = daily.snapshot \/ daily'.snapshot = None)
<1>1. CASE daily.limit = None \/ daily.snapshot = None
  BY <1>1 DEF Spending!PostExecute
<1>2. CASE daily.limit # None /\ daily.snapshot # None
  <2>1. daily.snapshot \in Nat
    BY <1>2 DEF LimitsOk
  <2>2. PICK outflow : outflow = IF declared > daily.snapshot - balance
                                 THEN declared ELSE daily.snapshot - balance
    OBVIOUS
  <2>3. IF outflow <= 0 THEN daily' = [daily EXCEPT !.snapshot = None]
        ELSE Spending!Admits(outflow) /\ daily' = Spending!Recorded(outflow)
    BY <1>2, <2>2 DEF Spending!PostExecute
  <2>4. CASE outflow <= 0
    BY <2>3, <2>4 DEF LimitsOk
  <2>5. CASE ~(outflow <= 0)
    <3>1. outflow \in Nat /\ 0 \in Nat /\ 0 <= outflow
      BY <2>1, <2>2, <2>5
    <3>2. LimitsOk(clock, daily', spends)
      BY <1>2, <2>3, <2>5, <3>1, Recording
    <3>3. daily'.snapshot = None
      BY <2>3, <2>5 DEF Spending!Recorded, LimitsOk
    <3> QED
      BY <3>2, <3>3
  <2> QED
    BY <2>4, <2>5
<1> QED
  BY <1>1, <1>2

(* With time, spending leaves the last day, and fewer records count.        *)
LEMMA LimitsTick ==
  ASSUME NEW c \in Nat, Day \in Nat \ {0}, NEW d, NEW s, LimitsOk(c, d, s),
         RollingWithin(s.rolling),
         NEW z, z = [rolling |-> Spending!Restrict(s.rolling, Spending!Since(s.rolling, c + 1 - Day)),
                     fixed |-> Spending!Restrict(s.fixed, Spending!Since(s.fixed, c + 1 - Day))]
  PROVE  LimitsOk(c + 1, d, z) /\ RollingWithin(z.rolling)
<1>1. ASSUME NEW f, IsSpending(f, c), NEW g, g = Spending!Restrict(f, Spending!Since(f, c + 1 - Day))
      PROVE  /\ IsSpending(g, c + 1) /\ DOMAIN g = Spending!Since(f, c + 1 - Day)
             /\ \A at \in DOMAIN g : g[at] = f[at]
             /\ \A times \in SUBSET DOMAIN g : Spending!Total(g, times) = Spending!Total(f, times)
  <2>1. DOMAIN g = Spending!Since(f, c + 1 - Day) /\ DOMAIN g \subseteq DOMAIN f
    BY <1>1 DEF Spending!Restrict, Spending!Since
  <2>2. \A at \in DOMAIN g : g[at] = f[at]
    BY <1>1 DEF Spending!Restrict
  <2>3. DOMAIN g \subseteq c + 1 - Day .. c + 1
    <3> SUFFICES ASSUME NEW at \in DOMAIN g PROVE at \in c + 1 - Day .. c + 1
      OBVIOUS
    <3>1. at \in c - Day .. c
      BY <1>1, <2>1 DEF IsSpending
    <3>2. at >= c + 1 - Day
      BY <2>1 DEF Spending!Since
    <3> QED
      BY <3>1, <3>2
  <2>4. g \in [DOMAIN g -> [amount : Nat, max : Nat]]
    <3>1. g = [at \in DOMAIN g |-> g[at]]
      BY <1>1 DEF Spending!Restrict
    <3>2. \A at \in DOMAIN g : g[at] \in [amount : Nat, max : Nat]
      BY <1>1, <2>1, <2>2 DEF IsSpending
    <3> QED
      BY <3>1, <3>2
  <2>5. \A times \in SUBSET DOMAIN g : Spending!Total(g, times) = Spending!Total(f, times)
    BY <1>1, <2>1, RestrictedSame
  <2> QED
    BY <2>1, <2>2, <2>3, <2>4, <2>5 DEF IsSpending
<1>2. /\ RollingOk(c, d.history, s.rolling) /\ IsSpending(s.rolling, c)
      /\ FixedOk(c, d.spent, d.lastReset, s.fixed) /\ IsSpending(s.fixed, c)
  BY DEF LimitsOk, RollingOk, FixedOk
<1>3. PICK f : f = s.rolling
  OBVIOUS
<1>4. PICK g : g = z.rolling
  OBVIOUS
<1>5. /\ IsSpending(g, c + 1) /\ DOMAIN g = Spending!Since(f, c + 1 - Day)
      /\ \A at \in DOMAIN g : g[at] = f[at]
      /\ \A times \in SUBSET DOMAIN g : Spending!Total(g, times) = Spending!Total(f, times)
  <2>1. IsSpending(f, c) /\ g = Spending!Restrict(f, Spending!Since(f, c + 1 - Day))
    BY <1>2, <1>3, <1>4
  <2> QED
    BY <1>1, <2>1
<1>6. RollingOk(c + 1, d.history, g)
  <2> SUFFICES ASSUME NEW t \in c + 1 - Day .. c + 1
               PROVE  Spending!Total(g, Spending!Since(g, t)) <= Spending!Total(d.history, After(d.history, t))
    BY <1>2, <1>5 DEF RollingOk
  <2>1. CASE t \in c - Day .. c
    <3>1. Spending!Since(g, t) = Spending!Since(f, t) /\ Spending!Since(g, t) \in SUBSET DOMAIN g
      BY <1>2, <1>3, <1>5 DEF Spending!Since, IsSpending
    <3>2. Spending!Total(g, Spending!Since(g, t)) = Spending!Total(f, Spending!Since(f, t))
      BY <1>5, <3>1
    <3> QED
      BY <1>2, <1>3, <2>1, <3>2 DEF RollingOk
  <2>2. CASE t = c + 1
    <3>1. Spending!Since(g, t) = {}
      BY <1>2, <1>3, <1>5, <2>2 DEF Spending!Since, IsSpending
    <3>2. Spending!Total(d.history, After(d.history, t)) \in Nat
      <4>1. /\ IsFiniteSet(After(d.history, t))
            /\ \A k \in After(d.history, t) : d.history[k].amount \in Nat
        BY <1>2, FS_Subset DEF RollingOk, IsHistory, After
      <4> QED
        BY <4>1, TotalNat
    <3> QED
      BY <3>1, <3>2, TotalEmpty
  <2> QED
    BY <2>1, <2>2
<1>7. RollingWithin(g)
  <2> SUFFICES ASSUME NEW last \in DOMAIN g, \A at \in DOMAIN g : at <= last
               PROVE  Spending!Total(g, DOMAIN g) <= g[last].max
    BY DEF RollingWithin
  <2>1. last \in DOMAIN f /\ DOMAIN g \subseteq DOMAIN f
    BY <1>5 DEF Spending!Since
  <2>2. \A at \in DOMAIN f : at <= last
    BY <1>2, <1>3, <1>5, <2>1 DEF Spending!Since, IsSpending
  <2>3. Spending!Total(f, DOMAIN f) <= f[last].max
    BY <1>3, <2>1, <2>2 DEF RollingWithin
  <2>4. IsFiniteSet(DOMAIN f) /\ \A at \in DOMAIN f : f[at].amount \in Nat /\ f[at].max \in Nat
    <3>1. IsFiniteSet(c - Day .. c)
      <4>1. c - Day \in Int /\ c \in Int
        OBVIOUS
      <4> QED
        BY ONLY <4>1, FS_Interval
    <3> QED
      BY <1>2, <1>3, <3>1, FS_Subset DEF IsSpending
  <2>5. Spending!Total(f, DOMAIN g) <= Spending!Total(f, DOMAIN f) /\ Spending!Total(f, DOMAIN f) \in Nat
    BY <2>1, <2>4, TotalMonotone, TotalNat
  <2>6. Spending!Total(f, DOMAIN g) \in Nat
    BY <2>1, <2>4, FS_Subset, TotalNat
  <2>7. Spending!Total(g, DOMAIN g) = Spending!Total(f, DOMAIN g) /\ g[last] = f[last]
    BY <1>5
  <2> QED
    BY <2>1, <2>3, <2>4, <2>5, <2>6, <2>7
<1>8. PICK p : p = s.fixed
  OBVIOUS
<1>9. PICK q : q = z.fixed
  OBVIOUS
<1>10. /\ IsSpending(q, c + 1) /\ DOMAIN q = Spending!Since(p, c + 1 - Day)
       /\ \A at \in DOMAIN q : q[at] = p[at]
       /\ \A times \in SUBSET DOMAIN q : Spending!Total(q, times) = Spending!Total(p, times)
  <2>1. IsSpending(p, c) /\ q = Spending!Restrict(p, Spending!Since(p, c + 1 - Day))
    BY <1>2, <1>8, <1>9
  <2> QED
    BY <1>1, <2>1
<1>11. FixedOk(c + 1, d.spent, d.lastReset, q)
  <2>1. PICK r : r = d.lastReset
    OBVIOUS
  <2>2. /\ d.spent \in Nat /\ r \in Nat /\ r <= c /\ IsSpending(p, c)
        /\ \A at \in DOMAIN p : at < r + Day
        /\ Spending!Total(p, InWindow(p, r, c - Day)) <= d.spent
        /\ \A t \in c - Day .. c :
             Covered(p, InWindow(p, r, t)) /\ Covered(p, BeforeWindow(p, r, t))
    BY <1>2, <1>8, <2>1 DEF FixedOk
  <2>3. DOMAIN q \subseteq DOMAIN p
    BY <1>10 DEF Spending!Since
  <2>4. ASSUME NEW times \in SUBSET DOMAIN q, Covered(p, times) PROVE Covered(q, times)
    <3>1. Spending!Total(q, times) = Spending!Total(p, times) /\ \A at \in times : q[at] = p[at]
      BY <1>10
    <3> QED
      BY <2>4, <3>1 DEF Covered
  <2>5. ASSUME NEW t \in c + 1 - Day .. c
        PROVE  /\ InWindow(q, r, t) = InWindow(p, r, t) /\ InWindow(q, r, t) \in SUBSET DOMAIN q
               /\ BeforeWindow(q, r, t) = BeforeWindow(p, r, t)
               /\ BeforeWindow(q, r, t) \in SUBSET DOMAIN q
    BY <1>10, <2>2 DEF InWindow, BeforeWindow, Spending!Since, IsSpending
  <2>6. InWindow(q, r, c + 1) = {} /\ BeforeWindow(q, r, c + 1) = {}
    BY <2>2, <2>3 DEF InWindow, BeforeWindow, IsSpending
  <2>7. ASSUME NEW t \in c + 1 - Day .. c + 1
        PROVE  Covered(q, InWindow(q, r, t)) /\ Covered(q, BeforeWindow(q, r, t))
    <3>1. CASE t = c + 1
      BY <2>6, <3>1 DEF Covered
    <3>2. CASE t \in c + 1 - Day .. c
      <4>1. t \in c - Day .. c
        BY <3>2
      <4> QED
        BY <2>2, <2>4, <2>5, <3>2, <4>1, Zenon
    <3> QED
      BY <3>1, <3>2
  <2>8. Spending!Total(q, InWindow(q, r, c + 1 - Day)) <= d.spent
    <3>1. c + 1 - Day \in c + 1 - Day .. c
      OBVIOUS
    <3>2. Spending!Total(q, InWindow(q, r, c + 1 - Day)) = Spending!Total(p, InWindow(p, r, c + 1 - Day))
      <4>1. PICK t \in c + 1 - Day .. c : t = c + 1 - Day
        BY <3>1
      <4>2. InWindow(q, r, t) = InWindow(p, r, t) /\ InWindow(q, r, t) \in SUBSET DOMAIN q
        BY <2>5
      <4>3. Spending!Total(q, InWindow(q, r, t)) = Spending!Total(p, InWindow(q, r, t))
        BY <1>10, <4>2
      <4> QED
        BY <4>1, <4>2, <4>3
    <3>3. /\ IsFiniteSet(InWindow(p, r, c - Day))
          /\ \A at \in InWindow(p, r, c - Day) : p[at].amount \in Nat
      <4>1. IsFiniteSet(c - Day .. c)
        <5>1. c - Day \in Int /\ c \in Int
          OBVIOUS
        <5> QED
          BY <5>1, FS_Interval
      <4> QED
        BY <2>2, <4>1, FS_Subset DEF IsSpending, InWindow
    <3>4. InWindow(p, r, c + 1 - Day) \in SUBSET InWindow(p, r, c - Day)
      BY <2>2 DEF InWindow, IsSpending
    <3>5. Spending!Total(p, InWindow(p, r, c + 1 - Day)) <= Spending!Total(p, InWindow(p, r, c - Day))
      BY <3>3, <3>4, TotalMonotone
    <3>6. Spending!Total(p, InWindow(p, r, c + 1 - Day)) \in Nat /\ Spending!Total(p, InWindow(p, r, c - Day)) \in Nat
      BY <3>3, <3>4, FS_Subset, TotalNat
    <3> QED
      BY <2>2, <3>2, <3>5, <3>6
  <2>9. \A at \in DOMAIN q : at < r + Day
    BY <2>2, <2>3
  <2> QED
    BY <1>10, <2>1, <2>2, <2>7, <2>8, <2>9 DEF FixedOk
<1> QED
  BY <1>4, <1>6, <1>7, <1>9, <1>11 DEF LimitsOk


(* Without records nothing has left.                                        *)
LEMMA NothingLeft ==
  ASSUME NEW c \in Nat, Day \in Nat
  PROVE  RollingOk(c, <<>>, <<>>) /\ RollingWithin(<<>>) /\ FixedOk(c, 0, 0, <<>>)
<1>1. PICK f : f = <<>>
  OBVIOUS
<1>2. DOMAIN f = {} /\ f = [k \in {} |-> f[k]]
  BY <1>1
<1>3. IsHistory(f) /\ IsSpending(f, c)
  <2>1. IsFiniteSet({})
    BY FS_EmptySet
  <2>2. \A T : f \in [{} -> T]
    BY <1>2
  <2> QED
    BY <1>2, <2>1, <2>2 DEF IsHistory, IsSpending
<1>4. \A t : /\ Spending!Since(f, t) = {} /\ After(f, t) = {}
             /\ InWindow(f, 0, t) = {} /\ BeforeWindow(f, 0, t) = {}
  BY <1>2 DEF Spending!Since, After, InWindow, BeforeWindow
<1>5. Spending!Total(f, {}) = 0
  BY TotalEmpty
<1>6. RollingOk(c, f, f) /\ RollingWithin(f)
  <2>1. \A t : Spending!Total(f, Spending!Since(f, t)) = 0 /\ Spending!Total(f, After(f, t)) = 0
    BY <1>4, <1>5
  <2>2. RollingOk(c, f, f)
    BY <1>3, <2>1 DEF RollingOk
  <2>3. RollingWithin(f)
    BY <1>2 DEF RollingWithin
  <2> QED
    BY <2>2, <2>3
<1>7. FixedOk(c, 0, 0, f)
  <2>1. \A t : Covered(f, InWindow(f, 0, t)) /\ Covered(f, BeforeWindow(f, 0, t))
    BY <1>4, Zenon DEF Covered
  <2>2. Spending!Total(f, InWindow(f, 0, c - Day)) = 0
    BY <1>4, <1>5, Zenon
  <2>3. \A at \in DOMAIN f : at < 0 + Day
    BY <1>2, Zenon
  <2>4. 0 \in Nat /\ 0 <= c
    OBVIOUS
  <2> QED
    BY <1>3, <2>1, <2>2, <2>3, <2>4 DEF FixedOk
<1> QED
  BY <1>1, <1>6, <1>7

(* Setting, removing and clearing a limit.                                  *)
LEMMA ConfigureLimits ==
  ASSUME LimitsAssumption, OpInv, LimitsInv, Spending!Configure
  PROVE  LimitsInv'
<1>1. /\ clock \in Nat /\ Day \in Nat /\ Limit \subseteq Nat
      /\ LimitsOk(clock, daily, spends) /\ RollingWithin(spends.rolling)
      /\ spends = [rolling |-> spends.rolling, fixed |-> spends.fixed]
  BY DEF OpInv, LimitsAssumption, SpendingAssumption, LimitsInv
<1>2. UNCHANGED <<clock, installed, balance, op>>
  BY ConfigureKeepsOp
<1>3. CASE UNCHANGED <<daily, spends>>
  BY <1>2, <1>3, Zenon DEF LimitsInv
<1>4. ASSUME op = None, LimitsOk(clock, daily', spends'), RollingWithin(spends'.rolling),
             spends' = [rolling |-> spends'.rolling, fixed |-> spends'.fixed]
      PROVE  LimitsInv'
  BY <1>2, <1>4, Zenon DEF LimitsInv
<1>5. ASSUME NEW max \in Limit, NEW rolling \in BOOLEAN, Spending!SetDailyLimit(max, rolling)
      PROVE  LimitsInv'
  <2>1. /\ op = None /\ daily' = [daily EXCEPT !.limit = [max |-> max, rolling |-> rolling]]
        /\ spends' = spends
    BY <1>5, Zenon DEF Spending!SetDailyLimit, Spending!Idle, Spending!ledger
  <2>2. LimitsOk(clock, daily', spends)
    BY <1>1, <2>1 DEF LimitsOk
  <2> QED
    BY <1>1, <1>4, <2>1, <2>2
<1>6. CASE Spending!RemoveDailyLimit
  <2>1. /\ op = None /\ daily' = [daily EXCEPT !.limit = None, !.history = <<>>]
        /\ spends' = [spends EXCEPT !.rolling = <<>>]
    BY <1>6, Zenon DEF Spending!RemoveDailyLimit, Spending!Idle
  <2>2. /\ spends'.rolling = <<>> /\ spends'.fixed = spends.fixed
        /\ spends' = [rolling |-> spends'.rolling, fixed |-> spends'.fixed]
    BY <1>1, <2>1
  <2>3. /\ daily' = [limit |-> None, spent |-> daily.spent, lastReset |-> daily.lastReset,
                     history |-> <<>>, snapshot |-> daily.snapshot]
    BY <1>1, <2>1 DEF LimitsOk
  <2>4. RollingOk(clock, <<>>, <<>>) /\ RollingWithin(<<>>)
    BY <1>1, NothingLeft
  <2>5. LimitsOk(clock, daily', spends') /\ RollingWithin(spends'.rolling)
    BY <1>1, <2>2, <2>3, <2>4 DEF LimitsOk
  <2> QED
    BY <1>4, <2>1, <2>2, <2>5
<1>7. CASE Spending!ClearHookAccount
  <2>1. op = None /\ daily' = Spending!NoDaily /\ spends' = Spending!NoSpends
    BY <1>7, Zenon DEF Spending!ClearHookAccount, Spending!Idle
  <2>2. /\ RollingOk(clock, <<>>, <<>>) /\ RollingWithin(<<>>) /\ FixedOk(clock, 0, 0, <<>>)
    BY <1>1, NothingLeft
  <2>3. LimitsOk(clock, Spending!NoDaily, Spending!NoSpends) /\ RollingWithin(Spending!NoSpends.rolling)
    BY <2>2 DEF LimitsOk, Spending!NoDaily, Spending!NoSpends
  <2>4. Spending!NoSpends = [rolling |-> Spending!NoSpends.rolling, fixed |-> Spending!NoSpends.fixed]
    BY DEF Spending!NoSpends
  <2> QED
    BY <1>4, <2>1, <2>3, <2>4
<1>8. CASE \/ \E cap \in Cap, method \in {"transfer", "*"}, until \in clock + 1 .. MaxClock :
                Spending!SetSessionKey(cap, method, until)
           \/ Spending!ClearSessionKey \/ Spending!ClearSubscriptions
           \/ \E plan \in Plan : Spending!CreateSubscription(plan)
  <2>1. UNCHANGED <<daily, spends>>
    BY <1>8, Zenon DEF Spending!SetSessionKey, Spending!ClearSessionKey,
      Spending!ClearSubscriptions, Spending!CreateSubscription, Spending!ledger
  <2> QED
    BY <1>3, <2>1
<1> QED
  BY <1>5, <1>6, <1>7, <1>8, Zenon DEF Spending!Configure

(* What left is what postExecute of the hook saw.                           *)
LEMMA FinishLimits ==
  ASSUME LimitsAssumption, OpInv, LimitsInv, Spending!Finish
  PROVE  LimitsInv'
<1>1. /\ clock \in Nat /\ balance \in Nat /\ None \notin Nat
      /\ LimitsOk(clock, daily, spends) /\ RollingWithin(spends.rolling)
      /\ spends = [rolling |-> spends.rolling, fixed |-> spends.fixed]
  BY DEF OpInv, LimitsAssumption, SpendingAssumption, LimitsInv
<1>2. /\ op # None /\ op' = None /\ UNCHANGED <<clock, balance>>
      /\ op.saved.balance \in Nat /\ op.amount \in Nat
      /\ IF op.call = "hook" THEN balance >= op.saved.balance
         ELSE daily.limit # None => daily.snapshot = op.saved.balance
  <2>1. /\ op # None /\ op' = None /\ UNCHANGED <<clock, balance>>
    BY Zenon DEF Spending!Finish, Spending!Idle
  <2> QED
    BY <2>1 DEF OpInv, IsOperation, LimitsInv
<1> DEFINE moved == op.call = "transfer" /\ op.returned
           declared == IF moved THEN op.amount ELSE 0
<1>3. Spending!PostExecute(declared)
  BY Zenon DEF Spending!Finish
<1>4. spends' = IF daily.limit = None \/ Spending!Leaves <= 0 THEN spends ELSE NotedIn(spends, daily, Spending!Leaves)
  BY Zenon DEF Spending!Finish, NotedIn, Spending!Noted, NotedAs
<1>5. Spending!Leaves = LET missing == op.saved.balance - balance
               IN IF moved /\ op.amount > missing THEN op.amount ELSE missing
  BY Zenon DEF Spending!Leaves
<1>6. moved => op.call = "transfer"
  OBVIOUS
<1> HIDE DEF moved
<1>7. declared \in Nat
  BY <1>2
<1>8. CASE daily.limit = None \/ Spending!Leaves <= 0
  <2>1. LimitsOk(clock, daily', spends) /\ spends' = spends
    BY <1>1, <1>3, <1>4, <1>7, <1>8, Metered
  <2> QED
    BY <1>1, <1>2, <2>1, Zenon DEF LimitsInv
<1>9. CASE daily.limit # None /\ ~(Spending!Leaves <= 0)
  <2>1. op.call # "hook"
    BY <1>1, <1>2, <1>5, <1>6, <1>9
  <2>2. daily.snapshot = op.saved.balance /\ daily.snapshot # None
    BY <1>1, <1>2, <1>9, <2>1
  <2>3. Spending!Leaves = IF declared > daily.snapshot - balance THEN declared ELSE daily.snapshot - balance
    BY <1>1, <1>2, <1>5, <1>9, <2>2
  <2>4. Spending!Leaves \in Nat
    BY <1>1, <1>2, <1>5, <1>9
  <2>5. Spending!Admits(Spending!Leaves) /\ daily' = Spending!Recorded(Spending!Leaves)
    BY <1>3, <1>9, <2>2, <2>3, Zenon DEF Spending!PostExecute
  <2>6. spends' = NotedIn(spends, daily, Spending!Leaves)
    BY <1>4, <1>9
  <2>7. LimitsOk(clock, daily', spends') /\ RollingWithin(spends'.rolling)
    BY <1>1, <1>9, <2>4, <2>5, <2>6, Recording
  <2>8. spends' = [rolling |-> spends'.rolling, fixed |-> spends'.fixed]
    BY <1>1, <2>6 DEF NotedIn
  <2> QED
    BY <1>1, <1>2, <2>7, <2>8, Zenon DEF LimitsInv
<1> QED
  BY <1>8, <1>9

(* Every step keeps the invariant of limits.                                *)
LEMMA LimitsStep ==
  ASSUME LimitsAssumption, OpInv, LimitsInv, [Spending!Next]_(Spending!vars)
  PROVE  LimitsInv'
<1>1. /\ clock \in Nat /\ balance \in Nat /\ None \notin Nat /\ SpendingAssumption
      /\ Day \in Nat \ {0} /\ Value \subseteq Nat
      /\ LimitsOk(clock, daily, spends) /\ RollingWithin(spends.rolling)
      /\ spends = [rolling |-> spends.rolling, fixed |-> spends.fixed]
      /\ op # None => /\ IsOperation(op) /\ LimitsOk(clock, op.saved.daily, spends)
                      /\ op.saved.balance \in Nat
                      /\ IF op.call = "hook" THEN balance >= op.saved.balance
                         ELSE daily.limit # None => daily.snapshot = op.saved.balance
  BY DEF OpInv, LimitsAssumption, SpendingAssumption, LimitsInv
<1>2. ASSUME NEW call, NEW amount, Spending!ExecuteUserOp(call, amount) PROVE LimitsInv'
  <2>1. op = None /\ UNCHANGED <<clock, balance, spends>>
    BY <1>2, Zenon DEF Spending!ExecuteUserOp, Spending!Idle, Spending!ledger
  <2>2. IF daily.limit = None THEN daily' = daily
        ELSE daily' = [daily EXCEPT !.snapshot = balance]
    BY <1>2, Zenon DEF Spending!ExecuteUserOp, Spending!PreExecute
  <2>3. LimitsOk(clock, daily', spends) /\ (daily'.limit # None => daily'.snapshot = balance)
    BY <1>1, <2>2 DEF LimitsOk
  <2>4. op' # None /\ op'.saved.daily = daily /\ op'.saved.balance = balance
    BY <1>1, <1>2, SMT DEF Spending!ExecuteUserOp, SpendingAssumption
  <2> QED
    BY <1>1, <2>1, <2>3, <2>4 DEF LimitsInv
<1>3. ASSUME op # None, NEW result, Spending!Returns(result)
      PROVE  /\ op' # None /\ op'.saved = op.saved /\ op'.call = op.call
  BY <1>1, <1>3 DEF Spending!Returns, IsOperation, SpendingAssumption
<1>4. ASSUME Spending!TransferRuns \/ \E amount \in Value : Spending!OtherCallRuns(amount)
      PROVE  LimitsInv'
  <2>1. /\ op # None /\ op.call # "hook" /\ UNCHANGED <<clock, daily, spends>>
        /\ \E result : Spending!Returns(result)
    <3>1. /\ op # None /\ UNCHANGED <<clock, daily, spends>>
          /\ op.call = "transfer" \/ op.call = "other"
      BY <1>4, Zenon DEF Spending!TransferRuns, Spending!OtherCallRuns, Spending!Idle,
        Spending!policies, Spending!ledger
    <3>2. \E result : Spending!Returns(result)
      BY <1>4, Zenon DEF Spending!TransferRuns, Spending!OtherCallRuns
    <3> QED
      BY <3>1, <3>2
  <2>2. balance' \in Nat
    <3>1. CASE Spending!TransferRuns
      <4>1. (balance >= op.amount /\ balance' = balance - op.amount) \/ balance' = balance
        BY <3>1, Zenon DEF Spending!TransferRuns
      <4>2. op.amount \in Nat
        BY <1>1, <2>1 DEF IsOperation
      <4> QED
        BY <1>1, <4>1, <4>2
    <3>2. ASSUME NEW amount \in Value, Spending!OtherCallRuns(amount) PROVE balance' \in Nat
      <4>1. amount <= balance /\ balance' = balance - amount
        BY <3>2, Zenon DEF Spending!OtherCallRuns
      <4> QED
        BY <1>1, <4>1
    <3> QED
      BY <1>4, <3>1, <3>2
  <2>3. op' # None /\ op'.saved = op.saved /\ op'.call = op.call
    BY <1>3, <2>1
  <2> QED
    BY <1>1, <2>1, <2>2, <2>3 DEF LimitsInv
<1>5. ASSUME NEW amount \in Value, Spending!Receive(amount) PROVE LimitsInv'
  <2>1. balance' = balance + amount /\ UNCHANGED <<clock, daily, op, spends>>
    BY <1>5, Zenon DEF Spending!Receive, Spending!policies, Spending!ledger
  <2>2. balance' \in Nat /\ balance' >= balance
    BY <1>1, <2>1
  <2>3. op # None /\ op.call = "hook" => balance' >= op.saved.balance
    BY <1>1, <2>2
  <2> QED
    BY <1>1, <2>1, <2>2, <2>3 DEF LimitsInv
<1>6. ASSUME NEW declared \in {0} \cup Value, Spending!HookCallRuns(declared) PROVE LimitsInv'
  <2>1. /\ op # None /\ op.call = "hook" /\ Spending!Returns(TRUE) /\ Spending!PostExecute(declared)
        /\ UNCHANGED <<clock, balance, spends>>
    BY <1>6, Zenon DEF Spending!HookCallRuns, Spending!Idle, Spending!ledger
  <2>2. declared \in Nat
    BY <1>1
  <2>3. LimitsOk(clock, daily', spends)
    BY <1>1, <2>1, <2>2, Metered
  <2>4. op' # None /\ op'.saved = op.saved /\ op'.call = op.call
    BY <1>3, <2>1
  <2> QED
    BY <1>1, <2>1, <2>3, <2>4 DEF LimitsInv
<1>7. CASE Spending!Fault
  <2>1. /\ op # None /\ op' = None /\ UNCHANGED <<clock, spends>>
        /\ balance' = op.saved.balance /\ daily' = op.saved.daily
    BY <1>7, Zenon DEF Spending!Fault, Spending!Idle
  <2> QED
    BY <1>1, <2>1 DEF LimitsInv
<1>8. CASE Spending!Tick
  <2>1. /\ op = None /\ op' = None /\ clock' = clock + 1 /\ UNCHANGED <<balance, daily>>
        /\ spends' = [rolling |-> Spending!Restrict(spends.rolling, Spending!Since(spends.rolling, clock + 1 - Day)),
                      fixed |-> Spending!Restrict(spends.fixed, Spending!Since(spends.fixed, clock + 1 - Day))]
    BY <1>8, Zenon DEF Spending!Tick, Spending!Idle, Spending!policies, Spending!Recent
  <2>2. LimitsOk(clock + 1, daily, spends') /\ RollingWithin(spends'.rolling)
    BY <1>1, <2>1, LimitsTick
  <2> QED
    BY <1>1, <2>1, <2>2 DEF LimitsInv
<1>9. CASE UNCHANGED Spending!vars
  BY <1>9, Zenon DEF Spending!vars, Spending!policies, Spending!ledger, LimitsInv
<1> QED
  BY <1>2, <1>4, <1>5, <1>6, <1>7, <1>8, <1>9, ConfigureLimits, FinishLimits,
    Zenon DEF Spending!Next, Spending!Operate

(* DailyLimitHolds: whatever the limits and windows are, and however often  *)
(* they change, what leaves an account in a day is within the limit of a    *)
(* rolling window, and within twice that of a fixed one.                    *)
THEOREM LimitsHeld ==
  ASSUME LimitsAssumption
  PROVE  Spending!Spec => []Spending!DailyLimitHolds
<1>1. Spending!Init => OpInv /\ LimitsInv
  <2> SUFFICES ASSUME Spending!Init PROVE OpInv /\ LimitsInv
    OBVIOUS
  <2>1. clock = Day /\ op = None /\ balance = MaxBalance /\ daily = Spending!NoDaily /\ spends = Spending!NoSpends
    BY Zenon DEF Spending!Init
  <2>2. clock \in Nat /\ Day \in Nat /\ balance \in Nat
    BY <2>1 DEF LimitsAssumption, SpendingAssumption
  <2>3. RollingOk(clock, <<>>, <<>>) /\ RollingWithin(<<>>) /\ FixedOk(clock, 0, 0, <<>>)
    BY <2>2, NothingLeft
  <2>4. LimitsOk(clock, Spending!NoDaily, Spending!NoSpends) /\ RollingWithin(Spending!NoSpends.rolling)
    BY <2>3 DEF LimitsOk, Spending!NoDaily, Spending!NoSpends
  <2>5. Spending!NoSpends = [rolling |-> Spending!NoSpends.rolling, fixed |-> Spending!NoSpends.fixed]
    BY DEF Spending!NoSpends
  <2> QED
    BY <2>1, <2>2, <2>4, <2>5 DEF OpInv, LimitsInv
<1>2. OpInv /\ LimitsInv /\ [Spending!Next]_(Spending!vars) => OpInv' /\ LimitsInv'
  BY OpStep, LimitsStep DEF LimitsAssumption
<1>3. OpInv /\ LimitsInv => Spending!DailyLimitHolds
  <2> SUFFICES ASSUME OpInv, LimitsInv PROVE Spending!DailyLimitHolds
    OBVIOUS
  <2>1. PICK f : f = spends.fixed
    OBVIOUS
  <2>2. PICK r : r = daily.lastReset
    OBVIOUS
  <2>3. PICK t : t = clock - Day + 1
    OBVIOUS
  <2>4. /\ clock \in Nat /\ Day \in Nat \ {0} /\ r \in Nat /\ IsSpending(f, clock)
        /\ \A u \in clock - Day .. clock : Covered(f, InWindow(f, r, u)) /\ Covered(f, BeforeWindow(f, r, u))
    BY <2>1, <2>2 DEF OpInv, LimitsInv, LimitsOk, FixedOk, LimitsAssumption,
      SpendingAssumption
  <2>5. t \in clock - Day .. clock
    BY <2>3, <2>4
  <2>6. PICK I : I = InWindow(f, r, t)
    OBVIOUS
  <2>7. PICK J : J = BeforeWindow(f, r, t)
    OBVIOUS
  <2>8. Covered(f, I) /\ Covered(f, J)
    BY <2>4, <2>5, <2>6, <2>7
  <2>9. Spending!Since(f, t) = I \cup J /\ I \cap J = {} /\ I \subseteq DOMAIN f /\ J \subseteq DOMAIN f
    BY <2>4, <2>6, <2>7 DEF Spending!Since, InWindow, BeforeWindow, IsSpending
  <2>10. \A times \in SUBSET DOMAIN f : /\ IsFiniteSet(times) /\ Spending!Total(f, times) \in Nat
                                        /\ \A at \in times : f[at].amount \in Nat /\ f[at].max \in Nat
    <3>1. IsFiniteSet(clock - Day .. clock)
      BY <2>4, FS_Interval
    <3>2. IsFiniteSet(DOMAIN f) /\ \A at \in DOMAIN f : f[at].amount \in Nat /\ f[at].max \in Nat
      BY <2>4, <3>1, FS_Subset DEF IsSpending
    <3> QED
      BY <3>2, FS_Subset, TotalNat
  <2>11. Spending!Total(f, I \cup J) = Spending!Total(f, I) + Spending!Total(f, J)
    BY <2>9, <2>10, TotalUnion
  <2>12. I \cup J # {} => \E at \in I \cup J : Spending!Total(f, I \cup J) <= 2 * f[at].max
    <3>1. CASE I = {}
      BY <2>8, <2>9, <2>10, <3>1 DEF Covered
    <3>2. CASE J = {}
      BY <2>8, <2>9, <2>10, <3>2 DEF Covered
    <3>3. CASE I # {} /\ J # {}
      <4>1. PICK i \in I : Spending!Total(f, I) <= f[i].max
        BY <2>8, <3>3 DEF Covered
      <4>2. PICK j \in J : Spending!Total(f, J) <= f[j].max
        BY <2>8, <3>3 DEF Covered
      <4>3. f[i].max \in Nat /\ f[j].max \in Nat /\ Spending!Total(f, I) \in Nat /\ Spending!Total(f, J) \in Nat
        BY <2>9, <2>10
      <4>4. Spending!Total(f, I \cup J) <= 2 * f[i].max \/ Spending!Total(f, I \cup J) <= 2 * f[j].max
        BY <2>11, <4>1, <4>2, <4>3
      <4> QED
        BY <4>4
    <3> QED
      BY <3>1, <3>2, <3>3
  <2> QED
    BY <2>1, <2>3, <2>9, <2>12 DEF Spending!DailyLimitHolds, LimitsInv, RollingWithin
<1> QED
  BY <1>1, <1>2, <1>3, PTL DEF Spending!Spec

-----------------------------------------------------------------------------
LEMMA SpendingSteps ==
  [PluginNext]_<<plugin, vars, spending, composing>> => [Spending!Next]_(Spending!vars)
BY DEF PluginNext, UsesRecovery, UsesSpending, UsesComposite, spending, Spending!vars,
   Spending!policies, Spending!ledger

(* Whichever plugin the account uses: no session key transfers more than    *)
(* its cap, keys follow each other a day apart, and a subscription charges  *)
(* once in a billing period at most.                                        *)
THEOREM DelegatesBound ==
  ASSUME SpendingAssumption
  PROVE  PluginSpec => []DelegatesKeepToTerms
<1>1. PluginInit => Spending!Init
  BY DEF PluginInit
<1> QED
  BY <1>1, SpendingSteps, SessionCaps, ChargesOncePerPeriod, PTL
  DEF PluginSpec, Spending!Spec, DelegatesKeepToTerms

(* Whichever plugin the account uses: what leaves it in a day is within the *)
(* limit of a rolling window, and within twice that of a fixed one.         *)
THEOREM LimitsBound ==
  ASSUME LimitsAssumption
  PROVE  PluginSpec => []LimitsHold
<1>1. PluginInit => Spending!Init
  BY DEF PluginInit
<1> QED
  BY <1>1, SpendingSteps, LimitsHeld, PTL DEF PluginSpec, Spending!Spec, LimitsHold
=============================================================================
