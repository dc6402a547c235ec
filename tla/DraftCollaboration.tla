------------------------- MODULE DraftCollaboration -------------------------
(***************************************************************************)
(* A shared draft: one row that signers, operators and their browsers work *)
(* on together (drafts.js, draft-operator.js, operatorMutationTransport.js, *)
(* operatorKeyVault.js and the SQL functions they call).                   *)
(*                                                                         *)
(* Whoever holds a link acts with its scope.  Signers append through SQL   *)
(* functions that check the link, then lock the row.  Operators send       *)
(* mutations signed with a key that the first of them pins to the draft:   *)
(* the API route loads the row, verifies, and updates it only where the    *)
(* link and the counter are still those it loaded.  A tab finds its key in *)
(* the browser's vault, in its own session storage (a former version kept  *)
(* it there) or makes one; keys may be backed up and imported elsewhere.   *)
(* Without Supabase everything is a record in localStorage.                *)
(*                                                                         *)
(* Links are numbered: link n of a scope is the one after n rotations.     *)
(***************************************************************************)
EXTENDS Integers, FiniteSets, Sequences, SequencesExt

CONSTANTS
  Tab,           \* tabs an operator works in
  Browser,
  BrowserOf,     \* the browser of each tab
  Signer,
  OperatorKey,
  None,
  Mutation,      \* operator mutations considered
  ActivityLimit, \* DRAFT_METADATA_HISTORY_LIMITS.activity
  ReceiptLimit,  \* DRAFT_METADATA_HISTORY_LIMITS.submissionReceipts
  MaxOps         \* bound on operations begun

Mutations ==
  {"setStatus", "setRelayPreflight", "appendSubmissionReceipt", "appendActivity",
   "rotateCollaboratorLink", "rotateOperatorLink"}

ASSUME DraftAssumption ==
  /\ BrowserOf \in [Tab -> Browser] /\ Mutation \subseteq Mutations
  /\ None \notin OperatorKey \cup Signer
  /\ ActivityLimit \in Nat \ {0} /\ ReceiptLimit \in Nat \ {0} /\ MaxOps \in Nat

VARIABLES
  setting,   \* [remote, webLocks]: Supabase configured, navigator.locks there
  draft,     \* the row
  vault,     \* each browser's IndexedDB entry for this draft
  legacy,    \* each tab's session storage entry
  backups,   \* keys exported to a file
  tab,       \* what each tab's mutation transport is doing
  flight,    \* requests in the API route, each with the row it loaded
  rpc,       \* SQL calls that have passed their access check
  ops,       \* operations begun; the n-th is named n
  applied    \* history: writes committed to the row

vars == <<setting, draft, vault, legacy, backups, tab, flight, rpc, ops, applied>>

Idle == [pc |-> "idle", id |-> 0, link |-> 0, mutation |-> None, key |-> None,
         counter |-> 0]
Latest_OneMore(s, n) == IF Len(s) > n + 1 THEN SubSeq(s, Len(s) - n, Len(s)) ELSE s
Latest(s, n) == IF Len(s) > n THEN SubSeq(s, Len(s) - n + 1, Len(s)) ELSE s

(* A list in the order of its times; entries of one time stay in theirs.    *)
Earlier(s, i) == {j \in DOMAIN s : s[j] < s[i] \/ (s[j] = s[i] /\ j < i)}
ByTime(s) ==
  [n \in DOMAIN s |-> s[CHOOSE i \in DOMAIN s : Cardinality(Earlier(s, i)) = n - 1]]

(* createDraftRecord; the operator who opens it has the key of a former     *)
(* version, or none.                                                        *)
Init ==
  /\ setting \in [remote: BOOLEAN, webLocks: BOOLEAN]
  /\ vault = [b \in Browser |-> None]
  /\ legacy \in [Tab -> {None} \cup OperatorKey]
  /\ \E k \in {None} \cup {legacy[t] : t \in Tab} :
       draft = [operator |-> 0, collaborator |-> 0, key |-> k, counter |-> 0,
                status |-> 0, relayPreflight |-> 0, activity |-> <<>>,
                receipts |-> <<>>, signatures |-> <<>>]
  /\ backups = {}
  /\ tab = [t \in Tab |-> Idle]
  /\ flight = {}
  /\ rpc = {}
  /\ ops = 0
  /\ applied = <<>>

Begin == ops < MaxOps /\ ops' = ops + 1
Record(kind, id, by) ==
  applied' = Append(applied, [kind |-> kind, id |-> id, by |-> by])

-----------------------------------------------------------------------------
(* Writes both stores make *)

(* The patch of an operator mutation.  A change of the metadata replaces    *)
(* the whole metadata object by the one computed from row.                  *)
Metadata == {"setRelayPreflight", "appendSubmissionReceipt", "appendActivity"}

Patched(row, mutation, id) ==
  LET base == IF mutation \in Metadata THEN row ELSE draft IN
  [draft EXCEPT
    !.status = IF mutation = "setStatus" THEN id ELSE @,
    !.relayPreflight = IF mutation = "setRelayPreflight" THEN id ELSE base.relayPreflight,
    !.activity = IF mutation = "appendActivity"
                 THEN Latest(ByTime(Append(row.activity, id)), ActivityLimit)
                 ELSE base.activity,
    !.receipts = IF mutation = "appendSubmissionReceipt"
                 THEN Latest(ByTime(Append(row.receipts, id)), ReceiptLimit)
                 ELSE base.receipts,
    !.collaborator = IF mutation = "rotateCollaboratorLink" THEN @ + 1 ELSE @,
    !.operator = IF mutation = "rotateOperatorLink" THEN @ + 1 ELSE @]

(* One signature of each signer; a second one is dropped. *)
Signed(row, s) ==
  IF Contains(row.signatures, s) THEN draft
  ELSE [draft EXCEPT !.signatures = Append(row.signatures, s)]

Scope(row, link) ==
  IF link = <<"operate", row.operator>> THEN "operate"
  ELSE IF link = <<"sign", row.collaborator>> THEN "sign" ELSE "read"

(* Anyone may still hold any link that was ever handed out. *)
Links == {<<"operate", n>> : n \in 0 .. draft.operator}
         \cup {<<"sign", n>> : n \in 0 .. draft.collaborator}

(* createLocalDraftStore: read, check, write without a pause. *)
Local ==
  /\ ~setting.remote
  /\ Begin
  /\ \E link \in Links :
       \/ \E m \in Mutation :
            /\ IF m = "appendActivity" THEN Scope(draft, link) \in {"sign", "operate"}
               ELSE Scope(draft, link) = "operate"
            /\ draft' = Patched(draft, m, ops')
            /\ Record(m, ops', None)
       \/ \E s \in Signer :
            /\ Scope(draft, link) \in {"sign", "operate"}
            /\ draft' = Signed(draft, s)
            /\ Record("appendSignature", s, None)
  /\ UNCHANGED <<setting, vault, legacy, backups, tab, flight, rpc>>

-----------------------------------------------------------------------------
(* append_aa_draft_signature and append_aa_draft_activity *)

Call ==
  /\ setting.remote
  /\ Begin
  /\ \E link \in Links :
       /\ Scope(draft, link) \in {"sign", "operate"}
       /\ \E c \in {[kind |-> "appendActivity", id |-> ops']}
                   \cup [kind: {"appendSignature"}, id: Signer] :
            rpc' = rpc \cup {[kind |-> c.kind, id |-> c.id, op |-> ops', row |-> draft]}
  /\ UNCHANGED <<setting, draft, vault, legacy, backups, tab, flight, applied>>

Commit_StaleRow(c) ==
  /\ draft' = IF c.kind = "appendSignature" THEN Signed(c.row, c.id)
              ELSE [draft EXCEPT !.activity = Latest(Append(c.row.activity, c.id), ActivityLimit)]
  /\ Record(c.kind, c.id, None)
  /\ rpc' = rpc \ {c}
  /\ UNCHANGED <<setting, vault, legacy, backups, tab, flight, ops>>

(* Re-selected FOR UPDATE: the row the call writes is the latest one. *)
Commit(c) ==
  /\ draft' = IF c.kind = "appendSignature" THEN Signed(draft, c.id)
              ELSE [draft EXCEPT !.activity = Latest(Append(@, c.id), ActivityLimit)]
  /\ Record(c.kind, c.id, None)
  /\ rpc' = rpc \ {c}
  /\ UNCHANGED <<setting, vault, legacy, backups, tab, flight, ops>>

-----------------------------------------------------------------------------
(* The operator's tab: createOperatorMutationTransport.  Its steps await    *)
(* IndexedDB or the API; any of them may fail, and then the operation ends. *)

Move(t, pc, key) == tab' = [tab EXCEPT ![t].pc = pc, ![t].key = key]
Fails(t) == tab' = [tab EXCEPT ![t] = Idle]

(* withOperatorKeyLock: one operation of the tab, or of the browser. *)
Unlocked(t) ==
  \A u \in Tab :
    u = t \/ (setting.webLocks /\ BrowserOf[u] = BrowserOf[t]) => tab[u].pc = "idle"

(* run, exportBackup, importBackup *)
Start(t) ==
  /\ setting.remote /\ Unlocked(t) /\ Begin
  /\ \E n \in 0 .. draft.operator :
       \/ \E m \in Mutation \cup {"exportBackup"} :
            tab' = [tab EXCEPT ![t] =
              [@ EXCEPT !.pc = "read", !.id = ops', !.link = n, !.mutation = m]]
       \/ \E k \in backups :
            tab' = [tab EXCEPT ![t] =
              [@ EXCEPT !.pc = "claim", !.id = ops', !.link = n,
                        !.mutation = "importBackup", !.key = k]]
  /\ UNCHANGED <<setting, draft, vault, legacy, backups, flight, rpc, applied>>

Unseen == OperatorKey \ ({draft.key} \cup {vault[b] : b \in Browser} \cup backups
            \cup {legacy[t] : t \in Tab} \cup {tab[t].key : t \in Tab}
            \cup {q.key : q \in flight})

(* getOrCreate: a stored key, the session's own, or a fresh one. *)
Read(t) ==
  /\ tab[t].pc = "read"
  /\ LET stored == vault[BrowserOf[t]] IN
     IF stored # None THEN Move(t, "claim", stored)
     ELSE IF legacy[t] # None THEN Move(t, "store", legacy[t])
     ELSE \E k \in Unseen : Move(t, "store", k)
  /\ UNCHANGED <<setting, draft, vault, legacy, backups, flight, rpc, ops, applied>>

Store_DropsLegacy(t) ==
  /\ tab[t].pc = "store"
  /\ LET b == BrowserOf[t]
         kept == IF vault[b] = None THEN tab[t].key ELSE vault[b]
     IN /\ vault' = [vault EXCEPT ![b] = kept]
        /\ legacy' = [legacy EXCEPT ![t] = None]
        /\ Move(t, "claim", kept)
  /\ UNCHANGED <<setting, draft, backups, flight, rpc, ops, applied>>

(* Written only if there is none yet, and read back.  The session's copy    *)
(* goes when the same key has survived; another key there sends the tab to  *)
(* claim with its own.                                                      *)
Store(t) ==
  /\ tab[t].pc = "store"
  /\ LET b == BrowserOf[t]
         kept == IF vault[b] = None THEN tab[t].key ELSE vault[b]
     IN /\ vault' = [vault EXCEPT ![b] = kept]
        /\ IF legacy[t] = None \/ kept = tab[t].key
           THEN legacy' = [legacy EXCEPT ![t] = None] /\ Move(t, "claim", kept)
           ELSE UNCHANGED legacy /\ Move(t, "reclaim", legacy[t])
  /\ UNCHANGED <<setting, draft, backups, flight, rpc, ops, applied>>

Send(t, kind, next) ==
  /\ flight' = flight \cup {[kind |-> kind, tab |-> t, row |-> None, id |-> tab[t].id,
       link |-> tab[t].link, mutation |-> tab[t].mutation, key |-> tab[t].key,
       counter |-> tab[t].counter]}
  /\ Move(t, next, tab[t].key)

Claim(t) ==
  /\ tab[t].pc \in {"claim", "reclaim"}
  /\ Send(t, "claim", IF tab[t].pc = "claim" THEN "claiming" ELSE "reclaiming")
  /\ UNCHANGED <<setting, draft, vault, legacy, backups, rpc, ops, applied>>

(* The answer to a claim.  A key refused because another is pinned gives    *)
(* way to the session's, when it has one.                                   *)
Claimed(t, outcome, counter) ==
  LET own == tab[t].pc = "claiming" /\ tab[t].mutation # "importBackup" IN
  IF outcome = "taken" /\ own /\ legacy[t] # None THEN Move(t, "reclaim", legacy[t])
  ELSE IF outcome # "ok" THEN Fails(t)
  ELSE tab' = [tab EXCEPT ![t].pc = IF own THEN "claimed" ELSE "save", ![t].counter = counter]

(* Only a key the server accepted replaces the one in the vault. *)
Save(t) ==
  /\ tab[t].pc = "save"
  /\ vault' = [vault EXCEPT ![BrowserOf[t]] = tab[t].key]
  /\ IF tab[t].mutation = "importBackup" THEN Fails(t) /\ UNCHANGED legacy
     ELSE Move(t, "claimed", tab[t].key) /\ legacy' = [legacy EXCEPT ![t] = None]
  /\ UNCHANGED <<setting, draft, backups, flight, rpc, ops, applied>>

ExportBackup(t) ==
  /\ tab[t].pc = "claimed" /\ tab[t].mutation = "exportBackup"
  /\ backups' = backups \cup {tab[t].key}
  /\ Fails(t)
  /\ UNCHANGED <<setting, draft, vault, legacy, flight, rpc, ops, applied>>

Mutate(t) ==
  /\ tab[t].pc = "claimed" /\ tab[t].mutation \in Mutation
  /\ Send(t, "mutate", "mutating")
  /\ UNCHANGED <<setting, draft, vault, legacy, backups, rpc, ops, applied>>

(* An error, a timeout, a reload: what was sent stays sent. *)
Abort(t) ==
  /\ tab[t].pc # "idle"
  /\ Fails(t)
  /\ UNCHANGED <<setting, draft, vault, legacy, backups, flight, rpc, ops, applied>>

-----------------------------------------------------------------------------
(* POST /api/draft-operator: handleClaim and handleMutation await the row   *)
(* and then the update.  Every signature is fresh, so no answer is replayed. *)

Respond(q, outcome, counter) ==
  /\ flight' = flight \ {q}
  /\ IF tab[q.tab].id # q.id THEN UNCHANGED tab
     ELSE IF q.kind = "claim" THEN Claimed(q.tab, outcome, counter)
     ELSE Fails(q.tab)
  /\ UNCHANGED <<setting, vault, legacy, backups, rpc, ops>>

Loaded(q) ==
  /\ flight' = (flight \ {q}) \cup {[q EXCEPT !.row = draft]}
  /\ UNCHANGED <<setting, tab, vault, legacy, backups, rpc, ops>>

Load(q) ==
  /\ q.row = None
  /\ IF q.link # draft.operator THEN Respond(q, "refused", 0)
     ELSE IF q.kind = "mutate" THEN
       IF q.key = draft.key /\ q.counter = draft.counter THEN Loaded(q)
       ELSE Respond(q, "refused", 0)
     ELSE IF draft.key = None THEN Loaded(q)
     ELSE Respond(q, IF q.key = draft.key THEN "ok" ELSE "taken", draft.counter)
  /\ UNCHANGED <<draft, applied>>

UpdateClaim_Overwrites(q) ==
  /\ q.kind = "claim" /\ q.row # None
  /\ draft' = [draft EXCEPT !.key = q.key, !.counter = q.row.counter]
  /\ Respond(q, "ok", q.row.counter)
  /\ UNCHANGED applied

(* The first of the claims that saw no key pins its own. *)
UpdateClaim(q) ==
  /\ q.kind = "claim" /\ q.row # None
  /\ IF q.link = draft.operator /\ draft.key = None
     THEN /\ draft' = [draft EXCEPT !.key = q.key, !.counter = q.row.counter]
          /\ Respond(q, "ok", q.row.counter)
     ELSE UNCHANGED draft /\ Respond(q, "refused", 0)
  /\ UNCHANGED applied

UpdateDraft_IgnoresCounter(q) ==
  /\ q.kind = "mutate" /\ q.row # None
  /\ draft' = [Patched(q.row, q.mutation, q.id) EXCEPT !.counter = q.counter + 1]
  /\ Record(q.mutation, q.id, q.key)
  /\ Respond(q, "ok", 0)

(* Only where link and counter are still those of the row it loaded. *)
UpdateDraft(q) ==
  /\ q.kind = "mutate" /\ q.row # None
  /\ IF q.link = draft.operator /\ q.counter = draft.counter
     THEN /\ draft' = [Patched(q.row, q.mutation, q.id) EXCEPT !.counter = q.counter + 1]
          /\ Record(q.mutation, q.id, q.key)
          /\ Respond(q, "ok", 0)
     ELSE UNCHANGED <<draft, applied>> /\ Respond(q, "refused", 0)

(* The instance dies, or the answer is lost. *)
Drop(q) ==
  /\ flight' = flight \ {q}
  /\ UNCHANGED <<setting, draft, vault, legacy, backups, tab, rpc, ops, applied>>

-----------------------------------------------------------------------------
Next ==
  \/ Local
  \/ Call \/ \E c \in rpc : Commit(c)
  \/ \E t \in Tab : Start(t) \/ Read(t) \/ Store(t) \/ Claim(t) \/ Save(t)
                    \/ ExportBackup(t) \/ Mutate(t) \/ Abort(t)
  \/ \E q \in flight : Load(q) \/ UpdateClaim(q) \/ UpdateDraft(q) \/ Drop(q)

Spec == Init /\ [][Next]_vars

-----------------------------------------------------------------------------
(* Properties *)

Committed(kind) == {i \in DOMAIN applied : applied[i].kind = kind}
ByOperators == {i \in DOMAIN applied : applied[i].by # None}
Ids(kind) == {applied[i].id : i \in Committed(kind)}
Least(a, b) == IF a < b THEN a ELSE b
Steps == {"idle", "read", "store", "claim", "claiming", "reclaim", "reclaiming",
          "save", "claimed", "mutating"}

(* Every part of the draft keeps its type, its histories stay bounded, and  *)
(* an operation the tabs wait for holds the key it was begun with.          *)
DraftTypeOK ==
  /\ draft.operator \in Nat /\ draft.collaborator \in Nat /\ draft.counter \in Nat
  /\ draft.key \in OperatorKey \cup {None}
  /\ draft.status \in 0 .. ops /\ draft.relayPreflight \in 0 .. ops
  /\ draft.activity \in Seq(1 .. ops) /\ Len(draft.activity) <= ActivityLimit
  /\ draft.receipts \in Seq(1 .. ops) /\ Len(draft.receipts) <= ReceiptLimit
  /\ draft.signatures \in Seq(Signer)
  /\ vault \in [Browser -> OperatorKey \cup {None}]
  /\ legacy \in [Tab -> OperatorKey \cup {None}]
  /\ backups \subseteq OperatorKey
  /\ \A t \in Tab :
       /\ tab[t].pc \in Steps
       /\ tab[t].pc \in {"idle", "read"} <=> tab[t].key = None

(* Operators act in one sequence: every value of the counter belongs to     *)
(* exactly one committed mutation, whatever was in flight with it, and no   *)
(* request changes which key may sign.                                      *)
OneOperatorSequence ==
  /\ draft.counter = Cardinality(ByOperators)
  /\ \A i \in ByOperators : applied[i].by = draft.key

(* An approval or a receipt that was committed is never lost to a           *)
(* concurrent writer: signers once each, receipts up to the limit.          *)
ApprovalsAndReceiptsKept ==
  /\ IsInjective(draft.signatures)
  /\ Range(draft.signatures) = Ids("appendSignature")
  /\ Range(draft.receipts) \subseteq Ids("appendSubmissionReceipt")
  /\ Len(draft.receipts) = Least(Cardinality(Ids("appendSubmissionReceipt")), ReceiptLimit)

(* The lists of a draft keep what was committed and stay within their size. *)
ListsKept == DraftTypeOK /\ ApprovalsAndReceiptsKept

(* The keys that lie somewhere a reload leaves alone. *)
KeptKeys == backups \cup {vault[b] : b \in Browser} \cup {legacy[t] : t \in Tab}

(* The pinned key, without which no operator acts again, is always kept:    *)
(* migrating, importing and claiming never drop or overwrite its last copy. *)
PinnedKeyIsKept == draft.key # None => draft.key \in KeptKeys
=============================================================================
