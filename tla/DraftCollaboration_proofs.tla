--------------------- MODULE DraftCollaboration_proofs ---------------------
(* Machine-checked theorems about DraftCollaboration, for every set of      *)
(* tabs, browsers, signers, keys and mutations and every limit.             *)
EXTENDS DraftCollaboration, FiniteSetTheorems, SequenceTheorems, TLAPS

(* A record has the fields of a draft, whatever their values.  What the     *)
(* lists of a draft hold matters only to the last theorem.                  *)
IsRow(r) ==
  r = [operator |-> r.operator, collaborator |-> r.collaborator, key |-> r.key,
       counter |-> r.counter, status |-> r.status, relayPreflight |-> r.relayPreflight,
       activity |-> r.activity, receipts |-> r.receipts, signatures |-> r.signatures]

IsTab(s) ==
  s = [pc |-> s.pc, id |-> s.id, link |-> s.link, mutation |-> s.mutation,
       key |-> s.key, counter |-> s.counter]

IsRequest(q) ==
  q = [kind |-> q.kind, tab |-> q.tab, row |-> q.row, id |-> q.id, link |-> q.link,
       mutation |-> q.mutation, key |-> q.key, counter |-> q.counter]

KeyOrNone == OperatorKey \cup {None}

(* The row, and what the history says of it. *)
RowInv ==
  /\ IsRow(draft) /\ draft.key \in KeyOrNone /\ draft.counter \in Nat
  /\ draft.key = None => draft.counter = 0
  /\ \E S : applied \in Seq(S)
  /\ IsFiniteSet(ByOperators) /\ draft.counter = Cardinality(ByOperators)
  /\ \A i \in ByOperators : applied[i].by = draft.key

(* Where keys are kept. *)
KeysInv ==
  /\ ops \in Nat
  /\ vault \in [Browser -> KeyOrNone]
  /\ legacy \in [Tab -> KeyOrNone]
  /\ backups \subseteq OperatorKey
  /\ PinnedKeyIsKept

(* A tab that asks for a claim has a key that is kept until one is pinned;  *)
(* one that saves has the pinned key.                                       *)
Asking == {"claim", "claiming", "reclaim", "reclaiming"}
TabInv(t) ==
  /\ IsTab(tab[t]) /\ tab[t].id \in 0 .. ops
  /\ tab[t].pc \notin {"idle", "read"} => tab[t].key \in OperatorKey
  /\ tab[t].pc # "idle" => tab[t].id > 0
  /\ tab[t].pc = "store" /\ legacy[t] # None => tab[t].key = legacy[t]
  /\ tab[t].pc \in Asking /\ draft.key = None => tab[t].key \in KeptKeys
  /\ tab[t].pc = "save" => tab[t].key = draft.key

(* A request in the route still says what the tab that waits for it asked,  *)
(* and the row it loaded what its update relies on.                         *)
Awaits(s, q) ==
  /\ s.key = q.key
  /\ s.pc \in IF q.kind = "claim" THEN {"claiming", "reclaiming"} ELSE {"mutating"}

FlightInv(q) ==
  /\ IsRequest(q) /\ q.kind \in {"claim", "mutate"} /\ q.tab \in Tab
  /\ q.key \in OperatorKey /\ q.id \in 1 .. ops
  /\ q.kind = "claim" /\ draft.key = None => q.key \in KeptKeys
  /\ q.kind = "claim" /\ q.row # None => q.row.counter = 0
  /\ q.kind = "mutate" /\ q.row # None => q.key = draft.key
  /\ tab[q.tab].id = q.id => Awaits(tab[q.tab], q)

TabsInv == tab = [t \in Tab |-> tab[t]] /\ \A t \in Tab : TabInv(t)

(* Of the requests of one operation, a tab waits for one. *)
OneAwaited ==
  \A q, r \in flight :
    q.tab = r.tab /\ q.id = r.id /\ tab[q.tab].id = q.id => q = r

RequestsInv == OneAwaited /\ \A q \in flight : FlightInv(q)

Inv == RowInv /\ KeysInv /\ TabsInv /\ RequestsInv
-----------------------------------------------------------------------------
(* The row and its history *)

LEMMA InitInv == Init => Inv
<1> SUFFICES ASSUME Init PROVE Inv
  OBVIOUS
<1>1. applied \in Seq({}) /\ ByOperators = {}
  BY DEF Init, ByOperators
<1>2. RowInv
  <2>1. IsRow(draft) /\ draft.key \in KeyOrNone /\ draft.counter = 0
    BY DEF Init, IsRow, KeyOrNone
  <2> QED BY <1>1, <2>1, FS_EmptySet DEF RowInv
<1>3. KeysInv
  BY DEF Init, KeysInv, PinnedKeyIsKept, KeptKeys, KeyOrNone
<1>4. TabsInv
  BY DEF Init, TabsInv, TabInv, IsTab, Idle, Asking
<1>5. RequestsInv
  BY DEF Init, RequestsInv, OneAwaited
<1> QED BY <1>2, <1>3, <1>4, <1>5 DEF Inv

(* What a patch, and a signature, leave as it was. *)
LEMMA PatchedRow ==
  ASSUME IsRow(draft), NEW row, NEW m, NEW id
  PROVE  /\ IsRow(Patched(row, m, id))
         /\ Patched(row, m, id).key = draft.key
         /\ Patched(row, m, id).counter = draft.counter
<1> DEFINE base == IF m \in Metadata THEN row ELSE draft
           s == IF m = "setStatus" THEN id ELSE draft.status
           p == IF m = "setRelayPreflight" THEN id ELSE base.relayPreflight
           a == IF m = "appendActivity"
                THEN Latest(ByTime(Append(row.activity, id)), ActivityLimit)
                ELSE base.activity
           e == IF m = "appendSubmissionReceipt"
                THEN Latest(ByTime(Append(row.receipts, id)), ReceiptLimit)
                ELSE base.receipts
           c == IF m = "rotateCollaboratorLink" THEN draft.collaborator + 1
                ELSE draft.collaborator
           o == IF m = "rotateOperatorLink" THEN draft.operator + 1 ELSE draft.operator
<1>1. Patched(row, m, id)
        = [draft EXCEPT !.status = s, !.relayPreflight = p, !.activity = a,
                        !.receipts = e, !.collaborator = c, !.operator = o]
  BY DEF Patched
<1>2. DOMAIN draft = {"operator", "collaborator", "key", "counter", "status",
                     "relayPreflight", "activity", "receipts", "signatures"}
  BY DEF IsRow
<1> HIDE DEF base, s, p, a, e, c, o
<1> QED BY <1>1, <1>2 DEF IsRow

LEMMA SignedRow ==
  ASSUME IsRow(draft), NEW row, NEW s
  PROVE  /\ IsRow(Signed(row, s))
         /\ Signed(row, s).key = draft.key
         /\ Signed(row, s).counter = draft.counter
BY DEF IsRow, Signed

(* A write of the history that is not an operator's leaves theirs alone. *)
LEMMA RecordOther ==
  ASSUME NEW S, applied \in Seq(S), NEW kind, NEW id, Record(kind, id, None)
  PROVE  /\ \E T : applied' \in Seq(T)
         /\ ByOperators' = ByOperators
         /\ \A i \in ByOperators : applied'[i] = applied[i]
<1> DEFINE e == [kind |-> kind, id |-> id, by |-> None]
<1>1. applied' = Append(applied, e) /\ e.by = None
  BY DEF Record
<1>2. applied \in Seq(S \cup {e}) /\ e \in S \cup {e}
  OBVIOUS
<1> HIDE DEF e
<1>3. /\ applied' \in Seq(S \cup {e})
      /\ Len(applied') = Len(applied) + 1
      /\ applied'[Len(applied) + 1] = e
      /\ \A i \in 1 .. Len(applied) : applied'[i] = applied[i]
  BY <1>1, <1>2
<1> QED BY <1>1, <1>2, <1>3 DEF ByOperators

(* An operator's write counts one more. *)
LEMMA RecordOperator ==
  ASSUME NEW S, applied \in Seq(S), IsFiniteSet(ByOperators),
         NEW kind, NEW id, NEW k, k # None, Record(kind, id, k)
  PROVE  /\ \E T : applied' \in Seq(T)
         /\ IsFiniteSet(ByOperators)'
         /\ Cardinality(ByOperators)' = Cardinality(ByOperators) + 1
         /\ \A i \in ByOperators' : applied'[i].by = k \/ (i \in ByOperators /\ applied'[i] = applied[i])
<1> DEFINE e == [kind |-> kind, id |-> id, by |-> k]
           n == Len(applied) + 1
<1>1. applied' = Append(applied, e) /\ e.by = k
  BY DEF Record
<1>2. applied \in Seq(S \cup {e}) /\ e \in S \cup {e}
  OBVIOUS
<1> HIDE DEF e
<1>3. /\ applied' \in Seq(S \cup {e})
      /\ Len(applied') = n
      /\ applied'[n] = e
      /\ \A i \in 1 .. Len(applied) : applied'[i] = applied[i]
  BY <1>1, <1>2
<1>4. ByOperators' = ByOperators \cup {n} /\ n \notin ByOperators
  BY <1>1, <1>2, <1>3 DEF ByOperators
<1>5. /\ IsFiniteSet(ByOperators \cup {n})
      /\ Cardinality(ByOperators \cup {n}) = Cardinality(ByOperators) + 1
  BY <1>4, FS_AddElement, FS_CardinalityType
<1>6. \A i \in ByOperators : i \in 1 .. Len(applied)
  BY <1>2 DEF ByOperators
<1> QED BY <1>1, <1>3, <1>4, <1>5, <1>6

(* A write that keeps key and counter and is recorded as nobody's. *)
LEMMA OtherWrite ==
  ASSUME Inv, IsRow(draft'), draft'.key = draft.key, draft'.counter = draft.counter,
         NEW kind, NEW id, Record(kind, id, None)
  PROVE  RowInv'
<1>1. PICK S : applied \in Seq(S)
  BY DEF Inv, RowInv
<1>2. /\ \E T : applied' \in Seq(T)
      /\ ByOperators' = ByOperators
      /\ \A i \in ByOperators : applied'[i] = applied[i]
  BY <1>1, RecordOther
<1> QED BY <1>2 DEF Inv, RowInv

-----------------------------------------------------------------------------
(* What does not touch keys, tabs and requests keeps what is known of them. *)
LEMMA OthersKeep ==
  ASSUME Inv, UNCHANGED <<vault, legacy, backups, tab, flight>>,
         draft'.key = draft.key, ops' \in Nat, ops <= ops'
  PROVE  KeysInv' /\ TabsInv' /\ RequestsInv'
<1>1. KeptKeys' = KeptKeys
  BY DEF KeptKeys
<1>2. KeysInv'
  BY <1>1 DEF Inv, KeysInv, PinnedKeyIsKept
<1>3. TabsInv'
  BY <1>1 DEF Inv, KeysInv, TabsInv, TabInv, IsTab
<1>4. (\A q \in flight : FlightInv(q))' /\ OneAwaited'
  BY <1>1 DEF Inv, KeysInv, RequestsInv, OneAwaited, FlightInv, IsRequest, Awaits
<1> QED BY <1>2, <1>3, <1>4 DEF RequestsInv

LEMMA LocalInv == ASSUME Inv, Local PROVE Inv'
<1>1. IsRow(draft)
  BY DEF Inv, RowInv
<1>2. \E kind, id : /\ IsRow(draft') /\ draft'.key = draft.key
                    /\ draft'.counter = draft.counter
                    /\ Record(kind, id, None)
  BY <1>1, PatchedRow, SignedRow DEF Local
<1>3. ops' \in Nat /\ ops <= ops'
  BY DEF Local, Begin, Inv, KeysInv
<1> QED BY <1>2, <1>3, OtherWrite, OthersKeep DEF Local, Inv

LEMMA CallInv == ASSUME Inv, Call PROVE Inv'
<1>1. ops' \in Nat /\ ops <= ops' /\ UNCHANGED <<vault, legacy, backups, tab, flight>>
  BY DEF Call, Begin, Inv, KeysInv
<1>2. RowInv' /\ draft'.key = draft.key
  BY DEF Call, Inv, RowInv, IsRow, ByOperators
<1> QED BY <1>1, <1>2, OthersKeep DEF Inv

LEMMA CommitInv == ASSUME Inv, NEW c, Commit(c) PROVE Inv'
<1>1. IsRow(draft)
  BY DEF Inv, RowInv
<1>2. IsRow(draft') /\ draft'.key = draft.key /\ draft'.counter = draft.counter
  <2>1. CASE c.kind = "appendSignature"
    BY <1>1, <2>1, SignedRow DEF Commit
  <2>2. CASE c.kind # "appendSignature"
    BY <1>1, <2>2 DEF Commit, IsRow
  <2> QED BY <2>1, <2>2
<1>3. ops' \in Nat /\ ops <= ops'
  BY DEF Commit, Inv, KeysInv
<1> QED BY <1>2, <1>3, OtherWrite, OthersKeep DEF Commit, Inv

-----------------------------------------------------------------------------
(* One tab moves *)

LEMMA SameRow == ASSUME Inv, UNCHANGED <<draft, applied>> PROVE RowInv'
BY DEF Inv, RowInv, IsRow, ByOperators

(* A step of tab t that drops no kept key while none is pinned, and may pin *)
(* one, keeps the invariant of the other tabs and of requests t does not    *)
(* wait for.                                                                *)
LEMMA TabsStep ==
  ASSUME Inv, NEW t \in Tab, NEW s, tab' = [tab EXCEPT ![t] = s], KeysInv',
         draft'.key = draft.key \/ draft.key = None, ops <= ops',
         \A u \in Tab \ {t} : legacy'[u] = legacy[u],
         draft.key = None => KeptKeys \cap OperatorKey \subseteq KeptKeys',
         TabInv(t)'
  PROVE  /\ TabsInv'
         /\ \A q \in flight : (q.tab = t => q.id # s.id) => FlightInv(q)'
<1>2. tab'[t] = s /\ \A u \in Tab \ {t} : tab'[u] = tab[u]
  BY DEF Inv, TabsInv
<1>3. ASSUME NEW u \in Tab \ {t} PROVE TabInv(u)'
  <2>1. TabInv(u) /\ tab'[u] = tab[u] /\ legacy'[u] = legacy[u]
    BY <1>2 DEF Inv, TabsInv
  <2>2. tab[u].pc \notin {"idle", "read"} => tab[u].key \in OperatorKey
    BY <2>1 DEF TabInv
  <2>3. tab'[u].pc \in Asking /\ draft'.key = None => tab'[u].key \in KeptKeys'
    BY <2>1, <2>2 DEF TabInv, Asking
  <2>4. ops \in Nat /\ ops' \in Nat
    BY DEF Inv, KeysInv
  <2>5. tab[u].pc = "save" => tab[u].key = draft'.key
    BY <2>1, <2>2, DraftAssumption DEF TabInv
  <2> QED BY <2>1, <2>3, <2>4, <2>5 DEF TabInv, IsTab
<1>4. TabsInv'
  BY <1>2, <1>3 DEF Inv, TabsInv
<1>5. ASSUME NEW q \in flight, q.tab = t => q.id # s.id PROVE FlightInv(q)'
  <2>1. FlightInv(q) /\ ops \in Nat /\ ops' \in Nat
    BY DEF Inv, KeysInv, RequestsInv
  <2>2. tab'[q.tab].id = q.id => Awaits(tab'[q.tab], q)
    BY <1>2, <1>5, <2>1 DEF FlightInv
  <2>3. q.kind = "claim" /\ draft'.key = None => q.key \in KeptKeys'
    BY <2>1 DEF FlightInv
  <2>4. q.kind = "mutate" /\ q.row # None => q.key = draft'.key
    BY <2>1, DraftAssumption DEF FlightInv
  <2> QED BY <2>1, <2>2, <2>3, <2>4 DEF FlightInv, IsRequest, Awaits
<1> QED BY <1>4, <1>5

LEMMA TabStep ==
  ASSUME Inv, NEW t \in Tab, NEW s, tab' = [tab EXCEPT ![t] = s], RowInv', KeysInv',
         draft'.key = draft.key \/ draft.key = None, ops <= ops',
         \A u \in Tab \ {t} : legacy'[u] = legacy[u],
         draft.key = None => KeptKeys \cap OperatorKey \subseteq KeptKeys',
         TabInv(t)', flight' \subseteq flight, \A q \in flight' : q.tab = t => q.id # s.id
  PROVE  Inv'
<1>1. /\ TabsInv'
      /\ \A q \in flight : (q.tab = t => q.id # s.id) => FlightInv(q)'
  BY TabsStep, Zenon
<1>2. tab'[t] = s /\ \A u \in Tab \ {t} : tab'[u] = tab[u]
  BY DEF Inv, TabsInv
<1>3. \A q \in flight : q.tab \in Tab
  BY DEF Inv, RequestsInv, FlightInv
<1>4. OneAwaited'
  BY <1>2, <1>3 DEF Inv, RequestsInv, OneAwaited
<1>5. (\A q \in flight : FlightInv(q))'
  BY <1>1
<1> QED BY <1>1, <1>4, <1>5 DEF Inv, RequestsInv

(* Only a tab that waits for an answer is awaited by a request. *)
LEMMA NotAwaited ==
  ASSUME Inv, NEW t \in Tab, tab[t].pc \notin {"claiming", "reclaiming", "mutating"}
  PROVE  \A q \in flight : q.tab = t => q.id # tab[t].id
BY DEF Inv, RequestsInv, FlightInv, Awaits

LEMMA Moved ==
  ASSUME TabsInv, NEW t \in Tab, NEW pc, NEW key, Move(t, pc, key)
  PROVE  \E s : /\ tab' = [tab EXCEPT ![t] = s]
                /\ IsTab(s) /\ s.pc = pc /\ s.key = key /\ s.id = tab[t].id
<1>1. PICK r, s : r = tab[t] /\ s = [r EXCEPT !.pc = pc, !.key = key]
  OBVIOUS
<1>2. tab' = [tab EXCEPT ![t] = s]
  BY <1>1 DEF Move, TabsInv
<1>3. IsTab(r)
  BY <1>1 DEF TabsInv, TabInv
<1>4. IsTab(s) /\ s.pc = pc /\ s.key = key /\ s.id = r.id
  BY <1>1, <1>3 DEF IsTab
<1> QED BY <1>1, <1>2, <1>4

(* A tab that waits for nothing moves on with a key. *)
LEMMA MoveStep ==
  ASSUME Inv, NEW t \in Tab, NEW pc, NEW key \in OperatorKey, Move(t, pc, key),
         tab[t].pc \notin {"idle", "claiming", "reclaiming", "mutating"},
         UNCHANGED <<draft, applied, flight, ops>>, KeysInv',
         \A u \in Tab \ {t} : legacy'[u] = legacy[u],
         draft.key = None => KeptKeys \cap OperatorKey \subseteq KeptKeys',
         pc = "store" /\ legacy'[t] # None => key = legacy'[t],
         pc \in Asking /\ draft.key = None => key \in KeptKeys',
         pc = "save" => key = draft.key
  PROVE  Inv'
<1>1. PICK s : /\ tab' = [tab EXCEPT ![t] = s]
               /\ IsTab(s) /\ s.pc = pc /\ s.key = key /\ s.id = tab[t].id
  BY Moved DEF Inv
<1>2. tab'[t] = s
  BY <1>1 DEF Inv, TabsInv
<1>3. tab[t].id \in 0 .. ops /\ tab[t].id > 0 /\ ops \in Nat
  BY DEF Inv, KeysInv, TabsInv, TabInv
<1>4. TabInv(t)'
  BY <1>1, <1>2, <1>3 DEF TabInv, IsTab
<1>5. \A q \in flight : q.tab = t => q.id # s.id
  BY <1>1, NotAwaited
<1>6. /\ RowInv' /\ ops <= ops' /\ draft'.key = draft.key /\ flight' \subseteq flight
      /\ \A q \in flight' : q.tab = t => q.id # s.id
  BY <1>3, <1>5, SameRow
<1> QED BY <1>1, <1>4, <1>6, TabStep, Zenon

(* Keys are where they were. *)
LEMMA SameKeys ==
  ASSUME Inv, UNCHANGED <<vault, legacy, backups>>, draft'.key = draft.key, ops' \in Nat
  PROVE  KeysInv' /\ KeptKeys' = KeptKeys
BY DEF Inv, KeysInv, PinnedKeyIsKept, KeptKeys

LEMMA StartInv == ASSUME Inv, NEW t \in Tab, Start(t) PROVE Inv'
<1>1. /\ UNCHANGED <<draft, applied, flight, vault, legacy, backups>>
      /\ ops \in Nat /\ ops' = ops + 1
  BY DEF Start, Begin, Inv, KeysInv
<1>2. KeysInv' /\ KeptKeys' = KeptKeys
  BY <1>1, SameKeys
<1>3. IsTab(tab[t]) /\ tab = [u \in Tab |-> tab[u]]
  BY DEF Inv, TabsInv, TabInv
<1>4. ASSUME NEW s, tab' = [tab EXCEPT ![t] = s], IsTab(s), s.id = ops',
             \/ s.pc = "read"
             \/ s.pc = "claim" /\ s.key \in backups
      PROVE  Inv'
  <2>1. tab'[t] = s
    BY <1>3, <1>4
  <2>2. s.key \in backups => s.key \in OperatorKey /\ s.key \in KeptKeys'
    BY <1>2 DEF Inv, KeysInv, KeptKeys
  <2>3. TabInv(t)'
    BY <1>1, <1>4, <2>1, <2>2 DEF TabInv, Asking
  <2>4. \A q \in flight : q.tab = t => q.id # s.id
    BY <1>1, <1>4 DEF Inv, RequestsInv, FlightInv
  <2>5. /\ RowInv' /\ ops <= ops' /\ draft'.key = draft.key /\ flight' \subseteq flight
        /\ \A q \in flight' : q.tab = t => q.id # s.id
        /\ \A u \in Tab \ {t} : legacy'[u] = legacy[u]
        /\ draft.key = None => KeptKeys \cap OperatorKey \subseteq KeptKeys'
    BY <1>1, <1>2, <2>4, SameRow
  <2> QED BY <1>2, <1>4, <2>3, <2>5, TabStep, Zenon
<1>5. ASSUME NEW n, NEW m,
             tab' = [tab EXCEPT ![t] =
               [@ EXCEPT !.pc = "read", !.id = ops', !.link = n, !.mutation = m]]
      PROVE  Inv'
  <2>1. PICK r, s : /\ r = tab[t]
                    /\ s = [r EXCEPT !.pc = "read", !.id = ops', !.link = n, !.mutation = m]
    OBVIOUS
  <2>2. tab' = [tab EXCEPT ![t] = s] /\ IsTab(r)
    BY <1>3, <1>5, <2>1
  <2>3. IsTab(s) /\ s.id = ops' /\ s.pc = "read"
    BY <2>1, <2>2 DEF IsTab
  <2> QED BY <2>2, <2>3, <1>4
<1>6. ASSUME NEW n, NEW k \in backups,
             tab' = [tab EXCEPT ![t] =
               [@ EXCEPT !.pc = "claim", !.id = ops', !.link = n,
                         !.mutation = "importBackup", !.key = k]]
      PROVE  Inv'
  <2>1. PICK r, s : /\ r = tab[t]
                    /\ s = [r EXCEPT !.pc = "claim", !.id = ops', !.link = n,
                                     !.mutation = "importBackup", !.key = k]
    OBVIOUS
  <2>2. tab' = [tab EXCEPT ![t] = s] /\ IsTab(r)
    BY <1>3, <1>6, <2>1
  <2>3. IsTab(s) /\ s.id = ops' /\ s.pc = "claim" /\ s.key \in backups
    BY <2>1, <2>2 DEF IsTab
  <2> QED BY <2>2, <2>3, <1>4
<1> QED BY <1>5, <1>6 DEF Start

LEMMA ReadInv == ASSUME Inv, NEW t \in Tab, Read(t) PROVE Inv'
<1>1. UNCHANGED <<draft, applied, flight, ops, vault, legacy, backups>> /\ tab[t].pc = "read"
  BY DEF Read
<1>2. KeysInv' /\ KeptKeys' = KeptKeys
  BY <1>1, SameKeys DEF Inv, KeysInv
<1>3. /\ BrowserOf[t] \in Browser /\ vault[BrowserOf[t]] \in KeyOrNone
      /\ legacy[t] \in KeyOrNone /\ vault[BrowserOf[t]] \in KeptKeys
  BY DraftAssumption DEF Inv, KeysInv, KeptKeys
<1>4. CASE vault[BrowserOf[t]] # None
  <2>1. Move(t, "claim", vault[BrowserOf[t]]) /\ vault[BrowserOf[t]] \in OperatorKey
    BY <1>3, <1>4 DEF Read, KeyOrNone
  <2> QED BY <1>1, <1>2, <1>3, <2>1, MoveStep
<1>5. CASE vault[BrowserOf[t]] = None /\ legacy[t] # None
  <2>1. Move(t, "store", legacy[t]) /\ legacy[t] \in OperatorKey
    BY <1>3, <1>5 DEF Read, KeyOrNone
  <2> QED BY <1>1, <1>2, <2>1, MoveStep DEF Asking
<1>6. CASE vault[BrowserOf[t]] = None /\ legacy[t] = None
  <2>1. PICK k \in OperatorKey : Move(t, "store", k)
    BY <1>6 DEF Read, Unseen
  <2> QED BY <1>1, <1>2, <1>6, <2>1, MoveStep DEF Asking
<1> QED BY <1>4, <1>5, <1>6

(* The key that survives is the one of the vault; what the session held     *)
(* only goes when it is that one.                                           *)
LEMMA StoreInv == ASSUME Inv, NEW t \in Tab, Store(t) PROVE Inv'
<1> DEFINE b == BrowserOf[t]
           kept == IF vault[b] = None THEN tab[t].key ELSE vault[b]
<1>1. /\ UNCHANGED <<draft, applied, flight, ops, backups>> /\ tab[t].pc = "store"
      /\ vault' = [vault EXCEPT ![b] = kept]
      /\ \/ /\ legacy[t] = None \/ kept = tab[t].key
            /\ legacy' = [legacy EXCEPT ![t] = None] /\ Move(t, "claim", kept)
         \/ legacy[t] # None /\ legacy' = legacy /\ Move(t, "reclaim", legacy[t])
  BY DEF Store
<1>2. /\ b \in Browser /\ vault \in [Browser -> KeyOrNone] /\ legacy \in [Tab -> KeyOrNone]
      /\ tab[t].key \in OperatorKey /\ ops \in Nat /\ backups \subseteq OperatorKey
      /\ legacy[t] # None => tab[t].key = legacy[t]
  BY <1>1, DraftAssumption DEF Inv, KeysInv, TabsInv, TabInv
<1>3. kept \in OperatorKey
  BY <1>2 DEF KeyOrNone
<1>4. vault' \in [Browser -> KeyOrNone] /\ legacy' \in [Tab -> KeyOrNone]
  BY <1>1, <1>2, <1>3 DEF KeyOrNone
<1>5. /\ vault'[b] = kept /\ \A c \in Browser \ {b} : vault'[c] = vault[c]
      /\ vault[b] # None => kept = vault[b]
      /\ \A u \in Tab \ {t} : legacy'[u] = legacy[u]
      /\ legacy'[t] = legacy[t] \/ (legacy[t] # None => legacy[t] = kept)
      /\ legacy'[t] = legacy[t] \/ legacy'[t] = None
  BY <1>1, <1>2
<1> HIDE DEF b, kept
<1>6. KeptKeys \cap OperatorKey \subseteq KeptKeys' /\ kept \in KeptKeys'
  BY <1>1, <1>2, <1>5, DraftAssumption DEF KeptKeys
<1>7. KeysInv'
  <2>1. draft.key \in KeyOrNone
    BY DEF Inv, RowInv
  <2> QED BY <1>1, <1>2, <1>4, <1>6, <2>1 DEF Inv, KeysInv, PinnedKeyIsKept, KeyOrNone
<1>8. CASE Move(t, "claim", kept)
  BY <1>1, <1>3, <1>5, <1>6, <1>7, <1>8, MoveStep
<1>9. CASE legacy[t] # None /\ legacy' = legacy /\ Move(t, "reclaim", legacy[t])
  <2>1. legacy[t] \in OperatorKey /\ legacy[t] \in KeptKeys'
    BY <1>2, <1>9 DEF KeyOrNone, KeptKeys
  <2> QED BY <1>1, <1>5, <1>6, <1>7, <1>9, <2>1, MoveStep
<1> QED BY <1>1, <1>8, <1>9

(* Only the pinned key is saved. *)
LEMMA SaveKeys ==
  ASSUME Inv, NEW t \in Tab, tab[t].pc = "save", UNCHANGED <<draft, ops, backups>>,
         vault' = [vault EXCEPT ![BrowserOf[t]] = tab[t].key],
         legacy' = legacy \/ legacy' = [legacy EXCEPT ![t] = None]
  PROVE  KeysInv' /\ draft.key # None
<1>1. /\ BrowserOf[t] \in Browser /\ vault \in [Browser -> KeyOrNone]
      /\ legacy \in [Tab -> KeyOrNone] /\ tab[t].key \in OperatorKey
      /\ tab[t].key = draft.key /\ ops \in Nat /\ backups \subseteq OperatorKey
  BY DraftAssumption DEF Inv, KeysInv, TabsInv, TabInv
<1>2. vault' \in [Browser -> KeyOrNone] /\ legacy' \in [Tab -> KeyOrNone]
  BY <1>1 DEF KeyOrNone
<1>3. vault'[BrowserOf[t]] = draft.key
  BY <1>1
<1>4. draft.key \in KeptKeys'
  BY <1>1, <1>3 DEF KeptKeys
<1> QED BY <1>1, <1>2, <1>4, DraftAssumption DEF KeysInv, PinnedKeyIsKept

(* A tab gives up: its id is that of no operation. *)
LEMMA FailsInv ==
  ASSUME Inv, NEW t \in Tab, Fails(t), UNCHANGED <<draft, applied, flight, ops>>, KeysInv',
         \A u \in Tab \ {t} : legacy'[u] = legacy[u],
         draft.key = None => KeptKeys \cap OperatorKey \subseteq KeptKeys'
  PROVE  Inv'
<1>1. tab' = [tab EXCEPT ![t] = Idle] /\ tab'[t] = Idle /\ ops \in Nat /\ ops' = ops
  BY DEF Fails, Inv, KeysInv, TabsInv
<1>2. TabInv(t)'
  BY <1>1 DEF TabInv, IsTab, Idle, Asking
<1>3. \A q \in flight : q.tab = t => q.id # Idle.id
  BY <1>1 DEF Inv, RequestsInv, FlightInv, Idle
<1>4. /\ RowInv' /\ ops <= ops' /\ draft'.key = draft.key /\ flight' \subseteq flight
      /\ \A q \in flight' : q.tab = t => q.id # Idle.id
  BY <1>1, <1>3, SameRow
<1> QED BY <1>1, <1>2, <1>4, TabStep, Zenon

LEMMA SaveInv == ASSUME Inv, NEW t \in Tab, Save(t) PROVE Inv'
<1>1. /\ UNCHANGED <<draft, applied, flight, ops, backups>> /\ tab[t].pc = "save"
      /\ vault' = [vault EXCEPT ![BrowserOf[t]] = tab[t].key]
      /\ \/ Fails(t) /\ legacy' = legacy
         \/ Move(t, "claimed", tab[t].key) /\ legacy' = [legacy EXCEPT ![t] = None]
  BY DEF Save
<1>2. KeysInv' /\ draft.key # None
  BY <1>1, SaveKeys
<1>3. \A u \in Tab \ {t} : legacy'[u] = legacy[u]
  BY <1>1 DEF Inv, KeysInv
<1>4. CASE Fails(t)
  BY <1>1, <1>2, <1>3, <1>4, FailsInv
<1>5. CASE Move(t, "claimed", tab[t].key)
  <2>1. tab[t].key \in OperatorKey
    BY <1>1 DEF Inv, TabsInv, TabInv
  <2> QED BY <1>1, <1>2, <1>3, <1>5, <2>1, MoveStep DEF Asking
<1> QED BY <1>1, <1>4, <1>5

LEMMA ExportBackupInv == ASSUME Inv, NEW t \in Tab, ExportBackup(t) PROVE Inv'
<1>1. /\ UNCHANGED <<draft, applied, flight, ops, vault, legacy>> /\ tab[t].pc = "claimed"
      /\ backups' = backups \cup {tab[t].key} /\ Fails(t)
  BY DEF ExportBackup
<1>2. tab[t].key \in OperatorKey
  BY <1>1 DEF Inv, TabsInv, TabInv
<1>3. KeptKeys \subseteq KeptKeys'
  BY <1>1 DEF KeptKeys
<1>4. KeysInv'
  BY <1>1, <1>2, <1>3 DEF Inv, KeysInv, PinnedKeyIsKept
<1> QED BY <1>1, <1>3, <1>4, FailsInv

LEMMA AbortInv == ASSUME Inv, NEW t \in Tab, Abort(t) PROVE Inv'
<1>1. UNCHANGED <<draft, applied, flight, ops, vault, legacy, backups>> /\ Fails(t)
  BY DEF Abort
<1>2. KeysInv' /\ KeptKeys' = KeptKeys
  BY <1>1, SameKeys DEF Inv, KeysInv
<1> QED BY <1>1, <1>2, FailsInv

-----------------------------------------------------------------------------
(* Requests *)

LEMMA SendInv ==
  ASSUME Inv, NEW t \in Tab, NEW kind \in {"claim", "mutate"}, NEW next, Send(t, kind, next),
         UNCHANGED <<draft, applied, ops, vault, legacy, backups>>,
         tab[t].pc \notin {"idle", "read", "claiming", "reclaiming", "mutating"},
         next \in IF kind = "claim" THEN {"claiming", "reclaiming"} ELSE {"mutating"},
         kind = "claim" => tab[t].pc \in Asking
  PROVE  Inv'
<1>1. PICK s : /\ tab' = [tab EXCEPT ![t] = s]
               /\ IsTab(s) /\ s.pc = next /\ s.key = tab[t].key /\ s.id = tab[t].id
  BY Moved DEF Send, Inv
<1>2. PICK q : /\ flight' = flight \cup {q} /\ IsRequest(q)
               /\ q.kind = kind /\ q.tab = t /\ q.row = None /\ q.id = tab[t].id
               /\ q.key = tab[t].key
  <2>1. PICK q : q = [kind |-> kind, tab |-> t, row |-> None, id |-> tab[t].id,
          link |-> tab[t].link, mutation |-> tab[t].mutation, key |-> tab[t].key,
          counter |-> tab[t].counter]
    OBVIOUS
  <2>2. flight' = flight \cup {q}
    BY <2>1 DEF Send
  <2>3. /\ IsRequest(q) /\ q.kind = kind /\ q.tab = t /\ q.row = None /\ q.id = tab[t].id
        /\ q.key = tab[t].key
    BY <2>1 DEF IsRequest
  <2> QED BY <2>2, <2>3
<1>3. KeysInv' /\ KeptKeys' = KeptKeys /\ RowInv' /\ ops <= ops' /\ ops \in Nat
  BY SameKeys, SameRow DEF Inv, KeysInv
<1>4. /\ tab'[t] = s /\ \A u \in Tab \ {t} : tab'[u] = tab[u]
      /\ tab[t].id \in 1 .. ops /\ tab[t].key \in OperatorKey
      /\ kind = "claim" /\ draft.key = None => tab[t].key \in KeptKeys
  BY <1>1, <1>3 DEF Inv, TabsInv, TabInv
<1>5. TabInv(t)'
  BY <1>1, <1>3, <1>4 DEF TabInv, IsTab, Asking
<1>6. \A r \in flight : r.tab = t => r.id # s.id
  BY <1>1, NotAwaited
<1>7. TabsInv' /\ \A r \in flight : FlightInv(r)'
  <2>1. /\ TabsInv'
        /\ \A r \in flight : (r.tab = t => r.id # s.id) => FlightInv(r)'
    BY <1>1, <1>3, <1>5, TabsStep
  <2> QED BY <1>6, <2>1
<1>8. FlightInv(q)'
  BY <1>1, <1>2, <1>3, <1>4 DEF FlightInv, Awaits, IsRequest
<1>9. OneAwaited'
  <2>1. \A r \in flight : r.tab \in Tab
    BY DEF Inv, RequestsInv, FlightInv
  <2> QED BY <1>1, <1>2, <1>4, <1>6, <2>1 DEF Inv, RequestsInv, OneAwaited
<1> QED BY <1>2, <1>3, <1>7, <1>8, <1>9 DEF Inv, RequestsInv

LEMMA ClaimInv == ASSUME Inv, NEW t \in Tab, Claim(t) PROVE Inv'
<1>1. tab[t].pc \in {"claim", "reclaim"}
  BY DEF Claim
<1>2. PICK next \in {"claiming", "reclaiming"} : Send(t, "claim", next)
  BY DEF Claim
<1>3. UNCHANGED <<draft, applied, ops, vault, legacy, backups>>
  BY DEF Claim
<1> QED BY <1>1, <1>2, <1>3, SendInv DEF Asking

LEMMA MutateInv == ASSUME Inv, NEW t \in Tab, Mutate(t) PROVE Inv'
<1>1. /\ tab[t].pc = "claimed" /\ Send(t, "mutate", "mutating")
      /\ UNCHANGED <<draft, applied, ops, vault, legacy, backups>>
  BY DEF Mutate
<1> QED BY <1>1, SendInv

(* Requests go and no tab moves; the row may change, and its key if it had  *)
(* none and the one it gets is kept.                                        *)
LEMMA RequestsStep ==
  ASSUME Inv, UNCHANGED <<tab, vault, legacy, backups, ops>>, RowInv', flight' \subseteq flight,
         \/ draft'.key = draft.key
         \/ draft.key = None /\ draft'.key \in KeptKeys /\ draft'.key # None
  PROVE  Inv'
<1>1. KeptKeys' = KeptKeys
  BY DEF KeptKeys
<1>2. KeysInv'
  BY <1>1 DEF Inv, KeysInv, PinnedKeyIsKept
<1>3. ASSUME NEW u \in Tab PROVE TabInv(u)'
  <2>1. TabInv(u)
    BY DEF Inv, TabsInv
  <2>2. tab[u].pc = "save" => tab[u].key = draft'.key
    BY <2>1, DraftAssumption DEF TabInv
  <2> QED BY <1>1, <2>1, <2>2 DEF TabInv, IsTab
<1>4. ASSUME NEW q \in flight PROVE FlightInv(q)'
  <2>1. FlightInv(q)
    BY DEF Inv, RequestsInv
  <2>2. q.kind = "mutate" /\ q.row # None => q.key = draft'.key
    BY <2>1, DraftAssumption DEF FlightInv
  <2> QED BY <1>1, <2>1, <2>2 DEF FlightInv, IsRequest, Awaits
<1>5. TabsInv' /\ RequestsInv'
  BY <1>3, <1>4 DEF Inv, TabsInv, RequestsInv, OneAwaited
<1> QED BY <1>2, <1>5 DEF Inv

LEMMA DropInv == ASSUME Inv, NEW q \in flight, Drop(q) PROVE Inv'
<1>1. /\ UNCHANGED <<draft, applied, tab, vault, legacy, backups, ops>>
      /\ flight' \subseteq flight
  BY DEF Drop
<1> QED BY <1>1, SameRow, RequestsStep

(* An answer reaches the tab that waits for it, or none. *)
LEMMA RespondInv ==
  ASSUME Inv, NEW q \in flight, NEW outcome, NEW counter, Respond(q, outcome, counter),
         RowInv',
         \/ draft'.key = draft.key
         \/ draft.key = None /\ draft'.key \in KeptKeys /\ draft'.key # None,
         q.kind = "claim" /\ outcome = "ok" => q.key = draft'.key
  PROVE  Inv'
<1> DEFINE t == q.tab
<1>1. /\ UNCHANGED <<vault, legacy, backups, ops>> /\ flight' = flight \ {q}
      /\ \/ tab' = tab
         \/ tab[t].id = q.id /\ Fails(t)
         \/ tab[t].id = q.id /\ q.kind = "claim" /\ Claimed(t, outcome, counter)
  BY DEF Respond
<1>2. CASE tab' = tab
  BY <1>1, <1>2, RequestsStep
<1>3. /\ t \in Tab /\ FlightInv(q) /\ TabInv(t) /\ ops \in Nat /\ legacy \in [Tab -> KeyOrNone]
      /\ tab = [u \in Tab |-> tab[u]]
  BY DEF Inv, KeysInv, TabsInv, RequestsInv, FlightInv
<1> HIDE DEF t
<1>4. KeysInv' /\ KeptKeys' = KeptKeys
  BY <1>1 DEF Inv, KeysInv, PinnedKeyIsKept, KeptKeys
<1>5. ASSUME NEW s, tab' = [tab EXCEPT ![t] = s], TabInv(t)', tab[t].id = q.id,
             s.id = 0 \/ s.id = q.id
      PROVE  Inv'
  <2>1. \A r \in flight' : r.tab = t => r.id # s.id
    BY <1>1, <1>5 DEF t, Inv, RequestsInv, OneAwaited, FlightInv
  <2>2. /\ flight' \subseteq flight /\ ops <= ops'
        /\ draft'.key = draft.key \/ draft.key = None
        /\ \A u \in Tab \ {t} : legacy'[u] = legacy[u]
        /\ draft.key = None => KeptKeys \cap OperatorKey \subseteq KeptKeys'
    BY <1>1, <1>3, <1>4
  <2> QED BY <1>3, <1>4, <1>5, <2>1, <2>2, TabStep, Zenon
<1>6. ASSUME tab[t].id = q.id, Fails(t) PROVE Inv'
  <2>1. tab' = [tab EXCEPT ![t] = Idle] /\ tab'[t] = Idle
    BY <1>3, <1>6 DEF Fails
  <2>2. TabInv(t)'
    BY <1>1, <1>3, <2>1 DEF TabInv, IsTab, Idle, Asking
  <2>3. Idle.id = 0
    BY DEF Idle
  <2> QED BY <1>5, <1>6, <2>1, <2>2, <2>3
<1>7. ASSUME tab[t].id = q.id, Move(t, "reclaim", legacy[t]), legacy[t] # None PROVE Inv'
  <2>1. PICK s : /\ tab' = [tab EXCEPT ![t] = s]
                 /\ IsTab(s) /\ s.pc = "reclaim" /\ s.key = legacy[t] /\ s.id = tab[t].id
    BY <1>3, <1>7, Moved DEF Inv
  <2>2. tab'[t] = s /\ legacy[t] \in OperatorKey /\ legacy[t] \in KeptKeys
    BY <1>3, <1>7, <2>1 DEF KeyOrNone, KeptKeys
  <2>3. q.id \in 1 .. ops
    BY <1>3 DEF FlightInv
  <2>4. TabInv(t)'
    BY <1>1, <1>3, <1>4, <1>7, <2>1, <2>2, <2>3 DEF TabInv, IsTab, Asking
  <2> QED BY <1>5, <1>7, <2>1, <2>4
<1>8. ASSUME tab[t].id = q.id, q.kind = "claim", outcome = "ok", NEW pc \in {"claimed", "save"},
             tab' = [tab EXCEPT ![t].pc = pc, ![t].counter = counter]
      PROVE  Inv'
  <2>1. PICK r, s : r = tab[t] /\ s = [r EXCEPT !.pc = pc, !.counter = counter]
    OBVIOUS
  <2>2. tab' = [tab EXCEPT ![t] = s] /\ IsTab(r)
    BY <1>3, <1>8, <2>1 DEF TabInv
  <2>3. IsTab(s) /\ s.pc = pc /\ s.key = tab[t].key /\ s.id = tab[t].id
    BY <2>1, <2>2 DEF IsTab
  <2>4. /\ tab'[t] = s /\ tab[t].key = q.key /\ q.key \in OperatorKey /\ q.key = draft'.key
        /\ q.id \in 1 .. ops
    BY <1>3, <1>8, <2>2 DEF t, FlightInv, Awaits
  <2>5. TabInv(t)'
    BY <1>1, <1>3, <1>8, <2>3, <2>4 DEF TabInv, IsTab, Asking
  <2> QED BY <1>5, <1>8, <2>2, <2>3, <2>5
<1>9. ASSUME tab[t].id = q.id, q.kind = "claim", Claimed(t, outcome, counter) PROVE Inv'
  BY <1>6, <1>7, <1>8, <1>9 DEF Claimed
<1> QED BY <1>1, <1>2, <1>6, <1>9

(* What a request loads is a draft its update may rely on. *)
LEMMA LoadedInv ==
  ASSUME Inv, NEW q \in flight, Loaded(q), UNCHANGED <<draft, applied>>,
         q.kind = "claim" => draft.key = None, q.kind = "mutate" => q.key = draft.key
  PROVE  Inv'
<1>1. PICK r : r = [q EXCEPT !.row = draft]
  OBVIOUS
<1>2. /\ flight' = (flight \ {q}) \cup {r} /\ UNCHANGED <<tab, vault, legacy, backups, ops>>
      /\ FlightInv(q)
  BY <1>1 DEF Loaded, Inv, RequestsInv
<1>3. /\ IsRequest(r) /\ r.row = draft /\ r.kind = q.kind /\ r.tab = q.tab
      /\ r.key = q.key /\ r.id = q.id
  BY <1>1, <1>2 DEF FlightInv, IsRequest
<1>4. KeysInv' /\ KeptKeys' = KeptKeys /\ RowInv'
  BY <1>2, SameKeys, SameRow DEF Inv, KeysInv
<1>5. TabsInv'
  BY <1>2, <1>4 DEF Inv, TabsInv, TabInv, IsTab
<1>6. draft.key = None => draft.counter = 0
  BY DEF Inv, RowInv
<1>7. FlightInv(r)'
  BY <1>2, <1>3, <1>4, <1>6 DEF FlightInv, Awaits, IsRequest
<1>8. \A p \in flight : FlightInv(p)'
  BY <1>2, <1>4 DEF Inv, RequestsInv, FlightInv, Awaits, IsRequest
<1>9. OneAwaited'
  BY <1>2, <1>3 DEF Inv, RequestsInv, OneAwaited
<1> QED BY <1>2, <1>4, <1>5, <1>7, <1>8, <1>9 DEF Inv, RequestsInv

LEMMA LoadInv == ASSUME Inv, NEW q \in flight, Load(q) PROVE Inv'
<1>1. /\ UNCHANGED <<draft, applied>>
      /\ \/ Respond(q, "refused", 0)
         \/ /\ Loaded(q)
            /\ q.kind = "mutate" => q.key = draft.key
            /\ q.kind # "mutate" => draft.key = None
         \/ \E o : Respond(q, o, draft.counter) /\ (o = "ok" => q.key = draft.key)
  <2>1. CASE q.kind # "mutate" /\ draft.key # None /\ q.link = draft.operator
    BY <2>1 DEF Load
  <2>2. CASE ~(q.kind # "mutate" /\ draft.key # None /\ q.link = draft.operator)
    BY <2>2 DEF Load
  <2> QED BY <2>1, <2>2
<1> QED BY <1>1, SameRow, LoadedInv, RespondInv

(* Pinning a key leaves the counter, and so the operators' history, at none. *)
LEMMA UpdateClaimInv == ASSUME Inv, NEW q \in flight, UpdateClaim(q) PROVE Inv'
<1>1. q.kind = "claim" /\ q.row # None /\ UNCHANGED applied
  BY DEF UpdateClaim
<1>2. CASE UNCHANGED draft /\ Respond(q, "refused", 0)
  BY <1>1, <1>2, SameRow, RespondInv
<1>3. ASSUME draft.key = None, Respond(q, "ok", q.row.counter),
             draft' = [draft EXCEPT !.key = q.key, !.counter = q.row.counter]
      PROVE  Inv'
  <2>1. q.row.counter = 0 /\ q.key \in OperatorKey /\ q.key \in KeptKeys
    BY <1>1, <1>3 DEF Inv, RequestsInv, FlightInv
  <2>2. IsRow(draft') /\ draft'.key = q.key /\ draft'.counter = 0
    BY <1>3, <2>1 DEF Inv, RowInv, IsRow
  <2>3. draft.counter = 0 /\ ByOperators' = ByOperators /\ ByOperators = {}
    BY <1>1, <1>3 DEF Inv, RowInv, ByOperators
  <2>4. RowInv'
    BY <1>1, <2>1, <2>2, <2>3, DraftAssumption DEF Inv, RowInv, KeyOrNone
  <2> QED BY <1>3, <2>1, <2>2, <2>4, RespondInv, DraftAssumption
<1> QED BY <1>2, <1>3 DEF UpdateClaim

(* A mutation counts one more, under the key that is pinned. *)
LEMMA UpdateDraftInv == ASSUME Inv, NEW q \in flight, UpdateDraft(q) PROVE Inv'
<1>1. q.kind = "mutate" /\ q.row # None
  BY DEF UpdateDraft
<1>2. CASE UNCHANGED <<draft, applied>> /\ Respond(q, "refused", 0)
  BY <1>1, <1>2, SameRow, RespondInv
<1>3. ASSUME q.counter = draft.counter, Record(q.mutation, q.id, q.key), Respond(q, "ok", 0),
             draft' = [Patched(q.row, q.mutation, q.id) EXCEPT !.counter = q.counter + 1]
      PROVE  Inv'
  <2>1. /\ q.key = draft.key /\ q.key \in OperatorKey /\ q.key # None
        /\ IsRow(draft) /\ draft.counter \in Nat /\ IsFiniteSet(ByOperators)
        /\ draft.counter = Cardinality(ByOperators)
        /\ \A i \in ByOperators : applied[i].by = draft.key
    BY <1>1, DraftAssumption DEF Inv, RowInv, RequestsInv, FlightInv
  <2>2. PICK p : p = Patched(q.row, q.mutation, q.id)
    OBVIOUS
  <2>3. IsRow(p) /\ p.key = draft.key
    BY <2>1, <2>2, PatchedRow
  <2>4. draft' = [p EXCEPT !.counter = q.counter + 1]
    BY <1>3, <2>2
  <2>5. IsRow(draft') /\ draft'.key = draft.key /\ draft'.counter = draft.counter + 1
    BY <1>3, <2>3, <2>4 DEF IsRow
  <2>6. PICK S : applied \in Seq(S)
    BY DEF Inv, RowInv
  <2>7. /\ \E T : applied' \in Seq(T)
        /\ IsFiniteSet(ByOperators)'
        /\ Cardinality(ByOperators)' = Cardinality(ByOperators) + 1
        /\ \A i \in ByOperators' : applied'[i].by = q.key \/ (i \in ByOperators /\ applied'[i] = applied[i])
    BY <1>3, <2>1, <2>6, RecordOperator
  <2>8. RowInv'
    BY <2>1, <2>5, <2>7 DEF RowInv, KeyOrNone
  <2> QED BY <1>1, <1>3, <2>5, <2>8, RespondInv
<1> QED BY <1>2, <1>3 DEF UpdateDraft

-----------------------------------------------------------------------------
LEMMA NextInv == Inv /\ [Next]_vars => Inv'
<1> SUFFICES ASSUME Inv, [Next]_vars PROVE Inv'
  OBVIOUS
<1>1. CASE UNCHANGED vars
  <2>1. /\ UNCHANGED <<draft, applied, vault, legacy, backups, tab, flight, ops>>
        /\ ops \in Nat
    BY <1>1 DEF vars, Inv, KeysInv
  <2> QED BY <2>1, SameRow, OthersKeep DEF Inv
<1>2. ASSUME NEW t \in Tab,
             \/ Start(t) \/ Read(t) \/ Store(t) \/ Claim(t) \/ Save(t)
             \/ ExportBackup(t) \/ Mutate(t) \/ Abort(t)
      PROVE  Inv'
  BY <1>2, StartInv, ReadInv, StoreInv, ClaimInv, SaveInv, ExportBackupInv, MutateInv, AbortInv
<1>3. ASSUME NEW q \in flight, Load(q) \/ UpdateClaim(q) \/ UpdateDraft(q) \/ Drop(q)
      PROVE  Inv'
  BY <1>3, LoadInv, UpdateClaimInv, UpdateDraftInv, DropInv
<1> QED BY <1>1, <1>2, <1>3, LocalInv, CallInv, CommitInv DEF Next

LEMMA InvAlways == Spec => []Inv
BY InitInv, NextInv, PTL DEF Spec

(* Operators act in one sequence, however many of their requests are in     *)
(* flight: handleMutation updates the row only where the counter is the one *)
(* it signed for, and handleClaim pins a key only where there is none.      *)
THEOREM OneSequence == Spec => []OneOperatorSequence
<1>1. Inv => OneOperatorSequence
  BY DEF Inv, RowInv, OneOperatorSequence
<1> QED BY <1>1, InvAlways, PTL

(* The pinned key is never the last of its kind to be dropped or            *)
(* overwritten, for any number of tabs, browsers and keys, whatever is      *)
(* aborted or lost.                                                         *)
THEOREM PinnedKeySurvives == Spec => []PinnedKeyIsKept
<1>1. Inv => PinnedKeyIsKept
  BY DEF Inv, KeysInv
<1> QED BY <1>1, InvAlways, PTL

-----------------------------------------------------------------------------
(* The lists of a draft: sorted by time, and only the latest entries kept   *)

(* Of two positions one comes first, and what is before it is before both.  *)
LEMMA EarlierOrder ==
  ASSUME NEW s \in Seq(Nat), NEW i \in DOMAIN s, NEW k \in DOMAIN s, i # k
  PROVE  /\ i \in Earlier(s, k) \/ k \in Earlier(s, i)
         /\ i \in Earlier(s, k) => Earlier(s, i) \cup {i} \subseteq Earlier(s, k)
<1>1. DOMAIN s = 1 .. Len(s) /\ Len(s) \in Nat /\ \A j \in DOMAIN s : s[j] \in Nat
  BY LenProperties
<1>2. i \in Int /\ k \in Int /\ s[i] \in Nat /\ s[k] \in Nat
  BY <1>1
<1>3. i \in Earlier(s, k) \/ k \in Earlier(s, i)
  BY <1>2 DEF Earlier
<1>4. ASSUME i \in Earlier(s, k), NEW j \in Earlier(s, i) PROVE j \in Earlier(s, k)
  <2>1. j \in DOMAIN s /\ j \in Int /\ s[j] \in Nat
    BY <1>1 DEF Earlier
  <2>2. s[j] < s[i] \/ (s[j] = s[i] /\ j < i)
    BY DEF Earlier
  <2>3. s[i] < s[k] \/ (s[i] = s[k] /\ i < k)
    BY <1>4 DEF Earlier
  <2>4. s[j] < s[k] \/ (s[j] = s[k] /\ j < k)
    BY <1>2, <2>1, <2>2, <2>3
  <2> QED BY <2>1, <2>4 DEF Earlier
<1> QED BY <1>3, <1>4

(* Every place in the order is some entry's.                                *)
LEMMA EveryRank ==
  ASSUME NEW s \in Seq(Nat), NEW n \in DOMAIN s
  PROVE  \E i \in DOMAIN s : Cardinality(Earlier(s, i)) = n - 1
<1> DEFINE D == 1 .. Len(s)
           rank == [i \in D |-> Cardinality(Earlier(s, i)) + 1]
<1>1. DOMAIN s = D /\ Len(s) \in Nat
  BY LenProperties
<1>2. IsFiniteSet(D) /\ Cardinality(D) = Len(s)
  <2>1. 1 \in Int /\ Len(s) \in Int
    BY <1>1
  <2>2. IsFiniteSet(1 .. Len(s)) /\ Cardinality(1 .. Len(s)) = IF 1 > Len(s) THEN 0 ELSE Len(s) - 1 + 1
    BY ONLY <2>1, FS_Interval
  <2> QED BY <1>1, <2>2
<1>3. ASSUME NEW i \in D
      PROVE  /\ IsFiniteSet(Earlier(s, i)) /\ i \notin Earlier(s, i)
             /\ Cardinality(Earlier(s, i)) \in 0 .. Len(s) - 1
  <2>1. Earlier(s, i) \subseteq D \ {i}
    BY <1>1 DEF Earlier
  <2>2. IsFiniteSet(D \ {i}) /\ Cardinality(D \ {i}) = Len(s) - 1
    BY <1>2, FS_RemoveElement
  <2>3. IsFiniteSet(Earlier(s, i)) /\ Cardinality(Earlier(s, i)) <= Len(s) - 1
    BY <2>1, <2>2, FS_Subset
  <2>4. Cardinality(Earlier(s, i)) \in Nat
    BY <2>3, FS_CardinalityType
  <2>5. i \notin Earlier(s, i)
    BY <2>1
  <2> QED BY <1>1, <2>3, <2>4, <2>5
<1>4. rank \in [D -> D]
  BY <1>1, <1>3
<1>5. ASSUME NEW i \in D, NEW k \in D, i \in Earlier(s, k), i # k
      PROVE  Cardinality(Earlier(s, i)) < Cardinality(Earlier(s, k))
  <2>1. Earlier(s, i) \cup {i} \subseteq Earlier(s, k)
    BY <1>1, <1>5, EarlierOrder
  <2>2. Cardinality(Earlier(s, i) \cup {i}) = Cardinality(Earlier(s, i)) + 1
    BY <1>3, FS_AddElement
  <2>3. Cardinality(Earlier(s, i) \cup {i}) <= Cardinality(Earlier(s, k))
    BY <1>3, <2>1, FS_Subset
  <2>4. Cardinality(Earlier(s, i)) \in Nat /\ Cardinality(Earlier(s, k)) \in Nat
    BY <1>3
  <2> QED BY <2>2, <2>3, <2>4
<1>6. ASSUME NEW i \in D, NEW k \in D, rank[i] = rank[k] PROVE i = k
  <2> SUFFICES ASSUME i # k PROVE FALSE
    OBVIOUS
  <2>1. Cardinality(Earlier(s, i)) = Cardinality(Earlier(s, k))
    BY <1>3, <1>6
  <2>2. i \in Earlier(s, k) \/ k \in Earlier(s, i)
    BY <1>1, EarlierOrder
  <2>3. Cardinality(Earlier(s, i)) \in Int /\ Cardinality(Earlier(s, k)) \in Int
    BY <1>3
  <2> QED BY <1>5, <2>1, <2>2, <2>3
<1>7. rank \in Injection(D, D)
  BY <1>4, <1>6 DEF Injection, IsInjective
<1>8. rank \in Surjection(D, D)
  BY ONLY <1>2, <1>7, FS_Injection
<1>9. PICK i \in D : rank[i] = n
  BY <1>1, <1>8 DEF Surjection
<1>10. Cardinality(Earlier(s, i)) + 1 = n /\ Cardinality(Earlier(s, i)) \in Int /\ n \in Int
  BY <1>1, <1>3, <1>9
<1> QED BY <1>1, <1>10

(* Sorting a list only moves its entries.                                   *)
LEMMA SortedList ==
  ASSUME NEW m \in Nat, NEW s \in Seq(1 .. m)
  PROVE  /\ ByTime(s) \in Seq(1 .. m) /\ Len(ByTime(s)) = Len(s)
         /\ \A n \in 1 .. Len(s) : \E i \in 1 .. Len(s) : ByTime(s)[n] = s[i]
<1>1. DOMAIN s = 1 .. Len(s) /\ Len(s) \in Nat /\ \A i \in 1 .. Len(s) : s[i] \in 1 .. m
  BY LenProperties
<1>2. s \in Seq(Nat)
  BY <1>1
<1>3. PICK r : r = [n \in 1 .. Len(s) |->
                      s[CHOOSE i \in 1 .. Len(s) : Cardinality(Earlier(s, i)) = n - 1]]
  OBVIOUS
<1>4. ByTime(s) = r
  BY <1>1, <1>3 DEF ByTime
<1>5. ASSUME NEW n \in 1 .. Len(s)
      PROVE  \E i \in 1 .. Len(s) : r[n] = s[i]
  <2>1. \E i \in 1 .. Len(s) : Cardinality(Earlier(s, i)) = n - 1
    BY <1>1, <1>2, EveryRank
  <2>2. PICK k : k = CHOOSE i \in 1 .. Len(s) : Cardinality(Earlier(s, i)) = n - 1
    OBVIOUS
  <2>3. k \in 1 .. Len(s)
    BY <2>1, <2>2
  <2>4. r[n] = s[k]
    BY <1>3, <2>2
  <2> QED BY <2>3, <2>4
<1>6. r \in Seq(1 .. m) /\ Len(r) = Len(s)
  <2>1. r \in [1 .. Len(s) -> 1 .. m]
    <3>1. DOMAIN r = 1 .. Len(s) /\ r = [n \in DOMAIN r |-> r[n]]
      BY ONLY <1>3
    <3>2. \A n \in 1 .. Len(s) : r[n] \in 1 .. m
      BY ONLY <1>1, <1>5
    <3> QED BY ONLY <3>1, <3>2
  <2>2. PICK k \in Nat : k = Len(s)
    BY <1>1
  <2>3. r \in [1 .. k -> 1 .. m]
    BY ONLY <2>1, <2>2
  <2>4. r \in Seq(1 .. m) /\ Len(r) = k
    BY ONLY <2>2, <2>3
  <2> QED BY ONLY <2>2, <2>4
<1> QED BY <1>4, <1>5, <1>6

LEMMA LeastOf ==
  ASSUME NEW a \in Int, NEW b \in Int
  PROVE  (a < b => Least(a, b) = a) /\ (~(a < b) => Least(a, b) = b) /\ Least(a, b) \in Int
BY DEF Least

(* The latest entries, in their order.                                      *)
LEMMA LatestList ==
  ASSUME NEW T, NEW s \in Seq(T), NEW n \in Nat \ {0}
  PROVE  /\ Latest(s, n) \in Seq(T) /\ Len(Latest(s, n)) = Least(Len(s), n)
         /\ \A k \in 1 .. Len(Latest(s, n)) : \E i \in 1 .. Len(s) : Latest(s, n)[k] = s[i]
<1>1. Len(s) \in Nat /\ DOMAIN s = 1 .. Len(s) /\ n \in Nat /\ n > 0
  BY LenProperties
<1>2. CASE Len(s) > n
  <2> DEFINE a == Len(s) - n + 1
  <2>1. a \in 1 .. Len(s) /\ Len(s) - a + 1 = n
    BY <1>1, <1>2
  <2>2. Latest(s, n) = SubSeq(s, a, Len(s))
    BY <1>2 DEF Latest
  <2>3. /\ SubSeq(s, a, Len(s)) \in Seq(T)
        /\ Len(SubSeq(s, a, Len(s))) = n
        /\ \A k \in 1 .. n : SubSeq(s, a, Len(s))[k] = s[a + k - 1]
    BY <1>1, <2>1, SubSeqProperties
  <2>4. \A k \in 1 .. n : a + k - 1 \in 1 .. Len(s)
    BY <1>1, <2>1
  <2>5. Least(Len(s), n) = n
    BY <1>1, <1>2, LeastOf
  <2> QED BY <2>2, <2>3, <2>4, <2>5
<1>3. CASE ~(Len(s) > n)
  <2>1. Latest(s, n) = s
    BY <1>3, Zenon DEF Latest
  <2>2. PICK c \in Nat, b \in Nat : c = Len(s) /\ b = n
    BY <1>1
  <2>3. ~(c > b)
    BY ONLY <1>3, <2>2, Zenon
  <2>4. b = c \/ c < b
    BY ONLY <2>3, c \in Nat, b \in Nat
  <2>5. Least(c, b) = c
    BY ONLY <2>4, c \in Nat, b \in Nat, LeastOf
  <2> QED BY <2>1, <2>2, <2>5
<1> QED BY <1>2, <1>3

(* An entry is filed: the list grows to its limit, and holds nothing else.  *)
LEMMA FiledList ==
  ASSUME NEW m \in Nat, NEW s \in Seq(1 .. m), NEW id \in 1 .. m, NEW n \in Nat \ {0},
         NEW l, \/ l = Latest(ByTime(Append(s, id)), n)
                \/ l = Latest(Append(s, id), n)
  PROVE  /\ l \in Seq(1 .. m) /\ Len(l) = Least(Len(s) + 1, n)
         /\ Range(l) \subseteq Range(s) \cup {id}
<1>1. PICK a : a = Append(s, id)
  OBVIOUS
<1>2. /\ a \in Seq(1 .. m) /\ Len(a) = Len(s) + 1 /\ Len(s) \in Nat /\ DOMAIN s = 1 .. Len(s)
      /\ \A i \in 1 .. Len(a) : a[i] \in Range(s) \cup {id}
  <2>1. Len(s) \in Nat /\ DOMAIN s = 1 .. Len(s)
    BY LenProperties
  <2>2. /\ a \in Seq(1 .. m) /\ Len(a) = Len(s) + 1 /\ a[Len(s) + 1] = id
        /\ \A i \in 1 .. Len(s) : a[i] = s[i]
    BY <1>1, AppendProperties
  <2>3. \A i \in 1 .. Len(s) : s[i] \in Range(s)
    BY ONLY <2>1 DEF Range
  <2>4. ASSUME NEW i \in 1 .. Len(a) PROVE a[i] \in Range(s) \cup {id}
    <3>1. i \in 1 .. Len(s) \/ i = Len(s) + 1
      BY <2>1, <2>2
    <3> QED BY <2>2, <2>3, <3>1
  <2> QED BY <2>1, <2>2, <2>4
<1>3. PICK b \in Seq(1 .. m) : /\ l = Latest(b, n) /\ Len(b) = Len(a)
                               /\ \A k \in 1 .. Len(a) : \E i \in 1 .. Len(a) : b[k] = a[i]
  <2>1. PICK c : c = ByTime(a)
    OBVIOUS
  <2>2. /\ c \in Seq(1 .. m) /\ Len(c) = Len(a)
        /\ \A k \in 1 .. Len(a) : \E i \in 1 .. Len(a) : c[k] = a[i]
    BY ONLY <1>2, <2>1, m \in Nat, SortedList
  <2>3. l = Latest(c, n) \/ l = Latest(a, n)
    BY <1>1, <2>1
  <2>4. \A k \in 1 .. Len(a) : \E i \in 1 .. Len(a) : a[k] = a[i]
    OBVIOUS
  <2>5. CASE l = Latest(c, n)
    BY <2>2, <2>5, Zenon
  <2>6. CASE l = Latest(a, n)
    BY <1>2, <2>4, <2>6, Zenon
  <2> QED BY <2>3, <2>5, <2>6
<1>4. /\ l \in Seq(1 .. m) /\ Len(l) = Least(Len(b), n)
      /\ \A k \in 1 .. Len(l) : \E i \in 1 .. Len(b) : l[k] = b[i]
  <2>1. /\ Latest(b, n) \in Seq(1 .. m) /\ Len(Latest(b, n)) = Least(Len(b), n)
        /\ \A k \in 1 .. Len(Latest(b, n)) : \E i \in 1 .. Len(b) : Latest(b, n)[k] = b[i]
    BY LatestList
  <2> QED BY <1>3, <2>1
<1>5. \A k \in 1 .. Len(l) : l[k] \in Range(s) \cup {id}
  BY <1>2, <1>3, <1>4
<1>6. DOMAIN l = 1 .. Len(l)
  BY <1>4, LenProperties
<1> QED BY <1>2, <1>3, <1>4, <1>5, <1>6 DEF Range

-----------------------------------------------------------------------------
(* The invariant of the lists                                               *)

Receipts == Ids("appendSubmissionReceipt")

(* What a row holds is named by operations begun so far, and is not more    *)
(* than a row may hold.                                                     *)
FiledAt(r, m) ==
  /\ r.status \in 0 .. m /\ r.relayPreflight \in 0 .. m
  /\ r.activity \in Seq(1 .. m) /\ Len(r.activity) <= ActivityLimit
  /\ r.receipts \in Seq(1 .. m) /\ Len(r.receipts) <= ReceiptLimit

RowLists ==
  /\ FiledAt(draft, ops) /\ draft.operator \in Nat /\ draft.collaborator \in Nat
  /\ draft.signatures \in Seq(Signer) /\ Receipts \subseteq 1 .. ops
  /\ ApprovalsAndReceiptsKept

CallLists ==
  /\ \A c \in rpc : \/ c.kind = "appendActivity" /\ c.id \in 1 .. ops
                    \/ c.kind = "appendSignature" /\ c.id \in Signer
  /\ ~setting.remote => flight = {} /\ \A t \in Tab : tab[t].pc = "idle"

(* An operation has one tab, and a name that no receipt and no mutation on  *)
(* its way has until the tab sends it.                                      *)
Used == Receipts \cup {q.id : q \in {r \in flight : r.kind = "mutate"}}
TabLists ==
  \A t \in Tab :
    /\ tab[t].pc \in Steps
    /\ tab[t].pc \in {"idle", "read"} => tab[t].key = None
    /\ tab[t].pc # "idle" => \A u \in Tab : tab[u].id = tab[t].id => u = t
    /\ tab[t].pc \notin {"idle", "mutating"} => tab[t].id \notin Used

(* A mutation is sent once, and if it may still be written, then no receipt *)
(* was filed since the row was loaded that it will write back.              *)
Writable(q) ==
  /\ FiledAt(q.row, ops) /\ q.counter \in Nat /\ q.counter <= draft.counter
  /\ q.counter = draft.counter => q.row.receipts = draft.receipts
RequestLists ==
  \A q \in flight : q.kind = "mutate" =>
    /\ q.mutation \in Mutation /\ q.id \notin Receipts
    /\ q.row # None => Writable(q)
    /\ \A r \in flight : r.kind = "mutate" /\ r.id = q.id => r = q

ListsInv == RowLists /\ CallLists /\ TabLists /\ RequestLists

(* With the other invariant it says what the lists keep.                    *)
LEMMA ListsFollow ==
  ASSUME Inv, ListsInv
  PROVE  ListsKept
<1>1. /\ draft.counter \in Nat /\ draft.key \in OperatorKey \cup {None}
      /\ vault \in [Browser -> OperatorKey \cup {None}]
      /\ legacy \in [Tab -> OperatorKey \cup {None}] /\ backups \subseteq OperatorKey
  BY DEF Inv, RowInv, KeysInv, KeyOrNone
<1>2. ASSUME NEW t \in Tab
      PROVE  /\ tab[t].pc \in Steps
             /\ tab[t].pc \in {"idle", "read"} <=> tab[t].key = None
  <2>1. None \notin OperatorKey
    BY DraftAssumption
  <2>2. /\ tab[t].pc \in Steps
        /\ tab[t].pc \in {"idle", "read"} => tab[t].key = None
        /\ tab[t].pc \notin {"idle", "read"} => tab[t].key \in OperatorKey
    BY DEF ListsInv, TabLists, Inv, TabsInv, TabInv
  <2> QED BY <2>1, <2>2
<1> QED BY <1>1, <1>2 DEF ListsKept, DraftTypeOK, ListsInv, RowLists, FiledAt

LEMMA ListsInit ==
  ASSUME Init
  PROVE  ListsInv
<1>1. applied = <<>> /\ DOMAIN applied = {}
  BY DEF Init
<1>2. \A kind : Ids(kind) = {}
  BY <1>1 DEF Ids, Committed
<1>3. Receipts = {} /\ flight = {} /\ rpc = {} /\ ops = 0
  BY <1>2 DEF Init, Receipts
<1>4. \A t \in Tab : tab[t] = Idle
  BY DEF Init
<1>5. PICK e : e = <<>>
  OBVIOUS
<1>6. /\ draft.status = 0 /\ draft.relayPreflight = 0 /\ draft.operator = 0
      /\ draft.collaborator = 0
      /\ draft.activity = e /\ draft.receipts = e /\ draft.signatures = e
  BY <1>5 DEF Init
<1>7. /\ \A T : e \in Seq(T)
      /\ Len(e) = 0 /\ DOMAIN e = {} /\ Range(e) = {} /\ IsInjective(e)
  BY <1>5 DEF Range, IsInjective
<1>8. RowLists
  <2>1. FiledAt(draft, ops)
    BY <1>3, <1>6, <1>7, DraftAssumption DEF FiledAt
  <2>2. ApprovalsAndReceiptsKept
    <3>1. ReceiptLimit \in Nat /\ ReceiptLimit > 0
      BY DraftAssumption
    <3>2. Least(0, ReceiptLimit) = 0
      BY <3>1, LeastOf
    <3>3. Cardinality({}) = 0
      BY FS_EmptySet
    <3> QED BY <1>2, <1>6, <1>7, <3>2, <3>3 DEF ApprovalsAndReceiptsKept
  <2> QED BY <1>3, <1>6, <1>7, <2>1, <2>2 DEF RowLists
<1>9. CallLists
  BY <1>3, <1>4 DEF CallLists, Idle
<1>10. TabLists
  BY <1>4 DEF TabLists, Idle, Steps
<1>11. RequestLists
  BY <1>3 DEF RequestLists
<1> QED BY <1>8, <1>9, <1>10, <1>11 DEF ListsInv

-----------------------------------------------------------------------------
(* The row's lists                                                          *)

(* A committed write names one more operation of its kind.                  *)
LEMMA IdsGrow ==
  ASSUME NEW S, applied \in Seq(S), NEW kind, NEW id, NEW by, Record(kind, id, by)
  PROVE  \A k : Ids(k)' = Ids(k) \cup IF k = kind THEN {id} ELSE {}
<1> DEFINE e == [kind |-> kind, id |-> id, by |-> by]
           n == Len(applied) + 1
<1>1. applied' = Append(applied, e) /\ e.kind = kind /\ e.id = id
  BY DEF Record
<1>2. applied \in Seq(S \cup {e}) /\ e \in S \cup {e} /\ DOMAIN applied = 1 .. Len(applied)
  OBVIOUS
<1> HIDE DEF e
<1>3. /\ applied' \in Seq(S \cup {e}) /\ Len(applied') = n /\ applied'[n] = e
      /\ \A i \in 1 .. Len(applied) : applied'[i] = applied[i]
  BY <1>1, <1>2
<1>4. Len(applied) \in Nat /\ DOMAIN applied' = DOMAIN applied \cup {n}
  BY <1>2, <1>3
<1>5. \A i \in DOMAIN applied : applied'[i] = applied[i]
  BY <1>2, <1>3
<1> HIDE DEF n
<1>6. ASSUME NEW k PROVE Ids(k)' = Ids(k) \cup IF k = kind THEN {id} ELSE {}
  <2>1. Ids(k)' = {applied'[i].id : i \in {j \in DOMAIN applied' : applied'[j].kind = k}}
    BY DEF Ids, Committed
  <2>2. Ids(k) = {applied[i].id : i \in {j \in DOMAIN applied : applied[j].kind = k}}
    BY DEF Ids, Committed
  <2> QED BY <1>1, <1>3, <1>4, <1>5, <2>1, <2>2
<1> QED BY <1>6

LEMMA FiledLater ==
  ASSUME NEW r, NEW m \in Nat, NEW n \in Nat, m <= n, FiledAt(r, m)
  PROVE  FiledAt(r, n)
<1>1. 0 .. m \subseteq 0 .. n /\ 1 .. m \subseteq 1 .. n
  OBVIOUS
<1>2. Seq(1 .. m) \subseteq Seq(1 .. n)
  BY <1>1
<1> QED BY <1>1, <1>2 DEF FiledAt

(* What a mutation writes.                                                  *)
LEMMA PatchedLists ==
  ASSUME IsRow(draft), NEW row, NEW m, NEW id, NEW p, p = Patched(row, m, id),
         NEW base, base = IF m \in Metadata THEN row ELSE draft
  PROVE  /\ p.status = IF m = "setStatus" THEN id ELSE draft.status
         /\ p.relayPreflight = IF m = "setRelayPreflight" THEN id ELSE base.relayPreflight
         /\ p.activity = IF m = "appendActivity"
                         THEN Latest(ByTime(Append(row.activity, id)), ActivityLimit)
                         ELSE base.activity
         /\ p.receipts = IF m = "appendSubmissionReceipt"
                         THEN Latest(ByTime(Append(row.receipts, id)), ReceiptLimit)
                         ELSE base.receipts
         /\ p.signatures = draft.signatures
         /\ p.operator = draft.operator \/ p.operator = draft.operator + 1
         /\ p.collaborator = draft.collaborator \/ p.collaborator = draft.collaborator + 1
<1> DEFINE s == IF m = "setStatus" THEN id ELSE draft.status
           v == IF m = "setRelayPreflight" THEN id ELSE base.relayPreflight
           a == IF m = "appendActivity"
                THEN Latest(ByTime(Append(row.activity, id)), ActivityLimit)
                ELSE base.activity
           e == IF m = "appendSubmissionReceipt"
                THEN Latest(ByTime(Append(row.receipts, id)), ReceiptLimit)
                ELSE base.receipts
           c == IF m = "rotateCollaboratorLink" THEN draft.collaborator + 1
                ELSE draft.collaborator
           o == IF m = "rotateOperatorLink" THEN draft.operator + 1 ELSE draft.operator
<1>1. p = [draft EXCEPT !.status = s, !.relayPreflight = v, !.activity = a,
                        !.receipts = e, !.collaborator = c, !.operator = o]
  BY DEF Patched
<1>2. DOMAIN draft = {"operator", "collaborator", "key", "counter", "status",
                     "relayPreflight", "activity", "receipts", "signatures"}
  BY DEF IsRow
<1>3. /\ o = draft.operator \/ o = draft.operator + 1
      /\ c = draft.collaborator \/ c = draft.collaborator + 1
  OBVIOUS
<1>4. /\ p.status = s /\ p.relayPreflight = v /\ p.activity = a /\ p.receipts = e
      /\ p.signatures = draft.signatures /\ p.collaborator = c /\ p.operator = o
  <2> HIDE DEF s, v, a, e, c, o
  <2> QED BY <1>1, <1>2
<1> QED BY <1>3, <1>4

(* The receipts of a row are those committed, up to the limit.              *)
ReceiptsOf(l, R) ==
  Range(l) \subseteq R /\ Len(l) = Least(Cardinality(R), ReceiptLimit)

LEMMA ReceiptFiled ==
  ASSUME NEW m \in Nat, NEW R \in SUBSET (1 .. m), NEW l \in Seq(1 .. m),
         ReceiptsOf(l, R), NEW id \in (1 .. m) \ R, NEW k,
         k = Latest(ByTime(Append(l, id)), ReceiptLimit)
  PROVE  k \in Seq(1 .. m) /\ Len(k) <= ReceiptLimit /\ ReceiptsOf(k, R \cup {id})
<1>1. ReceiptLimit \in Nat \ {0} /\ ReceiptLimit \in Int
  BY DraftAssumption
<1>2. IsFiniteSet(R)
  <2>1. 1 \in Int /\ m \in Int
    OBVIOUS
  <2>2. IsFiniteSet(1 .. m)
    BY ONLY <2>1, FS_Interval
  <2> QED BY <2>2, FS_Subset
<1>3. Cardinality(R) \in Nat /\ Cardinality(R \cup {id}) = Cardinality(R) + 1
  BY <1>2, FS_CardinalityType, FS_AddElement
<1>4. /\ k \in Seq(1 .. m) /\ Len(k) = Least(Len(l) + 1, ReceiptLimit)
      /\ Range(k) \subseteq Range(l) \cup {id}
  BY <1>1, FiledList
<1>5. PICK c \in Nat, n \in Nat : c = Cardinality(R) /\ n = ReceiptLimit
  BY <1>1, <1>3
<1>6. n > 0 /\ Len(l) = Least(c, n) /\ Len(k) = Least(Least(c, n) + 1, n)
  BY <1>1, <1>4, <1>5 DEF ReceiptsOf
<1>7. Least(Least(c, n) + 1, n) = Least(c + 1, n) /\ Least(c + 1, n) <= n
  BY ONLY <1>6, c \in Nat, n \in Nat DEF Least
<1>8. Len(k) = Least(Cardinality(R \cup {id}), ReceiptLimit) /\ Len(k) <= ReceiptLimit
  BY <1>3, <1>5, <1>6, <1>7
<1> QED BY <1>4, <1>8 DEF ReceiptsOf


(* A mutation files one more entry, in a row whose receipts are those of    *)
(* the draft.                                                               *)
LEMMA MutationLists ==
  ASSUME Inv, RowLists, ops' \in Nat, ops <= ops',
         NEW m, m # "appendSignature", NEW id \in (1 .. ops') \ Receipts, NEW by,
         Record(m, id, by),
         NEW row, FiledAt(row, ops), row.receipts = draft.receipts,
         NEW p, p = Patched(row, m, id),
         draft'.status = p.status, draft'.relayPreflight = p.relayPreflight,
         draft'.activity = p.activity, draft'.receipts = p.receipts,
         draft'.signatures = p.signatures, draft'.operator = p.operator,
         draft'.collaborator = p.collaborator
  PROVE  RowLists'
<1>1. PICK base : base = IF m \in Metadata THEN row ELSE draft
  OBVIOUS
<1>2. IsRow(draft) /\ ops \in Nat
  BY DEF Inv, RowInv, KeysInv
<1>3. /\ p.status = IF m = "setStatus" THEN id ELSE draft.status
      /\ p.relayPreflight = IF m = "setRelayPreflight" THEN id ELSE base.relayPreflight
      /\ p.activity = IF m = "appendActivity"
                      THEN Latest(ByTime(Append(row.activity, id)), ActivityLimit)
                      ELSE base.activity
      /\ p.receipts = IF m = "appendSubmissionReceipt"
                      THEN Latest(ByTime(Append(row.receipts, id)), ReceiptLimit)
                      ELSE base.receipts
      /\ p.signatures = draft.signatures
      /\ p.operator = draft.operator \/ p.operator = draft.operator + 1
      /\ p.collaborator = draft.collaborator \/ p.collaborator = draft.collaborator + 1
  BY <1>1, <1>2, PatchedLists
<1>4. FiledAt(draft, ops') /\ FiledAt(row, ops') /\ FiledAt(base, ops')
  <2>1. FiledAt(draft, ops)
    BY DEF RowLists
  <2> QED BY <1>1, <1>2, <2>1, FiledLater
<1>5. base.receipts = draft.receipts
  BY <1>1
<1>6. PICK R : R = Receipts
  OBVIOUS
<1>7. R \in SUBSET (1 .. ops') /\ ReceiptsOf(draft.receipts, R)
  BY <1>2, <1>6 DEF RowLists, ApprovalsAndReceiptsKept, ReceiptsOf, Receipts
<1>8. \A k : Ids(k)' = Ids(k) \cup IF k = m THEN {id} ELSE {}
  <2>1. PICK S : applied \in Seq(S)
    BY DEF Inv, RowInv
  <2> QED BY <2>1, IdsGrow
<1>9. /\ p.receipts \in Seq(1 .. ops') /\ Len(p.receipts) <= ReceiptLimit
      /\ ReceiptsOf(p.receipts, Receipts') /\ Receipts' \subseteq 1 .. ops'
  <2>1. CASE m = "appendSubmissionReceipt"
    <3>1. Receipts' = R \cup {id}
      BY <1>6, <1>8, <2>1 DEF Receipts
    <3>2. draft.receipts \in Seq(1 .. ops')
      BY <1>4 DEF FiledAt
    <3>3. p.receipts = Latest(ByTime(Append(draft.receipts, id)), ReceiptLimit)
      BY <1>3, <2>1
    <3>4. id \in (1 .. ops') \ R
      BY <1>6
    <3> HIDE DEF Receipts
    <3> QED BY <1>7, <3>1, <3>2, <3>3, <3>4, ReceiptFiled
  <2>2. CASE m # "appendSubmissionReceipt"
    <3>1. Receipts' = R
      BY <1>6, <1>8, <2>2 DEF Receipts
    <3>2. p.receipts = draft.receipts
      BY <1>3, <1>5, <2>2
    <3> QED BY <1>4, <1>7, <3>1, <3>2 DEF FiledAt
  <2> QED BY <2>1, <2>2
<1>10. p.activity \in Seq(1 .. ops') /\ Len(p.activity) <= ActivityLimit
  <2>1. CASE m = "appendActivity"
    <3>1. ActivityLimit \in Nat \ {0} /\ row.activity \in Seq(1 .. ops') /\ id \in 1 .. ops'
      BY <1>4, DraftAssumption DEF FiledAt
    <3>2. p.activity = Latest(ByTime(Append(row.activity, id)), ActivityLimit)
      BY <1>3, <2>1
    <3>3. /\ p.activity \in Seq(1 .. ops')
          /\ Len(p.activity) = Least(Len(row.activity) + 1, ActivityLimit)
      BY <3>1, <3>2, FiledList
    <3>4. Len(row.activity) + 1 \in Int /\ ActivityLimit \in Int
      BY <3>1
    <3>5. Least(Len(row.activity) + 1, ActivityLimit) <= ActivityLimit
      BY ONLY <3>4 DEF Least
    <3> QED BY <3>3, <3>5
  <2>2. CASE m # "appendActivity"
    <3>1. p.activity = base.activity
      BY <1>3, <2>2
    <3> QED BY <1>4, <3>1 DEF FiledAt
  <2> QED BY <2>1, <2>2
<1>11. p.status \in 0 .. ops' /\ p.relayPreflight \in 0 .. ops'
  BY <1>3, <1>4 DEF FiledAt
<1>12. FiledAt(draft', ops')
  BY <1>9, <1>10, <1>11 DEF FiledAt
<1>13. Ids("appendSignature")' = Ids("appendSignature")
  BY <1>8
<1>14. /\ draft'.signatures = draft.signatures
       /\ draft'.operator \in Nat /\ draft'.collaborator \in Nat
  BY <1>3 DEF RowLists
<1>15. ApprovalsAndReceiptsKept'
  BY <1>9, <1>13, <1>14 DEF ApprovalsAndReceiptsKept, RowLists, ReceiptsOf, Receipts
<1> QED BY <1>9, <1>12, <1>14, <1>15 DEF RowLists


(* A signature is added once; the rest of the row stays.                    *)
LEMMA SignatureLists ==
  ASSUME Inv, RowLists, ops' \in Nat, ops <= ops', NEW s \in Signer,
         Record("appendSignature", s, None), draft' = Signed(draft, s)
  PROVE  RowLists' /\ draft'.receipts = draft.receipts /\ Receipts' = Receipts
<1>1. PICK l : l = draft.signatures
  OBVIOUS
<1>2. IsRow(draft) /\ ops \in Nat
  BY DEF Inv, RowInv, KeysInv
<1>3. /\ l \in Seq(Signer) /\ Len(l) \in Nat /\ DOMAIN l = 1 .. Len(l)
      /\ IsInjective(l) /\ Range(l) = Ids("appendSignature")
  BY <1>1 DEF RowLists, ApprovalsAndReceiptsKept
<1>4. /\ Ids("appendSignature")' = Ids("appendSignature") \cup {s}
      /\ Receipts' = Receipts
  <2>1. PICK S : applied \in Seq(S)
    BY DEF Inv, RowInv
  <2>2. \A k : Ids(k)' = Ids(k) \cup IF k = "appendSignature" THEN {s} ELSE {}
    BY <2>1, IdsGrow
  <2>3. Ids("appendSignature")' = Ids("appendSignature") \cup {s}
    BY ONLY <2>2
  <2>4. Ids("appendSubmissionReceipt")' = Ids("appendSubmissionReceipt")
    BY ONLY <2>2
  <2> QED BY <2>3, <2>4 DEF Receipts
<1>5. /\ draft'.status = draft.status /\ draft'.relayPreflight = draft.relayPreflight
      /\ draft'.activity = draft.activity /\ draft'.receipts = draft.receipts
      /\ draft'.operator = draft.operator /\ draft'.collaborator = draft.collaborator
      /\ draft'.signatures = IF Contains(l, s) THEN l ELSE Append(l, s)
  BY <1>1, <1>2 DEF Signed, IsRow
<1>6. FiledAt(draft', ops')
  <2>1. FiledAt(draft, ops')
    BY <1>2, FiledLater DEF RowLists
  <2> QED BY <1>5, <2>1 DEF FiledAt
<1>7. /\ draft'.signatures \in Seq(Signer) /\ IsInjective(draft'.signatures)
      /\ Range(draft'.signatures) = Range(l) \cup {s}
  <2>1. CASE Contains(l, s)
    <3>1. s \in Range(l)
      BY <1>3, <2>1 DEF Contains, Range
    <3> QED BY <1>3, <1>5, <2>1, <3>1
  <2>2. CASE ~Contains(l, s)
    <3>1. PICK k : k = Append(l, s)
      OBVIOUS
    <3>2. /\ k \in Seq(Signer) /\ Len(k) = Len(l) + 1 /\ k[Len(l) + 1] = s
          /\ \A i \in 1 .. Len(l) : k[i] = l[i]
      BY <1>3, <3>1, AppendProperties
    <3>3. DOMAIN k = 1 .. Len(l) + 1
      BY <3>2
    <3>4. \A i \in 1 .. Len(l) : l[i] # s
      BY <2>2 DEF Contains
    <3>5. IsInjective(k)
      BY <1>3, <3>2, <3>3, <3>4 DEF IsInjective
    <3>6. Range(k) = Range(l) \cup {s}
      BY <1>3, <3>2, <3>3 DEF Range
    <3> QED BY <1>5, <2>2, <3>1, <3>2, <3>5, <3>6
  <2> QED BY <2>1, <2>2
<1>8. ApprovalsAndReceiptsKept'
  BY <1>3, <1>4, <1>5, <1>7 DEF ApprovalsAndReceiptsKept, RowLists, Receipts
<1>9. Receipts' \subseteq 1 .. ops'
  BY <1>2, <1>4 DEF RowLists
<1> QED BY <1>4, <1>5, <1>6, <1>7, <1>8, <1>9 DEF RowLists

(* The row and its history stay, but for the key, and operations begin.     *)
LEMMA SameLists ==
  ASSUME RowLists, ops \in Nat, ops' \in Nat, ops <= ops', UNCHANGED applied,
         \/ UNCHANGED draft
         \/ \E k, n : draft' = [draft EXCEPT !.key = k, !.counter = n] /\ IsRow(draft)
  PROVE  RowLists' /\ draft'.receipts = draft.receipts /\ Receipts' = Receipts
<1>1. \A k : Ids(k)' = Ids(k)
  BY DEF Ids, Committed
<1>2. Receipts' = Receipts
  BY <1>1 DEF Receipts
<1>3. /\ draft'.status = draft.status /\ draft'.relayPreflight = draft.relayPreflight
      /\ draft'.activity = draft.activity /\ draft'.receipts = draft.receipts
      /\ draft'.operator = draft.operator /\ draft'.collaborator = draft.collaborator
      /\ draft'.signatures = draft.signatures
  BY DEF IsRow
<1>4. FiledAt(draft, ops')
  BY FiledLater DEF RowLists
<1>5. FiledAt(draft', ops')
  BY <1>3, <1>4 DEF FiledAt
<1>6. ApprovalsAndReceiptsKept'
  BY <1>1, <1>3 DEF ApprovalsAndReceiptsKept, RowLists
<1>7. /\ draft'.operator \in Nat /\ draft'.collaborator \in Nat
      /\ draft'.signatures \in Seq(Signer) /\ Receipts' \subseteq 1 .. ops'
  <2>1. /\ draft.operator \in Nat /\ draft.collaborator \in Nat
        /\ draft.signatures \in Seq(Signer) /\ Receipts \subseteq 1 .. ops
    BY DEF RowLists
  <2> QED BY ONLY <1>2, <1>3, <2>1, ops \in Nat, ops' \in Nat, ops <= ops'
<1> QED BY ONLY <1>2, <1>3, <1>5, <1>6, <1>7 DEF RowLists

(* A signer's call that is committed.                                       *)
LEMMA CommitLists ==
  ASSUME Inv, ListsInv, NEW c \in rpc, Commit(c)
  PROVE  /\ RowLists' /\ draft'.receipts = draft.receipts /\ Receipts' = Receipts
         /\ draft'.counter = draft.counter
<1>1. IsRow(draft) /\ ops \in Nat /\ ops' = ops /\ Record(c.kind, c.id, None) /\ RowLists
  BY DEF Inv, RowInv, KeysInv, Commit, ListsInv
<1>2. CASE c.kind = "appendSignature" /\ c.id \in Signer
  <2>1. draft' = Signed(draft, c.id) /\ Record("appendSignature", c.id, None)
    BY <1>1, <1>2 DEF Commit
  <2>2. draft'.counter = draft.counter
    BY <1>1, <2>1, SignedRow
  <2> QED BY <1>1, <1>2, <2>1, <2>2, SignatureLists
<1>3. CASE c.kind = "appendActivity" /\ c.id \in 1 .. ops
  <2>1. PICK a : a = Latest(Append(draft.activity, c.id), ActivityLimit)
    OBVIOUS
  <2>2. draft' = [draft EXCEPT !.activity = a]
    BY <1>3, <2>1 DEF Commit
  <2>3. /\ draft'.status = draft.status /\ draft'.relayPreflight = draft.relayPreflight
        /\ draft'.activity = a /\ draft'.receipts = draft.receipts
        /\ draft'.operator = draft.operator /\ draft'.collaborator = draft.collaborator
        /\ draft'.signatures = draft.signatures /\ draft'.counter = draft.counter
    BY <1>1, <2>2 DEF IsRow
  <2>4. \A k : k # "appendActivity" => Ids(k)' = Ids(k)
    <3>1. PICK S : applied \in Seq(S)
      BY DEF Inv, RowInv
    <3>2. \A k : Ids(k)' = Ids(k) \cup IF k = c.kind THEN {c.id} ELSE {}
      BY <1>1, <3>1, IdsGrow
    <3> QED BY <1>3, <3>2
  <2>5. a \in Seq(1 .. ops) /\ Len(a) <= ActivityLimit
    <3>1. ActivityLimit \in Nat \ {0} /\ draft.activity \in Seq(1 .. ops)
      BY <1>1, DraftAssumption DEF RowLists, FiledAt
    <3>2. /\ a \in Seq(1 .. ops)
          /\ Len(a) = Least(Len(draft.activity) + 1, ActivityLimit)
      <4>1. PICK l, i : l = draft.activity /\ i = c.id
        OBVIOUS
      <4>2. /\ l \in Seq(1 .. ops) /\ i \in 1 .. ops
            /\ a = Latest(Append(l, i), ActivityLimit)
        BY <1>3, <2>1, <3>1, <4>1
      <4>3. a \in Seq(1 .. ops) /\ Len(a) = Least(Len(l) + 1, ActivityLimit)
        BY ONLY <1>1, <3>1, <4>2, FiledList
      <4> QED BY <4>1, <4>3
    <3>3. Len(draft.activity) + 1 \in Int /\ ActivityLimit \in Int
      BY <3>1
    <3>4. Least(Len(draft.activity) + 1, ActivityLimit) <= ActivityLimit
      BY ONLY <3>3 DEF Least
    <3> QED BY <3>2, <3>4
  <2>6. FiledAt(draft', ops')
    BY <1>1, <2>3, <2>5 DEF RowLists, FiledAt
  <2>7. Receipts' = Receipts
    BY <2>4 DEF Receipts
  <2>8. ApprovalsAndReceiptsKept'
    BY <1>1, <2>3, <2>4 DEF ApprovalsAndReceiptsKept, RowLists
  <2>9. RowLists'
    BY <1>1, <2>3, <2>6, <2>7, <2>8 DEF RowLists
  <2> QED BY <2>3, <2>7, <2>9
<1> QED BY <1>2, <1>3 DEF ListsInv, CallLists

-----------------------------------------------------------------------------
(* Tabs and requests                                                        *)

(* Requests go; what remains may still be written if it might before.       *)
LEMMA FewerRequests ==
  ASSUME Inv, RequestLists, ops' \in Nat, ops <= ops', flight' \subseteq flight,
         draft'.receipts = draft.receipts, Receipts' = Receipts,
         draft'.counter = draft.counter
  PROVE  RequestLists'
<1>1. ops \in Nat
  BY DEF Inv, KeysInv
<1>2. ASSUME NEW q \in flight, q.kind = "mutate", q.row # None PROVE Writable(q)'
  <2>1. Writable(q)
    BY <1>2 DEF RequestLists
  <2>2. FiledAt(q.row, ops')
    BY <1>1, <2>1, FiledLater DEF Writable
  <2> QED BY <2>1, <2>2 DEF Writable
<1> QED BY <1>2 DEF RequestLists

(* One mutation is written: no other may be any more.                       *)
LEMMA WrittenRequest ==
  ASSUME Inv, RequestLists, ops' = ops, NEW q \in flight, q.kind = "mutate",
         flight' = flight \ {q}, Receipts' \subseteq Receipts \cup {q.id},
         draft'.counter = draft.counter + 1
  PROVE  RequestLists'
<1>1. draft.counter \in Nat
  BY DEF Inv, RowInv
<1>2. ASSUME NEW r \in flight, r.kind = "mutate", r # q
      PROVE  r.id # q.id /\ (r.row # None => Writable(r)')
  <2>1. r.id # q.id
    BY <1>2 DEF RequestLists
  <2>2. ASSUME r.row # None PROVE Writable(r)'
    <3>1. Writable(r)
      BY <1>2, <2>2 DEF RequestLists
    <3>2. FiledAt(r.row, ops') /\ r.counter \in Nat /\ r.counter <= draft.counter
      BY <3>1 DEF Writable
    <3>3. r.counter <= draft'.counter /\ r.counter # draft'.counter
      BY <1>1, <3>2
    <3> QED BY <3>2, <3>3 DEF Writable
  <2> QED BY <2>1, <2>2
<1> QED BY <1>2 DEF RequestLists

LEMMA SameTabs ==
  ASSUME TabLists, UNCHANGED tab, Used' \subseteq Used
  PROVE  TabLists'
BY DEF TabLists

LEMMA MovedTab ==
  ASSUME Inv, TabLists, NEW t \in Tab, NEW s, tab' = [tab EXCEPT ![t] = s],
         s.pc \in Steps, s.pc \in {"idle", "read"} => s.key = None,
         \/ s.pc = "idle" /\ s.id = 0
         \/ s.id = tab[t].id /\ tab[t].pc \notin {"idle", "mutating"},
         Used' \subseteq Used \cup IF s.pc = "mutating" THEN {s.id} ELSE {}
  PROVE  TabLists'
<1>1. tab'[t] = s /\ \A u \in Tab \ {t} : tab'[u] = tab[u]
  BY DEF Inv, TabsInv
<1>2. \A u \in Tab : tab[u].pc # "idle" => tab[u].id # 0
  BY DEF Inv, KeysInv, TabsInv, TabInv
<1>3. ASSUME NEW u \in Tab, tab'[u].pc # "idle", NEW w \in Tab, tab'[w].id = tab'[u].id
      PROVE  w = u
  BY <1>1, <1>2, <1>3 DEF TabLists
<1>4. ASSUME NEW u \in Tab, tab'[u].pc \notin {"idle", "mutating"} PROVE tab'[u].id \notin Used'
  <2>1. CASE u = t
    BY <1>1, <1>4, <2>1 DEF TabLists
  <2>2. CASE u # t
    <3>1. tab[u].id \notin Used /\ tab'[u] = tab[u]
      BY <1>1, <1>4, <2>2 DEF TabLists
    <3>2. s.pc = "mutating" => s.id # tab[u].id
      BY <1>1, <1>3, <1>4, <2>2
    <3> QED BY <3>1, <3>2
  <2> QED BY <2>1, <2>2
<1>5. \A u \in Tab : /\ tab'[u].pc \in Steps
                     /\ tab'[u].pc \in {"idle", "read"} => tab'[u].key = None
  BY <1>1 DEF TabLists
<1> QED BY <1>3, <1>4, <1>5 DEF TabLists

(* The calls of signers stay, and where there is a server it stays.         *)
LEMMA SameCalls ==
  ASSUME CallLists, ops \in Nat, ops' \in Nat, ops <= ops', UNCHANGED setting, rpc' \subseteq rpc,
         setting.remote \/ UNCHANGED <<flight, tab>>
  PROVE  CallLists'
<1>1. 1 .. ops \subseteq 1 .. ops'
  OBVIOUS
<1> QED BY <1>1 DEF CallLists

(* A tab moves, and nothing else.                                           *)
LEMMA TabAlone ==
  ASSUME Inv, ListsInv, UNCHANGED <<setting, draft, rpc, applied, flight, ops>>,
         NEW t \in Tab, tab[t].pc # "idle", NEW s, tab' = [tab EXCEPT ![t] = s],
         s.pc \in Steps, s.pc \in {"idle", "read"} => s.key = None,
         \/ s.pc = "idle" /\ s.id = 0
         \/ s.id = tab[t].id /\ tab[t].pc # "mutating"
  PROVE  ListsInv'
<1>1. ops \in Nat /\ ops' = ops /\ ops <= ops'
  BY DEF Inv, KeysInv
<1>2. RowLists' /\ draft'.receipts = draft.receipts /\ Receipts' = Receipts
  BY <1>1, SameLists DEF ListsInv
<1>3. Used' = Used
  BY <1>2 DEF Used
<1>4. TabLists'
  BY <1>3, MovedTab DEF ListsInv
<1>5. RequestLists'
  BY <1>1, <1>2, FewerRequests DEF ListsInv
<1>6. CallLists'
  <2>1. setting.remote
    BY DEF ListsInv, CallLists
  <2> QED BY <1>1, <2>1, SameCalls DEF ListsInv
<1> QED BY <1>2, <1>4, <1>5, <1>6 DEF ListsInv

LEMMA MoveLists ==
  ASSUME Inv, ListsInv, UNCHANGED <<setting, draft, rpc, applied, flight, ops>>,
         NEW t \in Tab, tab[t].pc \notin {"idle", "mutating"},
         NEW pc, NEW key, Move(t, pc, key), pc \in Steps \ {"idle", "read"}
  PROVE  ListsInv'
<1>1. PICK s : /\ tab' = [tab EXCEPT ![t] = s]
               /\ IsTab(s) /\ s.pc = pc /\ s.key = key /\ s.id = tab[t].id
  BY Moved DEF Inv
<1> QED BY <1>1, TabAlone

LEMMA FailLists ==
  ASSUME Inv, ListsInv, UNCHANGED <<setting, draft, rpc, applied, flight, ops>>,
         NEW t \in Tab, tab[t].pc # "idle", Fails(t)
  PROVE  ListsInv'
<1>1. tab' = [tab EXCEPT ![t] = Idle]
  BY DEF Fails
<1>2. Idle.pc = "idle" /\ Idle.id = 0 /\ Idle.key = None /\ Idle.pc \in Steps
  BY DEF Idle, Steps
<1> QED BY <1>1, <1>2, TabAlone

LEMMA TabMoves ==
  ASSUME Inv, ListsInv, NEW t \in Tab,
         Read(t) \/ Store(t) \/ Save(t) \/ ExportBackup(t) \/ Abort(t)
  PROVE  ListsInv'
<1>1. UNCHANGED <<setting, draft, rpc, applied, flight, ops>>
  BY DEF Read, Store, Save, ExportBackup, Abort
<1>2. CASE Abort(t)
  BY <1>1, <1>2, FailLists DEF Abort
<1>3. CASE ~Abort(t)
  <2>1. tab[t].pc \in {"read", "store", "save", "claimed"}
    BY <1>3 DEF Read, Store, Save, ExportBackup
  <2>2. \/ Fails(t)
        \/ \E pc \in {"claim", "reclaim", "store", "claimed"} : \E key : Move(t, pc, key)
    <3>1. Read(t) => \E pc \in {"claim", "store"} : \E key : Move(t, pc, key)
      BY DEF Read
    <3>2. Store(t) => \E pc \in {"claim", "reclaim"} : \E key : Move(t, pc, key)
      BY DEF Store
    <3>3. Save(t) \/ ExportBackup(t) => Fails(t) \/ \E key : Move(t, "claimed", key)
      BY DEF Save, ExportBackup
    <3> QED BY <1>3, <3>1, <3>2, <3>3
  <2>3. {"claim", "reclaim", "store", "claimed"} \subseteq Steps \ {"idle", "read"}
    BY DEF Steps
  <2>4. CASE Fails(t)
    BY <1>1, <2>1, <2>4, FailLists
  <2>5. ASSUME NEW pc \in {"claim", "reclaim", "store", "claimed"}, NEW key, Move(t, pc, key)
        PROVE  ListsInv'
    BY <1>1, <2>1, <2>3, <2>5, MoveLists
  <2> QED BY <2>2, <2>4, <2>5
<1> QED BY <1>2, <1>3


(* An operation that begins has a name nothing has yet.                     *)
LEMMA StartLists == ASSUME Inv, ListsInv, NEW t \in Tab, Start(t) PROVE ListsInv'
<1>1. /\ UNCHANGED <<setting, draft, rpc, applied, flight>> /\ setting.remote
      /\ ops \in Nat /\ ops' = ops + 1 /\ ops' \in Nat /\ ops <= ops'
  <2>1. /\ UNCHANGED <<setting, draft, rpc, applied, flight>> /\ setting.remote
        /\ ops' = ops + 1
    BY Zenon DEF Start, Begin
  <2>2. ops \in Nat
    BY DEF Inv, KeysInv
  <2> QED BY ONLY <2>1, <2>2
<1>2. RowLists' /\ draft'.receipts = draft.receipts /\ Receipts' = Receipts
  BY <1>1, SameLists DEF ListsInv
<1>3. RequestLists'
  BY <1>1, <1>2, FewerRequests DEF ListsInv
<1>4. CallLists'
  BY <1>1, SameCalls DEF ListsInv
<1>5. IsTab(tab[t]) /\ tab = [u \in Tab |-> tab[u]]
  BY DEF Inv, TabsInv, TabInv
<1>6. tab[t].pc = "idle" /\ tab[t].key = None
  <2>1. tab[t].pc = "idle"
    BY DEF Start, Unlocked
  <2> QED BY <2>1 DEF ListsInv, TabLists
<1>7. \A u \in Tab : tab[u].id \in 0 .. ops
  BY DEF Inv, TabsInv, TabInv
<1>8. Used' = Used /\ Used \subseteq 1 .. ops
  <2>1. Used' = Used
    BY <1>1, <1>2 DEF Used
  <2>2. \A q \in flight : q.id \in 1 .. ops
    BY DEF Inv, RequestsInv, FlightInv
  <2>3. Receipts \subseteq 1 .. ops
    BY DEF ListsInv, RowLists
  <2> HIDE DEF Receipts
  <2> QED BY <2>1, <2>2, <2>3 DEF Used
<1>9. ASSUME NEW s, tab' = [tab EXCEPT ![t] = s], s.id = ops',
             s.pc = "claim" \/ (s.pc = "read" /\ s.key = None)
      PROVE  TabLists'
  <2>1. tab'[t] = s /\ \A u \in Tab \ {t} : tab'[u] = tab[u]
    BY <1>5, <1>9
  <2>2. s.id \notin Used' /\ \A u \in Tab : s.id # tab[u].id
    BY <1>1, <1>7, <1>8, <1>9
  <2>3. \A u \in Tab : /\ tab'[u].pc \in Steps
                       /\ tab'[u].pc \in {"idle", "read"} => tab'[u].key = None
    BY <1>9, <2>1 DEF ListsInv, TabLists, Steps
  <2>4. ASSUME NEW u \in Tab, tab'[u].pc # "idle", NEW w \in Tab, tab'[w].id = tab'[u].id
        PROVE  w = u
    BY <2>1, <2>2, <2>4 DEF ListsInv, TabLists
  <2>5. ASSUME NEW u \in Tab, tab'[u].pc \notin {"idle", "mutating"} PROVE tab'[u].id \notin Used'
    BY <1>8, <2>1, <2>2, <2>5 DEF ListsInv, TabLists
  <2> QED BY <2>3, <2>4, <2>5 DEF TabLists
<1>10. ASSUME NEW n, NEW m,
              tab' = [tab EXCEPT ![t] =
                [@ EXCEPT !.pc = "read", !.id = ops', !.link = n, !.mutation = m]]
       PROVE  TabLists'
  <2>1. PICK r, s : /\ r = tab[t]
                    /\ s = [r EXCEPT !.pc = "read", !.id = ops', !.link = n, !.mutation = m]
    OBVIOUS
  <2>2. tab' = [tab EXCEPT ![t] = s] /\ IsTab(r) /\ r.key = None
    BY <1>5, <1>6, <1>10, <2>1
  <2>3. s.id = ops' /\ s.pc = "read" /\ s.key = None
    BY <2>1, <2>2 DEF IsTab
  <2> QED BY <1>9, <2>2, <2>3
<1>11. ASSUME NEW n, NEW k \in backups,
              tab' = [tab EXCEPT ![t] =
                [@ EXCEPT !.pc = "claim", !.id = ops', !.link = n,
                          !.mutation = "importBackup", !.key = k]]
       PROVE  TabLists'
  <2>1. PICK r, s : /\ r = tab[t]
                    /\ s = [r EXCEPT !.pc = "claim", !.id = ops', !.link = n,
                                     !.mutation = "importBackup", !.key = k]
    OBVIOUS
  <2>2. tab' = [tab EXCEPT ![t] = s] /\ IsTab(r)
    BY <1>5, <1>11, <2>1
  <2>3. s.id = ops' /\ s.pc = "claim"
    BY <2>1, <2>2 DEF IsTab
  <2> QED BY <1>9, <2>2, <2>3
<1>12. TabLists'
  BY <1>10, <1>11 DEF Start
<1> QED BY <1>2, <1>3, <1>4, <1>12 DEF ListsInv

LEMMA SendLists ==
  ASSUME Inv, ListsInv, NEW t \in Tab, NEW kind \in {"claim", "mutate"}, NEW next,
         Send(t, kind, next), UNCHANGED <<setting, draft, rpc, applied, ops>>,
         tab[t].pc \notin {"idle", "mutating"},
         next \in IF kind = "claim" THEN {"claiming", "reclaiming"} ELSE {"mutating"},
         kind = "mutate" => tab[t].mutation \in Mutation
  PROVE  ListsInv'
<1>1. PICK s : /\ tab' = [tab EXCEPT ![t] = s]
               /\ IsTab(s) /\ s.pc = next /\ s.key = tab[t].key /\ s.id = tab[t].id
  BY Moved DEF Send, Inv
<1>2. PICK q : /\ flight' = flight \cup {q}
               /\ q.kind = kind /\ q.row = None /\ q.id = tab[t].id
               /\ q.mutation = tab[t].mutation
  <2>1. PICK q : q = [kind |-> kind, tab |-> t, row |-> None, id |-> tab[t].id,
          link |-> tab[t].link, mutation |-> tab[t].mutation, key |-> tab[t].key,
          counter |-> tab[t].counter]
    OBVIOUS
  <2>2. flight' = flight \cup {q}
    BY <2>1 DEF Send
  <2> QED BY <2>1, <2>2
<1>3. ops \in Nat /\ ops' = ops /\ ops <= ops'
  BY DEF Inv, KeysInv
<1>4. RowLists' /\ draft'.receipts = draft.receipts /\ Receipts' = Receipts
  BY <1>3, SameLists DEF ListsInv
<1>5. setting.remote
  BY DEF ListsInv, CallLists
<1>6. CallLists'
  BY <1>3, <1>5, SameCalls DEF ListsInv
<1>7. tab[t].id \notin Used
  BY DEF ListsInv, TabLists
<1>8. Used' = Used \cup IF kind = "mutate" THEN {q.id} ELSE {}
  <2> HIDE DEF Receipts
  <2> QED BY <1>2, <1>4 DEF Used
<1>9. TabLists'
  <2>1. s.pc \in Steps /\ s.pc \notin {"idle", "read"}
    BY <1>1 DEF Steps
  <2>2. Used' \subseteq Used \cup IF s.pc = "mutating" THEN {s.id} ELSE {}
    BY <1>1, <1>2, <1>8
  <2>3. s.id = tab[t].id
    BY <1>1
  <2> QED BY <1>1, <2>1, <2>2, <2>3, MovedTab DEF ListsInv
<1>10. RequestLists'
  <2>1. ASSUME NEW r \in flight, r.kind = "mutate", r.row # None PROVE Writable(r)'
    BY <1>3, <2>1 DEF ListsInv, RequestLists, Writable
  <2>2. kind = "mutate" =>
          /\ q.mutation \in Mutation /\ q.id \notin Receipts
          /\ \A r \in flight : r.kind = "mutate" => r.id # q.id
    BY <1>2, <1>7 DEF Used
  <2>3. q.row = None
    BY <1>2
  <2> HIDE DEF Receipts
  <2> QED BY <1>2, <1>4, <2>1, <2>2, <2>3 DEF ListsInv, RequestLists
<1> QED BY <1>4, <1>6, <1>9, <1>10 DEF ListsInv

LEMMA ClaimLists == ASSUME Inv, ListsInv, NEW t \in Tab, Claim(t) PROVE ListsInv'
<1>1. /\ tab[t].pc \in {"claim", "reclaim"}
      /\ \E next \in {"claiming", "reclaiming"} : Send(t, "claim", next)
      /\ UNCHANGED <<setting, draft, rpc, applied, ops>>
  BY DEF Claim
<1> QED BY <1>1, SendLists

LEMMA MutateLists == ASSUME Inv, ListsInv, NEW t \in Tab, Mutate(t) PROVE ListsInv'
<1>1. /\ tab[t].pc = "claimed" /\ tab[t].mutation \in Mutation /\ Send(t, "mutate", "mutating")
      /\ UNCHANGED <<setting, draft, rpc, applied, ops>>
  BY DEF Mutate
<1> QED BY <1>1, SendLists

-----------------------------------------------------------------------------
(* Every step keeps the lists                                               *)

LEMMA LocalLists == ASSUME Inv, ListsInv, Local PROVE ListsInv'
<1>1. /\ UNCHANGED <<setting, tab, flight, rpc>> /\ ~setting.remote /\ ops' = ops + 1
  BY Zenon DEF Local, Begin
<1>2. /\ ops \in Nat /\ ops' \in Nat /\ ops <= ops' /\ ops' \in 1 .. ops'
  BY <1>1 DEF Inv, KeysInv
<1>3. flight = {} /\ \A t \in Tab : tab[t].pc = "idle"
  BY <1>1 DEF ListsInv, CallLists
<1>4. CallLists'
  BY <1>1, <1>2, SameCalls DEF ListsInv
<1>5. TabLists'
  BY <1>1, <1>3 DEF ListsInv, TabLists
<1>6. RequestLists'
  BY <1>1, <1>3 DEF RequestLists
<1>7. ASSUME NEW m \in Mutation, draft' = Patched(draft, m, ops'), Record(m, ops', None)
      PROVE  RowLists'
  <2>1. m # "appendSignature"
    BY DraftAssumption DEF Mutations
  <2>2. Receipts \subseteq 1 .. ops /\ FiledAt(draft, ops)
    BY DEF ListsInv, RowLists
  <2>3. ops' \in (1 .. ops') \ Receipts
    <3> HIDE DEF Receipts
    <3> QED BY <1>1, <1>2, <2>2
  <2> QED BY <1>2, <1>7, <2>1, <2>2, <2>3, MutationLists DEF ListsInv
<1>8. ASSUME NEW s \in Signer, draft' = Signed(draft, s), Record("appendSignature", s, None)
      PROVE  RowLists'
  BY <1>2, <1>8, SignatureLists DEF ListsInv
<1>9. RowLists'
  <2>1. \/ \E m \in Mutation : draft' = Patched(draft, m, ops') /\ Record(m, ops', None)
        \/ \E s \in Signer : draft' = Signed(draft, s) /\ Record("appendSignature", s, None)
    BY Zenon DEF Local
  <2> QED BY <1>7, <1>8, <2>1
<1> QED BY <1>4, <1>5, <1>6, <1>9 DEF ListsInv

LEMMA CallKeepsLists == ASSUME Inv, ListsInv, Call PROVE ListsInv'
<1>1. /\ UNCHANGED <<setting, draft, tab, flight, applied>> /\ ops' = ops + 1
  BY Zenon DEF Call, Begin
<1>2. ops \in Nat /\ ops' \in Nat /\ ops <= ops' /\ ops' \in 1 .. ops'
  BY <1>1 DEF Inv, KeysInv
<1>3. RowLists' /\ draft'.receipts = draft.receipts /\ Receipts' = Receipts
  BY <1>1, <1>2, SameLists DEF ListsInv
<1>4. PICK c : /\ rpc' = rpc \cup {c}
               /\ \/ c.kind = "appendActivity" /\ c.id \in 1 .. ops'
                  \/ c.kind = "appendSignature" /\ c.id \in Signer
  <2>1. PICK e \in {[kind |-> "appendActivity", id |-> ops']}
                   \cup [kind: {"appendSignature"}, id: Signer] :
          rpc' = rpc \cup {[kind |-> e.kind, id |-> e.id, op |-> ops', row |-> draft]}
    BY Zenon DEF Call
  <2>2. PICK c : c = [kind |-> e.kind, id |-> e.id, op |-> ops', row |-> draft]
    OBVIOUS
  <2>3. c.kind = e.kind /\ c.id = e.id
    BY <2>2
  <2> QED BY <1>2, <2>1, <2>2, <2>3
<1>5. CallLists'
  <2>1. 1 .. ops \subseteq 1 .. ops'
    BY <1>2
  <2> QED BY <1>1, <1>4, <2>1 DEF ListsInv, CallLists
<1>6. RequestLists'
  BY <1>1, <1>2, <1>3, FewerRequests DEF ListsInv
<1>7. TabLists'
  <2>1. Used' = Used
    BY <1>1, <1>3 DEF Used
  <2> QED BY <1>1, <2>1, SameTabs DEF ListsInv
<1> QED BY <1>3, <1>5, <1>6, <1>7 DEF ListsInv

LEMMA CommitKeepsLists == ASSUME Inv, ListsInv, NEW c \in rpc, Commit(c) PROVE ListsInv'
<1>1. /\ UNCHANGED <<setting, tab, flight, ops>> /\ rpc' \subseteq rpc
  BY DEF Commit
<1>2. ops \in Nat /\ ops' \in Nat /\ ops <= ops'
  BY <1>1 DEF Inv, KeysInv
<1>3. /\ RowLists' /\ draft'.receipts = draft.receipts /\ Receipts' = Receipts
      /\ draft'.counter = draft.counter
  BY CommitLists
<1>4. CallLists'
  BY <1>1, <1>2, SameCalls DEF ListsInv
<1>5. RequestLists'
  BY <1>1, <1>2, <1>3, FewerRequests DEF ListsInv
<1>6. TabLists'
  <2>1. Used' = Used
    BY <1>1, <1>3 DEF Used
  <2> QED BY <1>1, <2>1, SameTabs DEF ListsInv
<1> QED BY <1>3, <1>4, <1>5, <1>6 DEF ListsInv

(* The answer to a request, when the row and what is still in flight keep   *)
(* their lists.                                                             *)
LEMMA RespondLists ==
  ASSUME Inv, ListsInv, NEW q \in flight, NEW outcome, NEW counter,
         Respond(q, outcome, counter), RowLists', RequestLists',
         Receipts' \subseteq Receipts \cup IF q.kind = "mutate" THEN {q.id} ELSE {}
  PROVE  ListsInv'
<1> DEFINE t == q.tab
<1>1. /\ UNCHANGED <<setting, rpc, ops>> /\ flight' = flight \ {q}
      /\ \/ tab' = tab
         \/ tab[t].id = q.id /\ Fails(t)
         \/ tab[t].id = q.id /\ q.kind = "claim" /\ Claimed(t, outcome, counter)
  BY DEF Respond
<1>2. ops \in Nat /\ ops' \in Nat /\ ops <= ops'
  BY <1>1 DEF Inv, KeysInv
<1>3. setting.remote
  BY DEF ListsInv, CallLists
<1>4. CallLists'
  BY <1>1, <1>2, <1>3, SameCalls DEF ListsInv
<1>5. Used' \subseteq Used
  <2> HIDE DEF Receipts
  <2> QED BY <1>1 DEF Used
<1>6. t \in Tab /\ FlightInv(q) /\ TabsInv
  BY DEF Inv, RequestsInv, FlightInv
<1>7. CASE tab' = tab
  <2>1. TabLists'
    BY <1>5, <1>7, SameTabs DEF ListsInv
  <2> QED BY <1>4, <2>1 DEF ListsInv
<1>8. ASSUME NEW s, tab' = [tab EXCEPT ![t] = s],
             s.pc \in Steps \ {"read"}, s.pc = "idle" => s.key = None,
             \/ s.pc = "idle" /\ s.id = 0
             \/ s.id = tab[t].id /\ tab[t].pc \notin {"idle", "mutating"}
      PROVE  ListsInv'
  <2>1. TabLists'
    <3> HIDE DEF t
    <3>1. /\ s.pc \in Steps
          /\ s.pc \in {"idle", "read"} => s.key = None
      BY <1>8
    <3> QED BY <1>5, <1>6, <1>8, <3>1, MovedTab DEF ListsInv
  <2> QED BY <1>4, <2>1 DEF ListsInv
<1>9. ASSUME Fails(t) PROVE ListsInv'
  <2>1. tab' = [tab EXCEPT ![t] = Idle]
    BY <1>9 DEF Fails
  <2>2. Idle.pc = "idle" /\ Idle.id = 0 /\ Idle.key = None /\ Idle.pc \in Steps \ {"read"}
    BY DEF Idle, Steps
  <2> QED BY <1>8, <2>1, <2>2
<1>10. ASSUME tab[t].id = q.id, q.kind = "claim", Claimed(t, outcome, counter)
       PROVE  ListsInv'
  <2>1. tab[t].pc \notin {"idle", "mutating"}
    BY <1>6, <1>10 DEF FlightInv, Awaits
  <2>2. \/ Fails(t)
        \/ Move(t, "reclaim", legacy[t])
        \/ \E pc \in {"claimed", "save"} :
             tab' = [tab EXCEPT ![t].pc = pc, ![t].counter = counter]
    BY <1>10 DEF Claimed
  <2>3. CASE Move(t, "reclaim", legacy[t])
    <3>1. PICK s : /\ tab' = [tab EXCEPT ![t] = s]
                   /\ IsTab(s) /\ s.pc = "reclaim" /\ s.key = legacy[t] /\ s.id = tab[t].id
      <4> HIDE DEF t
      <4> QED BY <1>6, <2>3, Moved
    <3>2. s.pc \in Steps \ {"read"} /\ s.pc # "idle"
      BY <3>1 DEF Steps
    <3> QED BY <1>8, <2>1, <3>1, <3>2
  <2>4. ASSUME NEW pc \in {"claimed", "save"},
               tab' = [tab EXCEPT ![t].pc = pc, ![t].counter = counter]
        PROVE  ListsInv'
    <3>1. PICK r, s : r = tab[t] /\ s = [r EXCEPT !.pc = pc, !.counter = counter]
      OBVIOUS
    <3>2. tab' = [tab EXCEPT ![t] = s] /\ IsTab(r)
      <4> HIDE DEF t
      <4> QED BY <1>6, <2>4, <3>1 DEF TabsInv, TabInv
    <3>3. s.pc = pc /\ s.id = tab[t].id
      BY <3>1, <3>2 DEF IsTab
    <3>4. s.pc \in Steps \ {"read"} /\ s.pc # "idle"
      BY <3>3 DEF Steps
    <3> QED BY <1>8, <2>1, <3>2, <3>3, <3>4
  <2> QED BY <1>9, <2>2, <2>3, <2>4
<1> QED BY <1>1, <1>7, <1>9, <1>10


(* An answer that says no: the row is as it was.                            *)
LEMMA RefusedLists ==
  ASSUME Inv, ListsInv, NEW q \in flight, NEW outcome, NEW counter,
         Respond(q, outcome, counter), UNCHANGED <<draft, applied>>
  PROVE  ListsInv'
<1>1. /\ ops \in Nat /\ ops' \in Nat /\ ops <= ops' /\ flight' \subseteq flight
  BY DEF Respond, Inv, KeysInv
<1>2. RowLists' /\ draft'.receipts = draft.receipts /\ Receipts' = Receipts
  BY <1>1, SameLists DEF ListsInv
<1>3. RequestLists'
  BY <1>1, <1>2, FewerRequests DEF ListsInv
<1>4. Receipts' \subseteq Receipts \cup IF q.kind = "mutate" THEN {q.id} ELSE {}
  BY <1>2
<1> QED BY <1>2, <1>3, <1>4, RespondLists

LEMMA DropLists == ASSUME Inv, ListsInv, NEW q \in flight, Drop(q) PROVE ListsInv'
<1>1. /\ UNCHANGED <<setting, draft, applied, tab, rpc, ops>> /\ flight' \subseteq flight
  BY DEF Drop
<1>2. ops \in Nat /\ ops' \in Nat /\ ops <= ops'
  BY <1>1 DEF Inv, KeysInv
<1>3. RowLists' /\ draft'.receipts = draft.receipts /\ Receipts' = Receipts
  BY <1>1, <1>2, SameLists DEF ListsInv
<1>4. RequestLists'
  BY <1>1, <1>2, <1>3, FewerRequests DEF ListsInv
<1>5. CallLists'
  <2>1. setting.remote
    BY DEF ListsInv, CallLists
  <2> QED BY <1>1, <1>2, <2>1, SameCalls DEF ListsInv
<1>6. Used' \subseteq Used
  <2> HIDE DEF Receipts
  <2> QED BY <1>1, <1>3 DEF Used
<1>7. TabLists'
  BY <1>1, <1>6, SameTabs DEF ListsInv
<1> QED BY <1>3, <1>4, <1>5, <1>7 DEF ListsInv

(* A mutation loads the draft at the counter it was signed for.             *)
LEMMA LoadedLists ==
  ASSUME Inv, ListsInv, NEW q \in flight, Loaded(q), UNCHANGED <<draft, applied>>,
         q.kind = "mutate" => q.counter = draft.counter
  PROVE  ListsInv'
<1>1. PICK r : r = [q EXCEPT !.row = draft]
  OBVIOUS
<1>2. flight' = (flight \ {q}) \cup {r} /\ UNCHANGED <<setting, tab, rpc, ops>>
  BY <1>1 DEF Loaded
<1>3. /\ r.row = draft /\ r.kind = q.kind /\ r.id = q.id /\ r.counter = q.counter
      /\ r.mutation = q.mutation
  <2>1. IsRequest(q)
    BY DEF Inv, RequestsInv, FlightInv
  <2> QED BY <1>1, <2>1 DEF IsRequest
<1>4. ops \in Nat /\ ops' \in Nat /\ ops <= ops' /\ draft.counter \in Nat
  BY <1>2 DEF Inv, KeysInv, RowInv
<1>5. RowLists' /\ draft'.receipts = draft.receipts /\ Receipts' = Receipts
  BY <1>4, SameLists DEF ListsInv
<1>6. CallLists'
  <2>1. setting.remote
    BY DEF ListsInv, CallLists
  <2> QED BY <1>2, <1>4, <2>1, SameCalls DEF ListsInv
<1>7. TabLists'
  <2>1. Used' \subseteq Used
    <3> HIDE DEF Receipts
    <3> QED BY <1>2, <1>3, <1>5 DEF Used
  <2> QED BY <1>2, <2>1, SameTabs DEF ListsInv
<1>8. RequestLists'
  <2>1. ASSUME NEW p \in flight, p.kind = "mutate", p.row # None PROVE Writable(p)'
    BY <1>2, <2>1 DEF ListsInv, RequestLists, Writable
  <2>2. r.kind = "mutate" => Writable(r)'
    <3>1. FiledAt(draft, ops)
      BY DEF ListsInv, RowLists
    <3> QED BY <1>2, <1>3, <1>4, <3>1 DEF Writable
  <2>3. r.kind = "mutate" =>
          /\ r.mutation \in Mutation /\ r.id \notin Receipts
          /\ \A p \in flight \ {q} : p.kind = "mutate" => p.id # r.id
    <3> HIDE DEF Receipts
    <3> QED BY <1>3 DEF ListsInv, RequestLists
  <2> HIDE DEF Receipts
  <2> QED BY <1>2, <1>3, <1>5, <2>1, <2>2, <2>3 DEF ListsInv, RequestLists
<1> QED BY <1>5, <1>6, <1>7, <1>8 DEF ListsInv

LEMMA LoadLists == ASSUME Inv, ListsInv, NEW q \in flight, Load(q) PROVE ListsInv'
<1>1. /\ UNCHANGED <<draft, applied>>
      /\ \/ \E o, n : Respond(q, o, n)
         \/ Loaded(q) /\ (q.kind = "mutate" => q.counter = draft.counter)
  <2>1. CASE q.kind = "mutate" /\ q.link = draft.operator
    BY <2>1 DEF Load
  <2>2. CASE ~(q.kind = "mutate" /\ q.link = draft.operator)
    BY <2>2 DEF Load
  <2> QED BY <2>1, <2>2
<1> QED BY <1>1, RefusedLists, LoadedLists

(* A claim changes the key, and the counter to the one it has.              *)
LEMMA UpdateClaimLists == ASSUME Inv, ListsInv, NEW q \in flight, UpdateClaim(q) PROVE ListsInv'
<1>1. q.kind = "claim" /\ q.row # None /\ UNCHANGED applied
  BY DEF UpdateClaim
<1>2. CASE UNCHANGED draft /\ Respond(q, "refused", 0)
  BY <1>1, <1>2, RefusedLists
<1>3. ASSUME draft.key = None, Respond(q, "ok", q.row.counter),
             draft' = [draft EXCEPT !.key = q.key, !.counter = q.row.counter]
      PROVE  ListsInv'
  <2>1. ops \in Nat /\ ops' \in Nat /\ ops <= ops' /\ flight' \subseteq flight /\ IsRow(draft)
    BY <1>3 DEF Respond, Inv, KeysInv, RowInv
  <2>2. RowLists' /\ draft'.receipts = draft.receipts /\ Receipts' = Receipts
    BY <1>1, <1>3, <2>1, SameLists DEF ListsInv
  <2>3. draft'.counter = draft.counter
    <3>1. q.row.counter = 0 /\ draft.counter = 0
      BY <1>1, <1>3 DEF Inv, RowInv, RequestsInv, FlightInv
    <3> QED BY <1>3, <2>1, <3>1 DEF IsRow
  <2>4. RequestLists'
    BY <2>1, <2>2, <2>3, FewerRequests DEF ListsInv
  <2>5. Receipts' \subseteq Receipts \cup IF q.kind = "mutate" THEN {q.id} ELSE {}
    BY <2>2
  <2> QED BY <1>3, <2>2, <2>4, <2>5, RespondLists
<1> QED BY <1>2, <1>3 DEF UpdateClaim

(* A mutation writes back the lists of the row it loaded, to which no       *)
(* receipt was added since.                                                 *)
LEMMA UpdateDraftLists == ASSUME Inv, ListsInv, NEW q \in flight, UpdateDraft(q) PROVE ListsInv'
<1>1. q.kind = "mutate" /\ q.row # None
  BY DEF UpdateDraft
<1>2. CASE UNCHANGED <<draft, applied>> /\ Respond(q, "refused", 0)
  BY <1>2, RefusedLists
<1>3. ASSUME q.counter = draft.counter, Record(q.mutation, q.id, q.key), Respond(q, "ok", 0),
             draft' = [Patched(q.row, q.mutation, q.id) EXCEPT !.counter = q.counter + 1]
      PROVE  ListsInv'
  <2>1. /\ q.id \in 1 .. ops /\ IsRow(draft) /\ draft.counter \in Nat /\ ops \in Nat
        /\ q.row.receipts = draft.receipts /\ FiledAt(q.row, ops)
        /\ q.mutation \in Mutation /\ q.id \notin Receipts
    <3>1. q.id \in 1 .. ops /\ IsRow(draft) /\ draft.counter \in Nat /\ ops \in Nat
      BY DEF Inv, RowInv, KeysInv, RequestsInv, FlightInv
    <3>2. Writable(q) /\ q.mutation \in Mutation /\ q.id \notin Receipts
      BY <1>1 DEF ListsInv, RequestLists
    <3> QED BY <1>3, <3>1, <3>2 DEF Writable
  <2>2. ops' = ops /\ flight' = flight \ {q}
    BY <1>3 DEF Respond
  <2>3. PICK p : p = Patched(q.row, q.mutation, q.id)
    OBVIOUS
  <2>4. IsRow(p)
    BY <2>1, <2>3, PatchedRow
  <2>5. /\ draft'.status = p.status /\ draft'.relayPreflight = p.relayPreflight
        /\ draft'.activity = p.activity /\ draft'.receipts = p.receipts
        /\ draft'.signatures = p.signatures /\ draft'.operator = p.operator
        /\ draft'.collaborator = p.collaborator /\ draft'.counter = draft.counter + 1
    <3>1. draft' = [p EXCEPT !.counter = q.counter + 1]
      BY <1>3, <2>3
    <3> QED BY <1>3, <2>4, <3>1 DEF IsRow
  <2>6. RowLists'
    <3>1. q.mutation # "appendSignature"
      BY <2>1, DraftAssumption DEF Mutations
    <3>2. q.id \in (1 .. ops') \ Receipts /\ ops' \in Nat /\ ops <= ops'
      <4> HIDE DEF Receipts
      <4> QED BY <2>1, <2>2
    <3> QED BY <1>3, <2>1, <2>3, <2>5, <3>1, <3>2, MutationLists DEF ListsInv
  <2>7. Receipts' \subseteq Receipts \cup {q.id}
    <3>1. PICK S : applied \in Seq(S)
      BY DEF Inv, RowInv
    <3>2. \A k : Ids(k)' = Ids(k) \cup IF k = q.mutation THEN {q.id} ELSE {}
      BY <1>3, <3>1, IdsGrow
    <3> QED BY <3>2 DEF Receipts
  <2>8. RequestLists'
    BY <1>1, <2>2, <2>5, <2>7, WrittenRequest DEF ListsInv
  <2>9. Receipts' \subseteq Receipts \cup IF q.kind = "mutate" THEN {q.id} ELSE {}
    BY <1>1, <2>7
  <2> QED BY <1>3, <2>6, <2>8, <2>9, RespondLists
<1> QED BY <1>2, <1>3 DEF UpdateDraft

LEMMA ListsNext == Inv /\ ListsInv /\ [Next]_vars => ListsInv'
<1> SUFFICES ASSUME Inv, ListsInv, [Next]_vars PROVE ListsInv'
  OBVIOUS
<1>1. CASE UNCHANGED vars
  <2>1. /\ UNCHANGED <<setting, draft, applied, tab, flight, rpc, ops>>
        /\ ops \in Nat /\ ops' \in Nat /\ ops <= ops'
    BY <1>1 DEF vars, Inv, KeysInv
  <2>2. RowLists' /\ draft'.receipts = draft.receipts /\ Receipts' = Receipts
    BY <2>1, SameLists DEF ListsInv
  <2>3. RequestLists'
    BY <2>1, <2>2, FewerRequests DEF ListsInv
  <2>4. CallLists'
    BY <2>1, SameCalls DEF ListsInv
  <2>5. Used' \subseteq Used
    BY <2>1, <2>2 DEF Used
  <2>6. TabLists'
    BY <2>1, <2>5, SameTabs DEF ListsInv
  <2> QED BY <2>2, <2>3, <2>4, <2>6 DEF ListsInv
<1>2. ASSUME NEW t \in Tab,
             \/ Start(t) \/ Read(t) \/ Store(t) \/ Claim(t) \/ Save(t)
             \/ ExportBackup(t) \/ Mutate(t) \/ Abort(t)
      PROVE  ListsInv'
  BY <1>2, StartLists, ClaimLists, MutateLists, TabMoves
<1>3. ASSUME NEW q \in flight, Load(q) \/ UpdateClaim(q) \/ UpdateDraft(q) \/ Drop(q)
      PROVE  ListsInv'
  BY <1>3, LoadLists, UpdateClaimLists, UpdateDraftLists, DropLists
<1> QED BY <1>1, <1>2, <1>3, LocalLists, CallKeepsLists, CommitKeepsLists DEF Next

(* No approval and no receipt that was committed is lost: a write of the    *)
(* metadata puts back the receipts of a row that is still the latest, since *)
(* handleMutation compares the counter, and the signers' SQL appends to the *)
(* row it has locked; every list keeps its type and its limit.              *)
THEOREM ListsAlwaysKept == Spec => []ListsKept
<1>1. Inv /\ ListsInv => ListsKept
  BY ListsFollow
<1> QED BY <1>1, ListsInit, ListsNext, InvAlways, InitInv, NextInv, PTL DEF Spec
=============================================================================
