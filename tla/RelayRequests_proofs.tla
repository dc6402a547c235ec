------------------------- MODULE RelayRequests_proofs -------------------------
(***************************************************************************)
(* Proofs about the relay, for every number of requests, keys and clients  *)
(* and every deployment: however requests interleave, fail, expire and are *)
(* killed between two calls.                                               *)
(*                                                                         *)
(* The invariant speaks of one request at a time (RequestInv), of what is  *)
(* stored for one key (Stored) and of the limiter.  A step of a request    *)
(* leaves the other requests alone but for one thing: it may send.  What   *)
(* is stored comes from requests that are past sending, so it stays true.  *)
(***************************************************************************)
EXTENDS RelayRequests, SequenceTheorems, TLAPS

Entries == [client: Client, hits: 0 .. MaxRequests]

(* Deployment and requests are those of a scene. *)
Given == \E s \in Scene : deployment = s.deployment /\ ask = s.ask

Types ==
  /\ lock \in [Key -> Request \cup {None}]
  /\ response \in [Key -> Verdicts \cup {None}]
  /\ journal \in [Request -> {None, "accepted", "replayed", "completed", "failed"}]
  /\ phase \in [Request -> Phases] /\ verdict \in [Request -> Verdicts]
  /\ window \in [Client -> [count: Nat, ttl: BOOLEAN]]
  /\ approvedMax \in [Request -> Approval \cup {None}]
  /\ \A r \in Request : approved[r] = Null \/ approved[r] = PaymasterRequest(Body(r).invocation)
  /\ DOMAIN approved = Request
  /\ priced \in [Request -> [system: Nat, network: Nat]]
  /\ sent \subseteq Request /\ executed \subseteq Nonce

(* The limiter's table, whatever it holds. *)
Distinct(m) == \A i, j \in 1 .. Len(m) : m[i].client = m[j].client => i = j
Table(m) ==
  /\ m \in Seq(Entries) /\ Distinct(m) /\ Len(m) <= MaxEntries
  /\ Store /\ deployment.production => m = <<>>

(* Where a request has not reached the node, and where it is past it.       *)
Before == {"absent", "unsent", "lookup", "replay", "claim", "accept", "limit", "arm", "armFull",
           "route", "forward", "preview", "authorize", "price", "send"}
After == {"complete", "completed", "fail", "release", "done", "killed"}

(* What an answer v to r may say. *)
Tells(r, v) ==
  /\ v.kind = "sent" => /\ v.by \in sent /\ KeyOf(v.by) = KeyOf(r)
                        /\ Body(v.by).nonce = Body(r).nonce
  /\ v.kind # "sent" /\ v.status < 500 => r \notin sent

Own(r, v) == v.by = r /\ v.status = 200

Answering(r) ==
  /\ phase[r] \in Before => r \notin sent
  /\ phase[r] \in {"replay", "complete", "completed", "fail", "release", "done"}
       => Tells(r, verdict[r])
  /\ phase[r] \in {"authorize", "complete", "completed"} => Own(r, verdict[r])
  /\ phase[r] = "authorize" => verdict[r].kind # "sent"

(* What the relay has made sure of when it signs. *)
Vetted(r) ==
  /\ ~Body(r).raw /\ Relayable(Body(r).invocation)
  /\ Body(r).simulate \/ (HasFeeCeiling /\ (deployment.paymaster \/ deployment.unsponsored))

Granted(r) ==
  /\ ~Body(r).simulate
  /\ IF deployment.paymaster
     THEN approved[r] # Null /\ approved[r].hash = Body(r).invocation
     ELSE deployment.unsponsored

Witnessed(r) == WitnessesOf(Body(r).invocation) # Null

Signable(r) ==
  Vetted(r) /\ Witnessed(r) /\ Granted(r) /\ FeesAllowed(priced[r], approvedMax[r])

Paying(r) ==
  /\ phase[r] \in {"preview", "authorize", "price"} => Vetted(r)
  /\ phase[r] \in {"authorize", "price"} => Witnessed(r)
  /\ phase[r] = "price" => Granted(r)
  /\ phase[r] = "send" => Signable(r)
  /\ phase[r] = "forward" => Body(r).raw
  /\ r \in sent /\ ~Body(r).raw => Signable(r)

RequestInv(r) ==
  /\ ask[r] = None => phase[r] = "absent"
  /\ phase[r] \in {"arm", "armFull"} => ClientOf(r) # None
  /\ Answering(r) /\ Paying(r)

(* What is stored under a key. *)
Stored(k) ==
  response[k] # None =>
    LET v == response[k] IN
    /\ v.by \in Request /\ ask[v.by] # None /\ KeyOf(v.by) = k /\ v.status = 200
    /\ v.kind = "sent" <=> v.by \in sent
    /\ phase[v.by] \in After

Inv ==
  /\ Given /\ Types /\ Table(memory)
  /\ \A r \in Request : RequestInv(r)
  /\ \A k \in Key : Stored(k)


-----------------------------------------------------------------------------
(* The limiter's table *)

LEMMA DropEntry ==
  ASSUME NEW m \in Seq(Entries), Distinct(m), NEW p \in 1 .. Len(m)
  PROVE  LET s == RemoveAt(m, p) IN
         /\ s \in Seq(Entries) /\ Len(s) = Len(m) - 1 /\ Distinct(s)
         /\ \A i \in 1 .. Len(s) : s[i].client # m[p].client
<1> DEFINE a == SubSeq(m, 1, p - 1)
           b == SubSeq(m, p + 1, Len(m))
           s == a \o b
<1>1. /\ a \in Seq(Entries) /\ Len(a) = p - 1
      /\ \A i \in 1 .. p - 1 : a[i] = m[i]
  BY SubSeqProperties
<1>2. /\ b \in Seq(Entries) /\ Len(b) = Len(m) - p
      /\ \A i \in 1 .. Len(m) - p : b[i] = m[p + i]
  BY SubSeqProperties
<1>3. /\ s \in Seq(Entries) /\ Len(s) = Len(m) - 1
      /\ \A i \in 1 .. Len(s) : s[i] = IF i < p THEN m[i] ELSE m[i + 1]
  <2> HIDE DEF a, b
  <2>0. /\ s \in Seq(Entries) /\ Len(s) = Len(a) + Len(b)
        /\ \A i \in 1 .. Len(a) + Len(b) : s[i] = IF i <= Len(a) THEN a[i] ELSE b[i - Len(a)]
    BY ONLY <1>1, <1>2, ConcatProperties
  <2>1. /\ s \in Seq(Entries) /\ Len(s) = Len(a) + Len(b)
        /\ \A i \in 1 .. Len(s) : s[i] = IF i <= Len(a) THEN a[i] ELSE b[i - Len(a)]
    BY ONLY <2>0
  <2>2. Len(m) \in Nat /\ p \in Nat
    OBVIOUS
  <2>3. Len(s) = Len(m) - 1
    BY <1>1, <1>2, <2>1, <2>2
  <2>4. ASSUME NEW i \in 1 .. Len(s) PROVE s[i] = IF i < p THEN m[i] ELSE m[i + 1]
    <3>1. CASE i < p
      <4>1. i \in 1 .. p - 1 /\ i <= Len(a)
        BY <1>1, <2>2, <2>3, <3>1
      <4>2. s[i] = a[i]
        BY <2>1, <4>1
      <4>3. a[i] = m[i]
        BY <1>1, <4>1
      <4> QED BY <3>1, <4>2, <4>3
    <3>2. CASE ~(i < p)
      <4>1. i - Len(a) \in 1 .. Len(m) - p /\ p + (i - Len(a)) = i + 1 /\ ~(i <= Len(a))
        BY <1>1, <2>2, <2>3, <3>2
      <4>2. s[i] = b[i - Len(a)]
        BY <2>1, <4>1
      <4>3. b[i - Len(a)] = m[p + (i - Len(a))]
        BY <1>2, <4>1
      <4> QED BY <3>2, <4>1, <4>2, <4>3
    <3> QED BY <3>1, <3>2
  <2> QED BY <2>1, <2>3, <2>4
<1> HIDE DEF s
<1>4. Distinct(s)
  <2> SUFFICES ASSUME NEW i \in 1 .. Len(s), NEW j \in 1 .. Len(s), s[i].client = s[j].client
               PROVE  i = j
    BY DEF Distinct
  <2>1. PICK x \in 1 .. Len(m) : s[i] = m[x] /\ x = IF i < p THEN i ELSE i + 1
    BY <1>3
  <2>2. PICK y \in 1 .. Len(m) : s[j] = m[y] /\ y = IF j < p THEN j ELSE j + 1
    BY <1>3
  <2>3. x = y
    BY <2>1, <2>2 DEF Distinct
  <2> QED BY <2>1, <2>2, <2>3
<1>5. ASSUME NEW i \in 1 .. Len(s) PROVE s[i].client # m[p].client
  <2>1. PICK x \in 1 .. Len(m) : s[i] = m[x] /\ x = IF i < p THEN i ELSE i + 1
    BY <1>3
  <2> QED BY <2>1 DEF Distinct
<1> QED BY <1>3, <1>4, <1>5 DEF RemoveAt, s

(* The entry of a client, if it has one. *)
LEMMA ClientPosition ==
  ASSUME memory \in Seq(Entries), NEW c
  PROVE  \/ Position(c) = 0 /\ \A i \in 1 .. Len(memory) : memory[i].client # c
         \/ Position(c) \in 1 .. Len(memory) /\ memory[Position(c)].client = c
<1>1. DOMAIN memory = 1 .. Len(memory)
  OBVIOUS
<1>2. CASE Places(c) = {}
  <2>1. ASSUME NEW i \in 1 .. Len(memory) PROVE memory[i].client # c
    BY <1>1, <1>2 DEF Places
  <2> QED BY <1>2, <2>1 DEF Position
<1>3. CASE Places(c) # {}
  <2>1. (CHOOSE i \in Places(c) : TRUE) \in Places(c)
    BY <1>3
  <2>2. Position(c) \in Places(c)
    BY <1>3, <2>1 DEF Position
  <2> QED BY <1>1, <2>2 DEF Places
<1> QED BY <1>2, <1>3

LEMMA WithoutClient ==
  ASSUME memory \in Seq(Entries), Distinct(memory), NEW c
  PROVE  /\ Without(c) \in Seq(Entries) /\ Len(Without(c)) <= Len(memory)
         /\ Distinct(Without(c))
         /\ \A i \in 1 .. Len(Without(c)) : Without(c)[i].client # c
<1>1. CASE Position(c) = 0
  <2>1. Without(c) = memory /\ Len(memory) \in Nat
    BY <1>1 DEF Without
  <2>2. \A i \in 1 .. Len(memory) : memory[i].client # c
    BY <1>1, ClientPosition
  <2> QED BY <2>1, <2>2
<1>2. CASE Position(c) # 0
  <2>1. Position(c) \in 1 .. Len(memory) /\ memory[Position(c)].client = c
    BY <1>2, ClientPosition
  <2>2. Without(c) = RemoveAt(memory, Position(c)) /\ Len(memory) \in Nat
    BY <1>2 DEF Without
  <2>3. PICK p \in 1 .. Len(memory) : p = Position(c)
    BY <2>1
  <2>4. /\ RemoveAt(memory, p) \in Seq(Entries) /\ Len(RemoveAt(memory, p)) = Len(memory) - 1
        /\ Distinct(RemoveAt(memory, p))
        /\ \A i \in 1 .. Len(RemoveAt(memory, p)) : RemoveAt(memory, p)[i].client # memory[p].client
    BY DropEntry
  <2> QED BY <2>1, <2>2, <2>3, <2>4
<1> QED BY <1>1, <1>2

LEMMA AddEntry ==
  ASSUME NEW m \in Seq(Entries), Distinct(m), NEW e \in Entries,
         \A i \in 1 .. Len(m) : m[i].client # e.client
  PROVE  /\ Append(m, e) \in Seq(Entries) /\ Len(Append(m, e)) = Len(m) + 1
         /\ Distinct(Append(m, e))
<1>1. /\ Append(m, e) \in Seq(Entries) /\ Len(Append(m, e)) = Len(m) + 1
      /\ \A i \in 1 .. Len(m) : Append(m, e)[i] = m[i]
      /\ Append(m, e)[Len(m) + 1] = e /\ Len(m) \in Nat
  OBVIOUS
<1>2. Distinct(Append(m, e))
  BY <1>1 DEF Distinct
<1> QED BY <1>1, <1>2

LEMMA DropOldest ==
  ASSUME NEW m \in Seq(Entries), Distinct(m), m # <<>>
  PROVE  Tail(m) \in Seq(Entries) /\ Len(Tail(m)) = Len(m) - 1 /\ Distinct(Tail(m))
<1>1. /\ Tail(m) \in Seq(Entries) /\ Len(Tail(m)) = Len(m) - 1
      /\ \A i \in 1 .. Len(m) - 1 : Tail(m)[i] = m[i + 1]
      /\ Len(m) \in Nat \ {0}
  BY EmptySeq
<1>2. Distinct(Tail(m))
  <2> SUFFICES ASSUME NEW i \in 1 .. Len(m) - 1, NEW j \in 1 .. Len(m) - 1,
                      m[i + 1].client = m[j + 1].client
               PROVE  i = j
    BY <1>1 DEF Distinct
  <2>1. i + 1 \in 1 .. Len(m) /\ j + 1 \in 1 .. Len(m)
    BY <1>1
  <2> QED BY <2>1 DEF Distinct
<1> QED BY <1>1, <1>2

(* A hit, counted by the instance, keeps the table. *)
LEMMA CountedTable ==
  ASSUME RelayAssumption, Table(memory), ~(Store /\ deployment.production),
         NEW r \in Request, ClientOf(r) \in Client, CountInMemory(r), UNCHANGED deployment
  PROVE  Table(memory')
<1> DEFINE c == ClientOf(r)
           e == [client |-> c, hits |-> Hits(c) + 1]
           w == Without(c)
<1>1. /\ w \in Seq(Entries) /\ Len(w) <= Len(memory) /\ Distinct(w)
      /\ \A i \in 1 .. Len(w) : w[i].client # c
  BY WithoutClient DEF Table
<1>2. MaxRequests \in Nat /\ MaxEntries \in Nat \ {0} /\ Len(memory) <= MaxEntries
      /\ memory \in Seq(Entries)
  BY DEF RelayAssumption, Table
<1>3. Hits(c) \in Nat
  <2>1. CASE Position(c) = 0
    BY <2>1 DEF Hits
  <2>2. CASE Position(c) # 0
    <3>1. memory[Position(c)] \in Entries
      BY <1>2, <2>2, ClientPosition
    <3> QED BY <1>2, <2>2, <3>1 DEF Hits, Entries
  <2> QED BY <2>1, <2>2
<1>4. CASE UNCHANGED memory
  BY <1>4 DEF Table, Store
<1>5. CASE /\ Hits(c) < MaxRequests
           /\ memory' = IF Len(Append(w, e)) > MaxEntries THEN Tail(Append(w, e)) ELSE Append(w, e)
  <2>1. e \in Entries /\ e.client = c
    BY <1>2, <1>3, <1>5 DEF Entries
  <2> HIDE DEF e, w, c
  <2>2. /\ Append(w, e) \in Seq(Entries) /\ Len(Append(w, e)) = Len(w) + 1
        /\ Distinct(Append(w, e))
    BY <1>1, <2>1, AddEntry
  <2>3. PICK m \in Seq(Entries) : m = Append(w, e)
    BY <2>2
  <2>4. Len(m) \in Nat /\ Len(w) \in Nat /\ Len(memory) \in Nat /\ Len(m) = Len(w) + 1
    BY <1>1, <1>2, <2>2, <2>3
  <2>5. CASE Len(m) > MaxEntries
    <3>1. m # <<>>
      BY <2>4
    <3>2. Tail(m) \in Seq(Entries) /\ Len(Tail(m)) = Len(m) - 1 /\ Distinct(Tail(m))
      BY <2>2, <2>3, <3>1, DropOldest
    <3>3. memory' = Tail(m)
      BY <1>5, <2>3, <2>5
    <3>4. Len(Tail(m)) <= MaxEntries
      BY <1>1, <1>2, <2>4, <3>2
    <3> QED BY <3>2, <3>3, <3>4 DEF Table, Store
  <2>6. CASE ~(Len(m) > MaxEntries)
    <3>1. memory' = m /\ Len(m) <= MaxEntries
      BY <1>2, <1>5, <2>3, <2>4, <2>6
    <3> QED BY <2>2, <2>3, <3>1 DEF Table, Store
  <2> QED BY <2>5, <2>6
<1> QED BY <1>2, <1>3, <1>4, <1>5, SMTT(60) DEF CountInMemory, Refused, Judge


LEMMA ExpiredTable ==
  ASSUME RelayAssumption, Table(memory), NEW c \in Client, HitExpires(c), UNCHANGED deployment
  PROVE  Table(memory')
<1> DEFINE p == Position(c)
           e == [memory[p] EXCEPT !.hits = @ - 1]
<1>1. memory \in Seq(Entries) /\ MaxRequests \in Nat
  BY DEF Table, RelayAssumption
<1>2. p # 0 /\ memory[p].hits > 0
  BY DEF HitExpires, Hits
<1>3. p \in 1 .. Len(memory) /\ memory[p].client = c
  BY <1>1, <1>2, ClientPosition
<1>4. memory[p] \in Entries
  BY <1>1, <1>3
<1>5. e \in Entries /\ e.client = c
  <2>1. PICK r : r = memory[p]
    OBVIOUS
  <2>2. r \in Entries /\ r.client = c /\ r.hits \in 0 .. MaxRequests /\ r.hits > 0
    BY <1>2, <1>3, <1>4, <2>1 DEF Entries
  <2>3. r.hits - 1 \in 0 .. MaxRequests
    BY ONLY <1>1, <2>2
  <2>4. e = [r EXCEPT !.hits = r.hits - 1]
    BY <2>1
  <2> QED BY ONLY <2>2, <2>3, <2>4 DEF Entries
<1>6. memory' = [memory EXCEPT ![p] = e]
  BY DEF HitExpires
<1> HIDE DEF e, p
<1>7. memory' \in Seq(Entries) /\ Len(memory') = Len(memory)
  BY <1>1, <1>3, <1>5, <1>6
<1>8. \A i \in 1 .. Len(memory) : memory'[i].client = memory[i].client
  BY <1>1, <1>3, <1>5, <1>6
<1>9. Distinct(memory')
  BY <1>7, <1>8 DEF Table, Distinct
<1>10. Store /\ deployment.production => memory' = <<>>
  BY <1>1, <1>3, <1>7 DEF Table
<1> QED BY <1>7, <1>9, <1>10 DEF Table

LEMMA FallbackTable ==
  ASSUME RelayAssumption, Table(memory),
         NEW r \in Request, ClientOf(r) \in Client, Fallback(r), UNCHANGED deployment
  PROVE  Table(memory')
<1>1. CASE Store /\ deployment.production
  BY <1>1 DEF Fallback, Table, Store
<1>2. CASE ~(Store /\ deployment.production)
  BY <1>2, CountedTable DEF Fallback
<1> QED BY <1>1, <1>2

-----------------------------------------------------------------------------
(* Types *)

(* What a request is asked is asked of its scene. *)
LEMMA AskedOf ==
  ASSUME RelayAssumption, Given, NEW r \in Request, ask[r] # None
  PROVE  /\ KeyOf(r) \in Key /\ ClientOf(r) \in Client \cup {None}
         /\ deployment \in Settings
         /\ \A q \in Request : ask[q] # None /\ KeyOf(q) = KeyOf(r)
              => Body(q).nonce = Body(r).nonce
<1>1. PICK s \in Scene : deployment = s.deployment /\ ask = s.ask
  BY DEF Given
<1>2. /\ s.deployment \in Settings
      /\ \A x, y \in Asked(s) :
           /\ s.ask[x].key \in Key /\ s.ask[x].client \in Client \cup {None}
           /\ s.ask[x].key = s.ask[y].key <=> RelayKey(s.ask[x].body) = RelayKey(s.ask[y].body)
  BY DEF RelayAssumption
<1>3. r \in Asked(s)
  BY <1>1 DEF Asked
<1>4. ASSUME NEW q \in Request, ask[q] # None, KeyOf(q) = KeyOf(r)
      PROVE  Body(q).nonce = Body(r).nonce
  <2>1. q \in Asked(s)
    BY <1>1, <1>4 DEF Asked
  <2>2. RelayKey(ask[q].body) = RelayKey(ask[r].body)
    BY <1>1, <1>2, <1>3, <1>4, <2>1 DEF KeyOf
  <2> QED BY <2>2 DEF RelayKey, Body
<1> QED BY <1>1, <1>2, <1>3, <1>4 DEF KeyOf, ClientOf

LEMMA DeploymentType ==
  ASSUME RelayAssumption, Given
  PROVE  deployment \in Settings
BY DEF RelayAssumption, Given

(* A verdict, and a request's move with or without one. *)
LEMMA JudgeTypes ==
  ASSUME Types, NEW r \in Request, NEW p \in Phases, NEW v \in Verdicts, Judge(r, p, v)
  PROVE  phase' \in [Request -> Phases] /\ verdict' \in [Request -> Verdicts]
BY DEF Judge, Types

LEMMA GoTypes ==
  ASSUME Types, NEW r \in Request, NEW p \in Phases, Go(r, p)
  PROVE  phase' \in [Request -> Phases] /\ verdict' \in [Request -> Verdicts]
BY DEF Go, Types

(* Every step of a request takes it to a phase, with a verdict or without.  *)
LEMMA PhaseTypes ==
  ASSUME RelayAssumption, Given, Types, NEW r \in Request,
         ask[r] = None => phase[r] = "absent", Await(r)
  PROVE  phase' \in [Request -> Phases] /\ verdict' \in [Request -> Verdicts]
<1> DEFINE Good == phase' \in [Request -> Phases] /\ verdict' \in [Request -> Verdicts]
<1>g. ASSUME NEW p \in Phases, Go(r, p) PROVE Good
  BY <1>g, GoTypes
<1>v. ASSUME NEW p \in Phases, NEW v \in Verdicts, Judge(r, p, v) PROVE Good
  BY <1>v, JudgeTypes
<1>p. /\ {"lookup", "limit", "claim", "accept", "replay", "route", "arm", "armFull", "forward",
          "preview", "authorize", "price", "send", "complete", "completed", "fail", "release",
          "done"} \subseteq Phases
  BY DEF Phases, Closed
<1>k. /\ \A kind \in Kinds : Verdict(r, 200, kind) \in Verdicts
      /\ \A kind \in Kinds : Verdict(r, 400, kind) \in Verdicts
      /\ Verdict(r, 500, "crashed") \in Verdicts /\ Verdict(r, 502, "error") \in Verdicts
      /\ Verdict(r, 409, "busy") \in Verdicts /\ Verdict(r, 400, "limited") \in Verdicts
      /\ Verdict(r, 429, "limited") \in Verdicts /\ Verdict(r, 503, "limited") \in Verdicts
      /\ Verdict(r, 501, "not_configured") \in Verdicts
      /\ Verdict(r, 403, "not_enabled") \in Verdicts
      /\ Verdict(r, 402, "denied") \in Verdicts /\ Verdict(r, 400, "invalid") \in Verdicts
      /\ Verdict(r, 400, "no_ceiling") \in Verdicts
  BY DEF Verdict, Verdicts, Kinds
<1>t. Throw(r) => Good
  BY <1>v, <1>k, <1>p DEF Throw
<1>f. /\ (Fails(r, 502, "error") => Good) /\ (Fails(r, 501, "not_configured") => Good)
      /\ (Fails(r, 403, "not_enabled") => Good) /\ (Fails(r, 402, "denied") => Good)
      /\ (Fails(r, 400, "invalid") => Good) /\ (Fails(r, 400, "no_ceiling") => Good)
      /\ \A kind \in Kinds : Fails(r, 400, kind) => Good
  BY <1>v, <1>k, <1>p DEF Fails
<1>c. /\ \A kind \in Kinds : Completes(r, kind) => Good
      /\ (Completes(r, "unsupported") => Good) /\ (Completes(r, "refused") => Good)
      /\ (Completes(r, "denied") => Good) /\ (Completes(r, "sent") => Good)
  BY <1>v, <1>k, <1>p DEF Completes, Kinds
<1>l. (Refused(r, 400) => Good) /\ (Refused(r, 429) => Good) /\ (Refused(r, 503) => Good)
  BY <1>v, <1>k, <1>p DEF Refused
<1>b. CountInMemory(r) \/ Fallback(r) => Good
  BY <1>g, <1>l, <1>p DEF CountInMemory, Fallback
<1>o. \A caught : Lost(r, caught) => Good
  BY <1>v, <1>k, <1>t, <1>p DEF Lost
<1>w. phase[r] \in Phases /\ verdict[r] \in Verdicts
  BY DEF Types
<1> HIDE DEF Good
<1>1. Send(r) => Good
  BY <1>g, <1>p DEF Send
<1>2. LookUp(r) => Good
  <2>1. ASSUME phase[r] = "lookup", Judge(r, "replay", response[KeyOf(r)]),
               response[KeyOf(r)] # None
        PROVE  Good
    <3>1. KeyOf(r) \in Key
      BY <2>1, AskedOf
    <3>2. response[KeyOf(r)] \in Verdicts
      BY <2>1, <3>1 DEF Types
    <3> QED BY <1>p, <2>1, <3>2, JudgeTypes DEF Good
  <2> QED BY <1>g, <1>t, <1>p, <2>1 DEF LookUp
<1>3. Replay(r) \/ Accept(r) => Good
  BY <1>g, <1>t, <1>p DEF Replay, Accept
<1>4. Claim(r) => Good
  BY <1>g, <1>t, <1>v, <1>k, <1>p DEF Claim
<1>5. Limit(r) => Good
  BY <1>g, <1>l, <1>b, <1>p DEF Limit
<1>6. Arm(r) => Good
  BY <1>g, <1>l, <1>b, <1>p DEF Arm
<1>7. \A caught : Complete(r, caught) \/ Completed(r, caught) => Good
  BY <1>g, <1>o, <1>p DEF Complete, Completed
<1>8. Fail(r) \/ Release(r) => Good
  BY <1>g, <1>t, <1>p DEF Fail, Release
<1>9. Validate(r) => Good
  <2>1. ASSUME NEW inv, ~Relayable(inv) PROVE Refusal(inv) \in Kinds
    <3>1. Refusal(inv) \in {"malformed", "other_contract", "unsupported"}
      BY <2>1 DEF Relayable, Refusal
    <3> QED BY <3>1 DEF Kinds
  <2> QED BY <1>g, <1>f, <1>c, <1>p, <2>1 DEF Validate
<1>10. Preview(r) => Good
  <2>1. Simulated(Body(r)) \subseteq {"halt", "fault", "refused"}
    BY DEF Simulated
  <2> QED BY <1>v, <1>k, <1>f, <1>c, <1>p, <2>1 DEF Preview, Kinds
<1>11. Authorize(r) => Good
  BY <1>g, <1>f, <1>c, <1>p DEF Authorize
<1>12. Price(r) => Good
  BY <1>g, <1>f, <1>c, <1>p, ZenonT(40) DEF Price
<1>13. Submit(r) => Good
  BY <1>f, <1>c DEF Submit
<1> QED
  BY <1>1, <1>2, <1>3, <1>4, <1>5, <1>6, <1>7, <1>8, <1>9, <1>10, <1>11, <1>12, <1>13
     DEF Await, Good


(* The fee of a transaction: with the reserve, where an envelope has one.   *)
LEMMA NetworkFeeType ==
  ASSUME RelayAssumption, Given, NEW inv, WitnessesOf(inv) # Null, NEW n \in Fee
  PROVE  NetworkFee(inv, n) \in Nat
<1>1. n \in Nat /\ deployment.reserve \in Nat \cup {None}
  BY DeploymentType DEF RelayAssumption, Settings
<1>2. CASE WitnessesOf(inv).witness
  <2> DEFINE auth == Authority(inv, deployment.proxyWitness, deployment.scope, Proxy, RelayAccount)
  <2>1. WitnessesOf(inv) = IF /\ auth # Null /\ auth.witness
                              /\ \/ deployment.reserve = None
                                 \/ deployment.maxNetwork = None /\ deployment.maxTotal = None
                           THEN Null ELSE auth
    BY DEF WitnessesOf
  <2> HIDE DEF auth
  <2>2. deployment.reserve # None
    BY <1>2, <2>1
  <2> QED BY <1>1, <1>2, <2>2 DEF NetworkFee
<1>3. CASE ~WitnessesOf(inv).witness
  BY <1>1, <1>3 DEF NetworkFee
<1> QED BY <1>2, <1>3

(* What a request's step does to the stores keeps their types.              *)
LEMMA StoreTypes ==
  ASSUME RelayAssumption, Given, Types, NEW r \in Request, RequestInv(r),
         Await(r), UNCHANGED <<deployment, ask>>
  PROVE  /\ lock' \in [Key -> Request \cup {None}]
         /\ response' \in [Key -> Verdicts \cup {None}]
         /\ journal' \in [Request -> {None, "accepted", "replayed", "completed", "failed"}]
         /\ window' \in [Client -> [count: Nat, ttl: BOOLEAN]]
<1>0. /\ lock \in [Key -> Request \cup {None}]
      /\ response \in [Key -> Verdicts \cup {None}]
      /\ journal \in [Request -> {None, "accepted", "replayed", "completed", "failed"}]
      /\ window \in [Client -> [count: Nat, ttl: BOOLEAN]]
      /\ verdict[r] \in Verdicts
  BY DEF Types
<1> DEFINE Good ==
      /\ lock' \in [Key -> Request \cup {None}]
      /\ response' \in [Key -> Verdicts \cup {None}]
      /\ journal' \in [Request -> {None, "accepted", "replayed", "completed", "failed"}]
      /\ window' \in [Client -> [count: Nat, ttl: BOOLEAN]]
<1>1. CASE UNCHANGED <<durableVars, window>>
  BY <1>0, <1>1 DEF durableVars
<1>2. CASE Replay(r) \/ Accept(r) \/ Fail(r) \/ \E caught : Completed(r, caught)
  BY <1>0, <1>2 DEF Replay, Accept, Fail, Completed, Write, limiterVars
<1>3. CASE Claim(r) \/ Release(r)
  BY <1>0, <1>3 DEF Claim, Release, Write, limiterVars
<1>4. CASE \E caught : Complete(r, caught)
  BY <1>0, <1>4 DEF Complete, Write, limiterVars
<1>5. CASE Limit(r)
  <2>1. UNCHANGED durableVars
    BY <1>5 DEF Limit
  <2>2. \/ UNCHANGED window
        \/ window' = [window EXCEPT ![ClientOf(r)].count = @ + 1]
    BY <1>5 DEF Limit, limiterVars
  <2>3. window' \in [Client -> [count: Nat, ttl: BOOLEAN]]
    <3>1. CASE ClientOf(r) \in Client
      <4>1. window[ClientOf(r)] \in [count: Nat, ttl: BOOLEAN]
        BY <1>0, <3>1
      <4> QED BY <1>0, <2>2, <3>1, <4>1
    <3>2. CASE ClientOf(r) \notin Client
      BY <1>0, <2>2, <3>2
    <3> QED BY <3>1, <3>2
  <2> QED BY <1>0, <2>1, <2>3 DEF durableVars
<1>6. CASE Arm(r)
  <2>1. UNCHANGED durableVars
    BY <1>6 DEF Arm
  <2>2. \/ UNCHANGED window
        \/ window' = [window EXCEPT ![ClientOf(r)].ttl = TRUE]
    BY <1>6 DEF Arm
  <2>3. window' \in [Client -> [count: Nat, ttl: BOOLEAN]]
    <3>1. CASE ClientOf(r) \in Client
      <4>1. window[ClientOf(r)] \in [count: Nat, ttl: BOOLEAN]
        BY <1>0, <3>1
      <4>2. PICK w : w = [window[ClientOf(r)] EXCEPT !.ttl = TRUE]
        OBVIOUS
      <4>3. w \in [count: Nat, ttl: BOOLEAN]
        BY ONLY <4>1, <4>2
      <4>4. UNCHANGED window \/ window' = [window EXCEPT ![ClientOf(r)] = w]
        BY <2>2, <4>2
      <4> QED BY ONLY <1>0, <4>3, <4>4
    <3>2. CASE ClientOf(r) \notin Client
      BY <1>0, <2>2, <3>2
    <3> QED BY <3>1, <3>2
  <2> QED BY <1>0, <2>1, <2>3 DEF durableVars
<1>7. CASE Send(r) \/ LookUp(r) \/ Validate(r) \/ Preview(r) \/ Authorize(r) \/ Price(r) \/ Submit(r)
  BY <1>1, <1>7 DEF Send, LookUp, Validate, Preview, Authorize, Price, Submit, limiterVars
<1> QED BY <1>2, <1>3, <1>4, <1>5, <1>6, <1>7 DEF Await

LEMMA RelayTypes ==
  ASSUME RelayAssumption, Given, Types, NEW r \in Request, RequestInv(r),
         Await(r), UNCHANGED <<deployment, ask>>
  PROVE  /\ approvedMax' \in [Request -> Approval \cup {None}]
         /\ DOMAIN approved' = Request
         /\ \A q \in Request :
              approved'[q] = Null \/ approved'[q] = PaymasterRequest(Body(q).invocation)
         /\ priced' \in [Request -> [system: Nat, network: Nat]]
         /\ sent' \subseteq Request /\ executed' = executed
<1>0. /\ approvedMax \in [Request -> Approval \cup {None}]
      /\ DOMAIN approved = Request
      /\ \A q \in Request :
           approved[q] = Null \/ approved[q] = PaymasterRequest(Body(q).invocation)
      /\ priced \in [Request -> [system: Nat, network: Nat]]
      /\ sent \subseteq Request
  BY DEF Types
<1>1. CASE UNCHANGED relayVars
  BY <1>0, <1>1 DEF relayVars
<1>2. CASE Authorize(r)
  <2>1. \/ UNCHANGED <<approved, approvedMax>>
        \/ \E max \in Approval :
             /\ approved' = [approved EXCEPT ![r] = PaymasterRequest(Body(r).invocation)]
             /\ approvedMax' = [approvedMax EXCEPT ![r] = max]
    BY <1>2 DEF Authorize
  <2>2. UNCHANGED <<priced, sent, executed>>
    BY <1>2 DEF Authorize
  <2> QED BY <1>0, <2>1, <2>2
<1>3. CASE Price(r)
  <2>1. UNCHANGED <<approved, approvedMax, sent, executed>>
    BY <1>3 DEF Price
  <2>2. \/ UNCHANGED priced
        \/ \E s, n \in Fee :
             priced' = [priced EXCEPT ![r] =
                          [system |-> s, network |-> NetworkFee(Body(r).invocation, n)]]
    BY <1>3 DEF Price
  <2>3. WitnessesOf(Body(r).invocation) # Null
    BY <1>3 DEF Price, RequestInv, Paying, Witnessed
  <2>4. ASSUME NEW n \in Fee PROVE NetworkFee(Body(r).invocation, n) \in Nat
    BY <2>3, NetworkFeeType
  <2>5. Fee \subseteq Nat
    BY DEF RelayAssumption
  <2>6. priced' \in [Request -> [system: Nat, network: Nat]]
    <3>1. CASE UNCHANGED priced
      BY <1>0, <3>1
    <3>2. ASSUME NEW s \in Fee, NEW n \in Fee,
                 priced' = [priced EXCEPT ![r] =
                              [system |-> s, network |-> NetworkFee(Body(r).invocation, n)]]
          PROVE  priced' \in [Request -> [system: Nat, network: Nat]]
      <4>1. PICK fee : fee = [system |-> s, network |-> NetworkFee(Body(r).invocation, n)]
        OBVIOUS
      <4>2. fee \in [system: Nat, network: Nat]
        BY <2>4, <2>5, <4>1
      <4> QED BY <1>0, <3>2, <4>1, <4>2
    <3> QED BY <2>2, <3>1, <3>2
  <2> QED BY <1>0, <2>1, <2>6
<1>4. CASE Submit(r)
  BY <1>0, <1>4 DEF Submit
<1> QED
  BY <1>1, <1>2, <1>3, <1>4 DEF Await, Validate, Preview

(* A step of a request keeps the table of the limiter.                      *)
LEMMA TableStep ==
  ASSUME RelayAssumption, Given, Table(memory), NEW r \in Request, RequestInv(r),
         Await(r), UNCHANGED <<deployment, ask>>
  PROVE  Table(memory')
<1>1. CASE UNCHANGED memory
  BY <1>1 DEF Table, Store
<1>2. CASE Fallback(r) /\ phase[r] \in {"limit", "arm", "armFull"} /\ ClientOf(r) # None
  <2>1. ClientOf(r) \in Client
    BY <1>2, AskedOf DEF RequestInv
  <2> QED BY <1>2, <2>1, FallbackTable
<1>3. CASE Limit(r)
  BY <1>1, <1>2, <1>3 DEF Limit, limiterVars
<1>4. CASE Arm(r)
  BY <1>1, <1>2, <1>4 DEF Arm, RequestInv
<1> QED
  BY <1>1, <1>3, <1>4
     DEF Await, Send, LookUp, Replay, Claim, Accept, Complete, Completed, Fail, Release,
         Validate, Preview, Authorize, Price, Submit, limiterVars


-----------------------------------------------------------------------------
(* One request at a time *)

(* What a step of r leaves alone. *)
Others(r) ==
  /\ \A q \in Request \ {r} :
       /\ phase'[q] = phase[q] /\ verdict'[q] = verdict[q]
       /\ approved'[q] = approved[q] /\ approvedMax'[q] = approvedMax[q]
       /\ priced'[q] = priced[q]
  /\ sent \subseteq sent' /\ sent' \subseteq sent \cup {r}

(* A request past sending stays past it. *)
StaysPast(r) == phase[r] \in After => phase'[r] \in After /\ sent' = sent

LEMMA JudgeAt ==
  ASSUME Types, NEW r \in Request, NEW p, NEW v, Judge(r, p, v)
  PROVE  /\ phase'[r] = p /\ verdict'[r] = v
         /\ \A q \in Request \ {r} : phase'[q] = phase[q] /\ verdict'[q] = verdict[q]
BY DEF Judge, Types

LEMMA GoAt ==
  ASSUME Types, NEW r \in Request, NEW p, Go(r, p)
  PROVE  /\ phase'[r] = p /\ verdict'[r] = verdict[r]
         /\ \A q \in Request \ {r} : phase'[q] = phase[q] /\ verdict'[q] = verdict[q]
BY DEF Go, Types

LEMMA OthersStep ==
  ASSUME Types, NEW r \in Request, Await(r) \/ (Killed(r) /\ UNCHANGED relayVars)
  PROVE  Others(r)
<1> DEFINE Same == \A q \in Request \ {r} : phase'[q] = phase[q] /\ verdict'[q] = verdict[q]
<1>g. ASSUME NEW p, Go(r, p) PROVE Same
  BY <1>g, GoAt
<1>v. ASSUME NEW p, NEW v, Judge(r, p, v) PROVE Same
  BY <1>v, JudgeAt
<1> HIDE DEF Same
<1>t. Throw(r) => Same
  BY <1>v DEF Throw
<1>f. \A status, kind : Fails(r, status, kind) => Same
  BY <1>v DEF Fails
<1>c. \A kind : Completes(r, kind) => Same
  BY <1>v DEF Completes
<1>l. \A status : Refused(r, status) => Same
  BY <1>v DEF Refused
<1>b. Fallback(r) => Same
  BY <1>g, <1>l DEF CountInMemory, Fallback
<1>o. \A caught : Lost(r, caught) => Same
  BY <1>v, <1>t DEF Lost
<1>1. CASE /\ UNCHANGED relayVars
           /\ \/ Send(r) \/ LookUp(r) \/ Replay(r) \/ Claim(r) \/ Accept(r)
              \/ Limit(r) \/ Arm(r) \/ Killed(r)
  <2>1. Same
    BY <1>1, <1>g, <1>v, <1>t, <1>l, <1>b
       DEF Send, LookUp, Replay, Claim, Accept, Limit, Arm, Killed
  <2> QED BY <1>1, <2>1 DEF Same, Others, relayVars
<1>2. CASE /\ UNCHANGED relayVars
           /\ \/ Complete(r, Caught(r)) \/ Completed(r, Caught(r)) \/ Fail(r) \/ Release(r)
  <2>1. Same
    BY <1>2, <1>g, <1>t, <1>o DEF Complete, Completed, Fail, Release
  <2> QED BY <1>2, <2>1 DEF Same, Others, relayVars
<1>3. CASE Validate(r)
  <2>1. Same
    BY <1>3, <1>g, <1>f, <1>c DEF Validate
  <2> QED BY <1>3, <2>1 DEF Same, Others, Validate, relayVars
<1>4. CASE Preview(r)
  <2>1. Same
    BY <1>4, <1>v, <1>f, <1>c DEF Preview
  <2> QED BY <1>4, <2>1 DEF Same, Others, Preview, relayVars
<1>5. CASE Authorize(r)
  <2>1. Same
    BY <1>5, <1>g, <1>f, <1>c DEF Authorize
  <2>2. \/ UNCHANGED <<approved, approvedMax>>
        \/ \E max \in Approval :
             /\ approved' = [approved EXCEPT ![r] = PaymasterRequest(Body(r).invocation)]
             /\ approvedMax' = [approvedMax EXCEPT ![r] = max]
    BY <1>5 DEF Authorize
  <2>3. UNCHANGED <<priced, sent>>
    BY <1>5 DEF Authorize
  <2> QED BY <2>1, <2>2, <2>3 DEF Same, Others, Types
<1>6. CASE Price(r)
  <2>1. Same
    BY <1>6, <1>g, <1>f, <1>c, ZenonT(60) DEF Price
  <2>2. /\ UNCHANGED <<approved, approvedMax, sent>>
        /\ UNCHANGED priced \/ \E fee : priced' = [priced EXCEPT ![r] = fee]
    BY <1>6 DEF Price
  <2> QED BY <2>1, <2>2 DEF Same, Others, Types
<1>7. CASE Submit(r)
  <2>1. Same
    BY <1>7, <1>f, <1>c DEF Submit
  <2>2. /\ UNCHANGED <<approved, approvedMax, priced>>
        /\ UNCHANGED sent \/ sent' = sent \cup {r}
    BY <1>7 DEF Submit
  <2> QED BY <2>1, <2>2 DEF Same, Others
<1> QED BY <1>1, <1>2, <1>3, <1>4, <1>5, <1>6, <1>7 DEF Await

(* A request that does not move keeps its part of the invariant.            *)
LEMMA RequestStays ==
  ASSUME NEW r \in Request, Others(r), NEW q \in Request \ {r}, RequestInv(q),
         UNCHANGED <<deployment, ask>>
  PROVE  RequestInv(q)'
<1>1. /\ phase'[q] = phase[q] /\ verdict'[q] = verdict[q]
      /\ approved'[q] = approved[q] /\ approvedMax'[q] = approvedMax[q]
      /\ priced'[q] = priced[q]
      /\ sent \subseteq sent' /\ (q \in sent' <=> q \in sent)
  BY DEF Others
<1>2. Answering(q)'
  <2>1. ASSUME NEW v, Tells(q, v) PROVE Tells(q, v)'
    BY <1>1, <2>1 DEF Tells, KeyOf, Body
  <2> QED BY <1>1, <2>1 DEF RequestInv, Answering, Own, Before
<1>3. Paying(q)'
  <2>1. Vetted(q)' = Vetted(q) /\ Witnessed(q)' = Witnessed(q)
    BY DEF Vetted, Witnessed, Body, WitnessesOf, HasFeeCeiling
  <2>2. Granted(q)' = Granted(q)
    BY <1>1 DEF Granted, Body
  <2>3. Signable(q)' = Signable(q)
    BY <1>1, <2>1, <2>2 DEF Signable, FeesAllowed
  <2> QED BY <1>1, <2>1, <2>2, <2>3 DEF RequestInv, Paying, Body
<1> QED BY <1>1, <1>2, <1>3 DEF RequestInv, ClientOf


(* An answer by which nothing was sent, and one that does not say.          *)
LEMMA TellsNothingSent ==
  ASSUME NEW r \in Request, r \notin sent, NEW v, v.kind # "sent"
  PROVE  Tells(r, v)
BY DEF Tells

LEMMA TellsError ==
  ASSUME NEW r \in Request, NEW v, v.kind # "sent", ~(v.status < 500)
  PROVE  Tells(r, v)
BY DEF Tells

(* A step that does not touch what the relay has approved, priced or sent   *)
(* keeps r's part as long as it goes where nothing more is known.           *)
LEMMA QuietStep ==
  ASSUME NEW r \in Request, RequestInv(r), UNCHANGED <<deployment, ask, relayVars>>,
         phase[r] # "absent",
         phase'[r] \in {"lookup", "replay", "claim", "accept", "limit", "arm", "armFull", "route",
                        "completed", "fail", "release", "done", "killed"},
         phase[r] \in Before \/ phase'[r] \in After,
         phase'[r] \in {"arm", "armFull"} => ClientOf(r) # None,
         phase'[r] = "completed" => Own(r, verdict'[r]),
         phase'[r] \in {"replay", "completed", "fail", "release", "done"} => Tells(r, verdict'[r])
  PROVE  RequestInv(r)'
<1>1. ask[r] # None /\ UNCHANGED <<approvedMax, approved, priced, sent, ask, deployment>>
  BY DEF RequestInv, relayVars
<1>2. Answering(r)'
  <2>1. ASSUME NEW v, Tells(r, v) PROVE Tells(r, v)'
    BY <1>1, <2>1 DEF Tells, KeyOf, Body
  <2> QED BY <1>1, <2>1 DEF RequestInv, Answering, Own, Before, After
<1>3. Paying(r)'
  <2>1. Signable(r)' = Signable(r)
    BY <1>1 DEF Signable, FeesAllowed, Vetted, Witnessed, Granted, Body, WitnessesOf, HasFeeCeiling
  <2> QED BY <1>1, <2>1 DEF RequestInv, Paying, Body
<1> QED BY <1>1, <1>2, <1>3 DEF RequestInv, ClientOf

LEMMA BeginStep ==
  ASSUME RelayAssumption, Given, Types, NEW r \in Request, RequestInv(r),
         \A k \in Key : Stored(k), UNCHANGED <<deployment, ask, relayVars>>,
         Send(r) \/ LookUp(r) \/ Replay(r) \/ Claim(r) \/ Accept(r)
  PROVE  RequestInv(r)' /\ StaysPast(r)
<1>0. /\ phase[r] \in {"unsent", "lookup", "replay", "claim", "accept"}
      /\ r \notin sent \/ phase[r] = "replay"
  BY DEF Send, LookUp, Replay, Claim, Accept, RequestInv, Answering, Before
<1>1. /\ phase[r] \in Before /\ phase[r] \notin After /\ phase[r] # "absent"
      /\ ask[r] # None /\ r \notin sent
  BY <1>0 DEF Before, After, RequestInv, Answering
<1> SUFFICES RequestInv(r)'
  BY <1>1 DEF StaysPast
<1>2. Throw(r) => RequestInv(r)'
  <2>1. Verdict(r, 500, "crashed").kind # "sent"
    BY DEF Verdict
  <2>2. Throw(r) => phase'[r] = "done" /\ Tells(r, verdict'[r])
    BY <1>1, <2>1, JudgeAt, TellsNothingSent DEF Throw
  <2> QED BY <1>1, <2>2, QuietStep
<1>3. ASSUME NEW p \in {"lookup", "claim", "accept", "limit"}, Go(r, p) PROVE RequestInv(r)'
  <2>1. phase'[r] = p
    BY <1>3, GoAt
  <2> QED BY <1>1, <2>1, QuietStep
<1>4. CASE Send(r)
  <2>1. Go(r, "lookup") \/ Go(r, "limit")
    BY <1>4 DEF Send
  <2> QED BY <1>3, <2>1
<1>5. CASE LookUp(r)
  <2>1. ASSUME response[KeyOf(r)] # None, Judge(r, "replay", response[KeyOf(r)])
        PROVE  RequestInv(r)'
    <3>1. KeyOf(r) \in Key
      BY <1>1, AskedOf
    <3>2. PICK v : v = response[KeyOf(r)]
      OBVIOUS
    <3>3. /\ v.by \in Request /\ ask[v.by] # None /\ KeyOf(v.by) = KeyOf(r)
          /\ v.kind = "sent" <=> v.by \in sent
      BY <2>1, <3>1, <3>2 DEF Stored
    <3>4. Body(v.by).nonce = Body(r).nonce
      BY <1>1, <3>3, AskedOf
    <3>5. Tells(r, v)
      BY <1>1, <3>3, <3>4 DEF Tells
    <3>6. phase'[r] = "replay" /\ verdict'[r] = v
      BY <2>1, <3>2, JudgeAt
    <3> QED BY <1>1, <3>5, <3>6, QuietStep
  <2>2. \/ response[KeyOf(r)] # None /\ Judge(r, "replay", response[KeyOf(r)])
        \/ Go(r, "claim") \/ Go(r, "accept") \/ Throw(r)
    BY <1>5 DEF LookUp
  <2> QED BY <1>2, <1>3, <2>1, <2>2
<1>6. CASE Replay(r)
  <2>1. ASSUME phase[r] = "replay", Go(r, "done") PROVE RequestInv(r)'
    <3>1. phase'[r] = "done" /\ verdict'[r] = verdict[r] /\ Tells(r, verdict[r])
      BY <2>1, GoAt DEF RequestInv, Answering
    <3> QED BY <1>1, <3>1, QuietStep
  <2>2. Throw(r) \/ (phase[r] = "replay" /\ Go(r, "done"))
    BY <1>6 DEF Replay
  <2> QED BY <1>2, <2>1, <2>2
<1>7. CASE Claim(r)
  <2>1. ASSUME Judge(r, "done", Verdict(r, 409, "busy")) PROVE RequestInv(r)'
    <3>1. Verdict(r, 409, "busy").kind # "sent"
      BY DEF Verdict
    <3>2. phase'[r] = "done" /\ Tells(r, verdict'[r])
      BY <1>1, <2>1, <3>1, JudgeAt, TellsNothingSent
    <3> QED BY <1>1, <3>2, QuietStep
  <2>2. Throw(r) \/ Go(r, "accept") \/ Judge(r, "done", Verdict(r, 409, "busy"))
    BY <1>7 DEF Claim
  <2> QED BY <1>2, <1>3, <2>1, <2>2
<1>8. CASE Accept(r)
  <2>1. Throw(r) \/ Go(r, "limit")
    BY <1>8 DEF Accept
  <2> QED BY <1>2, <1>3, <2>1
<1> QED BY <1>4, <1>5, <1>6, <1>7, <1>8

LEMMA LimitStep ==
  ASSUME RelayAssumption, Given, Types, NEW r \in Request, RequestInv(r),
         UNCHANGED <<deployment, ask, relayVars>>, Limit(r) \/ Arm(r)
  PROVE  RequestInv(r)' /\ StaysPast(r)
<1>1. /\ phase[r] \in Before /\ phase[r] \notin After /\ phase[r] # "absent" /\ r \notin sent
  BY DEF Limit, Arm, Before, After, RequestInv, Answering
<1> SUFFICES RequestInv(r)'
  BY <1>1 DEF StaysPast
<1>2. ASSUME NEW status, Refused(r, status) PROVE RequestInv(r)'
  <2>1. Verdict(r, status, "limited").kind # "sent"
    BY DEF Verdict
  <2>2. phase'[r] = "fail" /\ Tells(r, verdict'[r])
    BY <1>1, <1>2, <2>1, JudgeAt, TellsNothingSent DEF Refused
  <2> QED BY <1>1, <2>2, QuietStep
<1>3. Go(r, "route") => RequestInv(r)'
  <2>1. Go(r, "route") => phase'[r] = "route"
    BY GoAt
  <2> QED BY <1>1, <2>1, QuietStep
<1>4. ASSUME NEW p \in {"arm", "armFull"}, ClientOf(r) # None, Go(r, p) PROVE RequestInv(r)'
  <2>1. phase'[r] = p
    BY <1>4, GoAt
  <2> QED BY <1>1, <1>4, <2>1, QuietStep
<1>5. Fallback(r) => RequestInv(r)'
  BY <1>2, <1>3 DEF Fallback, CountInMemory
<1>6. CASE Limit(r)
  <2>1. \/ Refused(r, 400) \/ Refused(r, 429) \/ Go(r, "route") \/ Fallback(r)
        \/ ClientOf(r) # None /\ (Go(r, "arm") \/ Go(r, "armFull"))
    BY <1>6 DEF Limit
  <2> QED BY <1>2, <1>3, <1>4, <1>5, <2>1
<1>7. CASE Arm(r)
  <2>1. Refused(r, 429) \/ Go(r, "route") \/ Fallback(r)
    BY <1>7 DEF Arm
  <2> QED BY <1>2, <1>3, <1>5, <2>1
<1> QED BY <1>6, <1>7


LEMMA EndStep ==
  ASSUME RelayAssumption, Given, Types, NEW r \in Request, RequestInv(r),
         UNCHANGED <<deployment, ask, relayVars>>,
         \/ Complete(r, Caught(r)) \/ Completed(r, Caught(r)) \/ Fail(r) \/ Release(r)
         \/ Killed(r)
  PROVE  RequestInv(r)' /\ StaysPast(r)
<1>1. CASE Killed(r)
  <2>1. phase'[r] = "killed"
    BY <1>1, GoAt DEF Killed
  <2>2. phase[r] # "absent"
    BY <1>1 DEF Killed, Closed
  <2>3. RequestInv(r)'
    BY <2>1, <2>2, QuietStep DEF After
  <2> QED BY <2>1, <2>3 DEF StaysPast, After, relayVars
<1>2. CASE ~Killed(r)
  <2>1. phase[r] \in {"complete", "completed", "fail", "release"}
    BY <1>2 DEF Complete, Completed, Fail, Release
  <2>2. /\ phase[r] \in After /\ phase[r] # "absent" /\ Tells(r, verdict[r])
        /\ phase[r] \in {"complete", "completed"} => Own(r, verdict[r])
    BY <2>1 DEF After, RequestInv, Answering
  <2> DEFINE Good == RequestInv(r)' /\ phase'[r] \in After
  <2>3. ASSUME NEW p \in {"fail", "done"}, NEW v,
               v.kind # "sent", ~(v.status < 500), Judge(r, p, v)
        PROVE  Good
    <3>1. phase'[r] = p /\ verdict'[r] = v /\ Tells(r, v) /\ p \in After
      BY <2>3, JudgeAt, TellsError DEF After
    <3> QED BY <2>2, <3>1, QuietStep DEF After
  <2>4. /\ Verdict(r, 500, "crashed").kind # "sent" /\ ~(Verdict(r, 500, "crashed").status < 500)
        /\ Verdict(r, 502, "error").kind # "sent" /\ ~(Verdict(r, 502, "error").status < 500)
    BY DEF Verdict
  <2>5. Throw(r) => Good
    <3>1. Throw(r) => Judge(r, "done", Verdict(r, 500, "crashed"))
      BY DEF Throw
    <3> QED BY <2>3, <2>4, <3>1
  <2>6. \A caught : Lost(r, caught) => Good
    <3>1. ASSUME NEW caught, Lost(r, caught)
          PROVE  Judge(r, "fail", Verdict(r, 502, "error")) \/ Throw(r)
      BY <3>1 DEF Lost
    <3> QED BY <2>3, <2>4, <2>5, <3>1
  <2>7. ASSUME NEW p \in {"release", "done"}, Go(r, p) PROVE Good
    <3>1. phase'[r] = p /\ verdict'[r] = verdict[r] /\ p \in After
      BY <2>7, GoAt DEF After
    <3> QED BY <2>2, <3>1, QuietStep DEF After
  <2>8. ASSUME phase[r] = "complete", Go(r, "completed") PROVE Good
    <3>1. phase'[r] = "completed" /\ verdict'[r] = verdict[r] /\ "completed" \in After
      BY <2>8, GoAt DEF After
    <3> QED BY <2>2, <2>8, <3>1, QuietStep DEF After
  <2>9. \/ Throw(r) \/ Lost(r, Caught(r)) \/ Go(r, "release") \/ Go(r, "done")
        \/ phase[r] = "complete" /\ Go(r, "completed")
    BY <1>2 DEF Complete, Completed, Fail, Release
  <2>10. Good
    BY <2>5, <2>6, <2>7, <2>8, <2>9
  <2> QED BY <2>10 DEF StaysPast, relayVars
<1> QED BY <1>1, <1>2

(* A step of the route: it goes on with what it has made sure of, or ends   *)
(* with an answer.                                                          *)
LEMMA RouteStep ==
  ASSUME NEW r \in Request, RequestInv(r), UNCHANGED <<deployment, ask>>,
         phase[r] \in {"route", "preview", "authorize", "price", "send", "forward"},
         sent' = sent \/ (sent' = sent \cup {r} /\ phase[r] \in {"send", "forward"}),
         phase'[r] \in {"forward", "preview", "authorize", "price", "send", "complete", "fail"},
         phase'[r] \in {"preview", "authorize", "price"} => Vetted(r),
         phase'[r] \in {"authorize", "price"} => Witnessed(r),
         phase'[r] = "price" => Granted(r)',
         phase'[r] = "send" => Signable(r)',
         phase'[r] = "forward" => Body(r).raw,
         phase'[r] \notin {"complete", "fail"} => sent' = sent,
         phase'[r] \in {"complete", "fail"} => Tells(r, verdict[r])',
         phase'[r] \in {"authorize", "complete"} => Own(r, verdict'[r]),
         phase'[r] = "authorize" => verdict'[r].kind # "sent",
         phase[r] = "send" => UNCHANGED <<approved, approvedMax, priced>>
  PROVE  RequestInv(r)'
<1>1. r \notin sent /\ ask[r] # None
  BY DEF RequestInv, Answering, Before
<1>2. Answering(r)'
  BY <1>1 DEF Answering, Before, Own
<1>3. Vetted(r)' = Vetted(r) /\ Witnessed(r)' = Witnessed(r)
  BY DEF Vetted, Witnessed, Body, WitnessesOf, HasFeeCeiling
<1>4. r \in sent' /\ ~Body(r)'.raw => Signable(r)'
  <2> SUFFICES ASSUME r \in sent', ~Body(r).raw PROVE Signable(r)'
    BY DEF Body
  <2>1. phase[r] = "send"
    BY <1>1 DEF RequestInv, Paying
  <2>2. Signable(r)
    BY <2>1 DEF RequestInv, Paying
  <2> QED BY <1>3, <2>1, <2>2 DEF Signable, Granted, FeesAllowed, Body
<1>5. Paying(r)'
  BY <1>3, <1>4 DEF Paying, Body
<1> QED BY <1>1, <1>2, <1>5 DEF RequestInv


LEMMA ValidateStep ==
  ASSUME RelayAssumption, Given, Types, NEW r \in Request, RequestInv(r),
         UNCHANGED <<deployment, ask>>, Validate(r)
  PROVE  RequestInv(r)'
<1>1. /\ phase[r] = "route" /\ UNCHANGED relayVars /\ r \notin sent
  BY DEF Validate, RequestInv, Answering, Before
<1>2. UNCHANGED sent
  BY <1>1 DEF relayVars
<1> DEFINE b == Body(r)
<1>3. ASSUME NEW p \in {"complete", "fail"}, NEW v, v.kind # "sent", Judge(r, p, v),
             p = "complete" => Own(r, v)
      PROVE  RequestInv(r)'
  <2>1. phase'[r] = p /\ verdict'[r] = v
    BY <1>3, JudgeAt
  <2>2. Tells(r, verdict[r])'
    BY <1>1, <1>2, <1>3, <2>1 DEF Tells
  <2> QED BY <1>1, <1>2, <1>3, <2>1, <2>2, RouteStep
<1>4. ASSUME NEW status, NEW kind, kind # "sent", Fails(r, status, kind) PROVE RequestInv(r)'
  <2>1. Verdict(r, status, kind).kind = kind
    BY DEF Verdict
  <2> QED BY <1>3, <1>4, <2>1 DEF Fails
<1>5. Completes(r, "unsupported") => RequestInv(r)'
  <2>1. Verdict(r, 200, "unsupported").kind # "sent" /\ Own(r, Verdict(r, 200, "unsupported"))
    BY DEF Verdict, Own
  <2> QED BY <1>3, <2>1 DEF Completes
<1>6. Go(r, "forward") /\ b.raw => RequestInv(r)'
  <2> SUFFICES ASSUME Go(r, "forward"), b.raw PROVE RequestInv(r)'
    OBVIOUS
  <2>1. phase'[r] = "forward"
    BY GoAt
  <2> QED BY <1>1, <1>2, <2>1, RouteStep
<1>7. Go(r, "preview") /\ Vetted(r) => RequestInv(r)'
  <2> SUFFICES ASSUME Go(r, "preview"), Vetted(r) PROVE RequestInv(r)'
    OBVIOUS
  <2>1. phase'[r] = "preview"
    BY GoAt
  <2> QED BY <1>1, <1>2, <2>1, RouteStep
<1>8. ~Relayable(b.invocation) => Refusal(b.invocation) # "sent"
  BY DEF Relayable, Refusal
<1>9. \/ Fails(r, 501, "not_configured") \/ Fails(r, 403, "not_enabled")
      \/ Fails(r, 400, "invalid") \/ Fails(r, 402, "denied") \/ Fails(r, 400, "no_ceiling")
      \/ Completes(r, "unsupported")
      \/ Go(r, "forward") /\ b.raw
      \/ ~Relayable(b.invocation) /\ Fails(r, 400, Refusal(b.invocation))
      \/ Go(r, "preview") /\ Vetted(r)
  BY DEF Validate, Vetted
<1> QED BY <1>4, <1>5, <1>6, <1>7, <1>8, <1>9

LEMMA PreviewStep ==
  ASSUME RelayAssumption, Given, Types, NEW r \in Request, RequestInv(r),
         UNCHANGED <<deployment, ask>>, Preview(r)
  PROVE  RequestInv(r)'
<1>1. phase[r] = "preview" /\ UNCHANGED <<relayVars, sent>> /\ r \notin sent /\ Vetted(r)
  BY DEF Preview, RequestInv, Answering, Before, Paying, relayVars
<1>2. ASSUME NEW p \in {"complete", "fail", "authorize"}, NEW v, v.kind # "sent", Judge(r, p, v),
             p # "fail" => Own(r, v), p = "authorize" => Witnessed(r)
      PROVE  RequestInv(r)'
  <2>1. phase'[r] = p /\ verdict'[r] = v
    BY <1>2, JudgeAt
  <2>2. Tells(r, verdict[r])'
    BY <1>1, <1>2, <2>1 DEF Tells
  <2> QED BY <1>1, <1>2, <2>1, <2>2, RouteStep
<1>3. ASSUME NEW kind, kind # "sent", Judge(r, "authorize", Verdict(r, 200, kind)), Witnessed(r)
      PROVE  RequestInv(r)'
  <2>1. Verdict(r, 200, kind).kind = kind /\ Own(r, Verdict(r, 200, kind))
    BY DEF Verdict, Own
  <2> QED BY <1>2, <1>3, <2>1
<1>4. Completes(r, "refused") => RequestInv(r)'
  <2>1. Verdict(r, 200, "refused").kind # "sent" /\ Own(r, Verdict(r, 200, "refused"))
    BY DEF Verdict, Own
  <2> QED BY <1>2, <2>1 DEF Completes
<1>5. Fails(r, 502, "error") => RequestInv(r)'
  <2>1. Verdict(r, 502, "error").kind # "sent"
    BY DEF Verdict
  <2> QED BY <1>2, <2>1 DEF Fails
<1>6. Simulated(Body(r)) \subseteq {"halt", "fault", "refused"}
  BY DEF Simulated
<1>7. \/ Completes(r, "refused") \/ Fails(r, 502, "error")
      \/ \E result \in Simulated(Body(r)) :
           Judge(r, "authorize", Verdict(r, 200, result)) /\ Witnessed(r)
  BY DEF Preview, Witnessed
<1> QED BY <1>3, <1>4, <1>5, <1>6, <1>7

LEMMA AuthorizeStep ==
  ASSUME RelayAssumption, Given, Types, NEW r \in Request, RequestInv(r),
         UNCHANGED <<deployment, ask>>, Authorize(r)
  PROVE  RequestInv(r)'
<1>1. /\ phase[r] = "authorize" /\ UNCHANGED <<priced, sent>> /\ r \notin sent
      /\ Vetted(r) /\ Witnessed(r) /\ Own(r, verdict[r]) /\ verdict[r].kind # "sent"
  BY DEF Authorize, RequestInv, Answering, Before, Paying
<1>2. ASSUME NEW p \in {"complete", "fail"}, NEW v, v.kind # "sent", Judge(r, p, v),
             p = "complete" => Own(r, v)
      PROVE  RequestInv(r)'
  <2>1. phase'[r] = p /\ verdict'[r] = v
    BY <1>2, JudgeAt
  <2>2. Tells(r, verdict[r])'
    BY <1>1, <1>2, <2>1 DEF Tells
  <2> QED BY <1>1, <1>2, <2>1, <2>2, RouteStep
<1>3. Completes(r, "denied") => RequestInv(r)'
  <2>1. Verdict(r, 200, "denied").kind # "sent" /\ Own(r, Verdict(r, 200, "denied"))
    BY DEF Verdict, Own
  <2> QED BY <1>2, <2>1 DEF Completes
<1>4. Fails(r, 402, "denied") \/ Fails(r, 502, "error") => RequestInv(r)'
  <2>1. Verdict(r, 402, "denied").kind # "sent" /\ Verdict(r, 502, "error").kind # "sent"
    BY DEF Verdict
  <2> QED BY <1>2, <2>1 DEF Fails
<1>5. Go(r, "complete") => RequestInv(r)'
  <2> SUFFICES ASSUME Go(r, "complete") PROVE RequestInv(r)'
    OBVIOUS
  <2>1. phase'[r] = "complete" /\ verdict'[r] = verdict[r]
    BY GoAt
  <2>2. Tells(r, verdict[r])'
    BY <1>1, <2>1 DEF Tells
  <2> QED BY <1>1, <2>1, <2>2, RouteStep
<1>6. Go(r, "price") /\ Granted(r)' => RequestInv(r)'
  <2> SUFFICES ASSUME Go(r, "price"), Granted(r)' PROVE RequestInv(r)'
    OBVIOUS
  <2>1. phase'[r] = "price"
    BY GoAt
  <2> QED BY <1>1, <2>1, RouteStep
<1> DEFINE after == IF Body(r).simulate THEN Go(r, "complete") ELSE Go(r, "price")
           request == PaymasterRequest(Body(r).invocation)
<1>7. ASSUME after, deployment.paymaster, request # Null,
             request.hash = Body(r).invocation, approved' = [approved EXCEPT ![r] = request]
      PROVE  RequestInv(r)'
  <2>1. approved'[r] = request
    BY <1>7 DEF Types
  <2>2. ~Body(r).simulate => Granted(r)'
    BY <1>7, <2>1 DEF Granted, Body
  <2> QED BY <1>5, <1>6, <1>7, <2>2
<1>8. ASSUME after, ~deployment.paymaster, deployment.unsponsored PROVE RequestInv(r)'
  <2>1. ~Body(r).simulate => Granted(r)'
    BY <1>8 DEF Granted, Body
  <2> QED BY <1>5, <1>6, <1>8, <2>1
<1>9. request # Null => request.hash = Body(r).invocation
  BY DEF PaymasterRequest
<1>10. \/ Completes(r, "denied") \/ Fails(r, 402, "denied") \/ Fails(r, 502, "error")
       \/ /\ after /\ deployment.paymaster /\ request # Null
          /\ approved' = [approved EXCEPT ![r] = request]
       \/ after /\ ~deployment.paymaster /\ deployment.unsponsored
  <2> HIDE DEF request, after
  <2>1. \/ /\ deployment.paymaster
           /\ \/ \E hash \in {Null, Body(r).invocation}, max \in Approval :
                   IF request # Null /\ hash = request.hash
                   THEN /\ approved' = [approved EXCEPT ![r] = request]
                        /\ approvedMax' = [approvedMax EXCEPT ![r] = max]
                        /\ after
                   ELSE Fails(r, 502, "error") /\ UNCHANGED <<approved, approvedMax>>
              \/ Completes(r, "denied") \/ Fails(r, 402, "denied")
              \/ Fails(r, 502, "error") /\ UNCHANGED <<approved, approvedMax>>
        \/ /\ ~deployment.paymaster
           /\ \/ deployment.unsponsored /\ after
              \/ Completes(r, "denied") \/ Fails(r, 402, "denied")
    BY DEF Authorize, request, after
  <2> QED BY ONLY <2>1
<1> HIDE DEF request, after
<1> QED BY <1>3, <1>4, <1>7, <1>8, <1>9, <1>10

LEMMA PriceStep ==
  ASSUME RelayAssumption, Given, Types, NEW r \in Request, RequestInv(r),
         UNCHANGED <<deployment, ask>>, Price(r)
  PROVE  RequestInv(r)'
<1>1. /\ phase[r] = "price" /\ UNCHANGED <<approved, approvedMax, sent>> /\ r \notin sent
      /\ Vetted(r) /\ Witnessed(r) /\ Granted(r)
  BY DEF Price, RequestInv, Answering, Before, Paying
<1>2. ASSUME NEW p \in {"complete", "fail"}, NEW v, v.kind # "sent", Judge(r, p, v),
             p = "complete" => Own(r, v)
      PROVE  RequestInv(r)'
  <2>1. phase'[r] = p /\ verdict'[r] = v
    BY <1>2, JudgeAt
  <2>2. Tells(r, verdict[r])'
    BY <1>1, <1>2, <2>1 DEF Tells
  <2> QED BY <1>1, <1>2, <2>1, <2>2, RouteStep
<1>3. Completes(r, "refused") => RequestInv(r)'
  <2>1. Verdict(r, 200, "refused").kind # "sent" /\ Own(r, Verdict(r, 200, "refused"))
    BY DEF Verdict, Own
  <2> QED BY <1>2, <2>1 DEF Completes
<1>4. Fails(r, 502, "error") => RequestInv(r)'
  <2>1. Verdict(r, 502, "error").kind # "sent"
    BY DEF Verdict
  <2> QED BY <1>2, <2>1 DEF Fails
<1>5. ASSUME NEW fee, FeesAllowed(fee, approvedMax[r]), priced' = [priced EXCEPT ![r] = fee],
             Go(r, "send")
      PROVE  RequestInv(r)'
  <2>1. phase'[r] = "send" /\ priced'[r] = fee
    BY <1>5, GoAt DEF Types
  <2>2. Vetted(r)' /\ Witnessed(r)' /\ Granted(r)'
    BY <1>1 DEF Vetted, Witnessed, Granted, Body, WitnessesOf, HasFeeCeiling
  <2>3. FeesAllowed(priced[r], approvedMax[r])'
    BY <1>1, <1>5, <2>1 DEF FeesAllowed
  <2> QED BY <1>1, <2>1, <2>2, <2>3, RouteStep DEF Signable
<1> QED BY <1>3, <1>4, <1>5 DEF Price

LEMMA SubmitStep ==
  ASSUME RelayAssumption, Given, Types, NEW r \in Request, RequestInv(r),
         UNCHANGED <<deployment, ask>>, Submit(r)
  PROVE  RequestInv(r)'
<1>1. /\ phase[r] \in {"send", "forward"} /\ UNCHANGED <<approved, approvedMax, priced>>
      /\ r \notin sent /\ (sent' = sent \/ sent' = sent \cup {r})
  BY DEF Submit, RequestInv, Answering, Before
<1>2. CASE Fails(r, 502, "error")
  <2>1. phase'[r] = "fail" /\ verdict'[r].kind # "sent" /\ ~(verdict'[r].status < 500)
    <3>1. phase'[r] = "fail" /\ verdict'[r] = Verdict(r, 502, "error")
      BY <1>2, JudgeAt DEF Fails
    <3> QED BY <3>1 DEF Verdict
  <2>2. Tells(r, verdict[r])'
    BY <2>1 DEF Tells
  <2> QED BY <1>1, <2>1, <2>2, RouteStep
<1>3. CASE Completes(r, "sent") /\ sent' = sent \cup {r}
  <2>1. phase'[r] = "complete" /\ verdict'[r] = Verdict(r, 200, "sent")
    BY <1>3, JudgeAt DEF Completes
  <2>2. verdict'[r].kind = "sent" /\ verdict'[r].by = r /\ Own(r, verdict'[r])
    BY <2>1 DEF Verdict, Own
  <2>3. Tells(r, verdict[r])'
    BY <1>3, <2>2 DEF Tells
  <2> QED BY <1>1, <2>1, <2>2, <2>3, RouteStep
<1> QED BY <1>2, <1>3 DEF Submit


LEMMA AwaitStep ==
  ASSUME RelayAssumption, Given, Types, NEW r \in Request, RequestInv(r),
         \A k \in Key : Stored(k), UNCHANGED <<deployment, ask>>,
         Await(r) \/ (Killed(r) /\ UNCHANGED relayVars)
  PROVE  RequestInv(r)' /\ StaysPast(r)
<1>1. CASE /\ UNCHANGED relayVars
           /\ Send(r) \/ LookUp(r) \/ Replay(r) \/ Claim(r) \/ Accept(r)
  BY <1>1, BeginStep
<1>2. CASE UNCHANGED relayVars /\ (Limit(r) \/ Arm(r))
  BY <1>2, LimitStep
<1>3. CASE /\ UNCHANGED relayVars
           /\ \/ Complete(r, Caught(r)) \/ Completed(r, Caught(r)) \/ Fail(r) \/ Release(r)
              \/ Killed(r)
  BY <1>3, EndStep
<1>4. CASE Validate(r) \/ Preview(r) \/ Authorize(r) \/ Price(r) \/ Submit(r)
  <2>1. phase[r] \notin After
    BY <1>4 DEF Validate, Preview, Authorize, Price, Submit, After
  <2> QED
    BY <1>4, <2>1, ValidateStep, PreviewStep, AuthorizeStep, PriceStep, SubmitStep
       DEF StaysPast
<1> QED BY <1>1, <1>2, <1>3, <1>4 DEF Await

-----------------------------------------------------------------------------
(* What is stored *)

(* An answer that stood before a step stands after it: its request is past  *)
(* sending.                                                                 *)
LEMMA StoredStays ==
  ASSUME NEW r \in Request, Others(r), StaysPast(r), NEW k \in Key, Stored(k),
         UNCHANGED <<ask, deployment>>, response'[k] = response[k]
  PROVE  Stored(k)'
<1> SUFFICES ASSUME response[k] # None PROVE Stored(k)'
  BY DEF Stored
<1>1. PICK v : v = response[k]
  OBVIOUS
<1>2. /\ v.by \in Request /\ ask[v.by] # None /\ KeyOf(v.by) = k /\ v.status = 200
      /\ v.kind = "sent" <=> v.by \in sent
      /\ phase[v.by] \in After
  BY <1>1 DEF Stored
<1>3. phase'[v.by] \in After /\ (v.by \in sent' <=> v.by \in sent)
  <2>1. CASE v.by = r
    BY <1>2, <2>1 DEF StaysPast
  <2>2. CASE v.by # r
    BY <1>2, <2>2 DEF Others
  <2> QED BY <2>1, <2>2
<1> QED BY <1>1, <1>2, <1>3 DEF Stored, KeyOf

LEMMA StoredStep ==
  ASSUME RelayAssumption, Given, Types, NEW r \in Request, RequestInv(r),
         \A k \in Key : Stored(k), UNCHANGED <<deployment, ask>>,
         Await(r) \/ (Killed(r) /\ UNCHANGED relayVars), Others(r), StaysPast(r)
  PROVE  \A k \in Key : Stored(k)'
<1>1. CASE UNCHANGED response
  BY <1>1, StoredStays
<1>2. CASE /\ Complete(r, Caught(r)) /\ Keyed(r) /\ UNCHANGED relayVars
           /\ response' = Write(response, KeyOf(r), verdict[r])
  <2>1. /\ phase[r] = "complete" /\ Own(r, verdict[r]) /\ Tells(r, verdict[r]) /\ ask[r] # None
    BY <1>2 DEF Complete, RequestInv, Answering
  <2>2. PICK v : v = verdict[r]
    OBVIOUS
  <2>3. v.by = r /\ v.status = 200 /\ (v.kind = "sent" <=> r \in sent)
    BY <2>1, <2>2 DEF Own, Tells
  <2>4. phase'[r] \in After /\ sent' = sent
    BY <2>1 DEF StaysPast, After
  <2>5. ASSUME NEW k \in Key, k # KeyOf(r) PROVE Stored(k)'
    <3>1. response'[k] = response[k]
      BY <1>2, <2>5 DEF Write, Types
    <3> QED BY <3>1, StoredStays
  <2>6. ASSUME NEW k \in Key, k = KeyOf(r) PROVE Stored(k)'
    <3>1. response'[k] = v
      BY <1>2, <2>2, <2>6 DEF Write, Types
    <3> QED BY <2>1, <2>3, <2>4, <2>6, <3>1 DEF Stored, KeyOf
  <2> QED BY <2>5, <2>6
<1>3. \/ UNCHANGED response
      \/ /\ Complete(r, Caught(r)) /\ Keyed(r) /\ UNCHANGED relayVars
         /\ response' = Write(response, KeyOf(r), verdict[r])
  <2>1. CASE Complete(r, Caught(r)) /\ UNCHANGED relayVars
    BY <2>1 DEF Complete
  <2>2. CASE Killed(r)
    BY <2>2 DEF Killed, durableVars
  <2> QED
    BY <2>1, <2>2
       DEF Await, Send, LookUp, Replay, Claim, Accept, Limit, Arm, Completed, Fail, Release,
           Validate, Preview, Authorize, Price, Submit, durableVars
<1> QED BY <1>1, <1>2, <1>3

-----------------------------------------------------------------------------
(* The invariant *)

LEMMA RelayInit ==
  ASSUME RelayAssumption, Init
  PROVE  Inv
<1>1. Given
  BY DEF Init, DurableInit, Given
<1>2. Types
  <2>1. /\ lock \in [Key -> Request \cup {None}]
        /\ response \in [Key -> Verdicts \cup {None}]
        /\ journal \in [Request -> {None, "accepted", "replayed", "completed", "failed"}]
        /\ window \in [Client -> [count: Nat, ttl: BOOLEAN]]
    BY DEF Init, DurableInit
  <2>2. phase \in [Request -> Phases]
    BY DEF Init, DurableInit, Phases, Closed
  <2>3. verdict \in [Request -> Verdicts]
    <3>1. NoVerdict \in Verdicts
      BY DEF NoVerdict, Verdicts, Kinds
    <3> QED BY <3>1 DEF Init, DurableInit
  <2>4. /\ approvedMax \in [Request -> Approval \cup {None}]
        /\ \A r \in Request : approved[r] = Null
        /\ DOMAIN approved = Request
        /\ priced \in [Request -> [system: Nat, network: Nat]]
        /\ sent = {} /\ executed = {}
    BY DEF Init, NoFee
  <2> QED BY <2>1, <2>2, <2>3, <2>4 DEF Types
<1>3. Table(memory)
  <2>1. memory = <<>>
    BY DEF Init, DurableInit
  <2>2. MaxEntries \in Nat
    BY DEF RelayAssumption
  <2> QED BY <2>1, <2>2 DEF Table, Distinct
<1>4. ASSUME NEW r \in Request PROVE RequestInv(r)
  <2>1. phase[r] = IF ask[r] = None THEN "absent" ELSE "unsent"
    BY DEF Init, DurableInit
  <2>2. r \notin sent
    BY DEF Init
  <2> QED BY <2>1, <2>2 DEF RequestInv, Answering, Paying
<1>5. ASSUME NEW k \in Key PROVE Stored(k)
  BY DEF Init, DurableInit, Stored
<1> QED BY <1>1, <1>2, <1>3, <1>4, <1>5 DEF Inv

(* Given is about settings and questions only. *)
LEMMA GivenStays ==
  ASSUME Given, UNCHANGED <<deployment, ask>>
  PROVE  Given'
BY DEF Given

(* A step of one request, or its death. *)
LEMMA MoveStep ==
  ASSUME RelayAssumption, Inv, NEW r \in Request, UNCHANGED <<deployment, ask>>,
         Await(r) \/ (Killed(r) /\ UNCHANGED relayVars)
  PROVE  Inv'
<1>1. Given /\ Types /\ Table(memory) /\ RequestInv(r) /\ \A k \in Key : Stored(k)
  BY DEF Inv
<1>2. RequestInv(r)' /\ StaysPast(r)
  BY <1>1, AwaitStep
<1>3. Others(r)
  BY <1>1, OthersStep
<1>4. \A q \in Request : RequestInv(q)'
  BY <1>2, <1>3, RequestStays DEF Inv
<1>5. \A k \in Key : Stored(k)'
  BY <1>1, <1>2, <1>3, StoredStep
<1>6. Given'
  BY <1>1, GivenStays
<1>7. CASE Await(r)
  <2>1. ask[r] = None => phase[r] = "absent"
    BY <1>1 DEF RequestInv
  <2>2. phase' \in [Request -> Phases] /\ verdict' \in [Request -> Verdicts]
    BY <1>1, <1>7, <2>1, PhaseTypes
  <2>3. executed' \subseteq Nonce
    BY <1>1, <1>7, RelayTypes DEF Types
  <2>4. Types'
    BY <1>1, <1>7, <2>2, <2>3, StoreTypes, RelayTypes DEF Types, Body
  <2>5. Table(memory)'
    BY <1>1, <1>7, TableStep DEF Table, Store
  <2> QED BY <1>4, <1>5, <1>6, <2>4, <2>5 DEF Inv
<1>8. CASE Killed(r) /\ UNCHANGED relayVars
  <2>1. UNCHANGED <<durableVars, limiterVars, relayVars, verdict>>
    BY <1>8 DEF Killed, Go
  <2>2. phase' \in [Request -> Phases]
    <3>1. "killed" \in Phases
      BY DEF Phases, Closed
    <3> QED BY <1>1, <1>8, <3>1, GoTypes DEF Killed
  <2>3. Types'
    BY <1>1, <2>1, <2>2 DEF Types, durableVars, limiterVars, relayVars, Body
  <2>4. Table(memory)'
    BY <1>1, <2>1 DEF Table, Store, limiterVars
  <2> QED BY <1>4, <1>5, <1>6, <2>3, <2>4 DEF Inv
<1> QED BY <1>7, <1>8

(* What expires, and what the chain executes.                               *)
LEMMA OutsideStep ==
  ASSUME RelayAssumption, Inv, UNCHANGED <<deployment, ask>>,
         Expire \/ (\E nonce \in Nonce : Execute(nonce))
  PROVE  Inv'
<1>1. Given /\ Types /\ Table(memory)
  BY DEF Inv
<1>2. Given'
  BY <1>1, GivenStays
<1>3. /\ UNCHANGED <<phase, verdict, approvedMax, approved, priced, sent>>
      /\ \/ UNCHANGED response
         \/ \E k \in Key : response' = Write(response, k, None)
  BY DEF Expire, Execute, LockExpires, ResponseExpires, WindowExpires, HitExpires,
         requestVars, relayVars, durableVars
<1>4. ASSUME NEW r \in Request PROVE RequestInv(r)'
  <2>1. RequestInv(r)
    BY DEF Inv
  <2>2. Answering(r)'
    <3>1. ASSUME NEW v, Tells(r, v) PROVE Tells(r, v)'
      BY <1>3, <3>1 DEF Tells, KeyOf, Body
    <3> QED BY <1>3, <2>1, <3>1 DEF RequestInv, Answering, Own
  <2>3. Paying(r)'
    <3>1. Vetted(r)' = Vetted(r) /\ Witnessed(r)' = Witnessed(r) /\ Granted(r)' = Granted(r)
      BY <1>3 DEF Vetted, Witnessed, Granted, Body, WitnessesOf, HasFeeCeiling
    <3>2. Signable(r)' = Signable(r)
      BY <1>3, <3>1 DEF Signable, FeesAllowed
    <3> QED BY <1>3, <2>1, <3>1, <3>2 DEF RequestInv, Paying, Body
  <2> QED BY <1>3, <2>1, <2>2, <2>3 DEF RequestInv, ClientOf
<1>5. ASSUME NEW k \in Key PROVE Stored(k)'
  <2>1. Stored(k)
    BY DEF Inv
  <2>2. response'[k] = response[k] \/ response'[k] = None
    BY <1>1, <1>3 DEF Write, Types
  <2> QED BY <1>3, <2>1, <2>2 DEF Stored, KeyOf
<1>6. /\ lock' \in [Key -> Request \cup {None}]
      /\ response' \in [Key -> Verdicts \cup {None}]
      /\ UNCHANGED journal
  BY <1>1 DEF Types, Expire, Execute, LockExpires, ResponseExpires, WindowExpires, HitExpires,
              durableVars, Write
<1>7. window' \in [Client -> [count: Nat, ttl: BOOLEAN]]
  <2>1. PICK w : w = [count |-> 0, ttl |-> FALSE]
    OBVIOUS
  <2>2. \/ UNCHANGED window
        \/ \E c \in Client : window' = [window EXCEPT ![c] = w]
    BY <2>1 DEF Expire, Execute, LockExpires, ResponseExpires, WindowExpires, HitExpires,
                limiterVars
  <2>3. w \in [count: Nat, ttl: BOOLEAN]
    BY ONLY <2>1
  <2>4. window \in [Client -> [count: Nat, ttl: BOOLEAN]]
    BY <1>1 DEF Types
  <2> QED BY ONLY <2>2, <2>3, <2>4
<1>8. executed' \subseteq Nonce
  BY <1>1 DEF Types, Expire, Execute, relayVars
<1>9. Types'
  BY <1>1, <1>3, <1>6, <1>7, <1>8 DEF Types, Body
<1>10. Table(memory)'
  <2>1. CASE UNCHANGED memory
    BY <1>1, <2>1 DEF Table, Store
  <2>2. CASE \E c \in Client : HitExpires(c)
    BY <1>1, <2>2, ExpiredTable DEF Table, Store
  <2> QED
    BY <2>1, <2>2
       DEF Expire, Execute, LockExpires, ResponseExpires, WindowExpires, limiterVars
<1> QED BY <1>2, <1>4, <1>5, <1>9, <1>10 DEF Inv

LEMMA RelayInvariant == Spec => []Inv
<1>1. Init => Inv
  BY RelayInit, RelayAssumption
<1>2. Inv /\ [Next]_vars => Inv'
  <2> SUFFICES ASSUME Inv, [Next]_vars PROVE Inv'
    OBVIOUS
  <2>1. CASE UNCHANGED vars
    <3>1. /\ deployment' = deployment /\ ask' = ask /\ lock' = lock /\ response' = response
          /\ journal' = journal /\ window' = window /\ memory' = memory /\ phase' = phase
          /\ verdict' = verdict /\ approvedMax' = approvedMax /\ approved' = approved
          /\ priced' = priced /\ sent' = sent /\ executed' = executed
      BY <2>1 DEF vars, durableVars, limiterVars, requestVars, relayVars
    <3>2. Given' /\ Types' /\ Table(memory)'
      BY <3>1 DEF Inv, Given, Types, Table, Store, Body
    <3>3. ASSUME NEW r \in Request PROVE RequestInv(r)'
      <4>1. Answering(r)' = Answering(r)
        BY <3>1 DEF Answering, Tells, Own, KeyOf, Body
      <4>2. Vetted(r)' = Vetted(r) /\ Granted(r)' = Granted(r) /\ Witnessed(r)' = Witnessed(r)
        BY <3>1 DEF Vetted, Granted, Witnessed, WitnessesOf, HasFeeCeiling, Body
      <4>3. Signable(r)' = Signable(r)
        BY <3>1, <4>2 DEF Signable, FeesAllowed
      <4>4. Paying(r)' = Paying(r)
        BY <3>1, <4>2, <4>3 DEF Paying, Body
      <4> QED BY <3>1, <4>1, <4>4 DEF Inv, RequestInv, ClientOf
    <3>4. ASSUME NEW k \in Key PROVE Stored(k)'
      BY <3>1 DEF Inv, Stored, KeyOf
    <3> QED BY <3>2, <3>3, <3>4 DEF Inv
  <2>2. CASE Next
    <3>1. UNCHANGED <<deployment, ask>>
      BY <2>2 DEF Next
    <3>2. ASSUME NEW r \in Request, Await(r) \/ (Killed(r) /\ UNCHANGED relayVars)
          PROVE  Inv'
      BY <3>1, <3>2, MoveStep, RelayAssumption
    <3>3. Expire \/ (\E nonce \in Nonce : Execute(nonce)) => Inv'
      BY <3>1, OutsideStep, RelayAssumption
    <3> QED BY <2>2, <3>2, <3>3 DEF Next
  <2> QED BY <2>1, <2>2
<1> QED BY <1>1, <1>2, PTL DEF Spec

-----------------------------------------------------------------------------
(* However requests interleave, are refused, replayed, killed or lose their *)
(* lock: who is told that something was sent can rely on it.                *)
THEOREM AnswersHonest == Spec => []AnswersTellWhatWasSent
<1>1. Inv => AnswersTellWhatWasSent
  BY DEF Inv, RequestInv, Answering, Tells, AnswersTellWhatWasSent
<1> QED BY <1>1, RelayInvariant, PTL

(* What is stored under a key is the final answer of a request with it.     *)
THEOREM StoredFinal == Spec => []StoredAnswersAreFinal
<1>1. Inv => StoredAnswersAreFinal
  BY DEF Inv, Stored, StoredAnswersAreFinal
<1> QED BY <1>1, RelayInvariant, PTL

(* Whatever simulations, paymasters and clients say, the relay's key signs  *)
(* only within the caps, the approval and the account's scope.              *)
THEOREM PaymentsBounded == Spec => []RelayPaysWithinBounds
<1>1. Inv => RelayPaysWithinBounds
  <2> SUFFICES ASSUME Inv, NEW r \in sent, ~Body(r).raw
               PROVE  LET total == priced[r].system + priced[r].network IN
                      /\ HasFeeCeiling /\ Body(r).invocation.contract = Core /\ ~Body(r).simulate
                      /\ WitnessesOf(Body(r).invocation).rules \subseteq {Core, deployment.scope}
                      /\ Within(priced[r].system, deployment.maxSystem)
                      /\ Within(priced[r].network, deployment.maxNetwork)
                      /\ Within(total, deployment.maxTotal)
                      /\ IF deployment.paymaster
                         THEN /\ approved[r] # Null /\ approved[r].hash = Body(r).invocation
                              /\ Within(total, approvedMax[r])
                         ELSE deployment.unsponsored
    BY DEF RelayPaysWithinBounds
  <2>1. r \in Request
    BY DEF Inv, Types
  <2>2. Signable(r)
    BY <2>1 DEF Inv, RequestInv, Paying
  <2>3. WitnessesOf(Body(r).invocation).rules \subseteq {Core, deployment.scope}
    <3> DEFINE inv == Body(r).invocation
               auth == Authority(inv, deployment.proxyWitness, deployment.scope, Proxy,
                                 RelayAccount)
    <3>1. WitnessesOf(inv) = auth /\ auth # Null
      BY <2>2 DEF Signable, Witnessed, WitnessesOf
    <3>2. auth.rules = {} \/ auth.rules = {Core, deployment.scope}
      BY <3>1 DEF Authority, FeePayerOnly, ProxyTransaction
    <3> QED BY <3>1, <3>2
  <2> QED BY <2>2, <2>3 DEF Signable, Vetted, Granted, FeesAllowed, Relayable
<1> QED BY <1>1, RelayInvariant, PTL

(* The limiter's table stays within its size, and is empty where Redis must *)
(* count.                                                                   *)
THEOREM LimiterBounded == Spec => []LimiterInBounds
<1>1. Inv => LimiterInBounds
  <2> SUFFICES ASSUME Inv PROVE LimiterInBounds
    OBVIOUS
  <2>1. Types /\ Table(memory)
    BY DEF Inv
  <2>2. DOMAIN memory = 1 .. Len(memory) /\ \A i \in 1 .. Len(memory) : memory[i] \in Entries
    BY <2>1 DEF Table
  <2>3. IsInjective([i \in DOMAIN memory |-> memory[i].client])
    BY <2>1, <2>2 DEF Table, Distinct, IsInjective
  <2>4. \A i \in DOMAIN memory : memory[i].hits \in 0 .. MaxRequests
    BY <2>2 DEF Entries
  <2>5. \A k \in Key : response[k] = None \/ response[k] \in Verdicts
    BY <2>1 DEF Types
  <2>6. RelayTypeOK
    BY <2>1, <2>3, <2>4, <2>5 DEF Types, Table, RelayTypeOK
  <2> QED BY <2>1, <2>6 DEF Table, ProductionCountsInRedis, LimiterInBounds
<1> QED BY <1>1, RelayInvariant, PTL
=============================================================================
