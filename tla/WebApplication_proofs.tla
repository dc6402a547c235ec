------------------------- MODULE WebApplication_proofs -------------------------
(***************************************************************************)
(* Proofs about the pages of the web application.  A page runs alone, so   *)
(* each has an invariant of its own, about the handlers that await and     *)
(* what they will do to the page when they are answered.  Of accounts,     *)
(* contracts, names, signers, wallets and the number of handlers that wait *)
(* at once nothing is assumed but that what is missing is no value.        *)
(***************************************************************************)
EXTENDS WebApplication, FiniteSetTheorems, TLAPS

MissingAssumption ==
  /\ Null \notin Name
  /\ Null \notin {"relay-check", "relay-submit", "client-broadcast", "rotate"}
  /\ \A a, o, b, r : Null # [account |-> a, op |-> o, body |-> b, records |-> r]
  /\ \A i, p, w, v : Null # [id |-> i, path |-> p, payer |-> w, plan |-> v]

-----------------------------------------------------------------------------
(* The contract picker *)

(* The request under way is for what the field says, unless the field has   *)
(* changed since: then the pause runs.                                      *)
Settled ==
  /\ Picker!InvokeTargetContract \in {NamedBy[target], Null}
  /\ target \in Literal => Picker!InvokeTargetContract = NamedBy[target]
  /\ methods = {} \/ methods = MethodsOf[Picker!InvokeTargetContract]

PickerInv ==
  /\ \A l \in lookups :
       /\ l = [kind |-> l.kind, name |-> l.name, current |-> l.current]
       /\ l.kind = "search" => l.name \in Searched
       /\ l.current /\ ~timer /\ target \in Name => l.name = target
  /\ ~timer /\ target \in Name \ Searched /\ (\A l \in lookups : ~l.current) => Settled

-----------------------------------------------------------------------------
(* The home page *)

IsDraft(d) == d = [account |-> d.account, op |-> d.op, body |-> d.body, records |-> d.records]

HomeFlight(f) ==
  \/ f = [does |-> "load", account |-> f.account]
  \/ f = [does |-> "persist", answer |-> f.answer, record |-> f.record, check |-> f.check]
  \/ f = [does |-> "sign", signer |-> f.signer, invocation |-> f.invocation]
  \/ f = [does |-> "append", signer |-> f.signer, record |-> f.record, answer |-> f.answer]
  \/ f = [does |-> "check", verdict |-> f.verdict, request |-> f.request]
  \/ f = [does |-> "submit", request |-> f.request]
  \/ f = [does |-> "rotate", answer |-> f.answer]

(* One draft: being stored, stored and unanswered, or answered.             *)
HomeInv ==
  /\ draft \in BOOLEAN /\ drafts \in {0, 1}
  /\ row # Null => IsDraft(row)
  /\ \A f \in flights : HomeFlight(f)
  /\ \A f, g \in flights : f.does = "persist" /\ g.does = "persist" => f = g
  /\ \A f \in flights :
       /\ f.does = "persist" =>
            /\ ~draft /\ IsDraft(f.record)
            /\ f.answer = Null => drafts = 0
            /\ f.answer # Null => drafts = 1 /\ row # Null /\ f.answer.body = row.body
       /\ f.does = "append" => draft
       /\ f.does = "rotate" => draft /\ (f.answer # Null => f.answer.body = row.body)
  /\ draft => drafts = 1 /\ row # Null /\ body = row.body
  /\ ~draft /\ (\A f \in flights : f.does # "persist") => drafts = 0
  /\ confirmation = "rotate" => draft

-----------------------------------------------------------------------------
(* The page of a shared draft *)

(* What a check or a submission has still to call, and what others have.    *)
GateChains ==
  {<<"preflight", "activity", "receipt">>, <<"preflight", "receipt">>,
   <<"status", "activity", "receipt">>, <<"activity", "receipt">>}

OtherChains ==
  {<<"receipt">>, <<"activity">>, <<"sign", "activity">>, <<"rotateOperator", "activity">>,
   <<"rotateCollaborator", "activity">>}

SharedFlight(f) ==
  \/ /\ f = [does |-> "call", calls |-> f.calls, link |-> f.link, record |-> f.record,
             answer |-> f.answer]
     /\ f.calls \in GateChains \cup OtherChains
  \/ f = [does |-> "check", request |-> f.request]
  \/ f = [does |-> "submit", request |-> f.request]
  \/ f = [does |-> "sign", record |-> f.record]

Gate(f) ==
  \/ f.does \in {"check", "submit"}
  \/ f.does = "call" /\ f.calls \in GateChains

(* One check or submission is under way at most, as long as the flag is up; *)
(* the verdict on screen is about the request that was checked last.        *)
SharedInv ==
  /\ \A f \in flights : SharedFlight(f)
  /\ \A f, g \in flights : Gate(f) /\ Gate(g) => f = g
  /\ \A f \in flights : Gate(f) => pending # Null
  /\ \A f \in flights : f.does = "check" => f.request = checkRequest
  /\ check = "ok" /\ (\A f \in flights : f.does # "check") => passed = checkRequest

-----------------------------------------------------------------------------
(* The workspace of native accounts *)

NativeCall(f) ==
  \/ f = [does |-> "connect", id |-> f.id, fresh |-> f.fresh]
  \/ /\ f = [does |-> "review", at |-> f.at, client |-> f.client, fresh |-> f.fresh,
             review |-> f.review]
     /\ f.review = [id |-> f.review.id, path |-> f.review.path, payer |-> f.review.payer,
                    plan |-> f.review.plan]
  \/ f = [does |-> "submit", at |-> f.at, client |-> f.client, review |-> f.review]
  \/ f = [does |-> "import", at |-> f.at, client |-> f.client, fresh |-> f.fresh,
          review |-> f.review, id |-> f.id]
  \/ f = [does |-> "broadcast", at |-> f.at, client |-> f.client, import |-> f.import]

Sends(f) == f.does \in {"submit", "broadcast"}

(* One call sends at most; what was sent is retained, and what is retained  *)
(* was sent or is about to be.                                              *)
SendingInv ==
  /\ submitting \in BOOLEAN
  /\ submitting => \E f \in calls : Sends(f)
  /\ \A f \in calls : Sends(f) => submitting
  /\ \A f, g \in calls : Sends(f) /\ Sends(g) => f = g
  /\ \A f \in calls : f.does = "submit" => f.review.id \notin used
  /\ \A k \in sent : \E e \in entries : e.key = k
  /\ \A e \in entries : e.key \notin sent =>
       \E f \in calls : f.does = "broadcast" /\ f.at = "preflight" /\ Native!Key(f) = e.key
  /\ \A f \in calls : f.does = "broadcast" =>
       /\ f.at = "preflight" =>
            Native!Key(f) \notin sent /\ \E e \in entries : e.key = Native!Key(f)
       /\ f.at \in {"sending", "outcome"} => Native!Key(f) \in sent

(* While a review is built there is neither a review nor an import.         *)
ReviewingInv ==
  /\ \A f \in calls : f.does = "review" /\ f.fresh =>
       /\ active = Null /\ imported = Null
       /\ \A g \in calls : g.does = "import" => ~g.fresh
       /\ \A g \in calls : g.does = "review" /\ g.fresh => f = g
  /\ imported # Null /\ active # Null => imported.review = active

NativeInv == (\A f \in calls : NativeCall(f)) /\ SendingInv /\ ReviewingInv

-----------------------------------------------------------------------------
(* The tab *)

WebInv ==
  /\ PickerInv /\ NativeInv
  /\ page # "shared" => HomeInv /\ shown = Null
  /\ page = "shared" => SharedInv /\ draft = FALSE /\ drafts = 0


-----------------------------------------------------------------------------
(* Steps of the picker *)

LEMMA PickerInit == Picker!Init => PickerInv
BY DEF Picker!Init, PickerInv, Settled, Picker!InvokeTargetContract

(* A request made for what the field says is the only one that counts.      *)
LEMMA RequestMade ==
  ASSUME PickerInv, NEW kind \in {"search", "manifest"}, NEW n,
         kind = "search" => n \in Searched, target' = n,
         lookups' = Picker!Supersede(kind, n)
  PROVE  PickerInv'
<1>1. PICK new : new = [kind |-> kind, name |-> n, current |-> TRUE]
  OBVIOUS
<1>2. ASSUME NEW l \in lookups'
      PROVE  /\ l = [kind |-> l.kind, name |-> l.name, current |-> l.current]
             /\ l.kind = "search" => l.name \in Searched
             /\ l.current => l = new
  <2>1. CASE l = new
    BY <1>1, <2>1
  <2>2. CASE l # new
    <3>1. PICK k \in lookups : l = [k EXCEPT !.current = FALSE]
      BY <1>1, <2>2 DEF Picker!Supersede
    <3>2. /\ k = [kind |-> k.kind, name |-> k.name, current |-> k.current]
          /\ k.kind = "search" => k.name \in Searched
      BY DEF PickerInv
    <3>3. l = [kind |-> k.kind, name |-> k.name, current |-> FALSE]
      BY <3>1, <3>2
    <3> QED BY <3>2, <3>3
  <2> QED BY <2>1, <2>2
<1>3. new \in lookups' /\ new.current /\ new.name = n
  BY <1>1 DEF Picker!Supersede
<1> QED BY <1>2, <1>3 DEF PickerInv

(* A request is answered, and what it found is taken if it still counts.    *)
LEMMA RequestAnswered ==
  ASSUME PickerInv, NEW l \in lookups, lookups' = lookups \ {l}, UNCHANGED <<target, timer>>,
         \/ UNCHANGED <<resolved, methods>> /\ (l.current => l.kind = "search")
         \/ resolved' = Null /\ methods' = {}
         \/ /\ l.current /\ resolved' = NamedBy[l.name]
            /\ methods' \in {{}, MethodsOf[NamedBy[l.name]]}
  PROVE  PickerInv'
<1>1. \A k \in lookups' :
        /\ k = [kind |-> k.kind, name |-> k.name, current |-> k.current]
        /\ k.kind = "search" => k.name \in Searched
        /\ k.current /\ ~timer' /\ target' \in Name => k.name = target'
  BY DEF PickerInv
<1>2. ASSUME ~timer', target' \in Name \ Searched, \A k \in lookups' : ~k.current
      PROVE  Settled'
  <2>1. l.current => l.name = target /\ l.kind # "search"
    BY <1>2 DEF PickerInv
  <2>2. CASE UNCHANGED <<resolved, methods>> /\ ~l.current
    <3>1. Settled
      BY <1>2, <2>2 DEF PickerInv
    <3> QED BY <2>2, <3>1 DEF Settled, Picker!InvokeTargetContract
  <2>3. CASE resolved' = Null /\ methods' = {}
    BY <2>3 DEF Settled, Picker!InvokeTargetContract
  <2>4. CASE /\ l.current /\ resolved' = NamedBy[l.name]
             /\ methods' \in {{}, MethodsOf[NamedBy[l.name]]}
    <3>1. resolved' = NamedBy[target'] /\ methods' \in {{}, MethodsOf[NamedBy[target']]}
      BY <2>1, <2>4
    <3>2. target' \in Literal => Picker!InvokeTargetContract' = NamedBy[target']
      BY <3>1 DEF Picker!InvokeTargetContract
    <3>3. Picker!InvokeTargetContract' \in {NamedBy[target'], Null}
      BY <3>1 DEF Picker!InvokeTargetContract
    <3>4. methods' = {} \/ methods' = MethodsOf[Picker!InvokeTargetContract']
      BY <3>1 DEF Picker!InvokeTargetContract
    <3> QED BY <3>2, <3>3, <3>4 DEF Settled
  <2> QED BY <2>1, <2>2, <2>3, <2>4
<1> QED BY <1>1, <1>2 DEF PickerInv

LEMMA PickerStep ==
  ASSUME MissingAssumption, PickerInv, Picker!Next
  PROVE  PickerInv'
<1>1. ASSUME NEW n \in Name \cup {Null}, Picker!TypeTarget(n) PROVE PickerInv'
  BY <1>1 DEF Picker!TypeTarget, PickerInv, MissingAssumption
<1>2. CASE Picker!TimerFires
  <2>1. PICK kind \in {"search", "manifest"} :
          kind = IF target \in Searched THEN "search" ELSE "manifest"
    OBVIOUS
  <2>2. lookups' = Picker!Supersede(kind, target) /\ target' = target
    BY <1>2, <2>1 DEF Picker!TimerFires
  <2> QED BY <2>1, <2>2, RequestMade
<1>3. ASSUME NEW l \in lookups, NEW found \in BOOLEAN, NEW options,
             Picker!RefreshContractMethods(l, found, options)
      PROVE  PickerInv'
  <2>1. l.kind = "manifest" /\ lookups' = lookups \ {l} /\ UNCHANGED <<target, timer>>
    BY <1>3 DEF Picker!RefreshContractMethods
  <2>2. \/ ~l.current /\ UNCHANGED <<resolved, methods>>
        \/ resolved' = Null /\ methods' = {}
        \/ /\ l.current /\ resolved' = NamedBy[l.name]
           /\ methods' \in {{}, MethodsOf[NamedBy[l.name]]}
    BY <1>3 DEF Picker!RefreshContractMethods
  <2> QED BY <2>1, <2>2, RequestAnswered
<1>4. ASSUME NEW l \in lookups, NEW answered \in BOOLEAN, NEW found,
             Picker!SearchContractsByName(l, answered, found)
      PROVE  PickerInv'
  <2>1. l.kind = "search" /\ lookups' = lookups \ {l} /\ UNCHANGED <<target, timer>>
    BY <1>4 DEF Picker!SearchContractsByName
  <2>2. \/ UNCHANGED <<resolved, methods>>
        \/ resolved' = Null /\ methods' = {}
    BY <1>4 DEF Picker!SearchContractsByName
  <2> QED BY <2>1, <2>2, RequestAnswered
<1>5. ASSUME NEW c, NEW n, Picker!SelectContractSuggestion(c, n) PROVE PickerInv'
  BY <1>5, RequestMade DEF Picker!SelectContractSuggestion
<1>6. ASSUME NEW m, Picker!ChooseMethod(m) PROVE PickerInv'
  BY <1>6 DEF Picker!ChooseMethod, PickerInv, Settled, Picker!InvokeTargetContract
<1> QED BY <1>1, <1>2, <1>3, <1>4, <1>5, <1>6 DEF Picker!Next


-----------------------------------------------------------------------------
(* Steps of the home page *)

LEMMA HomeInit == MissingAssumption /\ Home!Init => HomeInv
BY DEF Home!Init, HomeInv, MissingAssumption

(* A handler that makes no draft begins, ends or goes on.                   *)
LEMMA FlightGoesOn ==
  ASSUME HomeInv, NEW gone, NEW new, \A f \in new : HomeFlight(f) /\ f.does # "persist",
         \A f \in gone \cap flights : f.does # "persist",
         flights' = (flights \ gone) \cup new,
         \A f \in new : f.does = "append" => draft,
         \A f \in new : f.does = "rotate" =>
            draft /\ (f.answer # Null => f.answer.body = row.body),
         UNCHANGED <<draft, drafts, row>>, draft => body' = body,
         confirmation' = "rotate" => draft
  PROVE  HomeInv'
<1>1. \A f \in flights' : HomeFlight(f) /\ (f.does = "persist" => f \in flights)
  BY DEF HomeInv
<1>2. \A f \in flights : f.does = "persist" => f \in flights'
  OBVIOUS
<1>3. \A f \in flights' :
       /\ f.does = "persist" =>
            /\ ~draft' /\ IsDraft(f.record)
            /\ f.answer = Null => drafts' = 0
            /\ f.answer # Null => drafts' = 1 /\ row' # Null /\ f.answer.body = row'.body
       /\ f.does = "append" => draft'
       /\ f.does = "rotate" => draft' /\ (f.answer # Null => f.answer.body = row'.body)
  BY <1>1 DEF HomeInv
<1>4. \A f, g \in flights' : f.does = "persist" /\ g.does = "persist" => f = g
  BY <1>1 DEF HomeInv
<1>5. /\ draft' \in BOOLEAN /\ drafts' \in {0, 1}
      /\ row' # Null => IsDraft(row')
      /\ draft' => drafts' = 1 /\ row' # Null /\ body' = row'.body
      /\ ~draft' /\ (\A f \in flights' : f.does # "persist") => drafts' = 0
      /\ confirmation' = "rotate" => draft'
  BY <1>2 DEF HomeInv
<1> QED BY <1>1, <1>3, <1>4, <1>5 DEF HomeInv


LEMMA FlightEnds ==
  ASSUME HomeInv, NEW f \in flights, f.does # "persist", flights' = flights \ {f},
         UNCHANGED <<draft, drafts, row>>, draft => body' = body,
         confirmation' = "rotate" => draft
  PROVE  HomeInv'
<1>1. PICK gone, new : gone = {f} /\ new = {}
  OBVIOUS
<1>2. flights' = (flights \ gone) \cup new
  BY <1>1
<1>3. (\A g \in gone \cap flights : g.does # "persist") /\ \A g \in new : FALSE
  BY <1>1
<1> QED BY <1>2, <1>3, FlightGoesOn

LEMMA HomeComposing ==
  ASSUME MissingAssumption, HomeInv, Home!Composing
  PROVE  HomeInv'
<1>1. ASSUME NEW a \in Account, Home!LoadAccount(a) PROVE HomeInv'
  <2>1. PICK new : new = {[does |-> "load", account |-> a]}
    OBVIOUS
  <2>2. flights' = (flights \ {}) \cup new
    BY <1>1, <2>1 DEF Home!LoadAccount, Home!Await
  <2>3. \A f \in new : HomeFlight(f) /\ f.does = "load"
    BY <2>1 DEF HomeFlight
  <2>4. UNCHANGED <<draft, drafts, row, body, confirmation>>
    BY <1>1 DEF Home!LoadAccount, Home!workspace
  <2>5. confirmation' = "rotate" => draft
    BY <2>4 DEF HomeInv
  <2> QED BY <2>2, <2>3, <2>4, <2>5, FlightGoesOn
<1>2. ASSUME NEW f \in flights, NEW exists, Home!AccountLoaded(f, exists) PROVE HomeInv'
  <2>1. /\ f.does = "load" /\ flights' = flights \ {f}
        /\ UNCHANGED <<draft, drafts, row, body, confirmation>>
    BY <1>2 DEF Home!AccountLoaded, Home!Flying
  <2>2. confirmation' = "rotate" => draft
    BY <2>1 DEF HomeInv
  <2> QED BY <2>1, <2>2, FlightEnds
<1>3. ASSUME NEW op, Home!StageOperation(op) PROVE HomeInv'
  <2>1. /\ UNCHANGED <<draft, drafts, row, confirmation, flights>>
        /\ draft => body' = body
    BY <1>3 DEF Home!StageOperation, Home!SetTransactionBody
  <2> QED BY <2>1 DEF HomeInv
<1>4. CASE Home!SetPaymasterEnabled
  <2>1. /\ UNCHANGED <<draft, drafts, row, confirmation, flights>>
        /\ draft => body' = body
    BY <1>4 DEF Home!SetPaymasterEnabled, Home!SetTransactionBody
  <2> QED BY <2>1 DEF HomeInv
<1>5. CASE Home!PersistDraft
  <2>1. PICK r : r = [account |-> account, op |-> opBody, body |-> body, records |-> records]
    OBVIOUS
  <2>2. PICK new : new = [does |-> "persist", answer |-> Null, record |-> r, check |-> check]
    OBVIOUS
  <2>3. /\ ~draft /\ \A f \in flights : f.does # "persist"
        /\ flights' = flights \cup {new}
        /\ UNCHANGED <<draft, drafts, row, body, confirmation>>
    BY <1>5, <2>1, <2>2
    DEF Home!PersistDraft, Home!Flying, Home!Await, Home!workspace
  <2>4. /\ HomeFlight(new) /\ IsDraft(new.record) /\ new.does = "persist" /\ new.answer = Null
    BY <2>1, <2>2 DEF HomeFlight, IsDraft
  <2>5. drafts = 0
    BY <2>3 DEF HomeInv
  <2> QED BY <2>3, <2>4, <2>5 DEF HomeInv
<1>6. ASSUME NEW f \in flights, Home!CreateDraft(f) PROVE HomeInv'
  <2>1. /\ f.does = "persist" /\ f.answer = Null
        /\ row' = f.record /\ drafts' = drafts + 1
        /\ UNCHANGED <<draft, body, confirmation>>
    BY <1>6 DEF Home!CreateDraft, Home!Flying, Home!workspace
  <2>2. /\ f = [does |-> "persist", answer |-> f.answer, record |-> f.record, check |-> f.check]
        /\ IsDraft(f.record) /\ ~draft /\ drafts = 0
        /\ \A g \in flights : g.does = "persist" => g = f
    BY <2>1 DEF HomeInv, HomeFlight
  <2>3. PICK r : r = f.record
    OBVIOUS
  <2>4. r # Null /\ IsDraft(r)
    BY <2>2, <2>3 DEF MissingAssumption, IsDraft
  <2>5. PICK new : new = [does |-> "persist", answer |-> r, record |-> r, check |-> f.check]
    OBVIOUS
  <2>6. flights' = (flights \ {f}) \cup {new}
    <3>1. [f EXCEPT !.answer = r] = new
      BY <2>2, <2>3, <2>5
    <3> QED BY <1>6, <2>3, <3>1 DEF Home!CreateDraft
  <2>7. HomeFlight(new) /\ new.does = "persist" /\ new.answer = r /\ new.record = r
    BY <2>5 DEF HomeFlight
  <2>8. row' = r /\ drafts' = 1 /\ draft' = FALSE
    BY <2>1, <2>2, <2>3 DEF HomeInv
  <2>9. /\ \A g \in flights' : HomeFlight(g) /\ (g.does = "persist" => g = new)
        /\ \A g \in flights' : g.does \notin {"append", "rotate"}
    BY <2>2, <2>6, <2>7 DEF HomeInv
  <2>10. new \in flights' /\ confirmation' # "rotate"
    BY <2>1, <2>2, <2>6 DEF HomeInv
  <2> QED BY <2>4, <2>7, <2>8, <2>9, <2>10 DEF HomeInv
<1>7. ASSUME NEW f \in flights, Home!DraftPersisted(f) PROVE HomeInv'
  <2>1. /\ f.does = "persist" /\ f.answer # Null /\ flights' = flights \ {f}
        /\ draft' = TRUE /\ body' = f.answer.body
        /\ UNCHANGED <<row, drafts, confirmation>>
    BY <1>7 DEF Home!DraftPersisted, Home!Flying, Home!HydrateDraft
  <2>2. /\ drafts = 1 /\ row # Null /\ f.answer.body = row.body
        /\ \A g \in flights' : g.does # "persist"
    BY <2>1 DEF HomeInv
  <2>3. \A g \in flights' : HomeFlight(g)  /\ g.does # "rotate"
    BY <2>1, <2>2 DEF HomeInv
  <2> QED BY <2>1, <2>2, <2>3 DEF HomeInv
<1>8. ASSUME NEW f \in flights, Home!PersistFailed(f) PROVE HomeInv'
  <2>1. /\ f.does = "persist" /\ f.answer = Null /\ flights' = flights \ {f}
        /\ UNCHANGED <<row, drafts, confirmation, body, draft>>
    BY <1>8 DEF Home!PersistFailed, Home!Flying, Home!workspace
  <2>2. /\ ~draft /\ drafts = 0 /\ \A g \in flights' : g.does # "persist"
    BY <2>1 DEF HomeInv
  <2> QED BY <2>1, <2>2 DEF HomeInv
<1> QED
  BY <1>1, <1>2, <1>3, <1>4, <1>5, <1>6, <1>7, <1>8 DEF Home!Composing


(* A handler that makes no draft goes on with another step.                 *)
LEMMA FlightMoves ==
  ASSUME HomeInv, NEW f \in flights, NEW new, f.does # "persist", new.does # "persist",
         HomeFlight(new), flights' = (flights \ {f}) \cup {new},
         new.does = "append" => draft,
         new.does = "rotate" => draft /\ (new.answer # Null => new.answer.body = row.body),
         UNCHANGED <<draft, drafts, row>>, draft => body' = body,
         confirmation' = "rotate" => draft
  PROVE  HomeInv'
<1>1. PICK gone, news : gone = {f} /\ news = {new}
  OBVIOUS
<1>2. flights' = (flights \ gone) \cup news
  BY <1>1
<1>3. (\A g \in gone \cap flights : g.does # "persist") /\ \A g \in news : g = new
  BY <1>1
<1> QED BY <1>2, <1>3, FlightGoesOn

LEMMA FlightBegins ==
  ASSUME HomeInv, NEW new, new.does # "persist", HomeFlight(new),
         flights' = flights \cup {new},
         new.does = "append" => draft,
         new.does = "rotate" => draft /\ (new.answer # Null => new.answer.body = row.body),
         UNCHANGED <<draft, drafts, row>>, draft => body' = body,
         confirmation' = "rotate" => draft
  PROVE  HomeInv'
<1>1. PICK gone, news : gone = {} /\ news = {new}
  OBVIOUS
<1>2. flights' = (flights \ gone) \cup news
  BY <1>1
<1>3. (\A g \in gone \cap flights : g.does # "persist") /\ \A g \in news : g = new
  BY <1>1
<1> QED BY <1>2, <1>3, FlightGoesOn

(* A signature is stored with the draft, which keeps its body.              *)
LEMMA SignatureStored ==
  ASSUME MissingAssumption, row # Null, IsDraft(row), NEW r, Home!StoreSignature(r)
  PROVE  row' # Null /\ IsDraft(row') /\ row'.body = row.body
<1>1. PICK rs : rs = Home!AppendSignature(row.records, r)
  OBVIOUS
<1>2. row' = [row EXCEPT !.records = rs]
  BY <1>1 DEF Home!StoreSignature
<1>3. row = [account |-> row.account, op |-> row.op, body |-> row.body,
             records |-> row.records]
  BY DEF IsDraft
<1>4. row' = [account |-> row.account, op |-> row.op, body |-> row.body, records |-> rs]
  BY <1>2, <1>3
<1> QED BY <1>4 DEF MissingAssumption, IsDraft

LEMMA HomeApproving ==
  ASSUME MissingAssumption, HomeInv, Home!Approving
  PROVE  HomeInv'
<1>1. ASSUME NEW s, Home!Sign(s) PROVE HomeInv'
  <2>1. PICK new : new = [does |-> "sign", signer |-> s,
                          invocation |-> Home!Invocation(account, opBody, proofs + 1)]
    OBVIOUS
  <2>2. /\ flights' = flights \cup {new}
        /\ UNCHANGED <<draft, drafts, row, body, confirmation>>
    BY <1>1, <2>1 DEF Home!Sign, Home!Await, Home!workspace
  <2>3. HomeFlight(new) /\ new.does = "sign"
    BY <2>1 DEF HomeFlight
  <2>4. confirmation' = "rotate" => draft
    BY <2>2 DEF HomeInv
  <2> QED BY <2>2, <2>3, <2>4, FlightBegins
<1>2. ASSUME NEW f \in flights, Home!SignRejected(f) PROVE HomeInv'
  <2>1. /\ f.does = "sign" /\ flights' = flights \ {f}
        /\ UNCHANGED <<draft, drafts, row, body, confirmation>>
    BY <1>2 DEF Home!SignRejected, Home!Flying, Home!workspace
  <2>2. confirmation' = "rotate" => draft
    BY <2>1 DEF HomeInv
  <2> QED BY <2>1, <2>2, FlightEnds
<1>3. ASSUME NEW f \in flights, Home!Signed(f) PROVE HomeInv'
  <2>1. PICK r : r = [signer |-> f.signer, invocation |-> f.invocation, sound |-> TRUE]
    OBVIOUS
  <2>2. PICK new : new = [does |-> "append", signer |-> f.signer, record |-> r,
                          answer |-> Null]
    OBVIOUS
  <2>3. /\ f.does = "sign"
        /\ UNCHANGED <<draft, drafts, row, confirmation>> /\ (draft => body' = body)
        /\ flights' = IF draft THEN (flights \ {f}) \cup {new} ELSE flights \ {f}
    BY <1>3, <2>1, <2>2 DEF Home!Signed, Home!Flying, Home!SetTransactionBody
  <2>4. HomeFlight(new) /\ new.does = "append"
    BY <2>2 DEF HomeFlight
  <2>5. (confirmation' = "rotate" => draft) /\ draft \in BOOLEAN
    BY <2>3 DEF HomeInv
  <2>6. CASE draft
    BY <2>3, <2>4, <2>5, <2>6, FlightMoves
  <2>7. CASE ~draft
    BY <2>3, <2>5, <2>7, FlightEnds
  <2> QED BY <2>5, <2>6, <2>7
<1>4. ASSUME NEW f \in flights, Home!AppendStored(f) PROVE HomeInv'
  <2>1. /\ f.does = "append" /\ f.answer = Null /\ Home!StoreSignature(f.record)
        /\ UNCHANGED <<draft, drafts, body, confirmation>>
    BY <1>4 DEF Home!AppendStored, Home!Flying, Home!workspace
  <2>2. /\ f = [does |-> "append", signer |-> f.signer, record |-> f.record,
                answer |-> f.answer]
        /\ draft /\ row # Null /\ IsDraft(row)
    BY <2>1 DEF HomeInv, HomeFlight
  <2>3. row' # Null /\ IsDraft(row') /\ row'.body = row.body
    BY <2>1, <2>2, SignatureStored
  <2>4. PICK stored : stored = row'.records
    OBVIOUS
  <2>5. PICK new : new = [does |-> "append", signer |-> f.signer, record |-> f.record,
                          answer |-> stored]
    OBVIOUS
  <2>6. flights' = (flights \ {f}) \cup {new}
    <3>1. [f EXCEPT !.answer = stored] = new
      BY <2>2, <2>5
    <3> QED BY <1>4, <2>4, <3>1 DEF Home!AppendStored
  <2>7. HomeFlight(new) /\ new.does = "append"
    BY <2>5 DEF HomeFlight
  <2>8. \A g \in flights' : HomeFlight(g) /\ (g.does = "persist" => g \in flights)
    BY <2>6, <2>7 DEF HomeInv
  <2>9. \A g \in flights' : g.does # "persist"
    BY <2>2, <2>8 DEF HomeInv
  <2>10. \A g \in flights' : g.does = "rotate" /\ g.answer # Null => g.answer.body = row.body
    BY <2>6, <2>7 DEF HomeInv
  <2> QED BY <2>1, <2>2, <2>3, <2>8, <2>9, <2>10 DEF HomeInv
<1>5. ASSUME NEW f \in flights, Home!AppendAnswered(f) PROVE HomeInv'
  <2>1. /\ f.does = "append" /\ flights' = flights \ {f}
        /\ UNCHANGED <<draft, drafts, row, body, confirmation>>
    BY <1>5 DEF Home!AppendAnswered, Home!Flying
  <2>2. confirmation' = "rotate" => draft
    BY <2>1 DEF HomeInv
  <2> QED BY <2>1, <2>2, FlightEnds
<1>6. ASSUME NEW c, Home!CollaboratorSigns(c) PROVE HomeInv'
  <2>1. PICK r : r = [signer |-> c, invocation |-> Null, sound |-> TRUE]
    OBVIOUS
  <2>2. /\ row # Null /\ Home!StoreSignature(r)
        /\ UNCHANGED <<draft, drafts, body, confirmation, flights>>
    BY <1>6, <2>1 DEF Home!CollaboratorSigns, Home!workspace
  <2>3. row' # Null /\ IsDraft(row') /\ row'.body = row.body
    BY <2>2, SignatureStored DEF HomeInv
  <2> QED BY <2>2, <2>3 DEF HomeInv
<1> QED BY <1>1, <1>2, <1>3, <1>4, <1>5, <1>6 DEF Home!Approving

LEMMA HomeSubmitting ==
  ASSUME MissingAssumption, HomeInv, Home!Submitting
  PROVE  HomeInv'
<1>1. CASE Home!CheckRelay
  <2>1. PICK new : new = [does |-> "check", verdict |-> Null,
                          request |-> Home!BuildRelayRequest("best", body, records)]
    OBVIOUS
  <2>2. /\ flights' = flights \cup {new}
        /\ UNCHANGED <<draft, drafts, row, body, confirmation>>
    BY <1>1, <2>1 DEF Home!CheckRelay, Home!Await, Home!workspace
  <2>3. HomeFlight(new) /\ new.does = "check"
    BY <2>1 DEF HomeFlight
  <2>4. confirmation' = "rotate" => draft
    BY <2>2 DEF HomeInv
  <2> QED BY <2>2, <2>3, <2>4, FlightBegins
<1>2. ASSUME NEW f \in flights, NEW v, Home!CheckAnswered(f, v) PROVE HomeInv'
  <2>1. /\ f.does = "check"
        /\ flights' = (flights \ {f}) \cup {[f EXCEPT !.verdict = v]}
        /\ UNCHANGED <<draft, drafts, row, body, confirmation>>
    BY <1>2 DEF Home!CheckAnswered, Home!Flying, Home!workspace
  <2>2. f = [does |-> "check", verdict |-> f.verdict, request |-> f.request]
    BY <2>1 DEF HomeInv, HomeFlight
  <2>3. PICK new : new = [does |-> "check", verdict |-> v, request |-> f.request]
    OBVIOUS
  <2>4. flights' = (flights \ {f}) \cup {new}
    BY <2>1, <2>2, <2>3
  <2>5. HomeFlight(new) /\ new.does = "check"
    BY <2>3 DEF HomeFlight
  <2>6. confirmation' = "rotate" => draft
    BY <2>1 DEF HomeInv
  <2> QED BY <2>1, <2>4, <2>5, <2>6, FlightMoves
<1>3. ASSUME NEW f \in flights, Home!CheckRecorded(f) \/ Home!SubmissionEnds(f)
               \/ Home!RotationFailed(f)
      PROVE  HomeInv'
  <2>1. /\ f.does \in {"check", "submit", "rotate"} /\ flights' = flights \ {f}
        /\ UNCHANGED <<draft, drafts, row, body, confirmation>>
    BY <1>3 DEF Home!CheckRecorded, Home!SubmissionEnds, Home!RotationFailed, Home!Flying,
         Home!workspace
  <2>2. confirmation' = "rotate" => draft
    BY <2>1 DEF HomeInv
  <2> QED BY <2>1, <2>2, FlightEnds
<1>4. ASSUME NEW action, Home!RequestConfirmation(action) PROVE HomeInv'
  <2>1. /\ confirmation' = "rotate" => draft
        /\ UNCHANGED <<flights, draft, drafts, row, body>>
    BY <1>4 DEF Home!RequestConfirmation, Home!workspace
  <2> QED BY <2>1 DEF HomeInv
<1>5. CASE Home!CancelConfirmation
  <2>1. /\ confirmation' # "rotate" /\ UNCHANGED <<flights, draft, drafts, row, body>>
    BY <1>5 DEF Home!CancelConfirmation, Home!workspace, MissingAssumption
  <2> QED BY <2>1 DEF HomeInv
<1>6. ASSUME Home!SubmitViaRelay \/ Home!BroadcastWithNeoWallet PROVE HomeInv'
  <2>1. /\ confirmation' # "rotate" /\ UNCHANGED <<draft, drafts, row, body>>
    BY <1>6 DEF Home!SubmitViaRelay, Home!BroadcastWithNeoWallet, Home!workspace,
         MissingAssumption
  <2>2. \/ UNCHANGED flights
        \/ \E q : flights' = flights \cup {[does |-> "submit", request |-> q]}
    BY <1>6 DEF Home!SubmitViaRelay, Home!BroadcastWithNeoWallet, Home!Await
  <2>3. ASSUME NEW q, flights' = flights \cup {[does |-> "submit", request |-> q]}
        PROVE  HomeInv'
    <3>1. PICK new : new = [does |-> "submit", request |-> q]
      OBVIOUS
    <3>2. HomeFlight(new) /\ new.does = "submit"
      BY <3>1 DEF HomeFlight
    <3> QED BY <2>1, <2>3, <3>1, <3>2, FlightBegins
  <2>4. CASE UNCHANGED flights
    BY <2>1, <2>4 DEF HomeInv
  <2> QED BY <2>2, <2>3, <2>4
<1>7. CASE Home!RotateLink
  <2>1. PICK new : new = [does |-> "rotate", answer |-> Null]
    OBVIOUS
  <2>2. /\ flights' = flights \cup {new} /\ confirmation = "rotate" /\ confirmation' = Null
        /\ UNCHANGED <<draft, drafts, row, body>>
    BY <1>7, <2>1 DEF Home!RotateLink, Home!Await, Home!workspace
  <2>3. HomeFlight(new) /\ new.does = "rotate" /\ new.answer = Null
    BY <2>1 DEF HomeFlight
  <2>4. draft
    BY <2>2 DEF HomeInv
  <2> QED BY <2>2, <2>3, <2>4, FlightBegins
<1>8. ASSUME NEW f \in flights, Home!LinkRotated(f) PROVE HomeInv'
  <2>1. f.does = "rotate" /\ UNCHANGED <<drafts, row, confirmation>>
    BY <1>8 DEF Home!LinkRotated, Home!Flying
  <2>2. /\ f = [does |-> "rotate", answer |-> f.answer] /\ draft /\ draft \in BOOLEAN
        /\ body = row.body /\ (f.answer # Null => f.answer.body = row.body)
    BY <2>1 DEF HomeInv, HomeFlight
  <2>3. CASE f.answer = Null
    <3>1. PICK new : new = [does |-> "rotate", answer |-> row]
      OBVIOUS
    <3>2. flights' = (flights \ {f}) \cup {new} /\ UNCHANGED <<draft, body>>
      BY <1>8, <2>2, <2>3, <3>1 DEF Home!LinkRotated, Home!workspace
    <3>3. HomeFlight(new) /\ new.does = "rotate" /\ new.answer.body = row.body
      BY <3>1 DEF HomeFlight
    <3> QED BY <2>1, <2>2, <3>2, <3>3, FlightMoves
  <2>4. CASE f.answer # Null
    <3>1. flights' = flights \ {f} /\ draft' = TRUE /\ body' = f.answer.body
      BY <1>8, <2>4 DEF Home!LinkRotated, Home!HydrateDraft
    <3>2. UNCHANGED <<draft, body>>
      BY <2>2, <2>4, <3>1
    <3> QED BY <2>1, <2>2, <3>1, <3>2, FlightEnds
  <2> QED BY <2>3, <2>4
<1> QED
  BY <1>1, <1>2, <1>3, <1>4, <1>5, <1>6, <1>7, <1>8 DEF Home!Submitting


LEMMA HomeStep ==
  ASSUME MissingAssumption, HomeInv, Home!Next
  PROVE  HomeInv'
BY HomeComposing, HomeApproving, HomeSubmitting DEF Home!Next

(* A signed invocation is selected from those that agree with the body.     *)
LEMMA SelectedAgrees ==
  ASSUME NEW b, NEW rs, NEW i, i = Home!SelectSignedInvocation(b, rs), i \notin {Null, Refused}
  PROVE  Home!SameIntent(i, b.anchor)
<1>1. PICK cs : cs = Home!Candidates(b, rs)
  OBVIOUS
<1>2. /\ \A j \in cs : Home!AgreesWith(b, j)
      /\ cs # {} /\ i = CHOOSE j \in cs : TRUE
  BY <1>1 DEF Home!SelectSignedInvocation
<1>3. i \in cs
  BY <1>2
<1> QED BY <1>2, <1>3 DEF Home!AgreesWith

(* What the wallet is given to invoke.                                      *)
LEMMA InvokedAgrees ==
  ASSUME NEW b, NEW rs, Home!ClientInvocation(b, rs) # Refused
  PROVE  Home!SameIntent(Home!ClientInvocation(b, rs), b.anchor)
<1>1. PICK i : i = Home!SelectSignedInvocation(b, rs)
  OBVIOUS
<1>2. CASE i = Null
  <2>1. Home!ClientInvocation(b, rs) = b.anchor
    BY <1>1, <1>2 DEF Home!ClientInvocation
  <2> QED BY <2>1 DEF Home!SameIntent
<1>3. CASE i # Null
  <2>1. i # Refused /\ Home!ClientInvocation(b, rs) = i
    BY <1>1, <1>3 DEF Home!ClientInvocation
  <2> QED BY <1>1, <1>3, <2>1, SelectedAgrees
<1> QED BY <1>2, <1>3

(* What the relay is given once it is ready to take it.                     *)
LEMMA RelayedAgrees ==
  ASSUME NEW b, NEW rs, Home!PayloadReady(b, rs)
  PROVE  Home!SameIntent(Home!BuildRelayRequest("best", b, rs).content, b.anchor)
<1>1. PICK i : i = Home!SelectSignedInvocation(b, rs)
  OBVIOUS
<1>2. PICK options : options = Home!RelayPayloadOptions(b, rs)
  OBVIOUS
<1>3. PICK chosen : chosen = Home!ResolveRelayPayloadMode("best", options)
  OBVIOUS
<1>4. /\ i # Refused
      /\ b.raw => RelayRawEnabled
      /\ ~b.raw => i \notin {Null, Refused}
  BY <1>1 DEF Home!PayloadReady, Home!Selected
<1>5. /\ options \subseteq {"raw", "meta"}
      /\ "raw" \in options <=> b.raw
      /\ "meta" \in options <=> i \notin {Null, Refused}
  BY <1>1, <1>2, <1>4 DEF Home!RelayPayloadOptions, Home!Selected
<1>6. Home!BuildRelayRequest("best", b, rs) =
        IF chosen = "raw"
          THEN [mode |-> chosen, content |-> b.anchor, paymaster |-> b.paymaster]
        ELSE IF chosen = "meta"
          THEN [mode |-> chosen, content |-> i, paymaster |-> b.paymaster]
        ELSE Refused
  BY <1>1, <1>2, <1>3, <1>4 DEF Home!BuildRelayRequest
<1>7. CASE b.raw
  <2>1. chosen = "raw"
    BY <1>3, <1>5, <1>7 DEF Home!ResolveRelayPayloadMode
  <2>2. Home!BuildRelayRequest("best", b, rs).content = b.anchor
    BY <1>6, <2>1
  <2> QED BY <2>2 DEF Home!SameIntent
<1>8. CASE ~b.raw
  <2>1. chosen = "meta"
    BY <1>3, <1>4, <1>5, <1>8 DEF Home!ResolveRelayPayloadMode
  <2>2. Home!BuildRelayRequest("best", b, rs).content = i
    BY <1>6, <2>1
  <2> QED BY <1>1, <1>4, <1>8, <2>2, SelectedAgrees
<1> QED BY <1>7, <1>8

(* A stored draft is what is submitted, by the relay and by a wallet.       *)
LEMMA HomeSubmits ==
  ASSUME HomeInv, draft
  PROVE  /\ Home!CanRelay =>
              Home!SameIntent(Home!BuildRelayRequest("best", body, records).content,
                              row.body.anchor)
         /\ Home!ClientInvocation(body, records) # Refused =>
              Home!SameIntent(Home!ClientInvocation(body, records), row.body.anchor)
<1>1. body = row.body
  BY DEF HomeInv
<1>2. Home!CanRelay => Home!PayloadReady(body, records)
  BY DEF Home!CanRelay, Home!CanRelayBroadcast
<1> QED BY <1>1, <1>2, RelayedAgrees, InvokedAgrees


-----------------------------------------------------------------------------
(* Steps of the page of a shared draft *)

LEMMA SharedInit == Shared!Init => SharedInv
BY DEF Shared!Init, SharedInv

(* What is left of a handler after its next call.                           *)
LEMMA GateGoesOn ==
  ASSUME NEW c \in GateChains
  PROVE  /\ Tail(c) = <<"receipt">> \/ Tail(c) \in GateChains
         /\ c # <<>> /\ Tail(c) # <<>>
         /\ Head(c) \in {"preflight", "status", "activity"}
<1>1. ASSUME c = <<"preflight", "activity", "receipt">>
      PROVE  Tail(c) = <<"activity", "receipt">> /\ Head(c) = "preflight" /\ c # <<>>
  BY <1>1
<1>2. ASSUME c = <<"preflight", "receipt">>
      PROVE  Tail(c) = <<"receipt">> /\ Head(c) = "preflight" /\ c # <<>>
  BY <1>2
<1>3. ASSUME c = <<"status", "activity", "receipt">>
      PROVE  Tail(c) = <<"activity", "receipt">> /\ Head(c) = "status" /\ c # <<>>
  BY <1>3
<1>4. ASSUME c = <<"activity", "receipt">>
      PROVE  Tail(c) = <<"receipt">> /\ Head(c) = "activity" /\ c # <<>>
  BY <1>4
<1>5. <<"receipt">> # <<>> /\ <<"activity", "receipt">> # <<>>
  OBVIOUS
<1> QED BY <1>1, <1>2, <1>3, <1>4, <1>5 DEF GateChains

LEMMA OtherGoesOn ==
  ASSUME NEW c \in OtherChains
  PROVE  /\ Tail(c) = <<>> \/ Tail(c) = <<"activity">>
         /\ c # <<>> /\ c \notin GateChains /\ Tail(c) # <<"receipt">>
         /\ Head(c) \notin {"preflight", "status"}
<1>1. ASSUME NEW s, c = <<s>> PROVE Tail(c) = <<>> /\ Head(c) = s /\ Len(c) = 1
  BY <1>1
<1>2. ASSUME NEW s, c = <<s, "activity">>
      PROVE  Tail(c) = <<"activity">> /\ Head(c) = s /\ Len(c) = 2
  BY <1>2
<1>3. \A d \in GateChains : Len(d) \in {2, 3} /\ (Len(d) = 2 => Head(d) \in {"preflight", "activity"})
  BY DEF GateChains
<1>4. <<"activity">> # <<>> /\ <<"receipt">> # <<>> /\ <<"activity">> # <<"receipt">>
  OBVIOUS
<1>5. CASE c \in {<<"receipt">>, <<"activity">>}
  <2>1. PICK s \in {"receipt", "activity"} : c = <<s>>
    BY <1>5
  <2>2. Tail(c) = <<>> /\ Head(c) = s /\ Len(c) = 1
    BY <1>1, <2>1
  <2>3. c # <<>> /\ Tail(c) # <<"receipt">>
    BY <1>4, <2>1, <2>2
  <2>4. c \in GateChains => Len(c) \in {2, 3}
    BY ONLY <1>3
  <2>5. c \notin GateChains
    BY ONLY <2>2, <2>4
  <2> QED BY <2>1, <2>2, <2>3, <2>5
<1>6. CASE c \in {<<"sign", "activity">>, <<"rotateOperator", "activity">>,
                  <<"rotateCollaborator", "activity">>}
  <2>1. PICK s \in {"sign", "rotateOperator", "rotateCollaborator"} : c = <<s, "activity">>
    BY <1>6
  <2> QED BY <2>1, <1>2, <1>3, <1>4
<1> QED BY <1>5, <1>6 DEF OtherChains

LEMMA ReceiptIsOther == <<"receipt">> \in OtherChains /\ <<"receipt">> \notin GateChains
BY DEF OtherChains, GateChains

(* A handler begins a call.                                                 *)
LEMMA CallBegins ==
  ASSUME NEW c, NEW v
  PROVE  /\ c = <<>> => Shared!Calling(c, v) = {}
         /\ c # <<>> => \E g : /\ Shared!Calling(c, v) = {g}
                               /\ g = [does |-> "call", calls |-> c, link |-> g.link,
                                       record |-> g.record, answer |-> g.answer]
                               /\ g.calls = c /\ g.does = "call"
<1>1. c = <<>> => Shared!Calling(c, v) = {}
  BY DEF Shared!Calling
<1>2. ASSUME c # <<>>
      PROVE  \E g : /\ Shared!Calling(c, v) = {g}
                    /\ g = [does |-> "call", calls |-> c, link |-> g.link,
                            record |-> g.record, answer |-> g.answer]
                    /\ g.calls = c /\ g.does = "call"
  <2>1. PICK l : l = Shared!LinkFor(Head(c), v)
    OBVIOUS
  <2>2. PICK g : g = [does |-> "call", calls |-> c, link |-> l, record |-> Null,
                      answer |-> Null]
    OBVIOUS
  <2>3. Shared!Calling(c, v) = {g}
    BY <1>2, <2>1, <2>2 DEF Shared!Calling
  <2>4. g.link = l /\ g.record = Null /\ g.answer = Null /\ g.calls = c /\ g.does = "call"
    BY <2>2
  <2> QED BY <2>2, <2>3, <2>4
<1> QED BY <1>1, <1>2

(* A handler goes on: one that is no check or submission becomes none.      *)
LEMMA HandlerMoves ==
  ASSUME SharedInv, NEW f \in flights, f.does # "check", NEW new,
         \A g \in new : SharedFlight(g) /\ g.does # "check" /\ (Gate(g) => Gate(f)),
         \A g, h \in new : g = h,
         flights' = (flights \ {f}) \cup new,
         UNCHANGED <<pending, check, checkRequest, passed>>
  PROVE  SharedInv'
<1>1. \A g \in flights' : SharedFlight(g)
  BY DEF SharedInv
<1>2. \A g, h \in flights' : Gate(g) /\ Gate(h) => g = h
  BY DEF SharedInv
<1>3. \A g \in flights' : Gate(g) => pending' # Null
  BY DEF SharedInv
<1>4. /\ \A g \in flights' : g.does = "check" => g.request = checkRequest'
      /\ check' = "ok" /\ (\A g \in flights' : g.does # "check") => passed' = checkRequest'
  BY DEF SharedInv
<1> QED BY <1>1, <1>2, <1>3, <1>4 DEF SharedInv

(* The check or submission under way ends.                                  *)
LEMMA GateFalls ==
  ASSUME SharedInv, NEW f \in flights, f.does # "check", Gate(f), NEW new,
         \A g \in new : SharedFlight(g) /\ g.does # "check" /\ ~Gate(g),
         flights' = (flights \ {f}) \cup new,
         UNCHANGED <<check, checkRequest, passed>>
  PROVE  SharedInv'
<1>1. \A g \in flights' : SharedFlight(g) /\ ~Gate(g)
  BY DEF SharedInv
<1>2. /\ \A g \in flights' : g.does = "check" => g.request = checkRequest'
      /\ check' = "ok" /\ (\A g \in flights' : g.does # "check") => passed' = checkRequest'
  BY DEF SharedInv
<1> QED BY <1>1, <1>2 DEF SharedInv

(* A handler begins that is no check and no submission.                     *)
LEMMA HandlerBegins ==
  ASSUME SharedInv, NEW new, \A g \in new : SharedFlight(g) /\ g.does # "check" /\ ~Gate(g),
         flights' = flights \cup new, UNCHANGED <<pending, check, checkRequest, passed>>
  PROVE  SharedInv'
<1>1. /\ \A g \in flights' : SharedFlight(g) /\ (Gate(g) => g \in flights)
      /\ \A g \in flights' : g.does = "check" => g \in flights
  BY DEF SharedInv
<1>2. /\ \A g \in flights' : g.does = "check" => g.request = checkRequest'
      /\ check' = "ok" /\ (\A g \in flights' : g.does # "check") => passed' = checkRequest'
  BY <1>1 DEF SharedInv
<1> QED BY <1>1, <1>2 DEF SharedInv


(* A check or a submission begins when none is under way.                   *)
LEMMA GateBegins ==
  ASSUME SharedInv, pending = Null, pending' # Null, NEW new, SharedFlight(new),
         flights' = flights \cup {new}, UNCHANGED passed,
         new.does = "check" => new.request = checkRequest',
         new.does # "check" =>
            check' # "ok" \/ (UNCHANGED <<check, checkRequest>>)
  PROVE  SharedInv'
<1>1. \A g \in flights : ~Gate(g) /\ g.does # "check"
  BY DEF SharedInv, Gate
<1>2. /\ \A g \in flights' : SharedFlight(g) /\ (Gate(g) => g = new)
      /\ \A g \in flights' : g.does = "check" => g = new
      /\ new \in flights'
  BY <1>1 DEF SharedInv
<1>3. check' = "ok" /\ (\A g \in flights' : g.does # "check") => passed' = checkRequest'
  BY <1>1, <1>2 DEF SharedInv
<1> QED BY <1>2, <1>3 DEF SharedInv

(* A call is answered or fails, and the handler begins what is left.        *)
LEMMA CallEnds ==
  ASSUME SharedInv, NEW f \in flights, f.does = "call", NEW v, NEW rest,
         rest = Tail(f.calls) \/ (rest = <<>> /\ f.calls \in OtherChains),
         flights' = (flights \ {f}) \cup Shared!Calling(rest, v),
         pending' = Shared!Flag(rest),
         UNCHANGED <<check, checkRequest, passed>>
  PROVE  SharedInv'
<1>1. f.calls \in GateChains \cup OtherChains
  BY DEF SharedInv, SharedFlight
<1>2. PICK new : new = Shared!Calling(rest, v)
  OBVIOUS
<1>3. CASE f.calls \in GateChains
  <2>1. /\ rest = <<"receipt">> \/ rest \in GateChains
        /\ rest # <<>>
    BY <1>3, GateGoesOn, OtherGoesOn
  <2>2. PICK g : /\ new = {g}
                 /\ g = [does |-> "call", calls |-> rest, link |-> g.link,
                         record |-> g.record, answer |-> g.answer]
                 /\ g.calls = rest /\ g.does = "call"
    BY <1>2, <2>1, CallBegins
  <2>3. SharedFlight(g) /\ Gate(f)
    BY <1>3, <2>1, <2>2, ReceiptIsOther DEF SharedFlight, Gate
  <2>4. CASE rest = <<"receipt">>
    <3>1. ~Gate(g)
      BY <2>2, <2>4, ReceiptIsOther DEF Gate
    <3> QED BY <1>2, <2>2, <2>3, <3>1, GateFalls
  <2>5. CASE rest \in GateChains
    <3>1. rest # <<"receipt">>
      BY <2>5, ReceiptIsOther
    <3>2. UNCHANGED pending
      BY <3>1 DEF Shared!Flag
    <3> QED BY <1>2, <2>2, <2>3, <3>2, HandlerMoves
  <2> QED BY <2>1, <2>4, <2>5
<1>4. CASE f.calls \in OtherChains
  <2>1. /\ rest = <<>> \/ rest = <<"activity">>
        /\ <<"activity">> \in OtherChains
    BY <1>4, OtherGoesOn DEF OtherChains
  <2>2. UNCHANGED pending
    <3>1. <<>> # <<"receipt">> /\ <<"activity">> # <<"receipt">>
      OBVIOUS
    <3>2. rest # <<"receipt">>
      BY <2>1, <3>1
    <3> QED BY <3>2 DEF Shared!Flag
  <2>3. CASE rest = <<>>
    BY <1>2, <2>2, <2>3, CallBegins, HandlerMoves
  <2>4. CASE rest = <<"activity">>
    <3>1. rest # <<>> /\ rest \notin GateChains
      BY <2>1, <2>4, OtherGoesOn
    <3>2. PICK g : /\ new = {g}
                   /\ g = [does |-> "call", calls |-> rest, link |-> g.link,
                           record |-> g.record, answer |-> g.answer]
                   /\ g.calls = rest /\ g.does = "call"
      BY <1>2, <3>1, CallBegins
    <3>3. SharedFlight(g) /\ ~Gate(g)
      BY <2>1, <2>4, <3>1, <3>2 DEF SharedFlight, Gate
    <3> QED BY <1>2, <2>2, <3>2, <3>3, HandlerMoves, ZenonT(60)
  <2> QED BY <2>1, <2>3, <2>4
<1> QED BY <1>1, <1>3, <1>4

LEMMA SharedStep ==
  ASSUME MissingAssumption, SharedInv, Shared!Next
  PROVE  SharedInv'
<1>1. ASSUME Shared!LoadDraft \/ \E r : Shared!SignedElsewhere(r)
                \/ \E m : Shared!SetRelayPayloadMode(m)
      PROVE  SharedInv'
  <2>1. UNCHANGED <<check, checkRequest, pending, flights, passed>>
    BY <1>1 DEF Shared!LoadDraft, Shared!SignedElsewhere, Shared!SetRelayPayloadMode
  <2> QED BY <2>1 DEF SharedInv, SharedFlight, Gate
<1>2. ASSUME NEW f \in flights, Shared!StoreApplies(f) PROVE SharedInv'
  <2>1. PICK v : v = Shared!View(row', Shared!Scope(f.link))
    OBVIOUS
  <2>2. /\ f.does = "call" /\ flights' = (flights \ {f}) \cup {[f EXCEPT !.answer = v]}
        /\ UNCHANGED <<check, checkRequest, pending, passed>>
    BY <1>2, <2>1 DEF Shared!StoreApplies, Shared!Calls
  <2>3. /\ f = [does |-> "call", calls |-> f.calls, link |-> f.link, record |-> f.record,
                answer |-> f.answer]
        /\ f.calls \in GateChains \cup OtherChains
    BY <2>2 DEF SharedInv, SharedFlight
  <2>4. PICK new : new = [does |-> "call", calls |-> f.calls, link |-> f.link,
                          record |-> f.record, answer |-> v]
    OBVIOUS
  <2>5. flights' = (flights \ {f}) \cup {new}
    BY <2>2, <2>3, <2>4
  <2>6. SharedFlight(new) /\ new.does = "call" /\ (Gate(new) => Gate(f))
    BY <2>2, <2>3, <2>4 DEF SharedFlight, Gate
  <2>7. PICK news : news = {new}
    OBVIOUS
  <2> QED BY <2>2, <2>5, <2>6, <2>7, HandlerMoves
<1>3. ASSUME NEW f \in flights, Shared!StoreAnswered(f) PROVE SharedInv'
  <2>1. PICK v, rest : v = f.answer /\ rest = Tail(f.calls)
    OBVIOUS
  <2>2. /\ f.does = "call" /\ flights' = (flights \ {f}) \cup Shared!Calling(rest, v)
        /\ pending' = Shared!Flag(rest) /\ UNCHANGED <<check, checkRequest, passed>>
    BY <1>3, <2>1 DEF Shared!StoreAnswered, Shared!Calls
  <2> QED BY <2>1, <2>2, CallEnds
<1>4. ASSUME NEW f \in flights, Shared!StoreFailed(f) PROVE SharedInv'
  <2>1. PICK ends : ends = (Head(f.calls) \in {"sign", "rotateOperator", "rotateCollaborator"})
    OBVIOUS
  <2>2. PICK rest : rest = IF ends THEN <<>> ELSE Tail(f.calls)
    OBVIOUS
  <2>3. /\ f.does = "call" /\ flights' = (flights \ {f}) \cup Shared!Calling(rest, shown)
        /\ pending' = Shared!Flag(rest) /\ UNCHANGED <<check, checkRequest, passed>>
    BY <1>4, <2>1, <2>2 DEF Shared!StoreFailed, Shared!Calls
  <2>4. f.calls \in GateChains \cup OtherChains
    BY <2>3 DEF SharedInv, SharedFlight
  <2>5. rest = Tail(f.calls) \/ (rest = <<>> /\ f.calls \in OtherChains)
    BY <2>1, <2>2, <2>4, GateGoesOn
  <2>6. PICK v : v = shown
    OBVIOUS
  <2> QED BY <2>3, <2>5, <2>6, CallEnds
<1>5. ASSUME NEW r, Shared!Sign(r) PROVE SharedInv'
  <2>1. PICK new : new = [does |-> "sign", record |-> r]
    OBVIOUS
  <2>2. SharedFlight(new) /\ new.does = "sign" /\ ~Gate(new)
    BY <2>1 DEF SharedFlight, Gate
  <2>3. /\ flights' = flights \cup {new}
        /\ UNCHANGED <<pending, check, checkRequest, passed>>
    BY <1>5, <2>1 DEF Shared!Sign
  <2>4. PICK news : news = {new}
    OBVIOUS
  <2> QED BY <2>2, <2>3, <2>4, HandlerBegins
<1>6. ASSUME NEW f \in flights, NEW signed, Shared!WalletSigned(f, signed) PROVE SharedInv'
  <2>1. PICK chain1 : chain1 = <<"sign", "activity">>
    OBVIOUS
  <2>2. chain1 \in OtherChains /\ chain1 # <<>> /\ chain1 \notin GateChains
    BY <2>1, OtherGoesOn DEF OtherChains
  <2>3. PICK g : /\ Shared!Calling(chain1, shown) = {g}
                 /\ g = [does |-> "call", calls |-> chain1, link |-> g.link,
                         record |-> g.record, answer |-> g.answer]
                 /\ g.calls = chain1 /\ g.does = "call"
    BY <2>2, CallBegins, SMTT(60)
  <2>4. PICK new : new = [does |-> "call", calls |-> chain1, link |-> g.link,
                          record |-> f.record, answer |-> g.answer]
    OBVIOUS
  <2>5. [g EXCEPT !.record = f.record] = new
    BY <2>3, <2>4
  <2>6. PICK news : news = IF signed /\ Shared!HasSignatureAccess THEN {new} ELSE {}
    OBVIOUS
  <2>7. /\ f.does = "sign" /\ flights' = (flights \ {f}) \cup news
        /\ UNCHANGED <<pending, check, checkRequest, passed>>
    BY <1>6, <2>1, <2>3, <2>5, <2>6 DEF Shared!WalletSigned
  <2>8. SharedFlight(new) /\ new.does = "call" /\ ~Gate(new)
    BY <2>2, <2>4 DEF SharedFlight, Gate
  <2>9. \A h \in news : h = new
    BY <2>6
  <2> QED BY <2>7, <2>8, <2>9, HandlerMoves
<1>7. CASE Shared!CheckRelay
  <2>1. pending = Null /\ pending' = "relay-check" /\ pending' # Null /\ UNCHANGED passed
    BY <1>7 DEF Shared!CheckRelay, MissingAssumption
  <2>2. CASE Shared!Payload = Refused
    <3>1. PICK c : c = <<"preflight", "receipt">>
      OBVIOUS
    <3>2. c \in GateChains /\ c # <<>>
      BY <3>1, GateGoesOn DEF GateChains
    <3>3. PICK g : /\ Shared!Calling(c, shown) = {g}
                   /\ g = [does |-> "call", calls |-> c, link |-> g.link,
                           record |-> g.record, answer |-> g.answer]
                   /\ g.calls = c /\ g.does = "call"
      BY <3>2, CallBegins
    <3>4. flights' = flights \cup {g} /\ check' = "blocked" /\ UNCHANGED checkRequest
      BY <1>7, <2>2, <3>1, <3>3 DEF Shared!CheckRelay
    <3>5. SharedFlight(g)
      BY <3>2, <3>3 DEF SharedFlight
    <3> QED BY <2>1, <3>3, <3>4, <3>5, GateBegins
  <2>3. CASE Shared!Payload # Refused
    <3>1. PICK p : p = Shared!Payload
      OBVIOUS
    <3>2. PICK new : new = [does |-> "check", request |-> p]
      OBVIOUS
    <3>3. flights' = flights \cup {new} /\ checkRequest' = p
      BY <1>7, <2>3, <3>1, <3>2 DEF Shared!CheckRelay
    <3>4. SharedFlight(new) /\ new.does = "check" /\ new.request = p
      BY <3>2 DEF SharedFlight
    <3> QED BY <2>1, <3>3, <3>4, GateBegins
  <2> QED BY <2>2, <2>3
<1>8. ASSUME NEW f \in flights, NEW v \in {"ok", "blocked", "failed"},
             Shared!CheckAnswered(f, v)
      PROVE  SharedInv'
  <2>1. PICK c : c = IF v = "failed" THEN <<"preflight", "receipt">>
                     ELSE <<"preflight", "activity", "receipt">>
    OBVIOUS
  <2>2. c \in GateChains /\ c # <<>>
    BY <2>1, GateGoesOn DEF GateChains
  <2>3. PICK g : /\ Shared!Calling(c, shown) = {g}
                 /\ g = [does |-> "call", calls |-> c, link |-> g.link,
                         record |-> g.record, answer |-> g.answer]
                 /\ g.calls = c /\ g.does = "call"
    BY <2>2, CallBegins, SMTT(60)
  <2>4. /\ f.does = "check" /\ check' = v /\ (v = "ok" => passed' = f.request)
        /\ flights' = (flights \ {f}) \cup {g} /\ UNCHANGED <<checkRequest, pending>>
    BY <1>8, <2>1, <2>3 DEF Shared!CheckAnswered
  <2>5. SharedFlight(g) /\ Gate(g) /\ Gate(f)
    BY <2>2, <2>3, <2>4 DEF SharedFlight, Gate
  <2>6. /\ pending' # Null /\ f.request = checkRequest
        /\ \A h \in flights' : SharedFlight(h) /\ (Gate(h) => h = g)
        /\ \A h \in flights' : h.does # "check"
    BY <2>3, <2>4, <2>5 DEF SharedInv, Gate
  <2> QED BY <2>4, <2>6 DEF SharedInv
<1>9. ASSUME Shared!SubmitViaRelay \/ Shared!BroadcastWithNeoWallet PROVE SharedInv'
  <2>1. PICK action \in {"relay-submit", "client-broadcast"} : \E q : Shared!Submit(action, q)
    BY <1>9 DEF Shared!SubmitViaRelay, Shared!BroadcastWithNeoWallet
  <2>2. PICK q : Shared!Submit(action, q)
    BY <2>1
  <2>3. PICK new : new = [does |-> "submit", request |-> q]
    OBVIOUS
  <2>4. /\ flights' = flights \cup {new} /\ pending' # Null
        /\ UNCHANGED <<check, checkRequest, passed>>
    BY <2>2, <2>3 DEF Shared!Submit, MissingAssumption
  <2>5. SharedFlight(new) /\ new.does = "submit" /\ pending = Null
    BY <1>9, <2>3
    DEF SharedFlight, Shared!SubmitViaRelay, Shared!BroadcastWithNeoWallet
  <2> QED BY <2>4, <2>5, GateBegins
<1>10. ASSUME NEW f \in flights, NEW sent1 \in BOOLEAN, Shared!SubmissionEnds(f, sent1)
       PROVE  SharedInv'
  <2>1. PICK c : c = IF sent1 THEN <<"status", "activity", "receipt">> ELSE <<"receipt">>
    OBVIOUS
  <2>2. c # <<>> /\ c \in GateChains \cup OtherChains
    BY <2>1, GateGoesOn DEF GateChains, OtherChains
  <2>3. PICK g : /\ Shared!Calling(c, shown) = {g}
                 /\ g = [does |-> "call", calls |-> c, link |-> g.link,
                         record |-> g.record, answer |-> g.answer]
                 /\ g.calls = c /\ g.does = "call"
    BY <2>2, CallBegins, SMTT(60)
  <2>4. PICK news : news = {g}
    OBVIOUS
  <2>5. /\ f.does = "submit" /\ flights' = (flights \ {f}) \cup news
        /\ (sent1 => UNCHANGED pending) /\ UNCHANGED <<check, checkRequest, passed>>
    BY <1>10, <2>1, <2>3, <2>4 DEF Shared!SubmissionEnds
  <2>6. SharedFlight(g) /\ Gate(f)
    BY <2>2, <2>3, <2>5 DEF SharedFlight, Gate
  <2>7. CASE sent1
    BY <2>3, <2>4, <2>5, <2>6, <2>7, HandlerMoves
  <2>8. CASE ~sent1
    <3>1. ~Gate(g)
      BY <2>1, <2>3, <2>8, ReceiptIsOther DEF Gate
    <3> QED BY <2>3, <2>4, <2>5, <2>6, <3>1, GateFalls
  <2> QED BY <2>7, <2>8
<1>11. ASSUME NEW call \in {"rotateOperator", "rotateCollaborator"}, Shared!RotateLink(call)
       PROVE  SharedInv'
  <2>1. PICK c : c = <<call, "activity">>
    OBVIOUS
  <2>2. c \in OtherChains /\ c # <<>> /\ c \notin GateChains
    BY <2>1, OtherGoesOn DEF OtherChains
  <2>3. PICK g : /\ Shared!Calling(c, shown) = {g}
                 /\ g = [does |-> "call", calls |-> c, link |-> g.link,
                         record |-> g.record, answer |-> g.answer]
                 /\ g.calls = c /\ g.does = "call"
    BY <2>2, CallBegins, SMTT(60)
  <2>4. PICK news : news = {g}
    OBVIOUS
  <2>5. flights' = flights \cup news /\ UNCHANGED <<pending, check, checkRequest, passed>>
    BY <1>11, <2>1, <2>3, <2>4 DEF Shared!RotateLink
  <2>6. SharedFlight(g) /\ ~Gate(g)
    BY <2>2, <2>3 DEF SharedFlight, Gate
  <2> QED BY <2>3, <2>4, <2>5, <2>6, HandlerBegins
<1> QED
  BY <1>1, <1>2, <1>3, <1>4, <1>5, <1>6, <1>7, <1>8, <1>9, <1>10, <1>11 DEF Shared!Next

-----------------------------------------------------------------------------
(* Two that are equal are one. *)

LEMMA SharedSize == \A S : Shared!Cardinality(S) = Cardinality(S)
BY DEF Shared!Cardinality, Cardinality

LEMMA AtMostOne ==
  ASSUME NEW S, \A f, g \in S : f = g
  PROVE  Cardinality(S) <= 1
<1>1. CASE S = {}
  BY <1>1, FS_EmptySet
<1>2. CASE S # {}
  <2>1. PICK f \in S : S = {f}
    BY <1>2
  <2>2. Cardinality({f}) = 1
    BY FS_Singleton
  <2>3. Cardinality(S) = 1
    BY ONLY <2>1, <2>2
  <2> QED BY <2>3
<1> QED BY <1>1, <1>2

(* One check or submission at most is under way.                            *)
LEMMA OneAtATime == SharedInv => Shared!OneSubmission
<1> SUFFICES ASSUME SharedInv PROVE Shared!OneSubmission
  OBVIOUS
<1>1. PICK busy : busy = {f \in flights :
                            \/ f.does \in {"check", "submit"}
                            \/ f.does = "call" /\ Head(f.calls) \in {"preflight", "status"}}
  OBVIOUS
<1>2. ASSUME NEW f \in busy PROVE Gate(f) /\ f \in flights
  <2>1. f.does = "call" => f.calls \in GateChains \cup OtherChains
    BY <1>1 DEF SharedInv, SharedFlight
  <2> QED BY <1>1, <2>1, OtherGoesOn DEF Gate
<1>3. \A f, g \in busy : f = g
  BY <1>2 DEF SharedInv
<1>4. Cardinality(busy) <= 1
  BY <1>3, AtMostOne
<1> QED BY <1>1, <1>4, SharedSize DEF Shared!OneSubmission

(* The relay is asked to send what it passed last.                          *)
LEMMA SentWasPassed ==
  ASSUME SharedInv, Shared!SubmitViaRelay
  PROVE  Shared!Payload = passed
<1>1. pending = Null /\ check = "ok" /\ Shared!Payload = checkRequest
  BY DEF Shared!SubmitViaRelay, Shared!CanRelay, Shared!CanRelayBroadcast, Shared!Payload
<1>2. \A f \in flights : f.does # "check"
  BY <1>1 DEF SharedInv, Gate
<1> QED BY <1>1, <1>2 DEF SharedInv


-----------------------------------------------------------------------------
(* Steps of the workspace of native accounts *)

LEMMA NativeInit == Native!Init => NativeInv
BY DEF Native!Init, NativeInv, SendingInv, ReviewingInv

LEMMA ConnectShape ==
  ASSUME NEW f, NativeCall(f), f.does = "connect"
  PROVE  f = [does |-> "connect", id |-> f.id, fresh |-> f.fresh]
BY DEF NativeCall

LEMMA ImportShape ==
  ASSUME NEW f, NativeCall(f), f.does = "import"
  PROVE  f = [does |-> "import", at |-> f.at, client |-> f.client, fresh |-> f.fresh,
              review |-> f.review, id |-> f.id]
BY DEF NativeCall

(* A call that is outrun keeps what it does.                                *)
LEMMA OutrunCalls ==
  ASSUME NEW kinds \in SUBSET {"connect", "review", "import"}, NEW cs,
         \A f \in cs : NativeCall(f)
  PROVE  /\ \A g \in Native!Outrun(kinds, cs) :
              /\ NativeCall(g)
              /\ g.does \in kinds => ~g.fresh
              /\ g.does \notin kinds => g \in cs
         /\ \A f \in cs : f.does \notin kinds => f \in Native!Outrun(kinds, cs)
<1>1. ASSUME NEW g \in Native!Outrun(kinds, cs)
      PROVE  /\ NativeCall(g)
             /\ g.does \in kinds => ~g.fresh
             /\ g.does \notin kinds => g \in cs
  <2>1. PICK f \in cs : g = IF f.does \in kinds THEN [f EXCEPT !.fresh = FALSE] ELSE f
    BY DEF Native!Outrun
  <2>2. CASE f.does \notin kinds
    BY <2>1, <2>2
  <2>3. CASE f.does = "connect" /\ f.does \in kinds
    <3>1. f = [does |-> "connect", id |-> f.id, fresh |-> f.fresh]
      BY <2>3, ConnectShape
    <3>2. g = [does |-> "connect", id |-> f.id, fresh |-> FALSE]
      BY <2>1, <2>3, <3>1
    <3> QED BY <2>3, <3>2 DEF NativeCall
  <2>4. CASE f.does = "review" /\ f.does \in kinds
    <3>1. /\ f = [does |-> "review", at |-> f.at, client |-> f.client, fresh |-> f.fresh,
                  review |-> f.review]
          /\ f.review = [id |-> f.review.id, path |-> f.review.path,
                         payer |-> f.review.payer, plan |-> f.review.plan]
      BY <2>4 DEF NativeCall
    <3>2. g = [does |-> "review", at |-> f.at, client |-> f.client, fresh |-> FALSE,
               review |-> f.review]
      BY <2>1, <2>4, <3>1
    <3> QED BY <2>4, <3>1, <3>2 DEF NativeCall
  <2>5. CASE f.does = "import" /\ f.does \in kinds
    <3>1. f = [does |-> "import", at |-> f.at, client |-> f.client, fresh |-> f.fresh,
               review |-> f.review, id |-> f.id]
      BY <2>5, ImportShape
    <3>2. g = [does |-> "import", at |-> f.at, client |-> f.client, fresh |-> FALSE,
               review |-> f.review, id |-> f.id]
      BY <2>1, <2>5, <3>1
    <3> QED BY <2>5, <3>2 DEF NativeCall
  <2> QED BY <2>2, <2>3, <2>4, <2>5
<1> QED BY <1>1 DEF Native!Outrun

(* A call goes on to its next await.                                        *)
LEMMA CallMoves ==
  ASSUME NEW f, NativeCall(f), NEW at, f.does # "connect"
  PROVE  /\ NativeCall([f EXCEPT !.at = at])
         /\ [f EXCEPT !.at = at].does = f.does
         /\ [f EXCEPT !.at = at].at = at
         /\ [f EXCEPT !.at = at].client = f.client
         /\ f.does \in {"submit", "import", "review"} => [f EXCEPT !.at = at].review = f.review
         /\ f.does \in {"import", "review"} => [f EXCEPT !.at = at].fresh = f.fresh
         /\ f.does = "broadcast" => [f EXCEPT !.at = at].import = f.import
<1> DEFINE g == [f EXCEPT !.at = at]
<1>1. CASE f.does = "review"
  <2>1. /\ f = [does |-> "review", at |-> f.at, client |-> f.client, fresh |-> f.fresh,
                review |-> f.review]
        /\ f.review = [id |-> f.review.id, path |-> f.review.path,
                       payer |-> f.review.payer, plan |-> f.review.plan]
    BY <1>1 DEF NativeCall
  <2>2. g = [does |-> "review", at |-> at, client |-> f.client, fresh |-> f.fresh,
             review |-> f.review]
    BY <2>1
  <2> QED BY <1>1, <2>1, <2>2 DEF NativeCall
<1>2. CASE f.does = "submit"
  <2>1. f = [does |-> "submit", at |-> f.at, client |-> f.client, review |-> f.review]
    BY <1>2 DEF NativeCall
  <2>2. g = [does |-> "submit", at |-> at, client |-> f.client, review |-> f.review]
    BY <2>1
  <2> QED BY <1>2, <2>2 DEF NativeCall
<1>3. CASE f.does = "import"
  <2>1. f = [does |-> "import", at |-> f.at, client |-> f.client, fresh |-> f.fresh,
             review |-> f.review, id |-> f.id]
    BY <1>3 DEF NativeCall
  <2>2. g = [does |-> "import", at |-> at, client |-> f.client, fresh |-> f.fresh,
             review |-> f.review, id |-> f.id]
    BY <2>1
  <2> QED BY <1>3, <2>2 DEF NativeCall
<1>4. CASE f.does = "broadcast"
  <2>1. f = [does |-> "broadcast", at |-> f.at, client |-> f.client, import |-> f.import]
    BY <1>4 DEF NativeCall
  <2>2. g = [does |-> "broadcast", at |-> at, client |-> f.client, import |-> f.import]
    BY <2>1
  <2> QED BY <1>4, <2>2 DEF NativeCall
<1> QED BY <1>1, <1>2, <1>3, <1>4 DEF NativeCall

(* What sends is what it was.                                               *)
LEMMA SendingKept ==
  ASSUME SendingInv, \A f : Sends(f) => (f \in calls' <=> f \in calls),
         UNCHANGED <<submitting, used, entries, sent>>
  PROVE  SendingInv'
<1>1. /\ submitting' \in BOOLEAN
      /\ submitting' => \E f \in calls' : Sends(f)
      /\ \A f \in calls' : Sends(f) => submitting'
      /\ \A f, g \in calls' : Sends(f) /\ Sends(g) => f = g
  BY DEF SendingInv
<1>2. \A f \in calls' : f.does = "submit" => f.review.id \notin used'
  BY DEF SendingInv, Sends
<1>3. \A k \in sent' : \E e \in entries' : e.key = k
  BY DEF SendingInv
<1>4. ASSUME NEW e \in entries', e.key \notin sent'
      PROVE  \E f \in calls' : f.does = "broadcast" /\ f.at = "preflight"
                                /\ Native!Key(f) = e.key
  <2>1. PICK f \in calls : f.does = "broadcast" /\ f.at = "preflight"
                           /\ Native!Key(f) = e.key
    BY <1>4 DEF SendingInv
  <2> QED BY <2>1 DEF Sends
<1>5. \A f \in calls' : f.does = "broadcast" =>
        /\ f.at = "preflight" =>
             Native!Key(f) \notin sent' /\ \E e \in entries' : e.key = Native!Key(f)
        /\ f.at \in {"sending", "outcome"} => Native!Key(f) \in sent'
  BY DEF SendingInv, Sends
<1> QED BY <1>1, <1>2, <1>3, <1>4, <1>5 DEF SendingInv, Native!Key

(* No review and no import comes to be under way.                           *)
LEMMA ReviewingKept ==
  ASSUME ReviewingInv,
         \A f \in calls' : f.does \in {"review", "import"} /\ f.fresh => f \in calls,
         active' = active, imported' \in {imported, Null}
  PROVE  ReviewingInv'
BY DEF ReviewingInv

(* What is under way counts no longer, and the review is gone.              *)
LEMMA ReviewingCleared ==
  ASSUME \A f \in calls' : f.does \in {"review", "import"} => ~f.fresh, active' = Null
  PROVE  ReviewingInv'
BY DEF ReviewingInv


(* Nothing is being sent, and all that is retained was.                     *)
LEMMA SendingDone ==
  ASSUME \A f \in calls' : ~Sends(f), submitting' = FALSE,
         \A e \in entries' : e.key \in sent', \A k \in sent' : \E e \in entries' : e.key = k
  PROVE  SendingInv'
BY DEF SendingInv, Sends

(* What is retained was sent, but for what a call is about to send.         *)
Retains(new) ==
  /\ \A k \in sent' : \E e \in entries' : e.key = k
  /\ \A e \in entries' : e.key \notin sent' =>
        new.does = "broadcast" /\ new.at = "preflight" /\ Native!Key(new) = e.key
  /\ new.does = "broadcast" =>
        /\ new.at = "preflight" =>
             Native!Key(new) \notin sent' /\ \E e \in entries' : e.key = Native!Key(new)
        /\ new.at \in {"sending", "outcome"} => Native!Key(new) \in sent'

(* One call is sending.                                                     *)
LEMMA SendingGoesOn ==
  ASSUME NEW new \in calls', Sends(new), \A f \in calls' : Sends(f) => f = new,
         submitting' = TRUE, new.does = "submit" => new.review.id \notin used',
         Retains(new)
  PROVE  SendingInv'
<1>1. \A f \in calls' : f.does \in {"submit", "broadcast"} => f = new
  BY DEF Sends
<1>2. /\ \A e \in entries' : e.key \notin sent' =>
            \E f \in calls' : f.does = "broadcast" /\ f.at = "preflight"
                              /\ Native!Key(f) = e.key
      /\ \A f \in calls' : f.does = "broadcast" =>
            /\ f.at = "preflight" =>
                 Native!Key(f) \notin sent' /\ \E e \in entries' : e.key = Native!Key(f)
            /\ f.at \in {"sending", "outcome"} => Native!Key(f) \in sent'
      /\ \A k \in sent' : \E e \in entries' : e.key = k
  BY <1>1 DEF Retains
<1>3. /\ \E f \in calls' : Sends(f)
      /\ \A f, g \in calls' : Sends(f) /\ Sends(g) => f = g
      /\ \A f \in calls' : f.does = "submit" => f.review.id \notin used'
  BY <1>1
<1> QED BY <1>2, <1>3 DEF SendingInv, Native!Key

(* But for a broadcast before it is sent, all that is retained was sent.    *)
LEMMA AllSent ==
  ASSUME SendingInv, \A f \in calls : f.does = "broadcast" => f.at # "preflight"
  PROVE  /\ \A e \in entries : e.key \in sent
         /\ \A k \in sent : \E e \in entries : e.key = k
BY DEF SendingInv

(* No wallet is asked to send what it was not asked for before.             *)
NothingAsked == \A f \in calls' : f.does = "submit" /\ f.at = "invoke" => f \in calls

LEMMA QuietStep ==
  ASSUME NativeInv, \A f \in calls' : NativeCall(f), ReviewingInv',
         \A f : Sends(f) => (f \in calls' <=> f \in calls),
         UNCHANGED <<submitting, used, entries, sent>>
  PROVE  NativeInv' /\ NothingAsked
<1>1. SendingInv'
  BY SendingKept DEF NativeInv
<1>2. NothingAsked
  BY DEF NothingAsked, Sends
<1>3. (\A f \in calls : NativeCall(f))'
  OBVIOUS
<1> QED BY <1>1, <1>2, <1>3 DEF NativeInv

LEMMA NativeOutside ==
  ASSUME NativeInv, Native!Outside
  PROVE  NativeInv' /\ NothingAsked
<1>1. ASSUME Native!ChainMoves \/ \E a : Native!WalletSwitches(a)
      PROVE  NativeInv' /\ NothingAsked
  <2>1. UNCHANGED <<active, imported, calls, submitting, used, entries, sent>>
    BY <1>1 DEF Native!ChainMoves, Native!WalletSwitches, Native!done
  <2>2. ReviewingInv'
    BY <2>1, ReviewingKept DEF NativeInv
  <2> QED BY <2>1, <2>2, QuietStep DEF NativeInv
<1>2. CASE Native!ClearReview
  <2>1. PICK kinds \in SUBSET {"connect", "review", "import"} : kinds = {"review", "import"}
    OBVIOUS
  <2>2. /\ calls' = Native!Outrun(kinds, calls) /\ active' = Null
        /\ UNCHANGED <<submitting, used, entries, sent>>
    BY <1>2, <2>1 DEF Native!ClearReview, Native!done
  <2>3. /\ \A g \in calls' : NativeCall(g) /\ (g.does \in kinds => ~g.fresh)
        /\ \A f : Sends(f) => (f \in calls' <=> f \in calls)
    BY <2>1, <2>2, OutrunCalls DEF NativeInv, Sends
  <2>4. ReviewingInv'
    BY <2>1, <2>2, <2>3, ReviewingCleared
  <2> QED BY <2>2, <2>3, <2>4, QuietStep
<1>3. CASE Native!ClearSignedTransaction
  <2>1. PICK kinds \in SUBSET {"connect", "review", "import"} : kinds = {"import"}
    OBVIOUS
  <2>2. /\ calls' = Native!Outrun(kinds, calls) /\ active' = active /\ imported' = Null
        /\ UNCHANGED <<submitting, used, entries, sent>>
    BY <1>3, <2>1 DEF Native!ClearSignedTransaction, Native!ClearImported, Native!done
  <2>3. /\ \A g \in calls' : /\ NativeCall(g) /\ (g.does \in kinds => ~g.fresh)
                             /\ g.does \notin kinds => g \in calls
        /\ \A f : Sends(f) => (f \in calls' <=> f \in calls)
    BY <2>1, <2>2, OutrunCalls DEF NativeInv, Sends
  <2>4. ReviewingInv'
    BY <2>1, <2>2, <2>3, ReviewingKept DEF NativeInv
  <2> QED BY <2>2, <2>3, <2>4, QuietStep
<1>4. CASE Native!Invalidate
  <2>1. PICK kinds \in SUBSET {"connect", "review", "import"} :
          kinds = {"connect", "review", "import"}
    OBVIOUS
  <2>2. /\ calls' = Native!Outrun(kinds, calls) /\ active' = Null
        /\ UNCHANGED <<submitting, used, entries, sent>>
    BY <1>4, <2>1 DEF Native!Invalidate, Native!Dropped, Native!done
  <2>3. /\ \A g \in calls' : NativeCall(g) /\ (g.does \in kinds => ~g.fresh)
        /\ \A f : Sends(f) => (f \in calls' <=> f \in calls)
    BY <2>1, <2>2, OutrunCalls DEF NativeInv, Sends
  <2>4. ReviewingInv'
    BY <2>1, <2>2, <2>3, ReviewingCleared
  <2> QED BY <2>2, <2>3, <2>4, QuietStep
<1> QED BY <1>1, <1>2, <1>3, <1>4 DEF Native!Outside

LEMMA NativeDiscovery ==
  ASSUME NativeInv, Native!Discovery
  PROVE  NativeInv' /\ NothingAsked
<1>1. CASE Native!Connect
  <2>1. PICK kinds \in SUBSET {"connect", "review", "import"} :
          kinds = {"connect", "review", "import"}
    OBVIOUS
  <2>2. PICK new : new = [does |-> "connect", id |-> connects + 1, fresh |-> TRUE]
    OBVIOUS
  <2>3. /\ calls' = Native!Outrun(kinds, calls) \cup {new} /\ active' = Null
        /\ UNCHANGED <<submitting, used, entries, sent>>
    BY <1>1, <2>1, <2>2 DEF Native!Connect, Native!Dropped, Native!Enter, Native!done
  <2>4. NativeCall(new) /\ new.does = "connect" /\ ~Sends(new)
    BY <2>2 DEF NativeCall, Sends
  <2>5. /\ \A g \in calls' : NativeCall(g) /\ (g.does \in {"review", "import"} => ~g.fresh)
        /\ \A f : Sends(f) => (f \in calls' <=> f \in calls)
    BY <2>1, <2>3, <2>4, OutrunCalls DEF NativeInv, Sends
  <2>6. ReviewingInv'
    BY <2>3, <2>5, ReviewingCleared
  <2> QED BY <2>3, <2>5, <2>6, QuietStep
<1>2. ASSUME NEW f \in calls, NEW ok, Native!Discovered(f, ok)
      PROVE  NativeInv' /\ NothingAsked
  <2>1. /\ f.does = "connect" /\ calls' = calls \ {f}
        /\ UNCHANGED <<active, imported, submitting, used, entries, sent>>
    BY <1>2 DEF Native!Discovered, Native!Flying, Native!done
  <2>2. /\ \A g \in calls' : NativeCall(g)
        /\ \A g : Sends(g) => (g \in calls' <=> g \in calls)
    BY <2>1 DEF NativeInv, Sends
  <2>3. ReviewingInv'
    BY <2>1, ReviewingKept DEF NativeInv
  <2> QED BY <2>1, <2>2, <2>3, QuietStep
<1>3. ASSUME NEW f \in calls, Native!DiscoverFails(f)
      PROVE  NativeInv' /\ NothingAsked
  <2>1. PICK kinds \in SUBSET {"connect", "review", "import"} : kinds = {"review", "import"}
    OBVIOUS
  <2>2. PICK left : left = calls \ {f}
    OBVIOUS
  <2>3. /\ f.does # "connect" /\ f.at # "preflight"
        /\ \/ calls' = Native!Outrun(kinds, left) /\ active' = Null
           \/ calls' = left /\ active' = active
        /\ submitting' = IF Sends(f) THEN FALSE ELSE submitting
        /\ UNCHANGED <<imported, used, entries, sent>>
    BY <1>3, <2>1, <2>2
    DEF Native!DiscoverFails, Native!Flying, Native!Dropped, Native!done, Sends
  <2>4. \A g \in left : NativeCall(g)
    BY <2>2 DEF NativeInv
  <2>5. /\ \A g \in calls' : NativeCall(g)
        /\ \A g : Sends(g) => (g \in calls' <=> g \in left)
        /\ ReviewingInv'
    <3>1. CASE calls' = Native!Outrun(kinds, left) /\ active' = Null
      <4>1. /\ \A g \in calls' : NativeCall(g) /\ (g.does \in kinds => ~g.fresh)
            /\ \A g : Sends(g) => (g \in calls' <=> g \in left)
        BY <2>1, <2>4, <3>1, OutrunCalls DEF Sends
      <4> QED BY <2>1, <3>1, <4>1, ReviewingCleared
    <3>2. CASE calls' = left /\ active' = active
      <4>1. ReviewingInv'
        BY <2>2, <2>3, <3>2, ReviewingKept DEF NativeInv
      <4> QED BY <2>4, <3>2, <4>1
    <3> QED BY <2>3, <3>1, <3>2
  <2>6. CASE ~Sends(f)
    <3>1. \A g : Sends(g) => (g \in calls' <=> g \in calls)
      BY <2>2, <2>5, <2>6
    <3> QED BY <2>3, <2>5, <2>6, <3>1, QuietStep
  <2>7. CASE Sends(f)
    <3>1. /\ \A g \in calls : g.does \in {"submit", "broadcast"} => g = f
          /\ \A g \in calls' : ~Sends(g)
      BY <2>2, <2>5, <2>7 DEF NativeInv, SendingInv, Sends
    <3>2. /\ \A e \in entries : e.key \in sent
          /\ \A k \in sent : \E e \in entries : e.key = k
      BY <2>3, <3>1, AllSent DEF NativeInv
    <3>3. SendingInv'
      BY <2>3, <2>7, <3>1, <3>2, SendingDone
    <3>4. NothingAsked
      BY <3>1 DEF NothingAsked, Sends
    <3> QED BY <2>5, <3>3, <3>4 DEF NativeInv
  <2> QED BY <2>6, <2>7
<1> QED BY <1>1, <1>2, <1>3 DEF Native!Discovery


LEMMA NativeReviewing ==
  ASSUME NativeInv, Native!Reviewing
  PROVE  NativeInv' /\ NothingAsked
<1>1. ASSUME NEW path, NEW payer, Native!Begin(path, payer)
      PROVE  NativeInv' /\ NothingAsked
  <2>1. PICK kinds \in SUBSET {"connect", "review", "import"} : kinds = {"review", "import"}
    OBVIOUS
  <2>2. PICK r : r = [id |-> made.reviews + 1, path |-> path, payer |-> payer, plan |-> Null]
    OBVIOUS
  <2>3. PICK new : new = [does |-> "review", at |-> "plan", client |-> client,
                          fresh |-> TRUE, review |-> r]
    OBVIOUS
  <2>4. /\ calls' = Native!Outrun(kinds, calls) \cup {new}
        /\ active' = Null /\ imported' = Null
        /\ UNCHANGED <<submitting, used, entries, sent>>
    BY <1>1, <2>1, <2>2, <2>3
    DEF Native!Begin, Native!ClearImported, Native!Enter, Native!done
  <2>5. NativeCall(new) /\ new.does = "review" /\ ~Sends(new)
    BY <2>2, <2>3 DEF NativeCall, Sends
  <2>6. /\ \A g \in calls' : NativeCall(g)
        /\ \A g \in calls' : g.does \in {"review", "import"} /\ g.fresh => g = new
        /\ \A f : Sends(f) => (f \in calls' <=> f \in calls)
    BY <2>1, <2>4, <2>5, OutrunCalls DEF NativeInv, Sends
  <2>7. ReviewingInv'
    BY <2>4, <2>5, <2>6 DEF ReviewingInv
  <2> QED BY <2>4, <2>6, <2>7, QuietStep
<1>2. ASSUME NEW f \in calls, Native!BuildPlan(f) PROVE NativeInv' /\ NothingAsked
  <2>1. /\ f.does = "review"
        /\ UNCHANGED <<active, imported, submitting, used, entries, sent>>
    BY <1>2 DEF Native!BuildPlan, Native!Flying, Native!done
  <2>2. CASE ~f.fresh
    <3>1. calls' = calls \ {f}
      BY <1>2, <2>2 DEF Native!BuildPlan
    <3>2. /\ \A g \in calls' : NativeCall(g)
          /\ \A g : Sends(g) => (g \in calls' <=> g \in calls)
      BY <2>1, <3>1 DEF NativeInv, Sends
    <3>3. ReviewingInv'
      BY <2>1, <3>1, ReviewingKept DEF NativeInv
    <3> QED BY <2>1, <3>2, <3>3, QuietStep
  <2>3. CASE f.fresh
    <3>1. /\ f = [does |-> "review", at |-> f.at, client |-> f.client, fresh |-> f.fresh,
                  review |-> f.review]
          /\ f.review = [id |-> f.review.id, path |-> f.review.path,
                         payer |-> f.review.payer, plan |-> f.review.plan]
      BY <2>1 DEF NativeInv, NativeCall
    <3>2. PICK r : r = [id |-> f.review.id, path |-> f.review.path,
                        payer |-> f.review.payer, plan |-> chain]
      OBVIOUS
    <3>3. PICK new : new = [does |-> "review", at |-> "simulate", client |-> f.client,
                            fresh |-> f.fresh, review |-> r]
      OBVIOUS
    <3>4. [f EXCEPT !.at = "simulate", !.review.plan = chain] = new
      <4>1. PICK v : v = f.review
        OBVIOUS
      <4>2. PICK a, c, h : a = f.at /\ c = f.client /\ h = f.fresh
        OBVIOUS
      <4>3. /\ f = [does |-> "review", at |-> a, client |-> c, fresh |-> h, review |-> v]
            /\ new = [does |-> "review", at |-> "simulate", client |-> c, fresh |-> h,
                      review |-> r]
            /\ v = [id |-> v.id, path |-> v.path, payer |-> v.payer, plan |-> v.plan]
            /\ r = [id |-> v.id, path |-> v.path, payer |-> v.payer, plan |-> chain]
        BY <3>1, <3>2, <3>3, <4>1, <4>2
      <4>4. PICK g : g = [f EXCEPT !.at = "simulate"]
        OBVIOUS
      <4>5. g = [does |-> "review", at |-> "simulate", client |-> c, fresh |-> h,
                 review |-> v]
        BY ONLY <4>3, <4>4
      <4>6. g.review = v /\ [v EXCEPT !.plan = chain] = r /\ [g EXCEPT !.review = r] = new
        BY ONLY <4>3, <4>5
      <4> QED BY ONLY <4>4, <4>6
    <3>5. calls' = (calls \ {f}) \cup {new}
      BY <1>2, <2>3, <3>4 DEF Native!BuildPlan
    <3>6. NativeCall(new) /\ new.does = "review" /\ new.fresh = f.fresh /\ ~Sends(new)
      BY <3>2, <3>3 DEF NativeCall, Sends
    <3>7. /\ \A g \in calls' : NativeCall(g)
          /\ \A g : Sends(g) => (g \in calls' <=> g \in calls)
      BY <2>1, <3>5, <3>6 DEF NativeInv, Sends
    <3>8. ReviewingInv'
      <4>1. /\ active = Null /\ imported = Null
            /\ \A g \in calls : g.does = "import" => ~g.fresh
            /\ \A g \in calls : g.does = "review" /\ g.fresh => f = g
        BY <2>1, <2>3 DEF NativeInv, ReviewingInv
      <4>2. /\ \A g \in calls' : g.does = "import" => ~g.fresh
            /\ \A g \in calls' : g.does = "review" /\ g.fresh => g = new
        BY <3>5, <3>6, <4>1
      <4> QED BY <2>1, <4>1, <4>2 DEF ReviewingInv
    <3> QED BY <2>1, <3>7, <3>8, QuietStep
  <2> QED BY <2>2, <2>3
<1>3. ASSUME NEW f \in calls, Native!ReviewPlan(f) PROVE NativeInv' /\ NothingAsked
  <2>1. /\ f.does = "review" /\ calls' = calls \ {f}
        /\ active' = IF f.fresh THEN f.review ELSE active
        /\ UNCHANGED <<imported, submitting, used, entries, sent>>
    BY <1>3 DEF Native!ReviewPlan, Native!Flying, Native!done
  <2>2. /\ \A g \in calls' : NativeCall(g)
        /\ \A g : Sends(g) => (g \in calls' <=> g \in calls)
    BY <2>1 DEF NativeInv, Sends
  <2>3. CASE f.fresh
    <3>1. /\ imported = Null
          /\ \A g \in calls' : g.does \in {"review", "import"} => ~g.fresh
      BY <2>1, <2>3 DEF NativeInv, ReviewingInv
    <3>2. ReviewingInv'
      BY <2>1, <3>1 DEF ReviewingInv
    <3> QED BY <2>1, <2>2, <3>2, QuietStep
  <2>4. CASE ~f.fresh
    <3>1. ReviewingInv'
      BY <2>1, <2>4, ReviewingKept DEF NativeInv
    <3> QED BY <2>1, <2>2, <3>1, QuietStep
  <2> QED BY <2>3, <2>4
<1> QED BY <1>1, <1>2, <1>3 DEF Native!Reviewing

(* A call begins to send, when none does.                                   *)
LEMMA SendingBegins ==
  ASSUME NativeInv, submitting = FALSE, submitting' = TRUE, NEW new, NativeCall(new),
         Sends(new), new.at = "revalidate", new.does = "submit" => new.review.id \notin used,
         calls' = calls \cup {new}, UNCHANGED <<active, imported, used, entries, sent>>
  PROVE  NativeInv' /\ NothingAsked
<1>1. \A f \in calls : ~Sends(f) /\ f.does # "broadcast"
  BY DEF NativeInv, SendingInv, Sends
<1>2. /\ \A e \in entries : e.key \in sent
      /\ \A k \in sent : \E e \in entries : e.key = k
  BY <1>1, AllSent DEF NativeInv
<1>3. new \in calls' /\ \A f \in calls' : Sends(f) => f = new
  BY <1>1
<1>4. SendingInv'
  <2>1. Retains(new)
    BY <1>2 DEF Retains
  <2> QED BY <1>3, <2>1, SendingGoesOn
<1>5. ReviewingInv'
  BY ReviewingKept DEF NativeInv, Sends
<1>6. (\A f \in calls : NativeCall(f))' /\ NothingAsked
  BY DEF NativeInv, NothingAsked
<1> QED BY <1>4, <1>5, <1>6 DEF NativeInv

(* The call that sends goes on.                                             *)
LEMMA SendingMoves ==
  ASSUME NativeInv, NEW f \in calls, Sends(f), NEW at,
         NEW new, new = [f EXCEPT !.at = at],
         calls' = (calls \ {f}) \cup {new},
         UNCHANGED <<active, imported, submitting, used>>,
         Retains(new)
  PROVE  NativeInv'
<1>1. /\ NativeCall(f) /\ f.does # "connect" /\ submitting
      /\ \A g \in calls : Sends(g) => g = f
      /\ f.does = "submit" => f.review.id \notin used
      /\ submitting \in BOOLEAN
  BY DEF NativeInv, SendingInv, Sends
<1>2. /\ NativeCall(new) /\ new.does = f.does /\ Sends(new)
      /\ f.does = "submit" => new.review = f.review
  BY <1>1, CallMoves DEF Sends
<1>3. new \in calls' /\ (\A g \in calls' : Sends(g) => g = new) /\ submitting' = TRUE
      /\ (new.does = "submit" => new.review.id \notin used')
  BY <1>1, <1>2
<1>4. SendingInv'
  BY <1>2, <1>3, SendingGoesOn
<1>5. ReviewingInv'
  BY <1>2, ReviewingKept DEF NativeInv, Sends
<1>6. (\A g \in calls : NativeCall(g))'
  BY <1>2 DEF NativeInv
<1> QED BY <1>4, <1>5, <1>6 DEF NativeInv

(* The call that sends ends.                                                *)
LEMMA SendingEnds ==
  ASSUME NativeInv, NEW f \in calls, Sends(f), calls' = calls \ {f}, submitting' = FALSE,
         UNCHANGED <<active, imported>>,
         \A e \in entries' : e.key \in sent', \A k \in sent' : \E e \in entries' : e.key = k
  PROVE  NativeInv' /\ NothingAsked
<1>1. \A g \in calls' : ~Sends(g)
  BY DEF NativeInv, SendingInv
<1>2. SendingInv'
  BY <1>1, SendingDone
<1>3. ReviewingInv'
  BY ReviewingKept DEF NativeInv
<1>4. (\A g \in calls : NativeCall(g))' /\ NothingAsked
  BY DEF NativeInv, NothingAsked
<1> QED BY <1>2, <1>3, <1>4 DEF NativeInv


LEMMA NativeSending ==
  ASSUME NativeInv, Native!Sending
  PROVE  /\ NativeInv'
         /\ NothingAsked \/ \E f \in calls : Native!SubmitChecks(f)
<1>1. CASE Native!Submit
  <2>1. PICK new : new = [does |-> "submit", at |-> "revalidate", client |-> client,
                          review |-> active]
    OBVIOUS
  <2>2. /\ calls' = calls \cup {new} /\ active.id \notin used
        /\ ~submitting /\ submitting' = TRUE
        /\ UNCHANGED <<active, imported, used, entries, sent>>
    BY <1>1, <2>1 DEF Native!Submit, Native!Enter, Native!done
  <2>3. /\ NativeCall(new) /\ Sends(new) /\ new.at = "revalidate"
        /\ new.does = "submit" => new.review.id \notin used
    BY <2>1, <2>2 DEF NativeCall, Sends
  <2>4. submitting = FALSE
    BY <2>2 DEF NativeInv, SendingInv
  <2> QED BY <2>2, <2>3, <2>4, SendingBegins
<1>2. CASE Native!BroadcastSigned
  <2>1. PICK new : new = [does |-> "broadcast", at |-> "revalidate", client |-> client,
                          import |-> imported]
    OBVIOUS
  <2>2. /\ calls' = calls \cup {new}
        /\ ~submitting /\ submitting' = TRUE
        /\ UNCHANGED <<active, imported, used, entries, sent>>
    BY <1>2, <2>1 DEF Native!BroadcastSigned, Native!Enter, Native!done
  <2>3. NativeCall(new) /\ Sends(new) /\ new.at = "revalidate" /\ new.does # "submit"
    BY <2>1 DEF NativeCall, Sends
  <2>4. submitting = FALSE
    BY <2>2 DEF NativeInv, SendingInv
  <2> QED BY <2>2, <2>3, <2>4, SendingBegins
<1>3. CASE Native!ImportSigned
  <2>1. PICK kinds \in SUBSET {"connect", "review", "import"} : kinds = {"import"}
    OBVIOUS
  <2>2. PICK new : new = [does |-> "import", at |-> "revalidate", client |-> client,
                          fresh |-> TRUE, review |-> active, id |-> made.imports + 1]
    OBVIOUS
  <2>3. /\ active # Null /\ active' = active /\ imported' = Null
        /\ calls' = Native!Outrun(kinds, calls) \cup {new}
        /\ UNCHANGED <<submitting, used, entries, sent>>
    BY <1>3, <2>1, <2>2
    DEF Native!ImportSigned, Native!ClearImported, Native!Enter, Native!done
  <2>4. NativeCall(new) /\ new.does = "import" /\ ~Sends(new)
    BY <2>2 DEF NativeCall, Sends
  <2>5. /\ \A g \in calls' : NativeCall(g) /\ (g.does = "review" => g \in calls)
        /\ \A g : Sends(g) => (g \in calls' <=> g \in calls)
    BY <2>1, <2>3, <2>4, OutrunCalls DEF NativeInv, Sends
  <2>6. \A g \in calls' : g.does = "review" => ~g.fresh
    BY <2>3, <2>5 DEF NativeInv, ReviewingInv
  <2>7. ReviewingInv'
    BY <2>3, <2>6 DEF ReviewingInv
  <2> QED BY <2>3, <2>5, <2>7, QuietStep
<1>4. ASSUME NEW f \in calls, Native!SubmitChecks(f) PROVE NativeInv'
  <2>1. /\ f.does = "submit" /\ Sends(f)
        /\ UNCHANGED <<active, imported, used, entries, sent>>
        /\ \/ /\ calls' = (calls \ {f}) \cup {[f EXCEPT !.at = Native!NextCheck[f.at]]}
              /\ UNCHANGED submitting
           \/ calls' = calls \ {f} /\ submitting' = FALSE
    BY <1>4 DEF Native!SubmitChecks, Native!Flying, Native!Move, Native!done, Sends
  <2>2. \A g \in calls : g.does # "broadcast"
    BY <2>1 DEF NativeInv, SendingInv, Sends
  <2>3. /\ \A e \in entries' : e.key \in sent'
        /\ \A k \in sent' : \E e \in entries' : e.key = k
    BY <2>1, <2>2, AllSent DEF NativeInv
  <2>4. CASE calls' = calls \ {f} /\ submitting' = FALSE
    BY <2>1, <2>3, <2>4, SendingEnds
  <2>5. CASE /\ calls' = (calls \ {f}) \cup {[f EXCEPT !.at = Native!NextCheck[f.at]]}
             /\ UNCHANGED submitting
    <3>1. PICK at : at = Native!NextCheck[f.at]
      OBVIOUS
    <3>2. PICK new : new = [f EXCEPT !.at = at]
      OBVIOUS
    <3>3. new.does # "broadcast" /\ calls' = (calls \ {f}) \cup {new}
      BY <2>1, <2>5, <3>1, <3>2, CallMoves DEF NativeInv
    <3>4. Retains(new)
      BY <2>3, <3>3 DEF Retains
    <3> QED BY <2>1, <2>5, <3>2, <3>3, <3>4, SendingMoves
  <2> QED BY <2>1, <2>4, <2>5
<1>5. ASSUME NEW f \in calls, Native!ImportChecks(f) PROVE NativeInv' /\ NothingAsked
  <2>1. /\ f.does = "import"
        /\ UNCHANGED <<active, imported, submitting, used, entries, sent>>
        /\ \/ calls' = (calls \ {f}) \cup {[f EXCEPT !.at = "bind"]} /\ f.fresh
           \/ calls' = calls \ {f}
    BY <1>5 DEF Native!ImportChecks, Native!Flying, Native!Move, Native!done
  <2>2. CASE calls' = calls \ {f}
    <3>1. /\ \A g \in calls' : NativeCall(g)
          /\ \A g : Sends(g) => (g \in calls' <=> g \in calls)
      BY <2>1, <2>2 DEF NativeInv, Sends
    <3>2. ReviewingInv'
      BY <2>1, <2>2, ReviewingKept DEF NativeInv
    <3> QED BY <2>1, <3>1, <3>2, QuietStep
  <2>3. CASE calls' = (calls \ {f}) \cup {[f EXCEPT !.at = "bind"]} /\ f.fresh
    <3>1. PICK new : new = [f EXCEPT !.at = "bind"]
      OBVIOUS
    <3>2. NativeCall(new) /\ new.does = "import" /\ ~Sends(new)
      BY <2>1, <3>1, CallMoves DEF NativeInv, Sends
    <3>3. /\ \A g \in calls' : NativeCall(g) /\ (g.does = "review" => g \in calls)
          /\ \A g : Sends(g) => (g \in calls' <=> g \in calls)
      BY <2>1, <2>3, <3>1, <3>2 DEF NativeInv, Sends
    <3>4. \A g \in calls' : g.does = "review" => ~g.fresh
      BY <2>1, <2>3, <3>3 DEF NativeInv, ReviewingInv
    <3>5. ReviewingInv'
      BY <2>1, <3>4 DEF NativeInv, ReviewingInv
    <3> QED BY <2>1, <3>3, <3>5, QuietStep
  <2> QED BY <2>1, <2>2, <2>3
<1>6. ASSUME NEW f \in calls, Native!ImportArtifact(f) PROVE NativeInv' /\ NothingAsked
  <2>1. /\ f.does = "import" /\ calls' = calls \ {f}
        /\ UNCHANGED <<active, submitting, used, entries, sent>>
        /\ \/ /\ active = f.review /\ f.fresh
              /\ imported' = [id |-> f.id, review |-> f.review, tx |-> f.review.plan]
           \/ imported' = imported
    BY <1>6 DEF Native!ImportArtifact, Native!Flying, Native!done
  <2>2. /\ \A g \in calls' : NativeCall(g)
        /\ \A g : Sends(g) => (g \in calls' <=> g \in calls)
    BY <2>1 DEF NativeInv, Sends
  <2>3. ReviewingInv'
    <3>1. CASE imported' = imported
      BY <2>1, <3>1, ReviewingKept DEF NativeInv
    <3>2. CASE /\ active = f.review /\ f.fresh
               /\ imported' = [id |-> f.id, review |-> f.review, tx |-> f.review.plan]
      <4>1. \A g \in calls' : g.does = "review" => ~g.fresh
        BY <2>1, <3>2 DEF NativeInv, ReviewingInv
      <4>2. imported'.review = active'
        BY <2>1, <3>2
      <4> QED BY <4>1, <4>2 DEF ReviewingInv
    <3> QED BY <2>1, <3>1, <3>2
  <2> QED BY <2>1, <2>2, <2>3, QuietStep
<1>7. ASSUME NEW f \in calls, NEW accepted, Native!WalletAnswers(f, accepted)
      PROVE  NativeInv' /\ NothingAsked
  <2>1. /\ f.does = "submit" /\ Sends(f) /\ calls' = calls \ {f} /\ submitting' = FALSE
        /\ UNCHANGED <<active, imported, entries, sent>>
    BY <1>7 DEF Native!WalletAnswers, Native!Flying, Sends
  <2>2. \A g \in calls : g.does # "broadcast"
    BY <2>1 DEF NativeInv, SendingInv, Sends
  <2>3. /\ \A e \in entries' : e.key \in sent'
        /\ \A k \in sent' : \E e \in entries' : e.key = k
    BY <2>1, <2>2, AllSent DEF NativeInv
  <2> QED BY <2>1, <2>3, SendingEnds
<1>8. ASSUME NEW f \in calls, Native!StartBroadcast(f) PROVE NativeInv' /\ NothingAsked
  <2>1. /\ f.does = "broadcast" /\ Sends(f) /\ f.at = "revalidate"
        /\ UNCHANGED <<active, imported, used, sent>>
    BY <1>8 DEF Native!StartBroadcast, Native!Flying, Sends
  <2>2. \A g \in calls : Sends(g) => g = f
    BY <2>1 DEF NativeInv, SendingInv
  <2>3. /\ \A e \in entries : e.key \in sent
        /\ \A k \in sent : \E e \in entries : e.key = k
    BY <2>1, <2>2, AllSent DEF NativeInv, Sends
  <2>4. CASE ~Native!Current(f) \/ chain # f.import.tx
    <3>1. calls' = calls \ {f} /\ submitting' = FALSE /\ UNCHANGED entries
      BY <1>8, <2>4 DEF Native!StartBroadcast
    <3> QED BY <2>1, <2>3, <3>1, SendingEnds
  <2>5. CASE Native!Current(f) /\ chain = f.import.tx
    <3>1. PICK key : key = Native!Key(f)
      OBVIOUS
    <3>2. PICK at : at = IF Native!EntryOf(f) = {} THEN "preflight" ELSE "outcome"
      OBVIOUS
    <3>3. PICK new : new = [f EXCEPT !.at = at]
      OBVIOUS
    <3>4. /\ calls' = (calls \ {f}) \cup {new} /\ UNCHANGED submitting
          /\ entries' = entries \cup
               (IF Native!EntryOf(f) = {} THEN {[key |-> key, outcome |-> Null]} ELSE {})
      BY <1>8, <2>5, <3>1, <3>2, <3>3 DEF Native!StartBroadcast, Native!Move
    <3>5. /\ NativeCall(new) /\ new.does = "broadcast" /\ new.at = at
          /\ Native!Key(new) = key
      BY <2>1, <3>1, <3>3, CallMoves DEF NativeInv, Native!Key
    <3>6. NothingAsked
      BY <3>4, <3>5 DEF NothingAsked
    <3>7. CASE Native!EntryOf(f) = {}
      <4>1. PICK entry : entry = [key |-> key, outcome |-> Null]
        OBVIOUS
      <4>2. entry.key = key /\ entries' = entries \cup {entry} /\ at = "preflight"
        BY <3>2, <3>4, <3>7, <4>1
      <4>3. key \notin sent
        BY <2>3, <3>1, <3>7 DEF Native!EntryOf
      <4>4. /\ \A k \in sent' : \E e \in entries' : e.key = k
            /\ \A e \in entries' : e.key \notin sent' => e.key = key
            /\ key \notin sent' /\ \E e \in entries' : e.key = key
        BY <2>1, <2>3, <4>2, <4>3
      <4>5. Retains(new)
        BY <3>5, <4>2, <4>4 DEF Retains
      <4>6. NativeInv'
        BY <2>1, <3>3, <3>4, <4>5, SendingMoves
      <4> QED BY <3>6, <4>6
    <3>8. CASE Native!EntryOf(f) # {}
      <4>1. entries' = entries /\ at = "outcome"
        BY <3>2, <3>4, <3>8
      <4>2. key \in sent
        BY <2>3, <3>1, <3>8 DEF Native!EntryOf
      <4>3. /\ \A k \in sent' : \E e \in entries' : e.key = k
            /\ \A e \in entries' : e.key \in sent'
        BY <2>1, <2>3, <4>1
      <4>4. Retains(new)
        BY <2>1, <3>5, <4>1, <4>2, <4>3 DEF Retains
      <4>5. NativeInv'
        BY <2>1, <3>3, <3>4, <4>4, SendingMoves
      <4> QED BY <3>6, <4>5
    <3> QED BY <3>7, <3>8
  <2> QED BY <2>4, <2>5
<1>9. ASSUME NEW f \in calls, Native!PreflightFails(f) PROVE NativeInv' /\ NothingAsked
  <2>1. /\ f.does = "broadcast" /\ Sends(f) /\ f.at = "preflight" /\ calls' = calls \ {f}
        /\ submitting' = FALSE /\ UNCHANGED <<active, imported, sent>>
        /\ entries' = {e \in entries : e.key # Native!Key(f)}
    BY <1>9 DEF Native!PreflightFails, Native!Flying, Native!EntryOf, Sends
  <2>2. \A g \in calls : g.does = "broadcast" => g = f
    BY <2>1 DEF NativeInv, SendingInv, Sends
  <2>3. Native!Key(f) \notin sent
    BY <2>1 DEF NativeInv, SendingInv
  <2>4. /\ \A e \in entries' : e.key \in sent'
        /\ \A k \in sent' : \E e \in entries' : e.key = k
    BY <2>1, <2>2, <2>3 DEF NativeInv, SendingInv
  <2> QED BY <2>1, <2>4, SendingEnds
<1>10. ASSUME NEW f \in calls, Native!SendRawTransaction(f) PROVE NativeInv' /\ NothingAsked
  <2>1. PICK key, new : key = Native!Key(f) /\ new = [f EXCEPT !.at = "sending"]
    OBVIOUS
  <2>2. /\ f.does = "broadcast" /\ Sends(f) /\ f.at = "preflight"
        /\ calls' = (calls \ {f}) \cup {new} /\ sent' = sent \cup {key}
        /\ UNCHANGED <<active, imported, submitting, used, entries>>
    BY <1>10, <2>1 DEF Native!SendRawTransaction, Native!Flying, Native!Move, Sends
  <2>3. /\ new.does = "broadcast" /\ new.at = "sending" /\ Native!Key(new) = key
    BY <2>1, <2>2, CallMoves DEF NativeInv, Native!Key
  <2>4. \A g \in calls : g.does = "broadcast" => g = f
    BY <2>2 DEF NativeInv, SendingInv, Sends
  <2>5. /\ \A e \in entries' : e.key \in sent'
        /\ \A k \in sent' : \E e \in entries' : e.key = k
    BY <2>1, <2>2, <2>4 DEF NativeInv, SendingInv
  <2>6. key \in sent' /\ NothingAsked
    BY <2>2, <2>3 DEF NothingAsked
  <2>7. Retains(new)
    BY <2>3, <2>5, <2>6 DEF Retains
  <2> QED BY <2>1, <2>2, <2>6, <2>7, SendingMoves
<1>11. ASSUME NEW f \in calls, NEW outcome, Native!SendAnswered(f, outcome)
       PROVE  NativeInv' /\ NothingAsked
  <2>1. PICK key, new : key = Native!Key(f) /\ new = [f EXCEPT !.at = "outcome"]
    OBVIOUS
  <2>2. PICK entry : entry = [key |-> key, outcome |-> outcome]
    OBVIOUS
  <2>3. /\ f.does = "broadcast" /\ Sends(f) /\ f.at = "sending"
        /\ calls' = (calls \ {f}) \cup {new}
        /\ UNCHANGED <<active, imported, submitting, used, sent>>
        /\ entries' = {e \in entries : e.key # key} \cup {entry}
    BY <1>11, <2>1, <2>2
    DEF Native!SendAnswered, Native!Flying, Native!Move, Native!EntryOf, Sends
  <2>4. /\ new.does = "broadcast" /\ new.at = "outcome" /\ Native!Key(new) = key
    BY <2>1, <2>3, CallMoves DEF NativeInv, Native!Key
  <2>5. \A g \in calls : g.does = "broadcast" => g = f
    BY <2>3 DEF NativeInv, SendingInv, Sends
  <2>6. key \in sent /\ entry.key = key
    BY <2>1, <2>2, <2>3 DEF NativeInv, SendingInv
  <2>7. /\ \A e \in entries' : e.key \in sent'
        /\ \A k \in sent' : \E e \in entries' : e.key = k
    BY <2>3, <2>5, <2>6 DEF NativeInv, SendingInv
  <2>8. NothingAsked
    BY <2>3, <2>4 DEF NothingAsked
  <2>9. Retains(new)
    BY <2>3, <2>4, <2>6, <2>7 DEF Retains
  <2> QED BY <2>1, <2>3, <2>8, <2>9, SendingMoves
<1>12. ASSUME NEW f \in calls, Native!BroadcastEnds(f) PROVE NativeInv' /\ NothingAsked
  <2>1. /\ f.does = "broadcast" /\ Sends(f) /\ f.at = "outcome" /\ calls' = calls \ {f}
        /\ submitting' = FALSE /\ UNCHANGED <<active, imported, entries, sent>>
    BY <1>12 DEF Native!BroadcastEnds, Native!Flying, Sends
  <2>2. \A g \in calls : g.does = "broadcast" => g = f
    BY <2>1 DEF NativeInv, SendingInv, Sends
  <2>3. /\ \A e \in entries' : e.key \in sent'
        /\ \A k \in sent' : \E e \in entries' : e.key = k
    BY <2>1, <2>2 DEF NativeInv, SendingInv
  <2> QED BY <2>1, <2>3, SendingEnds
<1> QED
  BY <1>1, <1>2, <1>3, <1>4, <1>5, <1>6, <1>7, <1>8, <1>9, <1>10, <1>11, <1>12
  DEF Native!Sending

LEMMA NativeStep ==
  ASSUME NativeInv, Native!Next
  PROVE  /\ NativeInv'
         /\ NothingAsked \/ \E f \in calls : Native!SubmitChecks(f)
BY NativeOutside, NativeDiscovery, NativeReviewing, NativeSending DEF Native!Next


(* The wallet is asked for a review that the screen shows and that it has   *)
(* not sent.                                                                *)
LEMMA WalletAsked ==
  ASSUME NativeInv, Native!Next, NEW f \in calls, Native!Requested(f)
  PROVE  active = f.review /\ f.review.id \notin used
<1>1. f.does = "submit" /\ Sends(f) /\ f.at = "network" /\ NativeCall(f)
  BY DEF NativeInv, Native!Requested, Sends
<1>2. PICK new : new = [f EXCEPT !.at = "invoke"]
  OBVIOUS
<1>3. new \in calls' /\ new.does = "submit" /\ new.at = "invoke" /\ Sends(new)
  BY <1>1, <1>2, CallMoves DEF Native!Requested, Sends
<1>4. new \notin calls /\ f \notin calls'
  <2>1. new # f
    BY <1>1, <1>3
  <2>2. NativeInv'
    BY NativeStep
  <2>3. \A g, h \in calls' : Sends(g) /\ Sends(h) => g = h
    BY <2>2 DEF NativeInv, SendingInv
  <2> QED BY <1>1, <1>3, <2>1, <2>3 DEF NativeInv, SendingInv
<1>5. PICK g \in calls : Native!SubmitChecks(g)
  BY <1>3, <1>4, NativeStep DEF NothingAsked
<1>6. g = f
  BY <1>1, <1>5 DEF Native!SubmitChecks, Native!Flying, NativeInv, SendingInv, Sends
<1>7. active = f.review
  <2>1. calls' # calls \ {f}
    BY <1>3, <1>4
  <2> QED BY <1>5, <1>6, <2>1 DEF Native!SubmitChecks
<1> QED BY <1>1, <1>7 DEF NativeInv, SendingInv

LEMMA NativeSize == \A S : Native!Cardinality(S) = Cardinality(S)
BY DEF Native!Cardinality, Cardinality

(* What comes to rest.                                                      *)
LEMMA SubmissionsRest == NativeInv => Native!SubmissionsSettle /\ Native!ImportOfReview
<1> SUFFICES ASSUME NativeInv PROVE Native!SubmissionsSettle /\ Native!ImportOfReview
  OBVIOUS
<1>1. PICK sending : sending = Native!Flying("submit") \cup Native!Flying("broadcast")
  OBVIOUS
<1>2. \A f : f \in sending <=> f \in calls /\ Sends(f)
  BY <1>1 DEF Native!Flying, Sends
<1>3. Cardinality(sending) = IF submitting THEN 1 ELSE 0
  <2>1. CASE submitting
    <3>1. PICK f \in calls : Sends(f)
      BY <2>1 DEF NativeInv, SendingInv
    <3>2. sending = {f}
      BY <1>2, <3>1 DEF NativeInv, SendingInv
    <3>3. Cardinality({f}) = 1
      BY FS_Singleton
    <3> QED BY <2>1, <3>2, <3>3
  <2>2. CASE ~submitting
    <3>1. sending = {}
      BY <1>2, <2>2 DEF NativeInv, SendingInv
    <3> QED BY <2>2, <3>1, FS_EmptySet
  <2> QED BY <2>1, <2>2
<1>4. \A e \in entries : e.key \notin sent =>
        \E f \in Native!Flying("broadcast") : Native!Key(f) = e.key
  BY DEF NativeInv, SendingInv, Native!Flying
<1>5. Native!SubmissionsSettle
  BY <1>1, <1>3, <1>4, NativeSize DEF Native!SubmissionsSettle
<1>6. Native!ImportOfReview
  BY DEF NativeInv, ReviewingInv, Native!ImportOfReview
<1> QED BY <1>5, <1>6

-----------------------------------------------------------------------------
(* The tab *)

LEMMA WebInit == MissingAssumption /\ Init => WebInv
<1> SUFFICES ASSUME MissingAssumption, Init PROVE WebInv
  OBVIOUS
<1>1. PickerInv /\ NativeInv
  BY PickerInit, NativeInit DEF Init
<1>2. CASE page = "shared"
  BY <1>1, <1>2, SharedInit DEF Init, WebInv
<1>3. CASE page # "shared"
  BY <1>1, <1>3, HomeInit DEF Init, WebInv
<1> QED BY <1>2, <1>3

LEMMA WebStep ==
  ASSUME MissingAssumption, WebInv, [Next]_vars
  PROVE  WebInv'
<1>1. CASE OpenHome
  <2>1. page = "home" /\ page' = page /\ UNCHANGED <<picking, sharing, native>> /\ Home!Next
    BY <1>1 DEF OpenHome
  <2>2. HomeInv'
    BY <2>1, HomeStep DEF WebInv
  <2>3. PickerInv'
    BY <2>1 DEF WebInv, PickerInv, Settled, Picker!InvokeTargetContract, picking
  <2>4. NativeInv'
    BY <2>1 DEF WebInv, NativeInv, SendingInv, ReviewingInv, native
  <2> QED BY <2>1, <2>2, <2>3, <2>4 DEF WebInv, sharing
<1>2. CASE OpenPicker
  <2>1. /\ page = "picker" /\ page' = page /\ Picker!Next
        /\ UNCHANGED <<drafting, composing, sharing, native>>
    BY <1>2 DEF OpenPicker
  <2>2. PickerInv'
    BY <2>1, PickerStep DEF WebInv
  <2>3. HomeInv'
    BY <2>1 DEF WebInv, HomeInv, drafting, composing
  <2>4. NativeInv'
    BY <2>1 DEF WebInv, NativeInv, SendingInv, ReviewingInv, native
  <2> QED BY <2>1, <2>2, <2>3, <2>4 DEF WebInv, sharing
<1>3. CASE OpenShared
  <2>1. /\ page = "shared" /\ page' = page /\ Shared!Next
        /\ UNCHANGED <<composing, picking, native>>
    BY <1>3 DEF OpenShared
  <2>2. SharedInv'
    BY <2>1, SharedStep DEF WebInv
  <2>3. PickerInv'
    BY <2>1 DEF WebInv, PickerInv, Settled, Picker!InvokeTargetContract, picking
  <2>4. NativeInv'
    BY <2>1 DEF WebInv, NativeInv, SendingInv, ReviewingInv, native
  <2> QED BY <2>1, <2>2, <2>3, <2>4 DEF WebInv, composing
<1>4. CASE OpenNative
  <2>1. /\ page = "native" /\ page' = page /\ Native!Next
        /\ UNCHANGED <<drafting, composing, picking, sharing>>
    BY <1>4 DEF OpenNative
  <2>2. NativeInv'
    BY <2>1, NativeStep DEF WebInv
  <2>3. PickerInv'
    BY <2>1 DEF WebInv, PickerInv, Settled, Picker!InvokeTargetContract, picking
  <2>4. HomeInv'
    BY <2>1 DEF WebInv, HomeInv, drafting, composing
  <2> QED BY <2>1, <2>2, <2>3, <2>4 DEF WebInv, sharing
<1>5. CASE UNCHANGED vars
  <2>1. PickerInv'
    BY <1>5 DEF vars, WebInv, PickerInv, Settled, Picker!InvokeTargetContract, picking
  <2>2. NativeInv'
    BY <1>5 DEF vars, WebInv, NativeInv, SendingInv, ReviewingInv, native
  <2>3. page # "shared" => HomeInv'
    BY <1>5 DEF vars, WebInv, HomeInv, drafting, composing
  <2>4. page = "shared" => SharedInv'
    BY <1>5 DEF vars, WebInv, SharedInv, drafting, sharing
  <2> QED BY <1>5, <2>1, <2>2, <2>3, <2>4 DEF vars, WebInv, sharing, composing
<1> QED BY <1>1, <1>2, <1>3, <1>4, <1>5 DEF Next

LEMMA WebInvariant ==
  ASSUME MissingAssumption
  PROVE  Spec => []WebInv
<1>1. Init => WebInv
  BY WebInit
<1>2. WebInv /\ [Next]_vars => WebInv'
  BY WebStep
<1> QED BY <1>1, <1>2, PTL DEF Spec

-----------------------------------------------------------------------------
(* What holds of every tab *)

(* Pages come to rest: the target field with the contract that it names, a  *)
(* native submission with what is still to be retained, an import with the  *)
(* review on the screen (ContractPicker, NativeWorkspace).                  *)
THEOREM PagesSettled ==
  ASSUME MissingAssumption
  PROVE  Spec => []PagesSettle
<1>1. WebInv => PagesSettle
  <2> SUFFICES ASSUME WebInv PROVE PagesSettle
    OBVIOUS
  <2>1. Picker!SettledLookup
    BY DEF WebInv, PickerInv, Settled, Picker!SettledLookup
  <2> QED BY <2>1, SubmissionsRest DEF WebInv, PagesSettle
<1> QED BY <1>1, WebInvariant, PTL

(* A workspace makes one draft, keeps to its stored body, and submits the   *)
(* operation of that body only (OperationsWorkspace).                       *)
THEOREM HomeDraftKept ==
  ASSUME MissingAssumption
  PROVE  Spec => HomeKeepsDraft
<1>1. WebInv => Home!OneDraft /\ Home!BodyFrozen
  BY DEF WebInv, HomeInv, Home!OneDraft, Home!BodyFrozen
<1>2. WebInv /\ [Next]_vars
        => [draft =>
             /\ Home!SubmitViaRelay /\ Home!CanRelay
                  => Home!SameIntent(Home!BuildRelayRequest("best", body, records).content,
                                     row.body.anchor)
             /\ Home!BroadcastWithNeoWallet /\ Home!ClientInvocation(body, records) # Refused
                  => Home!SameIntent(Home!ClientInvocation(body, records),
                                     row.body.anchor)]_(Home!vars)
  <2>1. ASSUME WebInv, draft
        PROVE  /\ Home!CanRelay
                    => Home!SameIntent(Home!BuildRelayRequest("best", body, records).content,
                                       row.body.anchor)
               /\ Home!ClientInvocation(body, records) # Refused
                    => Home!SameIntent(Home!ClientInvocation(body, records),
                                       row.body.anchor)
    <3>1. HomeInv
      BY <2>1 DEF WebInv
    <3> QED BY <2>1, <3>1, HomeSubmits, Zenon
  <2> QED BY <2>1, Zenon
<1> QED
  BY <1>1, <1>2, WebInvariant, PTL DEF Spec, HomeKeepsDraft, Home!SubmittedIsShared

(* The page of a shared draft does one thing at a time, and has the relay   *)
(* send the payload that the relay passed last (SharedDraftPage).           *)
THEOREM SharedPassed ==
  ASSUME MissingAssumption
  PROVE  Spec => SharedRelaysWhatPassed
<1>1. WebInv => (page = "shared" => Shared!OneSubmission)
  BY OneAtATime DEF WebInv
<1>2. WebInv /\ [Next]_vars
        => [Shared!SubmitViaRelay => Shared!Payload = passed]_(Shared!vars)
  BY SentWasPassed DEF WebInv, Shared!SubmitViaRelay
<1> QED
  BY <1>1, <1>2, WebInvariant, PTL DEF Spec, SharedRelaysWhatPassed, Shared!RelayedWasPassed

(* What the wallet or the node is given is on the screen at that moment     *)
(* (NativeWorkspace).                                                       *)
THEOREM NativeShown ==
  ASSUME MissingAssumption
  PROVE  Spec => NativeSendsWhatIsShown
<1>1. WebInv /\ [Next]_vars
        => [\A f \in calls :
              /\ Native!Requested(f) => active = f.review
              /\ Native!SendRawTransaction(f) =>
                   active = f.import.review /\ client = f.client]_(Native!vars)
  <2> SUFFICES ASSUME WebInv, [Next]_vars, ~UNCHANGED Native!vars, NEW f \in calls
               PROVE  /\ Native!Requested(f) => active = f.review
                      /\ Native!SendRawTransaction(f) =>
                           active = f.import.review /\ client = f.client
    OBVIOUS
  <2>1. Native!Next
    BY DEF Next, vars, OpenHome, OpenPicker, OpenShared, OpenNative, native, Native!vars
  <2> QED BY <2>1, WalletAsked DEF WebInv, Native!SendRawTransaction, Native!Current
<1> QED
  BY <1>1, WebInvariant, PTL DEF Spec, NativeSendsWhatIsShown, Native!NothingStaleIsSent

(* A client gives a signed transaction to the node once; a review the       *)
(* wallet has sent is not given to it again (NativeWorkspace).              *)
THEOREM NativeOnce ==
  ASSUME MissingAssumption
  PROVE  Spec => NativeSendsOnce
<1>1. WebInv /\ [Next]_vars
        => [\A f \in calls :
              /\ Native!SendRawTransaction(f) => Native!Key(f) \notin sent
              /\ Native!Requested(f) => f.review.id \notin used]_(Native!vars)
  <2> SUFFICES ASSUME WebInv, [Next]_vars, ~UNCHANGED Native!vars, NEW f \in calls
               PROVE  /\ Native!SendRawTransaction(f) => Native!Key(f) \notin sent
                      /\ Native!Requested(f) => f.review.id \notin used
    OBVIOUS
  <2>1. Native!Next
    BY DEF Next, vars, OpenHome, OpenPicker, OpenShared, OpenNative, native, Native!vars
  <2>2. Native!SendRawTransaction(f) => f.does = "broadcast" /\ f.at = "preflight"
    BY DEF Native!SendRawTransaction, Native!Flying
  <2>3. Native!SendRawTransaction(f) => Native!Key(f) \notin sent
    BY <2>2 DEF WebInv, NativeInv, SendingInv
  <2> QED BY <2>1, <2>3, WalletAsked DEF WebInv
<1> QED BY <1>1, WebInvariant, PTL DEF Spec, NativeSendsOnce, Native!SentOnce
=============================================================================
