---------------------------- MODULE SharedDraftPage ----------------------------
(***************************************************************************)
(* The page of a shared draft (views/TransactionInfoView.vue): a signer or *)
(* an operator opens it with a link, signs, checks with the relay,         *)
(* submits, and rotates links.                                             *)
(*                                                                         *)
(* The page replaces its draft by the answer of every call to the store,   *)
(* so a handler is a chain of calls: the step the store applies one, and   *)
(* the step that brings its answer and begins the next.  Operator          *)
(* mutations of a tab wait for each other; signatures and activity do not. *)
(* Links are numbered: link n of a scope is the one after n rotations.     *)
(***************************************************************************)
EXTENDS SignedInvocation, Integers, Sequences

CONSTANTS
  Body,          \* the bodies a draft may have
  Record,        \* signature records signers here and elsewhere may leave
  MaxRotations,  \* bound on the rotations of a link
  MaxFlights     \* bound on the handlers waiting at once

VARIABLES
  body,          \* draft.transaction_body, frozen
  row,           \* the stored draft: its records and the numbers of its links
  route,         \* the link the page was opened with
  shown,         \* draft.value
  mode,          \* relayPayloadMode
  check, checkRequest, pending, flights,
  passed         \* history: the payload the relay passed last

vars == <<body, row, route, shown, mode, check, checkRequest, pending, flights, passed>>

OperatorCalls == {"preflight", "status", "receipt", "rotateOperator", "rotateCollaborator"}

Scope(link) ==
  IF link = <<"operate", row.operator>> THEN "operate"
  ELSE IF link = <<"sign", row.collaborator>> THEN "sign" ELSE "read"

(* What the store shows to the holder of a link. *)
View(r, scope) ==
  [records |-> r.records,
   operator |-> IF scope = "operate" THEN r.operator ELSE Null,
   collaborator |-> IF scope = "read" THEN Null ELSE r.collaborator]

(* draft.metadata.relayPreflight holds the snapshot one level deeper, so     *)
(* loading a draft restores no verdict.                                     *)
Init ==
  /\ body \in Body
  /\ row = [records |-> {}, operator |-> 0, collaborator |-> 0]
  /\ route \in {<<"operate", 0>>, <<"sign", 0>>, <<"none", 0>>}
  /\ shown = Null
  /\ mode = "best"
  /\ check = "idle" /\ checkRequest = Null /\ passed = Null
  /\ pending = Null /\ flights = {}

LoadDraft ==
  /\ shown = Null
  /\ shown' = View(row, Scope(route))
  /\ UNCHANGED <<body, row, route, mode, check, checkRequest, pending, flights, passed>>

HasOperatorAccess == route = <<"operate", shown.operator>>
HasSignatureAccess == HasOperatorAccess \/ route = <<"sign", shown.collaborator>>

(* operatorMutationOptions, accessMutationOptions *)
LinkFor(call, page) ==
  IF page.operator # Null THEN <<"operate", page.operator>>
  ELSE IF call \notin OperatorCalls /\ page.collaborator # Null
         THEN <<"sign", page.collaborator>>
         ELSE route

Room == Cardinality(flights) < MaxFlights

(* A handler that calls the store next, then what follows in calls. *)
Calling(calls, page) ==
  IF calls = <<>> THEN {}
  ELSE {[does |-> "call", calls |-> calls, link |-> LinkFor(Head(calls), page),
         record |-> Null, answer |-> Null]}

-----------------------------------------------------------------------------
(* Calls to the store *)

Allowed(call, scope) ==
  IF call \in OperatorCalls THEN scope = "operate" ELSE scope \in {"sign", "operate"}

Applied(f) ==
  CASE Head(f.calls) = "sign" -> [row EXCEPT !.records = AppendSignature(@, f.record)]
    [] Head(f.calls) = "rotateOperator" -> [row EXCEPT !.operator = @ + 1]
    [] Head(f.calls) = "rotateCollaborator" -> [row EXCEPT !.collaborator = @ + 1]
    [] OTHER -> row

Calls == {f \in flights : f.does = "call"}

(* The answer to a rotation shows the holder of the old link the new one.   *)
StoreApplies(f) ==
  /\ f \in Calls /\ f.answer = Null
  /\ Head(f.calls) \in OperatorCalls =>
       \A g \in Calls : Head(g.calls) \in OperatorCalls => g.answer = Null
  /\ Allowed(Head(f.calls), Scope(f.link))
  /\ row' = Applied(f)
  /\ flights' = (flights \ {f}) \cup {[f EXCEPT !.answer = View(row', Scope(f.link))]}
  /\ UNCHANGED <<body, route, shown, mode, check, checkRequest, pending, passed>>

(* The receipt is the last call of a check or a submission; the flag falls  *)
(* when it begins.                                                          *)
Flag(calls) == IF calls = <<"receipt">> THEN Null ELSE pending

StoreAnswered(f) ==
  /\ f \in Calls /\ f.answer # Null
  /\ shown' = f.answer
  /\ flights' = (flights \ {f}) \cup Calling(Tail(f.calls), f.answer)
  /\ pending' = Flag(Tail(f.calls))
  /\ UNCHANGED <<body, row, route, mode, check, checkRequest, passed>>

(* A failed signature or rotation ends its handler; the other calls are     *)
(* best effort.                                                             *)
StoreFailed(f) ==
  LET ends == Head(f.calls) \in {"sign", "rotateOperator", "rotateCollaborator"}
      rest == IF ends THEN <<>> ELSE Tail(f.calls)
  IN  /\ f \in Calls /\ f.answer = Null
      /\ flights' = (flights \ {f}) \cup Calling(rest, shown)
      /\ pending' = Flag(rest)
      /\ UNCHANGED <<body, row, route, shown, mode, check, checkRequest, passed>>

SignedElsewhere(r) ==
  /\ row' = [row EXCEPT !.records = AppendSignature(@, r)]
  /\ row' # row
  /\ UNCHANGED <<body, route, shown, mode, check, checkRequest, pending, flights, passed>>

-----------------------------------------------------------------------------
(* The buttons *)

(* The wallet is asked, then access is checked, then the store called. *)
Sign(r) ==
  /\ shown # Null /\ pending = Null /\ Room
  /\ HasSignatureAccess
  /\ flights' = flights \cup {[does |-> "sign", record |-> r]}
  /\ UNCHANGED <<body, row, route, shown, mode, check, checkRequest, pending, passed>>

WalletSigned(f, signed) ==
  /\ f \in flights /\ f.does = "sign"
  /\ flights' = (flights \ {f}) \cup
       (IF signed /\ HasSignatureAccess
          THEN {[g EXCEPT !.record = f.record] : g \in Calling(<<"sign", "activity">>, shown)}
          ELSE {})
  /\ UNCHANGED <<body, row, route, shown, mode, check, checkRequest, pending, passed>>

Payload == BuildRelayRequest(mode, body, shown.records)
CanRelay == CanRelayBroadcast(mode, body, shown.records, check, checkRequest)

SetRelayPayloadMode(m) ==
  /\ mode' = m /\ m # mode
  /\ UNCHANGED <<body, row, route, shown, check, checkRequest, pending, flights, passed>>

CheckRelay ==
  /\ shown # Null /\ pending = Null /\ Room
  /\ HasOperatorAccess
  /\ RelayPayloadOptions(body, shown.records) # {}
  /\ pending' = "relay-check"
  /\ IF Payload = Refused
       THEN /\ check' = "blocked"
            /\ flights' = flights \cup Calling(<<"preflight", "receipt">>, shown)
            /\ UNCHANGED checkRequest
       ELSE /\ checkRequest' = Payload
            /\ flights' = flights \cup {[does |-> "check", request |-> Payload]}
            /\ UNCHANGED check
  /\ UNCHANGED <<body, row, route, shown, mode, passed>>

CheckAnswered(f, verdict) ==
  /\ f \in flights /\ f.does = "check"
  /\ check' = verdict
  /\ passed' = IF verdict = "ok" THEN f.request ELSE Null
  /\ flights' = (flights \ {f}) \cup
       Calling(IF verdict = "failed" THEN <<"preflight", "receipt">>
               ELSE <<"preflight", "activity", "receipt">>, shown)
  /\ UNCHANGED <<body, row, route, shown, mode, checkRequest, pending>>

Submit(action, request) ==
  /\ flights' = flights \cup {[does |-> "submit", request |-> request]}
  /\ pending' = action
  /\ UNCHANGED <<body, row, route, shown, mode, check, checkRequest, passed>>

SubmitViaRelay ==
  /\ shown # Null /\ pending = Null /\ Room
  /\ HasOperatorAccess /\ CanRelay
  /\ Submit("relay-submit", Payload)

BroadcastWithNeoWallet ==
  /\ shown # Null /\ pending = Null /\ Room
  /\ HasOperatorAccess
  /\ Submit("client-broadcast", ClientInvocation(body, shown.records))

SubmissionEnds(f, sent) ==
  /\ f \in flights /\ f.does = "submit"
  /\ sent => f.request # Refused
  /\ flights' = (flights \ {f}) \cup
       Calling(IF sent THEN <<"status", "activity", "receipt">> ELSE <<"receipt">>, shown)
  /\ pending' = IF sent THEN pending ELSE Null
  /\ UNCHANGED <<body, row, route, shown, mode, check, checkRequest, passed>>

(* The address bar keeps the link the page was opened with, so a page that  *)
(* rotates its own link is left to read.                                    *)
RotateLink(call) ==
  /\ shown # Null /\ pending = Null /\ Room
  /\ HasOperatorAccess
  /\ row.operator + row.collaborator < MaxRotations
  /\ flights' = flights \cup Calling(<<call, "activity">>, shown)
  /\ UNCHANGED <<body, row, route, shown, mode, check, checkRequest, pending, passed>>

-----------------------------------------------------------------------------
Next ==
  \/ LoadDraft
  \/ \E f \in flights : StoreApplies(f) \/ StoreAnswered(f) \/ StoreFailed(f)
  \/ \E r \in Record : SignedElsewhere(r) \/ Sign(r)
  \/ \E f \in flights, signed \in BOOLEAN : WalletSigned(f, signed)
  \/ \E m \in {"best", "raw", "meta"} : SetRelayPayloadMode(m)
  \/ CheckRelay
  \/ \E f \in flights, v \in {"ok", "blocked", "failed"} : CheckAnswered(f, v)
  \/ SubmitViaRelay \/ BroadcastWithNeoWallet
  \/ \E f \in flights, sent \in BOOLEAN : SubmissionEnds(f, sent)
  \/ \E call \in {"rotateOperator", "rotateCollaborator"} : RotateLink(call)

Spec == Init /\ [][Next]_vars

-----------------------------------------------------------------------------
(* What is submitted through the relay is the payload that the relay passed *)
(* last, although drafts answered by other calls, signatures of others and  *)
(* the payload mode may change it at any moment.                            *)
RelayedWasPassed == [][SubmitViaRelay => Payload = passed]_vars

(* The page never has two submissions or checks under way. *)
OneSubmission ==
  LET busy == {f \in flights : \/ f.does \in {"check", "submit"}
                               \/ f.does = "call" /\ Head(f.calls) \in {"preflight", "status"}}
  IN  Cardinality(busy) <= 1
================================================================================
