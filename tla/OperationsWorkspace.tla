------------------------- MODULE OperationsWorkspace -------------------------
(***************************************************************************)
(* The home page of the web application: an account is loaded, a contract  *)
(* looked up, an operation staged, signed, frozen in a shared draft,       *)
(* checked with the relay and submitted                                    *)
(* (features/operations/components/HomeOperationsWorkspace.vue).           *)
(*                                                                         *)
(* A handler is split where it awaits: what is left of it is an element    *)
(* of flights, and its answer may come after other handlers have run.      *)
(* Activity entries and receipts only feed lists and are left out; the     *)
(* calls that store them show as the step that ends a relay check.         *)
(***************************************************************************)
EXTENDS SignedInvocation

CONSTANTS
  Account,        \* account ids a user loads
  Contract,       \* contracts a lookup finds; calling one is an operation
  Signer,         \* wallets and provers that sign here
  Collaborator,   \* signers that sign the shared draft elsewhere
  MaxProofs,      \* bound on the proofs made here
  MaxFlights      \* bound on the handlers waiting at once

VARIABLES
  account, opBody, body, records,         \* the workspace
  draft,                                  \* share.draftId is set
  paymaster,                              \* paymasterEnabled
  check, checkRequest,                    \* relayCheck.ok, relayCheckRequest
  pending, confirmation,                  \* the button guard, the dialog
  flights,                                \* handlers that await
  row,                                    \* the stored draft
  drafts, proofs                          \* how many were made

workspace == <<account, opBody, body, records, draft>>
gate      == <<check, checkRequest, pending>>
vars == <<account, opBody, body, records,
          draft, paymaster, check, checkRequest, pending, confirmation,
          flights, row, drafts, proofs>>

Operation == Contract \cup ProxyOps

Init ==
  /\ account = Null /\ opBody = Null /\ body = Null /\ records = {} /\ draft = FALSE
  /\ paymaster = FALSE
  /\ check = "idle" /\ checkRequest = Null
  /\ pending = Null /\ confirmation = Null
  /\ flights = {} /\ row = Null /\ drafts = 0 /\ proofs = 0

(* A handler reaches its first await. *)
Await(f) ==
  /\ Cardinality(flights) < MaxFlights
  /\ flights' = flights \cup {f}

Flying(does) == {f \in flights : f.does = does}

-----------------------------------------------------------------------------
(* The workspace *)

LoadAccount(a) ==
  /\ confirmation = Null
  /\ Await([does |-> "load", account |-> a])
  /\ UNCHANGED <<workspace, paymaster, gate, confirmation, row,
                 drafts, proofs>>

AccountLoaded(f, exists) ==
  /\ f \in Flying("load")
  /\ flights' = flights \ {f}
  /\ account' = IF exists THEN f.account ELSE account
  /\ UNCHANGED <<opBody, body, records, draft, paymaster, gate,
                 confirmation, row, drafts, proofs>>

(* setOperationBody takes any operation; setTransactionBody throws once the *)
(* draft is persisted.                                                      *)
SetTransactionBody(b) == body' = IF draft THEN body ELSE b

(* A transfer out of the account is staged in relay mode only, which the    *)
(* user may choose at any time.  The raw transaction field stays empty.     *)
StageOperation(op) ==
  /\ account # Null /\ confirmation = Null
  /\ opBody' = op
  /\ SetTransactionBody(StagedBody(account, op, FALSE, paymaster))
  /\ UNCHANGED <<account, records, draft, paymaster, gate,
                 confirmation, flights, row, drafts, proofs>>

SetPaymasterEnabled ==
  /\ body # Null /\ confirmation = Null
  /\ paymaster' = ~paymaster
  /\ SetTransactionBody([body EXCEPT !.paymaster = ~paymaster])
  /\ UNCHANGED <<account, opBody, records, draft, gate, confirmation,
                 flights, row, drafts, proofs>>

HydrateDraft(record) ==
  /\ account' = record.account
  /\ opBody' = record.op
  /\ body' = record.body
  /\ records' = record.records
  /\ draft' = TRUE
  /\ paymaster' = record.body.paymaster

PersistDraft_Again ==
  /\ body # Null /\ ~draft
  /\ Await([does |-> "persist", answer |-> Null,
            record |-> [account |-> account, op |-> opBody, body |-> body,
                        records |-> records], check |-> check])
  /\ UNCHANGED <<workspace, paymaster, gate, confirmation, row,
                 drafts, proofs>>
PersistDraft ==
  /\ Flying("persist") = {}
  /\ body # Null /\ ~draft
  /\ Await([does |-> "persist", answer |-> Null,
            record |-> [account |-> account, op |-> opBody, body |-> body,
                        records |-> records], check |-> check])
  /\ UNCHANGED <<workspace, paymaster, gate, confirmation, row,
                 drafts, proofs>>

CreateDraft(f) ==
  /\ f \in Flying("persist") /\ f.answer = Null
  /\ row' = f.record
  /\ drafts' = drafts + 1
  /\ flights' = (flights \ {f}) \cup {[f EXCEPT !.answer = f.record]}
  /\ UNCHANGED <<workspace, paymaster, gate, confirmation, proofs>>

(* The relay check stored with the draft comes back with it. *)
DraftPersisted(f) ==
  /\ f \in Flying("persist") /\ f.answer # Null
  /\ flights' = flights \ {f}
  /\ HydrateDraft(f.answer)
  /\ check' = IF f.check = "idle" THEN check ELSE f.check
  /\ UNCHANGED <<checkRequest, pending, confirmation, row, drafts, proofs>>

PersistFailed(f) ==
  /\ f \in Flying("persist") /\ f.answer = Null
  /\ flights' = flights \ {f}
  /\ UNCHANGED <<workspace, paymaster, gate, confirmation, row,
                 drafts, proofs>>

-----------------------------------------------------------------------------
(* Signatures *)

Signing(s) == \E f \in Flying("sign") \cup Flying("append") : f.signer = s

(* signWithEvmWallet and signWithZkLogin: the wallet or the prover is asked *)
(* with the account and the operation of the moment.                        *)
Sign(s) ==
  /\ body # Null /\ pending = Null /\ confirmation = Null /\ ~Signing(s)
  /\ proofs < MaxProofs /\ account # Null
  /\ Await([does |-> "sign", signer |-> s,
            invocation |-> Invocation(account, opBody, proofs + 1)])
  /\ proofs' = proofs + 1
  /\ UNCHANGED <<workspace, paymaster, gate, confirmation, row, drafts>>

SignRejected(f) ==
  /\ f \in Flying("sign")
  /\ flights' = flights \ {f}
  /\ UNCHANGED <<workspace, paymaster, gate, confirmation, row,
                 drafts, proofs>>

(* An unpersisted body takes the signed invocation as its anchor. *)
Signed(f) ==
  LET r == [signer |-> f.signer, invocation |-> f.invocation, sound |-> TRUE]
  IN  /\ f \in Flying("sign")
      /\ SetTransactionBody([body EXCEPT !.anchor = f.invocation, !.paymaster = paymaster])
      /\ IF draft
           THEN /\ flights' = (flights \ {f})
                     \cup {[does |-> "append", signer |-> f.signer, record |-> r,
                            answer |-> Null]}
                /\ UNCHANGED records
           ELSE /\ flights' = flights \ {f}
                /\ records' = AppendSignature(records, r)
      /\ UNCHANGED <<account, opBody, draft, paymaster, gate,
                     confirmation, row, drafts, proofs>>

StoreSignature(r) == row' = [row EXCEPT !.records = AppendSignature(row.records, r)]

AppendStored(f) ==
  /\ f \in Flying("append") /\ f.answer = Null
  /\ StoreSignature(f.record)
  /\ flights' = (flights \ {f}) \cup {[f EXCEPT !.answer = row'.records]}
  /\ UNCHANGED <<workspace, paymaster, gate, confirmation, drafts, proofs>>

AppendAnswered(f) ==
  /\ f \in Flying("append")
  /\ flights' = flights \ {f}
  /\ records' = IF f.answer = Null THEN records ELSE f.answer
  /\ UNCHANGED <<account, opBody, body, draft, paymaster, gate,
                 confirmation, row, drafts, proofs>>

CollaboratorSigns(c) ==
  /\ row # Null
  /\ \A r \in row.records : r.signer # c
  /\ StoreSignature([signer |-> c, invocation |-> Null, sound |-> TRUE])
  /\ UNCHANGED <<workspace, paymaster, gate, confirmation, flights,
                 drafts, proofs>>

-----------------------------------------------------------------------------
(* The relay gate and the submissions *)

CanRelay == CanRelayBroadcast("best", body, records, check, checkRequest)

CheckRelay ==
  /\ pending = Null /\ confirmation = Null
  /\ RelayPayloadOptions(body, records) # {}
  /\ Await([does |-> "check", verdict |-> Null,
            request |-> BuildRelayRequest("best", body, records)])
  /\ pending' = "relay-check"
  /\ checkRequest' = BuildRelayRequest("best", body, records)
  /\ UNCHANGED <<workspace, paymaster, check, confirmation,
                 row, drafts, proofs>>

CheckAnswered(f, verdict) ==
  /\ f \in Flying("check") /\ f.verdict = Null
  /\ check' = verdict
  /\ flights' = (flights \ {f}) \cup {[f EXCEPT !.verdict = verdict]}
  /\ UNCHANGED <<workspace, paymaster, checkRequest, pending,
                 confirmation, row, drafts, proofs>>

(* setSubmissionResult clears the flag of whichever action set it last. *)
CheckRecorded(f) ==
  /\ f \in Flying("check") /\ f.verdict # Null
  /\ flights' = flights \ {f}
  /\ pending' = Null
  /\ UNCHANGED <<workspace, paymaster, check, checkRequest,
                 confirmation, row, drafts, proofs>>

(* The buttons respect the flag; the keyboard shortcut does not. *)
RequestConfirmation(action) ==
  /\ confirmation = Null
  /\ \/ action = "relay" /\ CanRelay
     \/ action = "broadcast" /\ body # Null /\ (pending = Null \/ ~CanRelay)
     \/ action = "rotate" /\ draft /\ pending = Null
  /\ confirmation' = action
  /\ UNCHANGED <<workspace, paymaster, gate, flights, row, drafts, proofs>>

CancelConfirmation ==
  /\ confirmation # Null
  /\ confirmation' = Null
  /\ UNCHANGED <<workspace, paymaster, gate, flights, row, drafts, proofs>>

SubmitViaRelay ==
  /\ confirmation = "relay"
  /\ confirmation' = Null
  /\ IF CanRelay
       THEN /\ Await([does |-> "submit",
                      request |-> BuildRelayRequest("best", body, records)])
            /\ pending' = "relay-submit"
       ELSE /\ pending' = Null
            /\ UNCHANGED flights
  /\ UNCHANGED <<workspace, paymaster, check, checkRequest,
                 row, drafts, proofs>>

BroadcastWithNeoWallet ==
  /\ confirmation = "broadcast"
  /\ confirmation' = Null
  /\ IF ClientInvocation(body, records) # Refused
       THEN /\ Await([does |-> "submit", request |-> ClientInvocation(body, records)])
            /\ pending' = "client-broadcast"
       ELSE /\ pending' = Null
            /\ UNCHANGED flights
  /\ UNCHANGED <<workspace, paymaster, check, checkRequest,
                 row, drafts, proofs>>

SubmissionEnds(f) ==
  /\ f \in Flying("submit")
  /\ flights' = flights \ {f}
  /\ pending' = Null
  /\ UNCHANGED <<workspace, paymaster, check, checkRequest,
                 confirmation, row, drafts, proofs>>

RotateLink ==
  /\ confirmation = "rotate"
  /\ confirmation' = Null
  /\ Await([does |-> "rotate", answer |-> Null])
  /\ UNCHANGED <<workspace, paymaster, gate, row, drafts, proofs>>

LinkRotated(f) ==
  /\ f \in Flying("rotate")
  /\ IF f.answer = Null
       THEN /\ flights' = (flights \ {f}) \cup {[f EXCEPT !.answer = row]}
            /\ UNCHANGED <<workspace, paymaster>>
       ELSE /\ flights' = flights \ {f}
            /\ HydrateDraft(f.answer)
  /\ UNCHANGED <<gate, confirmation, row, drafts, proofs>>

RotationFailed(f) ==
  /\ f \in Flying("rotate")
  /\ flights' = flights \ {f}
  /\ UNCHANGED <<workspace, paymaster, gate, confirmation, row,
                 drafts, proofs>>

-----------------------------------------------------------------------------
Composing ==
  \/ \E a \in Account : LoadAccount(a)
  \/ \E f \in flights, exists \in BOOLEAN : AccountLoaded(f, exists)
  \/ \E op \in Operation : StageOperation(op)
  \/ SetPaymasterEnabled
  \/ PersistDraft
  \/ \E f \in flights : CreateDraft(f) \/ DraftPersisted(f) \/ PersistFailed(f)

Approving ==
  \/ \E s \in Signer : Sign(s)
  \/ \E f \in flights : SignRejected(f) \/ Signed(f) \/ AppendStored(f) \/ AppendAnswered(f)
  \/ \E c \in Collaborator : CollaboratorSigns(c)

Submitting ==
  \/ CheckRelay
  \/ \E f \in flights, v \in {"ok", "blocked"} : CheckAnswered(f, v)
  \/ \E f \in flights : CheckRecorded(f)
  \/ \E action \in {"relay", "broadcast", "rotate"} : RequestConfirmation(action)
  \/ CancelConfirmation
  \/ SubmitViaRelay \/ BroadcastWithNeoWallet \/ RotateLink
  \/ \E f \in flights : SubmissionEnds(f) \/ LinkRotated(f) \/ RotationFailed(f)

Next == Composing \/ Approving \/ Submitting

Spec == Init /\ [][Next]_vars

-----------------------------------------------------------------------------
(* A workspace makes one draft, however often its user presses save while   *)
(* the first answer is on its way.                                          *)
OneDraft == drafts <= 1

(* Once the draft is stored and answered, the page shows and submits the    *)
(* stored body, whatever wallets and provers answer afterwards.             *)
BodyFrozen == draft => body = row.body

(* What a persisted workspace gives the relay or the wallet to send is the  *)
(* stored operation of the stored account, even when another operation was  *)
(* staged and signed on this page since.                                    *)
SubmittedIsShared ==
  [][draft =>
       /\ SubmitViaRelay /\ CanRelay
            => SameIntent(BuildRelayRequest("best", body, records).content, row.body.anchor)
       /\ BroadcastWithNeoWallet /\ ClientInvocation(body, records) # Refused
            => SameIntent(ClientInvocation(body, records), row.body.anchor)]_vars
===============================================================================
