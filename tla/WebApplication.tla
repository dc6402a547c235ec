----------------------------- MODULE WebApplication -----------------------------
(***************************************************************************)
(* The web application: a browser tab shows one page, and each page keeps  *)
(* its own state until the tab leaves it (router, views, features).        *)
(***************************************************************************)
EXTENDS Integers, Sequences, FiniteSets

CONSTANTS
  Null, Refused,
  Page,                                             \* the pages a tab opens
  ProxyOps, RelayRawEnabled, RelayMetaEnabled, WalletAttachesProxy,
  Account, Contract, Signer, Collaborator, MaxProofs, MaxFlights,
  Method, Name, NamedBy, MethodsOf, Literal, Searched, MaxLookups,
  Body, Record, MaxRotations,
  Actor, MaxConnects, MaxReviews, MaxImports, MaxChanges, MaxCalls

VARIABLES
  page,
  body, row, check, checkRequest, pending, flights,
  account, opBody, records, draft, paymaster, confirmation, drafts, proofs,
  target, resolved, methods, method, suggestions, timer, lookups,
  route, shown, mode, passed,
  chain, wallet, client, connects, active, imported, used, attempted,
  submitting, entries, calls, made, sent

Home   == INSTANCE OperationsWorkspace
Picker == INSTANCE ContractPicker WITH Nothing <- Null
Shared == INSTANCE SharedDraftPage
Native == INSTANCE NativeWorkspace

drafting  == <<body, row, check, checkRequest, pending, flights>>
composing == <<account, opBody, records, draft, paymaster, confirmation, drafts, proofs>>
picking   == <<target, resolved, methods, method, suggestions, timer, lookups>>
sharing   == <<route, shown, mode, passed>>
native    == <<chain, wallet, client, connects, active, imported, used, attempted,
               submitting, entries, calls, made, sent>>
vars == <<page, drafting, composing, picking, sharing, native>>

(* A tab opens one page; the state of the others is that of a page unopened.*)
Init ==
  /\ page \in Page
  /\ Picker!Init /\ Native!Init
  /\ page # "native" => wallet = CHOOSE a \in Actor : TRUE
  /\ IF page = "shared"
       THEN /\ Shared!Init
            /\ account = Null /\ opBody = Null /\ records = {} /\ draft = FALSE
            /\ paymaster = FALSE /\ confirmation = Null /\ drafts = 0 /\ proofs = 0
       ELSE /\ Home!Init
            /\ route = Null /\ shown = Null /\ mode = Null /\ passed = Null

OpenHome   == page = "home" /\ Home!Next /\ UNCHANGED <<page, picking, sharing, native>>
OpenPicker == page = "picker" /\ Picker!Next
                /\ UNCHANGED <<page, drafting, composing, sharing, native>>
OpenShared == page = "shared" /\ Shared!Next
                /\ UNCHANGED <<page, composing, picking, native>>
OpenNative == page = "native" /\ Native!Next
                /\ UNCHANGED <<page, drafting, composing, picking, sharing>>

Next == OpenHome \/ OpenPicker \/ OpenShared \/ OpenNative

Spec == Init /\ [][Next]_vars

-----------------------------------------------------------------------------
(* Pages come to rest: the target field with the contract that it names     *)
(* (ContractPicker), a native submission with what the wallet still has to  *)
(* retain, and an import with a review of its own (NativeWorkspace).        *)
PagesSettle == Picker!SettledLookup /\ Native!SubmissionsSettle /\ Native!ImportOfReview

(* A workspace makes one draft, keeps to its stored body, and submits the   *)
(* operation of that body only (OperationsWorkspace).                       *)
HomeKeepsDraft == [](Home!OneDraft /\ Home!BodyFrozen) /\ Home!SubmittedIsShared

(* The page of a shared draft does one thing at a time, and has the relay   *)
(* send the payload that the relay passed last (SharedDraftPage).           *)
SharedRelaysWhatPassed ==
  [](page = "shared" => Shared!OneSubmission) /\ Shared!RelayedWasPassed

(* The workspace of native accounts sends what is on the screen, once, and  *)
(* retains what it must to know what it has sent (NativeWorkspace).         *)
NativeSendsWhatIsShown == Native!NothingStaleIsSent
NativeSendsOnce == Native!SentOnce
=============================================================================
