---------------------------- MODULE NativeWorkspace ----------------------------
(***************************************************************************)
(* The workspace of native accounts: a node is discovered, an action is    *)
(* reviewed against the account's state on chain, and the review is sent   *)
(* by the wallet or, signed elsewhere, imported and broadcast              *)
(* (features/native/nativeWorkspace.js, shared/nativeTransactionArtifact,  *)
(* shared/nativeSmartAccountClient, NativeAccountWorkspace.vue).           *)
(*                                                                         *)
(* Calls of the workspace await the node and the wallet; meanwhile other   *)
(* calls run, the user edits the form, wallets switch and blocks arrive.   *)
(* The code's version counters only serve to tell whether anything newer   *)
(* began: a call or an import that was outrun is marked stale instead.     *)
(* The page runs one call at a time; the workspace does not rely on it.    *)
(* What a plan depends on (authorities, epoch, nonces, pending intents) is *)
(* one version of the account; it determines the script and hence the     *)
(* bytes that are signed.                                                  *)
(***************************************************************************)
EXTENDS Integers, FiniteSets

CONSTANTS
  Null,
  Actor,         \* wallet accounts
  MaxConnects,   \* bound on the connections made
  MaxReviews,    \* bound on the reviews begun
  MaxImports,    \* bound on the imports begun
  MaxChanges,    \* bound on changes of the account on chain
  MaxCalls       \* bound on the calls awaiting at once

VARIABLES
  chain,         \* the account's version on chain
  wallet,        \* the account the wallet has selected
  client,        \* the connection in use, or Null
  connects,      \* connections made
  active,        \* the review on screen, or Null
  imported,      \* the imported transaction, or Null
  used,          \* reviews sent (meta.used)
  attempted,     \* imports broadcast (meta.attempted)
  submitting,
  entries,       \* submissions retained per client and transaction
  calls,         \* calls that await
  made,          \* reviews and imports begun, to name them
  sent           \* history: transactions handed to a node, per client

vars == <<chain, wallet, client, connects, active, imported, used, attempted,
          submitting, entries, calls, made, sent>>
user == <<chain, wallet, connects>>
done == <<used, attempted, entries, sent>>

Init ==
  /\ chain = 0 /\ wallet \in Actor
  /\ client = Null /\ connects = 0
  /\ active = Null /\ imported = Null
  /\ used = {} /\ attempted = {} /\ submitting = FALSE /\ entries = {}
  /\ calls = {} /\ made = [reviews |-> 0, imports |-> 0] /\ sent = {}

Flying(does) == {f \in calls : f.does = does}
Enter(cs, f) == Cardinality(cs) < MaxCalls /\ calls' = cs \cup {f}
Move(f, at) == calls' = (calls \ {f}) \cup {[f EXCEPT !.at = at]}
Outrun(kinds, cs) == {IF f.does \in kinds THEN [f EXCEPT !.fresh = FALSE] ELSE f : f \in cs}

(* clearImported: an import on its way is stale, too. *)
ClearImported == imported' = Null

(* The node, the input fields and the wallet events drop what they gave. *)
Dropped == /\ client' = Null /\ active' = Null

-----------------------------------------------------------------------------
(* What others do *)

ChainMoves ==
  /\ chain < MaxChanges
  /\ chain' = chain + 1
  /\ UNCHANGED <<wallet, client, connects, active, imported, done, submitting, calls, made>>

(* An event of the wallet tells the page, later, that its account changed. *)
WalletSwitches(a) ==
  /\ a # wallet
  /\ wallet' = a
  /\ UNCHANGED <<chain, client, connects, active, imported, done, submitting, calls, made>>

(* watch: an edit of the form, the account, the payer or the tab; load and  *)
(* inspectPolicy begin by doing the same.                                   *)
ClearReview ==
  /\ active' = Null
  /\ ClearImported
  /\ calls' = Outrun({"review", "import"}, calls)
  /\ <<active, imported, calls>>' # <<active, imported, calls>>
  /\ UNCHANGED <<user, client, done, submitting, made>>

(* watch(feeLimits): only the import was made for them. *)
ClearSignedTransaction ==
  /\ ClearImported
  /\ calls' = Outrun({"import"}, calls)
  /\ <<imported, calls>>' # <<imported, calls>>
  /\ UNCHANGED <<user, client, active, done, submitting, made>>

(* walletChanged, an edit of the endpoint, leaving the page. *)
Invalidate ==
  /\ client # Null \/ Flying("connect") # {}
  /\ Dropped
  /\ ClearImported
  /\ calls' = Outrun({"connect", "review", "import"}, calls)
  /\ UNCHANGED <<user, done, submitting, made>>

-----------------------------------------------------------------------------
(* Discovery *)

Connect ==
  /\ connects < MaxConnects
  /\ connects' = connects + 1
  /\ Dropped
  /\ ClearImported
  /\ Enter(Outrun({"connect", "review", "import"}, calls),
           [does |-> "connect", id |-> connects + 1, fresh |-> TRUE])
  /\ UNCHANGED <<chain, wallet, done, submitting, made>>

Discovered(f, ok) ==
  /\ f \in Flying("connect")
  /\ calls' = calls \ {f}
  /\ client' = IF ok /\ f.fresh THEN f.id ELSE client
  /\ UNCHANGED <<user, active, imported, done, submitting, made>>

(* Every call discovers the node again before it trusts it; a node that is  *)
(* no longer the one discovered takes the review away.                      *)
DiscoverFails(f) ==
  /\ f \in calls \ Flying("connect") /\ f.at \in {"plan", "revalidate", "recheck", "bind"}
  /\ IF f.client = client
       THEN Dropped /\ calls' = Outrun({"review", "import"}, calls \ {f})
       ELSE calls' = calls \ {f} /\ UNCHANGED <<client, active>>
  /\ submitting' = IF f.does \in {"submit", "broadcast"} THEN FALSE ELSE submitting
  /\ UNCHANGED <<user, imported, done, made>>

-----------------------------------------------------------------------------
(* Reviews: registration, lifecycle, policy, activatePolicy, operation *)

Begin_KeepsImport(path, payer) ==
  /\ client # Null /\ made.reviews < MaxReviews
  /\ made' = [made EXCEPT !.reviews = @ + 1]
  /\ active' = Null
  /\ Enter(Outrun({"review", "import"}, calls),
           [does |-> "review", at |-> "plan", client |-> client, fresh |-> TRUE,
            review |-> [id |-> made.reviews + 1, path |-> path, payer |-> payer, plan |-> Null]])
  /\ UNCHANGED <<imported, user, client, done, submitting>>
Begin(path, payer) ==
  /\ client # Null /\ made.reviews < MaxReviews
  /\ made' = [made EXCEPT !.reviews = @ + 1]
  /\ active' = Null
  /\ ClearImported
  /\ Enter(Outrun({"review", "import"}, calls),
           [does |-> "review", at |-> "plan", client |-> client, fresh |-> TRUE,
            review |-> [id |-> made.reviews + 1, path |-> path, payer |-> payer, plan |-> Null]])
  /\ UNCHANGED <<user, client, done, submitting>>

BuildPlan(f) ==
  /\ f \in Flying("review") /\ f.at = "plan"
  /\ calls' = IF f.fresh
       THEN (calls \ {f}) \cup {[f EXCEPT !.at = "simulate", !.review.plan = chain]}
       ELSE calls \ {f}
  /\ UNCHANGED <<user, client, active, imported, done, submitting, made>>

ReviewPlan(f) ==
  /\ f \in Flying("review") /\ f.at = "simulate"
  /\ calls' = calls \ {f}
  /\ active' = IF f.fresh THEN f.review ELSE active
  /\ UNCHANGED <<user, client, imported, done, submitting, made>>

-----------------------------------------------------------------------------
(* Sending by the wallet *)

Submit ==
  /\ active # Null /\ active.path = "wallet" /\ active.id \notin used
  /\ ~submitting
  /\ submitting' = TRUE
  /\ Enter(calls, [does |-> "submit", at |-> "revalidate", client |-> client,
                   review |-> active])
  /\ UNCHANGED <<user, client, active, imported, done, made>>

NextCheck == [revalidate |-> "account", account |-> "recheck", recheck |-> "again",
              again |-> "network", network |-> "invoke"]

(* Each check awaits the node or the wallet, and looks at the screen after. *)
SubmitChecks_AnyReview(f) ==
  /\ f \in Flying("submit") /\ f.at \in DOMAIN NextCheck
  /\ IF /\ f.at \in {"revalidate", "recheck"} => chain = f.review.plan
        /\ f.at \in {"account", "again"} => wallet = f.review.payer
       THEN Move(f, NextCheck[f.at]) /\ UNCHANGED submitting
       ELSE calls' = calls \ {f} /\ submitting' = FALSE
  /\ UNCHANGED <<user, client, active, imported, done, made>>
SubmitChecks(f) ==
  /\ f \in Flying("submit") /\ f.at \in DOMAIN NextCheck
  /\ IF /\ active = f.review
        /\ f.at \in {"revalidate", "recheck"} => chain = f.review.plan
        /\ f.at \in {"account", "again"} => wallet = f.review.payer
       THEN Move(f, NextCheck[f.at]) /\ UNCHANGED submitting
       ELSE calls' = calls \ {f} /\ submitting' = FALSE
  /\ UNCHANGED <<user, client, active, imported, done, made>>

(* The request is out when the last check has passed; the wallet's answer   *)
(* marks the review used, its refusal does not.                             *)
WalletAnswers(f, accepted) ==
  /\ f \in Flying("submit") /\ f.at = "invoke"
  /\ calls' = calls \ {f}
  /\ submitting' = FALSE
  /\ used' = IF accepted THEN used \cup {f.review.id} ELSE used
  /\ UNCHANGED <<user, client, active, imported, attempted, entries, sent, made>>

-----------------------------------------------------------------------------
(* Sending what was signed elsewhere *)

ImportSigned ==
  /\ active # Null /\ active.path = "sdk" /\ active.id \notin used
  /\ made.imports < MaxImports
  /\ made' = [made EXCEPT !.imports = @ + 1]
  /\ ClearImported
  /\ Enter(Outrun({"import"}, calls),
           [does |-> "import", at |-> "revalidate", client |-> client, fresh |-> TRUE,
            review |-> active, id |-> made.imports + 1])
  /\ UNCHANGED <<user, client, active, done, submitting>>

ImportChecks(f) ==
  /\ f \in Flying("import") /\ f.at = "revalidate"
  /\ IF active = f.review /\ f.fresh /\ chain = f.review.plan
       THEN Move(f, "bind") ELSE calls' = calls \ {f}
  /\ UNCHANGED <<user, client, active, imported, done, submitting, made>>

(* importArtifact revalidates the plan again. *)
ImportArtifact(f) ==
  /\ f \in Flying("import") /\ f.at = "bind"
  /\ calls' = calls \ {f}
  /\ imported' =
       IF active = f.review /\ f.fresh /\ chain = f.review.plan
         THEN [id |-> f.id, review |-> f.review, tx |-> f.review.plan]
         ELSE imported
  /\ UNCHANGED <<user, client, active, done, submitting, made>>

Current(f) == imported = f.import /\ active = f.import.review

BroadcastSigned ==
  /\ imported # Null /\ active = imported.review /\ imported.id \notin attempted
  /\ ~submitting
  /\ submitting' = TRUE
  /\ Enter(calls, [does |-> "broadcast", at |-> "revalidate", client |-> client,
                   import |-> imported])
  /\ UNCHANGED <<user, client, active, imported, done, made>>

Key(f) == [client |-> f.client, tx |-> f.import.tx]
EntryOf(f) == {e \in entries : e.key = Key(f)}

(* A transaction this client submits already is not submitted again: its    *)
(* outcome is shared, also when it is an error.                             *)
StartBroadcast(f) ==
  /\ f \in Flying("broadcast") /\ f.at = "revalidate"
  /\ IF ~Current(f) \/ chain # f.import.tx
       THEN calls' = calls \ {f} /\ submitting' = FALSE /\ UNCHANGED entries
       ELSE /\ Move(f, IF EntryOf(f) = {} THEN "preflight" ELSE "outcome")
            /\ entries' = entries \cup
                 (IF EntryOf(f) = {} THEN {[key |-> Key(f), outcome |-> Null]} ELSE {})
            /\ UNCHANGED submitting
  /\ UNCHANGED <<user, client, active, imported, used, attempted, sent, made>>

(* An error before the transaction is sent is forgotten. *)
PreflightFails(f) ==
  /\ f \in Flying("broadcast") /\ f.at = "preflight"
  /\ entries' = entries \ EntryOf(f)
  /\ calls' = calls \ {f}
  /\ submitting' = FALSE
  /\ UNCHANGED <<user, client, active, imported, used, attempted, sent, made>>

SendRawTransaction(f) ==
  /\ f \in Flying("broadcast") /\ f.at = "preflight"
  /\ Current(f) /\ client = f.client
  /\ sent' = sent \cup {Key(f)}
  /\ Move(f, "sending")
  /\ UNCHANGED <<user, client, active, imported, used, attempted, entries, submitting, made>>

SendAnswered_ForgetsUnknown(f, outcome) ==
  /\ f \in Flying("broadcast") /\ f.at = "sending"
  /\ entries' = IF outcome = "unknown" THEN entries \ EntryOf(f)
     ELSE (entries \ EntryOf(f)) \cup {[key |-> Key(f), outcome |-> outcome]}
  /\ Move(f, "outcome")
  /\ UNCHANGED <<user, client, active, imported, used, attempted, submitting, sent, made>>
SendAnswered(f, outcome) ==
  /\ f \in Flying("broadcast") /\ f.at = "sending"
  /\ entries' = (entries \ EntryOf(f)) \cup {[key |-> Key(f), outcome |-> outcome]}
  /\ Move(f, "outcome")
  /\ UNCHANGED <<user, client, active, imported, used, attempted, submitting, sent, made>>

BroadcastEnds(f) ==
  /\ f \in Flying("broadcast") /\ f.at = "outcome"
  /\ \A e \in EntryOf(f) : e.outcome # Null
  /\ attempted' = attempted \cup {f.import.id}
  /\ used' = used \cup {f.import.review.id}
  /\ submitting' = FALSE
  /\ calls' = calls \ {f}
  /\ UNCHANGED <<user, client, active, imported, entries, sent, made>>

-----------------------------------------------------------------------------
Outside ==
  \/ ChainMoves \/ ClearReview \/ ClearSignedTransaction \/ Invalidate
  \/ \E a \in Actor : WalletSwitches(a)

Discovery ==
  \/ Connect
  \/ \E f \in calls, ok \in BOOLEAN : Discovered(f, ok)
  \/ \E f \in calls : DiscoverFails(f)

Reviewing ==
  \/ \E path \in {"wallet", "sdk"}, payer \in Actor : Begin(path, payer)
  \/ \E f \in calls : BuildPlan(f) \/ ReviewPlan(f)

Sending ==
  \/ Submit \/ ImportSigned \/ BroadcastSigned
  \/ \E f \in calls : SubmitChecks(f) \/ ImportChecks(f) \/ ImportArtifact(f)
  \/ \E f \in calls, accepted \in BOOLEAN : WalletAnswers(f, accepted)
  \/ \E f \in calls : StartBroadcast(f) \/ PreflightFails(f)
       \/ SendRawTransaction(f) \/ BroadcastEnds(f)
  \/ \E f \in calls, outcome \in {"accepted", "unknown"} : SendAnswered(f, outcome)

Next == Outside \/ Discovery \/ Reviewing \/ Sending

Spec == Init /\ [][Next]_vars

-----------------------------------------------------------------------------
Requested(f) == f.does = "submit" /\ f.at = "network" /\ [f EXCEPT !.at = "invoke"] \in calls'

(* What the wallet is asked to send, or the node given, is the review on    *)
(* the screen at that moment, whatever the form, the wallet, the node or    *)
(* other calls did while the checks were awaited.                           *)
NothingStaleIsSent ==
  [][\A f \in calls :
       /\ Requested(f) => active = f.review
       /\ SendRawTransaction(f) => active = f.import.review /\ client = f.client]_vars

(* A client gives a signed transaction to the node once, however often it   *)
(* is imported and broadcast, and even if the first outcome is unknown; a   *)
(* review the wallet has sent is not given to it again.                     *)
SentOnce ==
  [][\A f \in calls :
       /\ SendRawTransaction(f) => Key(f) \notin sent
       /\ Requested(f) => f.review.id \notin used]_vars

(* One transaction at a time is on its way, and what is retained about one  *)
(* that was never sent is dropped: a failed preflight can be tried again.   *)
SubmissionsSettle ==
  /\ Cardinality(Flying("submit") \cup Flying("broadcast")) = (IF submitting THEN 1 ELSE 0)
  /\ \A e \in entries : e.key \notin sent => \E f \in Flying("broadcast") : Key(f) = e.key

(* The imported transaction is the one of the review on the screen. *)
ImportOfReview == imported # Null /\ active # Null => imported.review = active
================================================================================
