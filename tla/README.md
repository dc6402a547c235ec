# Verification of the Neo N3 abstract-account system

TLA+ models, TLC configurations and TLAPS proofs for the contracts under
`src/contracts` (the account wallet with its plugins' lifecycle, social
recovery, the plugins that bound spending, the address market, the paymaster,
the administration of all of them), for the relay and the shared drafts under `src/frontend/api`, and for the
pages of the web application on which operations are composed, signed and sent.
Every definition is written from the C#, JavaScript, Vue and SQL sources; the
table `map` of `PROJECT.json` names the lines each one stands for. The
repository's own sketches under `src/formal` are not used.

Contents: [1 the system](#1-the-system), [2 modules](#2-modules-and-how-they-correspond-to-the-code),
[3 runs](#3-runs), [4 proofs](#4-proofs), [5 findings](#5-findings),
[6 not modelled](#6-what-is-not-modelled), [7 plan](#7-plan).

## 1. The system

### Contracts

A Neo N3 transaction runs single-threaded and atomically: a fault undoes all of
it, an exception undoes what the catching call has called. Contracts call each
other freely, so "concurrency" means three things here: transactions of
different principals in any order, contracts called in the middle of an
operation that call back, and time passing between transactions while several
timelocks run.

| Component (source) | State it keeps | Operations | Hard behaviour | What makes it correct |
|---|---|---|---|---|
| Account book (`UnifiedSmartWallet.Accounts/State/Models`) | an `AccountState` per account, staged replacements and plugin calls, metadata; in the plugins: what they hold for the account | register (one or a batch), install, stage, confirm or cancel a replacement of verifier or hook, stage and perform a plugin call | two replacement and two call timelocks maturing independently, immediate and staged paths to the same slot | changes of authority are announced; a plugin is configured only where it is installed; nothing stays staged for an empty slot |
| Escape (`UnifiedSmartWallet.Escape`) | escape start in the account, cooldown stamp | initiate, finalise; any operation the owner signs cancels | races the replacements; wipes everything staged | only the present owner's escape matures; a cancelled one stays cancelled |
| Market escrow, wallet side (`UnifiedSmartWallet.MarketEscrow`) | market and listing that hold an account, owner's cancellation timer | enter, cancel, settle; initiate and force a cancellation | the sale must hand over a clean account; the owner must never be locked in | the account is frozen while listed; nothing outlives the sale |
| Platform registrar (`UnifiedSmartWallet.PlatformRegistrar`) | registrar, platform bindings | register platform accounts, rotate their owner, replace the registrar | replaces an owner whose escrow or escape is in flight | escapes and escrows belong to the present owner |
| Operation execution (`UnifiedSmartWallet.Execution/Internal`) | nonces per channel; locks and contexts that exist only during a call | one operation or a batch, plugin callbacks | nested calls, exceptions caught anywhere, faults; foreign code with the owner's witness in the transaction | contexts are paired, no replay, no reconfiguration during a call |
| Proxy witness binding (`UnifiedSmartWallet.VerifyContext/Proxy`) | verification context and scope | decide whether a script may use the account's witness | parsing a transaction script; a context open during post-hooks | a witness serves only the operation being executed |
| Address market (`market/AAAddressMarket`) | listings, deposits, counters, GAS | list, reprice, cancel, deposit, refund, settle, abandon | the payout runs the seller's code before the settlement ends; two contracts each hold half of a listing | deposits backed and counted, the price paid, listings agree with escrows |
| Paymaster (`paymaster/Paymaster`, `UnifiedSmartWallet.Paymaster`) | deposits, policies, daily and total counters; reservation of the transaction | deposit, withdraw, set and revoke policies, validate, settle; sponsored execution | several operations of one transaction, nested ones, a day's boundary | deposits backed, at most the fees reimbursed, budgets hold |
| Social recovery (`recovery/MorpheusSocialRecoveryVerifier*`) | owner, oracle, factors and threshold; the open attempt with its approvals; identities, the session and the epoch of its terms; spent tickets; requests sent to the oracle, credit for its fees | set up, configure, request, submit or receive a ticket, finalise, cancel, act in a session, pay in, clean up | oracle answers late, repeated, after the attempt or the plugin's use ended; both requests and the refund call out in the middle | no stale or repeated approval changes an owner; a session keeps its terms |
| Administration (`UnifiedSmartWallet.Admin`, `*Authority`, market, recovery, registrar) | administrator, trusted core, registry, registrar, code; a proposal and its clock for each | set once, propose, confirm, cancel | proposals exchanged while a clock runs, old administrators' proposals | nothing changes without seven days' notice; the role is never lost |
| Composite plugins (`Composite`, `HookChildren`, `VerifierChildren`, `MultiHook`, `MultiSigVerifier`) | the wallet's list of a root's children, the root's own, what children hold | set, configure and clear children; replace, escape or sell with their root | children and targets are foreign code that calls back between reading and writing the list; composites set up before there was a list | whoever was a child and is not any more has forgotten the account |
| Spending hooks (`DailyLimitHook`, `TokenRestrictedHook`, `WhitelistHook`, `NeoDIDCredentialHook`) | limits, windows, balance snapshots | configure, clear, pre- and post-execute | a snapshot compared with a balance that others move meanwhile; the hook called as the operation's own target; windows that reach into two days; full histories | what really left in a window is within its limit |
| Session keys, subscriptions (`SessionKeyVerifier`, `SubscriptionVerifier`) | key, cap, spent amount, rotation; plan, last period charged, counter | set, clear, charge by operations | the owner changes a key while an operation signed with it runs; records deleted while the wallet's nonces stay | a key spends its cap at most, a subscription charges once a period |
| Signature verifiers (`Web3Auth`, `NeoNative`, `ZkLogin`, `TEE`, `WebAuthn`, `ZKEmail`) | a key per account | set, clear, validate | cryptography | out of a model checker's reach |

How they interact: the wallet calls plugins (`setPublicKey`, `clearAccount`,
`validateSignature`, `preExecute`, `postExecute`, maintenance calls), targets,
the market (`abandonListing`) and the paymaster (`settleReimbursement`); plugins
ask the wallet whether they are being configured or executed for an account
(its contexts); the market calls the wallet to enter, cancel and settle an
escrow; the recovery plugin calls the oracle and is called back; GAS payments
call the receiving contract back.

### Services and clients

Off the chain, concurrency is the ordinary kind: serverless instances and
browser tabs that run between any two awaits of each other, calls to Redis,
Supabase, a node, a wallet or a paymaster that fail or whose answers are lost or
late, instances killed and tabs closed.

| Component (source) | State it keeps | Operations | Hard behaviour | What makes it correct |
|---|---|---|---|---|
| Relay (`api/relay-transaction.js`, `api/proxyWitness.js`, `shared/transferOutcome.mjs`) | none of its own | check, simulate, authorise, price, sign and send an invocation, or forward a raw transaction | two simulations around an approval; a node that takes a transaction and loses the answer | the relay pays within caps and approval; its answers tell what was sent |
| Durable requests and limiter (`api/requestDurability.js`, `api/rateLimiter.js`) | locks, responses, journal, counters in Redis; counters in an instance's memory | claim, replay, complete, fail, release; count | locks that expire while a request runs; lost answers; a counter whose expiry was never set | what is replayed is final; the instance's count never stands in for Redis in production |
| Shared drafts (`operations/drafts.js`, `api/draft-operator.js`, `operatorMutationTransport.js`, `operatorKeyVault.js`, `supabase/migrations`) | the draft's row and links; operator keys in IndexedDB, session storage and backups | create, sign, append, operator mutations, rotate links, migrate and import keys | optimistic updates against SQL functions; a key claimed by two tabs | one sequence of operator mutations by one key; committed approvals and receipts are kept; the key is never lost |
| Home workspace (`HomeOperationsWorkspace.vue`, `operations/*`) | account, operation, records, draft, relay verdict | load, look up, stage, sign, persist, check, submit, rotate | everything may change while a wallet or a service is awaited | it submits the body that was frozen for signers |
| Contract picker (the same page, `contractLookupService.js`) | target field, resolved contract, methods, lookups | type, resolve, search, choose | answers out of order | the field settles on the contract it names |
| Shared draft page (`TransactionInfoView.vue`) | the draft shown, verdict of the relay | sign, check, submit, broadcast, rotate | chains of store calls, each answering with a whole draft | the relay sends the payload it passed last |
| Native profile client (`nativeWorkspace.js`, `nativeTransactionArtifact.mjs`, `nativeSmartAccountClient.mjs`) | node, review, imported transaction, retained submissions | discover, review, send, export, import, broadcast, poll | wallet, node and form change under a review | what is sent is on the screen, and once |
| Studio, market and identity pages; SDK (`sdk/js`), scripts, Supabase's other tables | forms, encodings | - | - | see section 6 |

How they interact: a page stages an invocation, freezes it as a draft, signers
append records to it, an operator checks and submits it to the relay or a
wallet; the relay asks the paymaster's service, simulates and sends to a node;
what executes it is the wallet contract of the first table.

The hazards, each at its line and with the properties that catch it, are in
`PROJECT.json`.

## 2. Modules and how they correspond to the code

Conventions. A call whose assertion fails faults the whole transaction and
changes nothing, so a failing call is one that is not enabled. A missing
storage entry is `None`, `UInt160.Zero` is `Zero`. `signer` is the witness a
call checks. History variables, which the code does not keep, are marked in
the declarations (`by`, `tenure`, `ran`, `paid`, `spent`, `since`, `namedBy`, `support`,
`executed`, `grant`, `spends`, `grants`, `charges`, `sent`, `applied`, `passed`).
Definitions named `X_Something` beside a definition `X` are deliberately wrong
variants of it, never used in a specification; substituting one for `X` breaks
the property that `PROJECT.json` names, which shows that the property depends
on that code.

### SmartWallet, AccountCustody

`SmartWallet` is the account book: registration, replacements, plugin calls,
metadata, escape, the wallet's side of escrow, platform accounts. One wallet
call is one step. All these calls require that no operation is executing and no
maintenance is running (`AssertAccountConfigurationIdle`), so they never run
inside one another; `ExecuteUserOp` appears only as far as it matters to the
book (`ExecuteUserOpEscape`, the cancellation of an escape).

- Variables are the storage prefixes: `account`, `pendingVerifier`,
  `pendingHook`, `pendingVerifierCall`, `pendingHookCall`,
  `escapeLastInitiated`, `metadata`, `escrow`, `cancelInitiated`, and `platform`
  for the bindings. `verifierConfig` and `hookConfig` are what the plugins hold
  per account, set by `setPublicKey` and deleted by `clearAccount`.
- Block time `now` is an integer; timelocks are constants, each account's own
  escape timelock is part of its registration. An account id is the hash of its
  registration parameters: `Registration` maps each id to its parameters.
- `AccountCustody` is the abstract promise about ownership: an account is opened
  by one owner, changes hands by a sale that its present owner has consented to
  and not withdrawn, or by the platform if it is a platform account. An open
  escrow is the consent (`ImplementsCustody`).

### AddressMarket

`AddressMarket` extends `SmartWallet` with the market: `listing`,
`pending` deposits, `pendingCount`, GAS balances. It composes both sides of every
call that crosses the two contracts: `CreateListing` enters the escrow,
`CancelListing` ends it, `SettleListing` settles it, `ForceCancelListing` is the
owner's forced cancellation with its notice to the market.

`SettleListing` transfers the price to the seller before it stores the sold
listing, and a transfer to a contract runs that contract. The model splits the
call there: `SettleListing` pushes a frame and pays, everything a contract may
do is enabled while the frame is open, `SettleClose` stores the listing that
was read before. `Abort` undoes the transaction at any such point.

### UserOpExecution, ReplayProtection

`UserOpExecution` is what happens inside a transaction. The state is the
wallet's storage as far as operations see it, a stack of wallet calls in
progress, and what the transaction started from. A frame's `todo` lists what
the call still does in the order of the source: enter a context, call a
contract, store, leave the context. While the next entry is a call, the contract
has the processor and may make any wallet call, return, or throw; `Throw`
unwinds to the newest call made in a `try`, `Abort` ends the transaction.
Plugins and targets are not modelled beyond that: they may do anything.

Time does not occur: a staged change may have matured between any two
transactions. This over-approximates `SmartWallet`, which has the timelocks.
`ReplayProtection` is the abstract promise of nonces: each channel of each
account executes the sequence numbers 0, 1, 2, ... once each and in this order;
only what a committed transaction ran counts.

### Sponsorship

The paymaster and the wallet's sponsored execution. `ExecuteSponsoredUserOp`
caps the reimbursement by what is left of the transaction's fees and reserves
it, then the operation runs (a frame, because other sponsored operations may
nest in it), then `SettleSponsoredUserOp` pays. `ValidatePaymasterOp` and
`SettlementAccepted` are two copies of the same rules in the code and are kept
as two here. Fees of zero are estimations, which never commit: their guard in
the code is arithmetic on the same line, and is modelled as it is written.

### ContractAuthority, PublicNotice

The six deployed kinds of contract repeat one administration: wallet, hooks,
verifiers, paymaster, market, recovery verifier. `kind` says which contract a
behaviour administers and thereby which settings it has, whether there is an
immediate first setting and whether the zero address may be proposed. Proposals
and clocks are separate cells as in the code. The new code of an upgrade is
taken to administer itself as the old one did.

`PublicNotice` is the promise to users: whatever is in force changes only to
what has stood announced, unaltered, for the delay, and an announcement is good
for one change; only what was never set may be set without notice.

A confirmed succession leaves the former administrator's other proposals in
place (HookAuthority.cs:252, UnifiedSmartWallet.Admin.cs:184): the model does so
too. They need the new administrator's signature, and the notice users had is
the full one.

### SocialRecovery

One record per account holds what the plugin stores for it (`held`); its fields
carry the storage prefixes' names. A ticket is what a factor or an identity
says through the oracle. What the oracle signs is outside the contract, so a
ticket for anybody and any nonce may be submitted or delivered at any time; a
signature that does not fit is a call that fails. Requests stay in
`recoveryRequest` and `actionRequest` until they are answered, which may be
after everything they were about has gone.

Both requests call the oracle before they store what they asked, and the
cleanup sends the credit back before it deletes the account's owner. These
calls are frames on the stack `calls`; whatever an account or an oracle may do
is enabled above a frame. `CoreIdle` stands for the wallet's refusal to
configure a plugin while an operation runs. `backupOwner` is the registry of the
wallet, which changes by `CoreChangesOwner`: the plugin may know an owner whom
the wallet has replaced, and the code reads both. The history variables are `support` (who spoke
for whom, and when, in the present attempt), `executed` (how often each ticket
took effect) and `grant` (the terms under which a session was allowed).
`Upgraded` accounts of `Init` are those set up before sessions had epochs.

### SpendingPolicies, AccountPlugins

`SpendingPolicies` is what the `DailyLimitHook`, the `SessionKeyVerifier` and
the `SubscriptionVerifier` store, and one operation at a time: the wallet's lock
is per account. An operation is three steps, because other contracts run
between them: `ExecuteUserOp` (validation, then preExecute of the hook), what
the target does, `Finish` (postExecute of the hook, then of the verifier); if an
assertion fails, `Fault` puts back what `op.saved` remembers. The target is a
transfer of the token, which may return false; any other contract, which moves
what it likes; or the hook itself, which accepts its own `postExecute` from the
wallet when an operation names it as the target (`HookCallRuns`). Tokens arrive
at any time. The owner configures session keys directly, not through the
wallet, so he may do it during an operation (`ByOwner`); the other two are
configured through the wallet and wait until it is idle.

`daily`, `session` and `billing` are the plugins' storage, `cursor` is the
wallet's nonce in the subscription's channel. The hook's rolling history is a map
from keys to records, as the code stores it under a counter. History: `spends` says
for either kind of window what really left the account at what time while a limit
of that kind stood, by balances, not by the hook's records, and the last limit then;
`grants` what the holder of each key transferred; `charges` when the
subscription was charged, and with what period. An account has one of the three
plugins in a behaviour (`installed`); their storage is disjoint. Signatures,
merchants and targets are left out: what does not fit is a call that fails.

`AccountPlugins` puts `SocialRecovery`, `SpendingPolicies` and
`CompositePlugins` side by side: an account uses one of them.

### CompositePlugins

One account, and one of its two roles (`role`: the code for hooks and for
verifiers is the same). `root` is the plugin in the wallet's record, `roster`
what each composite stores, `dependencies` the wallet's list (`None` where a
composite was set up before lists were kept: `EnsureLegacyDependencies` copies
the roster before it can change), `configured` the plugins that hold something
for the account. `staged` are the pending replacement and the pending call; a
timelock elapses in one step, because only its having elapsed matters here.

A call that the wallet makes is a frame of `calls`: what it is for, which
children it still has to clean up, which foreign contract is running. While one
runs, everything the owner or the market may call is enabled again (they may
have signed the same transaction), as far as `ConfigurationIdle` (the depth, the
context, the lock) allows. `Throw(i)` undoes a frame, whether an exception was
caught or the transaction failed. `SetChildren` is setHooks or setConfig,
`CleanRoot` a clearAccount, whatever caused it (a replacement, an escape, a
sale, the owner's call), `Configure` a call of a child or of a plain root.

### RelayEnvelope, DurableRequests, RelayRequests

`RelayEnvelope` is the relay's pure decisions: which invocations it accepts,
what it asks the paymaster, whose witness a transaction of proxy transfers
carries, and which results of a simulation mean that nothing moved. A transfer
is told by its method; amounts and arguments are left out.

`DurableRequests` is how a route remembers a request and limits its callers.
A request is in one phase for each call it awaits; every call to Redis may fail
before it takes effect, or after (its answer is lost), locks, responses and
counters expire, and the instance that runs a request may be killed. An
instance's memory is shared by the requests it serves.

`RelayRequests` adds the route's own phases (`Validate`, `Preview`, `Authorize`,
`Price`, `Submit`) and the chain, which executes a nonce once. A scene is a
deployment (the server's settings, every one of them a field) with what its
clients ask.

### DraftCollaboration

The row of a draft, the browsers' key vaults, each tab's session storage,
exported backups, what each tab's transport is doing (`tab`), the requests in
the API route, each with the row it loaded (`flight`), and the SQL calls that
have passed their check of the link and not yet locked the row (`rpc`). A
payload is its kind and the number of the operation. Links are numbered by
rotations. Signatures over mutations are unforgeable: a request carries the key
it was signed with. Without Supabase the same operations are one step on a
record of localStorage (`setting.remote`); without `navigator.locks` tabs do not
exclude each other (`setting.webLocks`).

### SignedInvocation, OperationsWorkspace, ContractPicker, SharedDraftPage, NativeWorkspace, WebApplication

`SignedInvocation` is what both draft pages build from a transaction body and
its signature records: the one invocation that all of them agree on, or a
refusal, and the payload for the relay or the wallet.

Each page is a module. A handler is split where it awaits; what is left of it is
an element of `flights` (`lookups`, `calls`), and its answer is a step of its
own, which re-checks exactly what the code re-checks. What is only displayed is
left out. `NativeWorkspace` marks a call that something newer outran as stale,
where the code compares version counters. `WebApplication` is the tab: it shows
one page and leaves the state of the others as that of a page that was never
opened; leaving a page drops its state, so one page per behaviour is all there
is.

### Modules for TLC

Each module `MCx` gives the constants of the instances in the `.cfg` files of
its prefix.

## 3. Runs

Sizes are distinct states.

| Run | Question | Instance | States |
|---|---|---|---|
| `verifiers` | do modules and their configuration stay consistent, is authority changed only with notice, do escapes and escrows belong to the present owner? refinement of `AccountCustody` | one platform account, two owners, two verifiers, a contract that is none, a staged call; time to 3, timelocks 1 and 2 | 592k |
| `sale` | does anything survive a sale, does anything change while listed? | one account with verifier and hook, a staged call that clears, a market; time to 3 | 381k |
| `market` | is every deposit backed, counted, at the price; do market and wallet agree; does the owner always get out? | a platform account, two listings, two prices, one nested settlement, the owner rotated; fairness | 137k |
| `execution` | do contexts stay paired around plugins that do anything? replay across nested batches; refinement of `ReplayProtection` | either one account with verifier and hook, or two without and batches of two; three calls deep, three wallet calls, a channel of two sequence numbers | 619k |
| `sponsored` | who pays for whom; counters, budgets, preflight | two sponsors, three transactions over two days of length two, nesting two, estimations, 256-bit limit scaled to 3 | 288k |
| `authority` | notice, succession, a role never lost; refinement of `PublicNotice` | six kinds, two live keys and a lost one, two contracts, two artifacts, three proposals, delay 2 in time 4 | 255k |
| `plugins` | do tickets count once and only for their attempt; is an owner replaced only by a threshold with a timelock behind it; do sessions keep their terms? is what leaves within the limit, do delegates keep to cap and period? do former children forget the account? | recovery: two configurations with different oracles (both factors and timelock 1; one factor and timelock 2), two principals, two tickets, nonces to 2, epochs to 3, time to 3, one call in progress; or spending: one of the three plugins, a limit of 2 in either kind of window, caps 0 and 2, two plans of different periods, transfers of 1 and 2, a day of two ticks, time from 2 to 5; or composites: two of them, two children, two calls in progress | 1.28M |
| `relay` | do answers tell what was sent, are stored answers final, does the relay pay within bounds, is the limiter bounded? | thirteen deployments, each with two requests: a retry under one key, or two clients; two fees, an approval with and without a ceiling | 875k |
| `drafts` | one sequence of operator mutations; nothing committed lost; the pinned key kept | two tabs of one browser, each with or without a former version's key, two signers, three keys, two kinds of mutation, three operations | 834k |
| `pages` | do pages settle on, submit and send what their users saw? | one tab on any of four pages, bounds of two or three on lookups, handlers, proofs, rotations, reviews and calls | 928k |
| `doc_escape`, `doc_cleanup` | see section 5 | | |

**Why the bounds are enough.** A timelock of 1 or 2 ticks distinguishes "not
yet", "exactly now" and "long ago"; in the wallet runs time reaches the sum of two
timelocks, so that one can mature, something happen, and a second one mature
(an escape, then a replacement; a cancellation timer left over by one escrow
and a second escrow). The account book treats accounts independently: no
operation but the registration of a batch reads or writes two accounts, so one
account with two owners and two modules shows what several do. Two owners are a
seller and a buyer; sales back to the first owner are included. In the market
one nested settlement is the least with which the inner one can see the outer
one half done. Execution needs two calls deep for "inside", three for an inner
call that catches what an innermost one throws. The bound on wallet calls of a
transaction stands for its gas. A channel of two sequence numbers reaches its
end (2^64 in the code) after two operations. In `Sponsorship` a day of two
ticks has an inside and a boundary; a later transaction may come in the same
window, at its end or after it. In recovery a nonce of 2 allows an attempt, its
end, and a second attempt that old tickets could reach; an account that leaves
the plugin and returns starts at nonce 0 again, which the bounds include. A day
of two ticks has records that leave the window one after the other, and parts of
two fixed windows within one day; a limit of 2 is one large transfer or two small
ones, so that a history of two records is never full before the limit is reached
(the refusal of a full history is an assertion like the others: it stops
more, and the run does not show it). Time leaves room for three keys, and for a
subscription that is overwritten and cleared between charges. A call that cleans up
and an operation that a child executes meanwhile are two calls; no third fits
(`ChildrenForget` shows it). Two
requests are a request and its retry, or two clients; everything that relates
more of them goes through the lock or the counter of one key. Three operations
on a draft are two that race and one that finds what they left. Histories of
length 1 overflow with the second entry.

**Deadlock** is checked except where a bounded behaviour uses up its
operations: the runs `sponsored`, `relay`, `drafts`, `pages`, `plugins` and
`doc_cleanup`.

**Fairness** occurs in one run, `market`, for `OwnerRecoversAccount`: blocks
keep being produced whatever transactions do (strong fairness of `Tick` between
transactions: the market may be in the middle of a transaction infinitely
often, but every transaction ends); a transaction that is running ends (weak
fairness of its closing or aborting: the VM meters gas); and an owner who may
force his escrow open sends that transaction some day (strong fairness, because
the registrar or a settlement may intervene). Nothing is assumed of buyers, of
the market's administrator or of the registrar. Nothing is promised by the
services and pages that would need a fair network: they may wait for ever, and
what they promise is what holds when an answer comes.

## 4. Proofs

All theorems hold for every value of the constants that satisfies the named
assumptions, in particular without any bound on accounts, owners, plugins,
markets, listings, factors, tickets, caps, plans, requests, clients, tabs, keys
or time, on the depth of calls or on the length of a batch. The assumptions say
that the constants have their types (timelocks are positive naturals, prices
and fees are naturals, a scene's settings are settings), that `None` is no value
of the types it stands beside (`NoneAssumption`, `NoListingAssumption`,
`CompositeAssumption`, `SpendingAssumption`, `LimitsAssumption`,
`MissingAssumption`), and that owners and listings are finitely many and neither
the market nor the zero address is an owner (`MarketAssumption`), and sponsors
finitely many and none of them the paymaster (`SponsorshipAssumption`): sums over
deposits have to be finite. The bound on time leaves room for the first day.

| Module | Theorem | Statement |
|---|---|---|
| `AddressMarket_proofs` | `TypeCorrect` | `Spec => []TypeOK` |
| | `CurrentOwnership` | `Spec => []OnlyCurrentOwnerActs` |
| | `NothingAstray` | `Spec => []NoModuleStateAstray` |
| | `CleanSale` | `Spec => []NothingOutlivesTheSale` |
| | `TimersInOrder` | `Spec => []TimersBelongToWhatTheyTime` |
| | `AuthorityAnnounced` | `Spec => AuthorityChangesAreAnnounced` |
| | `EscrowFrozen` | `Spec => EscrowFreezesTheAccount` |
| | `CustodyRefinement` | `Spec => ImplementsCustody` |
| | `ListingsMatchEscrows` | `MarketSpec => []ListedIffEscrowed` |
| | `DepositsSafe` | `MarketSpec => []DepositsInOrder` |
| | `SalesAccounted` | `MarketSpec => []SalesPaidAtPrice` |
| `UserOpExecution_proofs` | `RunningAlways` | `Spec => [](Running /\ chain \in Chains)` |
| | `ContextsPair` | `Spec => []CallsPaired` |
| | `EscrowStops` | `Spec => []EscrowStopsExecution` |
| | `AuthorityStill` | `Spec => AuthorityStillDuringCalls` |
| | `ExecutedInOrder` | `Spec => ImplementsReplayProtection` |
| `ContractAuthority_proofs` | `CellsCorrect` | `Spec => []CellsConsistent` |
| | `SuccessionByIncumbent` | `Spec => []OrderlySuccession` |
| | `NoticeRefinement` | `Spec => ImplementsPublicNotice` |
| `AccountPlugins_proofs` | `BooksCorrect` | `Spec => []BooksInv` |
| | `AttemptsCorrect` | `Spec => []AttemptsInv` |
| | `SuccessionHeld` | `Spec => SuccessionByThreshold` |
| | `TicketsCount` | `Spec => []TicketsCountOnce` |
| | `SessionTerms` | `Spec => []SessionsKeepTheirTerms` |
| | `PluginRecovery` | the last three of `PluginSpec` |
| | `ChildrenForget` | `Composites!Spec => []Composites!ChildrenFollowRoot` |
| | `PluginChildrenForget` | `PluginSpec => []ChildrenFollowRoot` |
| | `LimitsHeld` | `Spending!Spec => []Spending!DailyLimitHolds` |
| | `SessionCaps` | `Spending!Spec => []Spending!SessionCapsHold` |
| | `ChargesOncePerPeriod` | `Spending!Spec => []Spending!OneChargeAPeriod` |
| | `DelegatesBound` | `PluginSpec => []DelegatesKeepToTerms` |
| | `LimitsBound` | `PluginSpec => []LimitsHold` |
| `Sponsorship_proofs` | `BooksAgree` | `Spec => []BooksBalance` |
| | `FeesBound` | `Spec => []ReimbursedAtMostFees` |
| | `BudgetsKept` | `Spec => PaymentsWithinBudget` |
| | `PreflightHeld` | `Spec => PreflightHolds` |
| `RelayRequests_proofs` | `AnswersHonest` | `Spec => []AnswersTellWhatWasSent` |
| | `StoredFinal` | `Spec => []StoredAnswersAreFinal` |
| | `PaymentsBounded` | `Spec => []RelayPaysWithinBounds` |
| | `LimiterBounded` | `Spec => []LimiterInBounds` |
| `DraftCollaboration_proofs` | `ListsAlwaysKept` | `Spec => []ListsKept` |
| | `OneSequence` | `Spec => []OneOperatorSequence` |
| | `PinnedKeySurvives` | `Spec => []PinnedKeyIsKept` |
| `WebApplication_proofs` | `PagesSettled` | `Spec => []PagesSettle` |
| | `HomeDraftKept` | `Spec => HomeKeepsDraft` |
| | `SharedPassed` | `Spec => SharedRelaysWhatPassed` |
| | `NativeShown` | `Spec => NativeSendsWhatIsShown` |
| | `NativeOnce` | `Spec => NativeSendsOnce` |

**The account book.** Two inductive invariants. `Ownership` is the type
invariant with `OnlyCurrentOwnerActs` (an escrow and an escape belong to the
present owner). The two ownership facts need each other and the type invariant,
not more: owners change in two places only. A settlement deletes the escrow and
the escape in the step that changes the owner; a rotation is refused while there
is an escrow or an escape. `Keeping` adds that every account is `Tidy`: a
proposal stands only beside a module it would replace, plugins hold
configuration only of accounts they are installed on, all of it and all that is
staged comes from an owner of the present tenure, and each timer stands exactly
with what it times. Almost every operation names one account; lemmas say that
it leaves the others alone (`LeavesAlone`), so that tidiness is shown for one
account per operation, and others say what each group of actions does to its
record (`RegistrationRecord`, `ModuleRecord`, `EscapeRecord`,
`SettlementRecord`, `RotationRecord`). The two action properties are read off
the same records under `Ownership`: a change of a plugin needs a notice that has
ended or a sale, and every operation but the settlement, the cancellations and
the passing of time refuses an account in escrow. The refinement maps a
registration to `Open`, a settlement to `Sell`, a rotation to `Reassign`,
entering and leaving an escrow to `Consent` and `Withdraw`, everything else to a
stutter; that an escrow is the present owner's is what makes the settlement a
sale by the *present* owner.

**The market.** `MarketInv` holds at every moment, in the middle of a settlement
too, and says the same of the books that an abort would restore: an abort is
then a step like the others. Its parts: an open listing is its account's escrow
unless a settlement of it is in progress (`Listed`); counters count deposits and a
deposit on an open listing is its price (`Counted`); the market's GAS is the sum
of the deposits, and of every owner what he holds, has deposited and has paid
equals what he began with and earned (`Money`). The last one counts the
settlements in progress, whose buyer has paid and whose seller is not yet paid.
`SumOver` is a fold over a finite set, so its laws (one summand changes, all are
zero, a sum of a split set) are proved by induction on the subsets of a finite set,
with the set of good subsets in place of a predicate. Abort and the nesting of
settlements are why a plain "sum equals balance" is not inductive.

**Execution.** The inductive invariant `Running` is about the stack of calls.
What a frame has still to do is well bracketed (`Paired`): it closes each
context it opens, and calls out only inside one. Every frame is an operation that
holds the lock to its end, a batch that holds nothing, or maintenance, which
can only be the oldest, because it starts when nothing is open (`Stacked`).
Hence contexts that are set and frames that will close them match one to one, and
the depth counter is their number (`Balanced`, a bijection from which the
cardinalities follow). A nonce is ahead of what has run exactly while its
operation waits on the stack (`Consumed`): this makes the operation's own step
the abstract `Execute`, wherever nested calls run in between. What a try has
saved satisfies all of this for the frames below it (`SavedBelow`), so that
unwinding, the step that goes back in time, preserves the invariant, and a
channel's sequence never goes back below what was executed.

**The administration.** The inductive invariant is the type invariant, with a
clock for exactly what is proposed and no longer than it has stood, the
successor named by the incumbent and a role that is never burnt. That
proposals are timed is what turns the code's test of the clock into the
public's seven days. Lemmas treat the three things a call does to a slot (put,
delete, apply) once, for all six contracts and all slots.

**Social recovery.** Four inductive invariants, one on top of the other.
`BooksInv` is the type invariant and "set up entirely or not at all": owner and
configuration come and go together. `AttemptsInv` says of an open attempt that
`approved` is the number of factors whose tickets stand behind it, all of them
trusted now and all for its successor, that it is ready exactly with the
threshold, and that the timelock runs from the last of them; a closed attempt
leaves no approval that a later one would count. From it follows
`SuccessionByThreshold`, because finalising is the only step that replaces one
owner by another. `TicketsInv` says that a ticket has taken effect once if it
is marked as used, and never otherwise; marks outlive the plugin's use. `TermsInv`
says that terms change only together with the epoch, and that a session
authorised in the present epoch, and every request stored or about to be
stored for it, was allowed under the present terms.

**Composite plugins.** The theorems are about the instance `Composites` of
`AccountPlugins`. `CompositesInv` says which calls can be on the stack at all. Between
calls what the wallet and the plugins store agrees (`Agreed`: children of a
composite that is no root are forgotten, and no child is configured that is not
in the root's list). Maintenance starts only when no call is in progress, and
beneath a frame of it nothing can run but a single operation, which writes none
of the lists; so while a composite walks through its children, what is
left to clean up is exactly what is left on the frame. The bound of two calls in the
run is therefore no restriction.

**The plugins of an account.** `AccountPlugins` puts three modules side by side.
They share no state, so each step of the composition is a step of one module and
a stutter of the others; the theorems of each carry over. Those of the composites
and of the spending policies are therefore proved of the instances `Composites` and
`Spending` that the composition is made of.

**Session keys and subscriptions.** `KeysInv` says that keys came a day apart,
each within its cap, and that what the present one transferred is counted in the
verifier; the same of the state a fault would bring back; and that a transfer in
progress is within the cap of the key that signed it. The last part is what the
owner cannot break by installing another key meanwhile: the cooldown makes it a
different key. The day between two keys is all that `rotated`, which clearing
keeps, is needed for. `ChargesInv` says that the periods charged strictly
increase, that the wallet's cursor counts the charges, and that the verifier's
record tells the last of them unless it was cleared, in which case its counter
has fallen behind the cursor for good and nothing is charged any more.

**Spending limits.** `LimitsInv` compares what the hook has recorded with what
left. Of a rolling window (`RollingOk`): from any time of the last day on, the
hook's records add up to at least what left. The whole day's sum alone would not be
inductive, because a record that drops out of the window must not have covered a
transfer that stays in it. Of fixed windows (`FixedOk`): what left in the present
one is counted and within a limit, and what left before it within the last day was
within a limit of its own, which is why the property allows two limits a day. The
snapshot that postExecute will subtract from is the balance the operation began
with, unless the operation calls the hook itself, when nothing can leave; and all
of it is true of the state that a fault would bring back. A limit that is changed
or removed, a mode that is switched, a balance that grows meanwhile and a
history that is full are steps like the others. The proof needs laws of sums over
finite sets (`TotalSplit`, `TotalMonotone`, `TotalUnion`), by induction on subsets as
for the market's.

**Sponsorship.** An exception may put back the paymaster's state before any
operation in progress, so `Inv` speaks of all those states and of the present
one alike. Each is `InOrder`: the paymaster's GAS is the sum of the deposits,
and the counters of a scope are `Counted`: the total is the sum of all payments,
the day's spending the sum since the window opened, and nothing has been paid
after the window or in the future (without the last part a new window could not
start at zero). Each `Reserves`: what was paid and promised is within what was
reserved, and that within the fee; an operation adds to both sides, a settlement
moves its amount from promised to paid, and unwinding returns to a state of
which it was true. And they lie in one line (`Since`): along it the counters only
grow, unless they were cleared, when everything they hold was paid today. This
is what the preflight's promise needs: an exception may undo payments and even a
revocation, and if the total is then the same as before, the day's spending is no
higher. `BudgetsKept` follows from the books and the assertions of the settlement,
once it is clear that nothing else pays.

**The relay.** `Inv` speaks of one request at a time, of what is stored for one
key, and of the limiter's table. A request has sent nothing before the call to
the node, and its answer tells the truth after it; before it signs, `Signable`
collects what it has made sure of, phase by phase. A step of a request leaves
the others' phases, answers and approvals alone: it may only add itself to what
was sent. A stored answer belongs to a request past sending (`StaysPast`), so it
stays true whatever runs, expires or is killed. The lock appears nowhere: none of the
four properties depends on it, and locks do expire while their holder still
runs (a lock that held would avoid a second send, which is no property of this
code).

**Shared drafts.** `Inv == RowInv /\ KeysInv /\ TabsInv /\ RequestsInv`. The row's
counter is the number of committed operator mutations, all by the pinned key;
a request that may still commit carries a counter no smaller than the row's when it
was loaded, and one that equals it at most once; a tab that waits for an answer
holds the key it signed with, and that key lies in its browser's vault, so that
the key a claim pins is kept already. `ListsInv`, on top of it, is about the lists.
A mutation carries a name that no receipt has and no other request, and the receipts
of the row it loaded are the row's as long as the counter is (`Writable`): every
operator's write moves the counter, and what moves no counter (a signer's call, a
claim) leaves the receipts alone. So writing the metadata back loses no receipt,
though it may lose an activity entry, and the number of receipts is that of the
commits, up to the limit. Its lemmas are about the lists themselves: sorting by time
only moves entries (`SortedList`; the positions before an entry are counted, and the
counts are a bijection), the latest entries are among the old ones and the new one
(`LatestList`, `FiledList`).

**The pages.** One page is open at a time, so `WebInv` gives each an invariant of its
own, which speaks of the handlers that await and of what they will still do.
`PickerInv`: the lookup that still counts is for what the field says, and with none
under way the result is the field's. `HomeInv`: of the handlers that may still make a
draft there is one at most, and each carries the body that was stored; the draft on the
screen has that body. `SharedInv` lists the chains of calls a handler can still have
before it (`GateChains`, `OtherChains`): a check or a submission holds the flag from its
first call to the refresh of the receipts, and a verdict on the screen is about the
payload that was checked last. `NativeInv`: one call sends at most, and what was sent is
retained, and what is retained was sent unless its broadcast is at the preflight; while
a review is built there is neither a review nor an import, because a later request would
have superseded it. The theorems assume `MissingAssumption`: the value that stands for
"nothing" is no name and none of the records compared with it.

**Only model-checked**: the liveness property. Liveness under fairness and
`ENABLED` are out of the prover's reach, and so are induction schemes that take an
operator. Induction over the elements of a given set is not, and the sums of the
market, of the daily limit and of the sponsors' books rest on it.

## 5. Findings

Two disagreements are shown by runs that TLC must find violated.

- `doc_escape`. `docs/PROTOCOL_COMPLETENESS_AUDIT.md:125`: any normal
  `executeUserOp()` cancels an escape in progress. `ConfirmVerifierUpdate` and
  `ConfirmHookUpdate` read the account record, call the old plugin's
  `clearAccount`, and write the record back whole
  (`UnifiedSmartWallet.Accounts.cs:329`, `:209`). An operation executed during
  that call cancels the escape, and the write revives it.
- `doc_cleanup`. `docs/PLUGIN_DEVELOPER_GUIDE.md:247`: a plugin that keeps funds
  returns them in `clearAccount` rather than orphan them. The recovery plugin
  deletes the credit and sends it to the owner before it deletes the owner's
  record (`MorpheusSocialRecoveryVerifier.V3.cs:81-91`); an owner that is a
  contract and pays GAS in again when it receives the refund leaves credit for
  an account without an owner.

Further differences met while reading, without a run:

- `docs/PROTOCOL_COMPLETENESS_AUDIT.md:49` says that staged replacements wait
  seven days; `UnifiedSmartWallet.Internal.cs:34` sets 24 hours;
- the same document (line 200) speaks of a "global execution lock across all
  operations"; the lock is per account (`UnifiedSmartWallet.Execution.cs:69`);
  operations of different accounts nest, which `execution` includes;
- line 124 gives the escape a cooldown of seven days; `Internal.cs:33` has one
  hour;
- comments on the administration's window (`UnifiedSmartWallet.Admin.cs:20`)
  call seven days "an escape window" for account owners. An escape timelock is
  chosen at registration between 7 and 90 days (`Accounts.cs:78-79`), so owners
  with a longer one cannot finish an escape within the window;
- a recovery nonce starts at 0 again when an account sets the plugin up anew:
  tickets and stored oracle requests of the former use that were not spent and
  have not expired are accepted again, if factors and oracle are the same; spent
  ones are refused, and sessions are not affected, because their epoch is kept;
- the numbers of requests to the oracle are one key space, whichever oracle gave
  them;
- the home page asks for "a successful preflight" before it submits through the
  relay (`HomeOperationsWorkspace.vue:2361`), but checking again replaces the
  request the last verdict was about before the new verdict arrives (`:2220`);
  `TransactionInfoView.vue` keeps the two together, and
  `SharedRelaysWhatPassed` shows it;
- an activity entry appended by SQL between an operator mutation's load and its
  update is written over (`draft-operator.js:219-250`), although
  `20260611_draft_metadata_hardening.sql:14-19` sets out to prevent that;
- the relay's fingerprint of a request leaves out the network
  (`relay-transaction.js:178`); it matters only where clients may choose one;
- `shared/transferOutcome.mjs:11` lists three places "that must never disagree"
  about a transfer that returned false. The relay judges a simulation by the
  operations of the invocation, the wallet a sent transaction by its events; when
  a batch contains an operation that executes another, there are more events than
  results, and then every `false` counts (`FailedTransfers`);
- `docs/DATA_FLOW.md:196` calls the body of a draft immutable; the home page
  stages on after the draft was persisted, replaces the operation it shows, and
  fails only when it replaces the body (`HomeOperationsWorkspace.vue:1905`): what
  is signed there afterwards does not fit the draft, and is refused at submission;
- the page that rotates the operator's link keeps the old one in its route
  (`TransactionInfoView.vue:1354`) and has no operator access until it is opened
  with the new one;
- `SubscriptionVerifier.cs:157-159` says that the period is the throttle and
  "the nonce only fixes the in-channel ordering". When a plugin is cleared and a
  subscription created again under its old id, the counter starts at 0 while the
  wallet's sequence goes on: once charged, it can never be charged again. The
  same nonce is what keeps the deleted period record from allowing a second
  charge;
- a subscription overwritten with another period compares the number of the
  present period with one counted in periods of another length
  (`SubscriptionVerifier.cs:141-144`): a change to a longer period may make the
  merchant wait for many periods, a change to a shorter one lets him charge at
  once. `OneChargeAPeriod` is therefore stated of charges of one period's length;
- `DailyLimitHook` keeps the spending of rolling and fixed windows apart:
  changing the mode of a limit begins with what that mode remembers
  (`DailyLimitHook.cs:90-115`); removing a limit clears the rolling history and
  keeps the fixed sum. Limits are therefore stated per mode;
- clearing a session key forgets what it spent
  (`SessionKeyVerifier.cs:201-217`); only the cooldown keeps a new key from
  beginning at zero at once. A key set over another starts with the other's
  spending;
- the verifier's postExecute runs after the hook has metered
  (`UnifiedSmartWallet.Execution.cs:167-192`): what a verifier moved there would
  not be metered;
- a wallet error after the wallet has sent (`nativeWorkspace.js:1063`) counts as
  not sent; the submission is then not retained.

## 6. What is not modelled

- Cryptography: signature checks, hashing, the payloads of verifiers. An
  operation's acceptance is a free choice.
- The gas budgets of the PLATFORM build, argument validation, the text of
  errors, events and read-only queries.
- The script parser and witness rules (`VerifyContext`, `Proxy`): planned
  below. How `MultiSigVerifier` counts its children's signatures. The hooks that admit
  or refuse by target, token or credential (`TokenRestrictedHook`,
  `WhitelistHook`, `NeoDIDCredentialHook`) keep a list and look it up.
- The native profile's contracts (`SMARTACCOUNT_NATIVE`): a second build of the
  plugins against a core that is not in the repository. Its client is modelled
  (`NativeWorkspace`), but for the encodings of native operations.
- The studio, market and identity pages: forms that build one contract call
  each; what such a call may do is the contracts' modules' matter. The SDK and
  the shared client code are stateless encodings of operations, typed data and
  scripts. Translations, styles and layout.
- Mocks (test doubles; plugins and targets may do anything here), deployment
  scripts, and the tables of the database that only mirror what the chain says.
- Much of the JavaScript is therefore outside the map: texts, templates and
  encodings have no states to check.
- A policy of the paymaster restricts target and method; here it allows a set
  of operations.
- A platform account keeps its binding when it is sold: the registrar may
  replace the buyer. The model and `AccountCustody` allow it, because the code
  does and no document says otherwise.

## 7. Plan

Done, with proofs: the account book with its abstract custody; the market over
it; execution with replay protection; the administration; social recovery;
spending limits, session keys and subscriptions; composite plugins; sponsorship;
the relay; shared drafts; four pages. Next, in this order:

1. **Proxy witness binding**: the parser of a transaction script as a pure
   function, against a reference definition of "exactly one call of
   executeUserOp", over bounded scripts; the verification context composed with
   `UserOpExecution`.
2. **Owners and upgrades**: composition of `ContractAuthority` with escapes: who
   has time to leave before an upgrade.

Every safety property of the runs has its theorem; both modules would get theirs.
