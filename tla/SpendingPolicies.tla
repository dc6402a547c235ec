-------------------------- MODULE SpendingPolicies --------------------------
(***************************************************************************)
(* How much of a token leaves an account: the DailyLimitHook meters what   *)
(* each operation takes out, a SessionKeyVerifier lets a delegate transfer *)
(* up to a cap, a SubscriptionVerifier lets a merchant charge once in a    *)
(* billing period.  They share nothing, and an account has one of them.    *)
(*                                                                         *)
(* One operation at a time: the wallet's lock is per account, and keeps    *)
(* everybody from configuring a plugin through the wallet meanwhile.  An   *)
(* operation is three steps, between which other contracts run: validation *)
(* with preExecute, the target, postExecute of hook and verifier.  An      *)
(* assertion that fails in the last undoes all three (Fault).              *)
(*                                                                         *)
(* There is one account, one token and one subscription: storage of others *)
(* is apart.  Token and wallet are external; signatures are abstracted.    *)
(***************************************************************************)
EXTENDS Integers, Sequences, Functions, FiniteSets, FiniteSetsExt

CONSTANTS
  None,
  Policy,       \* what may be installed: "hook", "session", "subscription"
  Day,          \* OneDayMs, KeyRotationCooldownMs
  Limit,        \* maxima of a daily limit
  Cap,          \* spending limits of session keys, 0 for none
  Plan,         \* subscriptions: [amount, period]
  Value,        \* what is transferred at once
  MaxHistory,   \* MaxHistorySize
  MaxBalance,   \* bound on what the account holds
  MaxClock      \* bound on block time

VARIABLES
  clock,        \* Runtime.Time
  installed,    \* one of Policy
  balance,      \* of the account's asset address
  daily,        \* what the hook holds: limit, window, history, snapshot
  session,      \* what the SessionKeyVerifier holds: key, spent, rotation
  billing,      \* what the SubscriptionVerifier holds: plan, period, counter
  cursor,       \* the wallet's next sequence in the subscription's channel
  op,           \* the operation in progress
  spends,       \* history: what left at what time while a limit stood
  grants,       \* history: keys, with what each one's holder transferred
  charges       \* history: when the subscription was charged

policies == <<daily, session, billing>>
ledger == <<spends, grants, charges>>
vars == <<clock, installed, balance, policies, cursor, op, ledger>>

NoDaily ==
  [limit |-> None, spent |-> 0, lastReset |-> 0, history |-> <<>>, snapshot |-> None]
NoSession == [key |-> None, spent |-> 0, rotated |-> None]
NoBilling == [plan |-> None, lastPeriod |-> 0, counter |-> 0]
NoSpends == [rolling |-> <<>>, fixed |-> <<>>]

Init ==
  /\ clock = Day
  /\ installed \in Policy
  /\ balance = MaxBalance
  /\ daily = NoDaily /\ session = NoSession /\ billing = NoBilling
  /\ cursor = 0 /\ op = None
  /\ spends = NoSpends /\ grants = {} /\ charges = <<>>

Idle == op = None

Total(records, keys) == MapThenSumSet(LAMBDA k : records[k].amount, keys)

With(records, key, record) ==
  [k \in DOMAIN records \cup {key} |-> IF k = key THEN record ELSE records[k]]

-----------------------------------------------------------------------------
(* DailyLimitHook *)

Configured == UNCHANGED <<clock, installed, balance, cursor, op>>

SetDailyLimit(max, rolling) ==
  /\ Idle /\ installed = "hook"
  /\ daily' = [daily EXCEPT !.limit = [max |-> max, rolling |-> rolling]]
  /\ UNCHANGED <<session, billing, ledger>> /\ Configured

(* Without its limit a token's records of a rolling window are deleted; the *)
(* sum of a fixed window stays.                                             *)
RemoveDailyLimit ==
  /\ Idle /\ daily.limit # None
  /\ daily' = [daily EXCEPT !.limit = None, !.history = <<>>]
  /\ spends' = [spends EXCEPT !.rolling = <<>>]
  /\ UNCHANGED <<session, billing, grants, charges>> /\ Configured

(* The hook is replaced, its account cleared, and it is installed again. *)
ClearHookAccount ==
  /\ Idle /\ installed = "hook"
  /\ daily' = NoDaily
  /\ spends' = NoSpends
  /\ UNCHANGED <<session, billing, grants, charges>> /\ Configured

Live(records) == {k \in DOMAIN records : records[k].at >= clock - Day}

WindowIsOver == clock >= daily.lastReset + Day

FixedWindowSpent == IF WindowIsOver THEN 0 ELSE daily.spent
RollingWindowSpent == Total(daily.history, Live(daily.history))

Admits(amount) ==
  IF daily.limit.rolling
  THEN /\ RollingWindowSpent + amount <= daily.limit.max
       /\ Cardinality(Live(daily.history)) < MaxHistory
  ELSE FixedWindowSpent + amount <= daily.limit.max

(* PreExecute, the hook's own check of a direct transfer included. *)
PreExecute(transfer, amount) ==
  IF daily.limit = None THEN UNCHANGED daily
  ELSE /\ transfer => Admits(amount)
       /\ daily' = [daily EXCEPT !.snapshot = balance]

(* The records that have left the window are deleted.  Each record has a    *)
(* key of its own: the code counts them, here it is one not in use.         *)
RecordTransaction(amount) ==
  LET live == Restrict(daily.history, Live(daily.history))
      unused == CHOOSE k \in 1 .. MaxHistory : k \notin DOMAIN live
  IN With(live, unused, [at |-> clock, amount |-> amount])

Recorded_WindowKept(amount) ==
  IF daily.limit.rolling
  THEN [daily EXCEPT !.snapshot = None, !.history = RecordTransaction(amount)]
  ELSE [daily EXCEPT !.snapshot = None, !.spent = FixedWindowSpent + amount]
Recorded(amount) ==
  IF daily.limit.rolling
  THEN [daily EXCEPT !.snapshot = None, !.history = RecordTransaction(amount)]
  ELSE [daily EXCEPT !.snapshot = None, !.spent = FixedWindowSpent + amount,
          !.lastReset = IF WindowIsOver THEN clock ELSE @]

(* MeterAllLimitedOutflows: what left, or what a transfer declared if more. *)
PostExecute(declared) ==
  IF daily.limit = None \/ daily.snapshot = None THEN UNCHANGED daily
  ELSE LET left == daily.snapshot - balance
           outflow == IF declared > left THEN declared ELSE left
       IN IF outflow <= 0 THEN daily' = [daily EXCEPT !.snapshot = None]
          ELSE Admits(outflow) /\ daily' = Recorded(outflow)

-----------------------------------------------------------------------------
(* SessionKeyVerifier *)

(* By the owner, directly: the wallet's lock does not matter here, so the   *)
(* target of an operation may do it for him (before or after it transfers). *)
ByOwner == installed = "session" /\ (op # None => op.returned # None)

SetSessionKey_NoCooldown(cap, method, until) ==
  /\ ByOwner
  /\ clock < until /\ (cap > 0 => method = "transfer")
  /\ session' = [session EXCEPT !.rotated = clock,
       !.key = [cap |-> cap, method |-> method, until |-> until, since |-> clock]]
  /\ grants' = grants \cup {[since |-> clock, cap |-> cap, total |-> 0]}
  /\ UNCHANGED <<daily, billing, spends, charges>> /\ Configured

(* What was spent under the former key still counts. *)
SetSessionKey(cap, method, until) ==
  /\ ByOwner
  /\ clock < until /\ (cap > 0 => method = "transfer")
  /\ session.rotated # None => clock >= session.rotated + Day
  /\ session' = [session EXCEPT !.rotated = clock,
       !.key = [cap |-> cap, method |-> method, until |-> until, since |-> clock]]
  /\ grants' = grants \cup {[since |-> clock, cap |-> cap, total |-> 0]}
  /\ UNCHANGED <<daily, billing, spends, charges>> /\ Configured

(* ClearSessionKey, and ClearAccount with it: the rotation is remembered. *)
ClearSessionKey ==
  /\ ByOwner
  /\ session' = [session EXCEPT !.key = None, !.spent = 0]
  /\ UNCHANGED <<daily, billing, ledger>> /\ Configured

SessionAllows_CapIgnored(call, amount) ==
  /\ session.key # None /\ clock <= session.key.until
  /\ session.key.method \in {"*", call}
SessionAllows(call, amount) ==
  /\ session.key # None /\ clock <= session.key.until
  /\ session.key.method \in {"*", call}
  /\ call = "transfer" /\ session.key.cap > 0 => session.spent + amount <= session.key.cap

(* PostExecute: a key that was cleared meanwhile leaves nothing to check. *)
SessionCharged(call, amount, returned) ==
  IF session.key = None \/ call # "transfer" THEN UNCHANGED session
  ELSE /\ returned
       /\ IF session.key.cap = 0 THEN UNCHANGED session
          ELSE /\ session.spent + amount <= session.key.cap
               /\ session' = [session EXCEPT !.spent = @ + amount]

-----------------------------------------------------------------------------
(* SubscriptionVerifier *)

(* A subscription under the same id is overwritten; what it has charged is  *)
(* not forgotten.                                                           *)
CreateSubscription(plan) ==
  /\ Idle /\ installed = "subscription"
  /\ billing' = [billing EXCEPT !.plan = plan]
  /\ UNCHANGED <<daily, session, ledger>> /\ Configured

(* ClearAccount; the wallet's nonces stay. *)
ClearSubscriptions ==
  /\ Idle /\ installed = "subscription"
  /\ billing' = NoBilling
  /\ UNCHANGED <<daily, session, ledger>> /\ Configured

CurrentPeriod == clock \div billing.plan.period

(* The merchant's signature is given with the operation. *)
SubscriptionAllows(call, amount) ==
  /\ billing.plan # None
  /\ call = "transfer" /\ amount <= billing.plan.amount
  /\ CurrentPeriod > 0 /\ CurrentPeriod > billing.lastPeriod
  /\ billing.counter = cursor

SubscriptionCharged_PeriodNotStored(returned) ==
  /\ returned
  /\ billing' = [billing EXCEPT !.counter = @ + 1]
SubscriptionCharged(returned) ==
  /\ returned
  /\ billing' = [billing EXCEPT !.lastPeriod = CurrentPeriod, !.counter = @ + 1]

-----------------------------------------------------------------------------
(* An operation *)

ValidateSignature(call, amount) ==
  /\ installed = "session" => SessionAllows(call, amount)
  /\ installed = "subscription" => SubscriptionAllows(call, amount)

(* Validation and preExecute.  A call is a transfer of the token, another   *)
(* contract's method, or a callback of the hook itself, called as a target. *)
ExecuteUserOp(call, amount) ==
  /\ Idle /\ (call = "hook" => installed = "hook")
  /\ ValidateSignature(call, amount)
  /\ PreExecute(call = "transfer", amount)
  /\ cursor' = IF installed = "subscription" THEN cursor + 1 ELSE cursor
  /\ op' = [call |-> call, amount |-> amount, returned |-> None, key |-> session.key,
            saved |-> [balance |-> balance, daily |-> daily, session |-> session,
                       cursor |-> cursor, grants |-> grants]]
  /\ UNCHANGED <<clock, installed, balance, session, billing, ledger>>

Returns(result) == op' = [op EXCEPT !.returned = result]

(* A transfer that returns false has moved nothing. *)
TransferRuns ==
  /\ ~Idle /\ op.call = "transfer" /\ op.returned = None
  /\ \/ balance >= op.amount /\ balance' = balance - op.amount /\ Returns(TRUE)
     \/ UNCHANGED balance /\ Returns(FALSE)
  /\ UNCHANGED <<clock, installed, policies, cursor, ledger>>

(* Any other call moves what it likes. *)
OtherCallRuns(amount) ==
  /\ ~Idle /\ op.call = "other" /\ op.returned = None
  /\ amount <= balance /\ balance' = balance - amount
  /\ Returns(TRUE)
  /\ UNCHANGED <<clock, installed, policies, cursor, ledger>>

(* The hook accepts its own callback from the wallet, as a target, too; its *)
(* preExecute would read again a balance that nothing in this call lowers.  *)
HookCallRuns(declared) ==
  /\ ~Idle /\ op.call = "hook" /\ op.returned = None
  /\ PostExecute(declared)
  /\ Returns(TRUE)
  /\ UNCHANGED <<clock, installed, balance, session, billing, cursor, ledger>>

(* Tokens come in at any time, while a call runs from it as well. *)
Receive(amount) ==
  /\ balance + amount <= MaxBalance
  /\ balance' = balance + amount
  /\ UNCHANGED <<clock, installed, policies, cursor, op, ledger>>

(* What an operation takes out: all that it transferred itself, and of what *)
(* others moved, as much as did not come back.                              *)
Leaves ==
  LET missing == op.saved.balance - balance
  IN IF op.call = "transfer" /\ op.returned /\ op.amount > missing THEN op.amount ELSE missing

(* What left at the same time is one record, with the latest limit. *)
Noted(records) ==
  LET before == IF clock \in DOMAIN records THEN records[clock].amount ELSE 0
  IN With(records, clock, [amount |-> before + Leaves, max |-> daily.limit.max])

Credited(g) ==
  IF g.since = op.key.since /\ g.cap > 0 THEN [g EXCEPT !.total = @ + op.amount] ELSE g

(* postExecute of the hook, then of the verifier. *)
Finish ==
  /\ ~Idle /\ op.returned # None
  /\ PostExecute(IF op.call = "transfer" /\ op.returned THEN op.amount ELSE 0)
  /\ spends' = IF daily.limit = None \/ Leaves <= 0 THEN spends
               ELSE IF daily.limit.rolling THEN [spends EXCEPT !.rolling = Noted(@)]
               ELSE [spends EXCEPT !.fixed = Noted(@)]
  /\ IF installed = "session"
       THEN /\ SessionCharged(op.call, op.amount, op.returned)
            /\ grants' = IF op.call = "transfer" /\ op.returned
                        THEN {Credited(g) : g \in grants} ELSE grants
       ELSE UNCHANGED <<session, grants>>
  /\ IF installed = "subscription"
       THEN /\ SubscriptionCharged(op.returned)
            /\ charges' = Append(charges, [at |-> clock, period |-> billing.plan.period])
       ELSE UNCHANGED <<billing, charges>>
  /\ op' = None
  /\ UNCHANGED <<clock, installed, balance, cursor>>

Fault ==
  /\ ~Idle
  /\ balance' = op.saved.balance /\ daily' = op.saved.daily
  /\ session' = op.saved.session /\ cursor' = op.saved.cursor
  /\ grants' = op.saved.grants
  /\ op' = None
  /\ UNCHANGED <<clock, installed, billing, spends, charges>>

Since(records, t) == {at \in DOMAIN records : at >= t}
Recent(records) == Restrict(records, Since(records, clock + 1 - Day))

(* Spending that no window of the present reaches leaves the history. *)
Tick ==
  /\ Idle /\ clock < MaxClock
  /\ clock' = clock + 1
  /\ spends' = [rolling |-> Recent(spends.rolling), fixed |-> Recent(spends.fixed)]
  /\ UNCHANGED <<installed, balance, policies, cursor, op, grants, charges>>

Configure ==
  \/ \E max \in Limit, rolling \in BOOLEAN : SetDailyLimit(max, rolling)
  \/ RemoveDailyLimit \/ ClearHookAccount
  \/ \E cap \in Cap, method \in {"transfer", "*"}, until \in clock + 1 .. MaxClock :
       SetSessionKey(cap, method, until)
  \/ ClearSessionKey
  \/ \E plan \in Plan : CreateSubscription(plan)
  \/ ClearSubscriptions

Operate ==
  \/ \E amount \in Value : ExecuteUserOp("transfer", amount)
  \/ ExecuteUserOp("other", 0) \/ ExecuteUserOp("hook", 0)
  \/ TransferRuns
  \/ \E amount \in Value : OtherCallRuns(amount) \/ Receive(amount)
  \/ \E declared \in {0} \cup Value : HookCallRuns(declared)
  \/ Finish \/ Fault

Next == Configure \/ Operate \/ Tick

Spec == Init /\ [][Next]_vars

-----------------------------------------------------------------------------
(* Properties *)

(* What really left the account while a limit stood is within it: under a   *)
(* rolling window in any day; under a fixed one twice the limit at most,    *)
(* because a day may reach into two windows.                                *)
DailyLimitHolds ==
  LET rolling == spends.rolling
      fixed == spends.fixed
      today == Since(fixed, clock - Day + 1)
  IN /\ \A last \in DOMAIN rolling : (\A at \in DOMAIN rolling : at <= last) =>
          Total(rolling, DOMAIN rolling) <= rolling[last].max
     /\ today # {} => \E at \in today : Total(fixed, today) <= 2 * fixed[at].max

(* No key transfers more than its cap, and nobody gets around it by keys    *)
(* that follow each other faster than once a day.                           *)
SessionCapsHold ==
  \A g, h \in grants :
    /\ g.cap > 0 => g.total <= g.cap
    /\ g # h => g.since + Day <= h.since \/ h.since + Day <= g.since

(* A subscription charges at most once in a billing period, although it is  *)
(* overwritten, cleared and created again.                                  *)
OneChargeAPeriod ==
  \A i, j \in DOMAIN charges :
    LET p == charges[i].period IN
    i < j /\ charges[j].period = p =>
      charges[i].at \div p # charges[j].at \div p
=============================================================================
